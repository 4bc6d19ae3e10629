---------------------------- MODULE ProcessWatch ----------------------------
(***************************************************************************)
(* What Process::Controller promises while its netlink socket is open: it  *)
(* knows a set of pids, and every agent holds one of them or none. There   *)
(* are no identifiers, addresses, duplicates, cached states or jobs here:  *)
(* each message is one step that changes what is known and, with it, what  *)
(* every agent holds. The kernel and the socket are those of the code.     *)
(***************************************************************************)
EXTENDS Naturals, Sequences

CONSTANTS
  Pid,     (* Process numbers.                                              *)
  Exe,     (* Programs.                                                     *)
  Agent,   (* Agents.                                                       *)
  Watch,   (* Watch[a]: the program that agent a watches.                   *)
  RcvBuf,  (* Messages the socket holds before it drops them.               *)
  None     (* No process.                                                   *)

VARIABLES
  proc,      (* proc[p]: the program p runs, "zombie", or "free".           *)
  events,    (* Messages in the socket, oldest first.                       *)
  open,      (* The socket is open.                                         *)
  known,     (* The pids that are registered.                               *)
  watching,  (* The agents that are registered.                             *)
  held       (* held[a]: the process of agent a, or None.                   *)

watchVars == <<proc, events, open, known, watching, held>>

Runs(a, p)       == proc[p] = Watch[a]
Message(what, p) == [what |-> what, pid |-> p]

-----------------------------------------------------------------------------
(* The kernel: exec and exit are announced, unless the message is dropped. *)

Sent(m) == IF open /\ Len(events) < RcvBuf THEN Append(events, m) ELSE events

KernelFork(p) == /\ proc[p] = "free"
                 /\ \E e \in Exe : proc' = [proc EXCEPT ![p] = e]
                 /\ UNCHANGED events

KernelExec(p) == /\ proc[p] \in Exe
                 /\ \E e \in Exe : proc' = [proc EXCEPT ![p] = e]
                 /\ events' = Sent(Message("exec", p))

KernelExit(p) == /\ proc[p] \in Exe
                 /\ proc' = [proc EXCEPT ![p] = "zombie"]
                 /\ events' = Sent(Message("exit", p))

KernelReap(p) == /\ proc[p] = "zombie"
                 /\ proc' = [proc EXCEPT ![p] = "free"]
                 /\ UNCHANGED events

Environment ==
  /\ \E p \in Pid : KernelFork(p) \/ KernelExec(p) \/ KernelExit(p) \/ KernelReap(p)
  /\ UNCHANGED <<open, known, watching, held>>

-----------------------------------------------------------------------------
(* The watcher.                                                            *)

Open == /\ ~open /\ open' = TRUE
        /\ UNCHANGED <<proc, events, known, watching, held>>

(* Whoever waits for the program that p runs now takes p.                  *)
Learn(p) ==
  /\ open /\ events # <<>> /\ Head(events) = Message("exec", p)
  /\ events' = Tail(events)
  /\ known' = known \cup {p}
  /\ held' = [a \in Agent |-> IF a \in watching /\ held[a] = None /\ Runs(a, p)
                              THEN p ELSE held[a]]
  /\ UNCHANGED <<proc, open, watching>>

(* Whoever holds p lets go of it.                                          *)
Forget(p) ==
  /\ open /\ events # <<>> /\ Head(events) = Message("exit", p)
  /\ events' = Tail(events)
  /\ known' = known \ {p}
  /\ held' = [a \in Agent |-> IF held[a] = p THEN None ELSE held[a]]
  /\ UNCHANGED <<proc, open, watching>>

Hear == \E p \in Pid : Learn(p) \/ Forget(p)

(* A new agent takes a known process that runs its program, if there is    *)
(* one.                                                                    *)
Register(a) ==
  LET fit == {p \in known : Runs(a, p)}
  IN  /\ open /\ a \notin watching
      /\ watching' = watching \cup {a}
      /\ \E p \in (IF fit = {} THEN {None} ELSE fit) : held' = [held EXCEPT ![a] = p]
      /\ UNCHANGED <<proc, events, open, known>>

Unregister(a) ==
  /\ a \in watching
  /\ watching' = watching \ {a}
  /\ held' = [held EXCEPT ![a] = None]
  /\ UNCHANGED <<proc, events, open, known>>

WatchInit ==
  /\ proc \in [Pid -> Exe \cup {"zombie", "free"}]
  /\ events = <<>> /\ open = FALSE
  /\ known = {p \in Pid : proc[p] # "free"}
  /\ watching = {} /\ held = [a \in Agent |-> None]

WatchNext ==
  Environment \/ Open \/ Hear \/ \E a \in Agent : Register(a) \/ Unregister(a)

WatchSpec == WatchInit /\ [][WatchNext]_watchVars

(* The socket is opened, and every message is handled.                     *)
WatchFairSpec == WatchSpec /\ WF_watchVars(Open) /\ WF_watchVars(Hear)

=============================================================================
