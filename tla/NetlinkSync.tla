---------------------------- MODULE NetlinkSync ----------------------------
(***************************************************************************)
(* How far the identifier list of ProcessController follows the kernel's   *)
(* process table when it is fed by the netlink socket. Two history         *)
(* variables record which notifications could have reached the code, so    *)
(* that the invariants promise exactly what the code can deliver: messages *)
(* dropped by a full socket, and those of the window between the reading   *)
(* of /proc and the opening of the socket, are lost for good. A third one  *)
(* records which agents an evaluation that takes no lock may mislead.      *)
(***************************************************************************)
EXTENDS ProcessController

VARIABLES
  announced,  (* Pids that run and were in /proc at the start, or whose     *)
              (* exec, since they were forked, was put on the socket.       *)
  unheard,    (* Pids one of whose exits was never put on the socket.       *)
  crossed     (* Agents that lost their process while some thread had found *)
              (* them available and not shown it, until that is put right.  *)

history  == <<announced, unheard>>
syncVars == <<vars, history, crossed>>

(* Some thread is going to show agent a as available.                      *)
InFlight(a) == \E w \in Worker : <<w, a, "available">> \in verdicts

(* crossed: how every step keeps it.                                       *)
Misled ==
  {a \in Agent :
     /\ ptr'[a] = Null
     /\ \/ ptr[a] # Null /\ InFlight(a)
        \/ a \in crossed /\ (InFlight(a)' \/ shown'[a] = "available")}

SyncInit ==
  /\ Init
  /\ announced = {p \in Pid : Alive(p)}
  /\ unheard = {p \in Pid : Listed(p) /\ ~Alive(p)}
  /\ crossed = {}

SyncExec(p, e) ==
  /\ Exec(p, e)
  /\ announced' = IF Delivered THEN announced \cup {p} ELSE announced
  /\ UNCHANGED unheard

SyncExit(p) ==
  /\ Exit(p)
  /\ announced' = announced \ {p}
  /\ unheard' = IF Delivered THEN unheard ELSE unheard \cup {p}

Unrecorded ==
  \/ MainThread \/ Pool \/ Agents
  \/ \E p \in Pid : Reap(p) \/ \E e \in Exe : Fork(p, e)

SyncNext ==
  /\ \/ \E p \in Pid : SyncExit(p) \/ \E e \in Exe : SyncExec(p, e)
     \/ Unrecorded /\ UNCHANGED history
  /\ crossed' = Misled

SyncSpec == SyncInit /\ [][SyncNext]_syncVars

-----------------------------------------------------------------------------
Pending(what, p) == \E i \in DOMAIN events : events[i] = [what |-> what, pid |-> p]

(* The list is fed by the socket, or is going to be.                       *)
Netlink == main = "ctor" \/ fd

SyncTypeOK ==
  TypeOK /\ announced \subseteq Pid /\ unheard \subseteq Pid /\ crossed \subseteq Agent

(* A process whose start could be known is in the list, or the message     *)
(* that will put it there is on its way: duplicates, reused pids and exits *)
(* of earlier owners of the pid that are still queued never lose it.       *)
NothingForgotten ==
  Netlink => \A p \in announced : p \in Known(heap) \/ Pending("exec", p)

(* An entry of the list is a process that runs, or whose exit message is   *)
(* on its way, unless an exit of that pid was never delivered: remove(pid) *)
(* takes out every entry of the pid, however often it was inserted.        *)
NothingLeftOver ==
  Netlink => \A p \in Known(heap) : Alive(p) \/ Pending("exit", p) \/ p \in unheard

(* An agent without a process shows "available" only if a thread that      *)
(* evaluates without the guard found it so before the process was removed  *)
(* and shows it late. Every other way to lose a process recomputes what is *)
(* shown, and a verdict that has been put right is not brought back.       *)
StaleOnlyWhenCrossed ==
  \A a \in Agent : ptr[a] = Null /\ shown[a] = "available" => a \in crossed

=============================================================================
