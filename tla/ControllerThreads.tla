------------------------- MODULE ControllerThreads --------------------------
(***************************************************************************)
(* Who touches the lists of Process::Controller, element by element, and   *)
(* with or without Controller::guard: the main loop (messages), a worker   *)
(* of the thread pool (refresh, and the agents' update it queues) and a    *)
(* thread of the framework that starts, asks and destroys agents.          *)
(*                                                                         *)
(* Here an Identifier stands for its process; a thread that touches freed  *)
(* memory, calls a pure virtual function or throws out of a noexcept       *)
(* function ends the program.                                              *)
(***************************************************************************)
EXTENDS Naturals, SequencesExt

CONSTANTS
  Node,    (* Identifiers.                                                  *)
  Agent,   (* Agents (Process::ExeNameAgent), each at an address of its own. *)
  None,    (* No identifier, no agent, no thread.                           *)
  Vanish,  (* Whether a process may end while its stat file is read.        *)
  Destroys (* Whether agents are destroyed while the program runs.          *)

ASSUME NoneAssumption   == None \notin Node \cup Agent \cup {"main", "pool", "user"}
ASSUME BoundAssumption  == Vanish \in BOOLEAN /\ Destroys \in BOOLEAN

VARIABLES
  guard,   (* The thread that holds Controller::guard, or None.             *)
  ids,     (* Controller::identifiers, in order.                            *)
  agents,  (* Controller::agents, in order.                                 *)
  ptr,     (* ptr[a]: Agent::pid.                                           *)
  cached,  (* The identifiers whose state has been read.                    *)
  whole,   (* The agents whose derived class (and probe()) is there.        *)
  raw,     (* The agents whose memory is there.                             *)
  queued,  (* The agents' update is in the pool's queue.                    *)
  thr,     (* thr[t]: what thread t does, and its two cursors.              *)
  crash    (* What ended the program, or "none".                            *)

lists   == <<ids, agents, ptr>>
objects == <<whole, raw>>
tVars   == <<guard, lists, cached, objects, queued, thr, crash>>

Thread == {"main", "pool", "user"}
Label  == {"idle", "offer", "detach", "scan", "update", "match",
           "open", "read", "use", "late", "look", "dying", "free"}
Work   == {"insert", "remove", "refresh", "update", "start", "look", "destroy", "none"}
Frame  == [pc : Label, op : Work, id : Node \cup {None}, ag : Agent \cup {None}]
Idle   == [pc |-> "idle", op |-> "none", id |-> None, ag |-> None]

(* No list has an element twice.                                           *)
Position(s, x) == CHOOSE i \in DOMAIN s : s[i] = x
First(s)       == IF s = <<>> THEN None ELSE s[1]
Without(s, x)  == IF x \in ToSet(s) THEN RemoveAt(s, Position(s, x)) ELSE s

(* The cursor after x, as long as x is in the list.                        *)
After(s, x) == IF Position(s, x) = Len(s) THEN None ELSE s[Position(s, x) + 1]

ThreadsTypeOK ==
  /\ guard \in Thread \cup {None}
  /\ ids \in Seq(Node) /\ IsInjective(ids)
  /\ agents \in Seq(raw) /\ IsInjective(agents)
  /\ ptr \in [Agent -> Node \cup {None}]
  /\ cached \subseteq Node
  /\ whole \subseteq raw /\ raw \subseteq Agent
  /\ queued \in BOOLEAN
  /\ thr \in [Thread -> Frame]
  /\ crash \in {"none", "freed identifier", "freed agent", "pure virtual", "terminate"}

-----------------------------------------------------------------------------
(* Steps of a thread.                                                      *)

In(t, pc)   == crash = "none" /\ thr[t].pc = pc
Goto(t, f)  == thr' = [thr EXCEPT ![t] = f]
Move(t, pc, id, ag) == Goto(t, [thr[t] EXCEPT !.pc = pc, !.id = id, !.ag = ag])
Unlock(t)   == guard' = None
Crash(why)  == crash' = why /\ UNCHANGED <<guard, lists, cached, objects, queued, thr>>

(* Mutant: the guard is not asked for.                                     *)
LockNever(t) == guard' = guard

(* lock_guard<recursive_mutex>; no thread below asks for it twice.         *)
Lock(t) == guard = None /\ guard' = t

(* What follows once an agent's state has been computed: the next agent of *)
(* onInsert or of the update, the end of the search of insert(agent), or   *)
(* the end of a request. The update's loop reads the list node it is at.   *)
Continue(t) ==
  LET f == thr[t]
  IN  CASE f.op = "insert" -> /\ Move(t, "offer", f.id, After(agents, f.ag))
                              /\ UNCHANGED <<guard, crash>>
        [] f.op = "start"  -> Move(t, "late", None, f.ag) /\ Unlock(t) /\ UNCHANGED crash
        [] f.op = "look"   -> Goto(t, Idle) /\ UNCHANGED <<guard, crash>>
        [] f.op = "update" ->
             IF f.ag \in ToSet(agents)
             THEN Move(t, "update", None, After(agents, f.ag)) /\ UNCHANGED <<guard, crash>>
             ELSE crash' = "freed agent" /\ UNCHANGED <<guard, thr>>

(* Identifier::getState, called by the noexcept Agent::getState: a state   *)
(* that was read before is returned, else the stat file is opened ...      *)
Evaluate(t, n, a) ==
  IF n \in cached THEN Continue(t)
  ELSE Move(t, "open", n, a) /\ UNCHANGED <<guard, crash>>

(* What was read is stored in the identifier.                              *)
StoreState(t) ==
  IF thr[t].id \in ToSet(ids)
  THEN /\ cached' = cached \cup {thr[t].id}
       /\ Continue(t)
       /\ UNCHANGED <<lists, objects, queued>>
  ELSE Crash("freed identifier")

(* ... which finds no entry, and leaves 'X', or opens a file ...          *)
OpenStat(t) ==
  /\ In(t, "open")
  /\ \/ StoreState(t)
     \/ /\ Move(t, "read", thr[t].id, thr[t].ag)
        /\ UNCHANGED <<lists, cached, objects, queued, guard, crash>>

(* ... that can be read only as long as the process is there.              *)
ReadStat(t) ==
  /\ In(t, "read")
  /\ StoreState(t) \/ (Vanish /\ Crash("terminate"))

(* getState() has seen a pointer, reads it once more (or does not) and     *)
(* calls through it.                                                       *)
UsePointer(t) ==
  /\ In(t, "use")
  /\ \E n \in {thr[t].id, ptr[thr[t].ag]} :
       IF n \in ToSet(ids)
       THEN Evaluate(t, n, thr[t].ag) /\ UNCHANGED <<lists, cached, objects, queued>>
       ELSE Crash("freed identifier")

Getter(t) == OpenStat(t) \/ ReadStat(t) \/ UsePointer(t)

-----------------------------------------------------------------------------
(* The main loop: Controller::insert(pid) and remove(pid).                 *)

InsertPid(n) ==
  /\ In("main", "idle") /\ Lock("main")
  /\ n \notin ToSet(ids)
  /\ ids' = Append(ids, n)
  /\ cached' = cached \ {n}
  /\ Goto("main", [pc |-> "offer", op |-> "insert", id |-> n, ag |-> First(agents)])
  /\ UNCHANGED <<agents, ptr, objects, queued, crash>>

(* Mutant: `!agent->pid' is not asked.                                     *)
OfferPidBusy ==
  LET n == thr["main"].id
      a == thr["main"].ag
  IN  /\ In("main", "offer") /\ a # None /\ a \in whole
      /\ \/ Move("main", "offer", n, After(agents, a)) /\ UNCHANGED <<guard, ptr, crash>>
         \/ ptr' = [ptr EXCEPT ![a] = n] /\ Evaluate("main", n, a)
      /\ UNCHANGED <<ids, agents, cached, objects, queued>>

(* onInsert, for one agent: `!agent->pid && agent->probe(...)', then set.  *)
OfferPid ==
  LET n == thr["main"].id
      a == thr["main"].ag
      skip == /\ Move("main", "offer", n, After(agents, a))
              /\ UNCHANGED <<guard, ptr, crash>>
  IN  /\ In("main", "offer") /\ a # None
      /\ \/ ptr[a] # None /\ skip
         \/ ptr[a] = None /\ a \in whole /\ skip
         \/ /\ ptr[a] = None /\ a \in whole
            /\ ptr' = [ptr EXCEPT ![a] = n]
            /\ Evaluate("main", n, a)
         \/ /\ ptr[a] = None /\ a \notin whole
            /\ crash' = "pure virtual" /\ UNCHANGED <<guard, ptr, thr>>
      /\ UNCHANGED <<ids, agents, cached, objects, queued>>

OfferEnd ==
  /\ In("main", "offer") /\ thr["main"].ag = None
  /\ Goto("main", Idle) /\ Unlock("main")
  /\ UNCHANGED <<lists, cached, objects, queued, crash>>

RemovePid(n) ==
  /\ In("main", "idle") /\ Lock("main")
  /\ n \in ToSet(ids)
  /\ Goto("main", [pc |-> "detach", op |-> "remove", id |-> n, ag |-> First(agents)])
  /\ UNCHANGED <<lists, cached, objects, queued, crash>>

(* Mutant: the search for agents ends with the first that held the pid.    *)
DetachFirst ==
  LET n == thr["main"].id
      a == thr["main"].ag
  IN  /\ In("main", "detach") /\ a # None
      /\ ptr' = [ptr EXCEPT ![a] = IF @ = n THEN None ELSE @]
      /\ Move("main", "detach", n, IF ptr[a] = n THEN None ELSE After(agents, a))
      /\ UNCHANGED <<guard, ids, agents, cached, objects, queued, crash>>

DetachAgent ==
  LET n == thr["main"].id
      a == thr["main"].ag
  IN  /\ In("main", "detach") /\ a # None
      /\ ptr' = [ptr EXCEPT ![a] = IF @ = n THEN None ELSE @]
      /\ Move("main", "detach", n, After(agents, a))
      /\ UNCHANGED <<guard, ids, agents, cached, objects, queued, crash>>

ErasePid ==
  /\ In("main", "detach") /\ thr["main"].ag = None
  /\ ids' = Without(ids, thr["main"].id)
  /\ Goto("main", Idle) /\ Unlock("main")
  /\ UNCHANGED <<agents, ptr, cached, objects, queued, crash>>

MainLoop == OfferPid \/ OfferEnd \/ DetachAgent \/ ErasePid

-----------------------------------------------------------------------------
(* The pool: refresh(), and the update of the agents, which takes no lock. *)

RefreshLock ==
  /\ In("pool", "idle") /\ Lock("pool")
  /\ Goto("pool", [pc |-> "scan", op |-> "refresh", id |-> First(ids), ag |-> None])
  /\ UNCHANGED <<lists, cached, objects, queued, crash>>

(* The state of one identifier is read, be there an entry or not. What it *)
(* cannot read refresh() throws, and catches: no update follows then.      *)
ScanPid ==
  LET n == thr["pool"].id
  IN  /\ In("pool", "scan") /\ n # None
      /\ \/ /\ cached' = cached \cup {n}
            /\ Move("pool", "scan", After(ids, n), None)
            /\ UNCHANGED guard
         \/ Vanish /\ Goto("pool", Idle) /\ Unlock("pool") /\ UNCHANGED cached
      /\ UNCHANGED <<lists, objects, queued, crash>>

ScanEnd ==
  /\ In("pool", "scan") /\ thr["pool"].id = None
  /\ queued' = TRUE
  /\ Goto("pool", Idle) /\ Unlock("pool")
  /\ UNCHANGED <<lists, cached, objects, crash>>

UpdateBegin ==
  /\ In("pool", "idle") /\ queued
  /\ queued' = FALSE
  /\ Goto("pool", [pc |-> "update", op |-> "update", id |-> None, ag |-> First(agents)])
  /\ UNCHANGED <<guard, lists, cached, objects, crash>>

(* The update is at an element: its list node must still be there.         *)
UpdateAgent ==
  LET a == thr["pool"].ag
  IN  /\ In("pool", "update") /\ a # None
      /\ \/ a \notin ToSet(agents) /\ Crash("freed agent")
         \/ /\ a \in ToSet(agents)
            /\ IF ptr[a] = None THEN Move("pool", "update", None, After(agents, a))
                                ELSE Move("pool", "use", ptr[a], a)
            /\ UNCHANGED <<guard, lists, cached, objects, queued, crash>>

UpdateEnd ==
  /\ In("pool", "update") /\ thr["pool"].ag = None
  /\ Goto("pool", Idle)
  /\ UNCHANGED <<guard, lists, cached, objects, queued, crash>>

Worker == ScanPid \/ ScanEnd \/ UpdateBegin \/ UpdateAgent \/ UpdateEnd

-----------------------------------------------------------------------------
(* The framework: it starts, asks and destroys agents.                     *)

(* Agent::start: insert(agent) appends the agent and searches the list.    *)
StartLock(a) ==
  /\ In("user", "idle") /\ Lock("user")
  /\ a \notin raw
  /\ raw' = raw \cup {a} /\ whole' = whole \cup {a}
  /\ agents' = Append(agents, a)
  /\ ptr' = [ptr EXCEPT ![a] = None]
  /\ Goto("user", [pc |-> "match", op |-> "start", id |-> First(ids), ag |-> a])
  /\ UNCHANGED <<ids, cached, queued, crash>>

MatchPid ==
  LET n == thr["user"].id
      a == thr["user"].ag
  IN  /\ In("user", "match") /\ n # None
      /\ \/ Move("user", "match", After(ids, n), a) /\ UNCHANGED <<guard, ptr, crash>>
         \/ ptr' = [ptr EXCEPT ![a] = n] /\ Evaluate("user", n, a)
      /\ UNCHANGED <<ids, agents, cached, objects, queued>>

MatchNone ==
  /\ In("user", "match") /\ thr["user"].id = None
  /\ Move("user", "late", None, thr["user"].ag) /\ Unlock("user")
  /\ UNCHANGED <<lists, cached, objects, queued, crash>>

(* `if(!pid) updated(true)', and any request for the state: getState()     *)
(* tests the pointer, without the guard.                                   *)
StartLate ==
  LET a == thr["user"].ag
  IN  /\ In("user", "late")
      /\ Goto("user", IF ptr[a] # None THEN Idle
                      ELSE [pc |-> "look", op |-> "look", id |-> None, ag |-> a])
      /\ UNCHANGED <<guard, lists, cached, objects, queued, crash>>

Look(a) ==
  /\ In("user", "idle") /\ a \in whole
  /\ Goto("user", [pc |-> "look", op |-> "look", id |-> None, ag |-> a])
  /\ UNCHANGED <<guard, lists, cached, objects, queued, crash>>

TestPointer ==
  LET a == thr["user"].ag
  IN  /\ In("user", "look")
      /\ IF ptr[a] = None THEN Goto("user", Idle) ELSE Move("user", "use", ptr[a], a)
      /\ UNCHANGED <<guard, lists, cached, objects, queued, crash>>

(* ~Agent: the derived class is gone, then remove(agent), then the memory. *)
DestroyDerived(a) ==
  /\ Destroys /\ In("user", "idle") /\ a \in whole
  /\ whole' = whole \ {a}
  /\ Goto("user", [pc |-> "dying", op |-> "destroy", id |-> None, ag |-> a])
  /\ UNCHANGED <<guard, lists, cached, raw, queued, crash>>

(* Mutant: the destructor does not unregister the agent.                   *)
RemoveAgentNever ==
  /\ In("user", "dying") /\ guard = None
  /\ Move("user", "free", None, thr["user"].ag)
  /\ UNCHANGED <<guard, lists, cached, objects, queued, crash>>

(* Mutant: the destructor does not wait for the guard.                     *)
RemoveAgentAtOnce ==
  LET a == thr["user"].ag
  IN  /\ In("user", "dying")
      /\ agents' = Without(agents, a)
      /\ Move("user", "free", None, a)
      /\ UNCHANGED <<guard, ids, ptr, cached, objects, queued, crash>>

RemoveAgent ==
  LET a == thr["user"].ag
  IN  /\ In("user", "dying") /\ guard = None
      /\ agents' = Without(agents, a)
      /\ Move("user", "free", None, a)
      /\ UNCHANGED <<guard, ids, ptr, cached, objects, queued, crash>>

FreeAgent ==
  /\ In("user", "free")
  /\ raw' = raw \ {thr["user"].ag}
  /\ Goto("user", Idle)
  /\ UNCHANGED <<guard, lists, cached, whole, queued, crash>>

User == MatchPid \/ MatchNone \/ StartLate \/ TestPointer \/ FreeAgent

-----------------------------------------------------------------------------
ThreadsInit ==
  /\ guard = None
  /\ ids = <<>> /\ agents = <<>> /\ ptr = [a \in Agent |-> None]
  /\ cached = {} /\ whole = {} /\ raw = {}
  /\ queued = FALSE
  /\ thr = [t \in Thread |-> Idle]
  /\ crash = "none"

Running(t) ==
  \/ Getter(t)
  \/ t = "main" /\ MainLoop
  \/ t = "pool" /\ Worker
  \/ t = "user" /\ User

ThreadsNext ==
  \/ \E t \in Thread : Running(t)
  \/ RefreshLock \/ RemoveAgent
  \/ \E n \in Node : InsertPid(n) \/ RemovePid(n)
  \/ \E a \in Agent : StartLock(a) \/ Look(a) \/ DestroyDerived(a)

ThreadsSpec == ThreadsInit /\ [][ThreadsNext]_tVars

-----------------------------------------------------------------------------
(* Properties.                                                             *)

(* Whoever walks a list under the guard stands on an element of it, whose  *)
(* memory is there: what others insert, erase and destroy meanwhile waits  *)
(* for the guard, the memory of an agent that is being destroyed included. *)
LockedWalksAreSafe ==
  \A t \in Thread :
    /\ thr[t].pc \in {"offer", "detach"} => thr[t].ag \in ToSet(agents) \cup {None}
    /\ thr[t].pc \in {"scan", "match"} => thr[t].id \in ToSet(ids) \cup {None}
    /\ thr[t].pc \in {"open", "read"} /\ thr[t].op \in {"insert", "start"} =>
         thr[t].id \in ToSet(ids) /\ ptr[thr[t].ag] = thr[t].id

(* A registered agent points to an element of the list or to nothing, at   *)
(* every step of insert(agent), insert(pid) and remove(pid), however they  *)
(* take turns.                                                             *)
PointersInList == \A a \in ToSet(agents) : ptr[a] \in ToSet(ids) \cup {None}

(* While a thread holds the guard, the lists and the registered agents'    *)
(* pointers change by its own steps only: what it has read stays true      *)
(* until it lets go, so that its region may be taken for one step.         *)
OnlyTheHolderChanges ==
  [][\A t \in Thread : guard = t /\ thr'[t] = thr[t] => UNCHANGED lists]_tVars

(* identifier.h has a "Mutex for serialization", and every insertion       *)
(* catches and logs its errors: no thread touches an Identifier or agent   *)
(* that is gone, none ends the program.                                    *)
NoCrash == crash = "none"

=============================================================================
