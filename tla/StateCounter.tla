---------------------------- MODULE StateCounter ----------------------------
(***************************************************************************)
(* Process::StateCounterAgent: an agent without a process of its own, that *)
(* counts the identifiers of the controller's list that are in one state.  *)
(* test.xml configures one that counts zombies.                            *)
(***************************************************************************)
EXTENDS ProcessController

ASSUME NodeAssumption == IsFiniteSet(Node)

VARIABLE counted  (* The value of the agent.                                 *)

counterVars == <<vars, counted>>

CounterTypeOK == TypeOK /\ counted \in 0..Cardinality(Node)

(* Controller::count(state): it compares the cached states.                *)
Count(s) == Cardinality({n \in DOMAIN heap : heap[n].state = s})

(* The agent's update-timer: StateCounterAgent::start and refresh.         *)
CountStates ==
  /\ GuardFree
  /\ counted' = Count("zombie")
  /\ UNCHANGED vars

CounterInit == Init /\ counted = 0
CounterNext == CountStates \/ (Next /\ UNCHANGED counted)
CounterSpec == CounterInit /\ [][CounterNext]_counterVars

(* The agent's timer keeps ticking, and gets the guard in the end.         *)
CounterFairSpec == CounterSpec /\ Fairness /\ SF_counterVars(CountStates)

-----------------------------------------------------------------------------
(* Readable says that /proc can be listed, from some time on. A reload()   *)
(* that cannot do so empties the list, and a count may follow at once.     *)
Readable == <>[][~ReloadFail]_vars

(* "Count zombie process" (test.xml): a process that stays a zombie is     *)
(* counted, some time later and from then on: it passes through the list   *)
(* (reload), its cached state (refresh) and the count, and is not lost on  *)
(* the way however the three take turns.                                   *)
ZombieIsCounted ==
  Readable => \A p \in Pid : <>[](proc[p] = "zombie") => <>[](counted > 0)

(* The count comes back to zero once no process is a zombie any more: the  *)
(* entry of a process that was reaped goes away or is seen to be dead.     *)
CountReturnsToZero ==
  Readable => (<>[](\A p \in Pid : proc[p] # "zombie") => <>[](counted = 0))

=============================================================================
