----------------------------- MODULE AgentProofs -----------------------------
(***************************************************************************)
(* Theorems about the two agents that stay outside of the controller's     *)
(* registry: the state counter and the pid file agent. What is proved of   *)
(* the controller still holds beside them.                                 *)
(***************************************************************************)
EXTENDS StateCounter, PidFileAgent, ControllerProofs, FiniteSetTheorems

-----------------------------------------------------------------------------
(* The counter only reads.                                                 *)
CInv == IInv /\ counted \in 0 .. Cardinality(Node)

LEMMA CountIsBounded ==
  ASSUME TypeOK, NEW s PROVE Count(s) \in 0 .. Cardinality(Node)
<1> DEFINE S == {n \in DOMAIN heap : heap[n].state = s}
<1>1. S \in SUBSET Node
  BY DEF TypeOK
<1>2. /\ Cardinality(S) <= Cardinality(Node)
      /\ Cardinality(S) \in Nat /\ Cardinality(Node) \in Nat
  <2> HIDE DEF S
  <2> QED BY <1>1, NodeAssumption, FS_Subset, FS_CardinalityType
<1> QED BY <1>2 DEF Count

LEMMA CounterStep == CInv /\ [CounterNext]_counterVars => CInv' /\ [Next]_vars
<1> SUFFICES ASSUME CInv, [CounterNext]_counterVars PROVE CInv' /\ [Next]_vars
  OBVIOUS
<1>1. [Next]_vars
  BY DEF CounterNext, CountStates, counterVars
<1>2. IInv'
  BY <1>1, NextIInv DEF CInv
<1>3. counted' \in 0 .. Cardinality(Node)
  BY CountIsBounded DEF CInv, IInv, CounterNext, CountStates, counterVars
<1> QED BY <1>1, <1>2, <1>3 DEF CInv

LEMMA CounterAlways == CounterSpec => []CInv /\ Spec
<1>1. CounterInit => CInv /\ Init
  <2>1. Cardinality(Node) \in Nat
    BY NodeAssumption, FS_CardinalityType
  <2> QED BY <2>1, InitIInv DEF CounterInit, CInv
<1> QED BY <1>1, CounterStep, PTL DEF CounterSpec, Spec

(* The count is that of some of the list's entries, never of more.         *)
THEOREM CounterTypeCorrect == CounterSpec => []CounterTypeOK
<1>1. CInv => CounterTypeOK
  BY DEF CInv, IInv, CounterTypeOK
<1> QED BY <1>1, CounterAlways, PTL

-----------------------------------------------------------------------------
(* The pid file agent writes to the list, without the guard: it makes the  *)
(* entry that it points to cache its state.                                *)
PInv == IInv /\ PidFileTypeOK

LEMMA PidFileStep == PInv /\ [PidFileNext]_allVars => PInv'
<1> SUFFICES ASSUME PInv, [PidFileNext]_allVars PROVE PInv'
  OBVIOUS
<1>1. CASE [Next]_vars /\ UNCHANGED pidFileVars
  <2>1. IInv'
    BY <1>1, NextIInv DEF PInv
  <2> QED BY <1>1, <2>1 DEF PInv, IInv, PidFileTypeOK, pidFileVars
<1>2. CASE /\ UNCHANGED vars
           /\ WritePidFile \/ ReadPidFile \/ FindPid
  <2>1. IInv'
    BY <1>2, NextIInv DEF PInv
  <2>2. EntriesOf(got) \subseteq Node
    BY DEF EntriesOf, PInv, IInv, TypeOK
  <2>3. /\ pidfile' \in Pid \cup {NoPid} /\ got' \in Pid \cup {NoPid}
        /\ found' \in Node \cup {Null, Asked}
        /\ UNCHANGED <<fptr, fshown>>
    BY <1>2, <2>2 DEF WritePidFile, ReadPidFile, FindPid, PInv, PidFileTypeOK
  <2> QED BY <2>1, <2>3 DEF PInv, IInv, PidFileTypeOK
<1>3. CASE SetPid
  <2>1. found # Asked /\ found \in Node \cup {Null} /\ TypeOK
    BY <1>3 DEF SetPid, PInv, PidFileTypeOK
  <2>2. /\ DOMAIN heap' = DOMAIN heap
        /\ heap' \in [DOMAIN heap' -> Entry]
        /\ \A n \in DOMAIN heap : heap'[n].pid = heap[n].pid
    <3>1. CASE heap' = heap
      BY <2>1, <3>1 DEF TypeOK
    <3>2. CASE found \in DOMAIN heap /\ heap' = [heap EXCEPT ![found].state = GetState(heap, found)]
      <4>1. GetState(heap, found) \in State
        BY <2>1, <3>2, GetStateType DEF TypeOK
      <4>2. \A n \in DOMAIN heap : heap[n] \in Entry
        BY <2>1 DEF TypeOK
      <4>3. \A n \in DOMAIN heap : heap'[n] \in Entry /\ heap'[n].pid = heap[n].pid
        BY <3>2, <4>1, <4>2 DEF Entry
      <4> QED BY <2>1, <3>2, <4>3 DEF TypeOK
    <3> QED BY <1>3, <3>1, <3>2 DEF SetPid
  <2>3. UNCHANGED <<proc, events, main, fd, todo, agents, ptr, shown, jobs, due, verdicts>>
    BY <1>3 DEF SetPid, kernelVars, agentVars, loose
  <2>4. TypeOK' /\ Known(heap') = Known(heap)
    BY <2>1, <2>2, <2>3 DEF TypeOK, Known
  <2>5. IInv'
    BY <2>2, <2>3, <2>4 DEF PInv, IInv, Phases, Unregistered,
       NoDanglingAgent, OneEntryPerPid
  <2>6. /\ fptr' \in Node \cup {Null} /\ fshown' \in Verdict \cup {"none"}
        /\ found' = Null /\ got' = NoPid /\ pidfile' = pidfile
    BY <1>3, <2>1 DEF SetPid, PInv, PidFileTypeOK, Judge, Verdict
  <2> QED BY <2>4, <2>5, <2>6 DEF PInv, PidFileTypeOK
<1> QED BY <1>1, <1>2, <1>3
        DEF PidFileNext, Refresh, WritePidFile, ReadPidFile, FindPid, allVars, pidFileVars

LEMMA PidFileAlways == PidFileSpec => []PInv
<1>1. PidFileInit => PInv
  BY InitIInv DEF PidFileInit, PInv, IInv, PidFileTypeOK
<1> QED BY <1>1, PidFileStep, PTL DEF PidFileSpec

(* Every variable of the pid file agent keeps its type.                    *)
THEOREM PidFileTypeCorrect == PidFileSpec => []PidFileTypeOK
<1>1. PInv => PidFileTypeOK
  BY DEF PInv
<1> QED BY <1>1, PidFileAlways, PTL

(* An agent that writes to the list behind the controller's back does not  *)
(* hurt those that are registered: with a socket they still point to       *)
(* entries of the list or to nothing.                                      *)
THEOREM PidFileAgentIsHarmless == PidFileSpec => []NoDanglingAgent
<1>1. PInv => NoDanglingAgent
  BY DEF PInv, IInv
<1> QED BY <1>1, PidFileAlways, PTL

=============================================================================
