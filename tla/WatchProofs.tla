---------------------------- MODULE WatchProofs ----------------------------
(***************************************************************************)
(* When its socket opens, every step of ProcessController is a step of     *)
(* ProcessWatch or leaves what ProcessWatch sees alone. Fairness, and with *)
(* it that every message is handled, is not part of this.                  *)
(***************************************************************************)
EXTENDS WatchRefinement, ControllerProofs

(* The socket opens as the constructor ends, and reload() is never called. *)
SocketOpens == SocketOK = {TRUE}
OnSocket    == main \in {"ctor", "idle"} /\ (fd <=> main = "idle")
WInv        == IInv /\ OnSocket

-----------------------------------------------------------------------------
LEMMA OnSocketInit == Init => OnSocket
<1> QED BY DEF Init, OnSocket

LEMMA OnSocketStep == SocketOpens /\ WInv /\ [Next]_vars => OnSocket'
<1> SUFFICES ASSUME SocketOpens, WInv, [Next]_vars PROVE OnSocket'
  OBVIOUS
<1> USE DEF WInv, OnSocket
<1>1. CASE Kernel
  BY <1>1 DEF Kernel, Fork, Exec, Exit, Reap
<1>2. CASE MainThread
  BY <1>2 DEF SocketOpens, MainThread, Subscribe, HandleEvent, HandleExec, HandleExit, Receive,
     OnTimer, Reload, ReloadLoad, ReloadPurge, ReloadEnd, ReloadNext, ReloadFail
<1>3. CASE Pool
  BY <1>3, BystanderKnown DEF Aside
<1>4. CASE Agents
  BY <1>4, BystanderKnown DEF Aside
<1>5. CASE UNCHANGED vars
  BY <1>5 DEF vars
<1> QED BY <1>1, <1>2, <1>3, <1>4, <1>5 DEF Next

LEMMA WAlways == SocketOpens /\ Spec => []WInv
<1> SUFFICES ASSUME SocketOpens PROVE Spec => []WInv
  OBVIOUS
<1>1. Init => WInv
  BY InitIInv, OnSocketInit DEF WInv
<1>2. WInv /\ [Next]_vars => WInv'
  BY NextIInv, OnSocketStep DEF WInv
<1> QED BY <1>1, <1>2, PTL DEF Spec

-----------------------------------------------------------------------------
(* What the agents hold, in terms of the pointers.                         *)
Held == [a \in Agent |-> HeldBy(a)]

LEMMA PointersAreGood ==
  ASSUME WInv, fd, NEW a \in Agent
  PROVE  /\ ptr[a] \in DOMAIN heap \cup {Null}
         /\ HeldBy(a) = Null <=> ptr[a] = Null
         /\ ptr[a] \in DOMAIN heap => HeldBy(a) = heap[ptr[a]].pid /\ HeldBy(a) \in Pid
<1>1. ptr[a] \in DOMAIN heap \cup {Null}
  BY DEF WInv, IInv, NoDanglingAgent, Unregistered
<1>2. ASSUME NEW n \in DOMAIN heap PROVE heap[n].pid \in Pid /\ n # Null
  BY NullAssumption DEF WInv, IInv, TypeOK, Entry
<1> QED BY <1>1, <1>2, NullIsNoPid DEF HeldBy

(* A program is run in the one model when it is named in the other.        *)
LEMMA SameProgram ==
  ASSUME NEW a \in Agent, NEW p PROVE Probe(a, p) <=> proc[p] = Watch[a]
<1>1. Watch[a] \in Exe /\ Watch[a] \notin {"zombie", "free", "pid"}
  BY ExeAssumption, WatchAssumption
<1> QED BY <1>1 DEF Probe, ExeName, Alive

(* A list with the same addresses and pids is known to hold the same.      *)
LEMMA SameHeap ==
  ASSUME DOMAIN heap' = DOMAIN heap, \A n \in DOMAIN heap : heap'[n].pid = heap[n].pid
  PROVE  /\ Known(heap') = Known(heap)
         /\ ptr' = ptr => Held' = Held
<1>1. Known(heap') = Known(heap)
  BY DEF Known
<1>2. ASSUME ptr' = ptr PROVE Held' = Held
  BY <1>2 DEF Held, HeldBy
<1> QED BY <1>1, <1>2

-----------------------------------------------------------------------------
LEMMA WatchInitially == Init => W!WatchInit
<1> SUFFICES ASSUME Init PROVE W!WatchInit
  OBVIOUS
<1>1. PICK at \in [Pid -> Node] :
        /\ \A p, q \in Pid : at[p] = at[q] => p = q
        /\ heap = [n \in {at[p] : p \in {q \in Pid : Listed(q)}} |->
                     [pid |-> CHOOSE p \in Pid : at[p] = n, state |-> "unread"]]
  BY DEF Init
<1>2. \A p \in Pid : Listed(p) => at[p] \in DOMAIN heap /\ heap[at[p]].pid = p
  <2> SUFFICES ASSUME NEW p \in Pid, Listed(p) PROVE at[p] \in DOMAIN heap /\ heap[at[p]].pid = p
    OBVIOUS
  <2>1. at[p] \in DOMAIN heap /\ heap[at[p]].pid = CHOOSE q \in Pid : at[q] = at[p]
    BY <1>1
  <2> QED BY <1>1, <2>1
<1>3. \A n \in DOMAIN heap : \E p \in Pid : Listed(p) /\ n = at[p]
  BY <1>1
<1>4. Known(heap) = {p \in Pid : proc[p] # "free"}
  BY <1>2, <1>3 DEF Known, Listed
<1>5. \A a \in Agent : HeldBy(a) = Null
  <2>1. Null \notin DOMAIN heap
    BY <1>3, NullAssumption
  <2> QED BY <2>1 DEF Init, HeldBy
<1> QED BY <1>4, <1>5 DEF Init, W!WatchInit

(* The kernel is the same in both.                                         *)
LEMMA WatchKernel == ASSUME WInv, Kernel PROVE W!WatchNext
<1>1. PICK p \in Pid : Exit(p) \/ Reap(p) \/ \E e \in Exe : Fork(p, e) \/ Exec(p, e)
  BY DEF Kernel
<1>2. UNCHANGED <<fd, heap, agents, ptr>>
  BY <1>1 DEF Exit, Reap, Fork, Exec, agentVars
<1>3. Known(heap') = Known(heap) /\ Held' = Held
  BY <1>2 DEF Held, HeldBy
<1>4. W!KernelFork(p) \/ W!KernelExec(p) \/ W!KernelExit(p) \/ W!KernelReap(p)
  BY <1>1 DEF Exit, Reap, Fork, Exec, Notify, Delivered, Alive,
     W!KernelFork, W!KernelExec, W!KernelExit, W!KernelReap, W!Sent, W!Message
<1> QED BY <1>2, <1>3, <1>4 DEF W!WatchNext, W!Environment, Held

(* An exec message is learned: duplicates do not matter.                   *)
LEMMA WatchLearn == ASSUME WInv, NEW p \in Pid, HandleExec(p) PROVE W!WatchNext
<1>1. /\ fd /\ events # <<>> /\ Head(events) = W!Message("exec", p) /\ events' = Tail(events)
      /\ UNCHANGED <<proc, fd, agents>> /\ InsertPid(p)
  BY DEF HandleExec, Receive, W!Message
<1>2. TypeOK
  BY DEF WInv, IInv
<1>3. PICK n \in Node \ DOMAIN heap :
         /\ DOMAIN heap' = DOMAIN heap \cup {n}
         /\ heap'[n].pid = p
         /\ \A m \in DOMAIN heap : heap'[m].pid = heap[m].pid
         /\ ptr' = [a \in Agent |-> IF a \in Takers(p) THEN n ELSE ptr[a]]
  BY <1>1, <1>2, InsertFacts
<1>4. Known(heap') = Known(heap) \cup {p}
  BY <1>3 DEF Known
<1>5. ASSUME NEW a \in Agent
      PROVE  HeldBy(a)' = IF a \in agents /\ HeldBy(a) = Null /\ proc[p] = Watch[a]
                          THEN p ELSE HeldBy(a)
  <2>1. a \in Takers(p) <=> a \in agents /\ HeldBy(a) = Null /\ proc[p] = Watch[a]
    BY <1>1, PointersAreGood, SameProgram DEF Takers
  <2>2. CASE a \in Takers(p)
    BY <1>3, <2>1, <2>2 DEF HeldBy
  <2>3. CASE a \notin Takers(p)
    <3>1. ptr'[a] = ptr[a]
      BY <1>3, <2>3
    <3>2. ptr[a] # n
      BY <1>1, PointersAreGood, NullAssumption
    <3> QED BY <1>3, <2>1, <2>3, <3>1, <3>2 DEF HeldBy
  <2> QED BY <2>2, <2>3
<1> QED BY <1>1, <1>4, <1>5 DEF W!WatchNext, W!Hear, W!Learn, W!Runs

(* An exit message is the end of every entry of the pid.                   *)
LEMMA WatchForget == ASSUME WInv, NEW p \in Pid, HandleExit(p) PROVE W!WatchNext
<1>1. /\ fd /\ events # <<>> /\ Head(events) = W!Message("exit", p) /\ events' = Tail(events)
      /\ UNCHANGED <<proc, fd, agents>> /\ RemovePid(p)
  BY DEF HandleExit, Receive, W!Message
<1>2. TypeOK
  BY DEF WInv, IInv
<1>3. /\ DOMAIN heap' = {m \in DOMAIN heap : heap[m].pid # p}
      /\ \A m \in DOMAIN heap' : heap'[m].pid = heap[m].pid
      /\ ptr' = [a \in Agent |-> IF a \in Losers(p) THEN Null ELSE ptr[a]]
  BY <1>1, <1>2, RemoveFacts
<1>4. Known(heap') = Known(heap) \ {p}
  BY <1>3 DEF Known
<1>5. ASSUME NEW a \in Agent
      PROVE  HeldBy(a)' = IF HeldBy(a) = p THEN Null ELSE HeldBy(a)
  <2>1. a \in Losers(p) <=> HeldBy(a) = p
    <3>1. a \notin agents => ptr[a] = Null
      BY DEF WInv, IInv, Unregistered
    <3> QED BY <1>1, <3>1, PointersAreGood, NullIsNoPid, NullAssumption
            DEF Losers, HeldBy
  <2>2. CASE a \in Losers(p)
    <3>1. Null \notin DOMAIN heap'
      BY <1>2, <1>3, NullAssumption DEF TypeOK
    <3> QED BY <1>3, <2>1, <2>2, <3>1 DEF HeldBy
  <2>3. CASE a \notin Losers(p)
    <3>1. ptr'[a] = ptr[a]
      BY <1>3, <2>3
    <3>2. ptr[a] \in DOMAIN heap => heap[ptr[a]].pid # p
      BY <2>1, <2>3 DEF HeldBy
    <3> QED BY <1>3, <2>1, <2>3, <3>1, <3>2 DEF HeldBy
  <2> QED BY <2>2, <2>3
<1> QED BY <1>1, <1>4, <1>5 DEF W!WatchNext, W!Hear, W!Forget

(* A step that keeps the entries, their pids and the pointers is not seen. *)
LEMMA WatchUnseen ==
  ASSUME SamePids, UNCHANGED <<proc, events, fd, agents, ptr>> PROVE UNCHANGED W!watchVars
<1>1. Known(heap') = Known(heap) /\ Held' = Held
  BY SameHeap DEF SamePids
<1> QED BY <1>1 DEF W!watchVars, Held

(* What an agent computes and shows without the guard is not seen.         *)
LEMMA WatchEvaluation ==
  ASSUME WInv, NEW w, NEW a, Evaluation(w, a) \/ StartLate(a) PROVE UNCHANGED W!watchVars
<1>1. TypeOK
  BY DEF WInv, IInv
<1>2. CASE Evaluate(w, a)
  BY <1>1, <1>2, EvaluateFacts, WatchUnseen DEF kernelVars, agentVars
<1>3. CASE StartLate(a) \/ \E v \in Verdict : Show(w, a, v)
  <2>1. UNCHANGED <<proc, events, fd, agents, ptr, heap>>
    BY <1>3 DEF StartLate, Show, kernelVars, agentVars
  <2>2. SamePids
    BY <1>1, <2>1 DEF SamePids, TypeOK
  <2> QED BY <2>1, <2>2, WatchUnseen
<1> QED BY <1>2, <1>3 DEF Evaluation

(* The timer and the pool change what is cached, and nothing else.         *)
LEMMA WatchPool == ASSUME WInv, OnTimer \/ Pool PROVE UNCHANGED W!watchVars
<1>1. TypeOK
  BY DEF WInv, IInv
<1>2. CASE OnTimer \/ RefreshJob \/ RefreshFail \/ UpdateJob
  <2>1. UNCHANGED <<proc, events, fd, agents, ptr>>
    BY <1>2 DEF OnTimer, RefreshJob, RefreshFail, UpdateJob, kernelVars, agentVars
  <2>2. heap' = heap \/ \E S : heap' = Polled(S)
    BY <1>2 DEF OnTimer, RefreshJob, RefreshFail, UpdateJob
  <2>3. SamePids
    BY <1>1, <2>2, PolledFacts DEF SamePids, TypeOK
  <2> QED BY <2>1, <2>3, WatchUnseen
<1> QED BY <1>2, WatchEvaluation DEF Pool, Update

LEMMA WatchSubscribe ==
  ASSUME SocketOpens, WInv, Subscribe PROVE W!WatchNext
<1>1. fd' = TRUE /\ ~fd /\ UNCHANGED <<proc, events, heap, agents, ptr>>
  BY DEF SocketOpens, Subscribe, kernelVars, agentVars, WInv, OnSocket
<1>2. Known(heap') = Known(heap) /\ Held' = Held
  BY <1>1 DEF Held, HeldBy
<1> QED BY <1>1, <1>2 DEF W!WatchNext, W!Open, Held

(* A new agent is given an entry that matches when there is one.           *)
LEMMA WatchStart == ASSUME WInv, NEW a \in Agent, Start(a) PROVE W!WatchNext
<1>1. /\ fd /\ a \notin agents /\ agents' = agents \cup {a}
      /\ UNCHANGED <<proc, events, fd>>
  BY DEF Start, GuardFree, WInv, OnSocket, kernelVars
<1>2. TypeOK /\ ptr[a] = Null /\ HeldBy(a) = Null
  BY <1>1, PointersAreGood DEF WInv, IInv, Unregistered
<1> DEFINE fit == {p \in Known(heap) : proc[p] = Watch[a]}
<1>3. ASSUME NEW n \in Matching(a), Updated({a}, heap, [ptr EXCEPT ![a] = n])
      PROVE  W!Register(a)
  <2> DEFINE q == [ptr EXCEPT ![a] = n]
  <2>1. Outcome({a}, heap, q)
    <3>1. Updated({a}, heap, q)
      BY <1>3
    <3> HIDE DEF q
    <3> QED BY <1>2, <3>1, UpdatedFacts DEF TypeOK
  <2>2. /\ ptr' = q /\ DOMAIN heap' = DOMAIN heap
        /\ \A m \in DOMAIN heap : heap'[m].pid = heap[m].pid
    <3> HIDE DEF q
    <3> QED BY <2>1 DEF Outcome
  <2>3. n \in DOMAIN heap /\ heap[n].pid \in fit
    BY <1>3, SameProgram DEF Matching, Known
  <2>4. Held' = [Held EXCEPT ![a] = heap[n].pid]
    <3>1. \A b \in Agent : Held'[b] = IF b = a THEN heap[n].pid ELSE Held[b]
      BY <1>2, <2>2, <2>3 DEF Held, HeldBy, TypeOK
    <3> QED BY <3>1 DEF Held
  <2>5. Known(heap') = Known(heap)
    BY <2>2, SameHeap
  <2> QED BY <1>1, <2>3, <2>4, <2>5 DEF W!Register, W!Runs, Held
<1>4. ASSUME Matching(a) = {}, UNCHANGED <<heap, ptr>>
      PROVE  W!Register(a)
  <2>1. fit = {}
    BY <1>4, SameProgram DEF Matching, Known
  <2>2. Known(heap') = Known(heap) /\ Held' = Held
    BY <1>4 DEF Held, HeldBy
  <2>3. Held = [Held EXCEPT ![a] = Null]
    BY <1>2 DEF Held
  <2> QED BY <1>1, <2>1, <2>2, <2>3 DEF W!Register, W!Runs, Held
<1> QED BY <1>3, <1>4 DEF Start, W!WatchNext

LEMMA WatchDestroy == ASSUME WInv, NEW a \in Agent, Destroy(a) PROVE W!WatchNext
<1>1. /\ a \in agents /\ agents' = agents \ {a} /\ ptr' = [ptr EXCEPT ![a] = Null]
      /\ UNCHANGED <<proc, events, fd, heap>>
  BY DEF Destroy, kernelVars
<1>2. Null \notin DOMAIN heap /\ ptr \in [Agent -> Node \cup {Null}]
  BY NullAssumption DEF WInv, IInv, TypeOK
<1>3. Held' = [Held EXCEPT ![a] = Null] /\ Known(heap') = Known(heap)
  <2>1. \A b \in Agent : Held'[b] = IF b = a THEN Null ELSE Held[b]
    BY <1>1, <1>2 DEF Held, HeldBy
  <2> QED BY <1>1, <2>1 DEF Held
<1> QED BY <1>1, <1>3 DEF W!WatchNext, W!Unregister, Held

LEMMA WatchStep ==
  SocketOpens /\ WInv /\ [Next]_vars => [W!WatchNext]_(W!watchVars)
<1> SUFFICES ASSUME SocketOpens, WInv, [Next]_vars
             PROVE  W!WatchNext \/ UNCHANGED W!watchVars
  OBVIOUS
<1>1. CASE Kernel
  BY <1>1, WatchKernel
<1>2. CASE MainThread
  <2>1. ~Reload /\ ~ReloadFail
    BY DEF WInv, IInv, OnSocket, Reload, ReloadLoad, ReloadPurge, ReloadEnd, ReloadNext, ReloadFail
  <2> QED BY <1>2, <2>1, WatchSubscribe, WatchLearn, WatchForget, WatchPool
          DEF MainThread, HandleEvent
<1>3. CASE Pool
  BY <1>3, WatchPool
<1>4. CASE Agents
  BY <1>4, WatchStart, WatchDestroy, WatchEvaluation DEF Agents
<1>5. CASE UNCHANGED vars
  <2>1. UNCHANGED <<proc, events, fd, heap, agents, ptr>>
    BY <1>5 DEF vars, kernelVars, agentVars
  <2> QED BY <2>1 DEF W!watchVars, HeldBy
<1> QED BY <1>1, <1>2, <1>3, <1>4, <1>5 DEF Next

-----------------------------------------------------------------------------
(* The safety half of ImplementsWatch: with a socket, whatever the list    *)
(* holds and in whatever order the jobs and the agents take their turns,   *)
(* the controller is a watcher of pids, one per agent.                     *)
THEOREM ControllerIsAWatch == SocketOpens /\ Spec => W!WatchSpec
<1> SUFFICES ASSUME SocketOpens PROVE Spec => W!WatchSpec
  OBVIOUS
<1>1. Spec => []WInv
  BY WAlways
<1>2. WInv /\ [Next]_vars => [W!WatchNext]_(W!watchVars)
  BY WatchStep
<1> QED BY <1>1, <1>2, WatchInitially, PTL DEF Spec, W!WatchSpec

=============================================================================
