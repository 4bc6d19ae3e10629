-------------------------- MODULE ControllerProofs --------------------------
(***************************************************************************)
(* Theorems about ProcessController, for every set of pids, programs,      *)
(* agents and addresses, every size of the socket's buffer, every outcome  *)
(* of opening the socket and either value of cpu/get-by-pid.               *)
(***************************************************************************)
EXTENDS ProcessController, TLAPS

(* The inductive invariant. The agents that are not registered, the list   *)
(* of pids that reload() works on and the phases of the main thread are    *)
(* what the properties alone do not remember from one step to the next.    *)
Phases ==
  /\ main = "ctor" => agents = {} /\ jobs = {} /\ ~fd
  /\ main \in {"load", "reload"} => ~fd
  /\ main = "reload" => todo \cap Known(heap) = {}

Unregistered == \A a \in Agent \ agents : ptr[a] = Null /\ shown[a] = "none"

IInv ==
  /\ TypeOK
  /\ Phases
  /\ Unregistered
  /\ NoDanglingAgent
  /\ OneEntryPerPid

-----------------------------------------------------------------------------
(* What /proc answers is a state that an Identifier may cache.             *)
LEMMA StatOfType == \A p : StatOf(p) \in State
BY DEF StatOf, State

(* getState() answers with a state for every entry of a typed list.        *)
LEMMA GetStateType ==
  ASSUME NEW h, h \in [DOMAIN h -> Entry], NEW n \in DOMAIN h
  PROVE  GetState(h, n) \in State
<1>1. h[n].state \in State
  BY DEF Entry
<1> QED BY <1>1, StatOfType DEF GetState

(* What updated(true) by the agents of A leaves: no entry comes, goes or   *)
(* changes its pid, the pointers are those given, and only agents of A     *)
(* show something else than before, "not-available" without a process.     *)
Outcome(A, h, q) ==
  /\ ptr' = q
  /\ DOMAIN heap' = DOMAIN h
  /\ heap' \in [DOMAIN heap' -> Entry]
  /\ \A n \in DOMAIN h : heap'[n].pid = h[n].pid
  /\ shown' \in [Agent -> Verdict \cup {"none"}]
  /\ \A a \in Agent \ A : shown'[a] = shown[a]
  /\ \A a \in Agent \cap A : q[a] = Null => shown'[a] = "not-available"

(* updated(true), called by any agents on any list, has that outcome.      *)
LEMMA UpdatedFacts ==
  ASSUME shown \in [Agent -> Verdict \cup {"none"}],
         NEW A, NEW h, h \in [DOMAIN h -> Entry], NEW q,
         Updated(A, h, q)
  PROVE  Outcome(A, h, q)
<1> DEFINE stray == {a \in A : q[a] \notin DOMAIN h \cup {Null}}
           asked == {q[a] : a \in A}
           Eval(a) == IF q[a] = Null THEN "dead" ELSE GetState(h, q[a])
<1>1. /\ \E junk \in [stray -> Verdict] :
            shown' = [a \in Agent |-> IF a \in stray THEN junk[a]
                                      ELSE IF a \in A THEN Judge(Eval(a))
                                      ELSE shown[a]]
      /\ heap' = [n \in DOMAIN h |->
                    IF n \in asked THEN [h[n] EXCEPT !.state = GetState(h, n)] ELSE h[n]]
      /\ ptr' = q
  BY DEF Updated
<1>2. DOMAIN heap' = DOMAIN h
  BY <1>1
<1>3. ASSUME NEW n \in DOMAIN h
      PROVE  heap'[n] \in Entry /\ heap'[n].pid = h[n].pid
  <2>1. h[n] \in Entry /\ GetState(h, n) \in State
    BY GetStateType
  <2> QED BY <1>1, <2>1 DEF Entry
<1>4. PICK junk \in [stray -> Verdict] :
        shown' = [a \in Agent |-> IF a \in stray THEN junk[a]
                                  ELSE IF a \in A THEN Judge(Eval(a))
                                  ELSE shown[a]]
  BY <1>1
<1>5. \A s : Judge(s) \in Verdict
  BY DEF Judge, Verdict
<1>6. shown' \in [Agent -> Verdict \cup {"none"}]
  <2> HIDE DEF Eval
  <2> QED BY <1>4, <1>5
<1>7. \A a \in Agent \ A : shown'[a] = shown[a]
  BY <1>4
<1>8. \A a \in Agent \cap A : q[a] = Null => shown'[a] = "not-available"
  <2> SUFFICES ASSUME NEW a \in Agent \cap A, q[a] = Null
               PROVE  shown'[a] = "not-available"
    OBVIOUS
  <2>1. a \notin stray /\ Eval(a) = "dead"
    OBVIOUS
  <2>2. shown'[a] = Judge(Eval(a))
    <3> HIDE DEF Eval
    <3> QED BY <1>4, <2>1
  <2> QED BY <2>1, <2>2 DEF Judge
<1>9. heap' \in [DOMAIN heap' -> Entry]
  <2>1. heap' = [n \in DOMAIN heap' |-> heap'[n]]
    BY <1>1, <1>2
  <2> QED BY <1>2, <1>3, <2>1
<1> QED BY <1>1, <1>2, <1>3, <1>6, <1>7, <1>8, <1>9 DEF Outcome

(* insert(pid): one entry of that pid appears, at an address that was      *)
(* free, and becomes the process of the agents in Takers(p), of no other.  *)
LEMMA InsertFacts ==
  ASSUME TypeOK, NEW p \in Pid, InsertPid(p)
  PROVE  \E n \in Node \ DOMAIN heap :
           /\ DOMAIN heap' = DOMAIN heap \cup {n}
           /\ heap' \in [DOMAIN heap' -> Entry]
           /\ heap'[n].pid = p
           /\ \A m \in DOMAIN heap : heap'[m].pid = heap[m].pid
           /\ ptr' = [a \in Agent |-> IF a \in Takers(p) THEN n ELSE ptr[a]]
           /\ ptr' \in [Agent -> Node \cup {Null}]
           /\ shown' \in [Agent -> Verdict \cup {"none"}]
           /\ \A a \in Agent \ Takers(p) : shown'[a] = shown[a]
<1>1. PICK n \in Node \ DOMAIN heap :
        Updated(Takers(p),
                [m \in DOMAIN heap \cup {n} |->
                   IF m = n THEN [pid |-> p, state |-> "unread"] ELSE heap[m]],
                [a \in Agent |-> IF a \in Takers(p) THEN n ELSE ptr[a]])
  BY DEF InsertPid
<1> DEFINE h == [m \in DOMAIN heap \cup {n} |->
                   IF m = n THEN [pid |-> p, state |-> "unread"] ELSE heap[m]]
           q == [a \in Agent |-> IF a \in Takers(p) THEN n ELSE ptr[a]]
<1>2. /\ h \in [DOMAIN h -> Entry] /\ DOMAIN h = DOMAIN heap \cup {n}
      /\ h[n].pid = p /\ \A m \in DOMAIN heap : h[m] = heap[m]
  <2>1. [pid |-> p, state |-> "unread"] \in Entry
    BY DEF Entry, State
  <2>2. \A m \in DOMAIN heap : heap[m] \in Entry
    BY DEF TypeOK
  <2> QED BY <2>1, <2>2
<1>3. q \in [Agent -> Node \cup {Null}]
  BY DEF TypeOK
<1>4. Updated(Takers(p), h, q)
  BY <1>1
<1>5. shown \in [Agent -> Verdict \cup {"none"}]
  BY DEF TypeOK
<1>6. /\ ptr' = q
      /\ DOMAIN heap' = DOMAIN h
      /\ heap' \in [DOMAIN heap' -> Entry]
      /\ \A m \in DOMAIN h : heap'[m].pid = h[m].pid
      /\ shown' \in [Agent -> Verdict \cup {"none"}]
      /\ \A a \in Agent \ Takers(p) : shown'[a] = shown[a]
  <2> HIDE DEF h, q
  <2>1. Outcome(Takers(p), h, q)
    BY <1>2, <1>4, <1>5, UpdatedFacts
  <2> QED BY <2>1 DEF Outcome
<1> WITNESS n \in Node \ DOMAIN heap
<1> QED BY <1>2, <1>3, <1>6

(* remove(pid): the entries of that pid go, all of them and no other, and  *)
(* the registered agents that had one have no process any more and say so. *)
LEMMA RemoveFacts ==
  ASSUME TypeOK, NEW p \in Pid, RemovePid(p)
  PROVE  /\ DOMAIN heap' = {m \in DOMAIN heap : heap[m].pid # p}
         /\ heap' \in [DOMAIN heap' -> Entry]
         /\ \A m \in DOMAIN heap' : heap'[m].pid = heap[m].pid
         /\ ptr' = [a \in Agent |-> IF a \in Losers(p) THEN Null ELSE ptr[a]]
         /\ ptr' \in [Agent -> Node \cup {Null}]
         /\ shown' \in [Agent -> Verdict \cup {"none"}]
         /\ \A a \in Agent \ Losers(p) : shown'[a] = shown[a]
         /\ \A a \in Losers(p) : shown'[a] = "not-available"
<1> DEFINE h == [n \in {m \in DOMAIN heap : heap[m].pid # p} |-> heap[n]]
           q == [a \in Agent |-> IF a \in Losers(p) THEN Null ELSE ptr[a]]
<1>1. Updated(Losers(p), h, q)
  BY DEF RemovePid
<1>2. /\ h \in [DOMAIN h -> Entry] /\ DOMAIN h = {m \in DOMAIN heap : heap[m].pid # p}
      /\ \A m \in DOMAIN h : h[m] = heap[m]
  <2>1. \A m \in DOMAIN heap : heap[m] \in Entry
    BY DEF TypeOK
  <2> QED BY <2>1
<1>3. q \in [Agent -> Node \cup {Null}]
  BY DEF TypeOK
<1>4. shown \in [Agent -> Verdict \cup {"none"}]
  BY DEF TypeOK
<1>5. /\ ptr' = q
      /\ DOMAIN heap' = DOMAIN h
      /\ heap' \in [DOMAIN heap' -> Entry]
      /\ \A m \in DOMAIN h : heap'[m].pid = h[m].pid
      /\ shown' \in [Agent -> Verdict \cup {"none"}]
      /\ \A a \in Agent \ Losers(p) : shown'[a] = shown[a]
      /\ \A a \in Agent \cap Losers(p) : q[a] = Null => shown'[a] = "not-available"
  <2> HIDE DEF h, q
  <2>1. Outcome(Losers(p), h, q)
    BY <1>1, <1>2, <1>4, UpdatedFacts
  <2> QED BY <2>1 DEF Outcome
<1>6. Losers(p) \subseteq Agent
  BY DEF Losers, TypeOK
<1>7. \A m \in DOMAIN heap' : heap'[m].pid = heap[m].pid
  BY <1>2, <1>5
<1>8. \A a \in Losers(p) : shown'[a] = "not-available"
  BY <1>5, <1>6
<1>9. /\ DOMAIN heap' = {m \in DOMAIN heap : heap[m].pid # p}
      /\ ptr' \in [Agent -> Node \cup {Null}]
  BY <1>2, <1>3, <1>5
<1> QED BY <1>5, <1>7, <1>8, <1>9

(* refresh() adds and drops no entry, and changes the pid of none.         *)
LEMMA PolledFacts ==
  ASSUME TypeOK, NEW S
  PROVE  /\ DOMAIN Polled(S) = DOMAIN heap
         /\ Polled(S) \in [DOMAIN heap -> Entry]
         /\ \A n \in DOMAIN heap : Polled(S)[n].pid = heap[n].pid
<1>1. ASSUME NEW n \in DOMAIN heap
      PROVE  Polled(S)[n] \in Entry /\ Polled(S)[n].pid = heap[n].pid
  <2>1. heap[n] \in Entry /\ StatOf(heap[n].pid) \in State
    BY StatOfType DEF TypeOK
  <2> QED BY <2>1 DEF Polled, Entry
<1>2. /\ DOMAIN Polled(S) = DOMAIN heap
      /\ Polled(S) = [n \in DOMAIN heap |-> Polled(S)[n]]
  BY DEF Polled
<1> QED BY <1>1, <1>2

-----------------------------------------------------------------------------
(* The constructor leaves a list with one entry for each process it read.  *)
LEMMA InitIInv == Init => IInv
<1> SUFFICES ASSUME Init PROVE IInv
  OBVIOUS
<1>1. PICK at \in [Pid -> Node] :
        /\ \A p, q \in Pid : at[p] = at[q] => p = q
        /\ heap = [n \in {at[p] : p \in {q \in Pid : Listed(q)}} |->
                     [pid |-> CHOOSE p \in Pid : at[p] = n, state |-> "unread"]]
  BY DEF Init
<1>2. \A n \in DOMAIN heap : /\ n \in Node
                             /\ \E p \in Pid : at[p] = n
                             /\ heap[n].pid = CHOOSE p \in Pid : at[p] = n
                             /\ heap[n].state = "unread"
                             /\ heap[n] = [pid |-> heap[n].pid, state |-> heap[n].state]
  BY <1>1
<1>3. \A n \in DOMAIN heap : heap[n].pid \in Pid /\ at[heap[n].pid] = n
  BY <1>2
<1>4. OneEntryPerPid
  BY <1>3 DEF OneEntryPerPid
<1>5. heap \in [DOMAIN heap -> Entry] /\ DOMAIN heap \subseteq Node
  <2>1. \A n \in DOMAIN heap : heap[n] \in Entry
    BY <1>2, <1>3 DEF Entry, State
  <2>2. heap = [n \in DOMAIN heap |-> heap[n]]
    BY <1>1
  <2> QED BY <1>2, <2>1, <2>2
<1>6. TypeOK
  <2>1. events \in Seq(Event)
    BY DEF Init
  <2>2. /\ proc \in [Pid -> Exe \cup {"zombie", "free"}]
        /\ main = "ctor" /\ fd = FALSE /\ todo = {} /\ agents = {} /\ jobs = {}
        /\ due = {} /\ verdicts = {}
        /\ ptr = [a \in Agent |-> Null] /\ shown = [a \in Agent |-> "none"]
    BY DEF Init
  <2> QED BY <1>5, <2>1, <2>2 DEF TypeOK
<1>7. Phases /\ Unregistered /\ NoDanglingAgent
  BY DEF Init, Phases, Unregistered, NoDanglingAgent
<1> QED BY <1>4, <1>6, <1>7 DEF IInv

(* No step of the kernel touches what the program keeps.                   *)
LEMMA KernelIInv ==
  ASSUME IInv, Kernel
  PROVE  IInv'
<1>1. UNCHANGED <<main, fd, heap, todo, agentVars, jobs, loose>>
  BY DEF Kernel, Exit, Reap, Fork, Exec
<1>2. proc' \in [Pid -> Exe \cup {"zombie", "free"}] /\ events' \in Seq(Event)
  <2>1. PICK p \in Pid : Exit(p) \/ Reap(p) \/ \E e \in Exe : Fork(p, e) \/ Exec(p, e)
    BY DEF Kernel
  <2>2. \A what \in {"exec", "exit"} : Notify(what, p) => events' \in Seq(Event)
    <3> SUFFICES ASSUME NEW what \in {"exec", "exit"}, Notify(what, p)
                 PROVE  events' \in Seq(Event)
      OBVIOUS
    <3>1. [what |-> what, pid |-> p] \in Event
      BY DEF Event
    <3>2. events \in Seq(Event)
      BY DEF IInv, TypeOK
    <3> QED BY <3>1, <3>2 DEF Notify
  <2>3. events' = events => events' \in Seq(Event)
    BY DEF IInv, TypeOK
  <2>4. proc \in [Pid -> Exe \cup {"zombie", "free"}]
    BY DEF IInv, TypeOK
  <2> QED BY <2>1, <2>2, <2>3, <2>4 DEF Exit, Reap, Fork, Exec
<1>3. TypeOK'
  BY <1>1, <1>2 DEF IInv, TypeOK, agentVars, loose
<1> QED BY <1>1, <1>3 DEF IInv, agentVars, Phases, Known, Unregistered,
           NoDanglingAgent, OneEntryPerPid

(* An inserted entry does not disturb the others; without a socket it is   *)
(* the only one of its pid when the pid was not in the list.               *)
LEMMA InsertIInv ==
  ASSUME IInv, NEW p \in Pid, InsertPid(p),
         UNCHANGED <<proc, main, fd, agents, jobs, loose>>,
         events' \in Seq(Event), todo' \subseteq todo,
         fd \/ (p \notin Known(heap) /\ p \notin todo'),
         main # "ctor"
  PROVE  IInv'
<1>1. TypeOK
  BY DEF IInv
<1>2. PICK n \in Node \ DOMAIN heap :
         /\ DOMAIN heap' = DOMAIN heap \cup {n}
         /\ heap' \in [DOMAIN heap' -> Entry]
         /\ heap'[n].pid = p
         /\ \A m \in DOMAIN heap : heap'[m].pid = heap[m].pid
         /\ ptr' = [a \in Agent |-> IF a \in Takers(p) THEN n ELSE ptr[a]]
         /\ ptr' \in [Agent -> Node \cup {Null}]
         /\ shown' \in [Agent -> Verdict \cup {"none"}]
         /\ \A a \in Agent \ Takers(p) : shown'[a] = shown[a]
  BY <1>1, InsertFacts
<1>3. TypeOK'
  BY <1>1, <1>2 DEF TypeOK, loose
<1>4. Takers(p) \subseteq agents /\ agents \subseteq Agent
  BY <1>1 DEF Takers, TypeOK
<1>5. Known(heap') = Known(heap) \cup {p}
  BY <1>2 DEF Known
<1>6. Phases'
  BY <1>5 DEF IInv, Phases
<1>7. Unregistered'
  BY <1>2, <1>4 DEF IInv, Unregistered
<1>8. NoDanglingAgent'
  BY <1>2, <1>4 DEF IInv, NoDanglingAgent
<1>9. OneEntryPerPid'
  BY <1>2 DEF IInv, OneEntryPerPid, Known
<1> QED BY <1>3, <1>6, <1>7, <1>8, <1>9 DEF IInv

(* remove(pid) leaves no registered agent with a pointer to what it freed. *)
LEMMA RemoveIInv ==
  ASSUME IInv, NEW p \in Pid, RemovePid(p),
         UNCHANGED <<proc, main, fd, todo, agents, jobs, loose>>,
         events' \in Seq(Event), fd
  PROVE  IInv'
<1>1. TypeOK
  BY DEF IInv
<1>2. /\ DOMAIN heap' = {m \in DOMAIN heap : heap[m].pid # p}
      /\ heap' \in [DOMAIN heap' -> Entry]
      /\ \A m \in DOMAIN heap' : heap'[m].pid = heap[m].pid
      /\ ptr' = [a \in Agent |-> IF a \in Losers(p) THEN Null ELSE ptr[a]]
      /\ ptr' \in [Agent -> Node \cup {Null}]
      /\ shown' \in [Agent -> Verdict \cup {"none"}]
      /\ \A a \in Agent \ Losers(p) : shown'[a] = shown[a]
      /\ \A a \in Losers(p) : shown'[a] = "not-available"
  BY <1>1, RemoveFacts
<1>3. TypeOK'
  BY <1>1, <1>2 DEF TypeOK, loose
<1>4. agents \subseteq Agent /\ Losers(p) \subseteq agents
  BY <1>1 DEF Losers, TypeOK
<1>5. Phases' /\ OneEntryPerPid'
  BY DEF IInv, Phases, OneEntryPerPid
<1>6. Unregistered'
  BY <1>2, <1>4 DEF IInv, Unregistered
<1>7. NoDanglingAgent'
  <2> SUFFICES ASSUME NEW a \in agents
               PROVE  ptr'[a] \in DOMAIN heap' \cup {Null}
    BY DEF NoDanglingAgent
  <2>1. ptr[a] \in DOMAIN heap \cup {Null}
    BY DEF IInv, NoDanglingAgent
  <2>2. a \notin Losers(p) /\ ptr[a] \in DOMAIN heap => heap[ptr[a]].pid # p
    BY DEF Losers
  <2> QED BY <1>2, <1>4, <2>1, <2>2
<1> QED BY <1>3, <1>5, <1>6, <1>7 DEF IInv

(* A step that adds and drops no entry, changes the pid of none, and keeps *)
(* the agents' pointers, keeps the invariant.                              *)
SamePids ==
  /\ DOMAIN heap' = DOMAIN heap
  /\ heap' \in [DOMAIN heap -> Entry]
  /\ \A n \in DOMAIN heap : heap'[n].pid = heap[n].pid

LEMMA QuietIInv ==
  ASSUME IInv, SamePids,
         UNCHANGED <<kernelVars, main, fd, todo, agents, ptr>>, main # "ctor",
         jobs' \subseteq {"refresh", "update"},
         due' \subseteq Worker \X agents, verdicts' \subseteq Worker \X agents \X Verdict,
         shown' \in [Agent -> Verdict \cup {"none"}],
         \A a \in Agent \ agents : shown'[a] = shown[a]
  PROVE  IInv'
<1>1. TypeOK'
  BY DEF IInv, SamePids, TypeOK, kernelVars
<1>2. Known(heap') = Known(heap)
  BY DEF SamePids, Known
<1> QED BY <1>1, <1>2 DEF IInv, SamePids, Phases, Unregistered, NoDanglingAgent, OneEntryPerPid

(* What one thread computes without the guard changes nothing but cached   *)
(* states; without a process it is "not-available".                        *)
LEMMA EvaluateFacts ==
  ASSUME TypeOK, NEW w, NEW a, Evaluate(w, a)
  PROVE  /\ <<w, a>> \in due /\ w \in Worker /\ a \in agents
         /\ SamePids /\ due' \subseteq due
         /\ \E v \in Verdict : /\ verdicts' = verdicts \cup {<<w, a, v>>}
                               /\ ptr[a] = Null => v = "not-available"
         /\ UNCHANGED <<kernelVars, main, fd, todo, agentVars, jobs>>
<1>1. /\ <<w, a>> \in due /\ w \in Worker /\ a \in agents /\ due' \subseteq due
      /\ UNCHANGED <<kernelVars, main, fd, todo, agentVars, jobs>>
  BY DEF Evaluate, TypeOK
<1>2. PICK v \in Verdict : Computes(a, v) /\ verdicts' = verdicts \cup {<<w, a, v>>}
  BY DEF Evaluate
<1>3. ptr[a] = Null => v = "not-available"
  <2> SUFFICES ASSUME ptr[a] = Null PROVE v = "not-available"
    OBVIOUS
  <2>1. ptr[a] \notin DOMAIN heap
    BY NullAssumption DEF TypeOK
  <2> QED BY <1>2, <2>1 DEF Computes, Judge
<1>4. heap \in [DOMAIN heap -> Entry]
  BY DEF TypeOK
<1>5. SamePids
  <2>1. CASE heap' = heap
    BY <1>4, <2>1 DEF SamePids
  <2>2. CASE /\ ptr[a] \in DOMAIN heap
             /\ heap' = [heap EXCEPT ![ptr[a]].state = GetState(heap, ptr[a])]
    <3>1. GetState(heap, ptr[a]) \in State
      BY <1>4, <2>2, GetStateType
    <3> QED BY <1>4, <2>2, <3>1 DEF SamePids, Entry
  <2> QED BY <1>2, <2>1, <2>2 DEF Computes
<1> QED BY <1>1, <1>2, <1>3, <1>5

(* An evaluation without the guard keeps the invariant.                    *)
LEMMA EvaluationIInv ==
  ASSUME IInv, NEW w, NEW a, Evaluation(w, a)
  PROVE  IInv'
<1>1. TypeOK
  BY DEF IInv
<1>2. CASE Evaluate(w, a)
  <2>1. PICK v \in Verdict : verdicts' = verdicts \cup {<<w, a, v>>}
    BY <1>1, <1>2, EvaluateFacts
  <2>2. /\ w \in Worker /\ a \in agents /\ SamePids /\ due' \subseteq due
        /\ UNCHANGED <<kernelVars, main, fd, todo, agentVars, jobs>>
    BY <1>1, <1>2, EvaluateFacts
  <2>3. /\ main # "ctor" /\ jobs' \subseteq {"refresh", "update"}
        /\ due' \subseteq Worker \X agents
        /\ shown' \in [Agent -> Verdict \cup {"none"}]
    BY <1>1, <2>2 DEF IInv, Phases, TypeOK, agentVars
  <2>4. verdicts' \subseteq Worker \X agents \X Verdict
    BY <1>1, <2>1, <2>2 DEF TypeOK
  <2> QED BY <2>2, <2>3, <2>4, QuietIInv DEF agentVars
<1>3. ASSUME NEW v \in Verdict, Show(w, a, v) PROVE IInv'
  <2>1. a \in agents /\ agents \subseteq Agent /\ main # "ctor"
    BY <1>1, <1>3 DEF Show, IInv, Phases, TypeOK
  <2>2. /\ UNCHANGED <<kernelVars, main, fd, todo, agents, ptr, heap>>
        /\ jobs' \subseteq {"refresh", "update"}
        /\ due' \subseteq Worker \X agents /\ verdicts' \subseteq Worker \X agents \X Verdict
    BY <1>1, <1>3 DEF Show, TypeOK
  <2>3. /\ shown' \in [Agent -> Verdict \cup {"none"}]
        /\ \A b \in Agent \ agents : shown'[b] = shown[b]
    BY <1>1, <1>3, <2>1 DEF Show, TypeOK
  <2>4. SamePids
    BY <1>1, <2>2 DEF SamePids, TypeOK
  <2> QED BY <2>1, <2>2, <2>3, <2>4, QuietIInv
<1> QED BY <1>2, <1>3 DEF Evaluation

(* updated(true) by agents that are registered, or are being registered,   *)
(* on the list as it is: the pointers given are null, unchanged, or to an  *)
(* entry.                                                                  *)
LEMMA NotifyIInv ==
  ASSUME IInv, NEW A \in SUBSET Agent, NEW q \in [Agent -> Node \cup {Null}],
         Updated(A, heap, q),
         UNCHANGED <<kernelVars, main, fd, todo, verdicts>>,
         main # "ctor", agents' = agents \cup A, due' \subseteq Worker \X agents',
         jobs' \subseteq {"refresh", "update"},
         \A a \in Agent : q[a] = ptr[a] \/ (a \in A /\ q[a] \in DOMAIN heap)
  PROVE  IInv'
<1>1. TypeOK
  BY DEF IInv
<1>2. /\ ptr' = q
      /\ DOMAIN heap' = DOMAIN heap
      /\ heap' \in [DOMAIN heap' -> Entry]
      /\ \A n \in DOMAIN heap : heap'[n].pid = heap[n].pid
      /\ shown' \in [Agent -> Verdict \cup {"none"}]
      /\ \A a \in Agent \ A : shown'[a] = shown[a]
      /\ \A a \in Agent \cap A : q[a] = Null => shown'[a] = "not-available"
  <2>1. heap \in [DOMAIN heap -> Entry] /\ shown \in [Agent -> Verdict \cup {"none"}]
    BY <1>1 DEF TypeOK
  <2>2. Outcome(A, heap, q)
    BY <2>1, UpdatedFacts
  <2> QED BY <2>2 DEF Outcome
<1>3. TypeOK'
  BY <1>1, <1>2 DEF TypeOK, kernelVars
<1>4. Known(heap') = Known(heap)
  BY <1>2 DEF Known
<1>5. Phases' /\ OneEntryPerPid'
  BY <1>2, <1>4 DEF IInv, Phases, OneEntryPerPid
<1>6. Unregistered'
  BY <1>2 DEF IInv, Unregistered
<1>7. NoDanglingAgent'
  <2> SUFFICES ASSUME fd, NEW a \in agents \cup A
               PROVE  q[a] \in DOMAIN heap \cup {Null}
    BY <1>2 DEF NoDanglingAgent
  <2>1. a \in Agent /\ (q[a] = ptr[a] \/ q[a] \in DOMAIN heap)
    BY <1>1 DEF TypeOK
  <2>2. ptr[a] \in DOMAIN heap \cup {Null}
    BY <2>1 DEF IInv, NoDanglingAgent, Unregistered
  <2> QED BY <2>1, <2>2
<1> QED BY <1>3, <1>5, <1>6, <1>7 DEF IInv

(* The steps of the main thread.                                           *)
LEMMA MainThreadIInv ==
  ASSUME IInv, MainThread
  PROVE  IInv'
<1>1. TypeOK
  BY DEF IInv
<1>2. CASE Subscribe
  <2>1. fd' \in BOOLEAN
    BY <1>2, SocketAssumption DEF Subscribe
  <2>2. TypeOK'
    BY <1>1, <1>2, <2>1 DEF TypeOK, Subscribe, kernelVars, agentVars, loose
  <2> QED BY <1>2, <2>2 DEF IInv, Subscribe, agentVars, Phases, Known, Unregistered,
             NoDanglingAgent, OneEntryPerPid
<1>3. ASSUME NEW p \in Pid, HandleExec(p) PROVE IInv'
  <2>1. /\ InsertPid(p) /\ UNCHANGED <<proc, main, fd, todo, agents, jobs, loose>>
        /\ events # <<>> /\ events' = Tail(events) /\ fd /\ main = "idle"
    BY <1>3 DEF HandleExec, Receive
  <2>2. events' \in Seq(Event)
    BY <1>1, <2>1 DEF TypeOK
  <2> QED BY <2>1, <2>2, InsertIInv
<1>4. ASSUME NEW p \in Pid, HandleExit(p) PROVE IInv'
  <2>1. /\ RemovePid(p) /\ UNCHANGED <<proc, main, fd, todo, agents, jobs, loose>>
        /\ events # <<>> /\ events' = Tail(events) /\ fd
    BY <1>4 DEF HandleExit, Receive
  <2>2. events' \in Seq(Event)
    BY <1>1, <2>1 DEF TypeOK
  <2> QED BY <2>1, <2>2, RemoveIInv
<1>5. CASE OnTimer
  BY <1>1, <1>5 DEF OnTimer, IInv, TypeOK, kernelVars, agentVars, loose, Phases, Known,
     Unregistered, NoDanglingAgent, OneEntryPerPid
<1>6. CASE ReloadLoad
  <2>1. TypeOK'
    BY <1>1, <1>6 DEF ReloadLoad, TypeOK, kernelVars, agentVars, loose
  <2> QED BY <1>6, <2>1 DEF ReloadLoad, IInv, kernelVars, agentVars, Phases,
             Unregistered, NoDanglingAgent, OneEntryPerPid
<1>7. CASE ReloadPurge
  <2>1. ~fd /\ ~fd'
    BY <1>7 DEF ReloadPurge, IInv, Phases
  <2>2. /\ DOMAIN heap' \subseteq DOMAIN heap
        /\ heap' \in [DOMAIN heap' -> Entry]
        /\ \A n \in DOMAIN heap' : heap'[n] = heap[n]
        /\ todo' = todo \ Known(heap')
    BY <1>1, <1>7 DEF ReloadPurge, Purged, Missing, TypeOK
  <2>3. TypeOK'
    BY <1>1, <1>7, <2>2 DEF ReloadPurge, TypeOK, kernelVars, agentVars, loose
  <2>4. OneEntryPerPid'
    BY <2>1, <2>2 DEF IInv, OneEntryPerPid
  <2>5. Phases'
    BY <1>7, <2>1, <2>2 DEF ReloadPurge, Phases
  <2> QED BY <1>7, <2>1, <2>3, <2>4, <2>5 DEF ReloadPurge, IInv, agentVars,
             Unregistered, NoDanglingAgent
<1>8. CASE ReloadEnd
  <2>1. TypeOK'
    BY <1>1, <1>8 DEF ReloadEnd, TypeOK, kernelVars, agentVars, loose
  <2> QED BY <1>8, <2>1 DEF ReloadEnd, IInv, kernelVars, agentVars, Phases,
             Unregistered, NoDanglingAgent, OneEntryPerPid
<1>9. ASSUME NEW p \in Pid, ReloadNext(p) PROVE IInv'
  <2>1. /\ InsertPid(p) /\ UNCHANGED <<proc, events, main, fd, agents, jobs, loose>>
        /\ todo' = todo \ {p} /\ p \in todo /\ main = "reload"
    BY <1>9 DEF ReloadNext, kernelVars
  <2>2. p \notin Known(heap) /\ p \notin todo' /\ todo' \subseteq todo
    BY <2>1 DEF IInv, Phases
  <2>3. events' \in Seq(Event)
    BY <1>1, <2>1 DEF TypeOK
  <2> QED BY <2>1, <2>2, <2>3, InsertIInv
<1>10. CASE ReloadFail
  <2>1. DOMAIN heap' = {} /\ heap' \in [DOMAIN heap' -> Entry]
    BY <1>10 DEF ReloadFail
  <2>2. TypeOK'
    BY <1>1, <1>10, <2>1 DEF ReloadFail, TypeOK, kernelVars, agentVars, loose
  <2> QED BY <1>10, <2>1, <2>2 DEF ReloadFail, IInv, kernelVars, agentVars, Phases, Known,
             Unregistered, NoDanglingAgent, OneEntryPerPid
<1> QED BY <1>2, <1>3, <1>4, <1>5, <1>6, <1>7, <1>8, <1>9, <1>10
        DEF MainThread, HandleEvent, Reload

(* The jobs of the thread pool.                                            *)
LEMMA PoolIInv ==
  ASSUME IInv, Pool
  PROVE  IInv'
<1>1. TypeOK
  BY DEF IInv
<1>2. CASE RefreshJob \/ RefreshFail
  <2>1. /\ jobs' \subseteq {"refresh", "update"} /\ main # "ctor"
        /\ UNCHANGED <<kernelVars, main, fd, todo, agentVars, loose>>
    BY <1>1, <1>2 DEF RefreshJob, RefreshFail, AfterRefresh, GuardFree, TypeOK
  <2>2. PICK S : heap' = Polled(S)
    BY <1>2 DEF RefreshJob, RefreshFail
  <2>3. SamePids
    BY <1>1, <2>2, PolledFacts DEF SamePids
  <2> QED BY <1>1, <2>1, <2>3, QuietIInv DEF TypeOK, agentVars, loose
<1>3. CASE UpdateJob
  <2>1. jobs' \subseteq {"refresh", "update"} /\ main # "ctor"
    BY <1>1, <1>3 DEF UpdateJob, IInv, Phases, TypeOK
  <2>2. /\ UNCHANGED <<kernelVars, main, fd, heap, todo, agentVars, verdicts>>
        /\ due' \subseteq Worker \X agents
    BY <1>1, <1>3 DEF UpdateJob, TypeOK, Worker
  <2>3. SamePids
    BY <1>1, <2>2 DEF SamePids, TypeOK
  <2> QED BY <1>1, <2>1, <2>2, <2>3, QuietIInv DEF TypeOK, agentVars
<1> QED BY <1>2, <1>3, EvaluationIInv DEF Pool, Update

(* Agents that start and agents that are destroyed.                        *)
LEMMA AgentsIInv ==
  ASSUME IInv, Agents
  PROVE  IInv'
<1>1. TypeOK
  BY DEF IInv
<1>2. ASSUME NEW a \in Agent, Start(a) PROVE IInv'
  <2>1. /\ UNCHANGED <<kernelVars, main, fd, todo, jobs, verdicts>>
        /\ main # "ctor" /\ a \notin agents /\ agents' = agents \cup {a}
        /\ jobs' \subseteq {"refresh", "update"} /\ due' \subseteq Worker \X agents'
    BY <1>1, <1>2 DEF Start, Joined, Worker, GuardFree, TypeOK
  <2>2. \/ \E n \in DOMAIN heap : Updated({a}, heap, [ptr EXCEPT ![a] = n])
        \/ UNCHANGED <<heap, ptr, shown>>
    BY <1>2 DEF Start, Matching
  <2>3. ptr \in [Agent -> Node \cup {Null}] /\ DOMAIN heap \subseteq Node
    BY <1>1 DEF TypeOK
  <2>4. ASSUME NEW n \in DOMAIN heap, Updated({a}, heap, [ptr EXCEPT ![a] = n])
        PROVE  IInv'
    <3> DEFINE q == [ptr EXCEPT ![a] = n]
    <3>1. /\ q \in [Agent -> Node \cup {Null}]
          /\ \A b \in Agent : q[b] = ptr[b] \/ (b \in {a} /\ q[b] \in DOMAIN heap)
      BY <2>3
    <3>2. Updated({a}, heap, q)
      BY <2>4
    <3> HIDE DEF q
    <3> QED BY <2>1, <3>1, <3>2, NotifyIInv
  <2>5. CASE UNCHANGED <<heap, ptr, shown>>
    BY <1>1, <2>1, <2>5 DEF IInv, TypeOK, kernelVars, Phases, Known, Unregistered,
       NoDanglingAgent, OneEntryPerPid
  <2> QED BY <2>2, <2>4, <2>5
<1>3. ASSUME NEW a \in Agent, Destroy(a) PROVE IInv'
  <2>1. TypeOK'
    BY <1>1, <1>3 DEF Destroy, TypeOK, kernelVars
  <2>2. Phases' /\ OneEntryPerPid'
    BY <1>3 DEF Destroy, GuardFree, IInv, Phases, OneEntryPerPid
  <2>3. Unregistered' /\ NoDanglingAgent'
    BY <1>1, <1>3 DEF Destroy, IInv, TypeOK, Unregistered, NoDanglingAgent
  <2> QED BY <2>1, <2>2, <2>3 DEF IInv
<1>4. ASSUME NEW a \in Agent, StartLate(a) PROVE IInv'
  BY <1>1, <1>4 DEF StartLate, IInv, TypeOK, kernelVars, agentVars, Phases, Known, Unregistered,
     NoDanglingAgent, OneEntryPerPid
<1> QED BY <1>2, <1>3, <1>4, EvaluationIInv DEF Agents

(* Every step, and every stutter, keeps the invariant.                     *)
LEMMA NextIInv == IInv /\ [Next]_vars => IInv'
<1> SUFFICES ASSUME IInv, [Next]_vars PROVE IInv'
  OBVIOUS
<1>1. CASE UNCHANGED vars
  BY <1>1 DEF IInv, vars, kernelVars, agentVars, loose, TypeOK, Phases, Known, Unregistered,
     NoDanglingAgent, OneEntryPerPid
<1> QED BY <1>1, KernelIInv, MainThreadIInv, PoolIInv, AgentsIInv DEF Next

(* The inductive invariant holds of every behaviour.                       *)
LEMMA SpecIInv == Spec => []IInv
BY InitIInv, NextIInv, PTL DEF Spec

-----------------------------------------------------------------------------
(* Every variable stays in its type: addresses, pids and cached states are *)
(* never confused, whatever order messages, timers and jobs come in.       *)
THEOREM TypeCorrect == Spec => []TypeOK
<1>1. IInv => TypeOK
  BY DEF IInv
<1> QED BY <1>1, SpecIInv, PTL

(* With a working netlink socket no registered agent points to an entry    *)
(* that remove(pid) has freed.                                             *)
THEOREM NeverDangling == Spec => []NoDanglingAgent
<1>1. IInv => NoDanglingAgent
  BY DEF IInv
<1> QED BY <1>1, SpecIInv, PTL

(* Without a socket reload() never registers a pid twice.                  *)
THEOREM NoDuplicateWithoutSocket == Spec => []OneEntryPerPid
<1>1. IInv => OneEntryPerPid
  BY DEF IInv
<1> QED BY <1>1, SpecIInv, PTL

(* What AttachOnlyMatching asks of one step and one agent.                 *)
TakesMatching(a) ==
  ptr'[a] \notin {ptr[a], Null} =>
    /\ ptr[a] = Null
    /\ ptr'[a] \in DOMAIN heap' /\ Probe(a, heap'[ptr'[a]].pid)

(* Only insert(pid) and Agent::start give an agent a process; both probe   *)
(* it, and neither does so to an agent that has one.                       *)
LEMMA StepTakesMatching ==
  ASSUME IInv, Next, NEW a \in Agent
  PROVE  TakesMatching(a)
<1>1. TypeOK
  BY DEF IInv
<1>2. ASSUME ptr' = ptr PROVE TakesMatching(a)
  BY <1>2 DEF TakesMatching
<1>3. ASSUME NEW p \in Pid, InsertPid(p) PROVE TakesMatching(a)
  <2>1. PICK n \in Node \ DOMAIN heap :
           /\ DOMAIN heap' = DOMAIN heap \cup {n}
           /\ heap'[n].pid = p
           /\ ptr' = [b \in Agent |-> IF b \in Takers(p) THEN n ELSE ptr[b]]
    BY <1>1, <1>3, InsertFacts
  <2>2. a \in Takers(p) => ptr[a] = Null /\ Probe(a, p)
    BY DEF Takers
  <2> QED BY <2>1, <2>2 DEF TakesMatching
<1>4. ASSUME NEW p \in Pid, RemovePid(p) PROVE TakesMatching(a)
  <2>1. ptr' = [b \in Agent |-> IF b \in Losers(p) THEN Null ELSE ptr[b]]
    BY <1>1, <1>4, RemoveFacts
  <2> QED BY <2>1 DEF TakesMatching
<1>10. ASSUME NEW w, NEW b, Evaluation(w, b) \/ StartLate(b) PROVE ptr' = ptr
  BY <1>10 DEF Evaluation, Evaluate, Show, StartLate, agentVars
<1>5. CASE Kernel
  <2>1. ptr' = ptr
    BY <1>5 DEF Kernel, Exit, Reap, Fork, Exec, agentVars
  <2> QED BY <1>2, <2>1
<1>6. CASE MainThread
  BY <1>2, <1>3, <1>4, <1>6 DEF MainThread, Subscribe, HandleEvent, HandleExec, HandleExit,
     OnTimer, Reload, ReloadLoad, ReloadPurge, ReloadEnd, ReloadNext, ReloadFail, agentVars
<1>7. CASE Pool
  BY <1>2, <1>7, <1>10 DEF Pool, Update, UpdateJob, RefreshJob, RefreshFail, agentVars
<1>8. ASSUME NEW b \in Agent, Start(b) PROVE TakesMatching(a)
  <2>1. b \notin agents /\ ptr \in [Agent -> Node \cup {Null}] /\ proc' = proc
    BY <1>1, <1>8 DEF Start, TypeOK, kernelVars
  <2>2. ptr[b] = Null
    BY <2>1 DEF IInv, Unregistered
  <2>3. ASSUME NEW n \in DOMAIN heap, Probe(b, heap[n].pid),
               Updated({b}, heap, [ptr EXCEPT ![b] = n])
        PROVE  TakesMatching(a)
    <3>1. ptr' = [ptr EXCEPT ![b] = n]
      BY <2>3 DEF Updated
    <3>2. DOMAIN heap' = DOMAIN heap /\ heap'[n].pid = heap[n].pid
      <4> DEFINE q == [ptr EXCEPT ![b] = n]
      <4>1. heap \in [DOMAIN heap -> Entry] /\ shown \in [Agent -> Verdict \cup {"none"}]
        BY <1>1 DEF TypeOK
      <4>2. Updated({b}, heap, q)
        BY <2>3
      <4> HIDE DEF q
      <4>3. Outcome({b}, heap, q)
        BY <4>1, <4>2, UpdatedFacts
      <4> QED BY <4>3 DEF Outcome
    <3> QED BY <2>1, <2>2, <2>3, <3>1, <3>2 DEF TakesMatching
  <2> QED BY <1>2, <1>8, <2>3 DEF Start, Matching
<1>9. ASSUME NEW b \in Agent, Destroy(b) PROVE TakesMatching(a)
  BY <1>1, <1>9 DEF Destroy, TypeOK, TakesMatching
<1> QED BY <1>2, <1>5, <1>6, <1>7, <1>8, <1>9, <1>10 DEF Next, Agents

(* An agent without a process takes only one that then runs its program,   *)
(* and an agent with a process never goes over to another.                 *)
THEOREM AttachesOnlyToItsProgram == Spec => AttachOnlyMatching
<1>1. IInv /\ [Next]_vars => [\A a \in Agent : TakesMatching(a)]_vars
  BY StepTakesMatching
<1>2. (\A a \in Agent : TakesMatching(a)) <=>
      (\A a \in Agent : ptr'[a] \notin {ptr[a], Null} =>
         /\ ptr[a] = Null
         /\ ptr'[a] \in DOMAIN heap' /\ Probe(a, heap'[ptr'[a]].pid))
  BY DEF TakesMatching
<1> QED BY <1>1, <1>2, SpecIInv, PTL DEF Spec, AttachOnlyMatching

-----------------------------------------------------------------------------
(* What a step may do to the list, up to the pids in it, and to reload().  *)
Inserts(p) ==
  /\ InsertPid(p) /\ Known(heap') = Known(heap) \cup {p} /\ main' = main
  /\ \/ main = "idle"
     \/ main = "reload" /\ p \in todo /\ todo' = todo \ {p}

(* The jobs of the pool and the agents register and drop no pid, and leave *)
(* the kernel and the main thread alone.                                   *)
Aside == UNCHANGED <<kernelVars, main, fd, todo>>

LEMMA BystanderKnown ==
  ASSUME IInv, Pool \/ Agents
  PROVE  Known(heap') = Known(heap) /\ Aside
<1>1. TypeOK
  BY DEF IInv
<1>2. RefreshJob \/ RefreshFail => Known(heap') = Known(heap) /\ Aside
  <2>1. \A S : Known(Polled(S)) = Known(heap)
    BY <1>1, PolledFacts DEF Known
  <2> QED BY <2>1 DEF RefreshJob, RefreshFail, Aside
<1>3. ASSUME NEW A, NEW q, Updated(A, heap, q) PROVE Known(heap') = Known(heap)
  <2>1. heap \in [DOMAIN heap -> Entry] /\ shown \in [Agent -> Verdict \cup {"none"}]
    BY <1>1 DEF TypeOK
  <2>2. Outcome(A, heap, q)
    BY <1>3, <2>1, UpdatedFacts
  <2> QED BY <2>2 DEF Outcome, Known
<1>4. ASSUME NEW w, NEW a, Evaluation(w, a)
      PROVE  Known(heap') = Known(heap) /\ Aside
  <2>1. Evaluate(w, a) => SamePids /\ Aside
    BY <1>1, EvaluateFacts DEF Aside
  <2>2. SamePids => Known(heap') = Known(heap)
    BY DEF SamePids, Known
  <2>3. (\E v \in Verdict : Show(w, a, v)) => heap' = heap /\ Aside
    BY DEF Show, Aside
  <2> QED BY <1>4, <2>1, <2>2, <2>3 DEF Evaluation
<1>5. ASSUME NEW a \in Agent, Start(a) PROVE Known(heap') = Known(heap) /\ Aside
  <2>1. ASSUME NEW n, Updated({a}, heap, [ptr EXCEPT ![a] = n]) PROVE Known(heap') = Known(heap)
    <3> DEFINE q == [ptr EXCEPT ![a] = n]
    <3>1. Updated({a}, heap, q)
      BY <2>1
    <3> HIDE DEF q
    <3> QED BY <1>3, <3>1
  <2>2. (\E n : Updated({a}, heap, [ptr EXCEPT ![a] = n])) \/ heap' = heap
    <3> DEFINE q(n) == [ptr EXCEPT ![a] = n]
    <3>1. (\E n \in Matching(a) : Updated({a}, heap, q(n))) \/ heap' = heap
      BY <1>5 DEF Start
    <3> HIDE DEF q
    <3>2. (\E n : Updated({a}, heap, q(n))) \/ heap' = heap
      BY <3>1
    <3> QED BY <3>2 DEF q
  <2> QED BY <1>5, <2>1, <2>2 DEF Start, Aside
<1>6. UpdateJob \/ (\E a \in Agent : Destroy(a) \/ StartLate(a)) => heap' = heap /\ Aside
  BY DEF UpdateJob, Destroy, StartLate, Aside
<1> QED BY <1>2, <1>4, <1>5, <1>6 DEF Pool, Update, Agents

LEMMA StepKnown ==
  ASSUME IInv, Next
  PROVE  \/ Known(heap') = Known(heap) /\ UNCHANGED <<main, todo>>
         \/ Known(heap') \subseteq Known(heap) /\ ~Reloading
         \/ \E p \in Pid : Inserts(p)
         \/ ReloadPurge
         \/ ReloadEnd
<1>1. TypeOK
  BY DEF IInv
<1>2. Kernel \/ OnTimer => UNCHANGED <<heap, main, todo>>
  BY DEF Kernel, Exit, Reap, Fork, Exec, OnTimer
<1>3. Subscribe \/ ReloadLoad => heap' = heap /\ ~Reloading
  BY DEF Subscribe, ReloadLoad, Reloading
<1>4. ReloadFail => Known(heap') = {} /\ main = "idle"
  BY DEF ReloadFail, Known
<1>9. ASSUME NEW p \in Pid, InsertPid(p) PROVE Known(heap') = Known(heap) \cup {p}
  <2>1. PICK n \in Node \ DOMAIN heap :
          /\ DOMAIN heap' = DOMAIN heap \cup {n} /\ heap'[n].pid = p
          /\ \A m \in DOMAIN heap : heap'[m].pid = heap[m].pid
    BY <1>1, <1>9, InsertFacts
  <2> QED BY <2>1 DEF Known
<1>10. ASSUME NEW p \in Pid, HandleExec(p) \/ ReloadNext(p) PROVE Inserts(p)
  BY <1>9, <1>10 DEF HandleExec, Receive, ReloadNext, Inserts
<1>11. ASSUME NEW p \in Pid, HandleExit(p) PROVE Known(heap') \subseteq Known(heap) /\ main = "idle"
  <2>1. RemovePid(p) /\ main = "idle"
    BY <1>11 DEF HandleExit, Receive
  <2> QED BY <1>1, <2>1, RemoveFacts DEF Known
<1>12. CASE Kernel \/ Pool \/ Agents
  BY <1>2, <1>12, BystanderKnown DEF Aside
<1>13. CASE MainThread
  BY <1>2, <1>3, <1>4, <1>10, <1>11, <1>13 DEF MainThread, HandleEvent, Reload, Reloading
<1> QED BY <1>12, <1>13 DEF Next

(* What ReloadIsExact asks of one step.                                    *)
KeepsPromise ==
  Reloading =>
    /\ main' = "idle" => Known(heap') = Promised
    /\ main' # "idle" => Promised' = Promised

LEMMA StepKeepsPromise == ASSUME IInv, Next PROVE KeepsPromise
<1>1. CASE Known(heap') = Known(heap) /\ UNCHANGED <<main, todo>>
  <2>1. Promised' = (IF main' = "reload" THEN Known(heap') \cup todo' ELSE todo')
    BY DEF Promised
  <2>2. Promised' = Promised
    BY <1>1, <2>1 DEF Promised
  <2> QED BY <1>1, <2>2 DEF KeepsPromise, Reloading
<1>2. CASE ~Reloading
  BY <1>2 DEF KeepsPromise
<1>3. ASSUME NEW p \in Pid, Inserts(p) PROVE KeepsPromise
  BY <1>3 DEF Inserts, KeepsPromise, Promised, Reloading
<1>4. CASE ReloadPurge
  <2>1. Known(heap') \subseteq todo /\ todo' = todo \ Known(heap') /\ main = "load" /\ main' = "reload"
    BY <1>4 DEF ReloadPurge, Purged, Missing, Known
  <2>2. Promised = todo /\ Promised' = Known(heap') \cup todo'
    BY <2>1 DEF Promised
  <2> QED BY <2>1, <2>2 DEF KeepsPromise
<1>5. CASE ReloadEnd
  BY <1>5 DEF ReloadEnd, KeepsPromise, Promised
<1> QED BY <1>1, <1>2, <1>3, <1>4, <1>5, StepKnown

(* However long a reload takes and whatever runs beside it, it leaves the  *)
(* list with the pids /proc named: what ListFollowsProc needs of a step.   *)
THEOREM ReloadKeepsItsPromise == Spec => ReloadIsExact
<1>1. IInv /\ [Next]_vars => [KeepsPromise]_vars
  BY StepKeepsPromise
<1> QED BY <1>1, SpecIInv, PTL DEF Spec, ReloadIsExact, KeepsPromise

(* What NewPidIsOffered asks of one step.                                  *)
Offers ==
  \A p \in Known(heap') \ Known(heap), a \in agents :
    ptr[a] = Null /\ Probe(a, p) => ptr'[a] # Null

LEMMA StepOffers == ASSUME IInv, Next PROVE Offers
<1>1. CASE Known(heap') \subseteq Known(heap)
  BY <1>1 DEF Offers
<1>2. ASSUME NEW p \in Pid, Inserts(p) PROVE Offers
  <2>1. TypeOK /\ InsertPid(p) /\ Known(heap') = Known(heap) \cup {p}
    BY <1>2 DEF IInv, Inserts
  <2>2. PICK n \in Node : ptr' = [a \in Agent |-> IF a \in Takers(p) THEN n ELSE ptr[a]]
    BY <2>1, InsertFacts
  <2>3. \A a \in agents : a \in Agent /\ (ptr[a] = Null /\ Probe(a, p) => a \in Takers(p))
    BY <2>1 DEF Takers, TypeOK
  <2> QED BY <2>1, <2>2, <2>3, NullAssumption DEF Offers
<1>3. CASE ReloadPurge \/ ReloadEnd
  <2>1. Known(heap') \subseteq Known(heap)
    BY <1>3 DEF ReloadPurge, Purged, ReloadEnd, Known
  <2> QED BY <1>1, <2>1
<1> QED BY <1>1, <1>2, <1>3, StepKnown

(* The list takes in no pid behind the agents' backs, with or without a    *)
(* socket: what NewcomerIsFound and StartIsSeen need of a step.            *)
THEOREM EveryNewPidIsOffered == Spec => NewPidIsOffered
<1>1. IInv /\ [Next]_vars => [Offers]_vars
  BY StepOffers
<1> QED BY <1>1, SpecIInv, PTL DEF Spec, NewPidIsOffered, Offers

=============================================================================
