---------------------------- MODULE AtomicProofs -----------------------------
(***************************************************************************)
(* ControllerThreads implements AtomicController, for any number of        *)
(* identifiers and agents: every step of a thread is one of the four       *)
(* operations or changes nothing that they are about.                      *)
(***************************************************************************)
EXTENDS ThreadsRefinement, ThreadsProofs

(* An agent that is being registered has not been given anything before it *)
(* is: the search of insert(agent) ends with the first identifier.         *)
NothingYet == thr["user"].pc = "match" => ptr[thr["user"].ag] = None

AInv == TInv /\ NothingYet

(* The abstract variables.                                                 *)
Listed == ToSet(ids) \ {InHand}
Holds  == [a \in Agent |-> HeldBy(a)]

LEMMA SearchStep == ASSUME AInv, ThreadsNext PROVE NothingYet'
<1>1. ThreadsTypeOK
  BY DEF AInv, TInv
<1>2. SUFFICES ASSUME thr'["user"].pc = "match" PROVE ptr'[thr'["user"].ag] = None
  BY DEF NothingYet
<1>3. CASE thr'["user"] = thr["user"]
  <2>1. guard = "user"
    BY <1>2, <1>3 DEF AInv, TInv, UserOK, Holder
  <2>2. UNCHANGED lists
    BY <1>3, <2>1, HolderStep DEF AInv, Thread
  <2> QED BY <1>2, <1>3, <2>2 DEF AInv, NothingYet, lists
<1>4. CASE thr'["user"] # thr["user"]
  <2>1. ASSUME NEW t \in Thread, t # "user",
               UNCHANGED thr \/ (\E f : Goto(t, f)) \/ (\E pc, id, ag : Move(t, pc, id, ag))
        PROVE  FALSE
    BY <1>1, <1>4, <2>1, GotoKeeps, MoveKeeps DEF Thread
  <2>2. ASSUME \/ UNCHANGED thr \/ Goto("user", Idle)
               \/ \E pc \in Label \ {"match"} : \E id, ag : Move("user", pc, id, ag)
        PROVE  FALSE
    BY <1>1, <1>2, <1>4, <2>2, GotoKeeps, MoveKeeps DEF Thread, Idle
  <2>3. ASSUME NEW t \in Thread, thr[t].pc \in {"open", "read", "use"}, Continue(t) PROVE FALSE
    <3>1. thr[t].op \in {"insert", "start", "look", "update"}
      BY <2>3 DEF AInv, TInv, MainOK, PoolOK, UserOK, Thread
    <3> QED BY <2>1, <2>2, <2>3, <3>1 DEF Continue, Label
  <2>4. ASSUME NEW t \in Thread, Getter(t) PROVE FALSE
    <3>1. thr[t].pc \in {"open", "read", "use"}
      BY <2>4 DEF Getter, OpenStat, ReadStat, UsePointer, In
    <3>2. \/ Continue(t) \/ UNCHANGED thr
          \/ \E pc \in {"read", "open"} : \E id, ag : Move(t, pc, id, ag)
      BY <2>4 DEF Getter, OpenStat, ReadStat, UsePointer, StoreState, Evaluate, Crash
    <3> QED BY <2>1, <2>2, <2>3, <3>1, <3>2 DEF Label
  <2>5. ~MainLoop /\ ~Worker /\ ~RefreshLock /\ \A n \in Node : ~InsertPid(n) /\ ~RemovePid(n)
    <3>1. ASSUME OfferPid PROVE FALSE
      <4>1. thr["main"].op = "insert"
        BY <3>1 DEF OfferPid, In, AInv, TInv, MainOK
      <4>2. UNCHANGED thr \/ \E pc, id, ag : Move("main", pc, id, ag)
        BY <3>1, <4>1 DEF OfferPid, Evaluate, Continue
      <4> QED BY <2>1, <4>2 DEF Thread
    <3> QED BY <2>1, <3>1 DEF MainLoop, OfferEnd, DetachAgent, ErasePid, Worker, ScanPid, ScanEnd,
               UpdateBegin, UpdateAgent, UpdateEnd, Crash, RefreshLock, InsertPid, RemovePid, Thread
  <2>6. ASSUME NEW a \in Agent, StartLock(a) PROVE ptr'[thr'["user"].ag] = None
    <3>1. thr'["user"].ag = a
      BY <1>1, <2>6, GotoKeeps DEF StartLock, Thread
    <3> QED BY <1>1, <2>6, <3>1 DEF StartLock, ThreadsTypeOK
  <2>7. ASSUME MatchPid PROVE ptr'[thr'["user"].ag] = None
    <3>1. thr["user"].pc = "match" /\ thr["user"].op = "start"
      BY <2>7 DEF MatchPid, In, AInv, TInv, UserOK
    <3>2. ~Evaluate("user", thr["user"].id, thr["user"].ag)
      BY <2>2, <3>1 DEF Evaluate, Continue, Label
    <3>3. Move("user", "match", After(ids, thr["user"].id), thr["user"].ag) /\ UNCHANGED ptr
      BY <2>7, <3>2 DEF MatchPid
    <3>4. thr'["user"].ag = thr["user"].ag
      BY <1>1, <3>3, MoveKeeps DEF Thread
    <3> QED BY <3>1, <3>3, <3>4 DEF AInv, NothingYet
  <2>8. ASSUME NEW f, Goto("user", f), f.pc # "match" PROVE FALSE
    BY <1>1, <1>2, <2>8, GotoKeeps DEF Thread
  <2>9. ~StartLate /\ \A a \in Agent : ~Look(a) /\ ~DestroyDerived(a)
    BY <2>8 DEF StartLate, Look, DestroyDerived, Idle
  <2>10. ~MatchNone /\ ~TestPointer /\ ~FreeAgent /\ ~RemoveAgent
    BY <2>2 DEF MatchNone, TestPointer, FreeAgent, RemoveAgent, Label
  <2> QED BY <2>4, <2>5, <2>6, <2>7, <2>9, <2>10 DEF ThreadsNext, Running, User
<1> QED BY <1>3, <1>4

LEMMA AInvariant == ThreadsSpec => []AInv
<1>1. ThreadsInit => NothingYet
  BY DEF ThreadsInit, NothingYet, Idle, Thread
<1>2. TInv /\ NothingYet /\ [ThreadsNext]_tVars => NothingYet'
  <2>1. CASE UNCHANGED tVars
    BY <2>1 DEF tVars, lists, NothingYet
  <2> QED BY <2>1, SearchStep DEF AInv
<1> QED BY <1>1, <1>2, TInvariant, PTL DEF ThreadsSpec, AInv

-----------------------------------------------------------------------------
(* Steps that leave the abstract variables alone.                          *)

Same == UNCHANGED <<Listed, Joined, Holds>>

LEMMA TypesHere ==
  ASSUME AInv
  PROVE  /\ ThreadsTypeOK /\ None \notin Node /\ None \notin Agent /\ None \notin Thread
         /\ ToSet(ids) \subseteq Node /\ ToSet(agents) \subseteq Agent
         /\ ptr \in [Agent -> Node \cup {None}]
         /\ \A a \in ToSet(agents) : ptr[a] \in ToSet(ids) \cup {None}
         /\ guard = None => InHand = None /\ Joining = None
         /\ guard = "main" => Joining = None
         /\ guard = "user" => InHand = None
BY ListTypes DEF AInv, TInv, ThreadsTypeOK, PointersInList, InHand, Joining, Thread

(* Nothing changes but cursors.                                            *)
LEMMA CursorsMove ==
  ASSUME AInv, UNCHANGED <<guard, lists>>,
         guard = "main" => thr'["main"].id = thr["main"].id,
         guard = "user" => thr'["user"].ag = thr["user"].ag
  PROVE  Same
<1>1. InHand' = InHand /\ Joining' = Joining
  BY DEF InHand, Joining
<1> QED BY <1>1 DEF Same, Listed, Joined, Holds, HeldBy, lists

(* The pool's region: nothing is in hand before, after or during it.       *)
LEMMA PoolMoves ==
  ASSUME AInv, UNCHANGED lists, guard \in {None, "pool"}, guard' \in {None, "pool"}
  PROVE  Same
<1>1. InHand = None /\ Joining = None /\ InHand' = None /\ Joining' = None
  BY TypesHere DEF InHand, Joining, Thread
<1> QED BY <1>1 DEF Same, Listed, Joined, Holds, HeldBy, lists

LEMMA PoolIsSilent == ASSUME AInv, Worker \/ RefreshLock PROVE Same
<1>1. ThreadsTypeOK /\ None \notin Thread
  BY TypesHere
<1>2. CASE ScanPid \/ ScanEnd
  <2>1. guard = "pool" /\ guard' \in {None, "pool"} /\ UNCHANGED lists
    BY <1>2 DEF ScanPid, ScanEnd, In, Unlock, AInv, TInv, Holder
  <2> QED BY <2>1, PoolMoves
<1>3. CASE RefreshLock
  BY <1>3, PoolMoves DEF RefreshLock, Lock
<1>4. CASE UpdateBegin \/ UpdateAgent \/ UpdateEnd
  <2>1. UNCHANGED <<guard, lists>>
    BY <1>4 DEF UpdateBegin, UpdateAgent, UpdateEnd, Crash
  <2>2. thr'["main"] = thr["main"] /\ thr'["user"] = thr["user"]
    BY <1>1, <1>4, GotoKeeps, MoveKeeps DEF UpdateBegin, UpdateAgent, UpdateEnd, Crash, Thread
  <2> QED BY <2>1, <2>2, CursorsMove
<1> QED BY <1>2, <1>3, <1>4 DEF Worker

-----------------------------------------------------------------------------
(* insert(agent): the agent is registered, with what it found, when the    *)
(* guard is released.                                                      *)

(* The search ends with n.                                                 *)
LEMMA SearchEnds ==
  ASSUME AInv, guard = "user", guard' = None, UNCHANGED <<ids, agents>>,
         NEW n \in ToSet(ids) \cup {None}, thr["user"].ag \in ToSet(agents),
         ptr' = [ptr EXCEPT ![thr["user"].ag] = n]
  PROVE  \E a \in Agent : A!Register(a)
<1> DEFINE a == thr["user"].ag
<1>1. a \in Agent
  BY TypesHere
<1>2. /\ InHand = None /\ Joining = a /\ InHand' = None /\ Joining' = None
  BY TypesHere DEF InHand, Joining, Thread
<1>3. Listed' = Listed /\ Listed = ToSet(ids)
  BY <1>2, TypesHere DEF Listed
<1>4. Joined = ToSet(agents) \ {a} /\ Joined' = Joined \cup {a} /\ a \notin Joined
  BY <1>2, TypesHere DEF Joined
<1>5. Holds' = [Holds EXCEPT ![a] = n]
  <2>1. Holds' = [b \in Agent |-> IF b \in ToSet(agents) /\ ptr'[b] # None THEN ptr'[b] ELSE None]
    BY <1>2, TypesHere DEF Holds, HeldBy, Joined
  <2>2. Holds = [b \in Agent |-> IF b \in ToSet(agents) \ {a} /\ ptr[b] # None THEN ptr[b] ELSE None]
    BY <1>2, TypesHere DEF Holds, HeldBy, Joined
  <2>3. a \in ToSet(agents) /\ \A b \in Agent : ptr'[b] = IF b = a THEN n ELSE ptr[b]
    BY <1>1, TypesHere
  <2> DEFINE h == Holds
             k == Holds'
  <2> HIDE DEF a, h, k
  <2>4. \A b \in Agent : k[b] = IF b = a THEN n ELSE h[b]
    BY <2>1, <2>2, <2>3 DEF h, k
  <2>5. k = [b \in Agent |-> k[b]] /\ h = [b \in Agent |-> h[b]]
    BY <2>1, <2>2 DEF h, k
  <2>6. k = [h EXCEPT ![a] = n]
    BY <1>1, <2>4, <2>5
  <2> QED BY <2>6 DEF h, k
<1> HIDE DEF a
<1>6. A!Register(a)
  BY <1>3, <1>4, <1>5, TypesHere DEF A!Register, Listed, Holds
<1> QED BY <1>1, <1>6

LEMMA UserContinues ==
  ASSUME AInv, thr["user"].pc \in {"open", "read", "use"}, UNCHANGED lists, Continue("user")
  PROVE  Same \/ \E a \in Agent : A!Register(a)
<1> DEFINE a == thr["user"].ag
<1>1. CASE thr["user"].op = "start"
  <2>1. guard = "user" /\ a \in ToSet(agents) /\ ptr[a] \in ToSet(ids)
    BY <1>1 DEF AInv, TInv, UserOK, Holder, Attached
  <2>2. guard' = None
    BY <1>1 DEF Continue, Unlock
  <2>3. ptr' = [ptr EXCEPT ![a] = ptr[a]]
    BY TypesHere DEF lists
  <2> QED BY <2>1, <2>2, <2>3, SearchEnds DEF lists
<1>2. CASE thr["user"].op # "start"
  <2>1. thr["user"].op = "look" /\ guard # "user"
    BY <1>2 DEF AInv, TInv, UserOK, Holder
  <2>2. guard' = guard /\ Goto("user", Idle)
    BY <2>1 DEF Continue
  <2>3. thr'["main"] = thr["main"]
    BY <2>2, TypesHere, GotoKeeps DEF Thread
  <2> QED BY <2>1, <2>2, <2>3, CursorsMove
<1> QED BY <1>1, <1>2

(* The evaluation of an agent's state, by any thread.                      *)
LEMMA GetterSteps ==
  ASSUME AInv, NEW t \in Thread, Getter(t)
  PROVE  Same \/ \E a \in Agent : A!Register(a)
<1>1. thr[t].pc \in {"open", "read", "use"} /\ UNCHANGED lists
  BY DEF Getter, OpenStat, ReadStat, UsePointer, In, StoreState, Crash
<1>2. t = "main" => thr[t].pc # "use" /\ thr[t].op = "insert"
  BY <1>1 DEF AInv, TInv, MainOK
<1>3. ASSUME UNCHANGED guard, NEW pc, NEW id, NEW ag, Move(t, pc, id, ag),
             t = "main" => id = thr[t].id, t = "user" => ag = thr[t].ag
      PROVE  Same
  <2>1. /\ thr'[t].id = id /\ thr'[t].ag = ag
        /\ \A u \in Thread : u # t => thr'[u] = thr[u]
    BY <1>3, TypesHere, MoveKeeps
  <2>2. thr'["main"].id = thr["main"].id /\ thr'["user"].ag = thr["user"].ag
    BY <1>3, <2>1 DEF Thread
  <2> QED BY <1>1, <1>3, <2>2, CursorsMove
<1>4. CASE UNCHANGED <<guard, thr>>
  BY <1>1, <1>4, CursorsMove
<1>5. ASSUME Continue(t) PROVE Same \/ \E a \in Agent : A!Register(a)
  <2>1. CASE t = "user"
    BY <1>1, <1>5, <2>1, UserContinues
  <2>2. CASE t = "main"
    <3>1. UNCHANGED guard /\ Move(t, "offer", thr[t].id, After(agents, thr[t].ag))
      BY <1>2, <1>5, <2>2 DEF Continue
    <3> QED BY <1>3, <2>2, <3>1
  <2>3. CASE t = "pool"
    <3>1. thr[t].op = "update"
      BY <1>1, <2>3 DEF AInv, TInv, PoolOK
    <3>2. UNCHANGED guard /\ (UNCHANGED thr \/ Move(t, "update", None, After(agents, thr[t].ag)))
      BY <1>5, <3>1 DEF Continue
    <3> QED BY <1>3, <1>4, <2>3, <3>2
  <2> QED BY <2>1, <2>2, <2>3 DEF Thread
<1>6. \/ Continue(t)
      \/ UNCHANGED <<guard, thr>>
      \/ UNCHANGED guard /\ \E pc, id : /\ Move(t, pc, id, thr[t].ag)
                                        /\ t = "main" => id = thr[t].id
  BY <1>2 DEF Getter, OpenStat, ReadStat, UsePointer, In, StoreState, Evaluate, Crash
<1> QED BY <1>3, <1>4, <1>5, <1>6

-----------------------------------------------------------------------------
(* insert(pid) and remove(pid).                                            *)

LEMMA InsertBegins == ASSUME AInv, NEW n \in Node, InsertPid(n) PROVE Same
<1>1. /\ guard = None /\ guard' = "main" /\ n \notin ToSet(ids) /\ UNCHANGED <<agents, ptr>>
      /\ ids' = Append(ids, n)
  BY DEF InsertPid, Lock
<1>2. thr'["main"].id = n
  BY TypesHere, GotoKeeps DEF InsertPid, Thread
<1>3. ToSet(ids') = ToSet(ids) \cup {n}
  BY <1>1, TypesHere, AppendFacts DEF ThreadsTypeOK
<1>4. InHand = None /\ InHand' = n /\ Joining = None /\ Joining' = None
  BY <1>1, <1>2, TypesHere DEF InHand, Joining
<1>5. Listed' = Listed /\ Joined' = Joined /\ Joined = ToSet(agents)
  BY <1>1, <1>3, <1>4, TypesHere DEF Listed, Joined
<1>6. ASSUME NEW a \in Agent PROVE HeldBy(a)' = HeldBy(a)
  <2>1. a \in Joined => ptr[a] # n
    BY <1>1, <1>5, TypesHere
  <2> QED BY <1>1, <1>4, <1>5, <2>1 DEF HeldBy
<1> QED BY <1>5, <1>6 DEF Same, Holds

(* The main thread holds the guard before and after a step, and only the   *)
(* pointer of one agent changes, from or to what is in hand.               *)
LEMMA InTheRegion ==
  ASSUME AInv, guard = "main", guard' = "main", thr'["main"].id = thr["main"].id,
         UNCHANGED <<ids, agents>>, NEW a \in Agent,
         NEW m, ptr' = [ptr EXCEPT ![a] = m],
         m # ptr[a] => {m, ptr[a]} \subseteq {None, thr["main"].id}
  PROVE  Same
<1>1. InHand = thr["main"].id /\ InHand' = InHand /\ Joining = None /\ Joining' = None
  BY TypesHere DEF InHand, Joining
<1>2. Listed' = Listed /\ Joined' = Joined
  BY <1>1 DEF Listed, Joined
<1>3. ASSUME NEW b \in Agent PROVE HeldBy(b)' = HeldBy(b)
  <2>1. ptr'[b] = IF b = a THEN m ELSE ptr[b]
    BY TypesHere
  <2> QED BY <1>1, <1>2, <2>1 DEF HeldBy
<1> QED BY <1>2, <1>3 DEF Same, Holds

LEMMA OfferIsSilent == ASSUME AInv, OfferPid PROVE Same
<1> DEFINE n == thr["main"].id
           a == thr["main"].ag
<1>1. thr["main"].op = "insert" /\ a \in ToSet(agents) /\ guard = "main"
  BY DEF OfferPid, In, AInv, TInv, MainOK, Holder
<1>2. UNCHANGED <<guard, ids, agents>> /\ thr'["main"].id = n
  <2>1. UNCHANGED guard /\ (UNCHANGED thr \/ \E pc, ag : Move("main", pc, n, ag))
    BY <1>1 DEF OfferPid, Evaluate, Continue
  <2>2. thr'["main"].id = n
    BY <2>1, TypesHere, MoveKeeps DEF Thread
  <2> QED BY <2>1, <2>2 DEF OfferPid
<1>3. UNCHANGED ptr \/ (ptr[a] = None /\ ptr' = [ptr EXCEPT ![a] = n])
  BY DEF OfferPid
<1>4. CASE UNCHANGED ptr
  BY <1>1, <1>2, <1>4, CursorsMove DEF lists
<1>5. CASE ptr[a] = None /\ ptr' = [ptr EXCEPT ![a] = n]
  BY <1>1, <1>2, <1>5, TypesHere, InTheRegion
<1> QED BY <1>3, <1>4, <1>5

LEMMA DetachIsSilent == ASSUME AInv, DetachAgent PROVE Same
<1> DEFINE n == thr["main"].id
           a == thr["main"].ag
<1>1. a \in ToSet(agents) /\ guard = "main"
  BY DEF DetachAgent, In, AInv, TInv, MainOK, Holder
<1>2. UNCHANGED <<guard, ids, agents>> /\ thr'["main"].id = n
  BY TypesHere, MoveKeeps DEF DetachAgent, Thread
<1>3. ptr' = [ptr EXCEPT ![a] = IF ptr[a] = n THEN None ELSE ptr[a]]
  BY DEF DetachAgent
<1> QED BY <1>1, <1>2, <1>3, TypesHere, InTheRegion

LEMMA OfferEnds == ASSUME AInv, OfferEnd PROVE \E n \in Node : A!Insert(n)
<1> DEFINE n == thr["main"].id
<1>1. n \in ToSet(ids) /\ guard = "main" /\ guard' = None /\ UNCHANGED <<ids, agents, ptr>>
  BY DEF OfferEnd, In, AInv, TInv, MainOK, Holder, Unlock, lists
<1>2. InHand = n /\ InHand' = None /\ Joining = None /\ Joining' = None
  BY <1>1, TypesHere DEF InHand, Joining, Thread
<1> HIDE DEF n
<1>3. n \in Node /\ n # None
  BY <1>1, TypesHere
<1>4. n \notin Listed /\ Listed' = Listed \cup {n}
  BY <1>1, <1>2, TypesHere DEF Listed
<1>5. Joined = ToSet(agents) /\ Joined' = Joined
  BY <1>1, <1>2, TypesHere DEF Joined
<1> DEFINE X == {a \in Joined : ptr[a] = n}
<1>6. X \subseteq {a \in Joined : Holds[a] = None}
  BY <1>2, <1>5, TypesHere DEF Holds, HeldBy
<1>7. Holds' = [a \in Agent |-> IF a \in X THEN n ELSE Holds[a]]
  <2>1. \A a \in Agent : HeldBy(a)' = IF a \in X THEN n ELSE HeldBy(a)
    BY <1>1, <1>2, <1>3, <1>5 DEF HeldBy
  <2> HIDE DEF X
  <2>2. \A a \in Agent : Holds[a] = HeldBy(a)
    BY DEF Holds
  <2>3. Holds' = [a \in Agent |-> HeldBy(a)']
    BY DEF Holds
  <2> QED BY <2>1, <2>2, <2>3
<1> HIDE DEF X
<1>8. A!Insert(n)
  BY <1>4, <1>5, <1>6, <1>7 DEF A!Insert, Listed, Holds
<1> QED BY <1>3, <1>8

LEMMA RemoveBegins == ASSUME AInv, NEW n \in Node, RemovePid(n) PROVE A!Remove(n)
<1>1. guard = None /\ guard' = "main" /\ n \in ToSet(ids) /\ UNCHANGED <<ids, agents, ptr>>
  BY DEF RemovePid, Lock, lists
<1>2. thr'["main"].id = n
  BY TypesHere, GotoKeeps DEF RemovePid, Thread
<1>3. InHand = None /\ InHand' = n /\ Joining = None /\ Joining' = None
  BY <1>1, <1>2, TypesHere DEF InHand, Joining
<1>4. n \in Listed /\ Listed' = Listed \ {n}
  BY <1>1, <1>3, TypesHere DEF Listed
<1>5. Joined' = Joined
  BY <1>1, <1>3 DEF Joined
<1>6. Holds' = [a \in Agent |-> IF Holds[a] = n THEN None ELSE Holds[a]]
  <2>1. \A a \in Agent : HeldBy(a)' = IF HeldBy(a) = n THEN None ELSE HeldBy(a)
    BY <1>1, <1>3, <1>5, TypesHere DEF HeldBy
  <2>2. \A a \in Agent : Holds[a] = HeldBy(a)
    BY DEF Holds
  <2>3. Holds' = [a \in Agent |-> HeldBy(a)']
    BY DEF Holds
  <2> QED BY <2>1, <2>2, <2>3
<1> QED BY <1>4, <1>5, <1>6 DEF A!Remove, Listed, Holds

(* By then no agent is left that holds what is erased.                     *)
LEMMA EraseIsSilent == ASSUME AInv, ErasePid PROVE Same
<1> DEFINE n == thr["main"].id
<1>1. /\ guard = "main" /\ guard' = None /\ UNCHANGED <<agents, ptr>>
      /\ ids' = Without(ids, n)
  BY DEF ErasePid, In, AInv, TInv, Holder, Unlock
<1>2. \A a \in ToSet(agents) : ptr[a] # n
  BY DEF ErasePid, In, AInv, TInv, MainOK, NotYetDetached, ToSet
<1>3. InHand = n /\ InHand' = None /\ Joining = None /\ Joining' = None
  BY <1>1, TypesHere DEF InHand, Joining, Thread
<1> HIDE DEF n
<1>4. ToSet(ids') = ToSet(ids) \ {n}
  BY <1>1, TypesHere, WithoutFacts DEF ThreadsTypeOK
<1>5. Listed' = Listed /\ Joined' = Joined /\ Joined = ToSet(agents)
  BY <1>1, <1>3, <1>4, TypesHere DEF Listed, Joined
<1>6. ASSUME NEW a \in Agent PROVE HeldBy(a)' = HeldBy(a)
  BY <1>1, <1>2, <1>3, <1>5 DEF HeldBy
<1> QED BY <1>5, <1>6 DEF Same, Holds

-----------------------------------------------------------------------------
(* insert(agent), remove(agent) and what the framework's thread does else. *)

LEMMA StartIsSilent == ASSUME AInv, NEW a \in Agent, StartLock(a) PROVE Same
<1>1. /\ guard = None /\ guard' = "user" /\ a \notin ToSet(agents) /\ UNCHANGED ids
      /\ agents' = Append(agents, a) /\ ptr' = [ptr EXCEPT ![a] = None]
  BY ListTypes DEF StartLock, Lock, AInv, TInv
<1>2. thr'["user"].ag = a
  BY TypesHere, GotoKeeps DEF StartLock, Thread
<1>3. ToSet(agents') = ToSet(agents) \cup {a}
  BY <1>1, TypesHere, AppendFacts DEF ThreadsTypeOK
<1>4. InHand = None /\ InHand' = None /\ Joining = None /\ Joining' = a
  BY <1>1, <1>2, TypesHere DEF InHand, Joining
<1>5. Listed' = Listed /\ Joined' = Joined /\ a \notin Joined
  BY <1>1, <1>3, <1>4, TypesHere DEF Listed, Joined
<1>6. ASSUME NEW b \in Agent PROVE HeldBy(b)' = HeldBy(b)
  <2>1. b # a => ptr'[b] = ptr[b]
    BY <1>1, TypesHere
  <2> QED BY <1>4, <1>5, <2>1 DEF HeldBy
<1> QED BY <1>5, <1>6 DEF Same, Holds

LEMMA MatchSteps ==
  ASSUME AInv, MatchPid \/ MatchNone
  PROVE  Same \/ \E a \in Agent : A!Register(a)
<1> DEFINE n == thr["user"].id
           a == thr["user"].ag
<1>1. /\ guard = "user" /\ thr["user"].op = "start" /\ thr["user"].pc = "match"
      /\ a \in ToSet(agents) /\ n \in ToSet(ids) \cup {None}
      /\ UNCHANGED <<ids, agents>>
  BY DEF MatchPid, MatchNone, In, AInv, TInv, UserOK, Holder, lists
<1>2. CASE MatchNone
  <2>1. guard' = None /\ ptr' = [ptr EXCEPT ![a] = None]
    BY <1>1, <1>2, TypesHere DEF MatchNone, Unlock, lists, AInv, NothingYet
  <2> QED BY <1>1, <2>1, SearchEnds
<1>3. CASE MatchPid
  <2>1. ASSUME UNCHANGED guard, \E pc, id : Move("user", pc, id, a) PROVE thr'["user"].ag = a
    BY <2>1, TypesHere, MoveKeeps DEF Thread
  <2>2. CASE Move("user", "match", After(ids, n), a) /\ UNCHANGED <<guard, ptr>>
    BY <1>1, <2>1, <2>2, CursorsMove DEF lists
  <2>3. CASE ptr' = [ptr EXCEPT ![a] = n] /\ Continue("user")
    <3>1. guard' = None
      BY <1>1, <2>3 DEF Continue, Unlock
    <3> QED BY <1>1, <2>3, <3>1, SearchEnds
  <2>4. CASE ptr' = [ptr EXCEPT ![a] = n] /\ Move("user", "open", n, a) /\ UNCHANGED guard
    <3>1. InHand = None /\ InHand' = None /\ Joining = a /\ Joining' = a
      BY <1>1, <2>1, <2>4, TypesHere DEF InHand, Joining
    <3>2. Listed' = Listed /\ Joined' = Joined /\ a \notin Joined
      BY <1>1, <3>1 DEF Listed, Joined
    <3>3. ASSUME NEW b \in Agent PROVE HeldBy(b)' = HeldBy(b)
      <4>1. b # a => ptr'[b] = ptr[b]
        BY <2>4, TypesHere
      <4> QED BY <3>1, <3>2, <4>1 DEF HeldBy
    <3> QED BY <3>2, <3>3 DEF Same, Holds
  <2> QED BY <1>3, <2>2, <2>3, <2>4 DEF MatchPid, Evaluate
<1> QED BY <1>2, <1>3

LEMMA UserIsSilent ==
  ASSUME AInv,
         \/ StartLate \/ TestPointer \/ FreeAgent
         \/ \E a \in Agent : Look(a) \/ DestroyDerived(a)
  PROVE  Same
<1>1. guard # "user" /\ UNCHANGED <<guard, lists>>
  BY DEF StartLate, TestPointer, FreeAgent, Look, DestroyDerived, In, AInv, TInv, UserOK, Holder
<1>2. (\E f : Goto("user", f)) \/ (\E pc, id, ag : Move("user", pc, id, ag))
  BY DEF StartLate, TestPointer, FreeAgent, Look, DestroyDerived
<1>3. thr'["main"] = thr["main"]
  BY <1>2, TypesHere, GotoKeeps, MoveKeeps DEF Thread
<1> QED BY <1>1, <1>3, CursorsMove

LEMMA AgentLeaves ==
  ASSUME AInv, RemoveAgent
  PROVE  Same \/ \E a \in Agent : A!Unregister(a)
<1> DEFINE a == thr["user"].ag
<1>1. /\ guard = None /\ guard' = None /\ UNCHANGED <<ids, ptr>> /\ a \in Agent
      /\ agents' = Without(agents, a)
  BY DEF RemoveAgent, In, AInv, TInv, UserOK
<1>2. InHand = None /\ InHand' = None /\ Joining = None /\ Joining' = None
  BY <1>1, TypesHere DEF InHand, Joining, Thread
<1> HIDE DEF a
<1>3. ToSet(agents') = ToSet(agents) \ {a}
  BY <1>1, TypesHere, WithoutFacts DEF ThreadsTypeOK
<1>4. Listed' = Listed /\ Joined = ToSet(agents) /\ Joined' = Joined \ {a}
  BY <1>1, <1>2, <1>3, TypesHere DEF Listed, Joined
<1>5. Holds' = [Holds EXCEPT ![a] = None]
  <2>1. \A b \in Agent : HeldBy(b)' = IF b = a THEN None ELSE HeldBy(b)
    BY <1>1, <1>2, <1>4 DEF HeldBy
  <2>2. Holds = [b \in Agent |-> HeldBy(b)]
    BY DEF Holds
  <2>3. Holds' = [b \in Agent |-> HeldBy(b)']
    BY DEF Holds
  <2> QED BY <1>1, <2>1, <2>2, <2>3
<1>6. CASE a \in ToSet(agents)
  <2>1. A!Unregister(a)
    BY <1>4, <1>5, <1>6 DEF A!Unregister, Listed, Holds
  <2> QED BY <1>1, <2>1
<1>7. CASE a \notin ToSet(agents)
  <2>1. Joined' = Joined
    BY <1>4, <1>7
  <2>2. Holds' = Holds
    <3>1. Holds[a] = None
      BY <1>1, <1>4, <1>7 DEF Holds, HeldBy
    <3>2. Holds = [b \in Agent |-> Holds[b]]
      BY DEF Holds
    <3> HIDE DEF Holds
    <3> QED BY <1>5, <3>1, <3>2
  <2> QED BY <1>4, <2>1, <2>2 DEF Same
<1> QED BY <1>6, <1>7

-----------------------------------------------------------------------------
LEMMA AtomicInitially == ThreadsInit => A!AtomicInit
BY NoneAssumption DEF ThreadsInit, A!AtomicInit, InHand, Joining, Joined, HeldBy, ToSet

LEMMA AtomicStep ==
  AInv /\ [ThreadsNext]_tVars => [A!AtomicNext]_(A!atomicVars)
<1> SUFFICES ASSUME AInv, [ThreadsNext]_tVars PROVE Same \/ A!AtomicNext
  BY DEF Same, A!atomicVars, Listed, Holds
<1>1. CASE UNCHANGED tVars
  BY <1>1, CursorsMove DEF tVars
<1>2. ASSUME NEW t \in Thread, Getter(t) PROVE Same \/ A!AtomicNext
  BY <1>2, GetterSteps DEF A!AtomicNext
<1>3. CASE MainLoop
  BY <1>3, OfferIsSilent, OfferEnds, DetachIsSilent, EraseIsSilent DEF MainLoop, A!AtomicNext
<1>4. CASE Worker \/ RefreshLock
  BY <1>4, PoolIsSilent
<1>5. CASE User
  BY <1>5, MatchSteps, UserIsSilent DEF User, A!AtomicNext
<1>6. CASE RemoveAgent
  BY <1>6, AgentLeaves DEF A!AtomicNext
<1>7. ASSUME NEW n \in Node, InsertPid(n) \/ RemovePid(n) PROVE Same \/ A!AtomicNext
  BY <1>7, InsertBegins, RemoveBegins DEF A!AtomicNext
<1>8. ASSUME NEW a \in Agent, StartLock(a) \/ Look(a) \/ DestroyDerived(a) PROVE Same
  BY <1>8, StartIsSilent, UserIsSilent
<1> QED BY <1>1, <1>2, <1>3, <1>4, <1>5, <1>6, <1>7, <1>8 DEF ThreadsNext, Running

(* However the main loop, the pool and the framework take turns, with or   *)
(* without destruction and disappearing processes, insert and remove of    *)
(* pids and agents take effect one at a time, each at once: what is in the *)
(* list, who is registered and who holds what change as in the abstract    *)
(* controller, which has neither threads nor a lock.                       *)
THEOREM ThreadsAreAtomic == ThreadsSpec => ImplementsAtomic
BY AtomicInitially, AtomicStep, AInvariant, PTL DEF ThreadsSpec, ImplementsAtomic, A!AtomicSpec

=============================================================================
