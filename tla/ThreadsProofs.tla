---------------------------- MODULE ThreadsProofs ----------------------------
(***************************************************************************)
(* Theorems about ControllerThreads, for any number of identifiers and     *)
(* agents.                                                                 *)
(***************************************************************************)
EXTENDS ControllerThreads, SequenceTheorems, TLAPS

-----------------------------------------------------------------------------
(* The operators on lists.                                                 *)

LEMMA PositionFacts ==
  ASSUME NEW S, NEW s \in Seq(S), NEW x \in ToSet(s)
  PROVE  Position(s, x) \in DOMAIN s /\ s[Position(s, x)] = x
BY DEF Position, ToSet

LEMMA PositionOfElement ==
  ASSUME NEW S, NEW s \in Seq(S), IsInjective(s), NEW i \in DOMAIN s
  PROVE  Position(s, s[i]) = i
<1>1. s[i] \in ToSet(s)
  BY DEF ToSet
<1> QED BY <1>1, PositionFacts DEF IsInjective

(* What follows an element of a list is an element or the end.             *)
LEMMA AfterFacts ==
  ASSUME NEW S, NEW s \in Seq(S), NEW x \in ToSet(s)
  PROVE  After(s, x) \in ToSet(s) \cup {None}
BY PositionFacts DEF After, ToSet

LEMMA FirstFacts ==
  ASSUME NEW S, NEW s \in Seq(S)
  PROVE  First(s) \in ToSet(s) \cup {None}
BY DEF First, ToSet

LEMMA ElementFacts ==
  ASSUME NEW S, NEW s \in Seq(S)
  PROVE  ToSet(s) \subseteq S
BY DEF ToSet

LEMMA AppendFacts ==
  ASSUME NEW S, NEW s \in Seq(S), IsInjective(s), NEW x, x \notin ToSet(s)
  PROVE  /\ Append(s, x) \in Seq(S \cup {x}) /\ IsInjective(Append(s, x))
         /\ ToSet(Append(s, x)) = ToSet(s) \cup {x}
<1> DEFINE r == Append(s, x)
<1>1. /\ r \in Seq(S \cup {x}) /\ Len(r) = Len(s) + 1 /\ DOMAIN r = 1 .. Len(s) + 1
      /\ r[Len(s) + 1] = x /\ \A i \in DOMAIN s : r[i] = s[i]
  OBVIOUS
<1>2. DOMAIN s = 1 .. Len(s) /\ Len(s) \in Nat
  OBVIOUS
<1>3. IsInjective(r)
  BY <1>1, <1>2 DEF IsInjective, ToSet
<1>4. ToSet(r) = ToSet(s) \cup {x}
  BY <1>1, <1>2 DEF ToSet
<1> QED BY <1>1, <1>3, <1>4

LEMMA RemoveAtFacts ==
  ASSUME NEW S, NEW s \in Seq(S), NEW i \in 1 .. Len(s)
  PROVE  /\ RemoveAt(s, i) \in Seq(S) /\ Len(RemoveAt(s, i)) = Len(s) - 1
         /\ \A j \in 1 .. Len(s) - 1 : RemoveAt(s, i)[j] = IF j < i THEN s[j] ELSE s[j + 1]
<1> DEFINE u == SubSeq(s, 1, i - 1)
           v == SubSeq(s, i + 1, Len(s))
<1>1. /\ Len(s) \in Nat /\ \A j \in 1 .. Len(s) : s[j] \in S
      /\ 1 \in Int /\ i - 1 \in Int /\ i + 1 \in Int /\ Len(s) \in Int
  OBVIOUS
<1>2. u \in Seq(S) /\ Len(u) = i - 1 /\ \A j \in 1 .. i - 1 : u[j] = s[j]
  BY <1>1, SubSeqProperties
<1>3. v \in Seq(S) /\ Len(v) = Len(s) - i /\ \A j \in 1 .. Len(s) - i : v[j] = s[i + j]
  <2>1. \A j \in i + 1 .. Len(s) : s[j] \in S
    BY <1>1
  <2>2. /\ v \in Seq(S)
        /\ Len(v) = IF i + 1 <= Len(s) THEN Len(s) - (i + 1) + 1 ELSE 0
        /\ \A j \in 1 .. Len(s) - (i + 1) + 1 : v[j] = s[(i + 1) + j - 1]
    BY <1>1, <2>1, SubSeqProperties
  <2>3. Len(v) = Len(s) - i
    BY <1>1, <2>2
  <2>4. \A j \in 1 .. Len(s) - i : j \in 1 .. Len(s) - (i + 1) + 1 /\ (i + 1) + j - 1 = i + j
    BY <1>1
  <2> HIDE DEF v
  <2> QED BY <2>2, <2>3, <2>4
<1> DEFINE w == u \o v
<1> HIDE DEF u, v
<1>4. /\ w \in Seq(S) /\ Len(w) = (i - 1) + (Len(s) - i)
      /\ \A j \in 1 .. (i - 1) + (Len(s) - i) : w[j] = IF j <= i - 1 THEN u[j] ELSE v[j - (i - 1)]
  <2>1. /\ w \in Seq(S) /\ Len(w) = Len(u) + Len(v)
        /\ \A j \in 1 .. Len(u) + Len(v) : w[j] = IF j <= Len(u) THEN u[j] ELSE v[j - Len(u)]
    BY <1>2, <1>3, ConcatProperties
  <2> HIDE DEF w
  <2> QED BY <2>1, <1>2, <1>3
<1> HIDE DEF w
<1>5. (i - 1) + (Len(s) - i) = Len(s) - 1
  BY <1>1
<1>6. \A j \in 1 .. Len(s) - 1 : w[j] = IF j < i THEN s[j] ELSE s[j + 1]
  <2> TAKE j \in 1 .. Len(s) - 1
  <2>1. CASE j < i
    <3>1. j \in 1 .. i - 1 /\ j <= i - 1
      BY <2>1, <1>1
    <3> QED BY <2>1, <3>1, <1>2, <1>4, <1>5
  <2>2. CASE j >= i
    <3>1. j - (i - 1) \in 1 .. Len(s) - i /\ i + (j - (i - 1)) = j + 1 /\ ~(j <= i - 1) /\ ~(j < i)
      BY <2>2, <1>1
    <3> QED BY <3>1, <1>3, <1>4, <1>5
  <2> QED BY <2>1, <2>2, <1>1
<1> QED BY <1>4, <1>5, <1>6 DEF RemoveAt, u, v, w

LEMMA WithoutFacts ==
  ASSUME NEW S, NEW s \in Seq(S), IsInjective(s), NEW x
  PROVE  /\ Without(s, x) \in Seq(S \ {x}) /\ IsInjective(Without(s, x))
         /\ ToSet(Without(s, x)) = ToSet(s) \ {x}
<1> DEFINE i == Position(s, x)
           r == RemoveAt(s, i)
<1>1. CASE x \notin ToSet(s)
  <2>1. \A j \in 1 .. Len(s) : s[j] \in S \ {x}
    BY <1>1 DEF ToSet
  <2> QED BY <1>1, <2>1 DEF Without, ToSet
<1>2. CASE x \in ToSet(s)
  <2>1. i \in 1 .. Len(s) /\ s[i] = x
    BY <1>2, PositionFacts
  <2> HIDE DEF i
  <2>2. /\ r \in Seq(S) /\ Len(r) = Len(s) - 1
        /\ \A j \in 1 .. Len(s) - 1 : r[j] = IF j < i THEN s[j] ELSE s[j + 1]
    BY <2>1, RemoveAtFacts
  <2>3. DOMAIN r = 1 .. Len(s) - 1 /\ DOMAIN s = 1 .. Len(s) /\ Len(s) \in Nat
    BY <2>2
  <2> HIDE DEF r
  <2>4. \A j \in DOMAIN r : r[j] \in ToSet(s) \ {x}
    BY <2>1, <2>2, <2>3 DEF IsInjective, ToSet
  <2>5. \A j \in DOMAIN s : j # i => \E k \in DOMAIN r : r[k] = s[j]
    <3> TAKE j \in DOMAIN s
    <3>1. CASE j < i
      BY <3>1, <2>1, <2>2, <2>3
    <3>2. CASE j > i
      <4>1. j - 1 \in DOMAIN r /\ r[j - 1] = s[j]
        BY <3>2, <2>1, <2>2, <2>3
      <4> QED BY <4>1
    <3> QED BY <3>1, <3>2, <2>1, <2>3
  <2>6. IsInjective(r)
    BY <2>1, <2>2, <2>3 DEF IsInjective
  <2>7. ToSet(r) = ToSet(s) \ {x}
    BY <2>1, <2>4, <2>5 DEF ToSet
  <2>8. r \in Seq(S \ {x})
    BY <2>2, <2>3, <2>4
  <2> QED BY <1>2, <2>6, <2>7, <2>8 DEF Without, r, i
<1> QED BY <1>1, <1>2

-----------------------------------------------------------------------------
(* The inductive invariant: what each thread can be at, and what it relies *)
(* on there.                                                               *)

(* Where a registered agent still points to the identifier that is being   *)
(* removed, the cursor has not passed it.                                  *)
NotYetDetached(f) ==
  \A i \in DOMAIN agents :
    ptr[agents[i]] = f.id => f.ag # None /\ Position(agents, f.ag) <= i

(* A thread that evaluates under the guard stands on an identifier and an  *)
(* agent of the lists that belong together.                                *)
Attached(f) == f.id \in ToSet(ids) /\ f.ag \in ToSet(agents) /\ ptr[f.ag] = f.id

MainOK ==
  LET f == thr["main"]
  IN  \/ f.pc = "idle"
      \/ /\ f.op = "insert" /\ f.pc = "offer"
         /\ f.id \in ToSet(ids) /\ f.ag \in ToSet(agents) \cup {None}
      \/ f.op = "insert" /\ f.pc \in {"open", "read"} /\ Attached(f)
      \/ /\ f.op = "remove" /\ f.pc = "detach"
         /\ f.id \in ToSet(ids) /\ f.ag \in ToSet(agents) \cup {None} /\ NotYetDetached(f)

PoolOK ==
  LET f == thr["pool"]
  IN  \/ f.pc = "idle"
      \/ f.op = "refresh" /\ f.pc = "scan" /\ f.id \in ToSet(ids) \cup {None}
      \/ f.op = "update" /\ f.pc = "update"
      \/ f.op = "update" /\ f.pc \in {"use", "open", "read"} /\ f.ag \in Agent

UserOK ==
  LET f == thr["user"]
  IN  \/ f.pc = "idle" /\ f.op = "none"
      \/ /\ f.op = "start" /\ f.pc = "match"
         /\ f.id \in ToSet(ids) \cup {None} /\ f.ag \in ToSet(agents)
      \/ f.op = "start" /\ f.pc \in {"open", "read"} /\ Attached(f)
      \/ f.op = "start" /\ f.pc = "late" /\ f.ag \in Agent
      \/ f.op = "look" /\ f.pc \in {"look", "use", "open", "read"} /\ f.ag \in Agent
      \/ f.op = "destroy" /\ f.pc = "dying" /\ f.ag \in Agent \ whole
      \/ f.op = "destroy" /\ f.pc = "free" /\ f.ag \in Agent \ (whole \cup ToSet(agents))

(* Who holds the guard.                                                    *)
Holder ==
  /\ guard = "main" <=> thr["main"].pc # "idle"
  /\ guard = "pool" <=> thr["pool"].pc = "scan"
  /\ guard = "user" <=> thr["user"].op = "start" /\ thr["user"].pc # "late"

TInv == ThreadsTypeOK /\ MainOK /\ PoolOK /\ UserOK /\ Holder /\ PointersInList

-----------------------------------------------------------------------------
(* Steps that leave the lists alone.                                       *)

LEMMA GotoFacts ==
  ASSUME ThreadsTypeOK, NEW t \in Thread, NEW f \in Frame, Goto(t, f)
  PROVE  /\ thr' \in [Thread -> Frame] /\ thr'[t] = f
         /\ \A u \in Thread : u # t => thr'[u] = thr[u]
BY DEF ThreadsTypeOK, Goto

LEMMA MoveFacts ==
  ASSUME ThreadsTypeOK, NEW t \in Thread,
         NEW pc \in Label, NEW id \in Node \cup {None}, NEW ag \in Agent \cup {None},
         Move(t, pc, id, ag)
  PROVE  /\ thr' \in [Thread -> Frame]
         /\ thr'[t].pc = pc /\ thr'[t].op = thr[t].op /\ thr'[t].id = id /\ thr'[t].ag = ag
         /\ \A u \in Thread : u # t => thr'[u] = thr[u]
<1>1. thr[t] \in Frame
  BY DEF ThreadsTypeOK
<1> DEFINE f == [thr[t] EXCEPT !.pc = pc, !.id = id, !.ag = ag]
<1>2. f.pc = pc /\ f.op = thr[t].op /\ f.id = id /\ f.ag = ag
  BY <1>1 DEF Frame
<1>3. f \in Frame
  BY <1>1 DEF Frame
<1> HIDE DEF f
<1>4. Goto(t, f)
  BY DEF Move, f
<1> QED BY <1>2, <1>3, <1>4, GotoFacts

(* The elements of the lists, and the idle frame, are of their types.      *)
LEMMA ListTypes ==
  ASSUME ThreadsTypeOK
  PROVE  /\ ToSet(ids) \subseteq Node /\ ToSet(agents) \subseteq raw /\ raw \subseteq Agent
         /\ whole \subseteq raw
         /\ None \notin Node /\ None \notin Agent /\ None \notin Thread
         /\ \A a \in ToSet(agents) : After(agents, a) \in ToSet(agents) \cup {None}
         /\ \A n \in ToSet(ids) : After(ids, n) \in ToSet(ids) \cup {None}
         /\ First(ids) \in ToSet(ids) \cup {None}
         /\ First(agents) \in ToSet(agents) \cup {None}
         /\ Idle \in Frame
<1>1. /\ ToSet(ids) \subseteq Node /\ ToSet(agents) \subseteq raw /\ raw \subseteq Agent
      /\ whole \subseteq raw
  BY ElementFacts DEF ThreadsTypeOK
<1>2. None \notin Node /\ None \notin Agent /\ None \notin Thread
  BY NoneAssumption DEF Thread
<1>3. /\ \A a \in ToSet(agents) : After(agents, a) \in ToSet(agents) \cup {None}
      /\ \A n \in ToSet(ids) : After(ids, n) \in ToSet(ids) \cup {None}
      /\ First(ids) \in ToSet(ids) \cup {None}
      /\ First(agents) \in ToSet(agents) \cup {None}
  BY AfterFacts, FirstFacts DEF ThreadsTypeOK
<1>4. Idle \in Frame
  BY DEF Idle, Frame, Label, Work
<1> QED BY <1>1, <1>2, <1>3, <1>4

(* A thread that changes no list disturbs no other thread.                 *)
LEMMA OthersKeep ==
  ASSUME TInv, NEW t \in Thread, UNCHANGED <<lists, whole>>,
         \A u \in Thread : u # t => thr'[u] = thr[u]
  PROVE  /\ PointersInList'
         /\ t # "main" => MainOK'
         /\ t # "pool" => PoolOK'
         /\ t # "user" => UserOK'
<1>1. PointersInList'
  BY DEF TInv, PointersInList, lists
<1>2. t # "main" => MainOK'
  BY DEF TInv, MainOK, Attached, NotYetDetached, lists, Thread
<1>3. t # "pool" => PoolOK'
  BY DEF TInv, PoolOK, lists, Thread
<1>4. t # "user" => UserOK'
  BY DEF TInv, UserOK, Attached, lists, Thread
<1> QED BY <1>1, <1>2, <1>3, <1>4

(* The program ends, or nothing moves.                                     *)
LEMMA StandsStill ==
  ASSUME TInv, UNCHANGED <<guard, lists, objects, queued, thr>>, cached' \subseteq Node,
         crash' \in {"none", "freed identifier", "freed agent", "pure virtual", "terminate"}
  PROVE  TInv'
<1>1. ThreadsTypeOK'
  BY DEF TInv, ThreadsTypeOK, lists, objects
<1>2. MainOK' /\ PoolOK' /\ UserOK'
  BY DEF TInv, MainOK, PoolOK, UserOK, Attached, NotYetDetached, lists, objects
<1>3. Holder' /\ PointersInList'
  BY DEF TInv, Holder, PointersInList, lists
<1> QED BY <1>1, <1>2, <1>3 DEF TInv

(* What follows an evaluation.                                             *)
LEMMA ContinueStep ==
  ASSUME TInv, UNCHANGED <<lists, objects, queued>>, cached' \subseteq Node,
         NEW t \in Thread, thr[t].pc \in {"open", "read", "use"}, crash = "none", Continue(t)
  PROVE  TInv'
<1>1. ThreadsTypeOK
  BY DEF TInv
<1>2. /\ "offer" \in Label /\ "late" \in Label /\ "update" \in Label /\ None \in Node \cup {None}
      /\ thr[t] \in Frame /\ thr[t].id \in Node \cup {None} /\ thr[t].ag \in Agent \cup {None}
  BY <1>1 DEF ThreadsTypeOK, Frame, Label
<1>3. UNCHANGED <<ids, agents, ptr, whole, raw, queued>>
  BY DEF lists, objects
<1>4. CASE t = "main"
  <2>1. thr[t].op = "insert" /\ Attached(thr[t]) /\ guard = "main"
    BY <1>4 DEF TInv, MainOK, Holder
  <2>2. Move(t, "offer", thr[t].id, After(agents, thr[t].ag)) /\ guard' = guard /\ crash' = crash
    BY <2>1 DEF Continue
  <2>3. After(agents, thr[t].ag) \in ToSet(agents) \cup {None} /\ ToSet(agents) \subseteq Agent
    BY <1>1, <2>1, ListTypes DEF Attached
  <2>4. /\ thr' \in [Thread -> Frame] /\ thr'[t].pc = "offer" /\ thr'[t].op = "insert"
        /\ thr'[t].id = thr[t].id /\ thr'[t].ag \in ToSet(agents) \cup {None}
        /\ \A u \in Thread : u # t => thr'[u] = thr[u]
    BY <1>1, <1>2, <2>1, <2>2, <2>3, MoveFacts
  <2>5. ThreadsTypeOK'
    BY <1>1, <1>3, <2>2, <2>4 DEF ThreadsTypeOK
  <2>6. MainOK'
    BY <1>3, <1>4, <2>1, <2>4 DEF MainOK, Attached
  <2>7. Holder'
    BY <1>4, <2>1, <2>2, <2>4 DEF TInv, Holder, Thread
  <2> QED BY <1>4, <2>4, <2>5, <2>6, <2>7, OthersKeep DEF TInv, objects
<1>5. CASE t = "pool"
  <2>1. thr[t].op = "update" /\ guard # "pool"
    BY <1>5 DEF TInv, PoolOK, Holder
  <2>2. CASE thr[t].ag \notin ToSet(agents)
    BY <2>1, <2>2, StandsStill DEF Continue
  <2>3. CASE thr[t].ag \in ToSet(agents)
    <3>1. /\ Move(t, "update", None, After(agents, thr[t].ag)) /\ guard' = guard /\ crash' = crash
      BY <2>1, <2>3 DEF Continue
    <3>2. After(agents, thr[t].ag) \in Agent \cup {None}
      BY <1>1, <2>3, ListTypes
    <3>3. /\ thr' \in [Thread -> Frame] /\ thr'[t].pc = "update" /\ thr'[t].op = "update"
          /\ \A u \in Thread : u # t => thr'[u] = thr[u]
      BY <1>1, <1>2, <2>1, <3>1, <3>2, MoveFacts
    <3>4. ThreadsTypeOK'
      BY <1>1, <1>3, <3>1, <3>3 DEF ThreadsTypeOK
    <3>5. PoolOK'
      BY <1>5, <3>3 DEF PoolOK
    <3>6. Holder'
      BY <1>5, <2>1, <3>1, <3>3 DEF TInv, Holder, Thread
    <3> QED BY <1>5, <3>3, <3>4, <3>5, <3>6, OthersKeep DEF TInv, objects
  <2> QED BY <2>2, <2>3
<1>6. CASE t = "user"
  <2>1. \/ thr[t].op = "start" /\ Attached(thr[t]) /\ guard = "user"
        \/ thr[t].op = "look" /\ guard # "user"
    BY <1>6 DEF TInv, UserOK, Holder
  <2>2. CASE thr[t].op = "start"
    <3>1. Move(t, "late", None, thr[t].ag) /\ guard' = None /\ crash' = crash
      BY <2>2 DEF Continue, Unlock
    <3>2. /\ thr' \in [Thread -> Frame] /\ thr'[t].pc = "late" /\ thr'[t].op = "start"
          /\ thr'[t].ag = thr[t].ag /\ \A u \in Thread : u # t => thr'[u] = thr[u]
      BY <1>1, <1>2, <2>2, <3>1, MoveFacts
    <3>3. thr[t].ag \in Agent /\ None \notin Thread
      BY <1>1, <2>1, <2>2, ListTypes DEF Attached
    <3>4. ThreadsTypeOK'
      BY <1>1, <1>3, <3>1, <3>2 DEF ThreadsTypeOK
    <3>5. UserOK'
      BY <1>6, <3>2, <3>3 DEF UserOK
    <3>6. Holder'
      BY <1>6, <2>1, <2>2, <3>1, <3>2, <3>3 DEF TInv, Holder, Thread
    <3> QED BY <1>6, <3>2, <3>4, <3>5, <3>6, OthersKeep DEF TInv, objects
  <2>3. CASE thr[t].op = "look"
    <3>1. Goto(t, Idle) /\ guard' = guard /\ crash' = crash
      BY <2>3 DEF Continue
    <3>2. thr' \in [Thread -> Frame] /\ thr'[t] = Idle /\ \A u \in Thread : u # t => thr'[u] = thr[u]
      BY <1>1, <3>1, ListTypes, GotoFacts
    <3>3. ThreadsTypeOK'
      BY <1>1, <1>3, <3>1, <3>2 DEF ThreadsTypeOK
    <3>4. UserOK'
      BY <1>6, <3>2 DEF UserOK, Idle
    <3>5. Holder'
      BY <1>6, <2>1, <2>3, <3>1, <3>2 DEF TInv, Holder, Thread, Idle
    <3> QED BY <1>6, <3>2, <3>3, <3>4, <3>5, OthersKeep DEF TInv, objects
  <2> QED BY <2>1, <2>2, <2>3
<1> QED BY <1>4, <1>5, <1>6 DEF Thread

(* Storing what was read ends in a crash or goes on.                       *)
LEMMA StoreStep ==
  ASSUME TInv, NEW t \in Thread, thr[t].pc \in {"open", "read"}, crash = "none", StoreState(t)
  PROVE  TInv'
<1>1. CASE thr[t].id \in ToSet(ids)
  <2>1. UNCHANGED <<lists, objects, queued>> /\ cached' = cached \cup {thr[t].id} /\ Continue(t)
    BY <1>1 DEF StoreState
  <2>2. cached' \subseteq Node
    BY <1>1, <2>1, ListTypes DEF TInv, ThreadsTypeOK
  <2> QED BY <2>1, <2>2, ContinueStep
<1>2. CASE thr[t].id \notin ToSet(ids)
  BY <1>2, StandsStill DEF StoreState, Crash, TInv, ThreadsTypeOK
<1> QED BY <1>1, <1>2

(* An evaluation that has to read a file moves on within its region.       *)
LEMMA ReadingStep ==
  ASSUME TInv, UNCHANGED <<guard, lists, cached, objects, queued, crash>>,
         NEW t \in Thread, NEW pc \in {"open", "read"}, NEW n \in Node \cup {None},
         \/ thr[t].pc = "open" /\ n = thr[t].id
         \/ thr[t].pc = "use",
         Move(t, pc, n, thr[t].ag)
  PROVE  TInv'
<1>1. ThreadsTypeOK
  BY DEF TInv
<1>2. /\ pc \in Label /\ thr[t] \in Frame /\ thr[t].ag \in Agent \cup {None}
  BY <1>1 DEF ThreadsTypeOK, Frame, Label
<1>3. UNCHANGED <<ids, agents, ptr, whole, raw>>
  BY DEF lists, objects
<1>4. /\ thr' \in [Thread -> Frame] /\ thr'[t].pc = pc /\ thr'[t].op = thr[t].op
      /\ thr'[t].id = n /\ thr'[t].ag = thr[t].ag
      /\ \A u \in Thread : u # t => thr'[u] = thr[u]
  BY <1>1, <1>2, MoveFacts
<1>5. ThreadsTypeOK'
  BY <1>1, <1>3, <1>4 DEF ThreadsTypeOK
<1>6. t = "main" => MainOK'
  BY <1>3, <1>4 DEF TInv, MainOK, Attached
<1>7. t = "pool" => PoolOK'
  BY <1>4 DEF TInv, PoolOK
<1>8. t = "user" => UserOK'
  BY <1>3, <1>4 DEF TInv, UserOK, Attached
<1>9. Holder'
  BY <1>4 DEF TInv, Holder, Thread, MainOK, PoolOK, UserOK
<1> QED BY <1>4, <1>5, <1>6, <1>7, <1>8, <1>9, OthersKeep DEF TInv, Thread, objects

LEMMA GetterStep == ASSUME TInv, NEW t \in Thread, Getter(t) PROVE TInv'
<1>1. ThreadsTypeOK
  BY DEF TInv
<1>2. CASE OpenStat(t)
  <2>1. thr[t].pc = "open" /\ crash = "none"
    BY <1>2 DEF OpenStat, In
  <2>2. CASE StoreState(t)
    BY <2>1, <2>2, StoreStep
  <2>3. CASE /\ Move(t, "read", thr[t].id, thr[t].ag)
             /\ UNCHANGED <<lists, cached, objects, queued, guard, crash>>
    <3>1. thr[t].id \in Node \cup {None}
      BY <1>1 DEF ThreadsTypeOK, Frame
    <3> QED BY <2>1, <2>3, <3>1, ReadingStep
  <2> QED BY <1>2, <2>2, <2>3 DEF OpenStat
<1>3. CASE ReadStat(t)
  <2>1. thr[t].pc = "read" /\ crash = "none"
    BY <1>3 DEF ReadStat, In
  <2>2. CASE StoreState(t)
    BY <2>1, <2>2, StoreStep
  <2>3. CASE Crash("terminate")
    BY <1>1, <2>3, StandsStill DEF Crash, ThreadsTypeOK
  <2> QED BY <1>3, <2>2, <2>3 DEF ReadStat
<1>4. CASE UsePointer(t)
  <2>1. thr[t].pc = "use" /\ crash = "none"
    BY <1>4 DEF UsePointer, In
  <2>2. PICK n \in {thr[t].id, ptr[thr[t].ag]} :
           IF n \in ToSet(ids)
           THEN Evaluate(t, n, thr[t].ag) /\ UNCHANGED <<lists, cached, objects, queued>>
           ELSE Crash("freed identifier")
    BY <1>4 DEF UsePointer
  <2>3. CASE n \notin ToSet(ids)
    BY <1>1, <2>2, <2>3, StandsStill DEF Crash, ThreadsTypeOK
  <2>4. CASE n \in ToSet(ids) /\ n \in cached
    <3>1. Continue(t) /\ UNCHANGED <<lists, cached, objects, queued>>
      BY <2>2, <2>4 DEF Evaluate
    <3> QED BY <1>1, <2>1, <3>1, ContinueStep DEF ThreadsTypeOK
  <2>5. CASE n \in ToSet(ids) /\ n \notin cached
    <3>1. /\ Move(t, "open", n, thr[t].ag)
          /\ UNCHANGED <<guard, lists, cached, objects, queued, crash>>
      BY <2>2, <2>5 DEF Evaluate
    <3>2. n \in Node
      BY <1>1, <2>5, ListTypes
    <3> QED BY <2>1, <3>1, <3>2, ReadingStep
  <2> QED BY <2>3, <2>4, <2>5
<1> QED BY <1>2, <1>3, <1>4 DEF Getter

-----------------------------------------------------------------------------
(* The main loop.                                                          *)

LEMMA InsertPidStep == ASSUME TInv, NEW n \in Node, InsertPid(n) PROVE TInv'
<1> DEFINE f == [pc |-> "offer", op |-> "insert", id |-> n, ag |-> First(agents)]
<1>1. ThreadsTypeOK
  BY DEF TInv
<1>2. /\ guard = None /\ guard' = "main" /\ n \notin ToSet(ids) /\ ids' = Append(ids, n)
      /\ cached' = cached \ {n} /\ Goto("main", f)
      /\ UNCHANGED <<agents, ptr, whole, raw, queued, crash>>
  BY DEF InsertPid, Lock, objects
<1>3. ids' \in Seq(Node) /\ IsInjective(ids') /\ ToSet(ids') = ToSet(ids) \cup {n}
  <2>1. ids \in Seq(Node) /\ IsInjective(ids) /\ Node \cup {n} = Node
    BY <1>1 DEF ThreadsTypeOK
  <2> QED BY <1>2, <2>1, AppendFacts
<1>4. f \in Frame
  BY <1>1, ListTypes DEF Frame, Label, Work
<1>5. /\ thr' \in [Thread -> Frame] /\ thr'["main"] = f
      /\ thr'["pool"] = thr["pool"] /\ thr'["user"] = thr["user"]
  BY <1>1, <1>2, <1>4, GotoFacts DEF Thread
<1>6. ThreadsTypeOK'
  BY <1>1, <1>2, <1>3, <1>5 DEF ThreadsTypeOK, Thread
<1>7. MainOK'
  BY <1>1, <1>2, <1>3, <1>5, ListTypes DEF MainOK
<1>8. PoolOK'
  BY <1>2, <1>3, <1>5 DEF TInv, PoolOK
<1>9. UserOK'
  BY <1>2, <1>3, <1>5 DEF TInv, UserOK, Attached
<1>10. Holder'
  BY <1>1, <1>2, <1>5, ListTypes DEF TInv, Holder, Thread
<1>11. PointersInList'
  BY <1>2, <1>3 DEF TInv, PointersInList
<1> QED BY <1>6, <1>7, <1>8, <1>9, <1>10, <1>11 DEF TInv

LEMMA RemovePidStep == ASSUME TInv, NEW n \in Node, RemovePid(n) PROVE TInv'
<1> DEFINE f == [pc |-> "detach", op |-> "remove", id |-> n, ag |-> First(agents)]
<1>1. ThreadsTypeOK
  BY DEF TInv
<1>2. /\ guard = None /\ guard' = "main" /\ n \in ToSet(ids) /\ Goto("main", f)
      /\ UNCHANGED <<lists, cached, objects, queued, crash>>
  BY DEF RemovePid, Lock
<1>3. f \in Frame
  BY <1>1, ListTypes DEF Frame, Label, Work
<1>4. /\ thr' \in [Thread -> Frame] /\ thr'["main"] = f
      /\ \A u \in Thread : u # "main" => thr'[u] = thr[u]
  BY <1>1, <1>2, <1>3, GotoFacts DEF Thread
<1>5. ThreadsTypeOK'
  BY <1>1, <1>2, <1>4 DEF ThreadsTypeOK, Thread, lists, objects
<1>6. \A i \in DOMAIN agents : First(agents) # None /\ Position(agents, First(agents)) <= i
  <2>1. agents \in Seq(raw) /\ IsInjective(agents)
    BY <1>1 DEF ThreadsTypeOK
  <2> TAKE i \in DOMAIN agents
  <2>2. 1 \in DOMAIN agents /\ 1 <= i /\ First(agents) = agents[1]
    BY <2>1 DEF First
  <2>3. First(agents) \in Agent
    BY <1>1, <2>2, ListTypes DEF ToSet
  <2> QED BY <1>1, <2>1, <2>2, <2>3, PositionOfElement, ListTypes
<1>7. MainOK'
  <2>1. NotYetDetached(f)'
    BY <1>2, <1>6 DEF NotYetDetached, lists
  <2> QED BY <1>1, <1>2, <1>4, <2>1, ListTypes DEF MainOK, lists, NotYetDetached
<1>8. Holder'
  BY <1>1, <1>2, <1>4, ListTypes DEF TInv, Holder, Thread
<1> QED BY <1>2, <1>4, <1>5, <1>7, <1>8, OthersKeep DEF TInv, Thread, objects

(* An agent takes the identifier that the thread t, which holds the guard, *)
(* has found for it: no other thread and no other pointer is concerned.    *)
LEMMA AttachStep ==
  ASSUME TInv, NEW t \in {"main", "user"}, guard = t,
         NEW a \in ToSet(agents), NEW n \in ToSet(ids),
         ptr' = [ptr EXCEPT ![a] = n], UNCHANGED <<ids, agents, whole>>,
         \A u \in Thread : u # t => thr'[u] = thr[u]
  PROVE  /\ ptr' \in [Agent -> Node \cup {None}] /\ ptr'[a] = n
         /\ PointersInList' /\ PoolOK'
         /\ t # "main" => MainOK'
         /\ t # "user" => UserOK'
<1>1. ThreadsTypeOK
  BY DEF TInv
<1>2. n \in Node /\ a \in Agent
  BY <1>1, ListTypes
<1>3. ptr' \in [Agent -> Node \cup {None}] /\ ptr'[a] = n /\ \A b \in Agent : b # a => ptr'[b] = ptr[b]
  BY <1>1, <1>2 DEF ThreadsTypeOK
<1>4. PointersInList'
  BY <1>1, <1>3, ListTypes DEF TInv, PointersInList
<1>5. PoolOK'
  BY DEF TInv, PoolOK, Thread
<1>6. t # "main" => MainOK'
  BY DEF TInv, MainOK, Holder, Thread
<1>7. t # "user" => UserOK'
  BY DEF TInv, UserOK, Holder, Thread
<1> QED BY <1>3, <1>4, <1>5, <1>6, <1>7

LEMMA OfferPidStep == ASSUME TInv, OfferPid PROVE TInv'
<1> DEFINE n == thr["main"].id
           a == thr["main"].ag
           skip == Move("main", "offer", n, After(agents, a)) /\ UNCHANGED <<guard, ptr, crash>>
<1>1. ThreadsTypeOK
  BY DEF TInv
<1>2. /\ crash = "none" /\ thr["main"].pc = "offer" /\ thr["main"].op = "insert" /\ guard = "main"
      /\ n \in ToSet(ids) /\ a \in ToSet(agents)
      /\ UNCHANGED <<ids, agents, cached, whole, raw, queued>>
  BY DEF OfferPid, In, TInv, MainOK, Holder, objects
<1>3. /\ "offer" \in Label /\ "open" \in Label /\ "main" \in Thread
      /\ n \in Node /\ a \in Agent /\ After(agents, a) \in ToSet(agents) \cup {None}
      /\ ToSet(agents) \subseteq Agent
  BY <1>1, <1>2, ListTypes DEF Label, Thread
(* The loop goes on, be it without or after an evaluation.                 *)
<1>4. ASSUME Move("main", "offer", n, After(agents, a)), UNCHANGED <<guard, crash>>
      PROVE  /\ thr' \in [Thread -> Frame]
             /\ \A u \in Thread : u # "main" => thr'[u] = thr[u]
             /\ MainOK' /\ Holder'
  <2>1. /\ thr' \in [Thread -> Frame] /\ thr'["main"].pc = "offer" /\ thr'["main"].op = "insert"
        /\ thr'["main"].id = n /\ thr'["main"].ag = After(agents, a)
        /\ \A u \in Thread : u # "main" => thr'[u] = thr[u]
    BY <1>1, <1>2, <1>3, <1>4, MoveFacts
  <2>2. MainOK'
    BY <1>2, <1>3, <2>1 DEF MainOK
  <2>3. Holder'
    BY <1>2, <1>4, <2>1 DEF TInv, Holder, Thread
  <2> QED BY <2>1, <2>2, <2>3
<1>5. CASE skip
  <2>1. UNCHANGED <<lists, whole>>
    BY <1>2, <1>5 DEF lists
  <2>2. ThreadsTypeOK'
    BY <1>1, <1>2, <1>4, <1>5 DEF ThreadsTypeOK
  <2> QED BY <1>3, <1>4, <1>5, <2>1, <2>2, OthersKeep DEF TInv
<1>6. CASE ptr' = [ptr EXCEPT ![a] = n] /\ Evaluate("main", n, a)
  <2>1. CASE n \in cached
    <3>1. Move("main", "offer", n, After(agents, a)) /\ UNCHANGED <<guard, crash>>
      BY <1>2, <1>6, <2>1 DEF Evaluate, Continue
    <3>2. PointersInList' /\ PoolOK' /\ UserOK' /\ ptr' \in [Agent -> Node \cup {None}]
      BY <1>2, <1>4, <1>6, <3>1, AttachStep
    <3>3. ThreadsTypeOK'
      BY <1>1, <1>2, <1>4, <3>1, <3>2 DEF ThreadsTypeOK
    <3> QED BY <1>4, <3>1, <3>2, <3>3 DEF TInv
  <2>2. CASE n \notin cached
    <3>1. Move("main", "open", n, a) /\ UNCHANGED <<guard, crash>>
      BY <1>6, <2>2 DEF Evaluate
    <3>2. /\ thr' \in [Thread -> Frame] /\ thr'["main"].pc = "open" /\ thr'["main"].op = "insert"
          /\ thr'["main"].id = n /\ thr'["main"].ag = a
          /\ \A u \in Thread : u # "main" => thr'[u] = thr[u]
      BY <1>1, <1>2, <1>3, <3>1, MoveFacts
    <3>3. /\ PointersInList' /\ PoolOK' /\ UserOK' /\ ptr' \in [Agent -> Node \cup {None}]
          /\ ptr'[a] = n
      BY <1>2, <1>6, <3>2, AttachStep
    <3>4. ThreadsTypeOK'
      BY <1>1, <1>2, <3>1, <3>2, <3>3 DEF ThreadsTypeOK
    <3>5. MainOK'
      BY <1>2, <3>2, <3>3 DEF MainOK, Attached
    <3>6. Holder'
      BY <1>2, <3>1, <3>2 DEF TInv, Holder, Thread
    <3> QED BY <3>3, <3>4, <3>5, <3>6 DEF TInv
  <2> QED BY <2>1, <2>2
<1>7. CASE crash' = "pure virtual" /\ UNCHANGED <<guard, ptr, thr>>
  BY <1>1, <1>2, <1>7, StandsStill DEF lists, objects, ThreadsTypeOK
<1> QED BY <1>5, <1>6, <1>7 DEF OfferPid

(* The end of insert(pid), and of remove(pid): the thread is idle again.   *)
LEMMA LetGo ==
  ASSUME TInv, NEW t \in Thread, guard = t, Goto(t, Idle), Unlock(t)
  PROVE  /\ thr' \in [Thread -> Frame] /\ thr'[t] = Idle
         /\ \A u \in Thread : u # t => thr'[u] = thr[u]
         /\ guard' = None /\ Holder'
<1>1. ThreadsTypeOK /\ Idle \in Frame /\ None \notin Thread
  BY ListTypes DEF TInv
<1>2. /\ thr' \in [Thread -> Frame] /\ thr'[t] = Idle
      /\ \A u \in Thread : u # t => thr'[u] = thr[u]
  BY <1>1, GotoFacts
<1>3. Holder'
  BY <1>1, <1>2 DEF TInv, Holder, Unlock, Thread, Idle
<1> QED BY <1>2, <1>3 DEF Unlock

LEMMA OfferEndStep == ASSUME TInv, OfferEnd PROVE TInv'
<1>1. /\ ThreadsTypeOK /\ guard = "main" /\ Goto("main", Idle) /\ Unlock("main")
      /\ UNCHANGED <<lists, cached, objects, queued, crash>>
  BY DEF OfferEnd, In, TInv, Holder
<1>2. /\ thr' \in [Thread -> Frame] /\ thr'["main"] = Idle /\ guard' = None /\ Holder'
      /\ \A u \in Thread : u # "main" => thr'[u] = thr[u]
  BY <1>1, LetGo DEF Thread
<1>3. ThreadsTypeOK'
  BY <1>1, <1>2 DEF ThreadsTypeOK, lists, objects
<1>4. MainOK'
  BY <1>2 DEF MainOK, Idle
<1> QED BY <1>1, <1>2, <1>3, <1>4, OthersKeep DEF TInv, Thread, objects

LEMMA DetachAgentStep == ASSUME TInv, DetachAgent PROVE TInv'
<1> DEFINE n == thr["main"].id
           a == thr["main"].ag
<1>1. ThreadsTypeOK
  BY DEF TInv
<1>2. /\ thr["main"].pc = "detach" /\ thr["main"].op = "remove" /\ guard = "main"
      /\ n \in ToSet(ids) /\ a \in ToSet(agents) /\ NotYetDetached(thr["main"])
      /\ ptr' = [ptr EXCEPT ![a] = IF @ = n THEN None ELSE @]
      /\ Move("main", "detach", n, After(agents, a))
      /\ UNCHANGED <<guard, ids, agents, cached, whole, raw, queued, crash>>
  <2>1. thr["main"].pc = "detach" /\ a # None
    BY DEF DetachAgent, In
  <2>2. /\ thr["main"].op = "remove" /\ guard = "main"
        /\ n \in ToSet(ids) /\ a \in ToSet(agents) /\ NotYetDetached(thr["main"])
    BY <2>1 DEF TInv, MainOK, Holder
  <2> QED BY <2>1, <2>2 DEF DetachAgent, objects
<1>3. /\ "detach" \in Label /\ "main" \in Thread
      /\ n \in Node /\ a \in Agent /\ After(agents, a) \in ToSet(agents) \cup {None}
      /\ ToSet(agents) \subseteq Agent /\ None \notin Node /\ None \notin Agent
  BY <1>1, <1>2, ListTypes DEF Label, Thread
<1>4. /\ ptr' \in [Agent -> Node \cup {None}] /\ ptr'[a] # n /\ ptr'[a] \in {ptr[a], None}
      /\ \A b \in Agent : b # a => ptr'[b] = ptr[b]
  BY <1>1, <1>2, <1>3 DEF ThreadsTypeOK
<1>5. /\ thr' \in [Thread -> Frame] /\ thr'["main"].pc = "detach" /\ thr'["main"].op = "remove"
      /\ thr'["main"].id = n /\ thr'["main"].ag = After(agents, a)
      /\ \A u \in Thread : u # "main" => thr'[u] = thr[u]
  BY <1>1, <1>2, <1>3, MoveFacts
<1>6. ThreadsTypeOK'
  BY <1>1, <1>2, <1>4, <1>5 DEF ThreadsTypeOK
<1>7. PointersInList'
  BY <1>2, <1>3, <1>4 DEF TInv, PointersInList
<1>8. \A i \in DOMAIN agents : ptr'[agents[i]] = n =>
         After(agents, a) # None /\ Position(agents, After(agents, a)) <= i
  <2> SUFFICES ASSUME NEW i \in DOMAIN agents, ptr'[agents[i]] = n
               PROVE  After(agents, a) # None /\ Position(agents, After(agents, a)) <= i
    OBVIOUS
  <2> DEFINE p == Position(agents, a)
  <2>1. agents \in Seq(raw) /\ IsInjective(agents) /\ raw \subseteq Agent
    BY <1>1 DEF ThreadsTypeOK
  <2>2. p \in DOMAIN agents /\ agents[p] = a
    BY <1>2, <2>1, PositionFacts
  <2>3. agents[i] \in Agent
    BY <1>3 DEF ToSet
  <2>4. agents[i] # a /\ ptr[agents[i]] = n
    BY <1>4, <2>3
  <2>5. p <= i /\ p # i
    BY <1>2, <2>2, <2>4 DEF NotYetDetached
  <2>6. p + 1 \in DOMAIN agents /\ p + 1 <= i /\ p # Len(agents)
    BY <2>1, <2>2, <2>5
  <2>7. After(agents, a) = agents[p + 1]
    BY <2>6 DEF After
  <2>8. Position(agents, agents[p + 1]) = p + 1
    BY <2>1, <2>6, PositionOfElement
  <2>9. agents[p + 1] # None
    BY <1>3, <2>6 DEF ToSet
  <2> QED BY <2>6, <2>7, <2>8, <2>9
<1>9. MainOK'
  <2>1. NotYetDetached(thr["main"])'
    BY <1>2, <1>5, <1>8 DEF NotYetDetached
  <2> QED BY <1>2, <1>3, <1>5, <2>1 DEF MainOK, NotYetDetached
<1>10. PoolOK'
  BY <1>2, <1>5 DEF TInv, PoolOK, Thread
<1>11. UserOK'
  BY <1>2, <1>5 DEF TInv, UserOK, Holder, Thread
<1>12. Holder'
  BY <1>2, <1>5 DEF TInv, Holder, Thread
<1> QED BY <1>6, <1>7, <1>9, <1>10, <1>11, <1>12 DEF TInv

LEMMA ErasePidStep == ASSUME TInv, ErasePid PROVE TInv'
<1> DEFINE n == thr["main"].id
<1>1. ThreadsTypeOK
  BY DEF TInv
<1>2. /\ thr["main"].op = "remove" /\ guard = "main" /\ n \in ToSet(ids)
      /\ \A i \in DOMAIN agents : ptr[agents[i]] # n
      /\ ids' = Without(ids, n) /\ Goto("main", Idle) /\ Unlock("main")
      /\ UNCHANGED <<agents, ptr, cached, whole, raw, queued, crash>>
  BY DEF ErasePid, In, TInv, MainOK, Holder, NotYetDetached, objects
<1>3. ids' \in Seq(Node) /\ IsInjective(ids') /\ ToSet(ids') = ToSet(ids) \ {n}
  <2>1. ids \in Seq(Node) /\ IsInjective(ids)
    BY <1>1 DEF ThreadsTypeOK
  <2>2. ids' \in Seq(Node \ {n}) /\ IsInjective(ids') /\ ToSet(ids') = ToSet(ids) \ {n}
    BY <1>2, <2>1, WithoutFacts
  <2> QED BY <2>2
<1>4. /\ thr' \in [Thread -> Frame] /\ thr'["main"] = Idle /\ guard' = None /\ Holder'
      /\ \A u \in Thread : u # "main" => thr'[u] = thr[u]
  BY <1>2, LetGo DEF Thread
<1>5. ThreadsTypeOK'
  BY <1>1, <1>2, <1>3, <1>4 DEF ThreadsTypeOK
<1>6. MainOK'
  BY <1>4 DEF MainOK, Idle
<1>7. PoolOK'
  BY <1>2, <1>4 DEF TInv, PoolOK, Holder, Thread
<1>8. UserOK'
  BY <1>2, <1>4 DEF TInv, UserOK, Holder, Thread
<1>9. PointersInList'
  BY <1>2, <1>3 DEF TInv, PointersInList, ToSet
<1> QED BY <1>4, <1>5, <1>6, <1>7, <1>8, <1>9 DEF TInv

-----------------------------------------------------------------------------
(* The pool.                                                               *)

(* The thread t enters f or leaves it without the lists being touched: its *)
(* own place and the guard are all there is to say.                        *)
LEMMA PlainStep ==
  ASSUME TInv, NEW t \in Thread, NEW f \in Frame, Goto(t, f),
         UNCHANGED <<lists, objects, crash>>, cached' \subseteq Node, queued' \in BOOLEAN,
         guard' \in Thread \cup {None}, Holder',
         t = "main" => MainOK', t = "pool" => PoolOK', t = "user" => UserOK'
  PROVE  TInv'
<1>1. ThreadsTypeOK
  BY DEF TInv
<1>2. thr' \in [Thread -> Frame] /\ \A u \in Thread : u # t => thr'[u] = thr[u]
  BY <1>1, GotoFacts
<1>3. ThreadsTypeOK'
  BY <1>1, <1>2 DEF ThreadsTypeOK, lists, objects
<1> QED BY <1>2, <1>3, OthersKeep DEF TInv, Thread, objects

LEMMA RefreshLockStep == ASSUME TInv, RefreshLock PROVE TInv'
<1> DEFINE f == [pc |-> "scan", op |-> "refresh", id |-> First(ids), ag |-> None]
<1>1. ThreadsTypeOK
  BY DEF TInv
<1>2. /\ guard = None /\ guard' = "pool" /\ Goto("pool", f) /\ thr["pool"].pc = "idle"
      /\ UNCHANGED <<lists, cached, objects, queued, crash>>
  BY DEF RefreshLock, Lock, In
<1>3. f \in Frame
  BY <1>1, ListTypes DEF Frame, Label, Work
<1>4. thr'["pool"] = f /\ thr'["main"] = thr["main"] /\ thr'["user"] = thr["user"]
  BY <1>1, <1>2, <1>3, GotoFacts DEF Thread
<1>5. PoolOK'
  BY <1>1, <1>2, <1>4, ListTypes DEF PoolOK, lists
<1>6. Holder'
  BY <1>1, <1>2, <1>4, ListTypes DEF TInv, Holder, Thread
<1> QED BY <1>1, <1>2, <1>3, <1>5, <1>6, PlainStep DEF Thread, ThreadsTypeOK

LEMMA ScanPidStep == ASSUME TInv, ScanPid PROVE TInv'
<1> DEFINE n == thr["pool"].id
           f == [pc |-> "scan", op |-> "refresh", id |-> After(ids, n), ag |-> None]
<1>1. ThreadsTypeOK
  BY DEF TInv
<1>2. /\ thr["pool"].pc = "scan" /\ thr["pool"].op = "refresh" /\ guard = "pool" /\ n \in ToSet(ids)
      /\ UNCHANGED <<lists, objects, queued, crash>>
  BY DEF ScanPid, In, TInv, PoolOK, Holder
<1>3. CASE cached' = cached \cup {n} /\ Move("pool", "scan", After(ids, n), None) /\ UNCHANGED guard
  <2>1. /\ "scan" \in Label /\ After(ids, n) \in ToSet(ids) \cup {None}
        /\ After(ids, n) \in Node \cup {None} /\ n \in Node /\ "pool" \in Thread
    BY <1>1, <1>2, ListTypes DEF Label, Thread
  <2>2. /\ thr' \in [Thread -> Frame] /\ thr'["pool"].pc = "scan" /\ thr'["pool"].op = "refresh"
        /\ thr'["pool"].id = After(ids, n)
        /\ \A u \in Thread : u # "pool" => thr'[u] = thr[u]
    BY <1>1, <1>2, <1>3, <2>1, MoveFacts
  <2>3. ThreadsTypeOK'
    BY <1>1, <1>2, <1>3, <2>1, <2>2 DEF ThreadsTypeOK, lists, objects
  <2>4. PoolOK'
    BY <1>2, <2>1, <2>2 DEF PoolOK, lists
  <2>5. Holder'
    BY <1>2, <1>3, <2>2 DEF TInv, Holder, Thread
  <2> QED BY <1>2, <2>1, <2>2, <2>3, <2>4, <2>5, OthersKeep DEF TInv, Thread, objects
<1>4. CASE Goto("pool", Idle) /\ Unlock("pool") /\ UNCHANGED cached
  <2>1. thr'["pool"] = Idle /\ guard' = None /\ Holder'
    BY <1>2, <1>4, LetGo DEF Thread
  <2>2. PoolOK'
    BY <2>1 DEF PoolOK, Idle
  <2> QED BY <1>1, <1>2, <1>4, <2>1, <2>2, ListTypes, PlainStep DEF Thread, ThreadsTypeOK
<1> QED BY <1>3, <1>4 DEF ScanPid

LEMMA ScanEndStep == ASSUME TInv, ScanEnd PROVE TInv'
<1>1. /\ ThreadsTypeOK /\ guard = "pool" /\ Goto("pool", Idle) /\ Unlock("pool") /\ queued' = TRUE
      /\ UNCHANGED <<lists, cached, objects, crash>>
  BY DEF ScanEnd, In, TInv, Holder
<1>2. thr'["pool"] = Idle /\ guard' = None /\ Holder'
  BY <1>1, LetGo DEF Thread
<1>3. PoolOK'
  BY <1>2 DEF PoolOK, Idle
<1> QED BY <1>1, <1>2, <1>3, ListTypes, PlainStep DEF Thread, ThreadsTypeOK

LEMMA UpdateBeginStep == ASSUME TInv, UpdateBegin PROVE TInv'
<1> DEFINE f == [pc |-> "update", op |-> "update", id |-> None, ag |-> First(agents)]
<1>1. ThreadsTypeOK
  BY DEF TInv
<1>2. /\ thr["pool"].pc = "idle" /\ Goto("pool", f) /\ queued' = FALSE
      /\ UNCHANGED <<guard, lists, cached, objects, crash>>
  BY DEF UpdateBegin, In
<1>3. f \in Frame
  BY <1>1, ListTypes DEF Frame, Label, Work
<1>4. thr'["pool"] = f /\ thr'["main"] = thr["main"] /\ thr'["user"] = thr["user"]
  BY <1>1, <1>2, <1>3, GotoFacts DEF Thread
<1>5. PoolOK' /\ Holder'
  BY <1>2, <1>4 DEF TInv, PoolOK, Holder
<1> QED BY <1>1, <1>2, <1>3, <1>5, PlainStep DEF Thread, ThreadsTypeOK

LEMMA UpdateAgentStep == ASSUME TInv, UpdateAgent PROVE TInv'
<1> DEFINE a == thr["pool"].ag
<1>1. ThreadsTypeOK
  BY DEF TInv
<1>2. CASE a \notin ToSet(agents)
  <2>1. Crash("freed agent")
    BY <1>2 DEF UpdateAgent
  <2> QED BY <1>1, <2>1, StandsStill DEF Crash, ThreadsTypeOK
<1>3. CASE a \in ToSet(agents)
  <2>1. /\ thr["pool"].pc = "update"
        /\ IF ptr[a] = None THEN Move("pool", "update", None, After(agents, a))
                            ELSE Move("pool", "use", ptr[a], a)
        /\ UNCHANGED <<guard, lists, cached, objects, queued, crash>>
    BY <1>3 DEF UpdateAgent, In, Crash
  <2>2. thr["pool"].op = "update"
    BY <2>1 DEF TInv, PoolOK
  <2>3. /\ a \in Agent /\ After(agents, a) \in Agent \cup {None} /\ ptr[a] \in Node \cup {None}
        /\ "pool" \in Thread /\ "update" \in Label /\ "use" \in Label
    BY <1>1, <1>3, ListTypes DEF ThreadsTypeOK, Thread, Label
  <2>4. /\ thr' \in [Thread -> Frame] /\ thr'["pool"].op = "update"
        /\ \/ thr'["pool"].pc = "update"
           \/ thr'["pool"].pc = "use" /\ thr'["pool"].ag = a
        /\ \A u \in Thread : u # "pool" => thr'[u] = thr[u]
    <3>1. CASE ptr[a] = None
      BY <1>1, <2>1, <2>2, <2>3, <3>1, MoveFacts
    <3>2. CASE ptr[a] # None
      BY <1>1, <2>1, <2>2, <2>3, <3>2, MoveFacts
    <3> QED BY <3>1, <3>2
  <2>5. ThreadsTypeOK'
    BY <1>1, <2>1, <2>4 DEF ThreadsTypeOK, lists, objects
  <2>6. PoolOK' /\ Holder'
    BY <2>1, <2>3, <2>4 DEF TInv, PoolOK, Holder, Thread
  <2> QED BY <2>1, <2>3, <2>4, <2>5, <2>6, OthersKeep DEF TInv, Thread, objects
<1> QED BY <1>2, <1>3

LEMMA UpdateEndStep == ASSUME TInv, UpdateEnd PROVE TInv'
<1>1. /\ ThreadsTypeOK /\ thr["pool"].pc = "update" /\ Goto("pool", Idle)
      /\ UNCHANGED <<guard, lists, cached, objects, queued, crash>>
  BY DEF UpdateEnd, In, TInv
<1>2. thr'["pool"] = Idle /\ thr'["main"] = thr["main"] /\ thr'["user"] = thr["user"]
  BY <1>1, ListTypes, GotoFacts DEF Thread
<1>3. PoolOK' /\ Holder'
  BY <1>1, <1>2 DEF TInv, PoolOK, Holder, Idle
<1> QED BY <1>1, <1>3, ListTypes, PlainStep DEF Thread, ThreadsTypeOK

-----------------------------------------------------------------------------
(* The framework.                                                          *)

LEMMA StartLockStep == ASSUME TInv, NEW a \in Agent, StartLock(a) PROVE TInv'
<1> DEFINE f == [pc |-> "match", op |-> "start", id |-> First(ids), ag |-> a]
<1>1. ThreadsTypeOK
  BY DEF TInv
<1>2. /\ guard = None /\ guard' = "user" /\ a \notin raw /\ thr["user"].pc = "idle"
      /\ raw' = raw \cup {a} /\ whole' = whole \cup {a}
      /\ agents' = Append(agents, a) /\ ptr' = [ptr EXCEPT ![a] = None] /\ Goto("user", f)
      /\ UNCHANGED <<ids, cached, queued, crash>>
  BY DEF StartLock, Lock, In
<1>3. agents' \in Seq(raw') /\ IsInjective(agents') /\ ToSet(agents') = ToSet(agents) \cup {a}
  <2>1. agents \in Seq(raw) /\ IsInjective(agents) /\ a \notin ToSet(agents)
    BY <1>1, <1>2, ListTypes DEF ThreadsTypeOK
  <2> QED BY <1>2, <2>1, AppendFacts
<1>4. f \in Frame
  BY <1>1, ListTypes DEF Frame, Label, Work
<1>5. /\ thr' \in [Thread -> Frame] /\ thr'["user"] = f
      /\ thr'["main"] = thr["main"] /\ thr'["pool"] = thr["pool"]
  BY <1>1, <1>2, <1>4, GotoFacts DEF Thread
<1>6. /\ ptr' \in [Agent -> Node \cup {None}] /\ ptr'[a] = None
      /\ \A b \in Agent : b # a => ptr'[b] = ptr[b]
  BY <1>1, <1>2 DEF ThreadsTypeOK
<1>7. ThreadsTypeOK'
  BY <1>1, <1>2, <1>3, <1>5, <1>6 DEF ThreadsTypeOK, Thread
<1>8. MainOK' /\ PoolOK'
  BY <1>1, <1>2, <1>5, ListTypes DEF TInv, MainOK, PoolOK, Holder, Thread
<1>9. UserOK'
  BY <1>1, <1>2, <1>3, <1>5, ListTypes DEF UserOK
<1>10. Holder'
  BY <1>1, <1>2, <1>5, ListTypes DEF TInv, Holder, Thread
<1>11. PointersInList'
  BY <1>1, <1>2, <1>3, <1>6, ListTypes DEF TInv, PointersInList
<1> QED BY <1>7, <1>8, <1>9, <1>10, <1>11 DEF TInv

LEMMA MatchPidStep == ASSUME TInv, MatchPid PROVE TInv'
<1> DEFINE n == thr["user"].id
           a == thr["user"].ag
<1>1. ThreadsTypeOK
  BY DEF TInv
<1>2. /\ thr["user"].pc = "match" /\ n # None
      /\ UNCHANGED <<ids, agents, cached, whole, raw, queued>>
  BY DEF MatchPid, In, objects
<1>3. thr["user"].op = "start" /\ guard = "user" /\ n \in ToSet(ids) /\ a \in ToSet(agents)
  BY <1>2 DEF TInv, UserOK, Holder
<1>4. /\ "match" \in Label /\ "open" \in Label /\ "late" \in Label /\ "user" \in Thread
      /\ n \in Node /\ a \in Agent /\ After(ids, n) \in ToSet(ids) \cup {None}
      /\ After(ids, n) \in Node \cup {None} /\ None \notin Thread
  BY <1>1, <1>3, ListTypes DEF Label, Thread
<1>5. CASE Move("user", "match", After(ids, n), a) /\ UNCHANGED <<guard, ptr, crash>>
  <2>1. /\ thr' \in [Thread -> Frame] /\ thr'["user"].pc = "match" /\ thr'["user"].op = "start"
        /\ thr'["user"].id = After(ids, n) /\ thr'["user"].ag = a
        /\ \A u \in Thread : u # "user" => thr'[u] = thr[u]
    BY <1>1, <1>3, <1>4, <1>5, MoveFacts
  <2>2. ThreadsTypeOK'
    BY <1>1, <1>2, <1>5, <2>1 DEF ThreadsTypeOK
  <2>3. UserOK'
    BY <1>2, <1>3, <1>4, <2>1 DEF UserOK
  <2>4. Holder'
    BY <1>3, <1>5, <2>1 DEF TInv, Holder, Thread
  <2>5. UNCHANGED <<lists, whole>>
    BY <1>2, <1>5 DEF lists
  <2> QED BY <1>4, <2>1, <2>2, <2>3, <2>4, <2>5, OthersKeep DEF TInv
<1>6. CASE ptr' = [ptr EXCEPT ![a] = n] /\ Evaluate("user", n, a)
  <2>1. CASE n \in cached
    <3>1. Move("user", "late", None, a) /\ guard' = None /\ UNCHANGED crash
      BY <1>3, <1>6, <2>1 DEF Evaluate, Continue, Unlock
    <3>2. /\ thr' \in [Thread -> Frame] /\ thr'["user"].pc = "late" /\ thr'["user"].op = "start"
          /\ thr'["user"].ag = a
          /\ \A u \in Thread : u # "user" => thr'[u] = thr[u]
      BY <1>1, <1>3, <1>4, <3>1, MoveFacts
    <3>3. /\ PointersInList' /\ PoolOK' /\ MainOK' /\ ptr' \in [Agent -> Node \cup {None}]
      BY <1>2, <1>3, <1>6, <3>2, AttachStep
    <3>4. ThreadsTypeOK'
      BY <1>1, <1>2, <3>1, <3>2, <3>3 DEF ThreadsTypeOK
    <3>5. UserOK' /\ Holder'
      BY <1>3, <1>4, <3>1, <3>2 DEF TInv, UserOK, Holder, Thread
    <3> QED BY <3>3, <3>4, <3>5 DEF TInv
  <2>2. CASE n \notin cached
    <3>1. Move("user", "open", n, a) /\ UNCHANGED <<guard, crash>>
      BY <1>6, <2>2 DEF Evaluate
    <3>2. /\ thr' \in [Thread -> Frame] /\ thr'["user"].pc = "open" /\ thr'["user"].op = "start"
          /\ thr'["user"].id = n /\ thr'["user"].ag = a
          /\ \A u \in Thread : u # "user" => thr'[u] = thr[u]
      BY <1>1, <1>3, <1>4, <3>1, MoveFacts
    <3>3. /\ PointersInList' /\ PoolOK' /\ MainOK' /\ ptr' \in [Agent -> Node \cup {None}]
          /\ ptr'[a] = n
      BY <1>2, <1>3, <1>6, <3>2, AttachStep
    <3>4. ThreadsTypeOK'
      BY <1>1, <1>2, <3>1, <3>2, <3>3 DEF ThreadsTypeOK
    <3>5. UserOK'
      BY <1>2, <1>3, <3>2, <3>3 DEF UserOK, Attached
    <3>6. Holder'
      BY <1>3, <3>1, <3>2 DEF TInv, Holder, Thread
    <3> QED BY <3>3, <3>4, <3>5, <3>6 DEF TInv
  <2> QED BY <2>1, <2>2
<1> QED BY <1>5, <1>6 DEF MatchPid

LEMMA MatchNoneStep == ASSUME TInv, MatchNone PROVE TInv'
<1> DEFINE a == thr["user"].ag
<1>1. ThreadsTypeOK
  BY DEF TInv
<1>2. /\ thr["user"].pc = "match" /\ Move("user", "late", None, a) /\ guard' = None
      /\ UNCHANGED <<lists, cached, objects, queued, crash>>
  BY DEF MatchNone, In, Unlock
<1>3. thr["user"].op = "start" /\ guard = "user" /\ a \in Agent
  BY <1>1, <1>2, ListTypes DEF TInv, UserOK, Holder
<1>4. /\ thr' \in [Thread -> Frame] /\ thr'["user"].pc = "late" /\ thr'["user"].op = "start"
      /\ thr'["user"].ag = a /\ \A u \in Thread : u # "user" => thr'[u] = thr[u]
  BY <1>1, <1>2, <1>3, MoveFacts DEF Label, Thread
<1>5. ThreadsTypeOK'
  BY <1>1, <1>2, <1>4 DEF ThreadsTypeOK, lists, objects
<1>6. UserOK'
  BY <1>3, <1>4 DEF UserOK
<1>7. Holder'
  BY <1>1, <1>2, <1>3, <1>4, ListTypes DEF TInv, Holder, Thread
<1> QED BY <1>2, <1>4, <1>5, <1>6, <1>7, OthersKeep DEF TInv, Thread, objects

(* StartLate, Look and TestPointer: the thread goes to f without the guard. *)
LEMMA LookStep ==
  ASSUME TInv, NEW f \in Frame, Goto("user", f), guard # "user",
         \/ f = Idle
         \/ f.op = "look" /\ f.pc \in {"look", "use"} /\ f.ag \in Agent,
         UNCHANGED <<guard, lists, cached, objects, queued, crash>>
  PROVE  TInv'
<1>1. ThreadsTypeOK
  BY DEF TInv
<1>2. thr'["user"] = f /\ thr'["main"] = thr["main"] /\ thr'["pool"] = thr["pool"]
  BY <1>1, GotoFacts DEF Thread
<1>3. UserOK'
  BY <1>2 DEF UserOK, Idle
<1>4. Holder'
  BY <1>2 DEF TInv, Holder, Idle
<1> QED BY <1>1, <1>3, <1>4, PlainStep DEF Thread, ThreadsTypeOK

LEMMA AskingStep ==
  ASSUME TInv, StartLate \/ TestPointer \/ \E b \in Agent : Look(b)
  PROVE  TInv'
<1> DEFINE a == thr["user"].ag
           look(b) == [pc |-> "look", op |-> "look", id |-> None, ag |-> b]
<1>1. ThreadsTypeOK
  BY DEF TInv
<1>2. \A b \in Agent : look(b) \in Frame
  BY DEF Frame, Label, Work
<1>3. CASE StartLate
  <2>1. /\ thr["user"].pc = "late" /\ Goto("user", IF ptr[a] # None THEN Idle ELSE look(a))
        /\ UNCHANGED <<guard, lists, cached, objects, queued, crash>>
    BY <1>3 DEF StartLate, In
  <2>2. a \in Agent /\ guard # "user"
    BY <2>1 DEF TInv, UserOK, Holder
  <2> QED BY <1>1, <1>2, <2>1, <2>2, ListTypes, LookStep
<1>4. ASSUME NEW b \in Agent, Look(b) PROVE TInv'
  <2>1. /\ thr["user"].pc = "idle" /\ Goto("user", look(b))
        /\ UNCHANGED <<guard, lists, cached, objects, queued, crash>>
    BY <1>4 DEF Look, In
  <2>2. guard # "user"
    BY <2>1 DEF TInv, UserOK, Holder
  <2> QED BY <1>2, <2>1, <2>2, LookStep
<1>5. CASE TestPointer
  <2>1. /\ thr["user"].pc = "look"
        /\ IF ptr[a] = None THEN Goto("user", Idle) ELSE Move("user", "use", ptr[a], a)
        /\ UNCHANGED <<guard, lists, cached, objects, queued, crash>>
    BY <1>5 DEF TestPointer, In
  <2>2. thr["user"].op = "look" /\ a \in Agent /\ guard # "user"
    BY <2>1 DEF TInv, UserOK, Holder
  <2>3. CASE ptr[a] = None
    BY <1>1, <2>1, <2>2, <2>3, ListTypes, LookStep
  <2>4. CASE ptr[a] # None
    <3>1. "use" \in Label /\ "user" \in Thread /\ ptr[a] \in Node \cup {None}
      BY <1>1, <2>2 DEF ThreadsTypeOK, Label, Thread
    <3>2. /\ thr' \in [Thread -> Frame] /\ thr'["user"].pc = "use" /\ thr'["user"].op = "look"
          /\ thr'["user"].ag = a /\ \A u \in Thread : u # "user" => thr'[u] = thr[u]
      BY <1>1, <2>1, <2>2, <2>4, <3>1, MoveFacts
    <3>3. ThreadsTypeOK'
      BY <1>1, <2>1, <3>2 DEF ThreadsTypeOK, lists, objects
    <3>4. UserOK' /\ Holder'
      BY <2>1, <2>2, <3>2 DEF TInv, UserOK, Holder, Thread
    <3> QED BY <2>1, <3>1, <3>2, <3>3, <3>4, OthersKeep DEF TInv, objects
  <2> QED BY <2>3, <2>4
<1> QED BY <1>3, <1>4, <1>5

LEMMA DestroyDerivedStep == ASSUME TInv, NEW a \in Agent, DestroyDerived(a) PROVE TInv'
<1> DEFINE f == [pc |-> "dying", op |-> "destroy", id |-> None, ag |-> a]
<1>1. ThreadsTypeOK
  BY DEF TInv
<1>2. /\ thr["user"].pc = "idle" /\ whole' = whole \ {a} /\ Goto("user", f)
      /\ UNCHANGED <<guard, ids, agents, ptr, cached, raw, queued, crash>>
  BY DEF DestroyDerived, In, lists
<1>3. f \in Frame /\ guard # "user"
  BY <1>2 DEF Frame, Label, Work, TInv, UserOK, Holder
<1>4. /\ thr' \in [Thread -> Frame] /\ thr'["user"] = f
      /\ thr'["main"] = thr["main"] /\ thr'["pool"] = thr["pool"]
  BY <1>1, <1>2, <1>3, GotoFacts DEF Thread
<1>5. ThreadsTypeOK'
  BY <1>1, <1>2, <1>4 DEF ThreadsTypeOK
<1>6. MainOK' /\ PoolOK'
  BY <1>2, <1>4 DEF TInv, MainOK, PoolOK, Attached, NotYetDetached
<1>7. UserOK'
  BY <1>2, <1>4 DEF UserOK
<1>8. Holder' /\ PointersInList'
  BY <1>2, <1>3, <1>4 DEF TInv, Holder, PointersInList
<1> QED BY <1>5, <1>6, <1>7, <1>8 DEF TInv

LEMMA RemoveAgentStep == ASSUME TInv, RemoveAgent PROVE TInv'
<1> DEFINE a == thr["user"].ag
<1>1. ThreadsTypeOK
  BY DEF TInv
<1>2. /\ thr["user"].pc = "dying" /\ guard = None /\ agents' = Without(agents, a)
      /\ Move("user", "free", None, a)
      /\ UNCHANGED <<guard, ids, ptr, cached, whole, raw, queued, crash>>
  BY DEF RemoveAgent, In, objects
<1>3. thr["user"].op = "destroy" /\ a \in Agent \ whole
  BY <1>2 DEF TInv, UserOK
<1>4. agents' \in Seq(raw) /\ IsInjective(agents') /\ ToSet(agents') = ToSet(agents) \ {a}
  <2>1. agents' \in Seq(raw \ {a}) /\ IsInjective(agents') /\ ToSet(agents') = ToSet(agents) \ {a}
    BY <1>1, <1>2, WithoutFacts DEF ThreadsTypeOK
  <2> QED BY <2>1
<1>5. /\ thr' \in [Thread -> Frame] /\ thr'["user"].pc = "free" /\ thr'["user"].op = "destroy"
      /\ thr'["user"].ag = a /\ \A u \in Thread : u # "user" => thr'[u] = thr[u]
  BY <1>1, <1>2, <1>3, MoveFacts DEF Label, Thread
<1>6. ThreadsTypeOK'
  BY <1>1, <1>2, <1>4, <1>5 DEF ThreadsTypeOK
<1>7. MainOK' /\ PoolOK'
  BY <1>1, <1>2, <1>5, ListTypes DEF TInv, MainOK, PoolOK, Holder, Thread
<1>8. UserOK'
  BY <1>2, <1>3, <1>4, <1>5 DEF UserOK
<1>9. Holder' /\ PointersInList'
  BY <1>1, <1>2, <1>4, <1>5, ListTypes DEF TInv, Holder, PointersInList, Thread
<1> QED BY <1>6, <1>7, <1>8, <1>9 DEF TInv

LEMMA FreeAgentStep == ASSUME TInv, FreeAgent PROVE TInv'
<1> DEFINE a == thr["user"].ag
<1>1. ThreadsTypeOK
  BY DEF TInv
<1>2. /\ thr["user"].pc = "free" /\ raw' = raw \ {a} /\ Goto("user", Idle)
      /\ UNCHANGED <<guard, ids, agents, ptr, cached, whole, queued, crash>>
  BY DEF FreeAgent, In, lists
<1>3. thr["user"].op = "destroy" /\ a \notin whole /\ a \notin ToSet(agents)
  BY <1>2 DEF TInv, UserOK
<1>4. thr' \in [Thread -> Frame] /\ thr'["user"] = Idle /\ \A u \in Thread : u # "user" => thr'[u] = thr[u]
  BY <1>1, <1>2, ListTypes, GotoFacts DEF Thread
<1>5. agents \in Seq(raw \ {a})
  <2>1. agents \in Seq(raw)
    BY <1>1 DEF ThreadsTypeOK
  <2>2. \A i \in 1 .. Len(agents) : agents[i] \in raw \ {a}
    BY <1>3, <2>1 DEF ToSet
  <2> QED BY <2>1, <2>2
<1>6. ThreadsTypeOK'
  BY <1>1, <1>2, <1>3, <1>4, <1>5 DEF ThreadsTypeOK
<1>7. MainOK' /\ PoolOK'
  BY <1>2, <1>4 DEF TInv, MainOK, PoolOK, Attached, NotYetDetached, Thread
<1>8. UserOK'
  BY <1>4 DEF UserOK, Idle
<1>9. Holder' /\ PointersInList'
  BY <1>2, <1>3, <1>4 DEF TInv, Holder, PointersInList, Idle, Thread
<1> QED BY <1>6, <1>7, <1>8, <1>9 DEF TInv

-----------------------------------------------------------------------------
(* The specification.                                                      *)

LEMMA TInitially == ThreadsInit => TInv
<1> SUFFICES ASSUME ThreadsInit PROVE TInv
  OBVIOUS
<1>1. ThreadsTypeOK
  <2>1. thr \in [Thread -> Frame]
    BY DEF ThreadsInit, Idle, Frame, Label, Work
  <2>2. /\ ids \in Seq(Node) /\ IsInjective(ids) /\ agents \in Seq(raw) /\ IsInjective(agents)
        /\ ptr \in [Agent -> Node \cup {None}]
    BY DEF ThreadsInit, IsInjective
  <2> QED BY <2>1, <2>2 DEF ThreadsInit, ThreadsTypeOK
<1>2. MainOK /\ PoolOK /\ UserOK
  BY DEF ThreadsInit, MainOK, PoolOK, UserOK, Idle, Thread
<1>3. Holder
  BY NoneAssumption DEF ThreadsInit, Holder, Idle, Thread
<1>4. PointersInList
  BY DEF ThreadsInit, PointersInList, ToSet
<1> QED BY <1>1, <1>2, <1>3, <1>4 DEF TInv

LEMMA TStep == TInv /\ [ThreadsNext]_tVars => TInv'
<1> SUFFICES ASSUME TInv, [ThreadsNext]_tVars PROVE TInv'
  OBVIOUS
<1>1. ASSUME NEW t \in Thread, Running(t) PROVE TInv'
  <2>1. CASE Getter(t)
    BY <2>1, GetterStep
  <2>2. CASE MainLoop
    BY <2>2, OfferPidStep, OfferEndStep, DetachAgentStep, ErasePidStep DEF MainLoop
  <2>3. CASE Worker
    BY <2>3, ScanPidStep, ScanEndStep, UpdateBeginStep, UpdateAgentStep, UpdateEndStep DEF Worker
  <2>4. CASE User
    BY <2>4, MatchPidStep, MatchNoneStep, AskingStep, FreeAgentStep DEF User
  <2> QED BY <1>1, <2>1, <2>2, <2>3, <2>4 DEF Running
<1>2. CASE RefreshLock \/ RemoveAgent
  BY <1>2, RefreshLockStep, RemoveAgentStep
<1>3. ASSUME NEW n \in Node, InsertPid(n) \/ RemovePid(n) PROVE TInv'
  BY <1>3, InsertPidStep, RemovePidStep
<1>4. ASSUME NEW a \in Agent, StartLock(a) \/ Look(a) \/ DestroyDerived(a) PROVE TInv'
  BY <1>4, StartLockStep, AskingStep, DestroyDerivedStep
<1>5. CASE UNCHANGED tVars
  BY <1>5, StandsStill DEF tVars, TInv, ThreadsTypeOK
<1> QED BY <1>1, <1>2, <1>3, <1>4, <1>5 DEF ThreadsNext

LEMMA TInvariant == ThreadsSpec => []TInv
BY TInitially, TStep, PTL DEF ThreadsSpec

(* Every variable stays in its type; in particular the two lists never     *)
(* hold an element twice, nor an agent whose memory was given back.        *)
THEOREM ThreadsTypeCorrect == ThreadsSpec => []ThreadsTypeOK
<1>1. TInv => ThreadsTypeOK
  BY DEF TInv
<1> QED BY <1>1, TInvariant, PTL

(* However many identifiers and agents there are, a walk that holds the    *)
(* guard is never left standing on an element that is gone.                *)
THEOREM LockedWalks == ThreadsSpec => []LockedWalksAreSafe
<1>1. TInv => LockedWalksAreSafe
  BY DEF TInv, LockedWalksAreSafe, MainOK, PoolOK, UserOK, Attached, Thread
<1> QED BY <1>1, TInvariant, PTL

(* remove(pid) reaches every registered agent before it erases: at no      *)
(* moment does one of them point to what is not in the list.               *)
THEOREM PointersStayInList == ThreadsSpec => []PointersInList
<1>1. TInv => PointersInList
  BY DEF TInv
<1> QED BY <1>1, TInvariant, PTL

-----------------------------------------------------------------------------
(* Who changes the lists.                                                  *)

LEMMA AfterIsAnother ==
  ASSUME ThreadsTypeOK, NEW a \in ToSet(agents)
  PROVE  After(agents, a) # a
<1> DEFINE p == Position(agents, a)
<1>1. agents \in Seq(raw) /\ IsInjective(agents) /\ None \notin Agent /\ ToSet(agents) \subseteq Agent
  BY ListTypes DEF ThreadsTypeOK
<1>2. p \in DOMAIN agents /\ agents[p] = a
  BY <1>1, PositionFacts
<1>3. CASE p = Len(agents)
  BY <1>1, <1>3 DEF After
<1>4. CASE p # Len(agents)
  <2>1. p + 1 \in DOMAIN agents /\ p + 1 # p
    BY <1>1, <1>2, <1>4
  <2>2. agents[p + 1] # a
    BY <1>1, <1>2, <2>1 DEF IsInjective
  <2> QED BY <1>4, <2>2 DEF After
<1> QED BY <1>3, <1>4

LEMMA HolderStep ==
  ASSUME TInv, ThreadsNext, NEW t \in Thread, guard = t, thr'[t] = thr[t]
  PROVE  UNCHANGED lists
<1>1. ThreadsTypeOK /\ None \notin Thread
  BY ListTypes DEF TInv
<1>2. ASSUME NEW u \in Thread, Getter(u) PROVE UNCHANGED lists
  BY <1>2 DEF Getter, OpenStat, ReadStat, UsePointer, StoreState, Crash
<1>3. CASE OfferPid
  <2> DEFINE n == thr["main"].id
             a == thr["main"].ag
  <2>1. thr["main"].pc = "offer" /\ a # None /\ UNCHANGED <<ids, agents>>
    BY <1>3 DEF OfferPid, In
  <2>2. thr["main"].op = "insert" /\ a \in ToSet(agents) /\ n \in ToSet(ids) /\ t = "main"
    BY <2>1 DEF TInv, MainOK, Holder
  <2>3. ~Move("main", "offer", n, After(agents, a)) /\ ~Move("main", "open", n, a)
    <3>1. n \in Node /\ a \in Agent /\ After(agents, a) \in Agent \cup {None} /\ After(agents, a) # a
      BY <1>1, <2>2, ListTypes, AfterIsAnother
    <3>2. "offer" \in Label /\ "open" \in Label
      BY DEF Label
    <3>3. ASSUME Move("main", "offer", n, After(agents, a)) PROVE FALSE
      BY <1>1, <2>2, <3>1, <3>2, <3>3, MoveFacts
    <3>4. ASSUME Move("main", "open", n, a) PROVE FALSE
      BY <1>1, <2>1, <2>2, <3>1, <3>2, <3>4, MoveFacts
    <3> QED BY <3>3, <3>4
  <2>4. ~Evaluate("main", n, a)
    BY <2>2, <2>3 DEF Evaluate, Continue
  <2> QED BY <1>3, <2>1, <2>3, <2>4 DEF OfferPid, lists
<1>4. CASE DetachAgent
  <2> DEFINE n == thr["main"].id
             a == thr["main"].ag
  <2>1. /\ thr["main"].pc = "detach" /\ a # None /\ Move("main", "detach", n, After(agents, a))
    BY <1>4 DEF DetachAgent, In
  <2>2. a \in ToSet(agents) /\ n \in ToSet(ids) /\ t = "main"
    BY <2>1 DEF TInv, MainOK, Holder
  <2>3. n \in Node /\ a \in Agent /\ After(agents, a) \in Agent \cup {None} /\ After(agents, a) # a
    BY <1>1, <2>2, ListTypes, AfterIsAnother
  <2>4. thr'["main"].ag = After(agents, a)
    BY <1>1, <2>1, <2>2, <2>3, MoveFacts DEF Label
  <2> QED BY <2>2, <2>3, <2>4
<1>5. CASE ErasePid
  <2>1. thr["main"].pc = "detach" /\ Goto("main", Idle)
    BY <1>5 DEF ErasePid, In
  <2>2. t = "main"
    BY <2>1 DEF TInv, Holder
  <2>3. thr'["main"] = Idle
    BY <1>1, <2>1, <2>2, ListTypes, GotoFacts
  <2> QED BY <2>1, <2>2, <2>3 DEF Idle
<1>6. CASE MatchPid
  <2> DEFINE n == thr["user"].id
             a == thr["user"].ag
  <2>1. thr["user"].pc = "match" /\ n # None /\ UNCHANGED <<ids, agents>>
    BY <1>6 DEF MatchPid, In
  <2>2. thr["user"].op = "start" /\ a \in ToSet(agents) /\ n \in ToSet(ids) /\ t = "user"
    BY <2>1 DEF TInv, UserOK, Holder
  <2>3. ~Evaluate("user", n, a)
    <3>1. n \in Node /\ a \in Agent /\ "late" \in Label /\ "open" \in Label
      BY <1>1, <2>2, ListTypes DEF Label
    <3>2. ASSUME Move("user", "late", None, a) PROVE FALSE
      BY <1>1, <2>1, <2>2, <3>1, <3>2, MoveFacts
    <3>3. ASSUME Move("user", "open", n, a) PROVE FALSE
      BY <1>1, <2>1, <2>2, <3>1, <3>3, MoveFacts
    <3> QED BY <2>2, <3>2, <3>3 DEF Evaluate, Continue
  <2> QED BY <1>6, <2>1, <2>3 DEF MatchPid, lists
<1>7. CASE \/ OfferEnd \/ ScanPid \/ ScanEnd \/ UpdateBegin \/ UpdateAgent \/ UpdateEnd
           \/ MatchNone \/ StartLate \/ TestPointer \/ FreeAgent \/ RefreshLock
  BY <1>7 DEF OfferEnd, ScanPid, ScanEnd, UpdateBegin, UpdateAgent, UpdateEnd,
              MatchNone, StartLate, TestPointer, FreeAgent, RefreshLock, Crash
<1>8. ASSUME NEW n \in Node, InsertPid(n) \/ RemovePid(n) PROVE UNCHANGED lists
  BY <1>1, <1>8 DEF InsertPid, RemovePid, Lock
<1>9. ASSUME NEW a \in Agent, StartLock(a) \/ Look(a) \/ DestroyDerived(a) PROVE UNCHANGED lists
  BY <1>1, <1>9 DEF StartLock, Look, DestroyDerived, Lock
<1>10. CASE RemoveAgent
  BY <1>1, <1>10 DEF RemoveAgent
<1> QED BY <1>2, <1>3, <1>4, <1>5, <1>6, <1>7, <1>8, <1>9, <1>10
        DEF ThreadsNext, Running, MainLoop, Worker, User

(* As long as a thread holds the guard, nobody else changes a list or the  *)
(* pointer of an agent: this is what allows ProcessController to take the  *)
(* regions of insert(pid), remove(pid), insert(agent) and refresh for one  *)
(* step each.                                                              *)
THEOREM HolderAlone == ThreadsSpec => OnlyTheHolderChanges
<1>1. TInv /\ [ThreadsNext]_tVars
        => [\A t \in Thread : guard = t /\ thr'[t] = thr[t] => UNCHANGED lists]_tVars
  BY HolderStep
<1> QED BY <1>1, TInvariant, PTL DEF ThreadsSpec, OnlyTheHolderChanges

-----------------------------------------------------------------------------
(* What can end the program.                                               *)

(* Agents are gone, or half gone, only where agents are destroyed; an      *)
(* exception leaves getState() only where a process may end under it.      *)
CrashHasCause ==
  /\ crash \in {"freed agent", "pure virtual"} => Destroys
  /\ crash = "terminate" => Vanish

(* Without destruction all agents are whole and registered, and so is the  *)
(* one the update stands on, the guard or not.                             *)
Calm ==
  /\ ToSet(agents) = raw /\ whole = raw
  /\ thr["user"].op # "destroy"
  /\ thr["pool"].op = "update" =>
       /\ thr["pool"].ag \in ToSet(agents) \cup {None}
       /\ thr["pool"].pc # "update" => thr["pool"].ag # None

CInv == CrashHasCause /\ (~Destroys => Calm)

LEMMA MoveKeeps ==
  ASSUME ThreadsTypeOK, NEW t \in Thread, NEW pc, NEW id, NEW ag, Move(t, pc, id, ag)
  PROVE  /\ thr'[t].pc = pc /\ thr'[t].op = thr[t].op /\ thr'[t].id = id /\ thr'[t].ag = ag
         /\ \A u \in Thread : u # t => thr'[u] = thr[u]
BY DEF ThreadsTypeOK, Move, Goto, Frame

LEMMA GotoKeeps ==
  ASSUME ThreadsTypeOK, NEW t \in Thread, NEW f, Goto(t, f)
  PROVE  thr'[t] = f /\ \A u \in Thread : u # t => thr'[u] = thr[u]
BY DEF ThreadsTypeOK, Goto

(* The evaluation of one agent, and what follows it.                       *)
LEMMA CalmContinue ==
  ASSUME TInv, CInv, NEW t \in Thread, thr[t].pc \in {"open", "read", "use"}, Continue(t),
         UNCHANGED <<ids, agents, ptr, whole, raw>>
  PROVE  CInv'
<1>1. ThreadsTypeOK
  BY DEF TInv
<1>2. CASE t = "main"
  <2>1. thr[t].op = "insert"
    BY <1>2 DEF TInv, MainOK
  <2>2. crash' = crash /\ Move(t, "offer", thr[t].id, After(agents, thr[t].ag))
    BY <2>1 DEF Continue
  <2>3. thr'["pool"] = thr["pool"] /\ thr'["user"] = thr["user"]
    BY <1>1, <1>2, <2>2, MoveKeeps DEF Thread
  <2> QED BY <2>2, <2>3 DEF CInv, CrashHasCause, Calm
<1>3. CASE t = "pool"
  <2>1. thr[t].op = "update"
    BY <1>3 DEF TInv, PoolOK
  <2>2. CASE thr[t].ag \notin ToSet(agents)
    <3>1. crash' = "freed agent" /\ UNCHANGED thr
      BY <2>1, <2>2 DEF Continue
    <3>2. Destroys
      BY <1>3, <2>1, <2>2, BoundAssumption DEF CInv, Calm
    <3> QED BY <3>1, <3>2 DEF CInv, CrashHasCause
  <2>3. CASE thr[t].ag \in ToSet(agents)
    <3>1. crash' = crash /\ Move(t, "update", None, After(agents, thr[t].ag))
      BY <2>1, <2>3 DEF Continue
    <3>2. /\ thr'["pool"].pc = "update" /\ thr'["pool"].ag \in ToSet(agents) \cup {None}
          /\ thr'["user"] = thr["user"]
      BY <1>1, <1>3, <2>3, <3>1, MoveKeeps, ListTypes DEF Thread
    <3> QED BY <3>1, <3>2 DEF CInv, CrashHasCause, Calm
  <2> QED BY <2>2, <2>3
<1>4. CASE t = "user"
  <2>1. thr[t].op \in {"start", "look"}
    BY <1>4 DEF TInv, UserOK
  <2>2. crash' = crash /\ (Move(t, "late", None, thr[t].ag) \/ Goto(t, Idle))
    BY <2>1 DEF Continue
  <2>3. thr'["user"].op # "destroy" /\ thr'["pool"] = thr["pool"]
    BY <1>1, <1>4, <2>1, <2>2, MoveKeeps, GotoKeeps DEF Thread, Idle
  <2> QED BY <2>2, <2>3 DEF CInv, CrashHasCause, Calm
<1> QED BY <1>2, <1>3, <1>4 DEF Thread

LEMMA CalmGetter == ASSUME TInv, CInv, NEW t \in Thread, Getter(t) PROVE CInv'
<1>1. ThreadsTypeOK
  BY DEF TInv
<1>2. ASSUME thr[t].pc \in {"open", "read", "use"}, NEW pc \in {"open", "read"}, NEW n,
             Move(t, pc, n, thr[t].ag),
             UNCHANGED <<guard, lists, cached, objects, queued, crash>>
      PROVE  CInv'
  <2>1. thr'[t].op = thr[t].op /\ thr'[t].ag = thr[t].ag /\ \A u \in Thread : u # t => thr'[u] = thr[u]
    BY <1>1, <1>2, MoveKeeps
  <2>2. thr'["user"].op = thr["user"].op /\ thr'["pool"].op = thr["pool"].op
        /\ thr'["pool"].ag = thr["pool"].ag
        /\ (thr["pool"].pc = "update" => thr'["pool"].pc = "update")
    BY <1>2, <2>1 DEF Thread
  <2> QED BY <1>2, <2>2 DEF CInv, CrashHasCause, Calm, lists, objects
<1>3. ASSUME NEW why, Crash(why), why = "freed identifier" \/ (why = "terminate" /\ Vanish) PROVE CInv'
  BY <1>3 DEF Crash, CInv, CrashHasCause, Calm, lists, objects
<1>4. ASSUME thr[t].pc \in {"open", "read"}, StoreState(t) PROVE CInv'
  <2>1. CASE thr[t].id \in ToSet(ids)
    BY <1>4, <2>1, CalmContinue DEF StoreState, lists, objects
  <2>2. CASE thr[t].id \notin ToSet(ids)
    BY <1>3, <1>4, <2>2 DEF StoreState
  <2> QED BY <2>1, <2>2
<1>5. CASE OpenStat(t)
  BY <1>2, <1>4, <1>5 DEF OpenStat, In
<1>6. CASE ReadStat(t)
  BY <1>3, <1>4, <1>6 DEF ReadStat, In
<1>7. CASE UsePointer(t)
  <2>1. thr[t].pc = "use"
    BY <1>7 DEF UsePointer, In
  <2>2. PICK n : IF n \in ToSet(ids)
                 THEN Evaluate(t, n, thr[t].ag) /\ UNCHANGED <<lists, cached, objects, queued>>
                 ELSE Crash("freed identifier")
    BY <1>7 DEF UsePointer
  <2>3. CASE n \notin ToSet(ids)
    BY <1>3, <2>2, <2>3
  <2>4. CASE n \in ToSet(ids) /\ n \in cached
    BY <2>1, <2>2, <2>4, CalmContinue DEF Evaluate, lists, objects
  <2>5. CASE n \in ToSet(ids) /\ n \notin cached
    BY <1>2, <2>1, <2>2, <2>5 DEF Evaluate
  <2> QED BY <2>3, <2>4, <2>5
<1> QED BY <1>5, <1>6, <1>7 DEF Getter

(* Steps of the main loop: the other two threads and the agents stay.      *)
LEMMA CalmMain ==
  ASSUME TInv, CInv, UNCHANGED <<agents, whole, raw, crash>>,
         (\E f : Goto("main", f)) \/ (\E pc, id, ag : Move("main", pc, id, ag)) \/ UNCHANGED thr
  PROVE  CInv'
<1>1. thr'["pool"] = thr["pool"] /\ thr'["user"] = thr["user"]
  BY MoveKeeps, GotoKeeps DEF Thread, TInv
<1> QED BY <1>1 DEF CInv, CrashHasCause, Calm

LEMMA CalmMainLoop ==
  ASSUME TInv, CInv, MainLoop \/ \E n \in Node : InsertPid(n) \/ RemovePid(n)
  PROVE  CInv'
<1>1. CASE OfferPid
  <2> DEFINE n == thr["main"].id
             a == thr["main"].ag
  <2>1. /\ thr["main"].pc = "offer" /\ a # None
        /\ UNCHANGED <<agents, whole, raw>>
    BY <1>1 DEF OfferPid, In, objects
  <2>2. thr["main"].op = "insert" /\ a \in ToSet(agents)
    BY <2>1 DEF TInv, MainOK
  <2>3. CASE crash' = "pure virtual" /\ UNCHANGED thr /\ a \notin whole
    <3>1. Destroys
      BY <2>2, <2>3, BoundAssumption DEF CInv, Calm
    <3> QED BY <2>3, <3>1 DEF CInv, CrashHasCause
  <2>4. CASE Evaluate("main", n, a)
    <3>1. crash' = crash /\ \E pc, id, ag : Move("main", pc, id, ag)
      BY <2>2, <2>4 DEF Evaluate, Continue
    <3> QED BY <2>1, <3>1, CalmMain
  <2>5. CASE Move("main", "offer", n, After(agents, a)) /\ UNCHANGED crash
    BY <2>1, <2>5, CalmMain
  <2> QED BY <1>1, <2>3, <2>4, <2>5 DEF OfferPid
<1>2. CASE OfferEnd
  BY <1>2, CalmMain DEF OfferEnd, lists, objects
<1>3. CASE DetachAgent
  BY <1>3, CalmMain DEF DetachAgent, objects
<1>4. CASE ErasePid
  BY <1>4, CalmMain DEF ErasePid, objects
<1>5. ASSUME NEW n \in Node, InsertPid(n) PROVE CInv'
  BY <1>5, CalmMain DEF InsertPid, objects
<1>6. ASSUME NEW n \in Node, RemovePid(n) PROVE CInv'
  BY <1>6, CalmMain DEF RemovePid, lists, objects
<1> QED BY <1>1, <1>2, <1>3, <1>4, <1>5, <1>6 DEF MainLoop

LEMMA CalmPool == ASSUME TInv, CInv, Worker \/ RefreshLock PROVE CInv'
<1>1. ThreadsTypeOK
  BY DEF TInv
(* Whatever the thread is at next, the update's cursor is on an agent.     *)
<1>2. ASSUME UNCHANGED <<lists, objects, crash>>, thr'["user"] = thr["user"],
             ~Destroys => \/ thr'["pool"].op # "update"
                          \/ /\ thr'["pool"].pc = "update"
                             /\ thr'["pool"].ag \in ToSet(agents) \cup {None}
                          \/ thr'["pool"].ag \in ToSet(agents)
      PROVE  CInv'
  <2>1. None \notin ToSet(agents)
    BY <1>1, ListTypes
  <2> QED BY <1>2, <2>1 DEF CInv, CrashHasCause, Calm, lists, objects
<1>3. CASE UpdateAgent
  <2> DEFINE a == thr["pool"].ag
  <2>1. thr["pool"].pc = "update" /\ a # None
    BY <1>3 DEF UpdateAgent, In
  <2>2. thr["pool"].op = "update"
    BY <2>1 DEF TInv, PoolOK
  <2>3. CASE a \notin ToSet(agents)
    <3>1. crash' = "freed agent"
      BY <1>3, <2>3 DEF UpdateAgent, Crash
    <3>2. Destroys
      BY <2>1, <2>2, <2>3, BoundAssumption DEF CInv, Calm
    <3> QED BY <3>1, <3>2 DEF CInv, CrashHasCause
  <2>4. CASE a \in ToSet(agents)
    <3>1. /\ Move("pool", "update", None, After(agents, a)) \/ Move("pool", "use", ptr[a], a)
          /\ UNCHANGED <<lists, objects, crash>>
      BY <1>3, <2>4 DEF UpdateAgent, Crash
    <3>2. /\ thr'["user"] = thr["user"]
          /\ \/ thr'["pool"].pc = "update" /\ thr'["pool"].ag = After(agents, a)
             \/ thr'["pool"].ag = a
      BY <1>1, <3>1, MoveKeeps DEF Thread
    <3> QED BY <1>1, <1>2, <2>4, <3>1, <3>2, ListTypes
  <2> QED BY <2>3, <2>4
<1>4. CASE UpdateBegin
  <2>1. thr'["pool"].pc = "update" /\ thr'["pool"].ag = First(agents) /\ thr'["user"] = thr["user"]
    BY <1>1, <1>4, GotoKeeps DEF UpdateBegin, Thread
  <2> QED BY <1>1, <1>2, <1>4, <2>1, ListTypes DEF UpdateBegin
<1>5. CASE ScanPid
  <2>1. thr["pool"].op = "refresh"
    BY <1>5 DEF ScanPid, In, TInv, PoolOK
  <2>2. thr'["pool"].op # "update" /\ thr'["user"] = thr["user"]
    BY <1>1, <1>5, <2>1, MoveKeeps, GotoKeeps DEF ScanPid, Thread, Idle
  <2> QED BY <1>2, <1>5, <2>2 DEF ScanPid
<1>6. CASE ScanEnd \/ UpdateEnd \/ RefreshLock
  <2>1. thr'["pool"].op # "update" /\ thr'["user"] = thr["user"]
    BY <1>1, <1>6, GotoKeeps DEF ScanEnd, UpdateEnd, RefreshLock, Thread, Idle
  <2> QED BY <1>2, <1>6, <2>1 DEF ScanEnd, UpdateEnd, RefreshLock
<1> QED BY <1>3, <1>4, <1>5, <1>6 DEF Worker

LEMMA CalmUser ==
  ASSUME TInv, CInv,
         \/ User \/ RemoveAgent
         \/ \E a \in Agent : StartLock(a) \/ Look(a) \/ DestroyDerived(a)
  PROVE  CInv'
<1>1. ThreadsTypeOK
  BY DEF TInv
<1>2. ASSUME UNCHANGED <<agents, whole, raw, crash>>,
             thr'["user"].op # "destroy", thr'["pool"] = thr["pool"]
      PROVE  CInv'
  BY <1>2 DEF CInv, CrashHasCause, Calm
<1>3. CASE MatchPid
  <2>1. thr["user"].op = "start"
    BY <1>3 DEF MatchPid, In, TInv, UserOK
  <2>2. crash' = crash /\ \E pc, id, ag : Move("user", pc, id, ag)
    BY <1>3, <2>1 DEF MatchPid, Evaluate, Continue
  <2>3. thr'["user"].op = "start" /\ thr'["pool"] = thr["pool"]
    BY <1>1, <2>1, <2>2, MoveKeeps DEF Thread
  <2> QED BY <1>2, <1>3, <2>2, <2>3 DEF MatchPid, objects
<1>4. CASE MatchNone
  <2>1. thr["user"].op = "start"
    BY <1>4 DEF MatchNone, In, TInv, UserOK
  <2>2. thr'["user"].op = "start" /\ thr'["pool"] = thr["pool"]
    BY <1>1, <1>4, <2>1, MoveKeeps DEF MatchNone, Thread
  <2> QED BY <1>2, <1>4, <2>2 DEF MatchNone, lists, objects
<1>5. CASE StartLate
  <2> DEFINE f == IF ptr[thr["user"].ag] # None THEN Idle
                  ELSE [pc |-> "look", op |-> "look", id |-> None, ag |-> thr["user"].ag]
  <2>1. Goto("user", f)
    BY <1>5 DEF StartLate
  <2>2. f.op # "destroy"
    BY DEF Idle
  <2>3. thr'["user"] = f /\ thr'["pool"] = thr["pool"]
    <3> HIDE DEF f
    <3> QED BY <1>1, <2>1, GotoKeeps DEF Thread
  <2> QED BY <1>2, <1>5, <2>2, <2>3 DEF StartLate, lists, objects
<1>9. ASSUME NEW a \in Agent, Look(a) PROVE CInv'
  <2> DEFINE f == [pc |-> "look", op |-> "look", id |-> None, ag |-> a]
  <2>1. Goto("user", f)
    BY <1>9 DEF Look
  <2>2. thr'["user"] = f /\ thr'["pool"] = thr["pool"]
    <3> HIDE DEF f
    <3> QED BY <1>1, <2>1, GotoKeeps DEF Thread
  <2> QED BY <1>2, <1>9, <2>2 DEF Look, lists, objects
<1>6. CASE TestPointer
  <2>1. thr["user"].op = "look"
    BY <1>6 DEF TestPointer, In, TInv, UserOK
  <2>2. thr'["user"].op # "destroy" /\ thr'["pool"] = thr["pool"]
    BY <1>1, <1>6, <2>1, MoveKeeps, GotoKeeps DEF TestPointer, Thread, Idle
  <2> QED BY <1>2, <1>6, <2>2 DEF TestPointer, lists, objects
<1>7. CASE FreeAgent \/ RemoveAgent \/ \E a \in Agent : DestroyDerived(a)
  <2>1. Destroys
    <3>1. CASE FreeAgent \/ RemoveAgent
      <4>1. thr["user"].op = "destroy"
        BY <3>1 DEF FreeAgent, RemoveAgent, In, TInv, UserOK
      <4> QED BY <4>1, BoundAssumption DEF CInv, Calm
    <3>2. CASE \E a \in Agent : DestroyDerived(a)
      BY <3>2 DEF DestroyDerived
    <3> QED BY <1>7, <3>1, <3>2
  <2>2. crash' = crash
    BY <1>7 DEF FreeAgent, RemoveAgent, DestroyDerived
  <2> QED BY <2>1, <2>2 DEF CInv, CrashHasCause
<1>8. ASSUME NEW a \in Agent, StartLock(a) PROVE CInv'
  <2>1. /\ ToSet(agents') = ToSet(agents) \cup {a} /\ raw' = raw \cup {a} /\ whole' = whole \cup {a}
    <3>1. agents \in Seq(raw) /\ IsInjective(agents) /\ a \notin ToSet(agents)
      BY <1>1, <1>8, ListTypes DEF ThreadsTypeOK, StartLock
    <3> QED BY <1>8, <3>1, AppendFacts DEF StartLock
  <2>2. thr'["user"].op = "start" /\ thr'["pool"] = thr["pool"] /\ crash' = crash
    BY <1>1, <1>8, GotoKeeps DEF StartLock, Thread
  <2> QED BY <2>1, <2>2 DEF CInv, CrashHasCause, Calm
<1> QED BY <1>3, <1>4, <1>5, <1>6, <1>7, <1>8, <1>9 DEF User

LEMMA CInvariant == ThreadsSpec => []CInv
<1>1. ThreadsInit => CInv
  BY DEF ThreadsInit, CInv, CrashHasCause, Calm, ToSet, Idle, Thread
<1>2. TInv /\ CInv /\ [ThreadsNext]_tVars => CInv'
  <2> SUFFICES ASSUME TInv, CInv, [ThreadsNext]_tVars PROVE CInv'
    OBVIOUS
  <2>1. CASE UNCHANGED tVars
    BY <2>1 DEF tVars, lists, objects, CInv, CrashHasCause, Calm
  <2>2. CASE ThreadsNext
    BY <2>2, CalmGetter, CalmMainLoop, CalmPool, CalmUser DEF ThreadsNext, Running
  <2> QED BY <2>1, <2>2
<1> QED BY <1>1, <1>2, TInvariant, PTL DEF ThreadsSpec

(* An update that walks the agents without the guard never stands on a     *)
(* freed agent, and probe() is never called on a half destroyed one,       *)
(* unless agents are destroyed while the program runs; and getState() only *)
(* throws if a process ends under it. What is left without both is the     *)
(* freed identifier of the run threads_crash.                              *)
THEOREM CrashesHaveCauses == ThreadsSpec => []CrashHasCause
<1>1. CInv => CrashHasCause
  BY DEF CInv
<1> QED BY <1>1, CInvariant, PTL

=============================================================================
