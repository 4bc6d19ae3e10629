----------------------------- MODULE CpuProofs ------------------------------
(***************************************************************************)
(* Theorems about CpuRefresh, for any number of processes and ticks.       *)
(***************************************************************************)
EXTENDS CpuRefresh, FiniteSetTheorems, TLAPS

(* The counters only grow; what a refresh has collected is positive and no *)
(* more than the total; an entry that was read and not charged since holds *)
(* the time of its process, so that the next read leaves it at 0.          *)
Counters  == system.running <= running /\ system.idle <= idle
Collected == /\ Within(sysusage) /\ totaltime >= 0
             /\ \A p \in pids : 0 < usage[p] /\ usage[p] <= totaltime
ReadOnce  == \A p \in listed : quiet[p] # 0 => last[p] = time[p]
ReadTwice == \A p \in pids : quiet[p] # 2
AtRest    == pc = "idle" => todo = {} /\ pids = {}
CInv      == CpuTypeOK /\ Counters /\ Collected /\ EachAFraction
             /\ ReadOnce /\ ReadTwice /\ AtRest /\ QuietShowsNothing

-----------------------------------------------------------------------------
(* A share of a fraction is a fraction, or NaN.                            *)
LEMMA ShareIsWithin ==
  ASSUME NEW s \in Fraction, Within(s),
         NEW u \in Int, NEW t \in Int, 0 < u, u <= t
  PROVE  Within(<<s[1] * u, s[2] * t>>)
<1>1. s[1] \in Int /\ s[2] \in Int
  BY DEF Fraction
<1>2. CASE s[2] = 0
  <2>1. s[2] * t = 0
    BY <1>1, <1>2
  <2> QED BY <2>1 DEF Within, IsNaN
<1>3. CASE 0 <= s[1] /\ s[1] <= s[2]
  <2>1. \A x, y, z \in Int : 0 <= x /\ y <= z => x * y <= x * z
    OBVIOUS
  <2>2. 0 <= s[1] * u
    BY <1>1, <1>3
  <2>3. u * s[1] <= u * s[2] /\ s[2] * u <= s[2] * t
    BY <1>1, <1>3, <2>1
  <2>4. u * s[1] = s[1] * u /\ u * s[2] = s[2] * u
    BY <1>1
  <2>5. s[1] * u \in Int /\ s[2] * u \in Int /\ s[2] * t \in Int
    BY <1>1
  <2>6. s[1] * u <= s[2] * t
    BY <2>3, <2>4, <2>5
  <2> QED BY <2>2, <2>6 DEF Within
<1> QED BY <1>2, <1>3 DEF Within, IsNaN

LEMMA CInitially == CpuInit => CInv
<1> SUFFICES ASSUME CpuInit PROVE CInv
  OBVIOUS
<1> USE DEF CpuInit, Zero, Fraction
<1>1. CpuTypeOK
  BY DEF CpuTypeOK
<1>2. Counters /\ Collected /\ EachAFraction /\ ReadOnce /\ ReadTwice /\ AtRest /\ QuietShowsNothing
  BY DEF Counters, Collected, EachAFraction, Within, IsNaN, ReadOnce, ReadTwice, AtRest, QuietShowsNothing
<1> QED BY <1>1, <1>2 DEF CInv

-----------------------------------------------------------------------------
(* One step of the kernel: nothing that refresh() keeps is touched.        *)
LEMMA KernelStep == CInv /\ Kernel => CInv'
<1> SUFFICES ASSUME CInv, Kernel PROVE CInv'
  OBVIOUS
<1> USE DEF CInv, entries, locals, kernel
<1>1. CASE ChargeOther
  BY <1>1 DEF ChargeOther, CpuTypeOK, Counters, Collected, EachAFraction, ReadOnce, ReadTwice, AtRest,
              QuietShowsNothing
<1>2. CASE IdleTick
  BY <1>2 DEF IdleTick, CpuTypeOK, Counters, Collected, EachAFraction, ReadOnce, ReadTwice, AtRest,
              QuietShowsNothing
<1>3. ASSUME NEW p \in Pid, Charge(p) PROVE CInv'
  BY <1>3 DEF Charge, CpuTypeOK, Counters, Collected, EachAFraction, ReadOnce, ReadTwice, AtRest,
              QuietShowsNothing
<1>4. ASSUME NEW p \in Pid, End(p) PROVE CInv'
  BY <1>4 DEF End, CpuTypeOK, Counters, Collected, EachAFraction, ReadOnce, ReadTwice, AtRest,
              QuietShowsNothing
<1> QED BY <1>1, <1>2, <1>3, <1>4 DEF Kernel

(* Entries come and go between refreshes: a new one shows 0.               *)
LEMMA ListStep == ASSUME CInv, NEW p \in Pid, Insert(p) \/ Remove(p) PROVE CInv'
<1> USE DEF CInv, locals, kernel
<1>1. /\ pc = "idle" /\ pids = {} /\ todo = {}
      /\ last' = [last EXCEPT ![p] = 0] /\ percent' = [percent EXCEPT ![p] = Zero]
      /\ quiet' = [quiet EXCEPT ![p] = 0]
      /\ listed' \subseteq listed \cup {p}
      /\ UNCHANGED <<running, idle, time, byPid, system, pc, todo, sysusage, pids, usage, totaltime>>
  BY DEF Insert, Remove, AtRest
<1>2. Zero \in Fraction /\ Within(Zero)
  BY DEF Zero, Fraction, Within
<1>3. CpuTypeOK'
  BY <1>1, <1>2 DEF CpuTypeOK
<1>4. EachAFraction' /\ QuietShowsNothing' /\ ReadOnce'
  BY <1>1, <1>2 DEF CpuTypeOK, EachAFraction, QuietShowsNothing, ReadOnce
<1>5. Counters' /\ Collected' /\ ReadTwice' /\ AtRest'
  BY <1>1 DEF Counters, Collected, Within, IsNaN, ReadTwice, AtRest
<1> QED BY <1>3, <1>4, <1>5

(* The end of refresh(), whichever way.                                    *)
LEMMA LeaveStep == CInv /\ Leave => CInv'
<1> SUFFICES ASSUME CInv, Leave PROVE CInv'
  OBVIOUS
<1> USE DEF CInv, Leave, entries, kernel
<1>1. Zero \in Fraction /\ Within(Zero)
  BY DEF Zero, Fraction, Within
<1>2. CpuTypeOK'
  BY <1>1 DEF CpuTypeOK
<1>3. EachAFraction' /\ QuietShowsNothing' /\ ReadOnce' /\ Counters'
  BY DEF EachAFraction, Within, IsNaN, QuietShowsNothing, ReadOnce, Counters
<1>4. Collected' /\ ReadTwice' /\ AtRest'
  BY <1>1 DEF Collected, ReadTwice, AtRest
<1> QED BY <1>2, <1>3, <1>4

(* The counters have not gone back since they were read last, so that the  *)
(* usage lies between 0 and 1, or is 0 / 0.                                *)
LEMMA SystemStep == CInv /\ ReadSystem => CInv'
<1> SUFFICES ASSUME CInv, ReadSystem PROVE CInv'
  OBVIOUS
<1> USE DEF CInv
<1>1. /\ pc = "idle" /\ pc' \in {"walk", "end"} /\ todo' = listed /\ pids' = {}
      /\ sysusage' = Used
      /\ system' = [running |-> running, idle |-> idle,
                    cpu |-> IF system.running = 0 /\ system.idle = 0 THEN system.cpu ELSE Used]
      /\ UNCHANGED <<running, idle, time, byPid, listed, last, percent, pids, usage, totaltime, quiet>>
  BY DEF ReadSystem, kernel, entries, AtRest
<1>2. /\ running \in Nat /\ idle \in Nat /\ system.running \in Nat /\ system.idle \in Nat
      /\ system.running <= running /\ system.idle <= idle /\ system.cpu \in Fraction
  BY DEF CpuTypeOK, Counters
<1>3. Used \in Fraction /\ Within(Used)
  BY <1>2 DEF Used, Zero, Fraction, Within, IsNaN
<1>4. system' \in [running : Nat, idle : Nat, cpu : Fraction]
  BY <1>1, <1>2, <1>3
<1>5. CpuTypeOK'
  BY <1>1, <1>3, <1>4 DEF CpuTypeOK
<1>6. EachAFraction'
  BY <1>1, <1>2, <1>3 DEF EachAFraction, Within, IsNaN
<1>7. QuietShowsNothing' /\ ReadOnce' /\ ReadTwice' /\ AtRest'
  BY <1>1 DEF QuietShowsNothing, ReadOnce, ReadTwice, AtRest
<1>8. Counters' /\ Collected'
  BY <1>1, <1>2, <1>3 DEF Counters, Collected, Within, IsNaN
<1> QED BY <1>5, <1>6, <1>7, <1>8

(* One entry is read: its progress is positive and part of the total, and  *)
(* who was read before and not charged since has made none.                *)
LEMMA EntryStep == ASSUME CInv, NEW p \in Pid, ReadEntry(p) PROVE CInv'
<1> USE DEF CInv
<1>1. /\ pc = "walk" /\ p \in todo /\ todo' = todo \ {p}
      /\ last' = [last EXCEPT ![p] = time[p]]
      /\ quiet' = [quiet EXCEPT ![p] = IF @ = 2 THEN 2 ELSE @ + 1]
      /\ UNCHANGED <<running, idle, time, byPid, system, listed, pc, sysusage>>
  BY DEF ReadEntry, Read, kernel
<1>2. /\ p \in listed /\ p \notin pids
      /\ time[p] \in Nat /\ last[p] \in Nat /\ quiet[p] \in 0 .. 2
      /\ totaltime \in Int /\ totaltime >= 0 /\ Within(sysusage)
      /\ (quiet[p] # 0 => last[p] = time[p])
  BY <1>1 DEF CpuTypeOK, Collected, ReadOnce
<1>3. quiet'[p] \in 1 .. 2 /\ (quiet[p] = 0 => quiet'[p] = 1)
  BY <1>1, <1>2 DEF CpuTypeOK
<1>4. /\ Counters' /\ AtRest' /\ ReadOnce'
      /\ quiet' \in [Pid -> 0 .. 2] /\ last' \in [Pid -> Nat]
  BY <1>1, <1>2, <1>3 DEF Counters, AtRest, ReadOnce, CpuTypeOK
<1>5. CASE Advanced(p)
  <2>1. /\ pids' = pids \cup {p} /\ percent' = percent
        /\ usage' = [usage EXCEPT ![p] = time[p] - last[p]]
        /\ totaltime' = totaltime + (time[p] - last[p])
    BY <1>5 DEF ReadEntry
  <2>2. time[p] - last[p] > 0 /\ quiet'[p] = 1
    BY <1>2, <1>3, <1>5 DEF Advanced
  <2>3. CpuTypeOK'
    BY <1>1, <1>2, <1>4, <2>1 DEF CpuTypeOK
  <2>4. Collected'
    <3>1. totaltime' >= totaltime /\ totaltime' >= time[p] - last[p] /\ totaltime' >= 0
      BY <1>2, <2>1, <2>2
    <3>2. usage'[p] = time[p] - last[p]
      BY <1>2, <2>1 DEF CpuTypeOK
    <3>3. ASSUME NEW q \in pids' PROVE 0 < usage'[q] /\ usage'[q] <= totaltime'
      <4>1. CASE q = p
        BY <2>2, <3>1, <3>2, <4>1
      <4>2. CASE q # p
        <5>1. q \in pids /\ q \in Pid /\ usage'[q] = usage[q] /\ usage[q] \in Int
          BY <2>1, <4>2 DEF CpuTypeOK
        <5> QED BY <1>2, <2>1, <2>2, <3>1, <5>1 DEF Collected
      <4> QED BY <4>1, <4>2
    <3> QED BY <1>1, <1>2, <3>1, <3>3 DEF Collected, Within, IsNaN
  <2>5. ReadTwice' /\ QuietShowsNothing' /\ EachAFraction'
    BY <1>1, <1>2, <2>1, <2>2 DEF ReadTwice, QuietShowsNothing, EachAFraction, CpuTypeOK, Within, IsNaN
  <2> QED BY <1>4, <2>3, <2>4, <2>5
<1>6. CASE ~Advanced(p)
  <2>1. /\ percent' = [percent EXCEPT ![p] = Zero]
        /\ UNCHANGED <<pids, usage, totaltime>>
    BY <1>6 DEF ReadEntry
  <2>2. Zero \in Fraction /\ Within(Zero)
    BY DEF Zero, Fraction, Within
  <2>3. CpuTypeOK'
    BY <1>1, <1>4, <2>1, <2>2 DEF CpuTypeOK
  <2>4. Collected' /\ ReadTwice'
    BY <1>1, <1>2, <2>1 DEF Collected, ReadTwice, CpuTypeOK, Within, IsNaN
  <2>5. QuietShowsNothing' /\ EachAFraction'
    BY <1>1, <1>2, <2>1, <2>2 DEF QuietShowsNothing, EachAFraction, CpuTypeOK, Within, IsNaN
  <2> QED BY <1>4, <2>3, <2>4, <2>5
<1> QED BY <1>5, <1>6

(* What is shared out are fractions, and goes to who made progress.        *)
LEMMA ShareStep == CInv /\ ShareOut => CInv'
<1> SUFFICES ASSUME CInv, ShareOut PROVE CInv'
  OBVIOUS
<1> USE DEF CInv
<1>1. /\ pc' = "end"
      /\ percent' = [p \in Pid |-> IF Shares /\ p \in pids THEN Share(p) ELSE percent[p]]
      /\ UNCHANGED <<running, idle, time, byPid, system, listed, last, todo, sysusage, pids,
                     usage, totaltime, quiet>>
  BY DEF ShareOut, kernel, locals
<1>2. ASSUME NEW p \in pids PROVE Share(p) \in Fraction /\ Within(Share(p))
  <2>1. /\ sysusage \in Fraction /\ Within(sysusage) /\ usage[p] \in Int /\ totaltime \in Int
        /\ 0 < usage[p] /\ usage[p] <= totaltime
    BY DEF CpuTypeOK, Collected
  <2>2. Within(<<sysusage[1] * usage[p], sysusage[2] * totaltime>>)
    BY <2>1, ShareIsWithin
  <2> QED BY <2>1, <2>2 DEF Share, Fraction
<1>3. percent' \in [Pid -> Fraction]
  BY <1>1, <1>2 DEF CpuTypeOK
<1>4. ASSUME NEW p \in listed PROVE Within(percent'[p])
  BY <1>1, <1>2 DEF CpuTypeOK, EachAFraction
<1>5. CpuTypeOK'
  BY <1>1, <1>3 DEF CpuTypeOK
<1>6. EachAFraction'
  BY <1>1, <1>4 DEF EachAFraction, Within, IsNaN
<1>7. QuietShowsNothing'
  BY <1>1 DEF QuietShowsNothing, ReadTwice, CpuTypeOK
<1>8. Counters' /\ Collected' /\ ReadOnce' /\ ReadTwice' /\ AtRest'
  BY <1>1 DEF Counters, Collected, ReadOnce, ReadTwice, AtRest, Within, IsNaN
<1> QED BY <1>5, <1>6, <1>7, <1>8

-----------------------------------------------------------------------------
LEMMA CStep == CInv /\ [CpuNext]_cpuVars => CInv'
<1> SUFFICES ASSUME CInv, [CpuNext]_cpuVars PROVE CInv'
  OBVIOUS
<1>1. CASE Kernel
  BY <1>1, KernelStep
<1>2. CASE Refresh
  BY <1>2, SystemStep, EntryStep, ShareStep, LeaveStep DEF Refresh, ReadFails, EndRefresh
<1>3. ASSUME NEW p \in Pid, Insert(p) \/ Remove(p) PROVE CInv'
  BY <1>3, ListStep
<1>4. CASE UNCHANGED cpuVars
  BY <1>4 DEF cpuVars, kernel, entries, locals, CInv, CpuTypeOK, Counters, Collected,
              EachAFraction, ReadOnce, ReadTwice, AtRest, QuietShowsNothing, Within, IsNaN
<1> QED BY <1>1, <1>2, <1>3, <1>4 DEF CpuNext

(* The invariant that the theorems below are parts of.                     *)
LEMMA CInvariant == CpuSpec => []CInv
<1> QED BY CInitially, CStep, PTL DEF CpuSpec

(* refresh() and the list keep every variable in its type, and what is     *)
(* left of the walk within the list.                                       *)
THEOREM CpuTypeCorrect == CpuSpec => []CpuTypeOK
<1>1. CInv => CpuTypeOK
  BY DEF CInv
<1> QED BY <1>1, CInvariant, PTL

(* No usage is ever below 0 or above the whole machine: not after a failed *)
(* refresh, not for a pid that a younger process got, for any number of    *)
(* processes, ticks and refreshes.                                         *)
THEOREM UsageIsAFraction == CpuSpec => []EachAFraction
<1>1. CInv => EachAFraction
  BY DEF CInv
<1> QED BY <1>1, CInvariant, PTL

(* A process that two reads in a row found without progress shows 0.       *)
THEOREM QuietProcessShowsNothing == CpuSpec => []QuietShowsNothing
<1>1. CInv => QuietShowsNothing
  BY DEF CInv
<1> QED BY <1>1, CInvariant, PTL

-----------------------------------------------------------------------------
(* How far PercentIsOfLastCheck, which the code does not keep, fails.      *)

(* No usage between two reads of /proc/stat, and not NaN: line 119 leaves  *)
(* the percentages alone.                                                  *)
SystemWasIdle == sysusage[1] = 0 /\ sysusage[2] # 0

(* What an entry shows after a refresh is 0, comes out of that refresh, or *)
(* is left over since the system was idle before the refresh and the       *)
(* process got on only during its walk.                                    *)
StaleOnlyWhenIdle ==
  pc = "end" /\ byPid =>
    \A p \in listed : \/ percent[p] = Zero \/ OfThisRefresh(p)
                      \/ p \in pids /\ SystemWasIdle

(* It comes from what the walk leaves behind at every entry.               *)
WalkedShowZero == pc # "idle" /\ byPid => \A p \in (listed \ todo) \ pids : percent[p] = Zero
Shared == pc = "end" /\ byPid => todo = {} /\ \A p \in pids : Shares => percent[p] = Share(p)
SInv   == WalkedShowZero /\ Shared

LEMMA SharesStep == CInv /\ SInv /\ [CpuNext]_cpuVars => SInv'
<1> SUFFICES ASSUME CInv, SInv, [CpuNext]_cpuVars PROVE SInv'
  OBVIOUS
<1> USE DEF SInv, WalkedShowZero, Shared, Shares, Share, IsNaN
<1>1. CASE Kernel \/ UNCHANGED cpuVars
  <2>1. UNCHANGED <<byPid, entries, pc, locals>>
    BY <1>1 DEF Kernel, Charge, ChargeOther, IdleTick, End, cpuVars
  <2> QED BY <2>1 DEF entries, locals
<1>2. ASSUME NEW p \in Pid, Insert(p) \/ Remove(p) PROVE SInv'
  BY <1>2 DEF Insert, Remove
<1>3. CASE Leave
  BY <1>3 DEF Leave
<1>4. CASE ReadSystem
  <2>1. pc' = (IF byPid THEN "walk" ELSE "end") /\ todo' = listed /\ UNCHANGED <<byPid, listed>>
    BY <1>4 DEF ReadSystem, entries
  <2> QED BY <2>1
<1>5. ASSUME NEW p \in Pid, ReadEntry(p) PROVE SInv'
  <2>1. pc = "walk" /\ pc' = "walk" /\ todo' = todo \ {p} /\ UNCHANGED <<byPid, listed>>
    BY <1>5 DEF ReadEntry, Read
  <2>2. CASE Advanced(p)
    BY <1>5, <2>1, <2>2 DEF ReadEntry
  <2>3. CASE ~Advanced(p)
    <3>1. percent' = [percent EXCEPT ![p] = Zero] /\ pids' = pids /\ percent \in [Pid -> Fraction]
      BY <1>5, <2>3 DEF ReadEntry, CInv, CpuTypeOK
    <3> QED BY <2>1, <3>1
  <2> QED BY <2>2, <2>3
<1>6. CASE ShareOut
  <2>1. /\ pc = "walk" /\ todo = {} /\ pc' = "end"
        /\ percent' = [p \in Pid |-> IF Shares /\ p \in pids THEN Share(p) ELSE percent[p]]
        /\ UNCHANGED <<byPid, listed, todo, pids, sysusage, usage, totaltime>>
    BY <1>6 DEF ShareOut, locals
  <2>2. listed \subseteq Pid /\ pids \subseteq Pid
    BY DEF CInv, CpuTypeOK
  <2> QED BY <2>1, <2>2
<1> QED BY <1>1, <1>2, <1>3, <1>4, <1>5, <1>6 DEF CpuNext, Refresh, ReadFails, EndRefresh

LEMMA SInvariant == CpuSpec => []SInv
<1>1. CpuInit => SInv
  BY DEF CpuInit, SInv, WalkedShowZero, Shared
<1> QED BY <1>1, SharesStep, CInvariant, PTL DEF CpuSpec

(* An entry that made progress gave the walk a total above 0, so that only *)
(* an idle system keeps it from its share: the stale percentages of the    *)
(* run cpu_stale come about in this one way.                               *)
THEOREM StalePercentHasOneCause == CpuSpec => []StaleOnlyWhenIdle
<1>1. CInv /\ SInv => StaleOnlyWhenIdle
  <2> SUFFICES ASSUME CInv, SInv, pc = "end", byPid, NEW p \in listed,
                      percent[p] # Zero
               PROVE  OfThisRefresh(p) \/ (p \in pids /\ SystemWasIdle)
    BY DEF StaleOnlyWhenIdle
  <2>1. p \in pids
    BY DEF SInv, WalkedShowZero, Shared
  <2>2. totaltime # 0
    <3>1. usage[p] \in Int /\ totaltime \in Int /\ 0 < usage[p] /\ usage[p] <= totaltime
      BY <2>1 DEF CInv, CpuTypeOK, Collected
    <3> QED BY <3>1
  <2>3. CASE Shares
    BY <2>1, <2>3 DEF SInv, Shared, OfThisRefresh
  <2>4. CASE ~Shares
    BY <2>1, <2>2, <2>4 DEF Shares, IsNaN, SystemWasIdle
  <2> QED BY <2>3, <2>4
<1> QED BY <1>1, SInvariant, CInvariant, PTL

-----------------------------------------------------------------------------
(* That the percentages of a refresh add up (SharesAddUp), by an induction *)
(* over the sets that the fold Total(S) walks. The library's induction     *)
(* theorems need an operator for the hypothesis; a least counterexample,   *)
(* which the theorems on finite subsets provide, does without.             *)

(* The fold behind Total(S).                                               *)

(* The value at T of a function on sets of processes, given those of its   *)
(* subsets.                                                                *)
First(T)   == CHOOSE p \in T : TRUE
Body(g, T) == IF T = {} THEN Zero ELSE Plus(percent[First(T)], g[T \ {First(T)}])

(* A set of natural numbers with 0 and every successor is all of them.     *)
LEMMA Successors ==
  ASSUME NEW D \in SUBSET Nat, 0 \in D, \A n \in D : n + 1 \in D
  PROVE  D = Nat
<1> SUFFICES ASSUME Nat \ D # {} PROVE FALSE
  OBVIOUS
<1> DEFINE R == StrictSubsetOrdering(Nat)
           F == FiniteSubsetsOf(Nat)
           B == {0 .. m : m \in Nat \ D}
<1>1. IsWellFoundedOn(R, F)
  BY FS_StrictSubsetOrderingWellFounded
<1>2. B \subseteq F
  <2>1. \A m \in Nat : 0 .. m \in SUBSET Nat /\ IsFiniteSet(0 .. m)
    BY FS_Interval
  <2> QED BY <2>1 DEF FiniteSubsetsOf
<1>3. B # {}
  OBVIOUS
<1>4. PICK b \in B : \A c \in B : ~(<<c, b>> \in R)
  <2> HIDE DEF R, F, B
  <2> QED BY <1>1, <1>2, <1>3, WFMin
<1>5. PICK n \in Nat \ D : b = 0 .. n
  OBVIOUS
<1>6. n # 0 /\ n - 1 \in Nat
  BY <1>5
<1>7. n - 1 \in Nat \ D
  <2>1. CASE n - 1 \in D
    BY <1>5, <1>6, <2>1
  <2> QED BY <1>6, <2>1
<1>8. 0 .. (n - 1) \in B
  BY <1>7
<1>9. <<0 .. (n - 1), 0 .. n>> \in R
  <2>1. 0 .. (n - 1) \in SUBSET Nat /\ 0 .. n \in SUBSET Nat
    BY <1>6
  <2>2. 0 .. (n - 1) \subseteq 0 .. n
    BY <1>6
  <2>3. n \in 0 .. n /\ n \notin 0 .. (n - 1)
    BY <1>6
  <2> QED BY <2>1, <2>2, <2>3 DEF StrictSubsetOrdering
<1> QED BY <1>4, <1>5, <1>8, <1>9

(* One element less, and one less of them.                                 *)
LEMMA TakeOne ==
  ASSUME NEW S, IsFiniteSet(S), NEW T \in SUBSET S, T # {}
  PROVE  /\ First(T) \in T /\ T \ {First(T)} \in SUBSET S
         /\ Cardinality(T) \in Nat /\ Cardinality(T \ {First(T)}) \in Nat
         /\ Cardinality(T \ {First(T)}) = Cardinality(T) - 1
<1>1. First(T) \in T
  BY Zenon DEF First
<1>2. IsFiniteSet(T) /\ Cardinality(T) \in Nat
  BY FS_Subset, FS_CardinalityType
<1>3. IsFiniteSet(T \ {First(T)}) /\ Cardinality(T \ {First(T)}) = Cardinality(T) - 1
  BY <1>1, <1>2, FS_RemoveElement
<1>4. Cardinality(T \ {First(T)}) \in Nat
  BY <1>3, FS_CardinalityType
<1> QED BY <1>1, <1>2, <1>3, <1>4

(* The recursive definition of the fold over a finite set has a solution:  *)
(* one for the sets of at most n elements is extended to n + 1.            *)
LEMMA FoldExists ==
  ASSUME NEW S, IsFiniteSet(S)
  PROVE  \E g : g = [T \in SUBSET S |-> Body(g, T)]
<1> DEFINE Small(n) == {T \in SUBSET S : Cardinality(T) <= n}
           Done     == {n \in Nat : \E g : g = [T \in Small(n) |-> Body(g, T)]}
<1>1. 0 \in Done
  <2>1. ASSUME NEW T \in Small(0) PROVE T = {}
    <3>1. IsFiniteSet(T) /\ Cardinality(T) \in Nat
      BY FS_Subset, FS_CardinalityType
    <3> QED BY <3>1, FS_EmptySet
  <2> DEFINE z == [T \in Small(0) |-> Zero]
  <2>2. z = [T \in Small(0) |-> Body(z, T)]
    BY <2>1 DEF Body
  <2> QED BY <2>2
<1>2. ASSUME NEW n \in Done PROVE n + 1 \in Done
  <2>1. PICK g : g = [T \in Small(n) |-> Body(g, T)]
    OBVIOUS
  <2> DEFINE h == [T \in Small(n + 1) |-> Body(g, T)]
  <2>2. ASSUME NEW T \in Small(n + 1) PROVE Body(g, T) = Body(h, T)
    <3>1. CASE T = {}
      BY <3>1 DEF Body
    <3>2. CASE T # {}
      <4> DEFINE R == T \ {First(T)}
      <4>1. R \in SUBSET S /\ Cardinality(R) <= n /\ Cardinality(R) <= n + 1
        BY <3>2, TakeOne
      <4>2. R \in Small(n) /\ R \in Small(n + 1)
        BY <4>1
      <4> HIDE DEF R
      <4>3. h[R] = g[R]
        BY <2>1, <4>2
      <4> QED BY <3>2, <4>3 DEF Body, R
    <3> QED BY <3>1, <3>2
  <2>3. h = [T \in Small(n + 1) |-> Body(h, T)]
    <3>1. h = [T \in Small(n + 1) |-> Body(g, T)]
      OBVIOUS
    <3> HIDE DEF h
    <3> QED BY <2>2, <3>1
  <2>4. n + 1 \in Nat /\ \E f : f = [T \in Small(n + 1) |-> Body(f, T)]
    <3> HIDE DEF h, Small
    <3> QED BY <2>3
  <2> QED BY <2>4
<1>3. Cardinality(S) \in Done
  <2>1. Done \in SUBSET Nat
    OBVIOUS
  <2> HIDE DEF Done
  <2>2. Done = Nat
    BY <1>1, <1>2, <2>1, Successors
  <2> QED BY <2>2, FS_CardinalityType
<1>4. Small(Cardinality(S)) = SUBSET S
  BY FS_Subset
<1> HIDE DEF Small
<1> QED BY <1>3, <1>4

(* Total(S) is the value at S of a function that obeys the definition of   *)
(* the fold at every subset.                                               *)
LEMMA TotalIsFold ==
  ASSUME NEW S, IsFiniteSet(S)
  PROVE  \E g : Total(S) = g[S] /\ g = [T \in SUBSET S |-> Body(g, T)]
<1>1. PICK f : f = [T \in SUBSET S |-> Body(f, T)]
  BY FoldExists
<1> DEFINE G == CHOOSE g : g = [T \in SUBSET S |-> Body(g, T)]
<1>2. G = [T \in SUBSET S |-> Body(G, T)]
  BY <1>1, Zenon
<1>3. Total(S) = G[S]
  BY Zenon DEF Total, MapThenFoldSet, Body, First
<1> QED BY <1>2, <1>3, Zenon

-----------------------------------------------------------------------------
(* The sum of shares of one whole.                                         *)

(* One step of the sum: a/b = s*c/d, and s*u/d is added.                   *)
LEMMA AddShare ==
  ASSUME NEW a \in Int, NEW b \in Int, NEW s \in Int, NEW c \in Int, NEW d \in Int, NEW u \in Int,
         b # 0, d # 0, a * d = b * (s * c)
  PROVE  /\ d * b # 0
         /\ ((s * u) * b + a * d) * d = (d * b) * (s * (c + u))
<1>1. d * b # 0
  OBVIOUS
<1>2. ((s * u) * b + a * d) * d = ((s * u) * b + b * (s * c)) * d
  OBVIOUS
<1>3. ((s * u) * b + b * (s * c)) * d = (d * b) * (s * (c + u))
  OBVIOUS
<1> QED BY <1>1, <1>2, <1>3

LEMMA CancelTotal ==
  ASSUME NEW a \in Int, NEW b \in Int, NEW x \in Int, NEW y \in Int, NEW t \in Int,
         t # 0, a * (y * t) = b * (x * t)
  PROVE  a * y = x * b
<1>1. t * (a * y) = t * (x * b)
  OBVIOUS
<1>2. \A m, n \in Int : t * m = t * n => m = n
  OBVIOUS
<1> QED BY <1>1, <1>2

(* c[T] is what the u[p] of the subset T of S come to.                     *)
Sums(S, u, c) ==
  /\ \A p \in S : u[p] \in Nat
  /\ \A T \in SUBSET S : c[T] \in Nat
  /\ c[{}] = 0
  /\ \A T \in SUBSET S : \A p \in T : c[T] = c[T \ {p}] + u[p]

(* Entries show their share s * u[p] / d, or 0 for no share.               *)
ShowShares(S, s, d, u) ==
  \A p \in S : percent[p] = <<s * u[p], d>> \/ (percent[p] = Zero /\ u[p] = 0)

(* They add up to s * c[S] / d.                                            *)
TotalIs(S, n, d) ==
  /\ Total(S)[1] \in Int /\ Total(S)[2] \in Int
  /\ Total(S)[2] # 0 /\ Total(S)[1] * d = Total(S)[2] * n

LEMMA TotalOfShares ==
  ASSUME NEW S, IsFiniteSet(S), NEW s \in Int, NEW d \in Int, d # 0,
         NEW u, NEW c, Sums(S, u, c), ShowShares(S, s, d, u)
  PROVE  TotalIs(S, s * c[S], d)
<1> USE DEF Sums, ShowShares
<1>1. PICK g : Total(S) = g[S] /\ g = [T \in SUBSET S |-> Body(g, T)]
  BY TotalIsFold
<1> DEFINE Right(T) == /\ g[T][1] \in Int /\ g[T][2] \in Int
                       /\ g[T][2] # 0 /\ g[T][1] * d = g[T][2] * (s * c[T])
           Done     == {n \in Nat : \A T \in SUBSET S : Cardinality(T) = n => Right(T)}
<1>2. \A T \in SUBSET S : g[T] = Body(g, T)
  BY <1>1
<1>3. 0 \in Done
  <2> SUFFICES ASSUME NEW T \in SUBSET S, Cardinality(T) = 0 PROVE Right(T)
    OBVIOUS
  <2>1. T = {}
    BY FS_Subset, FS_EmptySet
  <2>2. g[T] = <<0, 1>>
    BY <1>2, <2>1 DEF Body, Zero
  <2>3. c[T] = 0 /\ 0 * d = 1 * (s * 0)
    BY <2>1
  <2> QED BY <2>2, <2>3
<1>4. ASSUME NEW n \in Done PROVE n + 1 \in Done
  <2> SUFFICES ASSUME NEW T \in SUBSET S, Cardinality(T) = n + 1 PROVE Right(T)
    OBVIOUS
  <2> DEFINE p == First(T)
             Q == T \ {First(T)}
  <2>1. T # {}
    <3>1. n + 1 # 0
      OBVIOUS
    <3> HIDE DEF Done
    <3> QED BY <3>1, FS_EmptySet
  <2>2. p \in T /\ Q \in SUBSET S /\ Cardinality(Q) = n
    BY <2>1, TakeOne
  <2>3. Right(Q)
    BY <2>2
  <2>4. g[T] = Plus(percent[p], g[Q])
    BY <1>2, <2>1 DEF Body
  <2>5. c[T] = c[Q] + u[p] /\ c[Q] \in Nat /\ u[p] \in Nat
    BY <2>2
  <2> HIDE DEF p, Q
  <2>6. CASE percent[p] = <<s * u[p], d>>
    <3>1. g[T] = <<(s * u[p]) * g[Q][2] + g[Q][1] * d, d * g[Q][2]>>
      BY <2>4, <2>6 DEF Plus
    <3>2. /\ d * g[Q][2] # 0
          /\ ((s * u[p]) * g[Q][2] + g[Q][1] * d) * d = (d * g[Q][2]) * (s * (c[Q] + u[p]))
      BY <2>3, <2>5, AddShare
    <3>3. (s * u[p]) * g[Q][2] + g[Q][1] * d \in Int /\ d * g[Q][2] \in Int
      BY <2>3, <2>5
    <3>4. g[T][1] = (s * u[p]) * g[Q][2] + g[Q][1] * d /\ g[T][2] = d * g[Q][2]
      BY <3>1
    <3> QED BY <2>5, <3>2, <3>3, <3>4
  <2>7. CASE percent[p] = Zero /\ u[p] = 0
    <3>1. g[T] = <<0 * g[Q][2] + g[Q][1] * 1, 1 * g[Q][2]>>
      BY <2>4, <2>7 DEF Plus, Zero
    <3>2. g[T][1] = g[Q][1] /\ g[T][2] = g[Q][2]
      BY <2>3, <3>1
    <3> QED BY <2>3, <2>5, <2>7, <3>2
  <2> QED BY <2>2, <2>6, <2>7
<1>5. Done = Nat
  <2>1. Done \in SUBSET Nat
    OBVIOUS
  <2> HIDE DEF Done
  <2> QED BY <1>3, <1>4, <2>1, Successors
<1>6. Right(S)
  BY <1>5, FS_CardinalityType
<1> QED BY <1>1, <1>6 DEF TotalIs

-----------------------------------------------------------------------------
(* What the walk has collected.                                            *)

(* The units of time that the processes of T have used, each by itself.    *)
Units(T, u) == {w \in T \X Nat : 1 <= w[2] /\ w[2] <= u[w[1]]}

LEMMA UnitsOfOneMore ==
  ASSUME NEW T, NEW u, NEW p, p \notin T, u[p] \in Nat, IsFiniteSet(Units(T, u))
  PROVE  /\ IsFiniteSet(Units(T \cup {p}, u))
         /\ Cardinality(Units(T \cup {p}, u)) = Cardinality(Units(T, u)) + u[p]
<1> DEFINE P == {p} \X (1 .. u[p])
           V == Units(T, u)
<1>1. Units(T \cup {p}, u) = V \cup P
  BY DEF Units
<1>2. V \cap P = {}
  BY DEF Units
<1>3. IsFiniteSet(P) /\ Cardinality(P) = u[p]
  <2>1. IsFiniteSet({p}) /\ Cardinality({p}) = 1
    BY FS_Singleton
  <2>2. IsFiniteSet(1 .. u[p]) /\ Cardinality(1 .. u[p]) = u[p]
    BY FS_Interval
  <2>3. IsFiniteSet(P) /\ Cardinality(P) = 1 * u[p]
    BY <2>1, <2>2, FS_Product
  <2> QED BY <2>3
<1> HIDE DEF P, V
<1>4. IsFiniteSet(V \cup P) /\ Cardinality(V \cup P) = Cardinality(V) + Cardinality(P) - Cardinality({})
  BY <1>2, <1>3, FS_Union DEF V
<1>5. Cardinality({}) = 0 /\ Cardinality(V) \in Nat
  BY FS_EmptySet, FS_CardinalityType DEF V
<1>6. Cardinality(V \cup P) = Cardinality(V) + u[p]
  BY <1>3, <1>4, <1>5
<1> QED BY <1>1, <1>4, <1>6 DEF V

(* The total is what the collected entries used, and the usage that is     *)
(* shared out is the one that the system shows.                            *)
Counted  == IsFiniteSet(Units(pids, usage)) /\ totaltime = Cardinality(Units(pids, usage))
OneUsage == system.running >= 1 /\ (pc # "idle" => sysusage = system.cpu)
UInv     == Counted /\ OneUsage

LEMMA NothingCounted ==
  ASSUME NEW u PROVE IsFiniteSet(Units({}, u)) /\ Cardinality(Units({}, u)) = 0
<1>1. Units({}, u) = {}
  BY DEF Units
<1> QED BY <1>1, FS_EmptySet

LEMMA CountedStep == CInv /\ UInv /\ [CpuNext]_cpuVars => UInv'
<1> SUFFICES ASSUME CInv, UInv, [CpuNext]_cpuVars PROVE UInv'
  OBVIOUS
<1> USE DEF UInv
<1>1. CASE UNCHANGED <<byPid, system, pc, locals>>
  BY <1>1 DEF Counted, OneUsage, Units, locals
<1>2. CASE Kernel \/ UNCHANGED cpuVars
  <2>1. UNCHANGED <<byPid, system, pc, locals>>
    BY <1>2 DEF Kernel, Charge, ChargeOther, IdleTick, End, cpuVars
  <2> QED BY <1>1, <2>1
<1>3. ASSUME NEW p \in Pid, Insert(p) \/ Remove(p) PROVE UInv'
  BY <1>1, <1>3 DEF Insert, Remove
<1>4. CASE Leave
  <2>1. Counted'
    BY <1>4, NothingCounted DEF Leave, Counted
  <2> QED BY <1>4, <2>1 DEF Leave, OneUsage
<1>5. CASE ReadSystem
  <2>1. Counted'
    BY <1>5 DEF ReadSystem, Counted, Units
  <2>2. system.running \in Nat /\ running \in Nat /\ system.running <= running
    BY DEF CInv, CpuTypeOK, Counters
  <2>3. system.running >= 1
    BY DEF OneUsage
  <2>4. sysusage' = Used /\ system' = [running |-> running, idle |-> idle, cpu |-> Used]
    BY <1>5, <2>2, <2>3 DEF ReadSystem
  <2> QED BY <2>1, <2>2, <2>3, <2>4 DEF OneUsage
<1>6. ASSUME NEW p \in Pid, ReadEntry(p) PROVE UInv'
  <2>1. /\ pc = "walk" /\ pc' = "walk" /\ p \in todo /\ UNCHANGED <<system, sysusage>>
    BY <1>6 DEF ReadEntry, Read
  <2>2. OneUsage'
    BY <2>1 DEF OneUsage
  <2>3. CASE ~Advanced(p)
    BY <1>6, <2>2, <2>3 DEF ReadEntry, Counted, Units
  <2>4. CASE Advanced(p)
    <3> DEFINE t == time[p] - last[p]
               u == [usage EXCEPT ![p] = t]
    <3>1. pids' = pids \cup {p} /\ usage' = u /\ totaltime' = totaltime + t
      BY <1>6, <2>4 DEF ReadEntry
    <3>2. t \in Nat /\ p \notin pids /\ pids \subseteq Pid /\ usage \in [Pid -> Int]
      BY <2>1, <2>4 DEF CInv, CpuTypeOK, Advanced
    <3>3. u[p] = t /\ \A q \in pids : u[q] = usage[q]
      BY <3>2
    <3> HIDE DEF t, u
    <3>4. Units(pids, u) = Units(pids, usage)
      BY <3>3 DEF Units
    <3>5. /\ IsFiniteSet(Units(pids \cup {p}, u))
          /\ Cardinality(Units(pids \cup {p}, u)) = Cardinality(Units(pids, u)) + u[p]
      <4>1. u[p] \in Nat /\ IsFiniteSet(Units(pids, u))
        BY <3>2, <3>3, <3>4 DEF Counted
      <4> QED BY <3>2, <4>1, UnitsOfOneMore
    <3>6. Counted'
      BY <3>1, <3>3, <3>4, <3>5 DEF Counted
    <3> QED BY <2>2, <3>6
  <2> QED BY <2>3, <2>4
<1>7. CASE ShareOut
  BY <1>7 DEF ShareOut, locals, Counted, OneUsage, Units
<1> QED BY <1>2, <1>3, <1>4, <1>5, <1>6, <1>7 DEF CpuNext, Refresh, ReadFails, EndRefresh

LEMMA UInvariant == CpuSpec => []UInv
<1>1. CpuInit => UInv
  <2> SUFFICES ASSUME CpuInit PROVE UInv
    OBVIOUS
  <2>1. Counted
    BY NothingCounted DEF CpuInit, Counted
  <2>2. OneUsage
    BY DEF CpuInit, OneUsage
  <2> QED BY <2>1, <2>2 DEF UInv
<1> QED BY <1>1, CountedStep, CInvariant, PTL DEF CpuSpec

(* The units of a set are finitely many, and one process's share of them   *)
(* is what it used.                                                        *)
LEMMA UnitsAddUp ==
  ASSUME CInv, UInv, NEW T \in SUBSET listed
  PROVE  /\ Cardinality(Units(T \cap pids, usage)) \in Nat
         /\ \A p \in T : Cardinality(Units(T \cap pids, usage)) =
                           Cardinality(Units((T \ {p}) \cap pids, usage))
                           + (IF p \in pids THEN usage[p] ELSE 0)
<1>1. ASSUME NEW V \in SUBSET pids
      PROVE  IsFiniteSet(Units(V, usage)) /\ Cardinality(Units(V, usage)) \in Nat
  <2>1. Units(V, usage) \in SUBSET Units(pids, usage)
    BY DEF Units
  <2>2. IsFiniteSet(Units(V, usage))
    BY <2>1, FS_Subset DEF UInv, Counted
  <2> QED BY <2>2, FS_CardinalityType
<1>2. ASSUME NEW p \in T
      PROVE  Cardinality(Units(T \cap pids, usage)) =
               Cardinality(Units((T \ {p}) \cap pids, usage)) + (IF p \in pids THEN usage[p] ELSE 0)
  <2> DEFINE V == (T \ {p}) \cap pids
  <2>1. CASE p \in pids
    <3>1. V \cup {p} = T \cap pids /\ p \notin V /\ V \in SUBSET pids
      BY <2>1
    <3>2. usage[p] \in Nat
      BY <2>1 DEF CInv, CpuTypeOK, Collected
    <3> HIDE DEF V
    <3>3. Cardinality(Units(V \cup {p}, usage)) = Cardinality(Units(V, usage)) + usage[p]
      BY <1>1, <3>1, <3>2, UnitsOfOneMore
    <3> QED BY <2>1, <3>1, <3>3 DEF V
  <2>2. CASE p \notin pids
    <3>1. (T \ {p}) \cap pids = T \cap pids /\ T \cap pids \in SUBSET pids
      BY <2>2
    <3>2. Cardinality(Units(T \cap pids, usage)) \in Nat
      BY <1>1, <3>1
    <3> HIDE DEF V
    <3> QED BY <2>2, <3>1, <3>2
  <2> QED BY <2>1, <2>2
<1> QED BY <1>1, <1>2

(* The percentages that a refresh leaves behind add up to the usage of the *)
(* system, however many entries there are and whatever the clock, the      *)
(* processes and the list did before and during its walk; if no process    *)
(* got on they are all 0.                                                  *)
THEOREM PercentagesAddUp == CpuSpec => []SharesAddUp
<1>1. CInv /\ SInv /\ UInv => SharesAddUp
  <2> SUFFICES ASSUME CInv, SInv, UInv, pc = "end", byPid, ~IsNaN(system.cpu), system.cpu[1] # 0
               PROVE  Same(Total(listed), IF totaltime = 0 THEN Zero ELSE system.cpu)
    BY DEF SharesAddUp
  <2> DEFINE u == [p \in listed |-> IF p \in pids THEN usage[p] ELSE 0]
             c == [T \in SUBSET listed |-> Cardinality(Units(T \cap pids, usage))]
  <2>1. /\ IsFiniteSet(listed) /\ pids \in SUBSET listed /\ sysusage = system.cpu
        /\ sysusage[1] \in Int /\ sysusage[2] \in Int /\ sysusage[2] # 0
        /\ totaltime \in Int
    <3>1. IsFiniteSet(listed)
      BY PidAssumption, FS_Subset DEF CInv, CpuTypeOK
    <3> QED BY <3>1 DEF CInv, CpuTypeOK, Fraction, UInv, OneUsage, IsNaN
  <2>2. Sums(listed, u, c)
    <3>1. \A p \in listed : u[p] \in Nat
      BY DEF CInv, CpuTypeOK, Collected
    <3>2. /\ \A T \in SUBSET listed : c[T] \in Nat
          /\ \A T \in SUBSET listed : \A p \in T : c[T] = c[T \ {p}] + u[p]
      BY UnitsAddUp
    <3>3. c[{}] = 0
      BY NothingCounted
    <3> HIDE DEF u, c
    <3> QED BY <3>1, <3>2, <3>3 DEF Sums
  <2>5. c[listed] = totaltime
    <3>1. listed \cap pids = pids
      BY <2>1
    <3> QED BY <3>1 DEF UInv, Counted
  <2>6. \A p \in listed : p \notin pids => percent[p] = Zero
    BY DEF SInv, WalkedShowZero, Shared
  <2>7. CASE totaltime = 0
    <3>1. pids = {}
      BY <2>7 DEF CInv, CpuTypeOK, Collected
    <3>2. ShowShares(listed, 0, 1, u)
      BY <2>6, <3>1 DEF ShowShares
    <3> HIDE DEF u, c
    <3>3. TotalIs(listed, 0 * c[listed], 1)
      BY <2>1, <2>2, <3>2, TotalOfShares
    <3>4. c[listed] \in Int
      BY <2>1, <2>5
    <3> QED BY <2>7, <3>3, <3>4 DEF TotalIs, Same, IsNaN, Zero
  <2>8. CASE totaltime # 0
    <3> DEFINE d == sysusage[2] * totaltime
    <3>1. d \in Int /\ d # 0
      BY <2>1, <2>8
    <3>2. Shares
      BY <2>1, <2>8 DEF Shares
    <3>3. ShowShares(listed, sysusage[1], d, u)
      BY <2>6, <3>2 DEF SInv, Shared, Share, ShowShares
    <3> HIDE DEF u, c, d
    <3>4. TotalIs(listed, sysusage[1] * c[listed], d)
      BY <2>1, <2>2, <3>1, <3>3, TotalOfShares
    <3>5. Total(listed)[1] * sysusage[2] = sysusage[1] * Total(listed)[2]
      <4>1. Total(listed)[1] * (sysusage[2] * totaltime) = Total(listed)[2] * (sysusage[1] * totaltime)
        BY <2>5, <3>4 DEF TotalIs, d
      <4>2. Total(listed)[1] \in Int /\ Total(listed)[2] \in Int
        BY <3>4 DEF TotalIs
      <4>3. PICK a, b, x, y \in Int : /\ a = Total(listed)[1] /\ b = Total(listed)[2]
                                     /\ x = sysusage[1] /\ y = sysusage[2]
        BY <2>1, <4>2
      <4>4. a * (y * totaltime) = b * (x * totaltime)
        BY <4>1, <4>3
      <4>5. a * y = x * b
        BY <2>1, <2>8, <4>4, CancelTotal
      <4> QED BY <4>3, <4>5
    <3> QED BY <2>1, <2>8, <3>4, <3>5 DEF TotalIs, Same, IsNaN
  <2> QED BY <2>7, <2>8
<1> QED BY <1>1, CInvariant, SInvariant, UInvariant, PTL

=============================================================================
