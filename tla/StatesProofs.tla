---------------------------- MODULE StatesProofs ----------------------------
(***************************************************************************)
(* Theorems about AgentStates, for any letters, any configuration and any  *)
(* number of states.                                                       *)
(***************************************************************************)
EXTENDS AgentStates, TLAPS

(* A computation is at one of the states of the agent, or has its result.  *)
Eval     == [at : 0 .. Len(states) + 1, found : Shown, read : Known \cup {"no", "set", "lost"}]
Sound(e) == e \in Eval /\ (e.found = "none" => e.at <= Len(states))

(* The refresh reads and computes nothing; what a thread has noted stays   *)
(* noted while the process is held; before start() there is nothing.       *)
OnlyReads(e) == e.at = 0 /\ e.found = "none" /\ e.read \in Known \cup {"no"}
Noted        == \A t \in Thread : eval[t].read = "set" => cached # "unread"
Unstarted    == ~started => ~held /\ \A t \in Thread : eval[t].read = "no"
EInv         == StatesTypeOK /\ OnlyReads(eval["refresh"]) /\ Noted /\ Unstarted

-----------------------------------------------------------------------------
(* A name of the table stands for a state.                                 *)
LEMMA FactoryGivesCode == ASSUME NEW w \in Named PROVE StateFactory(w) \in Code
<1>1. \E c \in Code : w \in StateNames[c]
  BY DEF Named
<1> QED BY <1>1 DEF StateFactory

LEMMA TestOfIsTest == ASSUME NEW w \in Wanted PROVE TestOf(w) \in Test
<1>1. CASE w \in {"available", "not-available"}
  BY <1>1 DEF TestOf, Test
<1>2. CASE w \notin {"available", "not-available"}
  <2>1. w \in Named
    BY <1>2, WantedAssumption
  <2>2. StateFactory(w) \in Code
    BY <2>1, FactoryGivesCode
  <2> QED BY <1>2, <2>2 DEF TestOf, Test
<1> QED BY <1>1, <1>2

(* Where computeState() begins and goes on.                                *)
LEMMA StatesLength ==
  ASSUME EInv
  PROVE  Len(states) \in Nat /\ (states # <<>> => Len(states) >= 1) /\ DOMAIN states = 1 .. Len(states)
<1> QED BY DEF EInv, StatesTypeOK

LEMMA EvalsAreSound == ASSUME EInv, NEW t \in Thread PROVE Sound(eval[t])
<1> QED BY DEF EInv, StatesTypeOK, Sound, Eval

LEMMA RestIsSound == ASSUME Len(states) \in Nat PROVE Sound(Rest) /\ OnlyReads(Rest)
<1> QED BY DEF Sound, Eval, Rest, Shown, OnlyReads

LEMMA BeginIsSound == ASSUME EInv PROVE Sound(Begin)
<1> QED BY StatesLength DEF Begin, Sound, Eval, Shown

LEMMA AfterIsSound ==
  ASSUME EInv, NEW i \in 1 .. Len(states), NEW b \in BOOLEAN
  PROVE  Sound(After(i, b)) /\ states[i] \in Test
<1>1. Len(states) \in Nat /\ states[i] \in Test
  BY DEF EInv, StatesTypeOK
<1>2. states[i] \in Shown /\ states[i] # "none"
  BY <1>1 DEF Shown, Test, Code
<1>3. CASE b
  BY <1>1, <1>2, <1>3 DEF After, Sound, Eval
<1>4. CASE ~b
  BY <1>1, <1>4 DEF After, Sound, Eval, Shown
<1> QED BY <1>1, <1>3, <1>4

LEMMA StatOfLetter == ASSUME NEW l \in Letter \cup {"gone"} PROVE StatOf(l) \in Known
<1> QED BY LetterAssumption DEF StatOf, Known, Code

-----------------------------------------------------------------------------
LEMMA EInitially == StatesInit => EInv
<1> SUFFICES ASSUME StatesInit PROVE EInv
  OBVIOUS
<1>1. states = <<>> /\ states \in Seq(Test) /\ Len(states) = 0
  BY DEF StatesInit
<1>2. Sound(Rest) /\ OnlyReads(Rest)
  BY <1>1, RestIsSound
<1>3. StatesTypeOK
  BY <1>1, <1>2 DEF StatesInit, StatesTypeOK, Shown, Sound, Eval
<1> QED BY <1>2, <1>3 DEF StatesInit, EInv, Noted, Unstarted, Rest, Thread

(* The configuration: the class, and a state that is pushed.               *)
LEMMA ConfigStep ==
  ASSUME EInv, CreateAgent \/ \E w \in Wanted : ProcessStateNode(w)
  PROVE  EInv'
<1> USE DEF EInv, process
<1>1. CASE CreateAgent
  BY <1>1 DEF CreateAgent, AgentClass, StatesTypeOK, OnlyReads, Noted, Unstarted
<1>2. ASSUME NEW w \in Wanted, ProcessStateNode(w) PROVE EInv'
  <2>1. /\ states' = Append(states, TestOf(w))
        /\ UNCHANGED <<class, started, letter, held, cached, eval, queued, shown, ended>>
    BY <1>2 DEF ProcessStateNode
  <2>2. TestOf(w) \in Test
    BY TestOfIsTest
  <2>3. states' \in Seq(Test) /\ Len(states') = Len(states) + 1 /\ Len(states) \in Nat
    BY <2>1, <2>2 DEF StatesTypeOK
  <2>4. ASSUME NEW t \in Thread PROVE eval[t] \in Eval' /\ (eval[t].found = "none" => eval[t].at <= Len(states'))
    BY <2>3, EvalsAreSound DEF Sound, Eval
  <2>5. eval \in [Thread -> Eval']
    BY <2>4 DEF StatesTypeOK
  <2>6. StatesTypeOK'
    BY <2>1, <2>3, <2>4, <2>5 DEF StatesTypeOK, Eval
  <2> QED BY <2>1, <2>6 DEF OnlyReads, Noted, Unstarted
<1> QED BY <1>1, <1>2

-----------------------------------------------------------------------------
(* All that eval's type asks for.                                          *)
AllSound == eval \in [Thread -> Eval] /\ \A t \in Thread : Sound(eval[t])

(* One computation is put in the place of another.                         *)
LEMMA EvalSet ==
  ASSUME EInv, UNCHANGED states, NEW t \in Thread, NEW e, Sound(e),
         eval' = [eval EXCEPT ![t] = e],
         t = "refresh" => OnlyReads(e),
         e.read = "set" => cached' # "unread", cached = "unread" \/ cached' # "unread",
         e.read = "no" \/ started', started \/ started' \/ ~held', started => started'
  PROVE  AllSound' /\ OnlyReads(eval["refresh"])' /\ Noted' /\ Unstarted'
<1>1. \A u \in Thread : eval'[u] = IF u = t THEN e ELSE eval[u]
  BY DEF EInv, StatesTypeOK
<1>2. eval' \in [Thread -> Eval'] /\ \A u \in Thread : Sound(eval[u])'
  BY <1>1, EvalsAreSound DEF EInv, StatesTypeOK, Sound, Eval
<1>3. OnlyReads(eval["refresh"])' /\ Noted' /\ Unstarted'
  BY <1>1 DEF EInv, OnlyReads, Noted, Unstarted, Thread
<1> QED BY <1>2, <1>3 DEF AllSound

(* computeState() stays within the states of the agent.                    *)
LEMMA ComputeStep == ASSUME EInv, NEW t \in Thread, Compute(t) PROVE EInv'
<1>1. Sound(eval[t]) /\ Len(states) \in Nat /\ (t = "refresh" => OnlyReads(eval[t]))
  BY EvalsAreSound, StatesLength DEF EInv
<1>2. Compute(t) => UNCHANGED states /\ UNCHANGED <<class, started, letter, held>>
  BY DEF Compute, ReadStat, NoteState, TestState, Show, config, process
<1>3. CASE ReadStat(t) /\ ~UNCHANGED ended
  <2>1. /\ eval' = [u \in Thread |-> Rest] /\ queued' = FALSE /\ ended' = TRUE
        /\ UNCHANGED <<cached, shown>>
    BY <1>3 DEF ReadStat, process
  <2>2. \A u \in Thread : Sound(Rest)'
    BY <1>1, <1>2, RestIsSound DEF Sound, Eval
  <2>3. eval' \in [Thread -> Eval'] /\ \A u \in Thread : eval'[u] = Rest
    BY <2>1, <2>2 DEF Sound
  <2>4. StatesTypeOK'
    BY <1>2, <2>1, <2>2, <2>3 DEF EInv, StatesTypeOK, Sound, Eval
  <2>5. OnlyReads(eval["refresh"])' /\ Noted' /\ Unstarted'
    BY <1>2, <2>1, <2>3 DEF EInv, OnlyReads, Noted, Unstarted, Rest, Thread
  <2> QED BY <2>4, <2>5 DEF EInv
<1>4. CASE ReadStat(t) /\ UNCHANGED ended
  <2> DEFINE e == [eval[t] EXCEPT !.read = StatOf(letter)]
  <2>1. /\ eval' = [eval EXCEPT ![t] = e] /\ held
        /\ Testing(t) /\ UNCHANGED <<queued, cached, shown>>
    BY <1>4 DEF ReadStat, process, Testing
  <2>2. StatOf(letter) \in Known
    BY StatOfLetter DEF EInv, StatesTypeOK
  <2>3. Sound(e) /\ t # "refresh" /\ e.read \in Known
    BY <1>1, <2>1, <2>2 DEF Sound, Eval, OnlyReads, Testing
  <2>4. e.read # "set" /\ started
    BY <2>1, <2>3 DEF EInv, Unstarted, Known, Code
  <2> HIDE DEF e
  <2>5. AllSound' /\ OnlyReads(eval["refresh"])' /\ Noted' /\ Unstarted'
    BY <1>2, <1>4, <2>1, <2>3, <2>4, EvalSet DEF EInv, StatesTypeOK, Compute
  <2> QED BY <1>2, <1>4, <2>1, <2>5 DEF EInv, StatesTypeOK, AllSound, Sound, Eval, Compute
<1>5. CASE NoteState(t)
  <2> DEFINE e == [eval[t] EXCEPT !.read = "set"]
  <2>1. /\ eval' = [eval EXCEPT ![t] = e] /\ cached' = eval[t].read /\ eval[t].read \in Known
        /\ Testing(t) /\ UNCHANGED <<queued, shown, ended>>
    BY <1>5 DEF NoteState, Testing
  <2>2. Sound(e) /\ t # "refresh" /\ cached' # "unread" /\ started
    BY <1>1, <2>1 DEF Sound, Eval, OnlyReads, Testing, EInv, Unstarted, Known, Code
  <2> HIDE DEF e
  <2>3. AllSound' /\ OnlyReads(eval["refresh"])' /\ Noted' /\ Unstarted'
    BY <1>2, <1>5, <2>1, <2>2, EvalSet DEF EInv, StatesTypeOK, Compute
  <2> QED BY <1>2, <1>5, <2>1, <2>3 DEF EInv, StatesTypeOK, AllSound, Sound, Eval, Compute
<1>6. CASE TestState(t)
  <2> DEFINE i == eval[t].at
  <2>1. i \in 1 .. Len(states) /\ t # "refresh" /\ UNCHANGED <<cached, queued, shown, ended>>
    BY <1>1, <1>6 DEF TestState, Testing, Sound, Eval, OnlyReads, process
  <2>2. PICK b \in BOOLEAN : eval' = [eval EXCEPT ![t] = After(i, b)]
    BY <1>6 DEF TestState, Outcomes
  <2>3. Sound(After(i, b)) /\ After(i, b).read = "no"
    BY <2>1, <2>2, AfterIsSound DEF After
  <2>4. AllSound' /\ OnlyReads(eval["refresh"])' /\ Noted' /\ Unstarted'
    <3>1. cached' = cached /\ started' = started /\ held' = held /\ (started \/ ~held)
      BY <1>2, <2>1 DEF EInv, Unstarted
    <3> QED BY <1>2, <2>1, <2>2, <2>3, <3>1, EvalSet
  <2> QED BY <1>2, <1>6, <2>1, <2>4 DEF EInv, StatesTypeOK, AllSound, Sound, Eval, Compute
<1>7. CASE Show(t)
  <2>1. /\ shown' = eval[t].found /\ eval' = [eval EXCEPT ![t] = Rest]
        /\ UNCHANGED <<cached, queued, ended>>
    BY <1>7 DEF Show, process
  <2>2. Sound(Rest) /\ OnlyReads(Rest) /\ Rest.read = "no" /\ eval[t].found \in Shown
    BY <1>1, RestIsSound DEF Rest, Sound, Eval
  <2>3. AllSound' /\ OnlyReads(eval["refresh"])' /\ Noted' /\ Unstarted'
    <3>1. cached' = cached /\ started' = started /\ held' = held /\ (started \/ ~held)
      BY <1>2, <2>1 DEF EInv, Unstarted
    <3> QED BY <1>2, <2>1, <2>2, <3>1, EvalSet
  <2> QED BY <1>2, <1>7, <2>1, <2>2, <2>3 DEF EInv, StatesTypeOK, AllSound, Sound, Eval, Compute
<1> QED BY <1>3, <1>4, <1>5, <1>6, <1>7 DEF Compute

(* Whoever has the state computed begins with the first test.              *)
LEMMA BeginStep == ASSUME EInv, Start \/ UpdateJob PROVE EInv'
<1>1. PICK t \in Thread \ {"refresh"} : eval' = [eval EXCEPT ![t] = Begin]
  BY DEF Start, UpdateJob, Thread
<1>2. UNCHANGED <<class, states, letter, shown, ended>>
  BY DEF Start, UpdateJob, config
<1>3. Sound(Begin) /\ Begin.read = "no"
  BY BeginIsSound DEF Begin
<1>4. CASE UpdateJob
  <2>1. queued' = FALSE /\ UNCHANGED <<started, held, cached>>
    BY <1>4 DEF UpdateJob, process
  <2>2. AllSound' /\ OnlyReads(eval["refresh"])' /\ Noted' /\ Unstarted'
    BY <1>1, <1>2, <1>3, <2>1, EvalSet DEF EInv, Unstarted
  <2> QED BY <1>2, <2>1, <2>2 DEF EInv, StatesTypeOK, AllSound, Sound, Eval
<1>5. CASE Start
  <2>1. started' = TRUE /\ ~started /\ queued' = queued
    BY <1>5 DEF Start, Configuring
  <2>2. \A l \in Letter \cup {"gone"} : StatOf(l) \in Known
    BY StatOfLetter
  <2>3. held' \in BOOLEAN /\ cached' \in Known \cup {"unread"}
    <3>1. \/ held' = TRUE /\ cached' \in {"unread"} \cup {StatOf(l) : l \in Letter \cup {"gone"}}
          \/ held' = held /\ cached' = cached
      BY <1>5 DEF Start, process
    <3> QED BY <2>2, <3>1 DEF EInv, StatesTypeOK
  <2>4. \A u \in Thread : eval'[u] = (IF u = t THEN Begin ELSE eval[u]) /\ eval'[u].read = "no"
    BY <1>1, <1>3, <2>1 DEF EInv, StatesTypeOK, Unstarted
  <2>5. \A u \in Thread : Sound(eval[u])'
    BY <1>2, <1>3, <2>4, EvalsAreSound DEF Sound, Eval
  <2>6. StatesTypeOK'
    <3>1. eval' \in [Thread -> Eval']
      BY <1>1, <2>5 DEF EInv, StatesTypeOK, Sound
    <3> QED BY <1>2, <2>1, <2>3, <2>5, <3>1 DEF EInv, StatesTypeOK, Sound, Eval
  <2> QED BY <1>1, <2>1, <2>4, <2>6 DEF EInv, OnlyReads, Noted, Unstarted, Thread
<1> QED BY <1>4, <1>5

(* A process comes or goes; the computations that had its Identifier go on *)
(* without.                                                                *)
LEMMA SetPidStep == ASSUME EInv, SetPid PROVE EInv'
<1>1. /\ UNCHANGED <<class, states, started, letter, queued, shown, ended>> /\ started
      /\ held' = ~held /\ cached' = "unread" /\ eval["refresh"] = Rest
      /\ eval' = [t \in Thread |-> IF t = "main" THEN Begin ELSE Lost(eval[t])]
  BY DEF SetPid, config, GuardFree
<1>2. \A t \in Thread : Sound(Lost(eval[t])) /\ Lost(eval[t]).read # "set"
  <2> TAKE t \in Thread
  <2>1. Sound(eval[t])
    BY EvalsAreSound
  <2>2. eval[t] \in Eval
    BY <2>1 DEF Sound
  <2>3. CASE eval[t].read = "no"
    BY <2>1, <2>3 DEF Lost
  <2>4. CASE eval[t].read # "no"
    BY <2>1, <2>2, <2>4 DEF Lost, Sound, Eval
  <2> QED BY <2>3, <2>4
<1>3. Sound(Begin) /\ Begin.read = "no"
  BY BeginIsSound DEF Begin
<1>4. \A t \in Thread : Sound(eval'[t]) /\ eval'[t].read # "set"
  BY <1>1, <1>2, <1>3
<1>5. Lost(eval["refresh"]) = Rest /\ OnlyReads(Rest)
  BY <1>1 DEF Lost, Rest, OnlyReads
<1>6. StatesTypeOK'
  BY <1>1, <1>4 DEF EInv, StatesTypeOK, Sound, Eval
<1> QED BY <1>1, <1>4, <1>5, <1>6 DEF EInv, Noted, Unstarted, Thread

(* The refresh reads, notes what it read, or fails.                        *)
LEMMA RefreshStep == ASSUME EInv, RefreshRead \/ Refresh \/ RefreshFail PROVE EInv'
<1>1. UNCHANGED <<class, states, started, letter, held, shown, ended>>
  BY DEF RefreshRead, Refresh, RefreshFail, config, process
<1>2. Len(states) \in Nat /\ "refresh" \in Thread /\ OnlyReads(eval["refresh"])
  BY StatesLength DEF Thread, EInv
<1>3. CASE RefreshRead
  <2> DEFINE e == [eval["refresh"] EXCEPT !.read = StatOf(letter)]
  <2>1. eval' = [eval EXCEPT !["refresh"] = e] /\ started /\ UNCHANGED <<cached, queued>>
    BY <1>3 DEF RefreshRead, process
  <2>2. StatOf(letter) \in Known
    BY StatOfLetter DEF EInv, StatesTypeOK
  <2>3. Sound(e) /\ OnlyReads(e) /\ e.read # "set"
    BY <1>2, <2>2, EvalsAreSound DEF Sound, Eval, OnlyReads, Known, Code
  <2> HIDE DEF e
  <2>4. AllSound' /\ OnlyReads(eval["refresh"])' /\ Noted' /\ Unstarted'
    BY <1>1, <1>2, <2>1, <2>3, EvalSet
  <2> QED BY <1>1, <2>1, <2>4 DEF EInv, StatesTypeOK, AllSound, Sound, Eval
<1>4. CASE Refresh \/ RefreshFail
  <2>1. /\ eval' = [eval EXCEPT !["refresh"] = Rest] /\ queued' \in BOOLEAN
        /\ cached' = cached \/ (eval["refresh"].read # "no" /\ cached' = eval["refresh"].read)
    BY <1>4 DEF Refresh, RefreshFail, Refreshing, EInv, StatesTypeOK
  <2>2. cached' \in Known \cup {"unread"} /\ (cached = "unread" \/ cached' # "unread")
    BY <1>2, <2>1 DEF OnlyReads, EInv, StatesTypeOK, Known, Code
  <2>3. Sound(Rest) /\ OnlyReads(Rest) /\ Rest.read = "no"
    BY <1>2, RestIsSound DEF Rest
  <2>4. AllSound' /\ OnlyReads(eval["refresh"])' /\ Noted' /\ Unstarted'
    BY <1>1, <1>2, <2>1, <2>2, <2>3, EvalSet DEF EInv, Unstarted
  <2> QED BY <1>1, <2>1, <2>2, <2>4 DEF EInv, StatesTypeOK, AllSound, Sound, Eval
<1> QED BY <1>3, <1>4

LEMMA EStep == EInv /\ [StatesNext]_stateVars => EInv'
<1> SUFFICES ASSUME EInv, [StatesNext]_stateVars PROVE EInv'
  OBVIOUS
<1>1. CASE CreateAgent \/ (\E w \in Wanted : ProcessStateNode(w))
  BY <1>1, ConfigStep
<1>2. CASE \E t \in Thread : Compute(t)
  BY <1>2, ComputeStep
<1>3. CASE Start \/ UpdateJob
  BY <1>3, BeginStep
<1>4. CASE SetPid
  BY <1>4, SetPidStep
<1>5. CASE RefreshRead \/ Refresh \/ RefreshFail
  BY <1>5, RefreshStep
<1>6. CASE Change \/ UNCHANGED stateVars
  BY <1>6 DEF Change, stateVars, config, process, EInv, StatesTypeOK, OnlyReads, Noted, Unstarted
<1> QED BY <1>1, <1>2, <1>3, <1>4, <1>5, <1>6 DEF StatesNext

LEMMA EAlways == StatesSpec => []EInv
<1> QED BY EInitially, EStep, PTL DEF StatesSpec

-----------------------------------------------------------------------------
(* Every variable of the agent's states keeps its type, and computeState() *)
(* never runs off the end of the states, although in two of three threads  *)
(* it takes no guard: a computation without a result is at one of them.    *)
THEOREM StatesTypeCorrect == StatesSpec => []StatesTypeOK
<1>1. EInv => StatesTypeOK
  BY DEF EInv
<1> QED BY <1>1, EAlways, PTL

-----------------------------------------------------------------------------
(* What SettlesOnTruth rests on, for any configuration.                    *)

(* A test has one outcome for each state.                                  *)
LEMMA OneOutcome ==
  ASSUME EInv, NEW s, NEW i \in 1 .. Len(states)
  PROVE  \A b \in Outcomes(states[i], s) : b \in BOOLEAN /\ (b <=> i \in Passed(s))
<1>1. states[i] \in Test /\ i \in DOMAIN states
  BY DEF EInv, StatesTypeOK
<1>2. \E b \in BOOLEAN : Outcomes(states[i], s) = {b}
  <2>1. CASE states[i] = "available"
    BY <2>1 DEF Outcomes, Code
  <2>2. CASE states[i] = "not-available"
    BY <2>2 DEF Outcomes, Code
  <2>3. CASE states[i] \in Code
    BY <2>3 DEF Outcomes, Code
  <2> QED BY <1>1, <2>1, <2>2, <2>3 DEF Test
<1> QED BY <1>1, <1>2 DEF Passed

LEMMA PassedAreStates ==
  ASSUME EInv, NEW s
  PROVE  Len(states) \in Nat /\ Passed(s) \subseteq 1 .. Len(states)
<1> QED BY StatesLength DEF Passed

(* The first test that s passes gives the verdict; if there is none, the   *)
(* default does.                                                           *)
LEMMA FirstPassed ==
  ASSUME EInv, NEW s, NEW i \in Passed(s), \A j \in 1 .. i - 1 : j \notin Passed(s)
  PROVE  Verdict(s) = states[i]
<1>1. i \in 1 .. Len(states) /\ Len(states) \in Nat /\ \A j \in Passed(s) : j \in 1 .. Len(states)
  BY PassedAreStates
<1>2. \A j \in Passed(s) : i <= j
  BY <1>1
<1>3. \A k \in Passed(s) : (\A j \in Passed(s) : k <= j) => k = i
  BY <1>1, <1>2
<1>4. (CHOOSE k \in Passed(s) : \A j \in Passed(s) : k <= j) = i
  BY <1>2, <1>3
<1> QED BY <1>4 DEF Verdict

LEMMA NonePassed ==
  ASSUME EInv, NEW s, \A j \in 1 .. Len(states) : j \notin Passed(s)
  PROVE  Verdict(s) = "default"
<1> QED BY PassedAreStates DEF Verdict

(* Beginning, resting, and going on after a test agree with what was read. *)
LEMMA BeginAgrees == ASSUME EInv, NEW s PROVE Agrees(Begin, s) /\ Agrees(Rest, s)
<1>1. Agrees(Rest, s)
  BY DEF Rest, Agrees
<1>2. CASE states = <<>>
  <2>1. Verdict(s) = "default"
    BY <1>2, NonePassed
  <2> QED BY <1>1, <1>2, <2>1 DEF Begin, Agrees
<1>3. CASE states # <<>>
  BY <1>1, <1>3 DEF Begin, Agrees
<1> QED BY <1>2, <1>3

LEMMA AfterAgrees ==
  ASSUME EInv, NEW s, NEW i \in 1 .. Len(states), NEW b \in Outcomes(states[i], s),
         \A j \in 1 .. i - 1 : j \notin Passed(s)
  PROVE  Agrees(After(i, b), s)
<1>1. Len(states) \in Nat /\ i \in Nat /\ states[i] # "none" /\ b \in BOOLEAN /\ (b <=> i \in Passed(s))
  BY OneOutcome DEF EInv, StatesTypeOK, Test, Code
<1>2. CASE b
  <2>1. Verdict(s) = states[i]
    BY <1>1, <1>2, FirstPassed
  <2>2. After(i, b) = [at |-> i, found |-> states[i], read |-> "no"]
    BY <1>2 DEF After
  <2> QED BY <1>1, <2>1, <2>2 DEF Agrees
<1>3. CASE ~b
  <2>1. \A j \in 1 .. i : j \notin Passed(s)
    BY <1>1, <1>3
  <2>2. CASE i = Len(states)
    <3>1. Verdict(s) = "default" /\ After(i, b) = [at |-> i + 1, found |-> "default", read |-> "no"]
      BY <1>3, <2>1, <2>2, NonePassed DEF After
    <3> QED BY <3>1 DEF Agrees
  <2>3. CASE i # Len(states)
    <3>1. After(i, b) = [at |-> i + 1, found |-> "none", read |-> "no"]
      BY <1>3, <2>3 DEF After
    <3>2. (i + 1) - 1 = i
      BY <1>1
    <3> QED BY <2>1, <3>1, <3>2 DEF Agrees
  <2> QED BY <2>2, <2>3
<1> QED BY <1>1, <1>2, <1>3

(* If what the process is and what is shown stay, and what is noted is s,  *)
(* then computations that agree leave the agent settled.                   *)
LEMMA SettledKeeps ==
  ASSUME EInv, NEW s, Settled(s), UNCHANGED <<states, started, held>>, held => letter' = letter,
         held => cached' \in {s, "unread"}, shown' = Verdict(s),
         \A t \in Thread : Agrees(eval'[t], s)
  PROVE  Settled(s)'
<1>1. Verdict(s)' = Verdict(s) /\ \A e : Agrees(e, s)' <=> Agrees(e, s)
  BY DEF Verdict, Passed, Agrees
<1> QED BY <1>1 DEF Settled, StatOf

LEMMA SettledStep ==
  ASSUME EInv, [StatesNext]_stateVars, NEW s \in Known, Settled(s), Undisturbed
  PROVE  Settled(s)'
<1>1. /\ started /\ held' = held /\ (held => letter' = letter) /\ shown = Verdict(s)
      /\ held => StatOf(letter) = s /\ cached \in {s, "unread"}
      /\ \A t \in Thread : Agrees(eval[t], s) /\ Agrees(Begin, s) /\ Agrees(Rest, s)
  BY BeginAgrees DEF Undisturbed, Settled
<1>2. s # "no" /\ s # "set" /\ s # "lost" /\ s # "unread"
  BY DEF Known, Code
<1>3. ASSUME NEW t \in Thread, NEW e, eval' = [eval EXCEPT ![t] = e], Agrees(e, s)
      PROVE  \A u \in Thread : Agrees(eval'[u], s)
  BY <1>1, <1>3 DEF EInv, StatesTypeOK
<1>4. CASE CreateAgent \/ Change \/ UNCHANGED stateVars
  <2>1. UNCHANGED <<states, started, cached, eval, shown>>
    BY <1>4 DEF CreateAgent, Change, stateVars, config, process
  <2> QED BY <1>1, <2>1, SettledKeeps
<1>5. CASE UpdateJob
  <2>1. eval' = [eval EXCEPT !["pool"] = Begin] /\ UNCHANGED <<states, started, cached, shown>>
    BY <1>5 DEF UpdateJob, config, process
  <2>2. \A u \in Thread : Agrees(eval'[u], s)
    BY <1>1, <1>3, <2>1 DEF Thread
  <2> QED BY <1>1, <2>1, <2>2, SettledKeeps
<1>6. CASE RefreshRead
  <2> DEFINE e == [eval["refresh"] EXCEPT !.read = StatOf(letter)]
  <2>1. /\ eval' = [eval EXCEPT !["refresh"] = e] /\ held
        /\ UNCHANGED <<states, started, cached, shown>>
    BY <1>6 DEF RefreshRead, config, process
  <2>2. eval["refresh"] \in Eval /\ Agrees(eval["refresh"], s) /\ StatOf(letter) = s
    BY <1>1, <2>1, EvalsAreSound DEF Sound, Thread
  <2>3. Agrees(e, s)
    BY <2>2 DEF Agrees, Eval
  <2> HIDE DEF e
  <2>4. \A u \in Thread : Agrees(eval'[u], s)
    BY <1>3, <2>1, <2>3 DEF Thread
  <2> QED BY <1>1, <2>1, <2>4, SettledKeeps
<1>7. CASE Refresh \/ RefreshFail
  <2>1. /\ eval' = [eval EXCEPT !["refresh"] = Rest] /\ UNCHANGED <<states, started, shown>>
        /\ cached' = cached \/ (eval["refresh"].read # "no" /\ cached' = eval["refresh"].read)
    BY <1>7 DEF Refresh, RefreshFail, Refreshing, config
  <2>2. eval["refresh"].read \in {"no", s}
    BY <1>1 DEF EInv, OnlyReads, Known, Code, Agrees, Thread
  <2>3. \A u \in Thread : Agrees(eval'[u], s)
    BY <1>1, <1>3, <2>1 DEF Thread
  <2> QED BY <1>1, <2>1, <2>2, <2>3, SettledKeeps
<1>8. ASSUME NEW t \in Thread, ReadStat(t) PROVE Settled(s)'
  <2>1. held /\ UNCHANGED <<states, started, cached, shown>>
    BY <1>8 DEF ReadStat, config, process
  <2>2. CASE eval' = [u \in Thread |-> Rest]
    BY <1>1, <2>1, <2>2, SettledKeeps
  <2>3. CASE eval' # [u \in Thread |-> Rest]
    <3> DEFINE e == [eval[t] EXCEPT !.read = StatOf(letter)]
    <3>1. eval' = [eval EXCEPT ![t] = e]
      BY <1>8, <2>3 DEF ReadStat
    <3>2. eval[t] \in Eval /\ Agrees(eval[t], s) /\ StatOf(letter) = s
      BY <1>1, <2>1, EvalsAreSound DEF Sound
    <3>3. Agrees(e, s)
      BY <3>2 DEF Agrees, Eval
    <3> HIDE DEF e
    <3>4. \A u \in Thread : Agrees(eval'[u], s)
      BY <1>3, <3>1, <3>3
    <3> QED BY <1>1, <2>1, <3>4, SettledKeeps
  <2> QED BY <2>2, <2>3
<1>9. ASSUME NEW t \in Thread, NoteState(t) PROVE Settled(s)'
  <2> DEFINE e == [eval[t] EXCEPT !.read = "set"]
  <2>1. /\ eval' = [eval EXCEPT ![t] = e] /\ cached' = eval[t].read /\ eval[t].read \in Known
        /\ UNCHANGED <<states, started, shown>>
    BY <1>9 DEF NoteState, config
  <2>2. eval[t] \in Eval /\ Agrees(eval[t], s)
    BY <1>1, EvalsAreSound DEF Sound
  <2>3. Agrees(e, s) /\ cached' = s
    BY <2>1, <2>2 DEF Agrees, Eval, Known, Code
  <2> HIDE DEF e
  <2>4. \A u \in Thread : Agrees(eval'[u], s)
    BY <1>3, <2>1, <2>3
  <2> QED BY <1>1, <2>1, <2>3, <2>4, SettledKeeps
<1>10. ASSUME NEW t \in Thread, TestState(t) PROVE Settled(s)'
  <2> DEFINE i == eval[t].at
  <2>1. /\ i \in 1 .. Len(states) /\ eval[t].found = "none"
        /\ UNCHANGED <<states, started, cached, shown>>
    BY <1>10, StatesLength, EvalsAreSound DEF TestState, Testing, Sound, Eval, config, process
  <2>2. eval[t].read \in {"no", "set"}
    BY <1>1, <1>2, <1>10 DEF TestState, Agrees
  <2>3. Current = s
    <3>1. held => cached # "unread"
      BY <1>10, <2>2 DEF TestState, EInv, Noted
    <3> QED BY <1>1, <3>1 DEF Current, Settled
  <2>4. PICK b \in Outcomes(states[i], s) : eval' = [eval EXCEPT ![t] = After(i, b)]
    BY <1>10, <2>2, <2>3 DEF TestState
  <2>5. \A j \in 1 .. i - 1 : j \notin Passed(s)
    BY <1>1, <2>1 DEF Agrees
  <2>6. Agrees(After(i, b), s)
    BY <2>1, <2>4, <2>5, AfterAgrees
  <2>7. \A u \in Thread : Agrees(eval'[u], s)
    BY <1>3, <2>4, <2>6
  <2> QED BY <1>1, <2>1, <2>7, SettledKeeps
<1>11. ASSUME NEW t \in Thread, Show(t) PROVE Settled(s)'
  <2>1. /\ shown' = eval[t].found /\ eval[t].found # "none" /\ eval' = [eval EXCEPT ![t] = Rest]
        /\ UNCHANGED <<states, started, cached>>
    BY <1>11 DEF Show, config, process
  <2>2. shown' = Verdict(s)
    BY <1>1, <2>1 DEF Agrees
  <2>3. \A u \in Thread : Agrees(eval'[u], s)
    BY <1>1, <1>3, <2>1
  <2> QED BY <1>1, <2>1, <2>2, <2>3, SettledKeeps
<1>12. ~(Start \/ SetPid \/ \E w \in Wanted : ProcessStateNode(w))
  BY <1>1 DEF Start, SetPid, ProcessStateNode, Configuring, EInv, StatesTypeOK
<1> QED BY <1>4, <1>5, <1>6, <1>7, <1>8, <1>9, <1>10, <1>11, <1>12 DEF StatesNext, Compute

(* Once an agent has settled on its process's state, no order of updates,  *)
(* refreshes and evaluations shows anything else while the process stays:  *)
(* computeState() needs no lock for that. What TLC adds is that it does    *)
(* settle, which needs fairness.                                           *)
THEOREM SettledStaysSettled == StatesSpec => StaysOnTruth
<1>1. EInv /\ [StatesNext]_stateVars
        => [\A s \in Code \cup {"I"} : Settled(s) /\ Undisturbed => Settled(s)']_stateVars
  BY SettledStep DEF Known
<1> QED BY <1>1, EAlways, PTL DEF StatesSpec, StaysOnTruth

=============================================================================
