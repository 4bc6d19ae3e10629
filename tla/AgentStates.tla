----------------------------- MODULE AgentStates -----------------------------
(***************************************************************************)
(* The states of a Process::Agent: how the agent and its <state> nodes are *)
(* built from the configuration, and how computeState() goes through the   *)
(* states, test after test, on the main loop (which holds the guard, in    *)
(* insert and remove), in the update that refresh() queued (which does     *)
(* not) and in start(). In between the process changes its state, refresh  *)
(* changes the cached one, and another thread may show its own result, or  *)
(* note a state it read long ago. A test is noexcept: if it has to read    *)
(* the process's stat file and cannot, the program ends.                   *)
(*                                                                         *)
(* cpu/get-by-pid is on, its default: refresh() reads the states. That a   *)
(* pointer is still good when a test takes it is for ControllerThreads; an *)
(* Identifier that goes during a test gives it any answer here.            *)
(***************************************************************************)
EXTENDS Naturals, Sequences

CONSTANTS
  Letter,    (* The letters /proc/<pid>/stat may show.                      *)
  Wanted,    (* The process-state attributes that are configured.           *)
  MaxStates  (* Bound: the <state> nodes of an agent.                       *)

(* The kernel's letters; Identifier::State has no name for 'I'.            *)
Code == {"R", "S", "D", "Z", "T", "t", "W", "X", "x", "K", "P"}

(* Identifier::statenames, in lower case as strcasecmp takes them: a state *)
(* may have two names, and no name has two states.                         *)
StateNames ==
  [ R |-> {"running"}, S |-> {"sleeping"}, D |-> {"waiting"}, Z |-> {"zombie"},
    T |-> {"stopped"}, t |-> {"tracing stop"}, W |-> {"paging", "waking"},
    X |-> {"dead"}, x |-> {"dead-compat"}, K |-> {"wakekill"}, P |-> {"parked"} ]

Named == UNION {StateNames[c] : c \in Code}

(* Identifier::StateFactory(name), for a name of the table.                *)
StateFactory(name) == CHOOSE c \in Code : name \in StateNames[c]

ASSUME LetterAssumption == Letter \subseteq Code \cup {"I"}
ASSUME WantedAssumption == Wanted \subseteq Named \cup {"available", "not-available"}
ASSUME StatesAssumption == MaxStates \in Nat

VARIABLES
  class,     (* Which agent the factory made; "none": none yet.             *)
  states,    (* Process::Agent::states, in order, each by what it tests.    *)
  started,   (* start() has been called.                                    *)
  letter,    (* What /proc says of the process the agent would take.        *)
  held,      (* Agent::pid is set.                                          *)
  cached,    (* Identifier::state of that process.                          *)
  eval,      (* eval[t]: the test computeState() is at in thread t, the     *)
             (* state it has found, and what it read of /proc: not yet      *)
             (* noted, or "set", or "lost" with the Identifier.             *)
  queued,    (* The agents' update is in the pool's queue.                  *)
  shown,     (* The agent's current state.                                  *)
  ended      (* A noexcept function threw: the program is gone.             *)

config    == <<class, states>>
process   == <<held, cached>>
stateVars == <<config, started, letter, process, eval, queued, shown, ended>>

Thread  == {"main", "pool", "user", "refresh"}
Rest    == [at |-> 0, found |-> "none", read |-> "no"]
Known   == Code \cup {"I"}
Test    == {"available", "not-available"} \cup Code
Shown   == Test \cup {"default", "none"}

StatesTypeOK ==
  /\ class \in {"none", "exename", "pidfile", "counter", "null"}
  /\ states \in Seq(Test)
  /\ started \in BOOLEAN
  /\ letter \in Letter \cup {"gone"}
  /\ held \in BOOLEAN /\ cached \in Known \cup {"unread"}
  /\ eval \in [Thread -> [at : 0 .. Len(states) + 1, found : Shown,
                          read : Known \cup {"no", "set", "lost"}]]
  /\ \A t \in Thread : eval[t].found = "none" => eval[t].at <= Len(states)
  /\ queued \in BOOLEAN
  /\ shown \in Shown
  /\ ended \in BOOLEAN

-----------------------------------------------------------------------------
(* Configuration.                                                          *)

(* AgentFactory: what class the attributes ask for that are not empty.     *)
AgentClass(A) ==
  CASE "exename" \in A       -> "exename"
    [] "exename" \notin A /\ "pidfile" \in A -> "pidfile"
    [] A = {"process-state"} -> "counter"
    [] A = {}                -> "null"

CreateAgent ==
  /\ class = "none"
  /\ \E A \in SUBSET {"exename", "pidfile", "process-state"} : class' = AgentClass(A)
  /\ UNCHANGED <<states, started, letter, process, eval, queued, shown, ended>>

(* Only agents by exename go on here: the others have modules of their own. *)
Configuring == class = "exename" /\ ~started

TestOf(w) == IF w \in {"available", "not-available"} THEN w ELSE StateFactory(w)

(* Agent::StateFactory for a node with process-state; one whose name is    *)
(* unknown throws and leaves nothing. A node with field-name only is not   *)
(* pushed: computeState() never tests it, and it has no part here.         *)
ProcessStateNode(w) ==
  /\ Configuring /\ Len(states) < MaxStates
  /\ states' = Append(states, TestOf(w))
  /\ UNCHANGED <<class, started, letter, process, eval, queued, shown, ended>>

-----------------------------------------------------------------------------
(* computeState().                                                         *)

(* Mutant: Stat::state is not 'X' before the file is read.                 *)
StatOfUndefined(l) == IF l = "gone" THEN "undefined" ELSE l

(* Identifier::Stat: no entry leaves 'X'.                                  *)
StatOf(l) == IF l = "gone" THEN "X" ELSE l

(* Agent::getState, when the state is known.                              *)
Current == IF held THEN cached ELSE "X"

NotAvailable == {"X", "x", "Z", "T"}

(* State::test.                                                            *)
Outcomes(t, s) ==
  {b \in BOOLEAN : /\ t = "available" => (b <=> s \notin NotAvailable)
                   /\ t = "not-available" => (b <=> s \in NotAvailable)
                   /\ t \in Code => (b <=> s = t)}

Begin == [at |-> 1, found |-> IF states = <<>> THEN "default" ELSE "none", read |-> "no"]

(* Mutant: the last state is not taken for the last.                       *)
AfterLast(i, passed) ==
  IF passed THEN [at |-> i, found |-> states[i], read |-> "no"]
  ELSE [at |-> i + 1, found |-> IF i > Len(states) THEN "default" ELSE "none", read |-> "no"]

(* What comes after test i, which was, or was not, passed.                 *)
After(i, passed) ==
  IF passed THEN [at |-> i, found |-> states[i], read |-> "no"]
  ELSE [at |-> i + 1, found |-> IF i = Len(states) THEN "default" ELSE "none", read |-> "no"]

Testing(t) == ~ended /\ eval[t].at # 0 /\ eval[t].found = "none"

(* The test finds the state unread, and reads it. Stat throws for a file   *)
(* that is there but cannot be opened, read or parsed: all threads end.    *)
ReadStat(t) ==
  /\ Testing(t) /\ eval[t].read = "no" /\ held /\ cached = "unread"
  /\ \/ /\ eval' = [eval EXCEPT ![t].read = StatOf(letter)]
        /\ UNCHANGED <<queued, ended>>
     \/ /\ ended' = TRUE
        /\ eval' = [u \in Thread |-> Rest] /\ queued' = FALSE
  /\ UNCHANGED <<config, started, letter, process, shown>>

(* Identifier::set(state) of what was read, whatever was noted since.      *)
NoteState(t) ==
  /\ Testing(t) /\ eval[t].read \in Known
  /\ cached' = eval[t].read
  /\ eval' = [eval EXCEPT ![t].read = "set"]
  /\ UNCHANGED <<config, started, letter, held, queued, shown, ended>>

(* The test itself takes the state that is noted by then.                  *)
TestState(t) ==
  LET i == eval[t].at
  IN  /\ Testing(t) /\ eval[t].read \in {"no", "set", "lost"}
      /\ eval[t].read = "no" => ~(held /\ cached = "unread")
      /\ \E b \in IF eval[t].read = "lost" THEN BOOLEAN ELSE Outcomes(states[i], Current) :
           eval' = [eval EXCEPT ![t] = After(i, b)]
      /\ UNCHANGED <<config, started, letter, process, queued, shown, ended>>

(* updated(true) makes what computeState() returned the current state.     *)
Show(t) ==
  /\ ~ended /\ eval[t].found # "none"
  /\ shown' = eval[t].found
  /\ eval' = [eval EXCEPT ![t] = Rest]
  /\ UNCHANGED <<config, started, letter, process, queued, ended>>

Compute(t) == ReadStat(t) \/ NoteState(t) \/ TestState(t) \/ Show(t)

-----------------------------------------------------------------------------
(* Who calls it. The main loop has the guard until its result is shown,    *)
(* the refresh until it has noted what it read.                            *)

GuardFree == ~ended /\ eval["main"] = Rest /\ eval["refresh"] = Rest

(* start(): insert(agent) takes a process that matches, under the guard;   *)
(* if there is none the state is computed without the guard.               *)
Start ==
  /\ GuardFree /\ Configuring
  /\ started' = TRUE
  /\ \/ /\ held' = TRUE
        /\ cached' \in {"unread"} \cup {StatOf(l) : l \in Letter \cup {"gone"}}
        /\ eval' = [eval EXCEPT !["main"] = Begin]
     \/ /\ UNCHANGED process
        /\ eval' = [eval EXCEPT !["user"] = Begin]
  /\ UNCHANGED <<config, letter, queued, shown, ended>>

(* What becomes of a test under way when its Identifier goes.              *)
Lost(e) == IF e.read = "no" THEN e ELSE [e EXCEPT !.read = "lost"]

(* insert(pid) offers a new process to an agent without one; remove(pid)   *)
(* takes it away, with its Identifier.                                     *)
SetPid ==
  /\ GuardFree /\ started
  /\ held' = ~held
  /\ cached' = "unread"
  /\ eval' = [t \in Thread |-> IF t = "main" THEN Begin ELSE Lost(eval[t])]
  /\ UNCHANGED <<config, started, letter, queued, shown, ended>>

(* refresh() reads the state, whether it is known or not.                  *)
RefreshRead ==
  /\ GuardFree /\ started /\ held
  /\ eval' = [eval EXCEPT !["refresh"].read = StatOf(letter)]
  /\ UNCHANGED <<config, started, letter, process, queued, shown, ended>>

Refreshing == ~ended /\ eval["refresh"].read # "no"

(* Mutant: the update is queued only if a state has changed.               *)
RefreshWhenChanged ==
  /\ \/ Refreshing /\ cached' = eval["refresh"].read
     \/ GuardFree /\ started /\ ~held /\ UNCHANGED cached
  /\ eval' = [eval EXCEPT !["refresh"] = Rest]
  /\ queued' = (queued \/ cached' # cached)
  /\ UNCHANGED <<config, started, letter, held, shown, ended>>

(* It notes what it read, if there was a process; the update is queued.    *)
Refresh ==
  /\ \/ Refreshing /\ cached' = eval["refresh"].read
     \/ GuardFree /\ started /\ ~held /\ UNCHANGED cached
  /\ eval' = [eval EXCEPT !["refresh"] = Rest]
  /\ queued' = TRUE
  /\ UNCHANGED <<config, started, letter, held, shown, ended>>

(* Mutant: the handler takes the processes of the refresh for dead.        *)
RefreshFailDead ==
  /\ Refreshing
  /\ cached' = "X"
  /\ eval' = [eval EXCEPT !["refresh"] = Rest]
  /\ UNCHANGED <<config, started, letter, held, queued, shown, ended>>

(* A refresh that fails: at this process, or at another one after it.      *)
RefreshFail ==
  /\ Refreshing
  /\ cached' \in {cached, eval["refresh"].read}
  /\ eval' = [eval EXCEPT !["refresh"] = Rest]
  /\ UNCHANGED <<config, started, letter, held, queued, shown, ended>>

(* Bound: one update at a time.                                            *)
UpdateJob ==
  /\ ~ended /\ queued /\ eval["pool"] = Rest
  /\ queued' = FALSE
  /\ eval' = [eval EXCEPT !["pool"] = Begin]
  /\ UNCHANGED <<config, started, letter, process, shown, ended>>

(* The process, or the next one with its number.                           *)
Change ==
  /\ letter' \in (Letter \cup {"gone"}) \ {letter}
  /\ UNCHANGED <<config, started, process, eval, queued, shown, ended>>

-----------------------------------------------------------------------------
StatesInit ==
  /\ class = "none" /\ states = <<>>
  /\ started = FALSE
  /\ letter \in Letter \cup {"gone"}
  /\ held = FALSE /\ cached = "unread"
  /\ eval = [t \in Thread |-> Rest]
  /\ queued = FALSE /\ shown = "none" /\ ended = FALSE

StatesNext ==
  \/ CreateAgent \/ Start \/ SetPid \/ Change
  \/ \E w \in Wanted : ProcessStateNode(w)
  \/ RefreshRead \/ Refresh \/ RefreshFail \/ UpdateJob
  \/ \E t \in Thread : Compute(t)

StatesSpec == StatesInit /\ [][StatesNext]_stateVars

(* The timer queues a refresh every ten seconds; it gets the guard in the  *)
(* end, and not every one of them fails. A thread that computes goes on.   *)
StatesFairSpec ==
  /\ StatesSpec
  /\ SF_stateVars(RefreshRead) /\ SF_stateVars(Refresh) /\ WF_stateVars(UpdateJob)
  /\ \A t \in Thread : WF_stateVars(Compute(t))

-----------------------------------------------------------------------------
(* Properties.                                                             *)

(* What computeState() gives for an agent that reads s all the while.      *)
Passed(s)  == {i \in DOMAIN states : Outcomes(states[i], s) = {TRUE}}
Verdict(s) ==
  IF Passed(s) = {} THEN "default"
  ELSE states[CHOOSE i \in Passed(s) : \A j \in Passed(s) : i <= j]

(* Computation e has not gone past a test that s passes, nor found another *)
(* state than one that reads s throughout, nor read or lost anything else. *)
Agrees(e, s) ==
  /\ e.read \in {"no", "set", s}
  /\ IF e.found = "none" THEN \A i \in 1 .. e.at - 1 : i \notin Passed(s)
     ELSE e.found = Verdict(s)

(* s is the process's state and what a test would read; it is shown, and   *)
(* the computations under way, in any thread, agree with it.               *)
Settled(s) ==
  /\ started
  /\ IF held THEN StatOf(letter) = s /\ cached \in {s, "unread"} ELSE s = "X"
  /\ shown = Verdict(s)
  /\ \A t \in Thread : Agrees(eval[t], s)

(* An agent that has settled is not talked out of it: whatever computes,   *)
(* refreshes, fails or is queued again, only the process itself, or its    *)
(* coming and going, changes what is shown.                                *)
Undisturbed  == held' = held /\ (held => letter' = letter)
StaysOnTruth ==
  [][\A s \in Code \cup {"I"} : Settled(s) /\ Undisturbed => Settled(s)']_stateVars

(* Updates race: each takes the state anew for every test, may note a      *)
(* state it read before a refresh noted a later one, and the last to       *)
(* finish, not the last to begin, is shown. Still, once the process stays  *)
(* in a state, or stays away, and its file can be read, the agent comes to *)
(* show the first of its states that fits, and keeps to it.                *)
SettlesOnTruth ==
  /\ \A l \in Letter \cup {"gone"} :
       <>[](~ended /\ held /\ letter = l) => <>[](shown = Verdict(StatOf(l)))
  /\ <>[](~ended /\ started /\ ~held) => <>[](shown = Verdict("X"))

=============================================================================
