# Verification of udjat-module-process

udjat-module-process is a plug-in of the udjat monitoring framework. It watches the
processes of a Linux machine and gives the framework agents that report whether a
program runs, in which state it is and what it consumes. The TLA+ modules in this
directory model how it does so; TLC checks them on small instances and TLAPS proves the
most important properties for every instance. Paths below are those of the repository.

## Inventory

| Part | Source | State | Operations |
|---|---|---|---|
| Controller (singleton) | `src/include/controller.h`, `src/module/controller/*.cc` | `identifiers`, `agents`, the netlink `fd`, the timer, `guard` | constructor, `handle_event`, `on_timer`, `reload`, `insert`/`remove` of pids and of agents, `find`, `count` |
| Refresh | `src/module/refresh.cc` | cached state, CPU counters and percentages of the identifiers, system counters | `refresh` (a thread pool job), the agents' update it queues (another job) |
| Identifier, Stat | `src/module/pid/*.cc`, `identifier.h` | pid, cached state, CPU data | `getState`, `set`, `exename`; `Stat` reads `/proc/<pid>/stat` |
| Agent, ExeNameAgent | `src/module/agent/abstract.cc`, `exename.cc` | `pid` (a raw pointer into the list), `states` | `start`, `set`, `probe`, `getState`, `computeState`, getters, destructor |
| PidFileAgent | `src/module/agent/pidfile.cc` | as Agent | `refresh` |
| StateCounterAgent | `src/module/agent/counter.cc` | its value | `start`, `refresh` |
| Agent states | `src/module/agent/state.cc` | thresholds, wanted state | `StateFactory`, `test` |
| Factory, module entry, test program | `factory.cc`, `init.cc`, `testprogram.cc` | none | wiring |

How they interact. The controller lists `/proc` once, subscribes to the kernel's proc
connector (netlink) and then learns of every exec and exit from messages on its socket;
messages may be dropped without notice, and those sent between the listing and the
subscription are never seen. If the socket cannot be opened, the timer lists `/proc`
again and again (`reload`). The timer also queues `refresh` on the thread pool, which
reads the state of every identifier and queues the update of all registered agents.
Agents register with the controller and hold a raw pointer to an identifier of its list.
`guard` is a recursive mutex; it protects the two lists, but not the agents' pointers
when agents evaluate their state, not the update job, and not the emptying of the list
after a failed `reload`.

What is hard, and what makes each part correct:

* Controller: freeing identifiers that agents point to; entries duplicated by exec;
  reused pids whose old exit is still queued; lost messages; `/proc` changing while it
  is listed. Correct when no agent keeps a freed identifier, the list loses no process
  it was told of and keeps none it was told has ended, agents take only what matches,
  and what an agent shows comes to agree with what it holds.
* Refresh: it may fail half way; its result reaches the agents through another job.
  Correct when an ended process is shown as such in the end.
* PidFileAgent: reads, looks up and stores in three steps. Correct when it follows the
  file and notices the end of the process.
* StateCounterAgent: counts what the other parts left in the list. Correct when a
  process that stays in a state is counted, and no longer when it left it.
* CPU use: `/proc/stat` is read once and `/proc/<pid>/stat` one process after the other
  while the clock goes on; a refresh may fail between two of them; pids are reused.
  Correct when every share is between nothing and the whole machine, the shares add up to
  the system's, and none is left over from an earlier refresh.
* Agent states: each test takes the state anew, three threads may compute at once, each
  may note a state it read long ago, and a test is `noexcept` although reading the stat file
  may throw. Correct when the agent ends up with the first of its states that fits, as long
  as the file can be read.
* Threads: the main loop, a worker of the pool and a thread of the framework go through
  the same two lists, and not all of them take the guard. Correct when nobody touches an
  object that is gone.

`PROJECT.json` lists the components, the hazards with their source lines and the
properties that cover them, and what each run, mutant and theorem is for.

## Modules

* `ProcessController.tla`: the controller with ExeNameAgents, refresh and the kernel.
* `NetlinkSync.tla` extends it with history variables: two record which notifications
  could have arrived, to say how far the list can follow the kernel; the third, `crossed`,
  which agents an evaluation without the guard may have misled.
* `StateCounter.tla` and `PidFileAgent.tla` extend it with one more agent of the
  respective class; every step of the controller leaves that agent alone.
* `ProcessWatch.tla`: the abstract specification. It knows pids and which of them each
  agent holds, and no identifiers, addresses, duplicates, caches or jobs.
  `WatchRefinement.tla` extends `ProcessController` with the mapping.
* `ControllerThreads.tla`: the same lists in the same code, taken apart to the single
  element and the single pointer, with the guard as a variable. It stands beside
  `ProcessController`, which takes a region under the guard as one step: that this is
  right for those who hold the guard, and where it is not for those who do not, is what
  `ControllerThreads` is for.
* `AtomicController.tla`: what the guard promises, an abstract specification without
  threads, lock and order. `ThreadsRefinement.tla` extends `ControllerThreads` with the
  mapping to it.
* `CpuRefresh.tla`: the numbers of `refresh`, read by read, over exact fractions.
* `AgentStates.tla`: factories, state names, and `computeState` test by test.
* `MCController.tla`, `MCSync.tla`, `MCCounter.tla`, `MCPidFile.tla`, `MCThreads.tla`,
  `MCCpu.tla`, `MCStates.tla`: constants and symmetry for TLC. Every `.cfg` is named after
  its run.
* `ControllerProofs.tla`, `SyncProofs.tla`, `WatchProofs.tla`, `AgentProofs.tla`,
  `ThreadsProofs.tla`, `AtomicProofs.tla`, `CpuProofs.tla`, `StatesProofs.tla`: theorems.

Definitions named as mutants in their comments are not part of any specification: each
is a plausible defect of the definition it precedes, and each property is known to fail
when that definition is replaced by it.

### How ProcessController corresponds to the code

| Model | Code |
|---|---|
| `proc`, `Fork`, `Exec`, `Exit`, `Reap` | the kernel's process table; a child runs its parent's program until it calls exec |
| `events`, `Notify`, `RcvBuf` | the netlink socket; a message is dropped when the socket is not open or full |
| `heap` | `Controller::identifiers`, by address; freed addresses are reused |
| `ptr`, `shown`, `agents` | `Agent::pid`, the state last computed, `Controller::agents` |
| `main`, `todo` | the phases of the constructor and of `reload`, and its local list `current` |
| `jobs` | the thread pool's queue |
| `Init`, `Subscribe` | the constructor, before and after the socket is opened |
| `HandleExec`, `HandleExit` | `handle_event` with `insert(pid)` and `onInsert`, `remove(pid)` |
| `OnTimer`, `ReloadLoad/Purge/Next/End/Fail` | `on_timer` and `reload` |
| `RefreshJob`, `RefreshFail` | `refresh` |
| `UpdateJob`, `Evaluate`, `Show` | the lambda it pushes: `updated(true)` agent by agent, in which `computeState()` comes first and the state is shown after it |
| `due`, `verdicts` | the agents a thread without the guard has still to evaluate; what it has computed and not shown yet |
| `Start`, `StartLate`, `Destroy` | `Agent::start` with `insert(agent)`, its `if(!pid) updated(true)` after the guard is released; `~Agent` with `remove(agent)` |

A region under `guard` is one step, except where the main thread holds the guard while
the kernel and the threads without the guard go on: the constructor, and `reload`, which
takes one step per insertion. An evaluation without the guard, by the update job or at the
end of `start`, computes in one step and shows in another; in between `remove(pid)` may take
the process away and show that, and the agent then shows "available" with a null pointer
until the next update. `reload` lists `/proc` in a step of its own, before it takes the
guard. `GuardFree` is the condition of everything else that needs the guard.

Abstractions. The order of the two lists is left out: where the code takes the first
match, the model takes any. A state of `/proc/<pid>/stat` is "running" (every state but
Z, X and x), "zombie" or "dead"; the state `Stopped`, which the availability test counts
as not available, is left out here (`AgentStates` has all the letters), since no action
of the model stops a process. Agents have the two states of `test.xml`, available and
not-available. A read through a freed pointer yields either verdict. Two equal jobs in
the queue are one. Threads of a watched process are left out (their exit messages name no
registered pid). The framework is external: `updated(true)` is taken to call
`computeState` at once. There is one update job at a time, and an agent is not destroyed by
the thread that is still in its `start`. An evaluation finds the pointer, and what it points
to, in one step: that the pointer is freed between the test and the use, or the agent under
the update, is for `ControllerThreads`; that the state is read in one step and noted in a
later one, and that a file which cannot be read ends the program, for that module and for
`AgentStates`. `Unlistable` says whether listing `/proc` may fail.

### The abstract watcher

`WatchRefinement` maps the registered pids to `known`, the registered agents to
`watching`, the pid of the identifier an agent points to to `held`, and the open socket to
`open`. `Learn` is `insert(pid)` with `onInsert`, `Forget` is `remove(pid)`, `Register` is
`insert(agent)`, `Unregister` is `remove(agent)`. Timer, refresh and update are stutters:
that a second entry for a pid, a reused address or a refresh that fails half way changes
nobody's process is what the refinement says, and `RemovePidOnce`, a removal that stops at
the first entry, breaks it. It holds while the socket is open. Without one, `reload` frees
identifiers behind the agents' backs (see `fallback_death`).

### How ControllerThreads corresponds to the code

| Model | Code |
|---|---|
| `guard`, `Lock`, `Unlock` | `Controller::guard`; no thread of the model asks for it twice, so that it need not be recursive |
| `InsertPid`, `OfferPid`, `OfferEnd` | `insert(pid)`, the loop of `onInsert`, its end |
| `RemovePid`, `DetachAgent`, `ErasePid` | `remove(pid)`: the inner loop over the agents, the erasure |
| `RefreshLock`, `ScanPid`, `ScanEnd` | `refresh`, which reads every identifier's state under the guard |
| `UpdateBegin`, `UpdateAgent`, `UpdateEnd` | the lambda that `refresh` queues: `for(auto agent : agents)`, without the guard |
| `StartLock`, `MatchPid`, `MatchNone`, `StartLate` | `Agent::start`: `insert(agent)`, then `if(!pid) updated(true)` without the guard |
| `TestPointer`, `UsePointer` | `Agent::getState`: `if(pid)`, then `pid->getState()`, which may read `pid` once more |
| `Evaluate`, `OpenStat`, `ReadStat`, `StoreState` | `Identifier::getState`: the cached state, or open, read and store |
| `DestroyDerived`, `RemoveAgent`, `FreeAgent` | the destructor of the derived class, `~Agent`, the memory |
| `crash` | touching freed memory, calling a pure virtual function, an exception out of a `noexcept` function |

An identifier stands for one process here, so that duplicates of a pid do not occur
(`ProcessController` has them). An agent's `states` holds one state: the update evaluates
each agent once. The C++ reader of `pid` may read it once or twice; the model lets
`UsePointer` take either value. `remove(pid)` calls `updated(true)` for an agent whose
pointer is null by then and reads no file, so that `DetachAgent` has no steps inside.

### The atomic controller

`AtomicController` has four operations, `Insert` and `Remove` of an identifier, `Register`
and `Unregister` of an agent, each in one step, over a set of listed identifiers, a set of
registered agents and what each of these holds. `ThreadsRefinement` says where in
`ControllerThreads` they take place: an insertion when the guard is released, a removal
when it is taken. So `InHand`, the identifier that `insert(pid)` is still offering to the
agents or that `remove(pid)` is still taking from them, is not listed and held by nobody,
and `Joining`, the agent `insert(agent)` is still searching for, is not registered. All
other steps are stutters: the walks, the reading of states, the unlocked update and what
ends the program, none of which changes what anybody holds. `OfferPidBusy`, an `onInsert`
that does not ask whether the agent has a process already, breaks the refinement: an
insertion would take away what an agent holds.

### How CpuRefresh corresponds to the code

`ReadSystem` is the part of `refresh` up to the walk, `ReadEntry` one turn of it (the
process's time is read at that moment), `ReadFails` the exception, `ShareOut` the loop
over `pids`, `EndRefresh` the queuing of the update and the release of the guard. `Charge`,
`ChargeOther` and `IdleTick` are clock ticks between any two of those; `End` ends a process,
whose number a younger one may get. Fractions are pairs of integers, and one with
denominator 0 is the NaN that the code gets from 0/0 when no tick passed between two
refreshes. As in the code NaN counts as true in `if(sysusage && totaltime)`. `last` is 0 as
long as an entry was not read. There is one entry per pid here. `quiet` is a history
variable: it counts the reads of an entry since its process was last charged.

### How AgentStates corresponds to the code

`CreateAgent` is `AgentFactory`, `ProcessStateNode` is `StateFactory` for a
`process-state`. A state for a `field-name` is only returned (`state.cc:131`) and not
appended to `states`: `computeState` never tests it, an agent configured by field name never
shows it, and it has no part in the module.

`computeState` in one of three threads is `Begin`, then for each test `ReadStat`, `NoteState`
and `TestState`, then `Show`. `Identifier::getState` reads `/proc` only while the state is
unknown; it takes no lock, so that what one thread has read it may note after another one
noted something newer, and the test then takes what is noted by that time. `Stat` throws
for a file that is there and cannot be opened, read or parsed, or has not got its fields
(`stat.cc:290`, `298`, `306`, `366`); `Agent::getState` and the test are `noexcept`, so that
`ReadStat` may end the program (`ended`): this is a behaviour of the code, no property
denies it, and `SettlesOnTruth` is about the behaviours without it. A test whose Identifier
is removed while it reads it goes on with any answer (`Lost`).

`main` and `refresh` in `eval` are the two holders of the guard: the main loop keeps it until
its result is shown, and a refresh from `RefreshRead`, which reads the process's state, to
`Refresh`, which notes it, or `RefreshFail`. `ProcessState` keeps the wanted state as an
`Identifier` whose pid is the letter and compares it, in C++17, with the built-in `==` of the
two numbers; the model compares the letters. `W` has two names.

## Runs

Every bound is a constant of a `.cfg`: the pids, addresses and agents, the length of the
socket's buffer, the clock ticks, the states of an agent. `HeapRoom` keeps exec messages
from needing an address that the instance has not got; with three addresses and two pids a
pid can have two entries while the other one has one, and the freed address is given to
another pid. Two pids are enough for one agent to choose between two processes and for a
reused pid to meet messages of its former owner; a third pid interacts with no other but
through an agent's choice. `sync` has the two pids and one program, since its agent loses a
process and takes the next whatever program it turned into; `netlink_live` and `fallback`
have one pid, which successive processes reuse, two programs, and (in the first) room for two
messages, so that an exit and an exec of one number wait together. Pids and addresses are
interchangeable, so `sync`, which checks no liveness and no refinement, uses symmetry.

| Run | Instance | What it shows |
|---|---|---|
| `sync` | 2 pids, 1 program, 1 agent, 3 addresses, buffer 2, socket, `get-by-pid` off | nothing announced is forgotten, nothing is left over unless its exit was lost; no registered agent points to a freed identifier; "available" is shown without a process only by a thread that had computed it, without the guard, before the process was removed; agents with a process take no other |
| `netlink_live` | 1 pid, 2 programs, 1 agent, 2 addresses, buffer 2, fair | an end is shown whether its message arrives or is lost, and although evaluations without the guard are shown late; a start that is announced is taken, also behind the exit of the number's former owner; the controller implements `ProcessWatch`, fairness included |
| `fallback` | 1 pid, 2 programs, 1 agent, 2 addresses, no socket, fair | no pid comes into the list without being offered to the agents, and one that waits for it takes it |
| `counter` | 2 pids, 2 addresses, no agent, no socket, fair | one entry per pid; a reload ends with the pids that `/proc` named when it was listed; the list follows `/proc` in both directions; a lasting zombie is counted, and the count returns to zero |
| `pidfile` | 2 pids, 2 addresses, buffer 1, `get-by-pid` off, fair | the pid file is followed |
| `threads` | 2 identifiers, 2 agents, 3 threads | walks under the guard stay on elements of the list; a registered agent points to an element or to nothing, at every step; nobody but the holder of the guard changes the lists or a pointer; the operations take effect one at a time, as in `AtomicController` |
| `cpu` | 2 processes, 7 ticks | shares are fractions that add up; a quiet process shows nothing |
| `states` | up to 2 states out of 2 names, letter S or no process, fair | computeState() stays within the states; unless the program ends the agent comes to show the right state, and stays with it as long as the process does |

Two identifiers and two agents let each list lose the element before, at and behind a
cursor. Of the seven ticks the constructor has seen two; five are enough for two refreshes
with a share for both processes and ticks between their reads. Two states make the first
match matter; two readings, S and the X of a process that is gone, are enough for a
computation to mix them (the first test fails for the one and the second for the other, and
the default is found). `threads` switches
the deadlock check off, since the program may end there: the property is about the way to
that point, and `threads_crash` is about getting there.

Four runs expect a violation. Each states what `test.xml` or a comment of the headers says
and shows where the code does otherwise; all were met while translating the code.

* `fallback_death`: without a socket `reload` frees the identifiers of ended processes
  and does not tell the agents (`load.cc:99`), which then read freed memory and may show
  "available" for ever. `remove(pid)` in `controller.cc:149` does tell them. `Unlistable` is
  FALSE in this run, so that it is the purge that does it; the `clear()` after a failed
  listing (`load.cc:124`) frees identifiers in the same way.
* `pidfile_death`: the pid file agent does not register with the controller, so it is
  never told that its process ended.
* `threads_crash`: `getState` in the update job, or at the end of `start`, uses an identifier
  that the main loop has just freed. `identifier.h:68` declares a mutex for that, which
  nothing locks. With `Vanish` and `Destroys` the same module also reaches an exception out
  of the `noexcept` `getState`, an update that stands on a freed agent, and a call of the
  pure virtual `probe` of an agent that is being destroyed.
* `cpu_stale`: an entry keeps the percentage of an earlier refresh when the machine was
  idle up to the read of `/proc/stat` and the process ran only after it.

Behaviours of the code that a reader may not expect, and that the models have:

* exec of a registered pid adds a second entry; the agent that has the first one keeps it
  although the process runs another program now (`AttachOnlyMatching` is about the moment
  of taking, and `ProcessWatch` says the same);
* without a socket a process that was registered between fork and exec is not probed
  again, so its agent overlooks it until it ends: `NewcomerIsFound` is about processes that
  are not in the list yet;
* when one of two instances of a program ends, its agent is detached and does not look for
  the other one;
* the exit message comes when a process becomes a zombie, and its handler drops the
  identifier: a zombie that arises while the socket is open is never counted. `ZombieIsCounted`
  is checked without a socket. With `get-by-pid` off the states are never read at all and
  the count stays zero in both modes;
* an agent may show an outdated state for as long as a refresh and an update take, also
  after a newer one: the last thread to finish wins. It may in particular show
  "available" with a null pointer, after an evaluation without the guard was overtaken by
  `remove(pid)`; `StaleOnlyWhenCrossed` says that nothing else leads there, `DeathIsShown` and
  `SettlesOnTruth` that it heals;
* a stat file that is there and cannot be read ends the program when an evaluation meets it,
  while a refresh that meets it only fails.

### Fairness

`Fairness` assumes weak fairness of the main loop (subscription, messages, timer,
`reload`), which polls its descriptors and timers for ever, of the update job with the
evaluations that are part of it, and of the end of a `start` that was begun: the last two
take no lock. A refresh job gets strong fairness: it competes for the guard, and while
the controller queues one every ten seconds, not every one of them meets a file it
cannot read. Likewise a listing of `/proc` does not fail every time. The counter's tick
and the pid file agent's lookup compete for the guard too and get strong fairness.
`StateCounter` adds to its properties that `reload` fails only finitely often, because
it empties the list and a count may follow every time. Nothing is assumed of the kernel
or of who creates and destroys agents.

`StatesFairSpec` assumes that `refresh` runs again and again, since the timer queues it
every ten seconds and it gets the guard in the end, and that it does not fail every time
(strong fairness), and that a thread with work goes on (weak fairness). `WatchFairSpec` asks
only that the socket is opened and that every message is handled; `netlink_live` shows that
`Fairness` gives that. `ControllerThreads` and `CpuRefresh` are checked for safety only.

## Proofs

TLAPS proves for all constants that satisfy the named assumptions (programs are not named
like a missing one, every agent watches a program, null is no address and no pid, the buffer
has a length, `SocketOK`, `GetByPid`, `Unlistable`, `Vanish` and `Destroys` are Booleans,
ticks and states are bounded by a number, what is configured has a name, the numbers a
process may have, `pid_t` being of fixed width, are finitely many), and in particular
without a bound on pids, addresses or messages:

* `ControllerProofs`: type correctness, `NoDanglingAgent`, `OneEntryPerPid` and the action
  properties `AttachOnlyMatching`, `ReloadIsExact` and `NewPidIsOffered`. The last two are
  the steps that `ListFollowsProc`, `NewcomerIsFound` and `StartIsSeen` are made of;
  `StepKnown` says for every step what it does to the pids in the list. The inductive
  invariant `IInv` adds to them what they do not remember: that agents which are not
  registered point nowhere, that no agent is registered and nothing queued while the
  constructor runs (so that opening the socket cannot meet a dangling agent), that no socket
  is open during `reload`, and that what `reload` still has to insert is not registered.
  `UpdatedFacts`, `InsertFacts`, `RemoveFacts` and `PolledFacts` say what the operators do
  to the list; the steps are then grouped by which of them they use. `EvaluateFacts` says
  that an evaluation without the guard changes the cached states of the list and nothing
  else of it, whatever its pointer is.
* `SyncProofs`: `NothingForgotten`, `NothingLeftOver`, and that the history variables do
  not restrict the controller. The invariants are not inductive: a queued exit of an
  earlier owner may follow a queued exec. `Heard` therefore asks for an entry that no
  queued exit will remove, or a queued exec that no exit follows; `Covered` asks, for
  each entry and each queued exec, for an exit behind it when the process does not run.
  `ReceiveShifts` and `AppendAt` carry both over the shift of positions in the socket.
  `StaleHasOneCause` proves `StaleOnlyWhenCrossed` from `CrossInv`: of an agent that is not
  `crossed` and has a null pointer, nothing shows "available" and no thread is going to.
  `Settles` is what `Updated` does for that: whoever loses its pointer under the guard is
  evaluated there.
* `WatchProofs`: `ControllerIsAWatch`, the safety half of `ImplementsWatch`, for
  `SocketOK = {TRUE}`. The invariant is `IInv` with `OnSocket` (the socket is open as soon
  as the constructor has ended, and `reload` is never entered); from both,
  `PointersAreGood`: an agent's pointer is null exactly when the mapped `held` is. There is
  one lemma per kind of step; those that only touch caches share `SameHeap`.
* `AgentProofs`: the types of `StateCounter` and `PidFileAgent` (addresses being finitely
  many), and that `IInv` survives the pid file agent's writes to the list without the
  guard, so that `NoDanglingAgent` still holds (`PidFileAgentIsHarmless`).
* `ThreadsProofs`: types (the lists have no element twice), `LockedWalksAreSafe`,
  `PointersInList` and the action property `OnlyTheHolderChanges`, for any number of
  identifiers and agents. The inductive invariant `TInv` says, label by label, what a
  thread there knows: `MainOK`, `PoolOK` and `UserOK` give the operation it is in and the
  elements its cursors stand on, and `Holder` that a thread is in a region under the guard
  exactly when it has the guard, so that two of them never are. In `remove(pid)` the agents
  behind the cursor may still point to the identifier and those before it may not: at the
  end of the loop none does, and the erasure breaks no pointer. `Position`, `First`, `After`
  and `Without` have lemmas of their own on sequences without repetition.
  `OnlyTheHolderChanges` is why `ProcessController` may take the regions of `insert(pid)`,
  `remove(pid)`, `insert(agent)` and `refresh` for one step each.
  `CrashesHaveCauses` says how far `NoCrash`, which the code does not keep, fails: a freed
  agent is touched, or a pure virtual function called, only if agents are destroyed while
  the program runs (`Destroys`), and an exception leaves `getState` only if a process may
  end between two reads (`Vanish`). Without both, the freed identifier of `threads_crash`
  is the only thing that can go wrong. `Calm` is the strengthening: without destruction
  the update's iterator stands on a registered agent although it has no guard.
* `AtomicProofs`: `ThreadsAreAtomic`, that `ControllerThreads` implements
  `AtomicController`, for any number of identifiers and agents, with `Vanish` and
  `Destroys` or without. To `TInv` it adds `NothingYet`: while `insert(agent)` searches, its
  agent holds nothing, so that a search which ends without a match registers an agent with
  a null pointer. `Same` is the stutter; there is one lemma per kind of step, and
  `InTheRegion` for those of the main loop that change one pointer from or to what is in
  hand. The erasure at the end of `remove(pid)` is a stutter because of `NotYetDetached`. With
  `OnlyTheHolderChanges` this is the ground on which `ProcessController` stands: a region
  may be taken for one step, and the step is the operation.
* `CpuProofs`: types, `EachAFraction`, `QuietShowsNothing` and `SharesAddUp`, for any number
  of ticks and processes. `EachAFraction` needs that the reference counters are never ahead of the
  kernel's, and that each entry of `pids` has used something, and no more than
  `totaltime`. `QuietShowsNothing` needs that an entry that was read and not charged since
  holds its process's time. `StalePercentHasOneCause` bounds the finding of `cpu_stale`:
  after a refresh a percentage is 0, comes out of that refresh, or is left over because the
  system was idle before it while the process got on during its walk; nothing else leaves a
  stale one.
  `PercentagesAddUp` is about a sum over the entries, which `Total` computes with a fold.
  It needs two inductions, over the definition of the fold and over the size of the set.
  The library's induction theorems take the hypothesis as an operator, which the provers
  cannot instantiate; `Successors` (a set of numbers with 0 and every successor is all of
  them) takes it as a set, and comes from a least counterexample, strict inclusion being
  well founded on finite sets. With it `TotalIsFold` shows that the recursive definition
  of the fold has a solution, and `TotalOfShares` that shares with one denominator add up
  to the share of the sum. That `totaltime` is the sum of what `pids` has recorded is the
  invariant `UInv`, kept by every step of the walk (`CountedStep`): an entry is recorded at
  most once.
* `StatesProofs`: types and `StaysOnTruth`, for any configuration. The types say that a
  computation that has found nothing yet is at one of the agent's states, at most at their
  number: `computeState` stays within them, in all its threads. `EInv` adds that the refresh
  only reads and notes, that a state which a test has noted stays noted until the process
  goes, and that nothing is read before `start`. `StaysOnTruth` is the half of
  `SettlesOnTruth` that needs no fairness: `Settled(s)` is kept by every step that leaves the
  process alone, since a computation that has only read `s` goes past exactly the tests that
  `s` fails (`AfterAgrees`), the first one it passes is the verdict (`FirstPassed`), and what
  is still to be noted is `s`.

Only model-checked: the liveness properties, that is `DeathIsShown`, `StartIsSeen`,
`NewcomerIsFound`, `ListFollowsProc`, `ZombieIsCounted`, `CountReturnsToZero`,
`PidFileIsFollowed`, `SettlesOnTruth` and the fairness half of `ImplementsWatch`, since
fairness, leads-to and `ENABLED` are out of the prover's reach. Every invariant and every
action property that a passing run checks is proved.

## Not modelled

* The bytes of a datagram and the loop over its messages in `handle_event`: the proc
  connector sends one message of type `NLMSG_DONE` per datagram, so that the loop ends
  after the first. The other branches (`NLMSG_NOOP`, errors) are not taken with it.
* `identifiers.clear()` after a failed `reload` as a step among readers that hold the
  guard: it is one step in `ProcessController`. `ControllerThreads` has the main loop of an
  open socket.
* A constructor that throws because `/proc` cannot be opened, and the order of static
  destructors.
* The states of a field, which are never tested, and the getters of memory figures, `get`
  and `getPercent`: they read `/proc` and compute a number, and change nothing.
  `ProcessUsage` and `Identifier::reset` are not used by the code. The fields of
  `/proc/<pid>/stat` that nobody reads.
* Rounding of `float`, overflow of the kernel's counters, and an idle counter that goes
  back.
* The module's entry point, the test program and the build files.
