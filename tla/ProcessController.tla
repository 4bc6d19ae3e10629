------------------------- MODULE ProcessController -------------------------
(***************************************************************************)
(* The process watcher of udjat-module-process: Process::Controller with   *)
(* the list of Process::Identifier it keeps, the Process::Agent objects    *)
(* registered with it, the thread pool jobs it pushes and, as its          *)
(* environment, the kernel's process table and the netlink proc connector. *)
(*                                                                         *)
(* Everything the code does while it holds Controller::guard is one step,  *)
(* except the constructor and reload(): they hold the guard over several   *)
(* steps, between which the kernel and the threads that take no lock move. *)
(* An agent evaluated without the guard, by the update that refresh()      *)
(* queues or by start(), is computed in one step and shown in another.     *)
(***************************************************************************)
EXTENDS Naturals, Sequences, FiniteSets

CONSTANTS
  Pid,      (* Process numbers the kernel hands out, and reuses.            *)
  Exe,      (* Programs, as readlink("/proc/<pid>/exe") names them.         *)
  Agent,    (* Agents that watch a program (Process::ExeNameAgent).         *)
  Watch,    (* Watch[a]: the exename attribute of agent a.                  *)
  Node,     (* Addresses an Identifier may be allocated at.                 *)
  Null,     (* The null pointer.                                            *)
  RcvBuf,   (* Messages the netlink socket holds before it drops them.      *)
  SocketOK, (* Possible outcomes of opening the netlink socket.             *)
  Unlistable, (* Whether the listing of /proc may fail.                     *)
  GetByPid  (* The configuration value cpu/get-by-pid.                      *)

ASSUME ExeAssumption    == Exe \cap {"zombie", "free", "pid"} = {}
ASSUME WatchAssumption  == Watch \in [Agent -> Exe]
ASSUME NullAssumption   == Null \notin Node
ASSUME RcvBufAssumption == RcvBuf \in Nat
ASSUME SocketAssumption == SocketOK \subseteq BOOLEAN
ASSUME ListAssumption   == Unlistable \in BOOLEAN
ASSUME ConfigAssumption == GetByPid \in BOOLEAN

VARIABLES
  proc,     (* proc[p]: the program p runs, "zombie", or "free".            *)
  events,   (* Messages in the netlink socket, oldest first.                *)
  main,     (* What the main thread is in: the constructor, reload() before *)
            (* or after it takes the guard, or "idle".                      *)
  fd,       (* TRUE iff the netlink socket is open (fd >= 0).               *)
  heap,     (* The Identifier objects of the list, by address.              *)
  todo,     (* reload(): the pids left in `current'.                        *)
  agents,   (* Controller::agents.                                          *)
  ptr,      (* ptr[a]: Agent::pid, a pointer into the list.                 *)
  shown,    (* shown[a]: the state computeState() last gave the agent.      *)
  jobs,     (* Thread pool jobs queued by the controller.                   *)
  due,      (* <<w, a>>: thread w is to call updated(true) of agent a       *)
            (* without the guard, and has not computed its state yet.       *)
  verdicts  (* <<w, a, v>>: it has computed v, and not shown it yet.        *)

kernelVars == <<proc, events>>
loose      == <<due, verdicts>>
agentVars  == <<agents, ptr, shown>>
vars       == <<kernelVars, main, fd, heap, todo, agentVars, jobs, loose>>

(* Who evaluates agents without the guard: the pool's update job, and the  *)
(* thread that is in Agent::start.                                         *)
Worker == {"pool", "user"}

(* Identifier::State, up to what the properties tell apart: "unread" is    *)
(* (State) -1, "running" is every state but Zombie and Dead.               *)
State   == {"unread", "running", "zombie", "dead"}
Verdict == {"available", "not-available"}
Event   == [what : {"exec", "exit"}, pid : Pid]
Entry   == [pid : Pid, state : State]

TypeOK ==
  /\ proc \in [Pid -> Exe \cup {"zombie", "free"}]
  /\ events \in Seq(Event)
  /\ main \in {"ctor", "load", "reload", "idle"}
  /\ fd \in BOOLEAN
  /\ DOMAIN heap \subseteq Node
  /\ heap \in [DOMAIN heap -> Entry]
  /\ todo \subseteq Pid
  /\ agents \subseteq Agent
  /\ ptr \in [Agent -> Node \cup {Null}]
  /\ shown \in [Agent -> Verdict \cup {"none"}]
  /\ jobs \subseteq {"refresh", "update"}
  /\ due \subseteq Worker \X agents
  /\ verdicts \subseteq Worker \X agents \X Verdict

-----------------------------------------------------------------------------
(* What /proc says.                                                        *)

Alive(p)  == proc[p] \in Exe
Listed(p) == proc[p] # "free"

(* Mutant: the default of Stat::state is Undefined instead of 'X'.         *)
StatOfUndefined(p) ==
  IF Alive(p) THEN "running" ELSE IF Listed(p) THEN "zombie" ELSE "undefined"

(* Identifier::Stat(pid).state: a pid without a /proc entry leaves 'X'.    *)
StatOf(p) ==
  IF Alive(p) THEN "running" ELSE IF Listed(p) THEN "zombie" ELSE "dead"

(* Identifier::exename(): the link of a process that is gone cannot be     *)
(* read; a name made of its pid, that is no program's, stands in for it.   *)
ExeName(p) == IF Alive(p) THEN proc[p] ELSE "pid"

(* ExeNameAgent::probe.                                                    *)
Probe(a, p) == ExeName(p) = Watch[a]

(* The pids registered in the list h.                                      *)
Known(h) == {h[n].pid : n \in DOMAIN h}

-----------------------------------------------------------------------------
(* The kernel. A message is dropped, unseen, when nobody listens or when   *)
(* the receive buffer is full (the socket asks for NETLINK_NO_ENOBUFS).    *)

Delivered == fd /\ Len(events) < RcvBuf

Notify(what, p) ==
  events' = IF Delivered THEN Append(events, [what |-> what, pid |-> p])
                         ELSE events

(* Bound: an exec happens only while the heap has an address left for it.  *)
HeapRoom ==
  Cardinality(DOMAIN heap) + Cardinality({i \in DOMAIN events : events[i].what = "exec"})
    < Cardinality(Node)

(* A child runs its parent's program. The fork message is ignored by       *)
(* handle_event (its case is commented out), so none is modelled.          *)
Fork(p, e) ==
  /\ proc[p] = "free"
  /\ proc' = [proc EXCEPT ![p] = e]
  /\ UNCHANGED <<events, main, fd, heap, todo, agentVars, jobs, loose>>

Exec(p, e) ==
  /\ Alive(p) /\ HeapRoom
  /\ proc' = [proc EXCEPT ![p] = e]
  /\ Notify("exec", p)
  /\ UNCHANGED <<main, fd, heap, todo, agentVars, jobs, loose>>

Exit(p) ==
  /\ Alive(p)
  /\ proc' = [proc EXCEPT ![p] = "zombie"]
  /\ Notify("exit", p)
  /\ UNCHANGED <<main, fd, heap, todo, agentVars, jobs, loose>>

Reap(p) ==
  /\ proc[p] = "zombie"
  /\ proc' = [proc EXCEPT ![p] = "free"]
  /\ UNCHANGED <<events, main, fd, heap, todo, agentVars, jobs, loose>>

Kernel ==
  \E p \in Pid : Exit(p) \/ Reap(p) \/ \E e \in Exe : Fork(p, e) \/ Exec(p, e)

-----------------------------------------------------------------------------
(* Identifiers and agents.                                                 *)

(* Identifier::getState: read on first use, cached afterwards.             *)
GetState(h, n) == IF h[n].state = "unread" THEN StatOf(h[n].pid) ELSE h[n].state

(* ProcessAvailable::test, for the pair of states of test.xml.             *)
Judge(s) == IF s \in {"dead", "zombie"} THEN "not-available" ELSE "available"

(* Agent::updated(true) by every agent of A, its pid pointer already being *)
(* q[a] and the list being h: each recomputes its state from getState().   *)
(* A pointer to a freed Identifier reads whatever the memory holds.        *)
Updated(A, h, q) ==
  LET stray == {a \in A : q[a] \notin DOMAIN h \cup {Null}}
      asked == {q[a] : a \in A}   (* Identifiers whose state is read. *)
      Eval(a) == IF q[a] = Null THEN "dead" ELSE GetState(h, q[a])
  IN  /\ \E junk \in [stray -> Verdict] :
           shown' = [a \in Agent |-> IF a \in stray THEN junk[a]
                                     ELSE IF a \in A THEN Judge(Eval(a))
                                     ELSE shown[a]]
      /\ heap' = [n \in DOMAIN h |->
                    IF n \in asked THEN [h[n] EXCEPT !.state = GetState(h, n)] ELSE h[n]]
      /\ ptr' = q

(* Mutants of Takers: `!agent->pid' is not asked; a pid that is in the     *)
(* list already is not offered to the agents again.                        *)
TakersBusy(p)  == {a \in agents : Probe(a, p)}
TakersFirst(p) == {a \in agents : ptr[a] = Null /\ Probe(a, p) /\ p \notin Known(heap)}

(* onInsert: the agents that take the new identifier of p.                 *)
Takers(p) == {a \in agents : ptr[a] = Null /\ Probe(a, p)}

(* Controller::insert(pid). It does not ask whether pid is known already.  *)
InsertPid(p) ==
  \E n \in Node \ DOMAIN heap :
    Updated(Takers(p),
            [m \in DOMAIN heap \cup {n} |->
               IF m = n THEN [pid |-> p, state |-> "unread"] ELSE heap[m]],
            [a \in Agent |-> IF a \in Takers(p) THEN n ELSE ptr[a]])

(* Mutant: the agents of one of the entries of p are told.                 *)
LosersOnce(p) ==
  {a \in agents : p \in Known(heap) /\ ptr[a] = CHOOSE n \in DOMAIN heap : heap[n].pid = p}

(* remove(pid): the registered agents that point to an entry of p.         *)
Losers(p) == {a \in agents : \E n \in DOMAIN heap : ptr[a] = n /\ heap[n].pid = p}

(* Mutants of RemovePid: the pointer is cleared without updated(true); the *)
(* search stops at the first entry of the pid.                             *)
RemovePidSilent(p) ==
  /\ heap' = [n \in {m \in DOMAIN heap : heap[m].pid # p} |-> heap[n]]
  /\ ptr' = [a \in Agent |-> IF a \in Losers(p) THEN Null ELSE ptr[a]]
  /\ UNCHANGED shown

RemovePidOnce(p) ==
  \/ p \notin Known(heap) /\ UNCHANGED <<heap, ptr, shown>>
  \/ \E n \in DOMAIN heap :
       LET lose == {a \in agents : ptr[a] = n}
       IN  /\ heap[n].pid = p
           /\ Updated(lose, [m \in DOMAIN heap \ {n} |-> heap[m]],
                      [a \in Agent |-> IF a \in lose THEN Null ELSE ptr[a]])

(* Controller::remove(pid).                                                *)
RemovePid(p) ==
  Updated(Losers(p),
          [n \in {m \in DOMAIN heap : heap[m].pid # p} |-> heap[n]],
          [a \in Agent |-> IF a \in Losers(p) THEN Null ELSE ptr[a]])

-----------------------------------------------------------------------------
(* The main thread.                                                        *)

(* The main thread holds Controller::guard over several steps only in the  *)
(* constructor and in the second part of reload().                         *)
GuardFree == main \in {"idle", "load"}

(* The end of the constructor: the socket is opened, or is not; the timer  *)
(* is armed; the first refresh is queued. The guard is released.           *)
Subscribe ==
  /\ main = "ctor"
  /\ main' = "idle"
  /\ fd' \in SocketOK
  /\ jobs' = {"refresh"}
  /\ UNCHANGED <<kernelVars, heap, todo, agentVars, loose>>

(* Mutant: the newest message is handled first.                            *)
ReceiveNewest(what, p) ==
  /\ main = "idle" /\ fd
  /\ events # <<>> /\ events[Len(events)] = [what |-> what, pid |-> p]
  /\ events' = SubSeq(events, 1, Len(events) - 1)
  /\ UNCHANGED <<proc, main, fd, todo, agents, jobs, loose>>

(* handle_event: one message off the socket.                               *)
Receive(what, p) ==
  /\ main = "idle" /\ fd
  /\ events # <<>> /\ Head(events) = [what |-> what, pid |-> p]
  /\ events' = Tail(events)
  /\ UNCHANGED <<proc, main, fd, todo, agents, jobs, loose>>

HandleExec(p) == Receive("exec", p) /\ InsertPid(p)
HandleExit(p) == Receive("exit", p) /\ RemovePid(p)
HandleEvent   == \E p \in Pid : HandleExec(p) \/ HandleExit(p)

(* on_timer with a working socket.                                         *)
OnTimer ==
  /\ main = "idle" /\ fd
  /\ jobs' = jobs \cup {"refresh"}
  /\ UNCHANGED <<kernelVars, main, fd, heap, todo, agentVars, loose>>

(* Mutant: reload() only adds.                                             *)
PurgedNone == heap

(* reload(): the list without the pids that /proc did not name. No agent   *)
(* is told.                                                                *)
Purged == [n \in {m \in DOMAIN heap : heap[m].pid \in todo} |-> heap[n]]

(* Mutant: the pids that are registered already are not filtered out.      *)
MissingAll(h) == todo

(* reload(): the pids to insert, given the list h it has purged.           *)
Missing(h) == todo \ Known(h)

(* on_timer without a socket: reload() lists /proc, without a lock ...     *)
ReloadLoad ==
  /\ main = "idle" /\ ~fd
  /\ main' = "load"
  /\ todo' = {p \in Pid : Listed(p)}
  /\ UNCHANGED <<kernelVars, fd, heap, agentVars, jobs, loose>>

(* ... takes the guard, drops the entries of the pids that are gone,       *)
ReloadPurge ==
  /\ main = "load"
  /\ main' = "reload"
  /\ heap' = Purged
  /\ todo' = Missing(Purged)
  /\ UNCHANGED <<kernelVars, fd, agentVars, jobs, loose>>

(* Mutant: reload() adds to the list itself, and offers nothing.           *)
ReloadNextUnasked(p) ==
  /\ main = "reload" /\ p \in todo
  /\ todo' = todo \ {p}
  /\ \E n \in Node \ DOMAIN heap :
       heap' = [m \in DOMAIN heap \cup {n} |->
                  IF m = n THEN [pid |-> p, state |-> "unread"] ELSE heap[m]]
  /\ UNCHANGED <<kernelVars, main, fd, agentVars, jobs, loose>>

(* inserts what is missing, and leaves; on_timer then queues a refresh.    *)
ReloadNext(p) ==
  /\ main = "reload" /\ p \in todo
  /\ todo' = todo \ {p}
  /\ InsertPid(p)
  /\ UNCHANGED <<kernelVars, main, fd, agents, jobs, loose>>

ReloadEnd ==
  /\ main = "reload" /\ todo = {}
  /\ main' = "idle"
  /\ jobs' = jobs \cup {"refresh"}
  /\ UNCHANGED <<kernelVars, fd, heap, todo, agentVars, loose>>

(* /proc cannot be opened: reload() catches that and empties the list.     *)
ReloadFail ==
  /\ main = "idle" /\ ~fd /\ Unlistable
  /\ heap' = [n \in {} |-> heap[n]]
  /\ jobs' = jobs \cup {"refresh"}
  /\ UNCHANGED <<kernelVars, main, fd, todo, agentVars, loose>>

-----------------------------------------------------------------------------
(* The thread pool.                                                        *)

(* Mutant: refresh reads a state through the cache of getState().          *)
PolledOnce(S) ==
  [n \in DOMAIN heap |->
     IF GetByPid /\ n \in S THEN [heap[n] EXCEPT !.state = GetState(heap, n)] ELSE heap[n]]

(* The list with the cached state of the entries of S read again; refresh  *)
(* reads no entry at all unless it is to compute the CPU use by pid.       *)
Polled(S) ==
  [n \in DOMAIN heap |->
     IF GetByPid /\ n \in S THEN [heap[n] EXCEPT !.state = StatOf(heap[n].pid)] ELSE heap[n]]

(* Mutant: the agents learn of a refresh only while the socket is closed.  *)
AfterRefreshPolling == IF fd THEN {} ELSE {"update"}

(* What a refresh that went through leaves in the pool.                    *)
AfterRefresh == {"update"}

(* refresh(): every entry's state is read, then the agents' update is      *)
(* queued. It needs the guard.                                             *)
RefreshJob ==
  /\ "refresh" \in jobs /\ GuardFree
  /\ heap' = Polled(DOMAIN heap)
  /\ jobs' = (jobs \ {"refresh"}) \cup AfterRefresh
  /\ UNCHANGED <<kernelVars, main, fd, todo, agentVars, loose>>

(* refresh() that meets a file of /proc it cannot read (the process ends   *)
(* between open and read, no descriptor left): the entries after it keep   *)
(* their state and the agents' update is not queued.                       *)
RefreshFail ==
  /\ "refresh" \in jobs /\ GuardFree
  /\ \E S \in SUBSET DOMAIN heap : S # DOMAIN heap /\ heap' = Polled(S)
  /\ jobs' = jobs \ {"refresh"}
  /\ UNCHANGED <<kernelVars, main, fd, todo, agentVars, loose>>

(* The update queued by refresh() takes no lock. A second one waits for    *)
(* the first: bound of one such job at a time.                             *)
Updating ==
  (\E t \in due : t[1] = "pool") \/ (\E t \in verdicts : t[1] = "pool")

UpdateJob ==
  /\ "update" \in jobs /\ ~Updating
  /\ jobs' = jobs \ {"update"}
  /\ due' = due \cup ({"pool"} \X agents)
  /\ UNCHANGED <<kernelVars, main, fd, heap, todo, agentVars, verdicts>>

(* computeState() of an agent, up to its verdict v: the pointer is read as *)
(* it is now, and reads whatever the memory holds once it dangles.         *)
Computes(a, v) ==
  \/ ptr[a] = Null /\ v = Judge("dead") /\ UNCHANGED heap
  \/ /\ ptr[a] \in DOMAIN heap
     /\ v = Judge(GetState(heap, ptr[a]))
     /\ heap' = [heap EXCEPT ![ptr[a]].state = GetState(heap, ptr[a])]
  \/ ptr[a] \notin DOMAIN heap \cup {Null} /\ v \in Verdict /\ UNCHANGED heap

(* updated(true) without the guard: what is computed now is shown later,   *)
(* whatever the guarded steps make of the agent in between. The update     *)
(* job goes through its agents one after the other.                        *)
Evaluate(w, a) ==
  /\ <<w, a>> \in due
  /\ w = "pool" => \A t \in verdicts : t[1] # "pool"
  /\ due' = due \ {<<w, a>>}
  /\ \E v \in Verdict : Computes(a, v) /\ verdicts' = verdicts \cup {<<w, a, v>>}
  /\ UNCHANGED <<kernelVars, main, fd, todo, agentVars, jobs>>

Show(w, a, v) ==
  /\ <<w, a, v>> \in verdicts
  /\ verdicts' = verdicts \ {<<w, a, v>>}
  /\ shown' = [shown EXCEPT ![a] = v]
  /\ UNCHANGED <<kernelVars, main, fd, heap, todo, agents, ptr, jobs, due>>

-----------------------------------------------------------------------------
(* Agents come and go.                                                     *)

(* Controller::insert(agent): the identifiers that match the agent.        *)
Matching(a) == {n \in DOMAIN heap : Probe(a, heap[n].pid)}

(* An update that goes through the agents comes to a new one as well.      *)
Joined(a) == IF Updating THEN {<<"pool", a>>} ELSE {}

(* Agent::start: under the guard the agent registers, takes the first      *)
(* identifier that matches (any of them here) and shows it; without one .. *)
Start(a) ==
  /\ GuardFree /\ a \notin agents
  /\ agents' = agents \cup {a}
  /\ \/ /\ \E n \in Matching(a) : Updated({a}, heap, [ptr EXCEPT ![a] = n])
        /\ due' = due \cup Joined(a)
     \/ /\ Matching(a) = {}
        /\ due' = due \cup {<<"user", a>>} \cup Joined(a)
        /\ UNCHANGED <<heap, ptr, shown>>
  /\ UNCHANGED <<kernelVars, main, fd, todo, jobs, verdicts>>

(* .. it asks `!pid' after the guard is released, and evaluates itself     *)
(* only if nobody has given it an identifier by then.                      *)
StartLate(a) ==
  /\ <<"user", a>> \in due /\ ptr[a] # Null
  /\ due' = due \ {<<"user", a>>}
  /\ UNCHANGED <<kernelVars, main, fd, heap, todo, agentVars, jobs, verdicts>>

(* The thread that starts agent a is still in start().                     *)
Starting(a) == <<"user", a>> \in due \/ \E v \in Verdict : <<"user", a, v>> \in verdicts

(* Mutant: the update goes on to an agent that is gone.                    *)
DestroyListed(a) ==
  /\ GuardFree /\ a \in agents /\ ~Starting(a)
  /\ agents' = agents \ {a}
  /\ ptr' = [ptr EXCEPT ![a] = Null]
  /\ shown' = [shown EXCEPT ![a] = "none"]
  /\ UNCHANGED <<kernelVars, main, fd, heap, todo, jobs, loose>>

(* ~Agent: Controller::remove(agent), by a thread that is not in start().  *)
(* The update's turn for the agent goes with it: what an update that is at *)
(* the agent touches then is the subject of ControllerThreads.             *)
Destroy(a) ==
  /\ GuardFree /\ a \in agents /\ ~Starting(a)
  /\ agents' = agents \ {a}
  /\ ptr' = [ptr EXCEPT ![a] = Null]
  /\ shown' = [shown EXCEPT ![a] = "none"]
  /\ due' = {t \in due : t[2] # a}
  /\ verdicts' = {t \in verdicts : t[2] # a}
  /\ UNCHANGED <<kernelVars, main, fd, heap, todo, jobs>>

-----------------------------------------------------------------------------
(* The constructor has read /proc, in any state it may be in, and made one *)
(* identifier per process; the netlink socket is still to be opened.       *)
Init ==
  /\ proc \in [Pid -> Exe \cup {"zombie", "free"}]
  /\ events = <<>>
  /\ main = "ctor"
  /\ fd = FALSE
  /\ \E at \in [Pid -> Node] :
       /\ \A p, q \in Pid : at[p] = at[q] => p = q
       /\ heap = [n \in {at[p] : p \in {q \in Pid : Listed(q)}} |->
                    [pid |-> CHOOSE p \in Pid : at[p] = n, state |-> "unread"]]
  /\ todo = {}
  /\ agents = {}
  /\ ptr = [a \in Agent |-> Null]
  /\ shown = [a \in Agent |-> "none"]
  /\ jobs = {}
  /\ due = {}
  /\ verdicts = {}

Reload     == ReloadLoad \/ ReloadPurge \/ ReloadEnd \/ \E p \in Pid : ReloadNext(p)
MainThread == Subscribe \/ HandleEvent \/ OnTimer \/ Reload \/ ReloadFail
Evaluation(w, a) == Evaluate(w, a) \/ \E v \in Verdict : Show(w, a, v)
Update     == UpdateJob \/ \E a \in Agent : Evaluation("pool", a)
Pool       == RefreshJob \/ RefreshFail \/ Update
Agents     == \E a \in Agent : Start(a) \/ Destroy(a) \/ StartLate(a) \/ Evaluation("user", a)

Next == Kernel \/ MainThread \/ Pool \/ Agents

Spec == Init /\ [][Next]_vars

(* The main loop polls its socket and its timer, the pool runs what it was *)
(* given; a refresh does not fail every time it is tried. Nothing is       *)
(* assumed of the kernel or of who creates and destroys agents, but that   *)
(* a start() that was begun ends.                                          *)
Fairness ==
  /\ WF_vars(Subscribe) /\ WF_vars(HandleEvent) /\ WF_vars(OnTimer) /\ WF_vars(Reload)
  /\ SF_vars(RefreshJob) /\ WF_vars(Update)
  /\ \A a \in Agent : WF_vars(StartLate(a) \/ Evaluation("user", a))

FairSpec == Spec /\ Fairness

-----------------------------------------------------------------------------
(* Properties.                                                             *)

(* With a working netlink socket, the pid pointer of a registered agent is *)
(* null or points to an Identifier of the list: whatever order entries are *)
(* inserted, removed and probed in, remove(pid) leaves no agent behind     *)
(* that would read freed memory.                                           *)
NoDanglingAgent == fd => \A a \in agents : ptr[a] \in DOMAIN heap \cup {Null}

(* Without a socket the list has at most one entry per pid, between        *)
(* reloads and at every insertion of one.                                  *)
OneEntryPerPid ==
  ~fd => \A m, n \in DOMAIN heap : heap[m].pid = heap[n].pid => m = n

(* An agent takes a process only when it has none, and only a process that *)
(* then runs the program it watches; it never jumps from one to another.   *)
AttachOnlyMatching ==
  [][\A a \in Agent : ptr'[a] \notin {ptr[a], Null} =>
       /\ ptr[a] = Null
       /\ ptr'[a] \in DOMAIN heap' /\ Probe(a, heap'[ptr'[a]].pid)]_vars

(* Without a socket, a process is in the list some time after it appears   *)
(* in /proc and is gone from it some time after it leaves it.              *)
ListFollowsProc ==
  \A p \in Pid : /\ Listed(p) ~> (p \in Known(heap) \/ ~Listed(p))
                 /\ ~Listed(p) ~> (p \notin Known(heap) \/ Listed(p))

(* The agent reports as available a process that does not exist any more.  *)
ShowsDead(a) ==
  /\ shown[a] = "available"
  /\ \/ ptr[a] \notin DOMAIN heap
     \/ ~Alive(heap[ptr[a]].pid)

(* A process that ends is noticed by the agents that hold it, whether its  *)
(* exit message arrives (remove) or was dropped (refresh reads 'X').       *)
DeathIsShown == \A a \in Agent : ShowsDead(a) ~> ~ShowsDead(a)

(* A program that starts while its agent has no process is taken, or has   *)
(* gone, once its exec message has been read.                              *)
Announced(a, p) ==
  /\ a \in agents /\ ptr[a] = Null /\ Probe(a, p)
  /\ [what |-> "exec", pid |-> p] \in {events[i] : i \in DOMAIN events}
StartIsSeen ==
  \A a \in Agent, p \in Pid : Announced(a, p) ~> (ptr[a] # Null \/ a \notin agents \/ ~Probe(a, p))

(* Without a socket, a program that runs, is not in the list yet and is    *)
(* watched by an agent without a process is taken once reload() has seen   *)
(* it, or has gone. (One that was listed before its exec is not.)          *)
Newcomer(a, p) ==
  /\ ~fd /\ p \notin Known(heap)
  /\ a \in agents /\ ptr[a] = Null /\ Probe(a, p)
NewcomerIsFound ==
  \A a \in Agent, p \in Pid : Newcomer(a, p) ~> (ptr[a] # Null \/ a \notin agents \/ ~Probe(a, p))

(* A reload ends with exactly the pids that /proc named when it was listed *)
(* before the guard was taken, whatever refreshes, updates and agents did  *)
(* since: those in the list and those still to insert make them up.        *)
Reloading == main \in {"load", "reload"}
Promised  == IF main = "reload" THEN Known(heap) \cup todo ELSE todo
ReloadIsExact ==
  [][Reloading =>
       /\ main' = "idle" => Known(heap') = Promised
       /\ main' # "idle" => Promised' = Promised]_vars

(* Whichever way a pid that was unknown comes into the list, no registered *)
(* agent that waits for its program is left without a process.             *)
NewPidIsOffered ==
  [][\A p \in Known(heap') \ Known(heap), a \in agents :
       ptr[a] = Null /\ Probe(a, p) => ptr'[a] # Null]_vars

=============================================================================
