----------------------------- MODULE SyncProofs -----------------------------
(***************************************************************************)
(* Theorems about NetlinkSync: the list follows the kernel's process table *)
(* as far as the notifications go, for every size of the socket's buffer   *)
(* and however many messages are lost.                                     *)
(***************************************************************************)
EXTENDS NetlinkSync, ControllerProofs

(* The i-th message waiting in the socket is this one.                     *)
At(i, what, p) == i \in DOMAIN events /\ events[i] = [what |-> what, pid |-> p]

(* No exit of p waits behind the i-th message.                             *)
NoExitAfter(i, p) == \A j \in DOMAIN events : j > i => ~At(j, "exit", p)

(* p will be in the list once all that waits has been handled: it is there *)
(* and stays, or an exec puts it there that no exit follows. The property  *)
(* alone is not inductive: an exit of an earlier owner of p, still queued, *)
(* would take p out of the list again.                                     *)
Heard(p) ==
  \/ p \in Known(heap) /\ NoExitAfter(0, p)
  \/ \E i \in DOMAIN events : At(i, "exec", p) /\ NoExitAfter(i, p)

(* An entry that is in the list, or that the i-th message puts there, does *)
(* not outlive its process for ever.                                       *)
Covered(i, p) ==
  \/ Alive(p) \/ p \in unheard
  \/ \E j \in DOMAIN events : j > i /\ At(j, "exit", p)

Accounted(p) ==
  /\ p \in Known(heap) => Covered(0, p)
  /\ \A i \in DOMAIN events : At(i, "exec", p) => Covered(i, p)

(* The inductive invariant.                                                *)
SInv ==
  /\ IInv
  /\ announced \subseteq {p \in Pid : Alive(p)}
  /\ unheard \subseteq Pid
  /\ ~fd => events = <<>>
  /\ Netlink => /\ \A p \in announced : Heard(p)
                /\ \A p \in Pid : Accounted(p)

-----------------------------------------------------------------------------
(* The history variables add nothing to what the controller may do.        *)
LEMMA SyncStep ==
  ASSUME IInv, [SyncNext]_syncVars
  PROVE  [Next]_vars /\ IInv'
<1>1. SyncNext => Next
  BY DEF SyncNext, SyncExit, SyncExec, Unrecorded, Next, Kernel
<1>2. UNCHANGED syncVars => UNCHANGED vars
  BY DEF syncVars
<1> QED BY <1>1, <1>2, NextIInv

(* At the start nothing waits, and the list is what /proc names.           *)
LEMMA SyncInitSInv == SyncInit => SInv
<1> SUFFICES ASSUME SyncInit PROVE SInv
  OBVIOUS
<1>1. IInv /\ events = <<>>
  BY InitIInv DEF SyncInit, Init
<1>2. PICK at \in [Pid -> Node] :
        /\ \A p, q \in Pid : at[p] = at[q] => p = q
        /\ heap = [n \in {at[p] : p \in {q \in Pid : Listed(q)}} |->
                     [pid |-> CHOOSE p \in Pid : at[p] = n, state |-> "unread"]]
  BY DEF SyncInit, Init
<1>3. ASSUME NEW p \in Pid PROVE p \in Known(heap) <=> Listed(p)
  <2>1. \A n \in DOMAIN heap : heap[n].pid = CHOOSE q \in Pid : at[q] = n
    BY <1>2
  <2>2. DOMAIN heap = {at[q] : q \in {r \in Pid : Listed(r)}}
    BY <1>2
  <2>3. \A n \in DOMAIN heap : heap[n].pid \in Pid /\ at[heap[n].pid] = n
    BY <2>1, <2>2
  <2>4. \A q \in Pid : Listed(q) => at[q] \in DOMAIN heap /\ heap[at[q]].pid = q
    BY <1>2, <2>2, <2>3
  <2>5. \A n \in DOMAIN heap : \E q \in Pid : Listed(q) /\ heap[n].pid = q
    BY <2>2, <2>4
  <2> QED BY <2>4, <2>5 DEF Known
<1>4. \A p \in Pid : Alive(p) => Listed(p)
  BY ExeAssumption DEF Alive, Listed
<1>5. \A p \in announced : Heard(p)
  BY <1>1, <1>3, <1>4 DEF SyncInit, Heard, NoExitAfter
<1>6. \A p \in Pid : Accounted(p)
  BY <1>1, <1>3 DEF SyncInit, Accounted, Covered, At
<1> QED BY <1>1, <1>5, <1>6 DEF SInv, SyncInit

(* A step that leaves the kernel, the socket's content and the registered  *)
(* pids alone.                                                             *)
LEMMA StillSInv ==
  ASSUME SInv, IInv', UNCHANGED <<proc, events, announced, unheard>>,
         Known(heap') = Known(heap), ~fd' => ~fd, Netlink' => Netlink
  PROVE  SInv'
BY DEF SInv, Heard, NoExitAfter, At, Accounted, Covered, Alive

(* A step of reload(), or of on_timer when that fails: no socket is open.  *)
LEMMA ReloadSInv ==
  ASSUME SInv, IInv', UNCHANGED <<proc, events, announced, unheard>>,
         ~fd, ~fd', main' # "ctor"
  PROVE  SInv'
BY DEF SInv, Netlink, Alive

(* A process is forked or reaped: it did not run before, or does not now.  *)
LEMMA ForkReapSInv ==
  ASSUME SInv, IInv', NEW p \in Pid, ~Alive(p),
         UNCHANGED <<events, main, fd, heap, announced, unheard>>,
         \A q \in Pid : q # p => proc'[q] = proc[q]
  PROVE  SInv'
<1>1. \A q \in Pid : Alive(q) => Alive(q)'
  BY DEF Alive
<1>2. announced' \subseteq {q \in Pid : Alive(q)'}
  BY <1>1 DEF SInv
<1>3. \A q \in Pid : Accounted(q) => Accounted(q)'
  BY <1>1 DEF Accounted, Covered, At
<1>4. \A q \in announced : Heard(q) => Heard(q)'
  BY DEF Heard, NoExitAfter, At
<1> QED BY <1>2, <1>3, <1>4 DEF SInv, Netlink

(* What Append and Tail do to the messages that wait.                      *)
LEMMA AppendAt ==
  ASSUME events \in Seq(Event), NEW what \in {"exec", "exit"}, NEW p \in Pid,
         events' = Append(events, [what |-> what, pid |-> p])
  PROVE  /\ DOMAIN events' = 1 .. Len(events) + 1
         /\ DOMAIN events = 1 .. Len(events)
         /\ \A i \in DOMAIN events : events'[i] = events[i]
         /\ events'[Len(events) + 1] = [what |-> what, pid |-> p]
OBVIOUS

LEMMA TailAt ==
  ASSUME events \in Seq(Event), events # <<>>, events' = Tail(events)
  PROVE  /\ DOMAIN events = 1 .. Len(events) /\ Len(events) \in Nat \ {0}
         /\ DOMAIN events' = 1 .. Len(events) - 1
         /\ \A i \in DOMAIN events' : events'[i] = events[i + 1]
         /\ Head(events) = events[1]
OBVIOUS

(* A program is executed. Its message, if it was put on the socket, is the *)
(* last one: no exit follows it, and the process runs.                     *)
LEMMA ExecSInv ==
  ASSUME SInv, IInv', NEW p \in Pid, NEW e \in Exe, SyncExec(p, e)
  PROVE  SInv'
<1>1. /\ Alive(p) /\ proc' = [proc EXCEPT ![p] = e] /\ Notify("exec", p)
      /\ UNCHANGED <<main, fd, heap, unheard>>
      /\ announced' = IF Delivered THEN announced \cup {p} ELSE announced
  BY DEF SyncExec, Exec
<1>2. proc \in [Pid -> Exe \cup {"zombie", "free"}] /\ events \in Seq(Event)
  BY DEF SInv, IInv, TypeOK
<1>3. \A q \in Pid : Alive(q)' <=> Alive(q)
  BY <1>1, <1>2 DEF Alive
<1>4. announced' \subseteq {q \in Pid : Alive(q)'}
  BY <1>1, <1>3 DEF SInv
<1>5. CASE ~Delivered
  BY <1>1, <1>3, <1>4, <1>5 DEF SInv, Notify, Netlink, Heard, NoExitAfter, At, Accounted, Covered
<1>6. CASE Delivered
  <2>1. events' = Append(events, [what |-> "exec", pid |-> p]) /\ fd
    BY <1>1, <1>6 DEF Notify, Delivered
  <2>2. /\ DOMAIN events' = 1 .. Len(events) + 1
        /\ DOMAIN events = 1 .. Len(events)
        /\ \A i \in DOMAIN events : events'[i] = events[i]
        /\ events'[Len(events) + 1] = [what |-> "exec", pid |-> p]
    BY <1>2, <2>1, AppendAt
  <2>3. Len(events) \in Nat
    BY <1>2
  <2>4. ASSUME NEW q \in Pid, NEW i \in DOMAIN events \cup {0}
        PROVE  /\ NoExitAfter(i, q) => NoExitAfter(i, q)'
               /\ Covered(i, q) => Covered(i, q)'
    BY <1>1, <1>3, <2>2, <2>3 DEF NoExitAfter, Covered, At
  <2>5. Heard(p)'
    <3>1. PICK k \in Nat : k = Len(events) + 1
      BY <2>3
    <3>2. At(k, "exec", p)' /\ NoExitAfter(k, p)' /\ k \in DOMAIN events'
      BY <2>2, <2>3, <3>1 DEF At, NoExitAfter
    <3> QED BY <3>2 DEF Heard
  <2>6. ASSUME NEW q \in Pid, Heard(q) PROVE Heard(q)'
    <3>1. CASE q \in Known(heap) /\ NoExitAfter(0, q)
      BY <1>1, <2>4, <3>1 DEF Heard
    <3>2. ASSUME NEW i \in DOMAIN events, At(i, "exec", q), NoExitAfter(i, q)
          PROVE  Heard(q)'
      BY <2>2, <2>3, <2>4, <3>2 DEF Heard, At
    <3> QED BY <2>6, <3>1, <3>2 DEF Heard
  <2>7. ASSUME NEW q \in Pid, Accounted(q) PROVE Accounted(q)'
    <3>1. q \in Known(heap)' => Covered(0, q)'
      BY <1>1, <2>4, <2>7 DEF Accounted
    <3>2. ASSUME NEW i \in DOMAIN events', At(i, "exec", q)' PROVE Covered(i, q)'
      <4>1. CASE i \in DOMAIN events
        BY <2>2, <2>4, <2>7, <3>2, <4>1 DEF Accounted, At
      <4>2. CASE i = Len(events) + 1
        BY <1>1, <1>3, <2>2, <3>2, <4>2 DEF At, Covered
      <4> QED BY <2>2, <2>3, <4>1, <4>2
    <3> QED BY <3>1, <3>2 DEF Accounted
  <2> QED BY <1>1, <1>4, <2>1, <2>5, <2>6, <2>7 DEF SInv, Netlink
<1> QED BY <1>5, <1>6

(* A process ends. Its message, if it was put on the socket, is behind all *)
(* the others; if it was not, the pid is unheard from now on.              *)
LEMMA ExitSInv ==
  ASSUME SInv, IInv', NEW p \in Pid, SyncExit(p)
  PROVE  SInv'
<1>1. /\ proc' = [proc EXCEPT ![p] = "zombie"] /\ Notify("exit", p)
      /\ UNCHANGED <<main, fd, heap>>
      /\ announced' = announced \ {p}
      /\ unheard' = IF Delivered THEN unheard ELSE unheard \cup {p}
  BY DEF SyncExit, Exit
<1>2. proc \in [Pid -> Exe \cup {"zombie", "free"}] /\ events \in Seq(Event)
  BY DEF SInv, IInv, TypeOK
<1>3. \A q \in Pid : q # p => (Alive(q)' <=> Alive(q))
  BY <1>1, <1>2 DEF Alive
<1>4. announced' \subseteq {q \in Pid : Alive(q)'} /\ unheard' \subseteq Pid
  BY <1>1, <1>3 DEF SInv
<1>5. CASE ~Delivered
  <2>1. events' = events /\ p \in unheard' /\ unheard \subseteq unheard'
    BY <1>1, <1>5 DEF Notify
  <2>2. \A q \in Pid : Heard(q) => Heard(q)'
    BY <1>1, <2>1 DEF Heard, NoExitAfter, At
  <2>3. \A q \in Pid : Accounted(q) => Accounted(q)'
    BY <1>1, <1>3, <2>1 DEF Accounted, Covered, At
  <2> QED BY <1>1, <1>4, <2>1, <2>2, <2>3 DEF SInv, Netlink
<1>6. CASE Delivered
  <2>1. events' = Append(events, [what |-> "exit", pid |-> p]) /\ fd /\ unheard' = unheard
    BY <1>1, <1>6 DEF Notify, Delivered
  <2>2. /\ DOMAIN events' = 1 .. Len(events) + 1
        /\ DOMAIN events = 1 .. Len(events)
        /\ \A i \in DOMAIN events : events'[i] = events[i]
        /\ events'[Len(events) + 1] = [what |-> "exit", pid |-> p]
    BY <1>2, <2>1, AppendAt
  <2>3. Len(events) \in Nat
    BY <1>2
  <2>4. ASSUME NEW q \in Pid, q # p, Heard(q) PROVE Heard(q)'
    <3>1. ASSUME NEW i \in DOMAIN events \cup {0}, NoExitAfter(i, q)
          PROVE  NoExitAfter(i, q)'
      BY <2>2, <2>3, <2>4, <3>1 DEF NoExitAfter, At
    <3>2. CASE q \in Known(heap) /\ NoExitAfter(0, q)
      BY <1>1, <3>1, <3>2 DEF Heard
    <3>3. ASSUME NEW i \in DOMAIN events, At(i, "exec", q), NoExitAfter(i, q)
          PROVE  Heard(q)'
      BY <2>2, <2>3, <3>1, <3>3 DEF Heard, At
    <3> QED BY <2>4, <3>2, <3>3 DEF Heard
  <2>5. ASSUME NEW q \in Pid, NEW i \in DOMAIN events \cup {0}, Covered(i, q)
        PROVE  Covered(i, q)'
    <3>1. CASE q = p
      <4>1. PICK k \in Nat : k = Len(events) + 1
        BY <2>3
      <4>2. At(k, "exit", p)' /\ k \in DOMAIN events' /\ k > i
        BY <2>2, <2>3, <4>1 DEF At
      <4> QED BY <3>1, <4>2 DEF Covered
    <3>2. CASE q # p
      BY <1>3, <2>1, <2>2, <2>3, <2>5, <3>2 DEF Covered, At
    <3> QED BY <3>1, <3>2
  <2>6. ASSUME NEW q \in Pid, Accounted(q) PROVE Accounted(q)'
    <3>1. q \in Known(heap)' => Covered(0, q)'
      BY <1>1, <2>5, <2>6 DEF Accounted
    <3>2. ASSUME NEW i \in DOMAIN events', At(i, "exec", q)' PROVE Covered(i, q)'
      <4>1. i \in DOMAIN events
        BY <2>2, <2>3, <3>2 DEF At
      <4> QED BY <2>2, <2>5, <2>6, <3>2, <4>1 DEF Accounted, At
    <3> QED BY <3>1, <3>2 DEF Accounted
  <2> QED BY <1>1, <1>4, <2>1, <2>4, <2>6 DEF SInv, Netlink
<1> QED BY <1>5, <1>6

(* A message is taken off the socket: the i-th one is now the one before.  *)
LEMMA ReceiveShifts ==
  ASSUME SInv, NEW what \in {"exec", "exit"}, NEW p \in Pid, Receive(what, p),
         unheard' = unheard
  PROVE  /\ At(1, what, p)
         /\ \A j \in DOMAIN events' : j + 1 \in DOMAIN events /\ events'[j] = events[j + 1]
         /\ \A i \in DOMAIN events : i > 1 => i - 1 \in DOMAIN events' /\ events'[i - 1] = events[i]
         /\ \A i \in DOMAIN events : i \in Nat \ {0}
         /\ \A i \in DOMAIN events' : i \in Nat \ {0}
<1>1. events \in Seq(Event)
  BY DEF SInv, IInv, TypeOK
<1>2. events # <<>> /\ events' = Tail(events) /\ Head(events) = [what |-> what, pid |-> p]
  BY DEF Receive
<1>3. /\ DOMAIN events = 1 .. Len(events) /\ Len(events) \in Nat \ {0}
      /\ DOMAIN events' = 1 .. Len(events) - 1
      /\ \A i \in DOMAIN events' : events'[i] = events[i + 1]
      /\ Head(events) = events[1]
  BY <1>1, <1>2, TailAt
<1> QED BY <1>2, <1>3 DEF At

(* A message is handled. What it puts into the list is what was announced, *)
(* what it takes out is what no later exec message is about.               *)
LEMMA ReceiveSInv ==
  ASSUME SInv, IInv', NEW what \in {"exec", "exit"}, NEW p \in Pid,
         Receive(what, p), UNCHANGED history,
         Known(heap)' = IF what = "exec" THEN Known(heap) \cup {p} ELSE Known(heap) \ {p}
  PROVE  SInv'
<1>1. fd /\ fd' /\ UNCHANGED <<proc, announced, unheard>>
  BY DEF Receive, history
<1>2. /\ At(1, what, p)
      /\ \A j \in DOMAIN events' : j + 1 \in DOMAIN events /\ events'[j] = events[j + 1]
      /\ \A i \in DOMAIN events : i > 1 => i - 1 \in DOMAIN events' /\ events'[i - 1] = events[i]
      /\ \A i \in DOMAIN events : i \in Nat \ {0}
      /\ \A i \in DOMAIN events' : i \in Nat \ {0}
  BY <1>1, ReceiveShifts
<1>3. ASSUME NEW q \in Pid, NEW k \in Nat, NoExitAfter(k + 1, q) PROVE NoExitAfter(k, q)'
  BY <1>2, <1>3 DEF NoExitAfter, At
<1>4. ASSUME NEW q \in Pid, NoExitAfter(0, q) PROVE NoExitAfter(0, q)'
  BY <1>2, <1>4 DEF NoExitAfter, At
<1>5. ASSUME NEW q \in Pid, NEW k \in Nat, Covered(k + 1, q) PROVE Covered(k, q)'
  <2>1. CASE Alive(q) \/ q \in unheard
    BY <1>1, <2>1 DEF Covered, Alive
  <2>2. ASSUME NEW j \in DOMAIN events, j > k + 1, At(j, "exit", q) PROVE Covered(k, q)'
    <3>1. PICK i \in Nat : i = j - 1
      BY <1>2, <2>2
    <3>2. i \in DOMAIN events' /\ i > k /\ At(i, "exit", q)'
      BY <1>2, <2>2, <3>1 DEF At
    <3> QED BY <3>2 DEF Covered
  <2> QED BY <1>5, <2>1, <2>2 DEF Covered
<1>6. ASSUME NEW q \in Pid, Heard(q) PROVE Heard(q)'
  <2>1. CASE q \in Known(heap) /\ NoExitAfter(0, q)
    <3>1. what = "exec" \/ q # p
      BY <1>2, <2>1 DEF NoExitAfter, At
    <3> QED BY <1>4, <2>1, <3>1 DEF Heard
  <2>2. ASSUME NEW i \in DOMAIN events, At(i, "exec", q), NoExitAfter(i, q) PROVE Heard(q)'
    <3>1. PICK k \in Nat : i = k + 1
      BY <1>2
    <3>2. NoExitAfter(k, q)'
      BY <1>3, <2>2, <3>1
    <3>3. CASE k = 0
      <4>1. q = p /\ what = "exec"
        BY <1>2, <2>2, <3>1, <3>3 DEF At
      <4> QED BY <3>2, <3>3, <4>1 DEF Heard
    <3>4. CASE k > 0
      <4>1. k \in DOMAIN events' /\ At(k, "exec", q)'
        BY <1>2, <2>2, <3>1, <3>4 DEF At
      <4> QED BY <3>2, <4>1 DEF Heard
    <3> QED BY <3>3, <3>4
  <2> QED BY <1>6, <2>1, <2>2 DEF Heard
<1>7. ASSUME NEW q \in Pid, Accounted(q) PROVE Accounted(q)'
  <2>1. ASSUME q \in Known(heap)' PROVE Covered(0, q)'
    <3>1. CASE q = p
      <4>1. what = "exec" /\ Covered(0 + 1, q)
        BY <1>2, <1>7, <2>1, <3>1 DEF Accounted, At
      <4> QED BY <1>5, <4>1
    <3>2. CASE q # p
      <4>1. Covered(0, q)
        BY <1>7, <2>1, <3>2 DEF Accounted
      <4>2. Covered(0 + 1, q)
        BY <1>2, <3>2, <4>1 DEF Covered, At
      <4> QED BY <1>5, <4>2
    <3> QED BY <3>1, <3>2
  <2>2. ASSUME NEW i \in DOMAIN events', At(i, "exec", q)' PROVE Covered(i, q)'
    <3>1. i \in Nat /\ Covered(i + 1, q)
      BY <1>2, <1>7, <2>2 DEF Accounted, At
    <3> QED BY <1>5, <3>1
  <2> QED BY <2>1, <2>2 DEF Accounted
<1> QED BY <1>1, <1>6, <1>7 DEF SInv, Netlink, Alive

(* Both kinds of message.                                                  *)
LEMMA HandleEventSInv ==
  ASSUME SInv, IInv', HandleEvent, UNCHANGED history
  PROVE  SInv'
<1>1. ASSUME NEW p \in Pid, HandleExec(p) PROVE SInv'
  <2>1. Receive("exec", p) /\ InsertPid(p)
    BY <1>1 DEF HandleExec
  <2>2. PICK n \in Node \ DOMAIN heap :
           /\ DOMAIN heap' = DOMAIN heap \cup {n}
           /\ heap'[n].pid = p
           /\ \A m \in DOMAIN heap : heap'[m].pid = heap[m].pid
    BY <2>1, InsertFacts DEF SInv, IInv
  <2>3. Known(heap)' = Known(heap) \cup {p}
    BY <2>2 DEF Known
  <2> QED BY <2>1, <2>3, ReceiveSInv
<1>2. ASSUME NEW p \in Pid, HandleExit(p) PROVE SInv'
  <2>1. Receive("exit", p) /\ RemovePid(p)
    BY <1>2 DEF HandleExit
  <2>2. /\ DOMAIN heap' = {m \in DOMAIN heap : heap[m].pid # p}
        /\ \A m \in DOMAIN heap' : heap'[m].pid = heap[m].pid
    BY <2>1, RemoveFacts DEF SInv, IInv
  <2>3. Known(heap)' = Known(heap) \ {p}
    BY <2>2 DEF Known
  <2> QED BY <2>1, <2>3, ReceiveSInv
<1> QED BY <1>1, <1>2 DEF HandleEvent

-----------------------------------------------------------------------------
(* The jobs of the pool and the agents register and drop no pid.           *)
LEMMA BystanderSInv ==
  ASSUME SInv, IInv', Pool \/ Agents, UNCHANGED history
  PROVE  SInv'
<1>1. Known(heap') = Known(heap) /\ Aside
  BY BystanderKnown DEF SInv
<1> QED BY <1>1, StillSInv DEF Aside, kernelVars, history, Netlink, Known

(* The steps of the main thread.                                           *)
LEMMA MainThreadSInv ==
  ASSUME SInv, IInv', MainThread, UNCHANGED history
  PROVE  SInv'
<1>1. CASE Subscribe \/ OnTimer
  <2>1. UNCHANGED <<proc, events, heap, announced, unheard>>
    BY <1>1 DEF Subscribe, OnTimer, kernelVars, history
  <2>2. (~fd' => ~fd) /\ (Netlink' => Netlink)
    BY <1>1 DEF Subscribe, OnTimer, Netlink, SInv, IInv, Phases
  <2> QED BY <2>1, <2>2, StillSInv DEF Known
<1>2. CASE HandleEvent
  BY <1>2, HandleEventSInv
<1>3. CASE Reload \/ ReloadFail
  <2>1. ~fd /\ ~fd' /\ main' # "ctor" /\ UNCHANGED <<proc, events, announced, unheard>>
    BY <1>3 DEF Reload, ReloadLoad, ReloadPurge, ReloadNext, ReloadEnd, ReloadFail,
       SInv, IInv, Phases, kernelVars, history
  <2> QED BY <2>1, ReloadSInv
<1> QED BY <1>1, <1>2, <1>3 DEF MainThread

(* Every step, and every stutter, keeps the invariant.                     *)
LEMMA SyncNextSInv == SInv /\ [SyncNext]_syncVars => SInv'
<1> SUFFICES ASSUME SInv, [SyncNext]_syncVars PROVE SInv'
  OBVIOUS
<1>1. IInv'
  BY SyncStep DEF SInv
<1>2. CASE UNCHANGED syncVars
  BY <1>1, <1>2, StillSInv DEF syncVars, vars, kernelVars, history, Netlink, Known
<1>3. CASE MainThread /\ UNCHANGED history
  BY <1>1, <1>3, MainThreadSInv
<1>4. CASE (Pool \/ Agents) /\ UNCHANGED history
  BY <1>1, <1>4, BystanderSInv
<1>5. ASSUME NEW p \in Pid, Reap(p) \/ \E e \in Exe : Fork(p, e), UNCHANGED history
      PROVE  SInv'
  <2>1. ~Alive(p) /\ UNCHANGED <<events, main, fd, heap, announced, unheard>>
    BY <1>5, ExeAssumption DEF Reap, Fork, Alive, history
  <2>2. \A q \in Pid : q # p => proc'[q] = proc[q]
    BY <1>5 DEF Reap, Fork, SInv, IInv, TypeOK
  <2> QED BY <1>1, <2>1, <2>2, ForkReapSInv
<1>6. ASSUME NEW p \in Pid, SyncExit(p) PROVE SInv'
  BY <1>1, <1>6, ExitSInv
<1>7. ASSUME NEW p \in Pid, NEW e \in Exe, SyncExec(p, e) PROVE SInv'
  BY <1>1, <1>7, ExecSInv
<1> QED BY <1>2, <1>3, <1>4, <1>5, <1>6, <1>7 DEF SyncNext, Unrecorded

(* The inductive invariant holds of every behaviour.                       *)
LEMMA SyncSpecSInv == SyncSpec => []SInv
BY SyncInitSInv, SyncNextSInv, PTL DEF SyncSpec

(* The history variables only watch: what is proved of Spec holds here.    *)
THEOREM SyncImplementsSpec == SyncSpec => Spec
<1>1. SyncInit => Init
  BY DEF SyncInit
<1>2. SInv /\ [SyncNext]_syncVars => [Next]_vars
  BY SyncStep DEF SInv
<1> QED BY <1>1, <1>2, SyncSpecSInv, PTL DEF SyncSpec, Spec

-----------------------------------------------------------------------------
(* What is shown of the agents that have no process. The property alone is *)
(* not inductive: a verdict that is still in flight must be known to have  *)
(* crossed the loss of the process as well.                                *)
Uncrossed ==
  \A a \in Agent : ptr[a] = Null /\ a \notin crossed => shown[a] # "available" /\ ~InFlight(a)

CrossInv == IInv /\ crossed \subseteq Agent /\ Uncrossed

(* Without a process after the step, an agent is found available by nobody *)
(* who had not found it so before, and shows it only if it did, or if that *)
(* is what was in flight, and it had no process before either.             *)
Settles(a) ==
  /\ InFlight(a)' => InFlight(a)
  /\ shown'[a] = "available" => ptr[a] = Null /\ (shown[a] = "available" \/ InFlight(a))

(* insert(pid), remove(pid), and the update of the agents under the guard. *)
LEMMA GuardedSettles ==
  ASSUME IInv, NEW a \in Agent, ptr'[a] = Null, loose' = loose,
         NEW p \in Pid, InsertPid(p) \/ RemovePid(p)
  PROVE  Settles(a)
<1>1. TypeOK /\ verdicts' = verdicts
  BY DEF IInv, loose
<1>2. CASE InsertPid(p)
  <2>1. PICK n \in Node :
           /\ ptr' = [b \in Agent |-> IF b \in Takers(p) THEN n ELSE ptr[b]]
           /\ \A b \in Agent \ Takers(p) : shown'[b] = shown[b]
    BY <1>1, <1>2, InsertFacts
  <2> QED BY <1>1, <2>1, NullAssumption DEF Settles, InFlight
<1>3. CASE RemovePid(p)
  <2>1. /\ ptr' = [b \in Agent |-> IF b \in Losers(p) THEN Null ELSE ptr[b]]
        /\ \A b \in Agent \ Losers(p) : shown'[b] = shown[b]
        /\ \A b \in Losers(p) : shown'[b] = "not-available"
    BY <1>1, <1>3, RemoveFacts
  <2> QED BY <1>1, <2>1 DEF Settles, InFlight
<1> QED BY <1>2, <1>3

(* The evaluations without the guard.                                      *)
LEMMA EvaluationSettles ==
  ASSUME IInv, NEW a \in Agent, ptr'[a] = Null, NEW w, NEW b, Evaluation(w, b)
  PROVE  Settles(a)
<1>1. TypeOK
  BY DEF IInv
<1>2. CASE Evaluate(w, b)
  <2>1. /\ UNCHANGED agentVars
        /\ \E v \in Verdict : /\ verdicts' = verdicts \cup {<<w, b, v>>}
                              /\ ptr[b] = Null => v = "not-available"
    BY <1>1, <1>2, EvaluateFacts
  <2> QED BY <2>1 DEF agentVars, Settles, InFlight
<1>3. ASSUME NEW v \in Verdict, Show(w, b, v) PROVE Settles(a)
  <2>1. /\ <<w, b, v>> \in verdicts /\ verdicts' \subseteq verdicts /\ ptr' = ptr
        /\ shown' = [shown EXCEPT ![b] = v] /\ w \in Worker
    BY <1>1, <1>3 DEF Show, TypeOK
  <2> QED BY <1>1, <2>1 DEF TypeOK, Settles, InFlight
<1> QED BY <1>2, <1>3 DEF Evaluation

(* Agents that start and agents that are destroyed.                        *)
LEMMA StartSettles ==
  ASSUME IInv, NEW a \in Agent, ptr'[a] = Null, NEW b \in Agent, Start(b) \/ Destroy(b)
  PROVE  Settles(a)
<1>1. TypeOK
  BY DEF IInv
<1>2. CASE Start(b)
  <2>1. verdicts' = verdicts
    BY <1>2 DEF Start
  <2>2. ASSUME NEW n \in DOMAIN heap, Updated({b}, heap, [ptr EXCEPT ![b] = n])
        PROVE  Settles(a)
    <3> DEFINE q == [ptr EXCEPT ![b] = n]
    <3>1. Outcome({b}, heap, q)
      <4>1. Updated({b}, heap, q)
        BY <2>2
      <4> HIDE DEF q
      <4> QED BY <1>1, <4>1, UpdatedFacts DEF TypeOK
    <3>2. ptr' = q /\ \A c \in Agent \ {b} : shown'[c] = shown[c]
      <4> HIDE DEF q
      <4> QED BY <3>1 DEF Outcome
    <3>3. n # Null
      BY <1>1, NullAssumption DEF TypeOK
    <3> QED BY <1>1, <2>1, <3>2, <3>3 DEF TypeOK, Settles, InFlight
  <2>3. CASE UNCHANGED <<heap, ptr, shown>>
    BY <2>1, <2>3 DEF Settles, InFlight
  <2> QED BY <1>2, <2>2, <2>3 DEF Start, Matching
<1>3. CASE Destroy(b)
  <2>1. /\ verdicts' \subseteq verdicts /\ ptr' = [ptr EXCEPT ![b] = Null]
        /\ shown' = [shown EXCEPT ![b] = "none"]
    BY <1>3 DEF Destroy
  <2> QED BY <1>1, <2>1 DEF TypeOK, Settles, InFlight
<1> QED BY <1>2, <1>3

(* Every step, then, keeps the record of whom a late verdict may mislead.  *)
LEMMA StepSettles ==
  ASSUME IInv, Next, NEW a \in Agent, ptr'[a] = Null
  PROVE  Settles(a)
<1>1. ASSUME UNCHANGED <<ptr, shown, verdicts>> PROVE Settles(a)
  BY <1>1 DEF Settles, InFlight
<1>2. CASE Kernel
  <2>1. UNCHANGED <<agentVars, loose>>
    BY <1>2 DEF Kernel, Exit, Reap, Fork, Exec
  <2> QED BY <1>1, <2>1 DEF agentVars, loose
<1>3. CASE MainThread
  <2>1. ASSUME NEW p \in Pid, HandleExec(p) \/ HandleExit(p) \/ ReloadNext(p) PROVE Settles(a)
    <3>1. loose' = loose /\ (InsertPid(p) \/ RemovePid(p))
      BY <2>1 DEF HandleExec, HandleExit, Receive, ReloadNext
    <3> QED BY <3>1, GuardedSettles
  <2>2. Subscribe \/ OnTimer \/ ReloadLoad \/ ReloadPurge \/ ReloadEnd \/ ReloadFail
          => UNCHANGED <<agentVars, loose>>
    BY DEF Subscribe, OnTimer, ReloadLoad, ReloadPurge, ReloadEnd, ReloadFail
  <2> QED BY <1>1, <1>3, <2>1, <2>2 DEF MainThread, HandleEvent, Reload, agentVars, loose
<1>4. CASE Pool
  <2>1. RefreshJob \/ RefreshFail \/ UpdateJob => UNCHANGED <<ptr, shown, verdicts>>
    BY DEF RefreshJob, RefreshFail, UpdateJob, agentVars, loose
  <2> QED BY <1>1, <1>4, <2>1, EvaluationSettles DEF Pool, Update
<1>5. CASE Agents
  <2>1. ASSUME NEW b \in Agent, StartLate(b) PROVE UNCHANGED <<ptr, shown, verdicts>>
    BY <2>1 DEF StartLate, agentVars
  <2> QED BY <1>1, <1>5, <2>1, StartSettles, EvaluationSettles DEF Agents
<1> QED BY <1>2, <1>3, <1>4, <1>5 DEF Next

LEMMA CrossStep == CrossInv /\ [SyncNext]_syncVars => CrossInv'
<1> SUFFICES ASSUME CrossInv, [SyncNext]_syncVars PROVE CrossInv'
  OBVIOUS
<1>1. [Next]_vars /\ IInv /\ IInv'
  BY SyncStep DEF CrossInv
<1>2. CASE UNCHANGED syncVars
  <2>1. UNCHANGED <<ptr, shown, verdicts, crossed>>
    BY <1>2 DEF syncVars, vars, agentVars, loose
  <2> QED BY <1>1, <2>1 DEF CrossInv, Uncrossed, InFlight
<1>3. CASE SyncNext
  <2>1. Next /\ crossed' = Misled
    BY <1>3 DEF SyncNext, SyncExit, SyncExec, Unrecorded, Next, Kernel
  <2>2. ASSUME NEW a \in Agent, ptr'[a] = Null, a \notin crossed'
        PROVE  shown'[a] # "available" /\ ~InFlight(a)'
    <3>1. Settles(a)
      BY <1>1, <2>1, <2>2, StepSettles
    <3>2. /\ ~(ptr[a] # Null /\ InFlight(a))
          /\ a \in crossed => ~InFlight(a)' /\ shown'[a] # "available"
      BY <2>1, <2>2 DEF Misled
    <3>3. ptr[a] = Null /\ a \notin crossed => shown[a] # "available" /\ ~InFlight(a)
      BY DEF CrossInv, Uncrossed
    <3> QED BY <3>1, <3>2, <3>3 DEF Settles
  <2>3. Uncrossed'
    BY <2>2 DEF Uncrossed
  <2>4. crossed' \subseteq Agent
    BY <2>1 DEF Misled
  <2> QED BY <1>1, <2>3, <2>4 DEF CrossInv
<1> QED BY <1>2, <1>3

LEMMA CrossAlways == SyncSpec => []CrossInv
<1>1. SyncInit => CrossInv
  <2> SUFFICES ASSUME SyncInit PROVE CrossInv
    OBVIOUS
  <2>1. IInv /\ crossed = {} /\ verdicts = {} /\ shown = [a \in Agent |-> "none"]
    BY InitIInv DEF SyncInit, Init
  <2> QED BY <2>1 DEF CrossInv, Uncrossed, InFlight
<1> QED BY <1>1, CrossStep, PTL DEF SyncSpec

-----------------------------------------------------------------------------
(* Every variable, the history's too, stays in its type.                   *)
THEOREM SyncTypeCorrect == SyncSpec => []SyncTypeOK
<1>1. SInv /\ CrossInv => SyncTypeOK
  BY DEF SInv, IInv, CrossInv, SyncTypeOK
<1> QED BY <1>1, SyncSpecSInv, CrossAlways, PTL

(* An agent without a process shows "available" only when a thread without *)
(* the guard had found it so before the process was removed: no detaching  *)
(* path forgets the updated(true) that puts it right.                      *)
THEOREM StaleHasOneCause == SyncSpec => []StaleOnlyWhenCrossed
<1>1. CrossInv => StaleOnlyWhenCrossed
  BY DEF CrossInv, Uncrossed, StaleOnlyWhenCrossed
<1> QED BY <1>1, CrossAlways, PTL

(* With a netlink socket, a running process whose start was known or       *)
(* announced is registered, or its exec message is still to be handled.    *)
THEOREM NeverForgotten == SyncSpec => []NothingForgotten
<1>1. SInv => NothingForgotten
  BY DEF SInv, NothingForgotten, Heard, At, Pending
<1> QED BY <1>1, SyncSpecSInv, PTL

(* With a netlink socket, an entry of the list outlives its process only   *)
(* until the exit message is handled, unless one was never delivered.      *)
THEOREM NeverLeftOver == SyncSpec => []NothingLeftOver
<1>1. SInv => NothingLeftOver
  <2> SUFFICES ASSUME SInv, Netlink, NEW p \in Known(heap)
               PROVE  Alive(p) \/ Pending("exit", p) \/ p \in unheard
    BY DEF NothingLeftOver
  <2>1. p \in Pid
    BY DEF Known, SInv, IInv, TypeOK, Entry
  <2> QED BY <2>1 DEF SInv, Accounted, Covered, At, Pending
<1> QED BY <1>1, SyncSpecSInv, PTL

=============================================================================
