----------------------------- MODULE CpuRefresh ------------------------------
(***************************************************************************)
(* The CPU use that Process::Controller::refresh() computes: of the system *)
(* and, shared out, of every process in the list. The refresh reads        *)
(* /proc/stat once and then /proc/<pid>/stat for one entry after another;  *)
(* the clock goes on between two reads. Controller::guard is held          *)
(* throughout, so that messages change the list between refreshes only.    *)
(*                                                                         *)
(* Floating point is exact here: a fraction is a pair, and one whose       *)
(* second part is 0 is NaN (the code gets there by dividing 0 by 0).       *)
(***************************************************************************)
EXTENDS Integers, FiniteSets, Folds

CONSTANTS
  Pid,     (* Process numbers.                                              *)
  MaxTick  (* Bound: the clock ticks that are counted.                      *)

ASSUME PidAssumption  == IsFiniteSet(Pid)
ASSUME TickAssumption == MaxTick \in Nat

VARIABLES
  running, idle,  (* The counters of /proc/stat, in ticks.                  *)
  time,           (* time[p]: utime + stime of p, 0 if there is no p.       *)
  byPid,          (* update.cpu_use_per_process                             *)
  system,         (* Controller::system: counters seen last, and the usage. *)
  listed,         (* The pids in the list.                                  *)
  last, percent,  (* Identifier::cpu of the entry of each pid.              *)
  pc,             (* Where refresh() is; "idle": the guard is free.         *)
  todo,           (* The entries the walk has not reached.                  *)
  sysusage,       (* refresh()'s local variables: the system's usage,       *)
  pids,           (* the entries to share it (Entry::info)                  *)
  usage,          (* and what each has used (Entry::usage),                 *)
  totaltime,      (* and all of them.                                       *)
  quiet           (* History: how often p was read since it was charged or  *)
                  (* listed or ended, up to twice.                          *)

kernel  == <<running, idle, time>>
entries == <<listed, last, percent>>
locals  == <<todo, sysusage, pids, usage, totaltime>>
cpuVars == <<kernel, byPid, system, entries, pc, locals, quiet>>

Fraction == Int \X Int
Zero     == <<0, 1>>
IsNaN(f) == f[2] = 0

CpuTypeOK ==
  /\ running \in Nat /\ idle \in Nat /\ time \in [Pid -> Nat]
  /\ byPid \in BOOLEAN
  /\ system \in [running : Nat, idle : Nat, cpu : Fraction]
  /\ listed \subseteq Pid /\ last \in [Pid -> Nat] /\ percent \in [Pid -> Fraction]
  /\ pc \in {"idle", "walk", "end"}
  /\ todo \subseteq listed /\ pids \subseteq listed \ todo
  /\ sysusage \in Fraction /\ usage \in [Pid -> Int] /\ totaltime \in Int
  /\ quiet \in [Pid -> 0 .. 2]

-----------------------------------------------------------------------------
(* The kernel: a tick is charged to a process and the system at once, to   *)
(* the system alone (a process that is not listed), or is idle.            *)

Clock == running + idle < MaxTick

Charge(p) ==
  /\ Clock
  /\ running' = running + 1
  /\ time' = [time EXCEPT ![p] = @ + 1]
  /\ quiet' = [quiet EXCEPT ![p] = 0]
  /\ UNCHANGED <<idle, byPid, system, entries, pc, locals>>

ChargeOther ==
  /\ Clock
  /\ running' = running + 1
  /\ UNCHANGED <<idle, time, byPid, system, entries, pc, locals, quiet>>

IdleTick ==
  /\ Clock
  /\ idle' = idle + 1
  /\ UNCHANGED <<running, time, byPid, system, entries, pc, locals, quiet>>

(* p ends. Its stat cannot be found until another process gets the number, *)
(* and starts from 0; either way the entry reads 0.                        *)
End(p) ==
  /\ time[p] # 0
  /\ time' = [time EXCEPT ![p] = 0]
  /\ quiet' = [quiet EXCEPT ![p] = 0]
  /\ UNCHANGED <<running, idle, byPid, system, entries, pc, locals>>

-----------------------------------------------------------------------------
(* insert(pid) and remove(pid), for a pid that is, or is not, in the list. *)

Insert(p) ==
  /\ pc = "idle" /\ p \notin listed
  /\ listed' = listed \cup {p}
  /\ last' = [last EXCEPT ![p] = 0]
  /\ percent' = [percent EXCEPT ![p] = Zero]
  /\ quiet' = [quiet EXCEPT ![p] = 0]
  /\ UNCHANGED <<kernel, byPid, system, pc, locals>>

Remove(p) ==
  /\ pc = "idle" /\ p \in listed
  /\ listed' = listed \ {p}
  /\ last' = [last EXCEPT ![p] = 0]
  /\ percent' = [percent EXCEPT ![p] = Zero]
  /\ quiet' = [quiet EXCEPT ![p] = 0]
  /\ UNCHANGED <<kernel, byPid, system, pc, locals>>

-----------------------------------------------------------------------------
(* refresh().                                                              *)

(* The end of refresh(), by return or exception: its variables are gone.   *)
Leave ==
  /\ pc' = "idle"
  /\ todo' = {} /\ pids' = {} /\ sysusage' = Zero
  /\ usage' = [p \in Pid |-> 0] /\ totaltime' = 0
  /\ UNCHANGED <<kernel, byPid, system, entries, quiet>>

(* The usage since the last refresh, or since the constructor read the     *)
(* counters: running / (running + idle).                                   *)
Used ==
  LET r == running - system.running
      i == idle - system.idle
  IN  IF system.running = 0 /\ system.idle = 0 THEN Zero ELSE <<r, r + i>>

ReadSystem ==
  /\ pc = "idle"
  /\ sysusage' = Used
  /\ system' = [running |-> running, idle |-> idle,
                cpu |-> IF system.running = 0 /\ system.idle = 0 THEN system.cpu ELSE Used]
  /\ pc' = IF byPid THEN "walk" ELSE "end"
  /\ todo' = listed
  /\ UNCHANGED <<kernel, byPid, entries, pids, usage, totaltime, quiet>>

(* Mutant: a time that went back is taken for progress.                    *)
AdvancedAny(p) == time[p] # 0 /\ last[p] # 0 /\ time[p] # last[p]

(* The process has used time since its entry was read last.                *)
Advanced(p) == time[p] # 0 /\ last[p] # 0 /\ time[p] > last[p]

(* Mutant: the walk does not go on to the next entry.                      *)
ReadAgain(p) ==
  /\ pc = "walk" /\ p \in todo
  /\ last' = [last EXCEPT ![p] = time[p]]
  /\ quiet' = [quiet EXCEPT ![p] = IF @ = 2 THEN 2 ELSE @ + 1]
  /\ UNCHANGED <<kernel, byPid, system, listed, pc, todo, sysusage>>

(* The entry takes what /proc says now.                                    *)
Read(p) ==
  /\ pc = "walk" /\ p \in todo
  /\ todo' = todo \ {p}
  /\ last' = [last EXCEPT ![p] = time[p]]
  /\ quiet' = [quiet EXCEPT ![p] = IF @ = 2 THEN 2 ELSE @ + 1]
  /\ UNCHANGED <<kernel, byPid, system, listed, pc, sysusage>>

(* Mutant: an entry without progress keeps its percentage.                 *)
ReadEntryKeep(p) ==
  /\ Read(p)
  /\ IF Advanced(p)
     THEN /\ pids' = pids \cup {p}
          /\ usage' = [usage EXCEPT ![p] = time[p] - last[p]]
          /\ totaltime' = totaltime + (time[p] - last[p])
          /\ UNCHANGED percent
     ELSE UNCHANGED <<percent, pids, usage, totaltime>>

(* One turn of the walk. An entry without progress shows 0 at once.        *)
ReadEntry(p) ==
  /\ Read(p)
  /\ IF Advanced(p)
     THEN /\ pids' = pids \cup {p}
          /\ usage' = [usage EXCEPT ![p] = time[p] - last[p]]
          /\ totaltime' = totaltime + (time[p] - last[p])
          /\ UNCHANGED percent
     ELSE /\ percent' = [percent EXCEPT ![p] = Zero]
          /\ UNCHANGED <<pids, usage, totaltime>>

(* The stat of p cannot be read: the exception ends the refresh.           *)
ReadFails(p) ==
  /\ pc = "walk" /\ p \in todo
  /\ Leave

(* Mutant: the usage is shared out by what one process used alone.         *)
ShareUnscaled(p) == <<usage[p], totaltime>>

(* sysusage * usage / totaltime.                                           *)
Share(p) == <<sysusage[1] * usage[p], sysusage[2] * totaltime>>

(* if(sysusage && totaltime): NaN counts as true.                          *)
Shares == (sysusage[1] # 0 \/ IsNaN(sysusage)) /\ totaltime # 0

ShareOut ==
  /\ pc = "walk" /\ todo = {}
  /\ pc' = "end"
  /\ percent' = [p \in Pid |-> IF Shares /\ p \in pids THEN Share(p) ELSE percent[p]]
  /\ UNCHANGED <<kernel, byPid, system, listed, last, locals, quiet>>

(* The agents' update is queued; the guard is released.                    *)
EndRefresh ==
  /\ pc = "end"
  /\ Leave

-----------------------------------------------------------------------------
(* The constructor has read the counters and lists what it found.          *)
CpuInit ==
  /\ running = 1 /\ idle = 1 /\ time = [p \in Pid |-> 1]
  /\ byPid \in BOOLEAN
  /\ system = [running |-> running, idle |-> idle, cpu |-> Zero]
  /\ listed \in SUBSET Pid
  /\ last = [p \in Pid |-> 0] /\ percent = [p \in Pid |-> Zero]
  /\ pc = "idle"
  /\ todo = {} /\ pids = {} /\ sysusage = Zero
  /\ usage = [p \in Pid |-> 0] /\ totaltime = 0
  /\ quiet = [p \in Pid |-> 0]

Kernel == ChargeOther \/ IdleTick \/ \E p \in Pid : Charge(p) \/ End(p)

Refresh ==
  \/ ReadSystem \/ ShareOut \/ EndRefresh
  \/ \E p \in Pid : ReadEntry(p) \/ ReadFails(p)

CpuNext == Kernel \/ Refresh \/ \E p \in Pid : Insert(p) \/ Remove(p)

CpuSpec == CpuInit /\ [][CpuNext]_cpuVars

-----------------------------------------------------------------------------
(* Properties.                                                             *)

Plus(f, g)  == <<f[1] * g[2] + g[1] * f[2], f[2] * g[2]>>
Same(f, g)  == ~IsNaN(f) /\ ~IsNaN(g) /\ f[1] * g[2] = g[1] * f[2]
Total(S)    == MapThenFoldSet(Plus, Zero, LAMBDA p : percent[p], LAMBDA T : CHOOSE p \in T : TRUE, S)

(* A refresh that went through leaves percentages that add up to the usage *)
(* of the system, if that is more than 0 and any process got on; if none   *)
(* did they are all 0.                                                     *)
SharesAddUp ==
  pc = "end" /\ byPid /\ ~IsNaN(system.cpu) /\ system.cpu[1] # 0 =>
    Same(Total(listed), IF totaltime = 0 THEN Zero ELSE system.cpu)

(* Nothing ever shows less than 0 or more than the whole machine, at any   *)
(* point of a refresh, after one that failed half way, or with a pid that  *)
(* was given to a younger process; 0 / 0 is the one exception.             *)
Within(f)     == IsNaN(f) \/ (0 <= f[1] /\ f[1] <= f[2])
EachAFraction == Within(system.cpu) /\ \A p \in listed : Within(percent[p])

(* A process that two reads in a row found where it was shows 0, whatever  *)
(* became of the refreshes the reads belong to.                            *)
QuietShowsNothing == \A p \in listed : quiet[p] = 2 => percent[p] = Zero

(* "CPU usage on last check" (identifier.h): what an entry shows after a   *)
(* refresh comes out of that refresh.                                      *)
OfThisRefresh(p) == IF p \in pids THEN Shares /\ percent[p] = Share(p) ELSE percent[p] = Zero
PercentIsOfLastCheck ==
  pc = "end" /\ byPid => \A p \in listed : percent[p] = Zero \/ OfThisRefresh(p)

=============================================================================
