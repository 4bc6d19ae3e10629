---------------------------- MODULE PidFileAgent ----------------------------
(***************************************************************************)
(* Process::PidFileAgent beside the controller: an agent that takes the    *)
(* process whose number it reads in a file. It overrides start() and never *)
(* registers with the controller, so neither remove(pid) nor the update    *)
(* after a refresh reaches it.                                             *)
(***************************************************************************)
EXTENDS ProcessController

CONSTANT NoPid   (* An absent, unreadable or empty pid file.                *)

ASSUME NoPidAssumption == NoPid \notin Pid

VARIABLES
  pidfile,  (* What the file says.                                          *)
  got,      (* refresh(): the number read, NoPid outside of refresh().      *)
  found,    (* refresh(): the answer of Controller::find, once it is there. *)
  fptr,     (* Agent::pid of this agent.                                    *)
  fshown    (* The state computeState() last gave this agent.               *)

pidFileVars == <<pidfile, got, found, fptr, fshown>>
allVars     == <<vars, pidFileVars>>

Asked == "asked"   (* found: find() has not answered yet.                   *)

PidFileTypeOK ==
  /\ TypeOK
  /\ pidfile \in Pid \cup {NoPid}
  /\ got \in Pid \cup {NoPid}
  /\ found \in Node \cup {Null, Asked}
  /\ fptr \in Node \cup {Null}
  /\ fshown \in Verdict \cup {"none"}

(* The service writes its number, or removes the file, when it likes.      *)
WritePidFile ==
  /\ pidfile' \in (Pid \cup {NoPid}) \ {pidfile}
  /\ UNCHANGED <<vars, got, found, fptr, fshown>>

(* refresh(): an agent without a process reads the file.                   *)
ReadPidFile ==
  /\ got = NoPid /\ fptr = Null /\ pidfile # NoPid
  /\ got' = pidfile
  /\ found' = Asked
  /\ UNCHANGED <<vars, pidfile, fptr, fshown>>

(* Mutant: an entry counts as found only while it is known to be running.  *)
EntriesRunning(p) == {n \in DOMAIN heap : heap[n].pid = p /\ heap[n].state = "running"}

EntriesOf(p) == {n \in DOMAIN heap : heap[n].pid = p}

(* set(pid_t): Controller::find answers with the first entry of the pid    *)
(* (any of them here) and releases the guard.                              *)
FindPid ==
  /\ got # NoPid /\ found = Asked /\ GuardFree
  /\ \/ EntriesOf(got) = {} /\ found' = Null
     \/ found' \in EntriesOf(got)
  /\ UNCHANGED <<vars, pidfile, got, fptr, fshown>>

(* set(Identifier): nothing when the pointer is the same (both are null),  *)
(* else it is stored and updated(true) reads the state through it.         *)
SetPid ==
  /\ got # NoPid /\ found # Asked
  /\ got' = NoPid /\ found' = Null
  /\ fptr' = found
  /\ \/ found = Null /\ UNCHANGED <<heap, fshown>>
     \/ /\ found \in DOMAIN heap
        /\ heap' = [heap EXCEPT ![found].state = GetState(heap, found)]
        /\ fshown' = Judge(GetState(heap, found))
     \/ /\ found \notin DOMAIN heap \cup {Null}
        /\ fshown' \in Verdict
        /\ UNCHANGED heap
  /\ UNCHANGED <<kernelVars, main, fd, todo, agentVars, jobs, loose, pidfile>>

Refresh == ReadPidFile \/ FindPid \/ SetPid

PidFileInit ==
  /\ Init
  /\ pidfile \in Pid \cup {NoPid}
  /\ got = NoPid /\ found = Null
  /\ fptr = Null /\ fshown = "none"

PidFileNext ==
  \/ Next /\ UNCHANGED pidFileVars
  \/ WritePidFile
  \/ Refresh

PidFileSpec == PidFileInit /\ [][PidFileNext]_allVars

(* The agent's update-timer calls refresh() again and again, and find()    *)
(* gets the guard in the end.                                              *)
PidFileFairSpec ==
  /\ PidFileSpec /\ Fairness
  /\ WF_allVars(ReadPidFile \/ SetPid) /\ SF_allVars(FindPid)

-----------------------------------------------------------------------------
(* A service whose number is in the file, and whose entry is in the list,  *)
(* is taken by the agent: refresh() is not kept from it by the file being  *)
(* written or by the list changing while it works.                         *)
Waiting(p) == fptr = Null /\ pidfile = p /\ p \in Known(heap)
PidFileIsFollowed == \A p \in Pid : Waiting(p) ~> ~Waiting(p)

(* test.xml: "Display manager is NOT available" when it does not run. The  *)
(* agent reports a process that has ended, and goes on doing so.           *)
FalselyAvailable ==
  /\ fshown = "available"
  /\ \/ fptr \notin DOMAIN heap
     \/ ~Alive(heap[fptr].pid)
DeathIsShownByPidFile == FalselyAvailable ~> ~FalselyAvailable

=============================================================================
