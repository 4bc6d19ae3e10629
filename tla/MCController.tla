---------------------------- MODULE MCController ----------------------------
(* Small instances of ProcessController, and of its refinement of          *)
(* ProcessWatch, for TLC.                                                  *)
EXTENDS WatchRefinement

CONSTANTS nginx, cron   (* Two programs: the agents watch the first one.     *)

MCExe   == {nginx, cron}
MCWatch == [a \in Agent |-> nginx]

=============================================================================
