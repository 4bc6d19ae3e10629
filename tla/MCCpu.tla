-------------------------------- MODULE MCCpu --------------------------------
(* Small instances of CpuRefresh for TLC.                                   *)
EXTENDS CpuRefresh, TLC

Symmetry == Permutations(Pid)

=============================================================================
