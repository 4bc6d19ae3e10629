------------------------------ MODULE MCSync --------------------------------
(* Small instances of NetlinkSync for TLC.                                  *)
EXTENDS NetlinkSync, TLC

(* One program is watched; the other ones are those it may turn into.     *)
MCWatch  == [a \in Agent |-> CHOOSE e \in Exe : TRUE]
(* Pids and addresses are interchangeable.                                 *)
Symmetry == Permutations(Pid) \cup Permutations(Node)

=============================================================================
