----------------------------- MODULE MCCounter ------------------------------
(* Small instances of StateCounter for TLC: no agent watches a program.     *)
EXTENDS StateCounter

MCWatch == [a \in Agent |-> CHOOSE e \in Exe : TRUE]

=============================================================================
