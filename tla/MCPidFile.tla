----------------------------- MODULE MCPidFile ------------------------------
(* Small instances of PidFileAgent for TLC: the only agent is that one.     *)
EXTENDS PidFileAgent

MCWatch == [a \in Agent |-> CHOOSE e \in Exe : TRUE]

=============================================================================
