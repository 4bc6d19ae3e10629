------------------------------ MODULE MCStates -------------------------------
(* Small instances of AgentStates for TLC.                                  *)
EXTENDS AgentStates

MCLetter == {"S"}
MCWanted == {"not-available", "sleeping"}

=============================================================================
