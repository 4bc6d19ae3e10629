------------------------------ MODULE MCThreads ------------------------------
(* Small instances of ControllerThreads, and of its refinement of           *)
(* AtomicController, for TLC.                                               *)
EXTENDS ThreadsRefinement, TLC

Symmetry == Permutations(Node) \cup Permutations(Agent)

=============================================================================
