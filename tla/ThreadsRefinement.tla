------------------------- MODULE ThreadsRefinement --------------------------
(***************************************************************************)
(* ControllerThreads implements AtomicController: nobody who asks for the  *)
(* guard sees an operation half done. An identifier that insert(pid) is    *)
(* still offering is not listed yet, one that remove(pid) is still taking  *)
(* from agents is not listed any more, and an agent that insert(agent) is  *)
(* still searching for is not registered yet: insertions take place when   *)
(* the guard is released, removals when it is taken.                       *)
(***************************************************************************)
EXTENDS ControllerThreads

InHand  == IF guard = "main" THEN thr["main"].id ELSE None
Joining == IF guard = "user" THEN thr["user"].ag ELSE None

Joined == ToSet(agents) \ {Joining}

HeldBy(a) == IF a \in Joined /\ ptr[a] # InHand THEN ptr[a] ELSE None

A == INSTANCE AtomicController WITH
       listed <- ToSet(ids) \ {InHand}, registered <- Joined,
       holds <- [a \in Agent |-> HeldBy(a)]

(* However the steps of the three threads interleave, element by element,  *)
(* each insert and remove of a pid or an agent changes the lists and the   *)
(* agents' pointers at one moment, and nothing else does.                  *)
ImplementsAtomic == A!AtomicSpec

=============================================================================
