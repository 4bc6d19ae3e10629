-------------------------- MODULE WatchRefinement ---------------------------
(***************************************************************************)
(* ProcessController implements ProcessWatch when its socket opens: a pid  *)
(* is known when some identifier has it, an agent holds the pid that the   *)
(* identifier it points to has.                                            *)
(***************************************************************************)
EXTENDS ProcessController

ASSUME NullIsNoPid == Null \notin Pid

HeldBy(a) == IF ptr[a] \in DOMAIN heap THEN heap[ptr[a]].pid ELSE Null

W == INSTANCE ProcessWatch WITH
       None <- Null, open <- fd, known <- Known(heap), watching <- agents,
       held <- [a \in Agent |-> HeldBy(a)]

(* Whatever the identifier list goes through - duplicates of a pid, reused *)
(* addresses, refreshes that fail half way - an agent's process changes    *)
(* only when it registers or when a message is handled, at that moment and *)
(* the way the message says; and every message is handled.                 *)
ImplementsWatch == W!WatchFairSpec

=============================================================================
