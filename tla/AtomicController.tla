-------------------------- MODULE AtomicController --------------------------
(***************************************************************************)
(* What Controller::guard promises to its callers: the list of identifiers *)
(* and the agents that hold them change as if each of the four operations  *)
(* were done at once. There are no threads, no lock and no order here.     *)
(***************************************************************************)
CONSTANTS
  Node,   (* Identifiers.                                                   *)
  Agent,  (* Agents.                                                        *)
  None    (* No identifier.                                                 *)

VARIABLES
  listed,      (* The identifiers that are in the list.                     *)
  registered,  (* The agents that are.                                      *)
  holds        (* holds[a]: the identifier of agent a, or None.             *)

atomicVars == <<listed, registered, holds>>

(* insert(pid): some of the agents that hold nothing take n.               *)
Insert(n) ==
  /\ n \notin listed
  /\ listed' = listed \cup {n}
  /\ \E T \in SUBSET {a \in registered : holds[a] = None} :
       holds' = [a \in Agent |-> IF a \in T THEN n ELSE holds[a]]
  /\ UNCHANGED registered

(* remove(pid): whoever holds n lets go of it.                             *)
Remove(n) ==
  /\ n \in listed
  /\ listed' = listed \ {n}
  /\ holds' = [a \in Agent |-> IF holds[a] = n THEN None ELSE holds[a]]
  /\ UNCHANGED registered

(* insert(agent): the agent takes one of the identifiers, or nothing.      *)
Register(a) ==
  /\ a \notin registered
  /\ registered' = registered \cup {a}
  /\ \E n \in listed \cup {None} : holds' = [holds EXCEPT ![a] = n]
  /\ UNCHANGED listed

(* remove(agent).                                                          *)
Unregister(a) ==
  /\ a \in registered
  /\ registered' = registered \ {a}
  /\ holds' = [holds EXCEPT ![a] = None]
  /\ UNCHANGED listed

AtomicInit == listed = {} /\ registered = {} /\ holds = [a \in Agent |-> None]

AtomicNext ==
  \/ \E n \in Node : Insert(n) \/ Remove(n)
  \/ \E a \in Agent : Register(a) \/ Unregister(a)

AtomicSpec == AtomicInit /\ [][AtomicNext]_atomicVars

=============================================================================
