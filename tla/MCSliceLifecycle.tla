--------------------------- MODULE MCSliceLifecycle ---------------------------
(* Small instances of SliceLifecycle. *)
EXTENDS SliceLifecycle

CONSTANTS worker1, worker2, reviewer, reviewer2, p1, p2, g1, e1

\* Every session has an actor of its own.
SessionActor == [s \in Sessions |-> s]

\* The reviewers may execute as well: independence is not a matter of roles.
ActorTurns ==
  [a \in Actors |->
     IF a \in {worker1, worker2} THEN {"EXECUTE"}
     ELSE {"VERIFY", "EXECUTE", "CONTROL"}]
===============================================================================
