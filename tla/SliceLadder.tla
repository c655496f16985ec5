----------------------------- MODULE SliceLadder ------------------------------
(***************************************************************************)
(* What the Slice lifecycle promises (docs/agent-os-layer-model.md, "Slice *)
(* lifecycle"): one plan at a time works on a Slice, and a Slice climbs    *)
(* DONE_CLAIMED -> VALIDATED -> VERIFIED -> CLOSED -> ACCEPTED one rung at *)
(* a time, never verified by its last worker and never coming down again   *)
(* once it is verified.  Every operation is atomic here.                   *)
(***************************************************************************)
CONSTANTS Actors, Plans, None

VARIABLES
  rung,    \* how far the Slice has climbed
  holder,  \* the plan that works on it
  worker   \* the actor that worked on it last

vars == <<rung, holder, worker>>

Judgements == {"REWORK_REQUIRED", "INCONCLUSIVE", "VALIDATED"}
Claimed == {"DONE_CLAIMED"} \cup Judgements
Assured == {"VERIFIED", "CLOSED", "ACCEPTED"}
Rungs == {"WORK"} \cup Claimed \cup Assured

Init ==
  /\ rung \in {"WORK", "DONE_CLAIMED"}
  /\ holder = None
  /\ worker \in Actors \cup {None}

\* Work begins on a new or rejected Slice that no other plan holds, or goes on.
Work(a, p) ==
  /\ rung \in {"WORK", "REWORK_REQUIRED"}
  /\ holder \in {None, p}
  /\ rung' = "WORK"
  /\ holder' = p
  /\ worker' = a

Claim(a, p) ==
  /\ rung = "WORK"
  /\ holder = p
  /\ rung' = "DONE_CLAIMED"
  /\ holder' = None
  /\ worker' = a

Judge(j) ==
  /\ rung \in Claimed
  /\ rung' = j
  /\ UNCHANGED <<holder, worker>>

Verify(a) ==
  /\ rung = "VALIDATED"
  /\ a # worker
  /\ rung' = "VERIFIED"
  /\ UNCHANGED <<holder, worker>>

Close ==
  /\ rung = "VERIFIED"
  /\ rung' = "CLOSED"
  /\ UNCHANGED <<holder, worker>>

Accept ==
  /\ rung = "CLOSED"
  /\ rung' = "ACCEPTED"
  /\ UNCHANGED <<holder, worker>>

Next ==
  \/ \E a \in Actors, p \in Plans : Work(a, p) \/ Claim(a, p)
  \/ \E j \in Judgements : Judge(j)
  \/ \E a \in Actors : Verify(a)
  \/ Close
  \/ Accept

Spec == Init /\ [][Next]_vars
===============================================================================
