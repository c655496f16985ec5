--------------------------- MODULE MCWorkGovernance ---------------------------
(* The governance of work, in four parts that touch different documents:     *)
(* admission, supersession, norms and delegation.  Since no part reads what  *)
(* another one writes, each behaviour exercises one of them.                 *)
EXTENDS Naturals, TLC

CONSTANTS Sessions, Intents, MaxEnters, Works, Project, Hops, MaxLinks, Contracts, First, MaxChanges,
          Tasks, Limits, MaxAsked, MaxRows, MaxPublished
VARIABLES part,
          families, requests, works, baselines, turns, plans, slices, entering, answers, entered,
          supersedes, recorded, modifyTurns, linking, linked, raced, cut,
          specs, family, contracts, evolution, generations, materialized, boundPlans, changing, changed,
          casualty, promoted,
          profile, approved, delegations, authorizing, asked, published, high, most

admission == <<families, requests, works, baselines, turns, plans, slices, entering, answers, entered>>
supersession == <<supersedes, recorded, modifyTurns, linking, linked, raced, cut>>
norms == <<specs, family, contracts, evolution, generations, materialized, boundPlans, changing, changed,
           casualty, promoted>>
delegation == <<profile, approved, delegations, authorizing, asked, published, high, most>>

Admission    == INSTANCE WorkAdmission
Supersession == INSTANCE WorkSupersession
Norms        == INSTANCE NormativeBaseline
Delegation   == INSTANCE WorkDelegation

ASSUME GovernanceAssumption ==
    /\ Admission!AdmissionAssumption /\ Supersession!SupersessionAssumption
    /\ Norms!BaselineAssumption /\ Delegation!DelegationAssumption

Init ==
    /\ part \in {"admission", "supersession", "norms", "delegation"}
    /\ Admission!Init /\ Supersession!Init /\ Norms!Init /\ Delegation!Init

Next ==
    /\ UNCHANGED part
    /\ \/ part = "admission" /\ Admission!Next
          /\ UNCHANGED <<supersession, norms, delegation>>
       \/ part = "supersession" /\ Supersession!Next
          /\ UNCHANGED <<admission, norms, delegation>>
       \/ part = "norms" /\ Norms!Next
          /\ UNCHANGED <<admission, supersession, delegation>>
       \/ part = "delegation" /\ Delegation!Next
          /\ UNCHANGED <<admission, supersession, norms>>

Spec == Init /\ [][Next]_<<part, admission, supersession, norms, delegation>>

\* The second project holds one work, which nothing of the first may be superseded by.
MCProject == [w \in Works |-> IF w = 4 THEN "second" ELSE "first"]
Symmetry == Permutations(Sessions)

\* enter_work: concurrent admissions of one prompt get one execution target.
OneActiveTarget == Admission!OneActiveTarget
\* enter_work: no plan without admitted work and its baseline; no prompt rebinds work.
AdmissionIsComplete == Admission!AdmissionIsComplete
\* supersede_work: archived work leads to one canonical work; the histories tell of every
\* edge whose calls were not cut short.
CandidateIsCanonical == Supersession!CandidateIsCanonical
\* create_spec: the specification in force only moves to a higher version.
VersionsAdvance == Norms!VersionsAdvance
\* Crossing normative changes leave the semantics with a baseline.
QuietlyCurrent == Norms!QuietlyCurrent
\* authorize_delegation: the race past the limit of a worker is bounded.
OverrunIsBounded == Delegation!OverrunIsBounded
=============================================================================
