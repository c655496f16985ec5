---------------------------- MODULE SliceLifecycle ----------------------------
(***************************************************************************)
(* One Slice of admitted work: the plans that execute it, the evidence and *)
(* gates that speak for it, and its validation, verification, closure and  *)
(* acceptance (service.py, integrity.py, work_control.py).                 *)
(*                                                                         *)
(* A call reads documents, checks its guards, and writes the Slice with a  *)
(* compare-and-set on the revision it read.  Revisions are only compared   *)
(* for equality, so the model keeps who has read the current one: `fresh`  *)
(* for the Slice, `planFresh` for the plan a call names.  A call is one    *)
(* action when its guards read only the document it writes, or documents   *)
(* in which a guard that held keeps holding: the compare-and-set then      *)
(* makes it atomic.  Every other call has a read step and a write step.    *)
(*                                                                         *)
(* Left out: what no guard reads (times, notes, steps, blockers, claims,   *)
(* assurance events, projections); the unresolved effects, whose answer is *)
(* left open here and modelled in EffectJournal; and RB/1 live checks,     *)
(* which can only refuse a verification.                                   *)
(***************************************************************************)
EXTENDS Naturals, FiniteSets

CONSTANTS
  Sessions,        \* concurrent clients, each making one call at a time
  Actors, ActorOf, \* ActorOf[s]: the actor id under which s calls
  Turns,           \* Turns[a]: modes of the WorkTurns bound to actor a
  Verifiers,       \* actors with the verifier capability
  Approvers,       \* actors with the owner's approval capability
  Validators,      \* sessions that use validate_slice
  Submitters,      \* sessions that use submit_evidence
  ImportedBy,      \* last actors of a Slice that is imported as DONE_CLAIMED
  Plans,           \* plans that may be submitted for the Slice
  AuditPlans,      \* those whose request is a VERIFICATION, AUDIT or REVIEW
  Gates,           \* acceptance gates of the Slice
  Evidence,        \* evidence documents that may be submitted
  Progress,        \* execution states that update_slice_progress is given
  MayAbort,        \* sessions whose calls may end between two of their steps
  MayDrift,        \* may the normative baseline change?
  None

Modes == {"QUERY", "CONTINUE", "EXECUTE", "VERIFY", "MODIFY", "CONTROL"}
ExecutionModes == {"CONTINUE", "EXECUTE"}

ASSUME ActorsAssumption ==
  /\ ActorOf \in [Sessions -> Actors]
  /\ Turns \in [Actors -> SUBSET Modes]
  /\ Verifiers \subseteq Actors
  /\ Approvers \subseteq Actors
  /\ Validators \subseteq Sessions
  /\ Submitters \subseteq Sessions
  /\ ImportedBy \subseteq Actors \cup {None}
  /\ MayAbort \subseteq Sessions
ASSUME DocumentsAssumption ==
  /\ AuditPlans \subseteq Plans
  /\ Progress \subseteq {"STARTED", "ACTIVE", "PAUSED", "BLOCKED"}
  /\ MayDrift \in BOOLEAN
  /\ None \notin Actors \cup Plans \cup Gates

VARIABLES
  slice,      \* the Slice document
  plan,       \* plan[p]: status and actor of plan p
  drifted,    \* plans whose normative baseline is no longer the current one
  evidence,   \* evidence[e]: the evidence document e
  approval,   \* approval[x]: the approval that concerns gate x, or acceptance
  call,       \* call[s]: the call that s is making
  fresh,      \* sessions whose copy of the Slice has the current revision
  planFresh   \* sessions whose copy of the plan they name has it

vars == <<slice, plan, drifted, evidence, approval, call, fresh, planFresh>>

-----------------------------------------------------------------------------
(* Documents.                                                              *)

ExecutionStates == {"PLANNED", "STARTED", "ACTIVE", "PAUSED", "BLOCKED", "DONE_CLAIMED"}
ValidationStates ==
  {"NOT_STARTED", "PENDING", "VALIDATED", "REWORK_REQUIRED", "INCONCLUSIVE"}
Judgements == {"VALIDATED", "REWORK_REQUIRED", "INCONCLUSIVE"}
Assured == {"VERIFIED", "ACCEPTED"}

GateDocs ==
  [status : {"OPEN", "PASS", "FAIL", "WAIVED"}, proof : SUBSET Evidence]

Slices ==
  [execution : ExecutionStates, validation : ValidationStates,
   assurance : {"UNVERIFIED"} \cup Assured, closure : {"OPEN", "CLOSED"},
   lastActor : Actors \cup {None}, activePlan : Plans \cup {None},
   lastPlan : Plans \cup {None}, verifier : Actors \cup {None},
   gates : [Gates -> GateDocs]]

PlanDocs ==
  [status : {"ABSENT", "RECORDED", "ACTIVE", "CLOSED"}, actor : Actors \cup {None}]

\* CLAIM: not admissible as proof.  RESULT: ordinary evidence of an admissible
\* class.  OBSERVATION: an AV/1 observation.  FAIL: every verdict but PASS.
EvidenceDocs ==
  [kind : {"ABSENT", "CLAIM", "RESULT", "OBSERVATION"}, verdict : {"PASS", "FAIL"},
   author : Actors \cup {None}, trust : {"UNATTESTED", "VERIFIER", "OWNER"},
   attestor : Actors \cup {None}]

Acceptance == "acceptance"
Subjects == Gates \cup {Acceptance}
ApprovalDocs ==
  [status : {"ABSENT", "REQUIRED", "APPROVED", "REJECTED"}, by : Actors \cup {None}]

Steps == {"idle", "start", "activate", "progress", "claim", "shut", "observe",
          "attest", "recheck", "verify", "decide", "accept"}

\* plan: the plan named; to: execution state asked for; proof: explicit
\* evidence of a verification, or the observation to attest; closing: close_slice.
Calls ==
  [step : Steps, plan : Plans \cup {None}, to : ExecutionStates,
   proof : SUBSET Evidence, closing : BOOLEAN]

NoCall ==
  [step |-> "idle", plan |-> None, to |-> "ACTIVE", proof |-> {}, closing |-> FALSE]

Actor(s) == ActorOf[s]
Idle(s) == call[s].step = "idle"
At(s, step) == call[s].step = step
Goto(s, c) == call' = [call EXCEPT ![s] = c]
Step(s, step) == call' = [call EXCEPT ![s].step = step]
Return(s) == Goto(s, NoCall)

\* _require_work_turn
Turn(a, allowed) == Turns[a] \cap allowed # {}

ReadSlice(s) == fresh' = fresh \cup {s}
ReadPlan(s) == planFresh' = planFresh \cup {s}

\* A mutant: the update of the Slice names no expected revision.
MutCurrent(s) == TRUE

\* _update(expected_revision) finds the revision that the call has read.
Current(s) == s \in fresh

WriteSlice(d) == slice' = d /\ fresh' = {}
WritePlan(p, d) ==
  /\ plan' = [plan EXCEPT ![p] = d]
  /\ planFresh' = {s \in planFresh : call[s].plan # p}

\* A Slice created by a plan, or imported with an execution history.
InitialSlice(x, a) ==
  [execution |-> x, validation |-> "NOT_STARTED", assurance |-> "UNVERIFIED",
   closure |-> "OPEN", lastActor |-> a, activePlan |-> None, lastPlan |-> None,
   verifier |-> None, gates |-> [g \in Gates |-> [status |-> "OPEN", proof |-> {}]]]

Init ==
  /\ \/ slice = InitialSlice("PLANNED", None)
     \/ \E a \in ImportedBy : slice = InitialSlice("DONE_CLAIMED", a)
  /\ plan = [p \in Plans |-> [status |-> "ABSENT", actor |-> None]]
  /\ drifted = {}
  /\ evidence = [e \in Evidence |->
       [kind |-> "ABSENT", verdict |-> "FAIL", author |-> None,
        trust |-> "UNATTESTED", attestor |-> None]]
  /\ approval = [x \in Subjects |-> [status |-> "ABSENT", by |-> None]]
  /\ call = [s \in Sessions |-> NoCall]
  /\ fresh = {}
  /\ planFresh = {}

-----------------------------------------------------------------------------
(* Plans: submit_plan, close_plan, and the drift of the baseline they are  *)
(* bound to.                                                               *)

SubmitPlan(s, p) ==
  /\ Idle(s)
  /\ Turn(Actor(s), ExecutionModes)
  /\ plan[p].status = "ABSENT"
  /\ plan' = [plan EXCEPT ![p] = [status |-> "RECORDED", actor |-> Actor(s)]]
  /\ UNCHANGED <<slice, drifted, evidence, approval, call, fresh, planFresh>>

\* A Specification, a contract or a contract edge changes the semantics.
Drift ==
  /\ MayDrift
  /\ drifted' = {p \in Plans : plan[p].status # "ABSENT"}
  /\ UNCHANGED <<slice, plan, evidence, approval, call, fresh, planFresh>>

\* A mutant: plans are closed without looking at the Slices bound to them.
MutUnbound(p) == TRUE

Unbound(p) == slice.activePlan # p

BeginClosePlan(s, p) ==
  /\ Idle(s)
  /\ plan[p].actor = Actor(s)
  /\ Unbound(p)
  /\ Goto(s, [NoCall EXCEPT !.step = "shut", !.plan = p])
  /\ ReadPlan(s)
  /\ UNCHANGED <<slice, plan, drifted, evidence, approval, fresh>>

ClosePlan(s) ==
  /\ At(s, "shut")
  /\ Return(s)
  /\ IF s \in planFresh
     THEN WritePlan(call[s].plan, [plan[call[s].plan] EXCEPT !.status = "CLOSED"])
     ELSE UNCHANGED <<plan, planFresh>>
  /\ UNCHANGED <<slice, drifted, evidence, approval, fresh>>

-----------------------------------------------------------------------------
(* Execution: start_slice, update_slice_progress, claim_done.              *)

\* A mutant: a Slice may be taken over from the plan it is bound to.
MutFree(p) == TRUE

\* Not bound to another plan.
Free(p) == slice.activePlan \in {None, p}

\* _require_plan_for_slice
PlanHolds(a, p) ==
  /\ plan[p].actor = a
  /\ plan[p].status \in {"RECORDED", "ACTIVE"}
  /\ Free(p)
  /\ p \notin drifted

\* A mutant: a DONE claim does not wait for the validator.
MutRestartable == TRUE

Restartable == slice.execution = "DONE_CLAIMED" => slice.validation = "REWORK_REQUIRED"

Begin(s, c) ==
  /\ Idle(s)
  /\ Goto(s, c)
  /\ ReadSlice(s)
  /\ UNCHANGED <<slice, plan, drifted, evidence, approval>>

BeginStart(s, p) ==
  /\ PlanHolds(Actor(s), p)
  /\ Restartable
  /\ Begin(s, [NoCall EXCEPT !.step = "start", !.plan = p])
  /\ ReadPlan(s)

BeginProgress(s, p, x) ==
  /\ PlanHolds(Actor(s), p)
  /\ slice.activePlan = p
  /\ Begin(s, [NoCall EXCEPT !.step = "progress", !.plan = p, !.to = x])
  /\ UNCHANGED planFresh

\* An identical DONE claim is answered without a write.
BeginClaim(s, p) ==
  /\ slice.execution # "DONE_CLAIMED"
  /\ PlanHolds(Actor(s), p)
  /\ slice.activePlan = p
  /\ p \in AuditPlans =>
       \E e \in Evidence : evidence[e].kind \in {"RESULT", "OBSERVATION"}
  /\ Begin(s, [NoCall EXCEPT !.step = "claim", !.plan = p])
  /\ UNCHANGED planFresh

Started(d, a, p) ==
  [d EXCEPT !.execution = "ACTIVE", !.validation = "NOT_STARTED", !.closure = "OPEN",
            !.lastActor = a, !.activePlan = p, !.lastPlan = p]

Progressed(d, a, p, x) ==
  [d EXCEPT !.execution = x, !.lastActor = a, !.lastPlan = p]

ClaimedDone(d, a, p) ==
  [d EXCEPT !.execution = "DONE_CLAIMED", !.validation = "PENDING", !.closure = "OPEN",
            !.lastActor = a, !.activePlan = None, !.lastPlan = p]

Start(s) ==
  /\ At(s, "start")
  /\ Current(s)
  /\ WriteSlice(Started(slice, Actor(s), call[s].plan))
  /\ Step(s, "activate")
  /\ UNCHANGED <<plan, drifted, evidence, approval, planFresh>>

\* The second write of start_slice; the Slice stays bound when it is refused.
Activate(s) ==
  /\ At(s, "activate")
  /\ Return(s)
  /\ IF s \in planFresh
     THEN WritePlan(call[s].plan, [plan[call[s].plan] EXCEPT !.status = "ACTIVE"])
     ELSE UNCHANGED <<plan, planFresh>>
  /\ UNCHANGED <<slice, drifted, evidence, approval, fresh>>

UpdateProgress(s) ==
  /\ At(s, "progress")
  /\ Current(s)
  /\ WriteSlice(Progressed(slice, Actor(s), call[s].plan, call[s].to))
  /\ Return(s)
  /\ UNCHANGED <<plan, drifted, evidence, approval, planFresh>>

Claim(s) ==
  /\ At(s, "claim")
  /\ Current(s)
  /\ WriteSlice(ClaimedDone(slice, Actor(s), call[s].plan))
  /\ Return(s)
  /\ UNCHANGED <<plan, drifted, evidence, approval, planFresh>>

-----------------------------------------------------------------------------
(* Evidence and gates: submit_evidence, attest_evidence,                   *)
(* submit_verification_observation, set_gate.                              *)

SubmitEvidence(s, e, kind, verdict) ==
  /\ Idle(s)
  /\ s \in Submitters
  /\ evidence[e].kind = "ABSENT"
  /\ evidence' = [evidence EXCEPT ![e] =
       [@ EXCEPT !.kind = kind, !.verdict = verdict, !.author = Actor(s)]]
  /\ UNCHANGED <<slice, plan, drifted, approval, call, fresh, planFresh>>

Attested(d, a, trust) == [d EXCEPT !.trust = trust, !.attestor = a]

\* Any stored evidence may be attested, again and again.
Attest(s, e, trust) ==
  /\ Idle(s)
  /\ evidence[e].kind # "ABSENT"
  /\ Actor(s) \in (IF trust = "OWNER" THEN Approvers ELSE Verifiers)
  /\ evidence' = [evidence EXCEPT ![e] = Attested(@, Actor(s), trust)]
  /\ UNCHANGED <<slice, plan, drifted, approval, call, fresh, planFresh>>

BeginObserve(s) ==
  /\ Idle(s)
  /\ Turn(Actor(s), {"VERIFY"})
  /\ Actor(s) \in Verifiers
  /\ slice.execution = "DONE_CLAIMED"
  /\ slice.lastActor # Actor(s)
  /\ Step(s, "observe")
  /\ UNCHANGED <<slice, plan, drifted, evidence, approval, fresh, planFresh>>

Observe(s, e, verdict) ==
  /\ At(s, "observe")
  /\ evidence[e].kind = "ABSENT"
  /\ evidence' = [evidence EXCEPT ![e] =
       [@ EXCEPT !.kind = "OBSERVATION", !.verdict = verdict, !.author = Actor(s)]]
  /\ Goto(s, [NoCall EXCEPT !.step = "attest", !.proof = {e}])
  /\ UNCHANGED <<slice, plan, drifted, approval, fresh, planFresh>>

\* Refused when somebody has attested the new observation in between.
AttestObservation(s) ==
  /\ At(s, "attest")
  /\ Return(s)
  /\ evidence' = [e \in Evidence |->
       IF e \in call[s].proof /\ evidence[e].trust = "UNATTESTED"
       THEN Attested(evidence[e], Actor(s), "VERIFIER")
       ELSE evidence[e]]
  /\ UNCHANGED <<slice, plan, drifted, approval, fresh, planFresh>>

Admissible(d) == d.kind \in {"RESULT", "OBSERVATION"} /\ d.trust # "UNATTESTED"
AdmissiblePass(d) == Admissible(d) /\ d.verdict = "PASS"

\* Evidence that is admissible and approvals that are given stay so, which
\* makes set_gate one action.  Evidence cited for OPEN and WAIVED is not read.
SetGate(s, g, status, proof) ==
  /\ Idle(s)
  /\ Turn(Actor(s), {"VERIFY", "CONTROL"})
  /\ \/ status = "PASS" /\ proof # {} /\ \A e \in proof : AdmissiblePass(evidence[e])
     \/ status = "WAIVED" /\ proof = {} /\ approval[g].status = "APPROVED"
     \/ status = "FAIL" /\ \A e \in proof : Admissible(evidence[e])
     \/ status = "OPEN" /\ proof = {}
  /\ WriteSlice([slice EXCEPT !.gates[g] = [status |-> status, proof |-> proof]])
  /\ UNCHANGED <<plan, drifted, evidence, approval, call, planFresh>>

-----------------------------------------------------------------------------
(* Approvals: request_override, approve_override, reject_override.         *)

Request(s, x) ==
  /\ Idle(s)
  /\ approval[x].status = "ABSENT"
  /\ approval' = [approval EXCEPT ![x].status = "REQUIRED"]
  /\ UNCHANGED <<slice, plan, drifted, evidence, call, fresh, planFresh>>

Decide(s, x, status) ==
  /\ Idle(s)
  /\ Actor(s) \in Approvers
  /\ approval[x].status = "REQUIRED"
  /\ approval' = [approval EXCEPT ![x] = [status |-> status, by |-> Actor(s)]]
  /\ UNCHANGED <<slice, plan, drifted, evidence, call, fresh, planFresh>>

-----------------------------------------------------------------------------
(* Validation: validate_slice.                                             *)

\* A mutant: a verified Slice can be judged again.
MutJudgeable == slice.execution = "DONE_CLAIMED"

Judgeable == slice.execution = "DONE_CLAIMED" /\ slice.assurance \notin Assured

Validate(s, judgement) ==
  /\ Idle(s)
  /\ s \in Validators
  /\ Turn(Actor(s), {"VERIFY", "CONTROL"})
  /\ Judgeable
  /\ WriteSlice([slice EXCEPT !.validation = judgement, !.closure = "OPEN"])
  /\ UNCHANGED <<plan, drifted, evidence, approval, call, planFresh>>

-----------------------------------------------------------------------------
(* Verification: verify_slice reads the Slice for its validation, reads it *)
(* again for its assurance, writes VERIFIED, and then decides on closure.  *)

\* _is_independent_pass_observation
Independent(d, executor) ==
  /\ d.kind = "OBSERVATION"
  /\ d.author # executor
  /\ d.attestor = d.author
  /\ d.trust = "VERIFIER"
  /\ d.verdict = "PASS"

HasIndependent(proof) == \E e \in proof : Independent(evidence[e], slice.lastActor)

\* A mutant: attested evidence is enough, whoever it comes from.
MutGateSpeaksForIt(g) ==
  \/ slice.gates[g].status = "WAIVED" /\ approval[g].status = "APPROVED"
  \/ /\ slice.gates[g].status = "PASS"
     /\ \A e \in slice.gates[g].proof : AdmissiblePass(evidence[e])

GateSpeaksForIt(g) ==
  \/ slice.gates[g].status = "WAIVED" /\ approval[g].status = "APPROVED"
  \/ /\ slice.gates[g].status = "PASS"
     /\ \A e \in slice.gates[g].proof : AdmissiblePass(evidence[e])
     /\ HasIndependent(slice.gates[g].proof)

Verifiable(a, proof) ==
  /\ a \in Verifiers
  /\ slice.assurance \notin Assured
  /\ slice.execution = "DONE_CLAIMED"
  /\ slice.lastActor # a
  /\ \A g \in Gates : GateSpeaksForIt(g)
  /\ \A e \in proof : AdmissiblePass(evidence[e])
  /\ Gates = {} => HasIndependent(proof)

BeginVerify(s, proof, closing) ==
  /\ Idle(s)
  /\ Turn(Actor(s), {"VERIFY"})
  /\ slice.validation = "VALIDATED"
  /\ slice.lastPlan \notin drifted
  /\ Goto(s, [NoCall EXCEPT !.step = "recheck", !.proof = proof, !.closing = closing])
  /\ UNCHANGED <<slice, plan, drifted, evidence, approval, fresh, planFresh>>

Recheck(s) ==
  /\ At(s, "recheck")
  /\ IF Verifiable(Actor(s), call[s].proof)
     THEN Step(s, "verify") /\ ReadSlice(s)
     ELSE Return(s) /\ UNCHANGED fresh
  /\ UNCHANGED <<slice, plan, drifted, evidence, approval, planFresh>>

Verify(s) ==
  /\ At(s, "verify")
  /\ Current(s)
  /\ WriteSlice([slice EXCEPT !.assurance = "VERIFIED", !.verifier = Actor(s)])
  /\ Step(s, "decide")
  /\ UNCHANGED <<plan, drifted, evidence, approval, planFresh>>

\* The last write of verify_slice, on a third read of the Slice.  blocked: are
\* there unresolved required effects?
DecideClosure(s, blocked) ==
  /\ At(s, "decide")
  /\ Return(s)
  /\ \/ /\ call[s].closing /\ ~blocked
        /\ WriteSlice([slice EXCEPT !.closure = "CLOSED"])
     \/ /\ ~call[s].closing \/ blocked
        /\ slice.closure # "OPEN"
        /\ WriteSlice([slice EXCEPT !.closure = "OPEN"])
     \/ /\ ~call[s].closing \/ blocked
        /\ slice.closure = "OPEN"
        /\ UNCHANGED <<slice, fresh>>
  /\ UNCHANGED <<plan, drifted, evidence, approval, planFresh>>

\* close_verified_slice, when no required effect is unresolved.
CloseVerified(s) ==
  /\ Idle(s)
  /\ Actor(s) \in Verifiers
  /\ Turn(Actor(s), {"VERIFY"})
  /\ slice.validation = "VALIDATED"
  /\ slice.assurance \in Assured
  /\ slice.closure # "CLOSED"
  /\ WriteSlice([slice EXCEPT !.closure = "CLOSED"])
  /\ UNCHANGED <<plan, drifted, evidence, approval, call, planFresh>>

-----------------------------------------------------------------------------
(* Acceptance: accept_slice reads the Slice for its closure, and again for *)
(* its assurance; the approval is a decision of the owner.                 *)

BeginAccept(s) ==
  /\ Idle(s)
  /\ slice.closure = "CLOSED"
  /\ approval[Acceptance].by = Actor(s)
  /\ Turn(Actor(s), {"CONTROL"})
  /\ Step(s, "accept")
  /\ UNCHANGED <<slice, plan, drifted, evidence, approval, fresh, planFresh>>

Accept(s) ==
  /\ At(s, "accept")
  /\ Return(s)
  /\ IF slice.assurance = "VERIFIED" /\ approval[Acceptance].status = "APPROVED"
     THEN WriteSlice([slice EXCEPT !.assurance = "ACCEPTED"])
     ELSE UNCHANGED <<slice, fresh>>
  /\ UNCHANGED <<plan, drifted, evidence, approval, planFresh>>

-----------------------------------------------------------------------------
(* RevisionConflict, and calls that end early: the session dies, or one of *)
(* the writes that follow the transition (claims, events, views) fails.    *)

Conflict(s) ==
  /\ call[s].step \in {"start", "progress", "claim", "verify"}
  /\ ~Current(s)
  /\ Return(s)
  /\ UNCHANGED <<slice, plan, drifted, evidence, approval, fresh, planFresh>>

Abort(s) ==
  /\ s \in MayAbort
  /\ ~Idle(s)
  /\ Return(s)
  /\ fresh' = fresh \ {s}
  /\ planFresh' = planFresh \ {s}
  /\ UNCHANGED <<slice, plan, drifted, evidence, approval>>

PlanCall(s) ==
  \/ \E p \in Plans :
       \/ SubmitPlan(s, p) \/ BeginClosePlan(s, p)
       \/ BeginStart(s, p) \/ BeginClaim(s, p)
       \/ \E x \in Progress : BeginProgress(s, p, x)
  \/ ClosePlan(s) \/ Start(s) \/ Activate(s) \/ UpdateProgress(s) \/ Claim(s)

ProofCall(s) ==
  \/ \E e \in Evidence, verdict \in {"PASS", "FAIL"} :
       \/ \E kind \in {"CLAIM", "RESULT"} : SubmitEvidence(s, e, kind, verdict)
       \/ Observe(s, e, verdict)
  \/ \E e \in Evidence, trust \in {"VERIFIER", "OWNER"} : Attest(s, e, trust)
  \/ BeginObserve(s) \/ AttestObservation(s)
  \/ \E g \in Gates, status \in {"OPEN", "PASS", "FAIL", "WAIVED"},
        proof \in SUBSET Evidence : SetGate(s, g, status, proof)
  \/ \E x \in Subjects :
       \/ Request(s, x)
       \/ \E status \in {"APPROVED", "REJECTED"} : Decide(s, x, status)

AssuranceCall(s) ==
  \/ \E j \in Judgements : Validate(s, j)
  \/ \E proof \in SUBSET Evidence, closing \in BOOLEAN : BeginVerify(s, proof, closing)
  \/ Recheck(s) \/ Verify(s) \/ CloseVerified(s)
  \/ \E blocked \in BOOLEAN : DecideClosure(s, blocked)
  \/ BeginAccept(s) \/ Accept(s)

Next ==
  \/ \E s \in Sessions :
       PlanCall(s) \/ ProofCall(s) \/ AssuranceCall(s) \/ Conflict(s) \/ Abort(s)
  \/ Drift

Spec == Init /\ [][Next]_vars

-----------------------------------------------------------------------------
(* Properties                                                              *)

TypeOK ==
  /\ slice \in Slices
  /\ plan \in [Plans -> PlanDocs]
  /\ drifted \subseteq Plans
  /\ evidence \in [Evidence -> EvidenceDocs]
  /\ approval \in [Subjects -> ApprovalDocs]
  /\ call \in [Sessions -> Calls]
  /\ fresh \subseteq Sessions
  /\ planFresh \subseteq Sessions

\* A verified Slice is one whose last DONE claim the validator has found
\* complete (docs/adversarial-verification.md, "Final verification rule"):
\* verify_slice reads the validation and writes the assurance at different
\* moments, between which others may judge, restart or claim again.
AssuranceRestsOnValidation ==
  slice.assurance \in Assured =>
    slice.validation = "VALIDATED" /\ slice.execution = "DONE_CLAIMED"

\* Closure needs verification, acceptance needs closure, whatever has been
\* written between the two reads of accept_slice.
AcceptedIsClosed ==
  /\ slice.closure = "CLOSED" => slice.assurance \in Assured
  /\ slice.assurance = "ACCEPTED" => slice.closure = "CLOSED"

\* "cannot close a plan while slices are actively bound to it" (close_plan):
\* a Slice bound to a closed plan could not be worked on, claimed or rebound.
BoundPlanIsOpen ==
  slice.activePlan # None => plan[slice.activePlan].status \in {"RECORDED", "ACTIVE"}

\* While a Slice is bound to a plan nobody but the plan's actor executes it.
OnlyTheBoundWorker ==
  [][slice.activePlan # None
       /\ <<slice'.execution, slice'.activePlan, slice'.lastActor>>
            # <<slice.execution, slice.activePlan, slice.lastActor>>
     => /\ slice'.lastActor = plan[slice.activePlan].actor
        /\ slice'.activePlan \in {None, slice.activePlan}]_vars

\* The step that makes a Slice VERIFIED finds, for each gate that is not waived
\* (and for the explicit proof, when there are no gates), a PASS that somebody
\* other than the last executor has observed; and it is not the executor's.
ObservedByAnother(proof) ==
  \E e \in proof : evidence[e].kind = "OBSERVATION" /\ evidence[e].verdict = "PASS"
                     /\ evidence[e].author # slice.lastActor
VerifiedOnProof ==
  [][slice.assurance = "UNVERIFIED" /\ slice'.assurance = "VERIFIED" =>
       /\ slice'.verifier # slice.lastActor
       /\ \A g \in Gates :
            \/ slice.gates[g].status = "WAIVED" /\ approval[g].status = "APPROVED"
            \/ slice.gates[g].status = "PASS" /\ ObservedByAnother(slice.gates[g].proof)
       /\ Gates = {} =>
            \E s \in Sessions : At(s, "verify") /\ ObservedByAnother(call[s].proof)]_vars

\* "reconciliation must explicitly bind a new Plan" when the baseline changes
\* (docs/work-identity-v0.3.md, "Deterministic effective truth"): an open plan
\* under the current baseline can take the Slice over from a drifted one.
NewPlanCanBind ==
  slice.activePlan \in drifted =>
    \A p \in Plans \ drifted :
      plan[p].status \in {"RECORDED", "ACTIVE"} => PlanHolds(plan[p].actor, p)

-----------------------------------------------------------------------------
(* The lifecycle implements the ladder.                                    *)

Rung ==
  CASE slice.assurance = "ACCEPTED" -> "ACCEPTED"
    [] slice.assurance = "VERIFIED" /\ slice.closure = "CLOSED" -> "CLOSED"
    [] slice.assurance = "VERIFIED" /\ slice.closure = "OPEN" -> "VERIFIED"
    [] slice.assurance = "UNVERIFIED" /\ slice.execution # "DONE_CLAIMED" -> "WORK"
    [] slice.assurance = "UNVERIFIED" /\ slice.execution = "DONE_CLAIMED" ->
         IF slice.validation \in Judgements THEN slice.validation ELSE "DONE_CLAIMED"

Ladder == INSTANCE SliceLadder WITH
  rung <- Rung, holder <- slice.activePlan, worker <- slice.lastActor

\* Every step of the interleaved calls is one step of the ladder or none.
ImplementsLadder == Ladder!Spec
===============================================================================
