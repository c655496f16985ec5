------------------------- MODULE SliceLifecycleProofs -------------------------
(***************************************************************************)
(* Proofs about SliceLifecycle, for any number of sessions, actors, plans, *)
(* gates and evidence documents.                                           *)
(***************************************************************************)
EXTENDS SliceLifecycle, TLAPS

\* The steps at which a call has named a plan.
PlanSteps == {"start", "activate", "progress", "claim", "shut"}
CallsTyped == \A s \in Sessions : call[s].step \in PlanSteps => call[s].plan \in Plans

TypeInv == TypeOK /\ CallsTyped

-----------------------------------------------------------------------------
(* Documents and calls. *)

LEMMA NoCallType == NoCall \in Calls /\ NoCall.step = "idle"
BY DEF NoCall, Calls, Steps, ExecutionStates

LEMMA ActorType == \A s \in Sessions : Actor(s) \in Actors
BY ActorsAssumption DEF Actor

\* A call that goes on changes its step only.
LEMMA StepFacts ==
  ASSUME TypeInv, NEW s \in Sessions, NEW step \in Steps, Step(s, step)
  PROVE  /\ call' \in [Sessions -> Calls]
         /\ call'[s].step = step
         /\ call'[s].plan = call[s].plan
         /\ \A r \in Sessions : r # s => call'[r] = call[r]
<1>1. PICK c \in Calls : c = call[s]
  BY DEF TypeInv, TypeOK
<1>2. PICK d : d = [c EXCEPT !.step = step]
  OBVIOUS
<1>3. d \in Calls /\ d.step = step /\ d.plan = c.plan
  BY <1>2 DEF Calls
<1>4. call' = [call EXCEPT ![s] = d]
  BY <1>1, <1>2, Zenon DEF Step
<1> QED
  BY <1>1, <1>3, <1>4 DEF TypeInv, TypeOK

\* A call that begins replaces the call of its session, and no other.
LEMMA GotoFacts ==
  ASSUME TypeInv, NEW s \in Sessions, NEW c \in Calls, Goto(s, c)
  PROVE  /\ call' \in [Sessions -> Calls]
         /\ call'[s] = c
         /\ \A r \in Sessions : r # s => call'[r] = call[r]
BY DEF Goto, TypeInv, TypeOK

LEMMA ReturnFacts ==
  ASSUME TypeInv, NEW s \in Sessions, Return(s)
  PROVE  /\ call' \in [Sessions -> Calls]
         /\ call'[s].step = "idle"
         /\ \A r \in Sessions : r # s => call'[r] = call[r]
         /\ CallsTyped'
<1>1. /\ call' \in [Sessions -> Calls]
      /\ call'[s] = NoCall
      /\ \A r \in Sessions : r # s => call'[r] = call[r]
  BY NoCallType, GotoFacts DEF Return
<1> QED
  BY <1>1, NoCallType DEF TypeInv, CallsTyped, PlanSteps

\* The calls that name a plan.
LEMMA PlanCallType ==
  ASSUME NEW p \in Plans, NEW step \in Steps
  PROVE  /\ [NoCall EXCEPT !.step = step, !.plan = p] \in Calls
         /\ [NoCall EXCEPT !.step = step, !.plan = p].step = step
         /\ [NoCall EXCEPT !.step = step, !.plan = p].plan = p
BY NoCallType DEF NoCall, Calls

\* The three writes of execution.
LEMMA StartedFacts ==
  ASSUME slice \in Slices, NEW a \in Actors, NEW p \in Plans
  PROVE  /\ Started(slice, a, p) \in Slices
         /\ Started(slice, a, p).activePlan = p
         /\ Started(slice, a, p).lastActor = a
<1>1. PICK d : d = Started(slice, a, p)
  OBVIOUS
<1>2. d \in Slices /\ d.activePlan = p /\ d.lastActor = a
  BY <1>1 DEF Started, Slices, ExecutionStates, ValidationStates
<1> QED
  BY <1>1, <1>2

LEMMA ProgressedFacts ==
  ASSUME slice \in Slices, NEW a \in Actors, NEW p \in Plans, NEW x \in ExecutionStates
  PROVE  /\ Progressed(slice, a, p, x) \in Slices
         /\ Progressed(slice, a, p, x).activePlan = slice.activePlan
         /\ Progressed(slice, a, p, x).lastActor = a
<1>1. PICK d : d = Progressed(slice, a, p, x)
  OBVIOUS
<1>2. d \in Slices /\ d.activePlan = slice.activePlan /\ d.lastActor = a
  BY <1>1 DEF Progressed, Slices
<1> QED
  BY <1>1, <1>2

LEMMA ClaimedDoneFacts ==
  ASSUME slice \in Slices, NEW a \in Actors, NEW p \in Plans
  PROVE  /\ ClaimedDone(slice, a, p) \in Slices
         /\ ClaimedDone(slice, a, p).activePlan = None
         /\ ClaimedDone(slice, a, p).lastActor = a
<1>1. PICK d : d = ClaimedDone(slice, a, p)
  OBVIOUS
<1>2. d \in Slices /\ d.activePlan = None /\ d.lastActor = a
  BY <1>1 DEF ClaimedDone, Slices, ExecutionStates, ValidationStates
<1> QED
  BY <1>1, <1>2

\* What the others write of the Slice, and what they leave alone.
Kept(d) ==
  /\ d \in Slices
  /\ d.execution = slice.execution
  /\ d.activePlan = slice.activePlan
  /\ d.lastActor = slice.lastActor

LEMMA GateFacts ==
  ASSUME slice \in Slices, NEW g \in Gates, NEW gate \in GateDocs
  PROVE  Kept([slice EXCEPT !.gates[g] = gate])
<1>1. PICK gates : gates = [slice.gates EXCEPT ![g] = gate]
  OBVIOUS
<1>2. gates \in [Gates -> GateDocs]
  BY <1>1 DEF Slices
<1>3. PICK d : d = [slice EXCEPT !.gates = gates]
  OBVIOUS
<1>4. Kept(d)
  BY <1>2, <1>3 DEF Kept, Slices
<1>5. d = [slice EXCEPT !.gates[g] = gate]
  BY <1>1, <1>3, Zenon
<1> QED
  BY <1>4, <1>5

LEMMA JudgedFacts ==
  ASSUME slice \in Slices, NEW judgement \in Judgements
  PROVE  Kept([slice EXCEPT !.validation = judgement, !.closure = "OPEN"])
BY DEF Kept, Slices, Judgements, ValidationStates

LEMMA VerifiedFacts ==
  ASSUME slice \in Slices, NEW a \in Actors
  PROVE  Kept([slice EXCEPT !.assurance = "VERIFIED", !.verifier = a])
BY DEF Kept, Slices, Assured

LEMMA ClosureFacts ==
  ASSUME slice \in Slices, NEW closure \in {"OPEN", "CLOSED"}
  PROVE  Kept([slice EXCEPT !.closure = closure])
BY DEF Kept, Slices

LEMMA AcceptedFacts ==
  ASSUME slice \in Slices
  PROVE  Kept([slice EXCEPT !.assurance = "ACCEPTED"])
BY DEF Kept, Slices, Assured

LEMMA WritePlanFacts ==
  ASSUME TypeInv, NEW p \in Plans, NEW status \in {"ACTIVE", "CLOSED"},
         WritePlan(p, [plan[p] EXCEPT !.status = status])
  PROVE  /\ plan' \in [Plans -> PlanDocs]
         /\ plan'[p].status = status
         /\ plan'[p].actor = plan[p].actor
         /\ \A q \in Plans : q # p => plan'[q] = plan[q]
         /\ planFresh' \subseteq Sessions
<1>1. PICK d \in PlanDocs : d = plan[p]
  BY DEF TypeInv, TypeOK
<1>2. PICK e : e = [d EXCEPT !.status = status]
  OBVIOUS
<1>3. e \in PlanDocs /\ e.status = status /\ e.actor = d.actor
  BY <1>2 DEF PlanDocs
<1>4. plan' = [plan EXCEPT ![p] = e]
  BY <1>1, <1>2, Zenon DEF WritePlan
<1>5. planFresh' \subseteq Sessions
  BY DEF WritePlan, TypeInv, TypeOK
<1> QED
  BY <1>1, <1>3, <1>4, <1>5 DEF TypeInv, TypeOK

-----------------------------------------------------------------------------
(* Operations on evidence, gates, approvals and assurance, the drift of the *)
(* baseline and the calls that end early touch neither plans nor bindings.  *)

Quiet ==
  /\ Kept(slice')
  /\ plan' = plan
  /\ \A s \in Sessions :
       call'[s].step \in PlanSteps => call'[s] = call[s] /\ (s \in fresh' => s \in fresh)

\* The call of a quiet operation is idle or at a step without a plan.
LEMMA QuietCall ==
  ASSUME TypeInv, NEW s \in Sessions,
         call' \in [Sessions -> Calls],
         call'[s].step \notin PlanSteps,
         \A r \in Sessions : r # s => call'[r] = call[r]
  PROVE  /\ CallsTyped'
         /\ \A r \in Sessions : call'[r].step \in PlanSteps => call'[r] = call[r]
BY DEF TypeInv, CallsTyped

LEMMA KeptSame ==
  ASSUME TypeInv, UNCHANGED slice
  PROVE  Kept(slice')
BY DEF Kept, TypeInv, TypeOK

\* Operations that touch evidence or approvals and no call.
LEMMA QuietDocuments ==
  ASSUME TypeInv, UNCHANGED <<slice, plan, call, fresh>>
  PROVE  Quiet /\ CallsTyped'
BY KeptSame DEF Quiet, TypeInv, CallsTyped

\* Operations that write the Slice from an idle session.
LEMMA QuietWrite ==
  ASSUME TypeInv, NEW d, Kept(d), WriteSlice(d),
         UNCHANGED <<plan, drifted, evidence, approval, call, planFresh>>
  PROVE  Quiet /\ TypeInv'
BY DEF Quiet, WriteSlice, Kept, TypeInv, TypeOK, CallsTyped

LEMMA QuietProof ==
  ASSUME TypeInv, NEW s \in Sessions, ProofCall(s)
  PROVE  Quiet /\ TypeInv'
<1> USE DEF TypeInv
<1>a. ASSUME NEW e \in Evidence, NEW kind \in {"CLAIM", "RESULT"},
             NEW verdict \in {"PASS", "FAIL"}, SubmitEvidence(s, e, kind, verdict)
      PROVE  Quiet /\ TypeInv'
  <2>1. PICK d \in EvidenceDocs : d = evidence[e]
    BY DEF TypeOK
  <2>2. PICK f : f = [d EXCEPT !.kind = kind, !.verdict = verdict, !.author = Actor(s)]
    OBVIOUS
  <2>3. f \in EvidenceDocs
    BY <2>2, ActorType DEF EvidenceDocs
  <2>4. evidence' = [evidence EXCEPT ![e] = f]
    BY <1>a, <2>1, <2>2, Zenon DEF SubmitEvidence
  <2> QED
    BY <1>a, <2>3, <2>4, QuietDocuments DEF SubmitEvidence, TypeOK
<1>b. ASSUME NEW e \in Evidence, NEW verdict \in {"PASS", "FAIL"}, Observe(s, e, verdict)
      PROVE  Quiet /\ TypeInv'
  <2>1. PICK d \in EvidenceDocs : d = evidence[e]
    BY DEF TypeOK
  <2>2. PICK f : f = [d EXCEPT !.kind = "OBSERVATION", !.verdict = verdict, !.author = Actor(s)]
    OBVIOUS
  <2>3. f \in EvidenceDocs
    BY <2>2, ActorType DEF EvidenceDocs
  <2>4. evidence' = [evidence EXCEPT ![e] = f]
    BY <1>b, <2>1, <2>2, Zenon DEF Observe
  <2>5. PICK c : c = [NoCall EXCEPT !.step = "attest", !.proof = {e}]
    OBVIOUS
  <2>6. c \in Calls /\ c.step = "attest"
    BY <2>5, NoCallType DEF NoCall, Calls, Steps
  <2>7. Goto(s, c)
    BY <1>b, <2>5 DEF Observe
  <2>8. /\ call' \in [Sessions -> Calls]
        /\ call'[s].step \notin PlanSteps
        /\ \A r \in Sessions : r # s => call'[r] = call[r]
    BY <2>6, <2>7, GotoFacts DEF PlanSteps
  <2> QED
    BY <1>b, <2>3, <2>4, <2>8, QuietCall, KeptSame DEF Observe, TypeOK, Quiet
<1>c. ASSUME NEW e \in Evidence, NEW trust \in {"VERIFIER", "OWNER"}, Attest(s, e, trust)
      PROVE  Quiet /\ TypeInv'
  <2>1. PICK d \in EvidenceDocs : d = evidence[e]
    BY DEF TypeOK
  <2>2. PICK f : f = Attested(d, Actor(s), trust)
    OBVIOUS
  <2>3. f \in EvidenceDocs
    BY <2>2, ActorType DEF EvidenceDocs, Attested
  <2>4. evidence' = [evidence EXCEPT ![e] = f]
    BY <1>c, <2>1, <2>2, Zenon DEF Attest
  <2> QED
    BY <1>c, <2>3, <2>4, QuietDocuments DEF Attest, TypeOK
<1>d. ASSUME BeginObserve(s)
      PROVE  Quiet /\ TypeInv'
  <2>1. /\ call' \in [Sessions -> Calls]
        /\ call'[s].step \notin PlanSteps
        /\ \A r \in Sessions : r # s => call'[r] = call[r]
    BY <1>d, StepFacts DEF BeginObserve, Steps, PlanSteps
  <2> QED
    BY <1>d, <2>1, QuietCall, KeptSame DEF BeginObserve, TypeOK, Quiet
<1>e. ASSUME AttestObservation(s)
      PROVE  Quiet /\ TypeInv'
  <2>1. ASSUME NEW e \in Evidence
        PROVE  Attested(evidence[e], Actor(s), "VERIFIER") \in EvidenceDocs
    BY ActorType DEF TypeOK, EvidenceDocs, Attested
  <2>2. evidence' \in [Evidence -> EvidenceDocs]
    BY <1>e, <2>1 DEF AttestObservation, TypeOK
  <2>3. /\ call' \in [Sessions -> Calls]
        /\ call'[s].step \notin PlanSteps
        /\ \A r \in Sessions : r # s => call'[r] = call[r]
    BY <1>e, ReturnFacts DEF AttestObservation, PlanSteps
  <2> QED
    BY <1>e, <2>2, <2>3, QuietCall, KeptSame DEF AttestObservation, TypeOK, Quiet
<1>f. ASSUME NEW g \in Gates, NEW status \in {"OPEN", "PASS", "FAIL", "WAIVED"},
             NEW proof \in SUBSET Evidence, SetGate(s, g, status, proof)
      PROVE  Quiet /\ TypeInv'
  <2>1. [status |-> status, proof |-> proof] \in GateDocs
    BY DEF GateDocs
  <2> QED
    BY <1>f, <2>1, GateFacts, QuietWrite DEF SetGate, TypeOK
<1>g. ASSUME NEW x \in Subjects, Request(s, x)
      PROVE  Quiet /\ TypeInv'
  <2>1. approval' \in [Subjects -> ApprovalDocs]
    BY <1>g DEF Request, TypeOK, ApprovalDocs
  <2> QED
    BY <1>g, <2>1, QuietDocuments DEF Request, TypeOK
<1>h. ASSUME NEW x \in Subjects, NEW status \in {"APPROVED", "REJECTED"}, Decide(s, x, status)
      PROVE  Quiet /\ TypeInv'
  <2>1. approval' \in [Subjects -> ApprovalDocs]
    BY <1>h, ActorType DEF Decide, TypeOK, ApprovalDocs
  <2> QED
    BY <1>h, <2>1, QuietDocuments DEF Decide, TypeOK
<1> QED
  BY <1>a, <1>b, <1>c, <1>d, <1>e, <1>f, <1>g, <1>h DEF ProofCall

LEMMA QuietAssurance ==
  ASSUME TypeInv, NEW s \in Sessions, AssuranceCall(s)
  PROVE  Quiet /\ TypeInv'
<1> USE DEF TypeInv
<1>a. ASSUME NEW j \in Judgements, Validate(s, j)
      PROVE  Quiet /\ TypeInv'
  BY <1>a, JudgedFacts, QuietWrite DEF Validate, TypeOK
<1>b. ASSUME NEW proof \in SUBSET Evidence, NEW closing \in BOOLEAN,
             BeginVerify(s, proof, closing)
      PROVE  Quiet /\ TypeInv'
  <2>1. PICK c : c = [NoCall EXCEPT !.step = "recheck", !.proof = proof, !.closing = closing]
    OBVIOUS
  <2>2. c \in Calls /\ c.step = "recheck"
    BY <2>1, NoCallType DEF NoCall, Calls, Steps
  <2>3. Goto(s, c)
    BY <1>b, <2>1 DEF BeginVerify
  <2>4. /\ call' \in [Sessions -> Calls]
        /\ call'[s].step \notin PlanSteps
        /\ \A r \in Sessions : r # s => call'[r] = call[r]
    BY <2>2, <2>3, GotoFacts DEF PlanSteps
  <2> QED
    BY <1>b, <2>4, QuietCall, KeptSame DEF BeginVerify, TypeOK, Quiet
<1>c. ASSUME Recheck(s)
      PROVE  Quiet /\ TypeInv'
  <2>1. /\ call' \in [Sessions -> Calls]
        /\ call'[s].step \notin PlanSteps
        /\ \A r \in Sessions : r # s => call'[r] = call[r]
    BY <1>c, StepFacts, ReturnFacts DEF Recheck, Steps, PlanSteps
  <2>2. fresh' \subseteq fresh \cup {s}
    BY <1>c DEF Recheck, ReadSlice
  <2> QED
    BY <1>c, <2>1, <2>2, QuietCall, KeptSame DEF Recheck, TypeOK, Quiet
<1>d. ASSUME Verify(s)
      PROVE  Quiet /\ TypeInv'
  <2>1. /\ call' \in [Sessions -> Calls]
        /\ call'[s].step \notin PlanSteps
        /\ \A r \in Sessions : r # s => call'[r] = call[r]
    BY <1>d, StepFacts DEF Verify, Steps, PlanSteps
  <2>2. Kept(slice') /\ fresh' = {}
    BY <1>d, ActorType, VerifiedFacts DEF Verify, WriteSlice, TypeOK
  <2> QED
    BY <1>d, <2>1, <2>2, QuietCall DEF Verify, TypeOK, Quiet, Kept
<1>e. ASSUME CloseVerified(s)
      PROVE  Quiet /\ TypeInv'
  BY <1>e, ClosureFacts, QuietWrite DEF CloseVerified, TypeOK
<1>f. ASSUME NEW blocked \in BOOLEAN, DecideClosure(s, blocked)
      PROVE  Quiet /\ TypeInv'
  <2>1. /\ call' \in [Sessions -> Calls]
        /\ call'[s].step \notin PlanSteps
        /\ \A r \in Sessions : r # s => call'[r] = call[r]
    BY <1>f, ReturnFacts DEF DecideClosure, PlanSteps
  <2>2. Kept(slice') /\ fresh' \subseteq fresh
    BY <1>f, ClosureFacts, KeptSame DEF DecideClosure, WriteSlice, TypeOK
  <2> QED
    BY <1>f, <2>1, <2>2, QuietCall DEF DecideClosure, TypeOK, Quiet, Kept
<1>g. ASSUME BeginAccept(s)
      PROVE  Quiet /\ TypeInv'
  <2>1. /\ call' \in [Sessions -> Calls]
        /\ call'[s].step \notin PlanSteps
        /\ \A r \in Sessions : r # s => call'[r] = call[r]
    BY <1>g, StepFacts DEF BeginAccept, Steps, PlanSteps
  <2> QED
    BY <1>g, <2>1, QuietCall, KeptSame DEF BeginAccept, TypeOK, Quiet
<1>h. ASSUME Accept(s)
      PROVE  Quiet /\ TypeInv'
  <2>1. /\ call' \in [Sessions -> Calls]
        /\ call'[s].step \notin PlanSteps
        /\ \A r \in Sessions : r # s => call'[r] = call[r]
    BY <1>h, ReturnFacts DEF Accept, PlanSteps
  <2>2. Kept(slice') /\ fresh' \subseteq fresh
    BY <1>h, AcceptedFacts, KeptSame DEF Accept, WriteSlice, TypeOK
  <2> QED
    BY <1>h, <2>1, <2>2, QuietCall DEF Accept, TypeOK, Quiet, Kept
<1> QED
  BY <1>a, <1>b, <1>c, <1>d, <1>e, <1>f, <1>g, <1>h DEF AssuranceCall

LEMMA QuietEnd ==
  ASSUME TypeInv, NEW s \in Sessions, Conflict(s) \/ Abort(s)
  PROVE  Quiet /\ TypeInv'
<1>1. /\ call' \in [Sessions -> Calls]
      /\ call'[s].step \notin PlanSteps
      /\ \A r \in Sessions : r # s => call'[r] = call[r]
  BY ReturnFacts DEF Conflict, Abort, PlanSteps
<1>2. UNCHANGED <<slice, plan, drifted, evidence, approval>>
      /\ fresh' \subseteq fresh /\ planFresh' \subseteq planFresh
  BY DEF Conflict, Abort
<1> QED
  BY <1>1, <1>2, QuietCall, KeptSame DEF TypeInv, TypeOK, Quiet

LEMMA QuietRest ==
  ASSUME TypeInv, Drift \/ UNCHANGED vars
  PROVE  Quiet /\ TypeInv'
BY QuietDocuments DEF Drift, vars, TypeInv, TypeOK

-----------------------------------------------------------------------------
(* Operations on plans and bindings.                                        *)

LEMMA SubmitPlanFacts ==
  ASSUME TypeInv, NEW s \in Sessions, NEW p \in Plans, SubmitPlan(s, p)
  PROVE  /\ TypeInv'
         /\ UNCHANGED <<slice, call, fresh>>
         /\ plan[p].status = "ABSENT"
         /\ plan'[p].status = "RECORDED"
         /\ \A q \in Plans : q # p => plan'[q] = plan[q]
<1>1. [status |-> "RECORDED", actor |-> Actor(s)] \in PlanDocs
  BY ActorType DEF PlanDocs
<1> QED
  BY <1>1 DEF SubmitPlan, TypeInv, TypeOK, CallsTyped

\* A call that reads a plan, or the Slice, and goes on with it.
LEMMA BeginFacts ==
  ASSUME TypeInv, NEW s \in Sessions, NEW p \in Plans,
         \/ BeginClosePlan(s, p)
         \/ BeginStart(s, p)
         \/ BeginClaim(s, p)
         \/ \E x \in Progress : BeginProgress(s, p, x)
  PROVE  /\ TypeInv'
         /\ UNCHANGED <<slice, plan>>
         /\ call'[s].plan = p
         /\ plan[p].actor = Actor(s)
         /\ \A r \in Sessions : r # s => call'[r] = call[r]
         /\ fresh' \subseteq fresh \cup {s}
         /\ \/ call'[s].step = "shut" /\ Unbound(p)
            \/ call'[s].step = "start" /\ PlanHolds(Actor(s), p)
            \/ call'[s].step \in {"progress", "claim"} /\ slice.activePlan = p
<1>2. /\ UNCHANGED <<slice, plan, drifted, evidence, approval>>
      /\ fresh' \subseteq fresh \cup {s} /\ planFresh' \subseteq planFresh \cup {s}
      /\ plan[p].actor = Actor(s)
  BY DEF BeginClosePlan, BeginStart, BeginClaim, BeginProgress, Begin, ReadPlan, ReadSlice,
         PlanHolds
<1>3. PICK c \in Calls :
        /\ Goto(s, c)
        /\ c.plan = p
        /\ \/ c.step = "shut" /\ Unbound(p)
           \/ c.step = "start" /\ PlanHolds(Actor(s), p)
           \/ c.step \in {"progress", "claim"} /\ slice.activePlan = p
  <2>1. /\ "ACTIVE" \in ExecutionStates /\ Progress \subseteq ExecutionStates
        /\ {"shut", "start", "claim", "progress"} \subseteq Steps
    BY DocumentsAssumption DEF ExecutionStates, Steps
  <2>2. CASE BeginClosePlan(s, p)
    BY <2>1, <2>2, PlanCallType DEF BeginClosePlan
  <2>3. CASE BeginStart(s, p)
    BY <2>1, <2>3, PlanCallType DEF BeginStart, Begin
  <2>4. CASE BeginClaim(s, p)
    <3>1. PICK c : c = [NoCall EXCEPT !.step = "claim", !.plan = p]
      OBVIOUS
    <3>2. c \in Calls /\ c.step = "claim" /\ c.plan = p
      BY <2>1, <3>1, NoCallType DEF NoCall, Calls
    <3>3. Begin(s, c)
      BY <2>4, <3>1 DEF BeginClaim
    <3>4. slice.activePlan = p
      BY <2>4 DEF BeginClaim
    <3> QED
      BY <3>2, <3>3, <3>4 DEF Begin
  <2>5. CASE \E x \in Progress : BeginProgress(s, p, x)
    <3>1. PICK x \in ExecutionStates : BeginProgress(s, p, x)
      BY <2>1, <2>5
    <3>2. PICK c : c = [NoCall EXCEPT !.step = "progress", !.plan = p, !.to = x]
      OBVIOUS
    <3>3. c \in Calls /\ c.step = "progress" /\ c.plan = p
      BY <2>1, <3>2, NoCallType DEF NoCall, Calls
    <3>4. Begin(s, c)
      BY <3>1, <3>2 DEF BeginProgress
    <3>5. slice.activePlan = p
      BY <3>1 DEF BeginProgress
    <3> QED
      BY <3>3, <3>4, <3>5 DEF Begin
  <2> QED
    BY <2>2, <2>3, <2>4, <2>5
<1>4. /\ call' \in [Sessions -> Calls]
      /\ call'[s] = c
      /\ \A r \in Sessions : r # s => call'[r] = call[r]
      /\ CallsTyped'
  BY <1>3, GotoFacts DEF TypeInv, CallsTyped
<1>5. TypeOK'
  BY <1>2, <1>4 DEF TypeInv, TypeOK
<1> QED
  BY <1>2, <1>3, <1>4, <1>5 DEF TypeInv

\* The second write of start_slice, and the write of close_plan.
LEMMA PlanWriteFacts ==
  ASSUME TypeInv, NEW s \in Sessions, NEW step \in {"activate", "shut"}, NEW status,
         \/ Activate(s) /\ step = "activate" /\ status = "ACTIVE"
         \/ ClosePlan(s) /\ step = "shut" /\ status = "CLOSED"
  PROVE  /\ TypeInv'
         /\ UNCHANGED <<slice, fresh>>
         /\ call[s].step = step
         /\ call[s].plan \in Plans
         /\ call'[s].step = "idle"
         /\ \A r \in Sessions : r # s => call'[r] = call[r]
         /\ \/ plan' = plan
            \/ /\ plan'[call[s].plan].status = status
               /\ plan'[call[s].plan].actor = plan[call[s].plan].actor
               /\ \A q \in Plans : q # call[s].plan => plan'[q] = plan[q]
<1>1. call[s].step = step /\ call[s].plan \in Plans
  BY DEF Activate, ClosePlan, At, TypeInv, CallsTyped, PlanSteps
<1>2. /\ call' \in [Sessions -> Calls]
      /\ call'[s].step = "idle"
      /\ \A r \in Sessions : r # s => call'[r] = call[r]
      /\ CallsTyped'
  BY ReturnFacts DEF Activate, ClosePlan
<1>3. UNCHANGED <<slice, drifted, evidence, approval, fresh>>
  BY DEF Activate, ClosePlan
<1>4. \/ UNCHANGED <<plan, planFresh>>
      \/ WritePlan(call[s].plan, [plan[call[s].plan] EXCEPT !.status = status])
  BY DEF Activate, ClosePlan
<1>5. CASE UNCHANGED <<plan, planFresh>>
  BY <1>1, <1>2, <1>3, <1>5 DEF TypeInv, TypeOK
<1>6. CASE WritePlan(call[s].plan, [plan[call[s].plan] EXCEPT !.status = status])
  <2>1. status \in {"ACTIVE", "CLOSED"}
    OBVIOUS
  <2>2. /\ plan' \in [Plans -> PlanDocs]
        /\ plan'[call[s].plan].status = status
        /\ plan'[call[s].plan].actor = plan[call[s].plan].actor
        /\ \A q \in Plans : q # call[s].plan => plan'[q] = plan[q]
        /\ planFresh' \subseteq Sessions
    BY <1>1, <1>6, <2>1, WritePlanFacts
  <2> QED
    BY <1>1, <1>2, <1>3, <2>2 DEF TypeInv, TypeOK
<1> QED
  BY <1>4, <1>5, <1>6

\* The writes of execution to the Slice.
LEMMA SliceWriteFacts ==
  ASSUME TypeInv, NEW s \in Sessions, Start(s) \/ UpdateProgress(s) \/ Claim(s)
  PROVE  /\ TypeInv'
         /\ plan' = plan
         /\ fresh' = {}
         /\ s \in fresh
         /\ call[s].plan \in Plans
         /\ slice'.lastActor = Actor(s)
         /\ \A r \in Sessions : r # s => call'[r] = call[r]
         /\ \/ /\ call[s].step = "start" /\ call'[s].step = "activate"
               /\ call'[s].plan = call[s].plan /\ slice'.activePlan = call[s].plan
            \/ /\ call[s].step = "progress" /\ call'[s].step = "idle"
               /\ slice'.activePlan = slice.activePlan
            \/ /\ call[s].step = "claim" /\ call'[s].step = "idle"
               /\ slice'.activePlan = None
<1>1. /\ call[s].plan \in Plans /\ call[s].to \in ExecutionStates
      /\ slice \in Slices /\ Actor(s) \in Actors
  BY ActorType DEF Start, UpdateProgress, Claim, At, TypeInv, TypeOK, CallsTyped, PlanSteps, Calls
<1>2. UNCHANGED <<plan, drifted, evidence, approval, planFresh>> /\ fresh' = {} /\ s \in fresh
  BY DEF Start, UpdateProgress, Claim, WriteSlice, Current
<1>a. CASE Start(s)
  <2>1. /\ slice' \in Slices
        /\ slice'.activePlan = call[s].plan
        /\ slice'.lastActor = Actor(s)
    BY <1>1, <1>a, StartedFacts DEF Start, WriteSlice
  <2>2. /\ call' \in [Sessions -> Calls]
        /\ call'[s].step = "activate"
        /\ call'[s].plan = call[s].plan
        /\ \A r \in Sessions : r # s => call'[r] = call[r]
    BY <1>a, StepFacts DEF Start, Steps
  <2>3. TypeInv'
    BY <1>1, <1>2, <2>1, <2>2 DEF TypeInv, TypeOK, CallsTyped
  <2> QED
    BY <1>1, <1>2, <1>a, <2>1, <2>2, <2>3 DEF Start, At
<1>b. CASE UpdateProgress(s)
  <2>1. /\ slice' \in Slices
        /\ slice'.activePlan = slice.activePlan
        /\ slice'.lastActor = Actor(s)
    BY <1>1, <1>b, ProgressedFacts DEF UpdateProgress, WriteSlice
  <2> QED
    BY <1>1, <1>2, <1>b, <2>1, ReturnFacts DEF UpdateProgress, At, TypeInv, TypeOK
<1>c. CASE Claim(s)
  <2>1. /\ slice' \in Slices
        /\ slice'.activePlan = None
        /\ slice'.lastActor = Actor(s)
    BY <1>1, <1>c, ClaimedDoneFacts DEF Claim, WriteSlice
  <2> QED
    BY <1>1, <1>2, <1>c, <2>1, ReturnFacts DEF Claim, At, TypeInv, TypeOK
<1> QED
  BY <1>a, <1>b, <1>c

-----------------------------------------------------------------------------
(* Every step is one of these.                                              *)

LEMMA StepCases ==
  ASSUME TypeInv, [Next]_vars
  PROVE  \/ Quiet /\ TypeInv'
         \/ \E s \in Sessions, p \in Plans :
              \/ SubmitPlan(s, p)
              \/ BeginClosePlan(s, p) \/ BeginStart(s, p) \/ BeginClaim(s, p)
              \/ \E x \in Progress : BeginProgress(s, p, x)
         \/ \E s \in Sessions :
              \/ Activate(s) \/ ClosePlan(s)
              \/ Start(s) \/ UpdateProgress(s) \/ Claim(s)
<1>1. CASE Drift \/ UNCHANGED vars
  BY <1>1, QuietRest
<1>2. ASSUME NEW s \in Sessions, ProofCall(s) \/ AssuranceCall(s) \/ Conflict(s) \/ Abort(s)
      PROVE  Quiet /\ TypeInv'
  BY <1>2, QuietProof, QuietAssurance, QuietEnd
<1>3. CASE \E s \in Sessions : PlanCall(s)
  BY <1>3 DEF PlanCall
<1> QED
  BY <1>1, <1>2, <1>3 DEF Next

LEMMA TypeInit == Init => TypeInv
<1> SUFFICES ASSUME Init PROVE TypeInv
  OBVIOUS
<1>1. \A x \in ExecutionStates, a \in Actors \cup {None} : InitialSlice(x, a) \in Slices
  BY DEF InitialSlice, Slices, GateDocs, ValidationStates
<1>2. slice \in Slices
  BY <1>1, ActorsAssumption DEF Init, ExecutionStates
<1>3. /\ plan \in [Plans -> PlanDocs]
      /\ drifted \subseteq Plans
      /\ evidence \in [Evidence -> EvidenceDocs]
      /\ approval \in [Subjects -> ApprovalDocs]
  BY DEF Init, PlanDocs, EvidenceDocs, ApprovalDocs
<1>4. call \in [Sessions -> Calls] /\ CallsTyped
  BY NoCallType DEF Init, CallsTyped, PlanSteps
<1>5. fresh \subseteq Sessions /\ planFresh \subseteq Sessions
  BY DEF Init
<1> QED
  BY <1>2, <1>3, <1>4, <1>5 DEF TypeInv, TypeOK

LEMMA TypeStep == TypeInv /\ [Next]_vars => TypeInv'
BY StepCases, SubmitPlanFacts, BeginFacts, PlanWriteFacts, SliceWriteFacts

\* Type correctness: documents of the models, and calls that name a plan whenever
\* they are to write one or to bind the Slice to it.
THEOREM TypeCorrect == Spec => []TypeOK
<1>1. TypeInv => TypeOK
  BY DEF TypeInv
<1> QED
  BY <1>1, TypeInit, TypeStep, PTL DEF Spec

-----------------------------------------------------------------------------
(* The binding.  A call acts for the actor of the plan it has named, and as *)
(* long as its copy of the Slice is current, the Slice is not bound to      *)
(* another plan.                                                            *)

OpenStates == {"RECORDED", "ACTIVE"}

PlansOwned == \A p \in Plans : plan[p].status = "ABSENT" => plan[p].actor = None

CallsOwned ==
  \A s \in Sessions :
    call[s].step \in PlanSteps => plan[call[s].plan].actor = Actor(s)

CopiesBound ==
  \A s \in fresh :
    /\ call[s].step = "start" => Free(call[s].plan)
    /\ call[s].step \in {"progress", "claim"} => slice.activePlan = call[s].plan

BindingInv == TypeInv /\ PlansOwned /\ CallsOwned /\ CopiesBound

LEMMA BindingInit == Init => BindingInv
BY TypeInit, NoCallType DEF Init, BindingInv, PlansOwned, CallsOwned, CopiesBound, PlanSteps

LEMMA ActorIsSomebody == \A s \in Sessions : Actor(s) # None
BY ActorType, DocumentsAssumption

LEMMA BindingStep == BindingInv /\ [Next]_vars => BindingInv'
<1> SUFFICES ASSUME BindingInv, [Next]_vars
             PROVE  PlansOwned' /\ CallsOwned' /\ CopiesBound'
  BY TypeStep DEF BindingInv
<1> USE DEF BindingInv
<1>1. CASE Quiet
  <2>1. fresh \subseteq Sessions /\ fresh' \subseteq Sessions
    BY TypeStep DEF TypeInv, TypeOK
  <2>2. PlansOwned' /\ CallsOwned'
    BY <1>1 DEF Quiet, PlansOwned, CallsOwned, Actor
  <2>3. CopiesBound'
    BY <1>1, <2>1 DEF Quiet, Kept, CopiesBound, Free, PlanSteps
  <2> QED
    BY <2>2, <2>3
<1>2. ASSUME NEW s \in Sessions, NEW p \in Plans, SubmitPlan(s, p)
      PROVE  PlansOwned' /\ CallsOwned' /\ CopiesBound'
  <2>1. /\ UNCHANGED <<slice, call, fresh>>
        /\ plan[p].status = "ABSENT" /\ plan'[p].status = "RECORDED"
        /\ \A q \in Plans : q # p => plan'[q] = plan[q]
    BY <1>2, SubmitPlanFacts
  <2>2. ASSUME NEW r \in Sessions, call[r].step \in PlanSteps
        PROVE  call[r].plan \in Plans \ {p}
    BY <2>1, <2>2, ActorIsSomebody DEF PlansOwned, CallsOwned, TypeInv, CallsTyped
  <2> QED
    BY <2>1, <2>2 DEF PlansOwned, CallsOwned, CopiesBound, Free, Actor
<1>3. ASSUME NEW s \in Sessions, NEW p \in Plans,
             \/ BeginClosePlan(s, p) \/ BeginStart(s, p) \/ BeginClaim(s, p)
             \/ \E x \in Progress : BeginProgress(s, p, x)
      PROVE  PlansOwned' /\ CallsOwned' /\ CopiesBound'
  <2>1. /\ UNCHANGED <<slice, plan>>
        /\ call'[s].plan = p
        /\ plan[p].actor = Actor(s)
        /\ \A r \in Sessions : r # s => call'[r] = call[r]
        /\ fresh' \subseteq fresh \cup {s}
        /\ \/ call'[s].step = "shut" /\ Unbound(p)
           \/ call'[s].step = "start" /\ PlanHolds(Actor(s), p)
           \/ call'[s].step \in {"progress", "claim"} /\ slice.activePlan = p
    BY <1>3, BeginFacts
  <2>2. PlansOwned' /\ CallsOwned'
    BY <2>1 DEF PlansOwned, CallsOwned, Actor
  <2>3. CopiesBound'
    BY <2>1 DEF CopiesBound, Free, PlanHolds, TypeInv, TypeOK
  <2> QED
    BY <2>2, <2>3
<1>4. ASSUME NEW s \in Sessions, Activate(s) \/ ClosePlan(s)
      PROVE  PlansOwned' /\ CallsOwned' /\ CopiesBound'
  <2>1. /\ UNCHANGED <<slice, fresh>>
        /\ call[s].plan \in Plans
        /\ call'[s].step = "idle"
        /\ \A r \in Sessions : r # s => call'[r] = call[r]
        /\ \/ plan' = plan
           \/ /\ plan'[call[s].plan].status \in {"ACTIVE", "CLOSED"}
              /\ plan'[call[s].plan].actor = plan[call[s].plan].actor
              /\ \A q \in Plans : q # call[s].plan => plan'[q] = plan[q]
    BY <1>4, PlanWriteFacts
  <2>2. \A q \in Plans : plan'[q].actor = plan[q].actor
    BY <2>1
  <2>3. PlansOwned' /\ CallsOwned'
    BY <2>1, <2>2 DEF PlansOwned, CallsOwned, PlanSteps, Actor, TypeInv, CallsTyped
  <2>4. CopiesBound'
    BY <2>1 DEF CopiesBound, Free, TypeInv, TypeOK
  <2> QED
    BY <2>3, <2>4
<1>5. ASSUME NEW s \in Sessions, Start(s) \/ UpdateProgress(s) \/ Claim(s)
      PROVE  PlansOwned' /\ CallsOwned' /\ CopiesBound'
  BY <1>5, SliceWriteFacts DEF PlansOwned, CallsOwned, CopiesBound, PlanSteps, Actor
<1> QED
  BY <1>1, <1>2, <1>3, <1>4, <1>5, StepCases

\* Only the actor of the plan that a Slice is bound to executes it: whoever else has
\* read the Slice, however long ago and with whatever plan, loses the compare-and-set.
THEOREM BoundWorker == Spec => OnlyTheBoundWorker
<1> DEFINE Binds ==
      slice.activePlan # None
      /\ <<slice'.execution, slice'.activePlan, slice'.lastActor>>
           # <<slice.execution, slice.activePlan, slice.lastActor>>
      => /\ slice'.lastActor = plan[slice.activePlan].actor
         /\ slice'.activePlan \in {None, slice.activePlan}
<1>1. BindingInv /\ [Next]_vars => Binds
  <2> SUFFICES ASSUME BindingInv, [Next]_vars PROVE Binds
    OBVIOUS
  <2>1. CASE slice' = slice \/ Quiet
    BY <2>1 DEF Quiet, Kept
  <2>2. ASSUME NEW s \in Sessions, Start(s) \/ UpdateProgress(s) \/ Claim(s)
        PROVE  Binds
    BY <2>2, SliceWriteFacts DEF BindingInv, CallsOwned, CopiesBound, PlanSteps, Free
  <2> QED
    BY <2>1, <2>2, StepCases, SubmitPlanFacts, BeginFacts, PlanWriteFacts DEF BindingInv
<1> QED
  BY <1>1, BindingInit, BindingStep, PTL DEF Spec, OnlyTheBoundWorker

-----------------------------------------------------------------------------
(* Plans of bound Slices.  close_plan and start_slice check one document    *)
(* and write the other, in opposite orders, and nothing makes the second of *)
(* them notice: two calls of one actor can leave a Slice bound to a closed  *)
(* plan.  That nothing else can is what is proved, of any number of         *)
(* sessions of any actors that die where they may.  The history variable    *)
(* `crossed` remembers the plans for which the two calls have overlapped.   *)

VARIABLE crossed

\* The plans that one call is closing while another, of the same actor, is
\* binding the Slice to them.
Crossing ==
  {p \in Plans : \E s, t \in Sessions :
     /\ s # t /\ Actor(s) = Actor(t)
     /\ call[s].step = "shut" /\ call[s].plan = p
     /\ call[t].step \in {"start", "activate"} /\ call[t].plan = p}

Watched == Next /\ crossed' = crossed \cup Crossing'
WatchedInit == Init /\ crossed = {}
WatchedSpec == WatchedInit /\ [][Watched]_<<vars, crossed>>

OpenUnlessCrossed == BoundPlanIsOpen \/ slice.activePlan \in crossed

StartsOpen ==
  \A s \in Sessions :
    call[s].step \in {"start", "activate"} =>
      plan[call[s].plan].status \in OpenStates \/ call[s].plan \in crossed

ClosesUnbound ==
  \A s \in Sessions :
    call[s].step = "shut" => slice.activePlan # call[s].plan \/ call[s].plan \in crossed

OpenInv ==
  BindingInv /\ Crossing \subseteq crossed /\ OpenUnlessCrossed /\ StartsOpen /\ ClosesUnbound

LEMMA OpenInit == WatchedInit => OpenInv
BY BindingInit, NoCallType
   DEF WatchedInit, Init, OpenInv, OpenUnlessCrossed, BoundPlanIsOpen, StartsOpen, ClosesUnbound,
       Crossing, InitialSlice

\* Two calls that have named the same plan are calls of one actor.
LEMMA SamePlan ==
  ASSUME BindingInv, NEW s \in Sessions, NEW t \in Sessions,
         call[s].step \in PlanSteps, call[t].step \in PlanSteps, call[s].plan = call[t].plan
  PROVE  Actor(s) = Actor(t)
BY DEF BindingInv, CallsOwned

\* While nobody has crossed over a plan, a call that closes it and one that binds the
\* Slice to it do not see each other.
LEMMA NotTogether ==
  ASSUME OpenInv, NEW s \in Sessions, NEW t \in Sessions,
         call[s].step = "shut", call[t].step \in {"start", "activate"}, call[s].plan = call[t].plan
  PROVE  call[s].plan \in crossed
<1>1. call[s].plan \in Plans
  BY DEF OpenInv, BindingInv, TypeInv, CallsTyped, PlanSteps
<1>2. s # t
  OBVIOUS
<1>3. Actor(s) = Actor(t)
  BY SamePlan DEF OpenInv, PlanSteps
<1> QED
  BY <1>1, <1>2, <1>3 DEF OpenInv, Crossing

LEMMA OpenStep == OpenInv /\ [Watched]_<<vars, crossed>> => OpenInv'
<1> SUFFICES ASSUME OpenInv, [Watched]_<<vars, crossed>>
             PROVE  OpenInv'
  OBVIOUS
<1>a. [Next]_vars /\ crossed \subseteq crossed'
  BY DEF Watched
<1>b. BindingInv /\ BindingInv'
  BY <1>a, BindingStep DEF OpenInv
<1>c. Crossing' \subseteq crossed'
  BY DEF Watched, OpenInv, Crossing, vars, Actor
<1> SUFFICES OpenUnlessCrossed' /\ StartsOpen' /\ ClosesUnbound'
  BY <1>b, <1>c DEF OpenInv
<1>0. /\ OpenUnlessCrossed /\ StartsOpen /\ ClosesUnbound
      /\ call \in [Sessions -> Calls] /\ slice.activePlan \in Plans \cup {None}
      /\ None \notin Plans
      /\ \A r \in Sessions : call[r].step \in PlanSteps => call[r].plan \in Plans
  BY <1>b, DocumentsAssumption DEF OpenInv, BindingInv, TypeInv, TypeOK, CallsTyped, Slices
<1>1. CASE Quiet
  BY <1>0, <1>1, <1>a
     DEF Quiet, Kept, OpenUnlessCrossed, BoundPlanIsOpen, StartsOpen, ClosesUnbound, PlanSteps
<1>2. ASSUME NEW s \in Sessions, NEW p \in Plans, SubmitPlan(s, p)
      PROVE  OpenUnlessCrossed' /\ StartsOpen' /\ ClosesUnbound'
  <2>1. /\ UNCHANGED <<slice, call>>
        /\ plan'[p].status = "RECORDED"
        /\ \A q \in Plans : q # p => plan'[q] = plan[q]
    BY <1>b, <1>2, SubmitPlanFacts DEF BindingInv
  <2> QED
    BY <1>0, <1>a, <2>1
       DEF OpenUnlessCrossed, BoundPlanIsOpen, StartsOpen, ClosesUnbound, OpenStates, PlanSteps
<1>3. ASSUME NEW s \in Sessions, NEW p \in Plans,
             \/ BeginClosePlan(s, p) \/ BeginStart(s, p) \/ BeginClaim(s, p)
             \/ \E x \in Progress : BeginProgress(s, p, x)
      PROVE  OpenUnlessCrossed' /\ StartsOpen' /\ ClosesUnbound'
  <2>1. /\ UNCHANGED <<slice, plan>>
        /\ call'[s].plan = p
        /\ \A r \in Sessions : r # s => call'[r] = call[r]
        /\ \/ call'[s].step = "shut" /\ Unbound(p)
           \/ call'[s].step = "start" /\ PlanHolds(Actor(s), p)
           \/ call'[s].step \in {"progress", "claim"} /\ slice.activePlan = p
    BY <1>b, <1>3, BeginFacts DEF BindingInv
  <2> QED
    BY <1>0, <1>a, <2>1
       DEF OpenUnlessCrossed, BoundPlanIsOpen, StartsOpen, ClosesUnbound, OpenStates, Unbound, PlanHolds
<1>4. ASSUME NEW s \in Sessions, Activate(s)
      PROVE  OpenUnlessCrossed' /\ StartsOpen' /\ ClosesUnbound'
  <2>1. /\ UNCHANGED slice
        /\ call'[s].step = "idle"
        /\ \A r \in Sessions : r # s => call'[r] = call[r]
        /\ \/ plan' = plan
           \/ /\ plan'[call[s].plan].status = "ACTIVE"
              /\ \A q \in Plans : q # call[s].plan => plan'[q] = plan[q]
    BY <1>b, <1>4, PlanWriteFacts DEF BindingInv
  <2> QED
    BY <1>0, <1>a, <2>1
       DEF OpenUnlessCrossed, BoundPlanIsOpen, StartsOpen, ClosesUnbound, OpenStates, PlanSteps
<1>5. ASSUME NEW s \in Sessions, ClosePlan(s)
      PROVE  OpenUnlessCrossed' /\ StartsOpen' /\ ClosesUnbound'
  <2>1. /\ UNCHANGED slice
        /\ call[s].step = "shut"
        /\ call[s].plan \in Plans
        /\ call'[s].step = "idle"
        /\ \A r \in Sessions : r # s => call'[r] = call[r]
        /\ \A q \in Plans : q # call[s].plan => plan'[q] = plan[q]
    BY <1>b, <1>5, PlanWriteFacts DEF BindingInv
  <2>2. slice.activePlan # call[s].plan \/ call[s].plan \in crossed
    BY <1>0, <2>1 DEF ClosesUnbound
  <2>3. ASSUME NEW r \in Sessions, r # s, call[r].step \in {"start", "activate"}
        PROVE  call[r].plan \in Plans /\ (call[r].plan = call[s].plan => call[r].plan \in crossed)
    BY <1>0, <2>1, <2>3, NotTogether DEF PlanSteps
  <2>4. OpenUnlessCrossed'
    BY <1>0, <1>a, <2>1, <2>2 DEF OpenUnlessCrossed, BoundPlanIsOpen
  <2>5. StartsOpen'
    BY <1>0, <1>a, <2>1, <2>3 DEF StartsOpen
  <2>6. ClosesUnbound'
    BY <1>0, <1>a, <2>1 DEF ClosesUnbound
  <2> QED
    BY <2>4, <2>5, <2>6
<1>6. ASSUME NEW s \in Sessions, Start(s) \/ UpdateProgress(s) \/ Claim(s)
      PROVE  OpenUnlessCrossed' /\ StartsOpen' /\ ClosesUnbound'
  <2>1. /\ plan' = plan
        /\ call[s].plan \in Plans
        /\ \A r \in Sessions : r # s => call'[r] = call[r]
        /\ \/ /\ call[s].step = "start" /\ call'[s].step = "activate"
              /\ call'[s].plan = call[s].plan /\ slice'.activePlan = call[s].plan
           \/ /\ call[s].step = "progress" /\ call'[s].step = "idle"
              /\ slice'.activePlan = slice.activePlan
           \/ /\ call[s].step = "claim" /\ call'[s].step = "idle"
              /\ slice'.activePlan = None
    BY <1>b, <1>6, SliceWriteFacts DEF BindingInv
  <2>2. ASSUME NEW r \in Sessions, call[r].step = "shut", call[s].step = "start"
        PROVE  call[r].plan = call[s].plan => call[r].plan \in crossed
    BY <2>2, NotTogether
  <2>3. OpenUnlessCrossed'
    BY <1>0, <1>a, <2>1 DEF OpenUnlessCrossed, BoundPlanIsOpen, StartsOpen, OpenStates
  <2>4. StartsOpen'
    BY <1>0, <1>a, <2>1 DEF StartsOpen
  <2>5. ClosesUnbound'
    BY <1>0, <1>a, <2>1, <2>2 DEF ClosesUnbound, PlanSteps
  <2> QED
    BY <2>3, <2>4, <2>5
<1> QED
  BY <1>a, <1>b, <1>1, <1>2, <1>3, <1>4, <1>5, <1>6, StepCases DEF BindingInv

\* "cannot close a plan while slices are actively bound to it" (close_plan): whenever a
\* Slice is bound to a plan that is closed, one call closing that plan and another call of
\* the same actor starting a Slice under it have overlapped.  No death of a call, no stale
\* copy and no number of sessions of other actors leaves a Slice so.
THEOREM BoundPlanOpen == WatchedSpec => [](BoundPlanIsOpen \/ slice.activePlan \in crossed)
<1>1. OpenInv => BoundPlanIsOpen \/ slice.activePlan \in crossed
  BY DEF OpenInv, OpenUnlessCrossed
<1> QED
  BY <1>1, OpenInit, OpenStep, PTL DEF WatchedSpec

-----------------------------------------------------------------------------
(* Assurance.  validate_slice, verify_slice, close_verified_slice and       *)
(* accept_slice each decide on a read of the Slice that is older than their *)
(* write.  With one session that verifies, which is the only one that       *)
(* judges, what they read still holds: a Slice that is VALIDATED cannot be  *)
(* taken up again, and one that is verified is not judged again.            *)

OneVerifier ==
  \A s, t \in Sessions : Actor(s) \in Verifiers /\ (Actor(t) \in Verifiers \/ t \in Validators) => s = t

\* A Slice that claims DONE is bound to no plan, and only such a Slice is validated.
SliceOK ==
  /\ slice.execution = "DONE_CLAIMED" => slice.activePlan = None
  /\ slice.validation = "VALIDATED" => slice.execution = "DONE_CLAIMED"
  /\ AssuranceRestsOnValidation
  /\ AcceptedIsClosed

\* What a call has found, as far as its next write rests on it.
CallOK(s) ==
  /\ call[s].step = "progress" => call[s].to # "DONE_CLAIMED"
  /\ call[s].step = "start" /\ s \in fresh => Restartable
  /\ call[s].step = "verify" /\ s \in fresh =>
       slice.assurance = "UNVERIFIED" /\ slice.execution = "DONE_CLAIMED" /\ slice.lastActor # Actor(s)
  /\ call[s].step \in {"verify", "decide"} => Actor(s) \in Verifiers
  /\ call[s].step \in {"recheck", "verify"} /\ Actor(s) \in Verifiers => slice.validation = "VALIDATED"
  /\ call[s].step = "decide" => slice.assurance = "VERIFIED" /\ slice.closure = "OPEN"
  /\ call[s].step = "accept" => slice.closure = "CLOSED"

AssuranceInv == BindingInv /\ SliceOK /\ \A s \in Sessions : CallOK(s)

\* The fields of the Slice that assurance is about.
SameAssurance ==
  /\ slice'.execution = slice.execution /\ slice'.validation = slice.validation
  /\ slice'.assurance = slice.assurance /\ slice'.closure = slice.closure
  /\ slice'.activePlan = slice.activePlan /\ slice'.lastActor = slice.lastActor

\* The call of a session that has not moved.
LEMMA StaysOK ==
  ASSUME NEW s \in Sessions, CallOK(s), call'[s] = call[s], s \in fresh' => s \in fresh, SameAssurance
  PROVE  CallOK(s)'
BY DEF CallOK, SameAssurance, Restartable

LEMMA SliceStaysOK == ASSUME SliceOK, SameAssurance PROVE SliceOK'
BY DEF SliceOK, SameAssurance, AssuranceRestsOnValidation, AcceptedIsClosed

\* A step of one session that leaves what assurance is about alone.
LEMMA QuietlyOK ==
  ASSUME AssuranceInv, BindingInv', SameAssurance, NEW s \in Sessions, CallOK(s)',
         \A r \in Sessions : r # s => call'[r] = call[r] /\ (r \in fresh' => r \in fresh)
  PROVE  AssuranceInv'
<1>1. SliceOK'
  BY SliceStaysOK DEF AssuranceInv
<1>2. ASSUME NEW r \in Sessions, r # s PROVE CallOK(r)'
  BY <1>2, StaysOK DEF AssuranceInv
<1> QED
  BY <1>1, <1>2 DEF AssuranceInv

\* The call of a session that is idle, or at a step on which no assurance rests.
LEMMA FreeIsOK ==
  ASSUME NEW s \in Sessions, call[s].step \in {"idle", "activate", "claim", "shut", "observe", "attest"}
  PROVE  CallOK(s)
BY DEF CallOK

LEMMA SameIsSame == ASSUME UNCHANGED slice PROVE SameAssurance
BY DEF SameAssurance

-----------------------------------------------------------------------------
(* Operations that leave the assurance alone.                               *)

\* How a session that returns leaves the others.
LEMMA ReturnsOK ==
  ASSUME AssuranceInv, BindingInv', SameAssurance, NEW s \in Sessions, Return(s), fresh' \subseteq fresh
  PROVE  AssuranceInv'
<1>1. call'[s].step = "idle" /\ \A r \in Sessions : r # s => call'[r] = call[r]
  BY ReturnFacts DEF AssuranceInv, BindingInv
<1>2. CallOK(s)'
  BY <1>1 DEF CallOK
<1> QED
  BY <1>1, <1>2, QuietlyOK

\* Operations that write no document of the Slice and make no call.
LEMMA DocumentsOK ==
  ASSUME AssuranceInv, BindingInv', SameAssurance, UNCHANGED call, fresh' \subseteq fresh
  PROVE  AssuranceInv'
<1>1. SliceOK'
  BY SliceStaysOK DEF AssuranceInv
<1>2. ASSUME NEW r \in Sessions PROVE CallOK(r)'
  BY <1>2, StaysOK DEF AssuranceInv
<1> QED
  BY <1>1, <1>2 DEF AssuranceInv

\* A call that goes on to a step on which no assurance rests.
LEMMA GoesOnOK ==
  ASSUME AssuranceInv, BindingInv', UNCHANGED slice, NEW s \in Sessions, fresh' \subseteq fresh \cup {s},
         NEW c \in Calls, Goto(s, c), c.step \in {"claim", "shut", "observe", "attest"}
  PROVE  AssuranceInv'
<1>1. call'[s] = c /\ \A r \in Sessions : r # s => call'[r] = call[r]
  BY GotoFacts DEF AssuranceInv, BindingInv
<1>2. CallOK(s)'
  BY <1>1 DEF CallOK
<1>3. \A r \in Sessions : r # s => (r \in fresh' => r \in fresh)
  OBVIOUS
<1> QED
  BY <1>1, <1>2, <1>3, SameIsSame, QuietlyOK

LEMMA BeginsOK ==
  ASSUME AssuranceInv, BindingInv', NEW s \in Sessions, NEW p \in Plans,
         \/ BeginClosePlan(s, p) \/ BeginStart(s, p) \/ BeginClaim(s, p)
         \/ \E x \in Progress : BeginProgress(s, p, x)
  PROVE  AssuranceInv'
<1>1. /\ UNCHANGED slice
      /\ \A r \in Sessions : r # s => call'[r] = call[r]
      /\ fresh' \subseteq fresh \cup {s}
      /\ call'[s].step \in {"shut", "start", "progress", "claim"}
  BY BeginFacts DEF AssuranceInv, BindingInv
<1>2. CallOK(s)'
  <2>1. CASE BeginClosePlan(s, p) \/ BeginClaim(s, p)
    <3>1. call \in [Sessions -> Calls] /\ NoCall = [step |-> "idle", plan |-> None, to |-> "ACTIVE", proof |-> {}, closing |-> FALSE]
      BY DEF AssuranceInv, BindingInv, TypeInv, TypeOK, NoCall
    <3>2. \/ call' = [call EXCEPT ![s] = [NoCall EXCEPT !.step = "shut", !.plan = p]]
          \/ call' = [call EXCEPT ![s] = [NoCall EXCEPT !.step = "claim", !.plan = p]]
      BY <2>1 DEF BeginClosePlan, BeginClaim, Begin, Goto
    <3>3. call'[s].step \in {"shut", "claim"}
      BY <3>1, <3>2
    <3> QED
      BY <3>3 DEF CallOK
  <2>2. CASE BeginStart(s, p)
    <3>1. Restartable'
      BY <1>1, <2>2 DEF BeginStart, Restartable
    <3>2. call \in [Sessions -> Calls] /\ NoCall = [step |-> "idle", plan |-> None, to |-> "ACTIVE", proof |-> {}, closing |-> FALSE]
      BY DEF AssuranceInv, BindingInv, TypeInv, TypeOK, NoCall
    <3>3. call' = [call EXCEPT ![s] = [NoCall EXCEPT !.step = "start", !.plan = p]]
      BY <2>2 DEF BeginStart, Begin, Goto
    <3>4. call'[s].step = "start"
      BY <3>2, <3>3
    <3> QED
      BY <3>1, <3>4 DEF CallOK
  <2>3. ASSUME NEW x \in Progress, BeginProgress(s, p, x) PROVE CallOK(s)'
    <3>1. x # "DONE_CLAIMED"
      BY DocumentsAssumption
    <3>2. call \in [Sessions -> Calls] /\ NoCall = [step |-> "idle", plan |-> None, to |-> "ACTIVE", proof |-> {}, closing |-> FALSE]
      BY DEF AssuranceInv, BindingInv, TypeInv, TypeOK, NoCall
    <3>3. call' = [call EXCEPT ![s] = [NoCall EXCEPT !.step = "progress", !.plan = p, !.to = x]]
      BY <2>3 DEF BeginProgress, Begin, Goto
    <3>4. call'[s].step = "progress" /\ call'[s].to = x
      BY <3>2, <3>3
    <3> QED
      BY <3>1, <3>4 DEF CallOK
  <2> QED
    BY <2>1, <2>2, <2>3
<1>3. \A r \in Sessions : r # s => (r \in fresh' => r \in fresh)
  BY <1>1
<1> QED
  BY <1>1, <1>2, <1>3, SameIsSame, QuietlyOK

\* What a Slice is that is worked on: nobody has validated it, so that no call that rests on
\* a validation is on its way.
LEMMA WorkedOn ==
  ASSUME AssuranceInv, NEW s \in fresh,
         \/ call[s].step = "start"
         \/ call[s].step \in {"progress", "claim"}
  PROVE  /\ slice.validation # "VALIDATED" /\ slice.assurance = "UNVERIFIED" /\ slice.closure = "OPEN"
         /\ call[s].step \in {"progress", "claim"} =>
              slice.execution # "DONE_CLAIMED" /\ slice.activePlan = call[s].plan
         /\ call[s].step = "start" => Restartable /\ Free(call[s].plan)
<1>1. s \in Sessions /\ slice \in Slices
  BY DEF AssuranceInv, BindingInv, TypeInv, TypeOK
<1>2. call[s].step = "start" => Restartable /\ Free(call[s].plan)
  BY <1>1 DEF AssuranceInv, BindingInv, CallOK, CopiesBound
<1>3. call[s].step \in {"progress", "claim"} => slice.execution # "DONE_CLAIMED" /\ slice.activePlan = call[s].plan
  <2>1. call[s].step \in {"progress", "claim"} => call[s].plan \in Plans /\ slice.activePlan = call[s].plan
    BY <1>1 DEF AssuranceInv, BindingInv, CopiesBound, TypeInv, CallsTyped, PlanSteps
  <2> QED
    BY <2>1, DocumentsAssumption DEF AssuranceInv, SliceOK
<1>4. slice.validation # "VALIDATED"
  BY <1>2, <1>3 DEF AssuranceInv, SliceOK, Restartable
<1>5. slice.assurance = "UNVERIFIED" /\ slice.closure = "OPEN"
  BY <1>1, <1>4 DEF AssuranceInv, SliceOK, AssuranceRestsOnValidation, AcceptedIsClosed, Slices, Assured
<1> QED
  BY <1>2, <1>3, <1>4, <1>5

\* What the three writes of execution make of it.
LEMMA WorkFacts ==
  ASSUME TypeInv, NEW s \in Sessions, Start(s) \/ UpdateProgress(s) \/ Claim(s)
  PROVE  /\ slice'.assurance = slice.assurance
         /\ Start(s) => slice'.execution = "ACTIVE" /\ slice'.validation = "NOT_STARTED" /\ slice'.closure = "OPEN"
         /\ UpdateProgress(s) => /\ slice'.execution = call[s].to /\ slice'.validation = slice.validation
                                 /\ slice'.closure = slice.closure
         /\ Claim(s) => slice'.execution = "DONE_CLAIMED" /\ slice'.validation = "PENDING" /\ slice'.closure = "OPEN"
<1>1. slice \in Slices
  BY DEF TypeInv, TypeOK
<1>2. CASE Start(s)
  <2>1. PICK d : d = Started(slice, Actor(s), call[s].plan)
    OBVIOUS
  <2>2. /\ d.assurance = slice.assurance /\ d.execution = "ACTIVE" /\ d.validation = "NOT_STARTED"
        /\ d.closure = "OPEN"
    BY <1>1, <2>1 DEF Started, Slices
  <2> QED
    BY <1>2, <2>1, <2>2 DEF Start, WriteSlice, UpdateProgress, Claim, At
<1>3. CASE UpdateProgress(s)
  <2>1. PICK d : d = Progressed(slice, Actor(s), call[s].plan, call[s].to)
    OBVIOUS
  <2>2. /\ d.assurance = slice.assurance /\ d.execution = call[s].to /\ d.validation = slice.validation
        /\ d.closure = slice.closure
    BY <1>1, <2>1 DEF Progressed, Slices
  <2> QED
    BY <1>3, <2>1, <2>2 DEF Start, WriteSlice, UpdateProgress, Claim, At
<1>4. CASE Claim(s)
  <2>1. PICK d : d = ClaimedDone(slice, Actor(s), call[s].plan)
    OBVIOUS
  <2>2. /\ d.assurance = slice.assurance /\ d.execution = "DONE_CLAIMED" /\ d.validation = "PENDING"
        /\ d.closure = "OPEN"
    BY <1>1, <2>1 DEF ClaimedDone, Slices
  <2> QED
    BY <1>4, <2>1, <2>2 DEF Start, WriteSlice, UpdateProgress, Claim, At
<1> QED
  BY <1>2, <1>3, <1>4

LEMMA WorkOK ==
  ASSUME AssuranceInv, BindingInv', NEW s \in Sessions, Start(s) \/ UpdateProgress(s) \/ Claim(s)
  PROVE  AssuranceInv'
<1>1. TypeInv
  BY DEF AssuranceInv, BindingInv
<1>2. /\ fresh' = {} /\ s \in fresh /\ \A r \in Sessions : r # s => call'[r] = call[r]
      /\ \/ call[s].step = "start" /\ call'[s].step = "activate" /\ Start(s)
         \/ call[s].step = "progress" /\ call'[s].step = "idle" /\ slice'.activePlan = slice.activePlan /\ UpdateProgress(s)
         \/ call[s].step = "claim" /\ call'[s].step = "idle" /\ slice'.activePlan = None /\ Claim(s)
  BY <1>1, SliceWriteFacts DEF Start, UpdateProgress, Claim, At
<1>3. /\ slice.validation # "VALIDATED" /\ slice.assurance = "UNVERIFIED" /\ slice.closure = "OPEN"
      /\ call[s].step \in {"progress", "claim"} => slice.execution # "DONE_CLAIMED" /\ slice.activePlan = call[s].plan
  BY <1>2, WorkedOn
<1>4. call[s].step = "progress" => call[s].to # "DONE_CLAIMED"
  BY DEF AssuranceInv, CallOK
<1>5. /\ slice'.assurance = "UNVERIFIED" /\ slice'.validation # "VALIDATED" /\ slice'.closure = "OPEN"
      /\ slice'.execution = "DONE_CLAIMED" => slice'.activePlan = None
  BY <1>1, <1>2, <1>3, <1>4, WorkFacts
<1>6. SliceOK'
  BY <1>5 DEF SliceOK, AssuranceRestsOnValidation, AcceptedIsClosed, Assured
<1>7. ASSUME NEW r \in Sessions PROVE CallOK(r)'
  <2>1. CASE r = s
    BY <1>2, <2>1 DEF CallOK
  <2>2. CASE r # s
    BY <1>2, <1>3, <2>2 DEF AssuranceInv, CallOK
  <2> QED
    BY <2>1, <2>2
<1> QED
  BY <1>6, <1>7 DEF AssuranceInv

LEMMA PlanCallsOK ==
  ASSUME AssuranceInv, BindingInv', NEW s \in Sessions, PlanCall(s)
  PROVE  AssuranceInv'
<1>1. ASSUME NEW p \in Plans, SubmitPlan(s, p) PROVE AssuranceInv'
  BY <1>1, SameIsSame, DocumentsOK DEF SubmitPlan
<1>2. CASE ClosePlan(s) \/ Activate(s)
  BY <1>2, SameIsSame, ReturnsOK DEF ClosePlan, Activate
<1> QED
  BY <1>1, <1>2, BeginsOK, WorkOK DEF PlanCall

-----------------------------------------------------------------------------
(* Evidence, gates and approvals. *)

LEMMA GateOK ==
  ASSUME AssuranceInv, BindingInv', NEW s \in Sessions, NEW g \in Gates,
         NEW status, NEW proof, SetGate(s, g, status, proof)
  PROVE  AssuranceInv'
<1>1. slice \in Slices /\ UNCHANGED call /\ fresh' = {}
  BY DEF AssuranceInv, BindingInv, TypeInv, TypeOK, SetGate, WriteSlice
<1>2. PICK gates : gates = [slice.gates EXCEPT ![g] = [status |-> status, proof |-> proof]]
  OBVIOUS
<1>3. slice' = [slice EXCEPT !.gates = gates]
  BY <1>2, Zenon DEF SetGate, WriteSlice
<1>4. SameAssurance
  BY <1>1, <1>3 DEF SameAssurance, Slices
<1> QED
  BY <1>1, <1>4, DocumentsOK

LEMMA ProofCallsOK ==
  ASSUME AssuranceInv, BindingInv', NEW s \in Sessions, ProofCall(s)
  PROVE  AssuranceInv'
<1>0. TypeInv
  BY DEF AssuranceInv, BindingInv
<1>1. ASSUME NEW e \in Evidence, NEW kind \in {"CLAIM", "RESULT"}, NEW verdict \in {"PASS", "FAIL"},
             SubmitEvidence(s, e, kind, verdict)
      PROVE  AssuranceInv'
  BY <1>1, SameIsSame, DocumentsOK DEF SubmitEvidence
<1>2. ASSUME NEW e \in Evidence, NEW verdict \in {"PASS", "FAIL"}, Observe(s, e, verdict)
      PROVE  AssuranceInv'
  <2>1. PICK c : c = [NoCall EXCEPT !.step = "attest", !.proof = {e}]
    OBVIOUS
  <2>2. c \in Calls /\ c.step = "attest"
    BY <2>1, NoCallType DEF NoCall, Calls, Steps
  <2>3. Goto(s, c) /\ UNCHANGED slice /\ fresh' \subseteq fresh \cup {s}
    BY <1>2, <2>1 DEF Observe
  <2> QED
    BY <2>2, <2>3, GoesOnOK
<1>3. ASSUME NEW e \in Evidence, NEW trust, Attest(s, e, trust) PROVE AssuranceInv'
  BY <1>3, SameIsSame, DocumentsOK DEF Attest
<1>4. CASE BeginObserve(s)
  <2>1. Step(s, "observe") /\ "observe" \in Steps /\ UNCHANGED <<slice, fresh>>
    BY <1>4 DEF BeginObserve, Steps
  <2>2. call'[s].step = "observe" /\ \A r \in Sessions : r # s => call'[r] = call[r]
    BY <1>0, <2>1, StepFacts
  <2>3. CallOK(s)'
    BY <2>2 DEF CallOK
  <2> QED
    BY <2>1, <2>2, <2>3, SameIsSame, QuietlyOK
<1>5. CASE AttestObservation(s)
  BY <1>5, SameIsSame, ReturnsOK DEF AttestObservation
<1>6. ASSUME NEW x \in Subjects, Request(s, x) PROVE AssuranceInv'
  BY <1>6, SameIsSame, DocumentsOK DEF Request
<1>7. ASSUME NEW x \in Subjects, NEW status, Decide(s, x, status) PROVE AssuranceInv'
  BY <1>7, SameIsSame, DocumentsOK DEF Decide
<1> QED
  BY <1>1, <1>2, <1>3, <1>4, <1>5, <1>6, <1>7, GateOK DEF ProofCall

-----------------------------------------------------------------------------
(* Validation, verification, closure and acceptance. *)

\* The sessions that verify are one, and it is the only one that judges.
LEMMA Verifier ==
  ASSUME OneVerifier, AssuranceInv, NEW s \in Sessions, NEW r \in Sessions, r # s,
         Actor(s) \in Verifiers \/ s \in Validators
  PROVE  /\ Actor(r) \notin Verifiers
         /\ call[r].step \notin {"verify", "decide"}
<1>1. Actor(r) \notin Verifiers
  BY DEF OneVerifier
<1>2. CallOK(r)
  BY DEF AssuranceInv
<1> QED
  BY <1>1, <1>2 DEF CallOK

\* A Slice that is not verified is open.
LEMMA UnassuredIsOpen ==
  ASSUME AssuranceInv, slice.assurance \notin Assured
  PROVE  slice.closure = "OPEN" /\ slice.assurance = "UNVERIFIED"
BY DEF AssuranceInv, SliceOK, AcceptedIsClosed, Assured, BindingInv, TypeInv, TypeOK, Slices

LEMMA ValidateOK ==
  ASSUME OneVerifier, AssuranceInv, BindingInv', NEW s \in Sessions, NEW j \in Judgements, Validate(s, j)
  PROVE  AssuranceInv'
<1>1. slice \in Slices /\ UNCHANGED call /\ fresh' = {} /\ call[s].step = "idle" /\ s \in Validators
      /\ slice.execution = "DONE_CLAIMED" /\ slice.assurance \notin Assured
  BY DEF AssuranceInv, BindingInv, TypeInv, TypeOK, Validate, WriteSlice, Idle, Judgeable
<1>2. slice' = [slice EXCEPT !.validation = j, !.closure = "OPEN"]
  BY DEF Validate, WriteSlice
<1>3. /\ slice'.validation = j /\ slice'.closure = "OPEN" /\ slice'.execution = slice.execution
      /\ slice'.assurance = slice.assurance /\ slice'.activePlan = slice.activePlan
  BY <1>1, <1>2 DEF Slices
<1>4. slice.closure = "OPEN" /\ slice.assurance = "UNVERIFIED"
  BY <1>1, UnassuredIsOpen
<1>5. SliceOK'
  BY <1>1, <1>3, <1>4 DEF AssuranceInv, SliceOK, AssuranceRestsOnValidation, AcceptedIsClosed, Assured
<1>6. ASSUME NEW r \in Sessions PROVE CallOK(r)'
  <2>1. CASE r = s
    BY <1>1, <2>1 DEF CallOK
  <2>2. CASE r # s
    <3>1. Actor(r) \notin Verifiers /\ call[r].step \notin {"verify", "decide"}
      BY <1>1, <2>2, Verifier
    <3>2. CallOK(r)
      BY DEF AssuranceInv
    <3>3. Actor(r)' = Actor(r)
      BY DEF Actor
    <3> QED
      BY <1>1, <1>4, <3>1, <3>2, <3>3 DEF CallOK
  <2> QED
    BY <2>1, <2>2
<1> QED
  BY <1>5, <1>6 DEF AssuranceInv

LEMMA BeginVerifyOK ==
  ASSUME AssuranceInv, BindingInv', NEW s \in Sessions, NEW proof \in SUBSET Evidence,
         NEW closing \in BOOLEAN, BeginVerify(s, proof, closing)
  PROVE  AssuranceInv'
<1>0. TypeInv
  BY DEF AssuranceInv, BindingInv
<1>1. PICK c : c = [NoCall EXCEPT !.step = "recheck", !.proof = proof, !.closing = closing]
  OBVIOUS
<1>2. c \in Calls /\ c.step = "recheck"
  BY <1>1, NoCallType DEF NoCall, Calls, Steps
<1>3. Goto(s, c) /\ UNCHANGED <<slice, fresh>> /\ slice.validation = "VALIDATED"
  BY <1>1 DEF BeginVerify
<1>4. call'[s].step = "recheck" /\ \A r \in Sessions : r # s => call'[r] = call[r]
  BY <1>0, <1>2, <1>3, GotoFacts
<1>5. CallOK(s)'
  BY <1>3, <1>4 DEF CallOK
<1> QED
  BY <1>3, <1>4, <1>5, SameIsSame, QuietlyOK

LEMMA RecheckOK ==
  ASSUME AssuranceInv, BindingInv', NEW s \in Sessions, Recheck(s)
  PROVE  AssuranceInv'
<1>0. TypeInv /\ slice \in Slices
  BY DEF AssuranceInv, BindingInv, TypeInv, TypeOK
<1>1. UNCHANGED slice /\ call[s].step = "recheck"
  BY DEF Recheck, At
<1>2. CASE Verifiable(Actor(s), call[s].proof)
  <2>1. Step(s, "verify") /\ "verify" \in Steps /\ fresh' = fresh \cup {s}
    BY <1>2 DEF Recheck, Steps, ReadSlice
  <2>2. call'[s].step = "verify" /\ \A r \in Sessions : r # s => call'[r] = call[r]
    BY <1>0, <2>1, StepFacts
  <2>3. Actor(s) \in Verifiers /\ slice.assurance = "UNVERIFIED" /\ slice.execution = "DONE_CLAIMED"
        /\ slice.lastActor # Actor(s)
    BY <1>0, <1>2 DEF Verifiable, Slices, Assured
  <2>4. slice.validation = "VALIDATED"
    BY <1>1, <2>3 DEF AssuranceInv, CallOK
  <2>5. CallOK(s)'
    BY <1>1, <2>2, <2>3, <2>4 DEF CallOK, Actor
  <2>6. \A r \in Sessions : r # s => (r \in fresh' => r \in fresh)
    BY <2>1
  <2> QED
    BY <1>1, <2>2, <2>5, <2>6, SameIsSame, QuietlyOK
<1>3. CASE ~Verifiable(Actor(s), call[s].proof)
  BY <1>1, <1>3, SameIsSame, ReturnsOK DEF Recheck
<1> QED
  BY <1>2, <1>3

LEMMA VerifyOK ==
  ASSUME OneVerifier, AssuranceInv, BindingInv', NEW s \in Sessions, Verify(s)
  PROVE  AssuranceInv'
<1>0. TypeInv /\ slice \in Slices
  BY DEF AssuranceInv, BindingInv, TypeInv, TypeOK
<1>1. call[s].step = "verify" /\ s \in fresh /\ fresh' = {} /\ Step(s, "decide") /\ "decide" \in Steps
  BY DEF Verify, At, Current, WriteSlice, Steps
<1>2. slice' = [slice EXCEPT !.assurance = "VERIFIED", !.verifier = Actor(s)]
  BY DEF Verify, WriteSlice
<1>3. /\ slice'.validation = slice.validation /\ slice'.closure = slice.closure /\ slice'.execution = slice.execution
      /\ slice'.assurance = "VERIFIED" /\ slice'.activePlan = slice.activePlan
  BY <1>0, <1>2 DEF Slices
<1>4. call'[s].step = "decide" /\ \A r \in Sessions : r # s => call'[r] = call[r]
  BY <1>0, <1>1, StepFacts
<1>5. /\ slice.assurance = "UNVERIFIED" /\ slice.execution = "DONE_CLAIMED" /\ slice.validation = "VALIDATED"
      /\ Actor(s) \in Verifiers
  BY <1>1 DEF AssuranceInv, CallOK
<1>6. slice.closure = "OPEN"
  BY <1>5, UnassuredIsOpen DEF Assured
<1>7. SliceOK'
  BY <1>3, <1>5, <1>6 DEF AssuranceInv, SliceOK, AssuranceRestsOnValidation, AcceptedIsClosed, Assured
<1>8. ASSUME NEW r \in Sessions PROVE CallOK(r)'
  <2>1. CASE r = s
    BY <1>3, <1>4, <1>5, <1>6, <2>1 DEF CallOK, Actor
  <2>2. CASE r # s
    <3>1. Actor(r) \notin Verifiers /\ call[r].step \notin {"verify", "decide"}
      BY <1>5, <2>2, Verifier
    <3>2. CallOK(r) /\ call'[r] = call[r]
      BY <1>4, <2>2 DEF AssuranceInv
    <3>3. Actor(r)' = Actor(r)
      BY DEF Actor
    <3> QED
      BY <1>1, <1>6, <3>1, <3>2, <3>3 DEF CallOK
  <2> QED
    BY <2>1, <2>2
<1> QED
  BY <1>7, <1>8 DEF AssuranceInv

LEMMA CloseVerifiedOK ==
  ASSUME OneVerifier, AssuranceInv, BindingInv', NEW s \in Sessions, CloseVerified(s)
  PROVE  AssuranceInv'
<1>1. /\ slice \in Slices /\ UNCHANGED call /\ fresh' = {} /\ call[s].step = "idle" /\ Actor(s) \in Verifiers
      /\ slice.assurance \in Assured
  BY DEF AssuranceInv, BindingInv, TypeInv, TypeOK, CloseVerified, WriteSlice, Idle
<1>2. slice' = [slice EXCEPT !.closure = "CLOSED"]
  BY DEF CloseVerified, WriteSlice
<1>3. /\ slice'.validation = slice.validation /\ slice'.closure = "CLOSED" /\ slice'.execution = slice.execution
      /\ slice'.assurance = slice.assurance /\ slice'.activePlan = slice.activePlan
  BY <1>1, <1>2 DEF Slices
<1>4. SliceOK'
  BY <1>1, <1>3 DEF AssuranceInv, SliceOK, AssuranceRestsOnValidation, AcceptedIsClosed
<1>5. ASSUME NEW r \in Sessions PROVE CallOK(r)'
  <2>1. CASE r = s
    BY <1>1, <2>1 DEF CallOK
  <2>2. CASE r # s
    <3>1. Actor(r) \notin Verifiers /\ call[r].step \notin {"verify", "decide"}
      BY <1>1, <2>2, Verifier
    <3>2. CallOK(r)
      BY DEF AssuranceInv
    <3>3. Actor(r)' = Actor(r)
      BY DEF Actor
    <3> QED
      BY <1>1, <1>3, <3>1, <3>2, <3>3 DEF CallOK
  <2> QED
    BY <2>1, <2>2
<1> QED
  BY <1>4, <1>5 DEF AssuranceInv

\* The last write of verify_slice finds the Slice as its second write has left it.
LEMMA DecideOK ==
  ASSUME OneVerifier, AssuranceInv, BindingInv', NEW s \in Sessions, NEW blocked \in BOOLEAN,
         DecideClosure(s, blocked)
  PROVE  AssuranceInv'
<1>0. TypeInv /\ slice \in Slices
  BY DEF AssuranceInv, BindingInv, TypeInv, TypeOK
<1>1. call[s].step = "decide" /\ Return(s)
  BY DEF DecideClosure, At
<1>2. slice.assurance = "VERIFIED" /\ slice.closure = "OPEN" /\ Actor(s) \in Verifiers
  BY <1>1 DEF AssuranceInv, CallOK
<1>3. CASE UNCHANGED <<slice, fresh>>
  BY <1>1, <1>3, SameIsSame, ReturnsOK
<1>4. CASE WriteSlice([slice EXCEPT !.closure = "CLOSED"])
  <2>1. slice' = [slice EXCEPT !.closure = "CLOSED"] /\ fresh' = {}
    BY <1>4 DEF WriteSlice
  <2>2. /\ slice'.validation = slice.validation /\ slice'.closure = "CLOSED" /\ slice'.execution = slice.execution
        /\ slice'.assurance = slice.assurance /\ slice'.activePlan = slice.activePlan
    BY <1>0, <2>1 DEF Slices
  <2>3. SliceOK'
    BY <1>2, <2>2 DEF AssuranceInv, SliceOK, AssuranceRestsOnValidation, AcceptedIsClosed, Assured
  <2>4. call'[s].step = "idle" /\ \A r \in Sessions : r # s => call'[r] = call[r]
    BY <1>0, <1>1, ReturnFacts
  <2>5. ASSUME NEW r \in Sessions PROVE CallOK(r)'
    <3>1. CASE r = s
      BY <2>4, <3>1 DEF CallOK
    <3>2. CASE r # s
      <4>1. Actor(r) \notin Verifiers /\ call[r].step \notin {"verify", "decide"}
        BY <1>2, <3>2, Verifier
      <4>2. CallOK(r) /\ call'[r] = call[r]
        BY <2>4, <3>2 DEF AssuranceInv
      <4>3. Actor(r)' = Actor(r)
        BY DEF Actor
      <4> QED
        BY <2>1, <2>2, <4>1, <4>2, <4>3 DEF CallOK
    <3> QED
      BY <3>1, <3>2
  <2> QED
    BY <2>3, <2>5 DEF AssuranceInv
<1> QED
  BY <1>2, <1>3, <1>4 DEF DecideClosure

LEMMA BeginAcceptOK ==
  ASSUME AssuranceInv, BindingInv', NEW s \in Sessions, BeginAccept(s)
  PROVE  AssuranceInv'
<1>1. TypeInv /\ Step(s, "accept") /\ "accept" \in Steps /\ UNCHANGED <<slice, fresh>> /\ slice.closure = "CLOSED"
  BY DEF AssuranceInv, BindingInv, BeginAccept, Steps
<1>2. call'[s].step = "accept" /\ \A r \in Sessions : r # s => call'[r] = call[r]
  BY <1>1, StepFacts
<1>3. CallOK(s)'
  BY <1>1, <1>2 DEF CallOK
<1> QED
  BY <1>1, <1>2, <1>3, SameIsSame, QuietlyOK

LEMMA AcceptOK ==
  ASSUME AssuranceInv, BindingInv', NEW s \in Sessions, Accept(s)
  PROVE  AssuranceInv'
<1>0. TypeInv /\ slice \in Slices
  BY DEF AssuranceInv, BindingInv, TypeInv, TypeOK
<1>1. call[s].step = "accept" /\ Return(s)
  BY DEF Accept, At
<1>2. slice.closure = "CLOSED"
  BY <1>1 DEF AssuranceInv, CallOK
<1>3. CASE UNCHANGED <<slice, fresh>>
  BY <1>1, <1>3, SameIsSame, ReturnsOK
<1>4. CASE slice.assurance = "VERIFIED" /\ WriteSlice([slice EXCEPT !.assurance = "ACCEPTED"])
  <2>1. slice' = [slice EXCEPT !.assurance = "ACCEPTED"] /\ fresh' = {}
    BY <1>4 DEF WriteSlice
  <2>2. /\ slice'.validation = slice.validation /\ slice'.closure = slice.closure /\ slice'.execution = slice.execution
        /\ slice'.assurance = "ACCEPTED" /\ slice'.activePlan = slice.activePlan
    BY <1>0, <2>1 DEF Slices
  <2>3. SliceOK'
    BY <1>2, <1>4, <2>2 DEF AssuranceInv, SliceOK, AssuranceRestsOnValidation, AcceptedIsClosed, Assured
  <2>4. call'[s].step = "idle" /\ \A r \in Sessions : r # s => call'[r] = call[r]
    BY <1>0, <1>1, ReturnFacts
  <2>5. ASSUME NEW r \in Sessions PROVE CallOK(r)'
    <3>1. CASE r = s
      BY <2>4, <3>1 DEF CallOK
    <3>2. CASE r # s
      <4>1. CallOK(r) /\ call'[r] = call[r]
        BY <2>4, <3>2 DEF AssuranceInv
      <4>2. Actor(r)' = Actor(r)
        BY DEF Actor
      <4> QED
        BY <1>2, <2>1, <2>2, <4>1, <4>2 DEF CallOK
    <3> QED
      BY <3>1, <3>2
  <2> QED
    BY <2>3, <2>5 DEF AssuranceInv
<1> QED
  BY <1>3, <1>4 DEF Accept

LEMMA AssuranceInit == Init => AssuranceInv
<1> SUFFICES ASSUME Init PROVE SliceOK /\ \A s \in Sessions : CallOK(s)
  BY BindingInit DEF AssuranceInv
<1>1. /\ slice.validation = "NOT_STARTED" /\ slice.assurance = "UNVERIFIED" /\ slice.closure = "OPEN"
      /\ slice.activePlan = None
  BY DEF Init, InitialSlice
<1>2. \A s \in Sessions : call[s].step = "idle"
  BY DEF Init, NoCall
<1> QED
  BY <1>1, <1>2, FreeIsOK DEF SliceOK, AssuranceRestsOnValidation, AcceptedIsClosed, Assured

LEMMA AssuranceStep == OneVerifier /\ AssuranceInv /\ [Next]_vars => AssuranceInv'
<1> SUFFICES ASSUME OneVerifier, AssuranceInv, [Next]_vars PROVE AssuranceInv'
  OBVIOUS
<1>0. BindingInv'
  BY BindingStep DEF AssuranceInv
<1>1. ASSUME NEW s \in Sessions, AssuranceCall(s) PROVE AssuranceInv'
  BY <1>0, <1>1, ValidateOK, BeginVerifyOK, RecheckOK, VerifyOK, CloseVerifiedOK, DecideOK, BeginAcceptOK, AcceptOK
     DEF AssuranceCall
<1>2. ASSUME NEW s \in Sessions, Conflict(s) \/ Abort(s) PROVE AssuranceInv'
  BY <1>0, <1>2, SameIsSame, ReturnsOK DEF Conflict, Abort
<1>3. CASE Drift \/ UNCHANGED vars
  BY <1>0, <1>3, SameIsSame, DocumentsOK DEF Drift, vars
<1> QED
  BY <1>0, <1>1, <1>2, <1>3, PlanCallsOK, ProofCallsOK DEF Next

\* A verified Slice is one whose last DONE claim the validator has found complete
\* (docs/adversarial-verification.md, "Final verification rule"), although verify_slice
\* reads the validation, the evidence and the revision it writes at three moments: with
\* one session that verifies, which is the only one that judges.  Without that
\* hypothesis the run slice_validation_race refutes it.
THEOREM AssuranceRests == OneVerifier => (Spec => []AssuranceRestsOnValidation)
<1> SUFFICES ASSUME OneVerifier PROVE Spec => []AssuranceRestsOnValidation
  OBVIOUS
<1>1. AssuranceInv /\ [Next]_vars => AssuranceInv'
  BY AssuranceStep
<1>2. AssuranceInv => AssuranceRestsOnValidation
  BY DEF AssuranceInv, SliceOK
<1> QED
  BY <1>1, <1>2, AssuranceInit, PTL DEF Spec

\* A Slice is closed only when it is verified, and an accepted Slice is closed: what
\* accept_slice has read of the closure still holds when it writes the assurance.
THEOREM AcceptedClosed == OneVerifier => (Spec => []AcceptedIsClosed)
<1> SUFFICES ASSUME OneVerifier PROVE Spec => []AcceptedIsClosed
  OBVIOUS
<1>1. AssuranceInv /\ [Next]_vars => AssuranceInv'
  BY AssuranceStep
<1>2. AssuranceInv => AcceptedIsClosed
  BY DEF AssuranceInv, SliceOK
<1> QED
  BY <1>1, <1>2, AssuranceInit, PTL DEF Spec

-----------------------------------------------------------------------------
(* Grounds of verification.  verify_slice has read evidence and approvals   *)
(* before it writes; what it has found of them is never taken back, and the *)
(* compare-and-set sees to the rest.                                        *)

Grounds(s) ==
  /\ slice.lastActor # Actor(s)
  /\ \A g \in Gates :
       \/ slice.gates[g].status = "WAIVED" /\ approval[g].status = "APPROVED"
       \/ slice.gates[g].status = "PASS" /\ ObservedByAnother(slice.gates[g].proof)
  /\ Gates = {} => ObservedByAnother(call[s].proof)

GroundsInv == TypeInv /\ \A s \in fresh : call[s].step = "verify" => Grounds(s)

\* Observations and approvals are never taken back.
Lasting ==
  /\ \A e \in Evidence :
       evidence[e].kind = "OBSERVATION" =>
         /\ evidence'[e].kind = evidence[e].kind
         /\ evidence'[e].verdict = evidence[e].verdict
         /\ evidence'[e].author = evidence[e].author
  /\ \A x \in Subjects : approval[x].status = "APPROVED" => approval'[x].status = "APPROVED"

LEMMA AttestedFacts ==
  ASSUME NEW d \in EvidenceDocs, NEW a, NEW trust
  PROVE  /\ Attested(d, a, trust).kind = d.kind
         /\ Attested(d, a, trust).verdict = d.verdict
         /\ Attested(d, a, trust).author = d.author
BY DEF Attested, EvidenceDocs

LEMMA ProofsLast ==
  ASSUME TypeInv, NEW s \in Sessions, ProofCall(s)
  PROVE  Lasting
<1>0. evidence \in [Evidence -> EvidenceDocs] /\ approval \in [Subjects -> ApprovalDocs]
  BY DEF TypeInv, TypeOK
<1>1. CASE UNCHANGED <<evidence, approval>>
  BY <1>1 DEF Lasting
<1>2. ASSUME NEW e \in Evidence, evidence[e].kind = "ABSENT", UNCHANGED approval,
             NEW d, evidence' = [evidence EXCEPT ![e] = d]
      PROVE  Lasting
  BY <1>0, <1>2 DEF Lasting
<1>3. ASSUME NEW e \in Evidence, NEW kind, NEW verdict, SubmitEvidence(s, e, kind, verdict) PROVE Lasting
  <2>1. PICK d : d = [evidence[e] EXCEPT !.kind = kind, !.verdict = verdict, !.author = Actor(s)]
    OBVIOUS
  <2>2. evidence' = [evidence EXCEPT ![e] = d]
    BY <1>3, <2>1, Zenon DEF SubmitEvidence
  <2> QED
    BY <1>2, <1>3, <2>2 DEF SubmitEvidence
<1>4. ASSUME NEW e \in Evidence, NEW verdict, Observe(s, e, verdict) PROVE Lasting
  <2>1. PICK d : d = [evidence[e] EXCEPT !.kind = "OBSERVATION", !.verdict = verdict, !.author = Actor(s)]
    OBVIOUS
  <2>2. evidence' = [evidence EXCEPT ![e] = d]
    BY <1>4, <2>1, Zenon DEF Observe
  <2> QED
    BY <1>2, <1>4, <2>2 DEF Observe
<1>5. ASSUME NEW e \in Evidence, NEW trust, Attest(s, e, trust) PROVE Lasting
  <2>1. PICK d \in EvidenceDocs : d = evidence[e]
    BY <1>0
  <2>2. PICK f : f = Attested(d, Actor(s), trust)
    OBVIOUS
  <2>3. f.kind = d.kind /\ f.verdict = d.verdict /\ f.author = d.author
    BY <2>2, AttestedFacts
  <2>4. evidence' = [evidence EXCEPT ![e] = f]
    BY <1>5, <2>1, <2>2, Zenon DEF Attest
  <2> QED
    BY <1>0, <1>5, <2>1, <2>3, <2>4 DEF Attest, Lasting
<1>6. CASE AttestObservation(s)
  <2>1. ASSUME NEW e \in Evidence
        PROVE  evidence'[e] = evidence[e] \/ evidence'[e] = Attested(evidence[e], Actor(s), "VERIFIER")
    BY <1>6 DEF AttestObservation
  <2> QED
    BY <1>0, <1>6, <2>1, AttestedFacts DEF AttestObservation, Lasting
<1>7. ASSUME NEW x \in Subjects, Request(s, x) PROVE Lasting
  BY <1>0, <1>7 DEF Request, Lasting
<1>8. ASSUME NEW x \in Subjects, NEW status, Decide(s, x, status) PROVE Lasting
  BY <1>0, <1>8 DEF Decide, Lasting
<1>9. ASSUME NEW g \in Gates, NEW status, NEW proof, SetGate(s, g, status, proof) PROVE Lasting
  BY <1>1, <1>9 DEF SetGate
<1>10. CASE BeginObserve(s)
  BY <1>1, <1>10 DEF BeginObserve
<1> QED
  BY <1>3, <1>4, <1>5, <1>6, <1>7, <1>8, <1>9, <1>10 DEF ProofCall

\* What the other operations do to evidence and approvals: nothing.
LEMMA OthersLast ==
  ASSUME TypeInv, [Next]_vars, \A s \in Sessions : ~ProofCall(s)
  PROVE  UNCHANGED <<evidence, approval>>
<1>1. ASSUME NEW s \in Sessions, PlanCall(s) PROVE UNCHANGED <<evidence, approval>>
  BY <1>1 DEF PlanCall, SubmitPlan, BeginClosePlan, ClosePlan, BeginStart, BeginProgress, BeginClaim, Begin,
              Start, Activate, UpdateProgress, Claim
<1>2. ASSUME NEW s \in Sessions, AssuranceCall(s) PROVE UNCHANGED <<evidence, approval>>
  BY <1>2 DEF AssuranceCall, Validate, BeginVerify, Recheck, Verify, CloseVerified, DecideClosure, BeginAccept, Accept
<1> QED
  BY <1>1, <1>2 DEF Next, Conflict, Abort, Drift, vars

LEMMA ItLasts == ASSUME TypeInv, [Next]_vars PROVE Lasting
BY ProofsLast, OthersLast DEF Lasting

LEMMA ObservationLasts ==
  ASSUME Lasting, NEW proof \in SUBSET Evidence, ObservedByAnother(proof), slice'.lastActor = slice.lastActor
  PROVE  ObservedByAnother(proof)'
BY DEF ObservedByAnother, Lasting

\* A session that is about to verify on a current copy was, or has just found its grounds.
Arrives(s) ==
  \/ s \in fresh /\ call'[s] = call[s] /\ UNCHANGED slice
  \/ /\ Verifiable(Actor(s), call[s].proof)
     /\ call'[s].proof = call[s].proof
     /\ UNCHANGED <<slice, evidence, approval>>

LEMMA ReturnsArrive ==
  ASSUME TypeInv, NEW r \in Sessions, Return(r), fresh' \subseteq fresh, NEW s \in fresh',
         call'[s].step = "verify", UNCHANGED slice
  PROVE  Arrives(s)
<1>1. s \in Sessions
  BY DEF TypeInv, TypeOK
<1> QED
  BY <1>1, ReturnFacts DEF Arrives

LEMMA ArrivalFacts ==
  ASSUME TypeInv, [Next]_vars, NEW s \in fresh', call'[s].step = "verify"
  PROVE  Arrives(s)
<1>0. s \in Sessions
  BY TypeStep DEF TypeInv, TypeOK
<1>1. CASE UNCHANGED <<slice, call, fresh>>
  BY <1>1 DEF Arrives
<1>2. ASSUME NEW r \in Sessions, NEW p \in Plans,
             \/ BeginClosePlan(r, p) \/ BeginStart(r, p) \/ BeginClaim(r, p)
             \/ \E x \in Progress : BeginProgress(r, p, x)
      PROVE  Arrives(s)
  <2>1. /\ UNCHANGED slice
        /\ \A t \in Sessions : t # r => call'[t] = call[t]
        /\ fresh' \subseteq fresh \cup {r}
        /\ call'[r].step \in {"shut", "start", "progress", "claim"}
    BY <1>2, BeginFacts
  <2> QED
    BY <1>0, <2>1 DEF Arrives
<1>3. ASSUME NEW r \in Sessions,
             \/ ClosePlan(r) \/ Activate(r) \/ AttestObservation(r) \/ Conflict(r) \/ Abort(r)
      PROVE  Arrives(s)
  BY <1>3, ReturnsArrive DEF ClosePlan, Activate, AttestObservation, Conflict, Abort
<1>4. ASSUME NEW d, WriteSlice(d) PROVE Arrives(s)
  BY <1>4 DEF WriteSlice
<1>5. ASSUME NEW r \in Sessions, PlanCall(r) PROVE Arrives(s)
  BY <1>1, <1>2, <1>3, <1>4, <1>5 DEF PlanCall, SubmitPlan, Start, UpdateProgress, Claim
<1>6. ASSUME NEW r \in Sessions, NEW e \in Evidence, NEW verdict \in {"PASS", "FAIL"}, Observe(r, e, verdict)
      PROVE  Arrives(s)
  <2>1. PICK c : c = [NoCall EXCEPT !.step = "attest", !.proof = {e}]
    OBVIOUS
  <2>2. c \in Calls /\ c.step = "attest"
    BY <2>1, NoCallType DEF NoCall, Calls, Steps
  <2>3. Goto(r, c) /\ UNCHANGED <<slice, fresh>>
    BY <1>6, <2>1 DEF Observe
  <2>4. call'[r] = c /\ \A t \in Sessions : t # r => call'[t] = call[t]
    BY <2>2, <2>3, GotoFacts
  <2> QED
    BY <1>0, <2>2, <2>3, <2>4 DEF Arrives
<1>7. ASSUME NEW r \in Sessions, NEW step \in Steps \ {"verify"}, Step(r, step), UNCHANGED <<slice, fresh>>
      PROVE  Arrives(s)
  <2>1. call'[r].step = step /\ \A t \in Sessions : t # r => call'[t] = call[t]
    BY <1>7, StepFacts
  <2> QED
    BY <1>0, <1>7, <2>1 DEF Arrives
<1>8. ASSUME NEW r \in Sessions, ProofCall(r) PROVE Arrives(s)
  <2>1. "observe" \in Steps \ {"verify"}
    BY DEF Steps
  <2> QED
    BY <1>1, <1>3, <1>4, <1>6, <1>7, <1>8, <2>1
       DEF ProofCall, SubmitEvidence, Attest, BeginObserve, SetGate, Request, Decide
<1>9. ASSUME NEW r \in Sessions, NEW proof \in SUBSET Evidence, NEW closing \in BOOLEAN,
             BeginVerify(r, proof, closing)
      PROVE  Arrives(s)
  <2>1. PICK c : c = [NoCall EXCEPT !.step = "recheck", !.proof = proof, !.closing = closing]
    OBVIOUS
  <2>2. c \in Calls /\ c.step = "recheck"
    BY <2>1, NoCallType DEF NoCall, Calls, Steps
  <2>3. Goto(r, c) /\ UNCHANGED <<slice, fresh>>
    BY <1>9, <2>1 DEF BeginVerify
  <2>4. call'[r] = c /\ \A t \in Sessions : t # r => call'[t] = call[t]
    BY <2>2, <2>3, GotoFacts
  <2> QED
    BY <1>0, <2>2, <2>3, <2>4 DEF Arrives
<1>10. ASSUME NEW r \in Sessions, Recheck(r) PROVE Arrives(s)
  <2>1. CASE Verifiable(Actor(r), call[r].proof)
    <3>1. Step(r, "verify") /\ "verify" \in Steps /\ fresh' = fresh \cup {r} /\ UNCHANGED <<slice, evidence, approval>>
      BY <1>10, <2>1 DEF Recheck, Steps, ReadSlice
    <3>2. PICK c \in Calls : c = call[r]
      BY DEF TypeInv, TypeOK
    <3>3. PICK d : d = [c EXCEPT !.step = "verify"]
      OBVIOUS
    <3>4. d.proof = c.proof
      BY <3>3 DEF Calls
    <3>5. call' = [call EXCEPT ![r] = d]
      BY <3>1, <3>2, <3>3, Zenon DEF Step
    <3>6. call'[r].proof = call[r].proof
      BY <3>2, <3>4, <3>5 DEF TypeInv, TypeOK
    <3>7. \A t \in Sessions : t # r => call'[t] = call[t]
      BY <3>1, StepFacts
    <3> QED
      BY <1>0, <2>1, <3>1, <3>6, <3>7 DEF Arrives
  <2>2. CASE ~Verifiable(Actor(r), call[r].proof)
    BY <1>10, <2>2, ReturnsArrive DEF Recheck
  <2> QED
    BY <2>1, <2>2
<1>11. ASSUME NEW r \in Sessions, AssuranceCall(r) PROVE Arrives(s)
  <2>1. "accept" \in Steps \ {"verify"}
    BY DEF Steps
  <2>2. ASSUME NEW blocked \in BOOLEAN, DecideClosure(r, blocked) PROVE Arrives(s)
    BY <1>4, <2>2, ReturnsArrive DEF DecideClosure
  <2>3. ASSUME Accept(r) PROVE Arrives(s)
    BY <1>4, <2>3, ReturnsArrive DEF Accept
  <2> QED
    BY <1>4, <1>7, <1>9, <1>10, <1>11, <2>1, <2>2, <2>3
       DEF AssuranceCall, Validate, Verify, CloseVerified, BeginAccept
<1> QED
  BY <1>1, <1>3, <1>5, <1>8, <1>11 DEF Next, Drift, vars

LEMMA GroundsInit == Init => GroundsInv
BY TypeInit DEF Init, GroundsInv

LEMMA GroundsStep == GroundsInv /\ [Next]_vars => GroundsInv'
<1> SUFFICES ASSUME GroundsInv, [Next]_vars, NEW s \in fresh', call'[s].step = "verify"
             PROVE  Grounds(s)'
  BY TypeStep DEF GroundsInv
<1>0. TypeInv /\ Lasting /\ Actor(s)' = Actor(s) /\ slice \in Slices
  BY ItLasts DEF GroundsInv, Actor, TypeInv, TypeOK
<1>1. CASE s \in fresh /\ call'[s] = call[s] /\ UNCHANGED slice
  <2>1. Grounds(s)
    BY <1>1 DEF GroundsInv
  <2>2. ASSUME NEW g \in Gates
        PROVE  \/ slice'.gates[g].status = "WAIVED" /\ approval'[g].status = "APPROVED"
               \/ slice'.gates[g].status = "PASS" /\ ObservedByAnother(slice.gates[g].proof)'
    <3>1. slice.gates[g].proof \in SUBSET Evidence
      BY <1>0 DEF Slices, GateDocs
    <3>2. g \in Subjects
      BY DEF Subjects
    <3> QED
      BY <1>0, <1>1, <2>1, <3>1, <3>2, ObservationLasts DEF Grounds, Lasting
  <2>3. Gates = {} => ObservedByAnother(call[s].proof)'
    <3>1. s \in Sessions
      BY <1>1 DEF GroundsInv, TypeInv, TypeOK
    <3>2. PICK proof \in SUBSET Evidence : proof = call[s].proof
      BY <3>1 DEF GroundsInv, TypeInv, TypeOK, Calls
    <3>3. proof = call'[s].proof
      BY <1>1, <3>2
    <3>4. Gates = {} => ObservedByAnother(proof)'
      BY <1>0, <1>1, <2>1, <3>2, ObservationLasts DEF Grounds
    <3> QED
      BY <3>3, <3>4 DEF ObservedByAnother
  <2> QED
    BY <1>0, <1>1, <2>1, <2>2, <2>3 DEF Grounds, ObservedByAnother
<1>2. CASE /\ Verifiable(Actor(s), call[s].proof)
           /\ call'[s].proof = call[s].proof
           /\ UNCHANGED <<slice, evidence, approval>>
  BY <1>0, <1>2 DEF Verifiable, GateSpeaksForIt, HasIndependent, Independent, Grounds, ObservedByAnother
<1> QED
  BY <1>1, <1>2, ArrivalFacts DEF GroundsInv, Arrives

-----------------------------------------------------------------------------
(* Steps of the Slice, as the ladder sees them.                             *)

\* Who writes which rung: the operation, and what assurance is about afterwards.
Climbs(s) ==
  \/ Start(s) \/ UpdateProgress(s) \/ Claim(s)
  \/ /\ \E j \in Judgements :
          /\ Validate(s, j)
          /\ slice'.validation = j /\ slice'.closure = "OPEN" /\ slice'.assurance = slice.assurance
     /\ Kept(slice')
  \/ /\ Verify(s)
     /\ slice'.assurance = "VERIFIED" /\ slice'.verifier = Actor(s)
     /\ slice'.validation = slice.validation /\ slice'.closure = slice.closure
     /\ Kept(slice')
  \/ /\ CloseVerified(s) \/ DecideClosure(s, FALSE)
     /\ slice'.closure = "CLOSED" /\ slice'.validation = slice.validation /\ slice'.assurance = slice.assurance
     /\ Kept(slice')
  \/ /\ \E blocked \in BOOLEAN : DecideClosure(s, blocked)
     /\ slice.closure # "OPEN"
     /\ slice'.closure = "OPEN" /\ slice'.validation = slice.validation /\ slice'.assurance = slice.assurance
     /\ Kept(slice')
  \/ /\ Accept(s) /\ slice.assurance = "VERIFIED"
     /\ slice'.assurance = "ACCEPTED" /\ slice'.validation = slice.validation /\ slice'.closure = slice.closure
     /\ Kept(slice')

LEMMA ClimbCases ==
  ASSUME TypeInv, [Next]_vars
  PROVE  SameAssurance \/ \E s \in Sessions : Climbs(s)
<1>0. slice \in Slices
  BY DEF TypeInv, TypeOK
<1>1. ASSUME UNCHANGED slice PROVE SameAssurance
  BY <1>1, SameIsSame
<1>2. ASSUME NEW s \in Sessions, PlanCall(s) PROVE SameAssurance \/ Climbs(s)
  BY <1>1, <1>2 DEF PlanCall, SubmitPlan, BeginClosePlan, ClosePlan, BeginStart, BeginProgress, BeginClaim, Begin,
                    Activate, Climbs
<1>3. ASSUME NEW s \in Sessions, ProofCall(s) PROVE SameAssurance
  <2>1. ASSUME NEW g \in Gates, NEW status, NEW proof, SetGate(s, g, status, proof) PROVE SameAssurance
    <3>1. PICK gates : gates = [slice.gates EXCEPT ![g] = [status |-> status, proof |-> proof]]
      OBVIOUS
    <3>2. slice' = [slice EXCEPT !.gates = gates]
      BY <2>1, <3>1, Zenon DEF SetGate, WriteSlice
    <3> QED
      BY <1>0, <3>2 DEF SameAssurance, Slices
  <2> QED
    BY <1>1, <1>3, <2>1 DEF ProofCall, SubmitEvidence, Observe, Attest, BeginObserve, AttestObservation, Request, Decide
<1>4. ASSUME NEW s \in Sessions, AssuranceCall(s) PROVE SameAssurance \/ Climbs(s)
  <2>1. ASSUME NEW j \in Judgements, Validate(s, j) PROVE Climbs(s)
    <3>1. slice' = [slice EXCEPT !.validation = j, !.closure = "OPEN"]
      BY <2>1 DEF Validate, WriteSlice
    <3>2. slice'.validation = j /\ slice'.closure = "OPEN" /\ slice'.assurance = slice.assurance
      BY <1>0, <3>1 DEF Slices
    <3>3. Kept(slice')
      BY <1>0, <3>1, JudgedFacts
    <3> QED
      BY <2>1, <3>2, <3>3 DEF Climbs
  <2>2. ASSUME Verify(s) PROVE Climbs(s)
    <3>1. slice' = [slice EXCEPT !.assurance = "VERIFIED", !.verifier = Actor(s)]
      BY <2>2 DEF Verify, WriteSlice
    <3>2. /\ slice'.assurance = "VERIFIED" /\ slice'.verifier = Actor(s)
          /\ slice'.validation = slice.validation /\ slice'.closure = slice.closure
      BY <1>0, <3>1 DEF Slices
    <3>3. Kept(slice')
      BY <1>0, <3>1, VerifiedFacts, ActorType
    <3> QED
      BY <2>2, <3>2, <3>3 DEF Climbs
  <2>3. ASSUME NEW closure \in {"OPEN", "CLOSED"}, slice' = [slice EXCEPT !.closure = closure]
        PROVE  /\ slice'.closure = closure /\ slice'.validation = slice.validation
               /\ slice'.assurance = slice.assurance /\ Kept(slice')
    BY <1>0, <2>3, ClosureFacts DEF Slices
  <2>4. ASSUME CloseVerified(s) PROVE Climbs(s)
    BY <2>3, <2>4 DEF CloseVerified, WriteSlice, Climbs
  <2>5. ASSUME NEW blocked \in BOOLEAN, DecideClosure(s, blocked) PROVE SameAssurance \/ Climbs(s)
    <3>1. CASE UNCHANGED slice
      BY <1>1, <3>1
    <3>2. CASE call[s].closing /\ ~blocked /\ WriteSlice([slice EXCEPT !.closure = "CLOSED"])
      <4>1. DecideClosure(s, FALSE)
        BY <2>5, <3>2 DEF DecideClosure
      <4> QED
        BY <2>3, <3>2, <4>1 DEF WriteSlice, Climbs
    <3>3. CASE slice.closure # "OPEN" /\ WriteSlice([slice EXCEPT !.closure = "OPEN"])
      BY <2>3, <2>5, <3>3 DEF WriteSlice, Climbs
    <3> QED
      BY <2>5, <3>1, <3>2, <3>3 DEF DecideClosure
  <2>6. ASSUME Accept(s) PROVE SameAssurance \/ Climbs(s)
    <3>1. CASE UNCHANGED slice
      BY <1>1, <3>1
    <3>2. CASE slice.assurance = "VERIFIED" /\ WriteSlice([slice EXCEPT !.assurance = "ACCEPTED"])
      <4>1. slice' = [slice EXCEPT !.assurance = "ACCEPTED"]
        BY <3>2 DEF WriteSlice
      <4>2. slice'.assurance = "ACCEPTED" /\ slice'.validation = slice.validation /\ slice'.closure = slice.closure
        BY <1>0, <4>1 DEF Slices
      <4>3. Kept(slice')
        BY <1>0, <4>1, AcceptedFacts
      <4> QED
        BY <2>6, <3>2, <4>2, <4>3 DEF Climbs
    <3> QED
      BY <2>6, <3>1, <3>2 DEF Accept
  <2> QED
    BY <1>1, <1>4, <2>1, <2>2, <2>4, <2>5, <2>6 DEF AssuranceCall, BeginVerify, Recheck, BeginAccept
<1> QED
  BY <1>1, <1>2, <1>3, <1>4 DEF Next, Conflict, Abort, Drift, vars

\* Whatever else calls do, the step that makes a Slice VERIFIED still finds a PASS of
\* somebody else than the last executor for each gate that is not waived, and is not the
\* executor's: the compare-and-set covers what was read of the Slice, and what was read of
\* evidence and approvals lasts.
THEOREM VerifiedProven == Spec => VerifiedOnProof
<1> DEFINE Proven ==
      slice.assurance = "UNVERIFIED" /\ slice'.assurance = "VERIFIED" =>
        /\ slice'.verifier # slice.lastActor
        /\ \A g \in Gates :
             \/ slice.gates[g].status = "WAIVED" /\ approval[g].status = "APPROVED"
             \/ slice.gates[g].status = "PASS" /\ ObservedByAnother(slice.gates[g].proof)
        /\ Gates = {} =>
             \E s \in Sessions : At(s, "verify") /\ ObservedByAnother(call[s].proof)
<1>1. GroundsInv /\ [Next]_vars => Proven
  <2> SUFFICES ASSUME GroundsInv, [Next]_vars, slice.assurance = "UNVERIFIED", slice'.assurance = "VERIFIED"
               PROVE  Proven
    OBVIOUS
  <2>1. TypeInv
    BY DEF GroundsInv
  <2>2. PICK s \in Sessions : Climbs(s)
    BY <2>1, ClimbCases DEF SameAssurance
  <2>3. Verify(s) /\ slice'.verifier = Actor(s)
    BY <2>1, <2>2, WorkFacts DEF Climbs
  <2>4. s \in fresh /\ At(s, "verify") /\ call[s].step = "verify"
    BY <2>3 DEF Verify, Current, At
  <2>5. Grounds(s)
    BY <2>4 DEF GroundsInv
  <2> QED
    BY <2>3, <2>4, <2>5 DEF Grounds
<1> QED
  BY <1>1, GroundsInit, GroundsStep, PTL DEF Spec, VerifiedOnProof

-----------------------------------------------------------------------------
(* The lifecycle implements the ladder.                                     *)

RungOf(d) ==
  CASE d.assurance = "ACCEPTED" -> "ACCEPTED"
    [] d.assurance = "VERIFIED" /\ d.closure = "CLOSED" -> "CLOSED"
    [] d.assurance = "VERIFIED" /\ d.closure = "OPEN" -> "VERIFIED"
    [] d.assurance = "UNVERIFIED" /\ d.execution # "DONE_CLAIMED" -> "WORK"
    [] d.assurance = "UNVERIFIED" /\ d.execution = "DONE_CLAIMED" ->
         IF d.validation \in Judgements THEN d.validation ELSE "DONE_CLAIMED"

LEMMA RungFacts ==
  ASSUME NEW d \in Slices
  PROVE  /\ d.assurance = "ACCEPTED" => RungOf(d) = "ACCEPTED"
         /\ d.assurance = "VERIFIED" /\ d.closure = "CLOSED" => RungOf(d) = "CLOSED"
         /\ d.assurance = "VERIFIED" /\ d.closure = "OPEN" => RungOf(d) = "VERIFIED"
         /\ d.assurance = "UNVERIFIED" /\ d.execution # "DONE_CLAIMED" => RungOf(d) = "WORK"
         /\ d.assurance = "UNVERIFIED" /\ d.execution = "DONE_CLAIMED" /\ d.validation \in Judgements =>
              RungOf(d) = d.validation
         /\ d.assurance = "UNVERIFIED" /\ d.execution = "DONE_CLAIMED" /\ d.validation \notin Judgements =>
              RungOf(d) = "DONE_CLAIMED"
BY DEF RungOf

LEMMA RungIs == Rung = RungOf(slice)
BY DEF Rung, RungOf

LEMMA LadderInit == Init => Ladder!Init
<1> SUFFICES ASSUME Init PROVE Ladder!Init
  OBVIOUS
<1>1. slice \in Slices
  BY TypeInit DEF TypeInv, TypeOK
<1>2. /\ slice.assurance = "UNVERIFIED" /\ slice.validation = "NOT_STARTED" /\ slice.activePlan = None
  BY DEF Init, InitialSlice
<1>3. Rung \in {"WORK", "DONE_CLAIMED"}
  BY <1>1, <1>2, RungIs, RungFacts DEF Judgements
<1> QED
  BY <1>1, <1>2, <1>3 DEF Ladder!Init, Slices

\* Steps of a Slice that stays on its rung.
LEMMA SameRung ==
  ASSUME slice \in Slices, slice' \in Slices, SameAssurance
  PROVE  UNCHANGED Ladder!vars
<1>1. Rung' = RungOf(slice') /\ Rung = RungOf(slice)
  BY RungIs DEF Rung, RungOf
<1>2. RungOf(slice') = RungOf(slice)
  BY DEF SameAssurance, RungOf
<1> QED
  BY <1>1, <1>2 DEF SameAssurance, Ladder!vars

LEMMA WorkClimbs ==
  ASSUME AssuranceInv, AssuranceInv', NEW s \in Sessions, Start(s) \/ UpdateProgress(s) \/ Claim(s)
  PROVE  Ladder!Next
<1>0. TypeInv /\ slice \in Slices /\ slice' \in Slices /\ Actor(s) \in Actors
  BY ActorType DEF AssuranceInv, BindingInv, TypeInv, TypeOK
<1>1. s \in fresh /\ call[s].step \in {"start", "progress", "claim"}
  BY DEF Start, UpdateProgress, Claim, Current, At
<1>2. PICK p \in Plans : p = call[s].plan
  BY <1>1 DEF AssuranceInv, BindingInv, TypeInv, CallsTyped, PlanSteps
<1>3. /\ slice.validation # "VALIDATED" /\ slice.assurance = "UNVERIFIED" /\ slice.closure = "OPEN"
      /\ call[s].step \in {"progress", "claim"} => slice.execution # "DONE_CLAIMED" /\ slice.activePlan = p
      /\ call[s].step = "start" => Restartable /\ Free(p)
  BY <1>1, <1>2, WorkedOn
<1>4. Rung' = RungOf(slice') /\ Rung = RungOf(slice)
  BY RungIs DEF Rung, RungOf
<1>5. slice'.lastActor = Actor(s) /\ slice'.assurance = "UNVERIFIED"
  BY <1>0, <1>3, SliceWriteFacts, WorkFacts
<1>6. CASE Start(s)
  <2>1. call[s].step = "start"
    BY <1>6 DEF Start, At
  <2>2. slice'.activePlan = p /\ slice'.execution = "ACTIVE"
    BY <1>0, <1>2, <1>6, <2>1, SliceWriteFacts, WorkFacts
  <2>3. Rung' = "WORK"
    BY <1>0, <1>4, <1>5, <2>2, RungFacts
  <2>4. Rung \in {"WORK", "REWORK_REQUIRED"}
    BY <1>0, <1>3, <1>4, <2>1, RungFacts DEF Restartable, Judgements
  <2>5. Ladder!Work(Actor(s), p)
    BY <1>3, <1>5, <2>1, <2>2, <2>3, <2>4 DEF Ladder!Work, Free
  <2> QED
    BY <1>0, <2>5 DEF Ladder!Next
<1>7. CASE UpdateProgress(s)
  <2>1. call[s].step = "progress"
    BY <1>7 DEF UpdateProgress, At
  <2>2. slice'.activePlan = slice.activePlan /\ slice'.execution = call[s].to
    BY <1>0, <1>7, <2>1, SliceWriteFacts, WorkFacts
  <2>3. call[s].to # "DONE_CLAIMED"
    BY <2>1 DEF AssuranceInv, CallOK
  <2>4. Rung' = "WORK" /\ Rung = "WORK"
    BY <1>0, <1>3, <1>4, <1>5, <2>1, <2>2, <2>3, RungFacts
  <2>5. Ladder!Work(Actor(s), p)
    BY <1>3, <1>5, <2>1, <2>2, <2>4 DEF Ladder!Work
  <2> QED
    BY <1>0, <2>5 DEF Ladder!Next
<1>8. CASE Claim(s)
  <2>1. call[s].step = "claim"
    BY <1>8 DEF Claim, At
  <2>2. slice'.activePlan = None /\ slice'.execution = "DONE_CLAIMED" /\ slice'.validation = "PENDING"
    BY <1>0, <1>8, <2>1, SliceWriteFacts, WorkFacts
  <2>3. Rung' = "DONE_CLAIMED" /\ Rung = "WORK"
    BY <1>0, <1>3, <1>4, <1>5, <2>1, <2>2, RungFacts DEF Judgements
  <2>4. Ladder!Claim(Actor(s), p)
    BY <1>3, <1>5, <2>1, <2>2, <2>3 DEF Ladder!Claim
  <2> QED
    BY <1>0, <2>4 DEF Ladder!Next
<1> QED
  BY <1>6, <1>7, <1>8

LEMMA LadderStep ==
  ASSUME AssuranceInv, AssuranceInv', [Next]_vars
  PROVE  [Ladder!Next]_(Ladder!vars)
<1>0. TypeInv /\ slice \in Slices /\ slice' \in Slices
  BY DEF AssuranceInv, BindingInv, TypeInv, TypeOK
<1>1. CASE SameAssurance
  BY <1>0, <1>1, SameRung
<1>2. Rung' = RungOf(slice') /\ Rung = RungOf(slice)
  BY RungIs DEF Rung, RungOf
<1>3. ASSUME NEW s \in Sessions, NEW j \in Judgements, Validate(s, j), Kept(slice'),
             slice'.validation = j, slice'.assurance = slice.assurance
      PROVE  Ladder!Next
  <2>1. slice.execution = "DONE_CLAIMED" /\ slice.assurance = "UNVERIFIED"
    BY <1>3, UnassuredIsOpen DEF Validate, Judgeable
  <2>2. Rung' = j
    BY <1>0, <1>2, <1>3, <2>1, RungFacts DEF Kept
  <2>3. Rung \in Judgements \cup {"DONE_CLAIMED"}
    BY <1>0, <1>2, <2>1, RungFacts
  <2>4. Ladder!Judge(j)
    BY <1>3, <2>2, <2>3 DEF Ladder!Judge, Ladder!Claimed, Ladder!Judgements, Judgements, Kept
  <2> QED
    BY <2>4 DEF Ladder!Next, Ladder!Judgements, Judgements
<1>4. ASSUME NEW s \in Sessions, Verify(s), Kept(slice'), slice'.assurance = "VERIFIED",
             slice'.closure = slice.closure
      PROVE  Ladder!Next
  <2>1. /\ slice.assurance = "UNVERIFIED" /\ slice.execution = "DONE_CLAIMED" /\ slice.lastActor # Actor(s)
        /\ slice.validation = "VALIDATED"
    BY <1>4 DEF AssuranceInv, CallOK, Verify, At, Current
  <2>2. slice.closure = "OPEN"
    BY <2>1, UnassuredIsOpen DEF Assured
  <2>3. Rung = "VALIDATED" /\ Rung' = "VERIFIED"
    BY <1>0, <1>2, <1>4, <2>1, <2>2, RungFacts DEF Judgements
  <2>4. Ladder!Verify(Actor(s))
    BY <1>4, <2>1, <2>3 DEF Ladder!Verify, Kept
  <2> QED
    BY <2>4, ActorType DEF Ladder!Next
<1>5. ASSUME NEW s \in Sessions, CloseVerified(s) \/ DecideClosure(s, FALSE), Kept(slice'),
             slice'.closure = "CLOSED", slice'.assurance = slice.assurance,
             slice'.validation = slice.validation
      PROVE  [Ladder!Next]_(Ladder!vars)
  <2>1. slice.assurance = "VERIFIED" /\ slice.closure = "OPEN"
    <3>1. CASE CloseVerified(s)
      BY <1>0, <3>1 DEF CloseVerified, AssuranceInv, SliceOK, AcceptedIsClosed, Assured, Slices
    <3>2. CASE DecideClosure(s, FALSE)
      BY <3>2 DEF DecideClosure, At, AssuranceInv, CallOK
    <3> QED
      BY <1>5, <3>1, <3>2
  <2>2. Rung = "VERIFIED" /\ Rung' = "CLOSED"
    BY <1>0, <1>2, <1>5, <2>1, RungFacts
  <2>3. Ladder!Close
    BY <1>5, <2>2 DEF Ladder!Close, Kept
  <2> QED
    BY <2>3 DEF Ladder!Next
<1>6. ASSUME NEW s \in Sessions, \E blocked \in BOOLEAN : DecideClosure(s, blocked), slice.closure # "OPEN"
      PROVE  FALSE
  BY <1>6 DEF DecideClosure, At, AssuranceInv, CallOK
<1>7. ASSUME NEW s \in Sessions, Accept(s), slice.assurance = "VERIFIED", Kept(slice'),
             slice'.assurance = "ACCEPTED"
      PROVE  Ladder!Next
  <2>1. slice.closure = "CLOSED"
    BY <1>7 DEF Accept, At, AssuranceInv, CallOK
  <2>2. Rung = "CLOSED" /\ Rung' = "ACCEPTED"
    BY <1>0, <1>2, <1>7, <2>1, RungFacts
  <2>3. Ladder!Accept
    BY <1>7, <2>2 DEF Ladder!Accept, Kept
  <2> QED
    BY <2>3 DEF Ladder!Next
<1>8. ASSUME NEW s \in Sessions, Climbs(s) PROVE [Ladder!Next]_(Ladder!vars)
  BY <1>3, <1>4, <1>5, <1>6, <1>7, <1>8, WorkClimbs DEF Climbs
<1> QED
  BY <1>0, <1>1, <1>8, ClimbCases

\* A Slice climbs one rung at a time, whatever calls are interleaved: every write of the
\* lifecycle is one step of the ladder, and every other step none.
THEOREM LadderImplemented == OneVerifier => (Spec => ImplementsLadder)
<1> SUFFICES ASSUME OneVerifier PROVE Spec => ImplementsLadder
  OBVIOUS
<1>1. AssuranceInv /\ [Next]_vars => AssuranceInv'
  BY AssuranceStep
<1>2. AssuranceInv /\ AssuranceInv' /\ [Next]_vars => [Ladder!Next]_(Ladder!vars)
  BY LadderStep
<1> QED
  BY <1>1, <1>2, AssuranceInit, LadderInit, PTL DEF Spec, ImplementsLadder, Ladder!Spec
====
