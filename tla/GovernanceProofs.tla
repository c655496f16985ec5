--------------------------- MODULE GovernanceProofs ---------------------------
(***************************************************************************)
(* Proofs about the four parts of MCWorkGovernance, for any number of      *)
(* sessions, intents, works, contracts and tasks.  No part reads what      *)
(* another one writes, so each one has an inductive invariant of its own.  *)
(***************************************************************************)
EXTENDS MCWorkGovernance, Sequences, FiniteSetTheorems, TLAPS

-----------------------------------------------------------------------------
(* WorkAdmission. *)

\* How far a call is: with admitted work, with its baseline, with a plan.
Planned == {"materialize", "start", "bind", "started", "collided", "cancel"}
Based == Planned \cup {"record"}
Admitted == Based \cup {"baseline", "insertBaseline", "turn", "plan", "planBaseline"}

Call == [pc : Admitted \cup {"check", "admit"}, n : 1..MaxEnters, intent : Intents,
         declared : Admission!DeclaredIds, rev : Nat, known : BOOLEAN]
SliceStates == {"ABSENT", "PLANNED", "ACTIVE", "DONE_CLAIMED", "REWORK_REQUIRED"}
Slice == [state : SliceStates, plan : Nat, rev : Nat]
PlanStates == {"NONE", "RECORDED", "ACTIVE", "CANCELLED"}
Answers == {"NONE", "EXISTING_WORK_CANDIDATE", "FAILED", "CRASHED", "NEW_WORK_ADMITTED", "EXISTING_WORK_BOUND",
            "CONCURRENT_WORK_REUSED"}

AdmissionType ==
    /\ entering \in [Sessions -> {Admission!Idle} \cup Call]
    /\ slices \in [Intents -> [Admission!DeclaredIds -> Slice]]
    /\ plans \in [1..MaxEnters -> PlanStates] /\ answers \in [1..MaxEnters -> Answers]
    /\ entered \in 0..MaxEnters

\* A call has a number of its own and no answer yet, and what it has done is there.
CallOK(s) ==
    LET c == entering[s]
        sl == slices[c.intent][c.declared]
    IN /\ c.n <= entered /\ answers[c.n] = "NONE"
       /\ \A t \in Sessions \ {s} : entering[t] # Admission!Idle => entering[t].n # c.n
       /\ c.declared = "INTENT" /\ c.known => c.pc = "check" /\ c.intent \in works
       /\ c.pc \in Admitted => c.intent \in works
       /\ c.pc \in Based => c.intent \in baselines
       /\ c.pc \notin Planned => plans[c.n] = "NONE"
       /\ plans[c.n] # "CANCELLED"
       /\ c.pc = "bind" => c.rev <= sl.rev /\ (c.rev = sl.rev => ~Admission!Taken(sl, c.n))

Calls == \A s \in Sessions : entering[s] # Admission!Idle => CallOK(s)

\* No call has the number yet.
Fresh == \A n \in 1..MaxEnters : n > entered => plans[n] = "NONE" /\ answers[n] = "NONE"

Answered ==
    \A n \in 1..MaxEnters :
        /\ answers[n] = "CONCURRENT_WORK_REUSED" => plans[n] = "CANCELLED"
        /\ answers[n] \in {"NEW_WORK_ADMITTED", "EXISTING_WORK_BOUND"} => plans[n] = "ACTIVE"

\* A Slice is bound to the plan of a call that has ended or has just bound it.
Bound ==
    \A i \in Intents, d \in Admission!DeclaredIds :
        LET p == slices[i][d].plan
        IN p # 0 =>
             /\ p \in 1..entered /\ plans[p] # "CANCELLED"
             /\ \A s \in Sessions : entering[s] # Admission!Idle /\ entering[s].n = p => entering[s].pc = "started"

AdmissionInv == AdmissionType /\ Calls /\ Fresh /\ Answered /\ Bound

LEMMA MaxEntersIsNat == MaxEnters \in Nat
BY GovernanceAssumption DEF Admission!AdmissionAssumption

LEMMA AdmissionInit == Admission!Init => AdmissionInv
<1> SUFFICES ASSUME Admission!Init PROVE AdmissionInv
  OBVIOUS
<1>1. Admission!NoSlice \in Slice
  BY DEF Slice, SliceStates, Admission!NoSlice
<1>2. AdmissionType
  BY <1>1, MaxEntersIsNat DEF Admission!Init, AdmissionType, PlanStates, Answers
<1> QED
  BY <1>1, <1>2 DEF Admission!Init, AdmissionInv, Calls, Fresh, Answered, Bound, Admission!NoSlice

\* A step of one call.  It may admit work and baselines, change its own plan and answer,
\* and bind a Slice; whatever becomes of a Slice, its revision tells.
LEMMA EnterCallStep ==
  ASSUME AdmissionInv, NEW s \in Sessions, entering[s] # Admission!Idle,
         NEW d \in {Admission!Idle} \cup Call, entering' = [entering EXCEPT ![s] = d],
         AdmissionType', entered' = entered,
         works \subseteq works', baselines \subseteq baselines',
         \A n \in 1..MaxEnters : n # entering[s].n => plans'[n] = plans[n] /\ answers'[n] = answers[n],
         d # Admission!Idle =>
            /\ d.n = entering[s].n /\ CallOK(s)',
         d = Admission!Idle => answers'[entering[s].n] # "NONE",
         answers'[entering[s].n] = "CONCURRENT_WORK_REUSED" => plans'[entering[s].n] = "CANCELLED",
         answers'[entering[s].n] \in {"NEW_WORK_ADMITTED", "EXISTING_WORK_BOUND"} => plans'[entering[s].n] = "ACTIVE",
         \A i \in Intents, x \in Admission!DeclaredIds :
            LET old == slices[i][x]
                new == slices'[i][x]
            IN /\ \/ new.plan = old.plan /\ new.rev = old.rev
                  \/ new.rev > old.rev /\ new.plan = entering[s].n
               /\ new.plan = entering[s].n =>
                     plans'[entering[s].n] # "CANCELLED" /\ (d # Admission!Idle => d.pc = "started")
  PROVE  AdmissionInv'
<1>1. entering[s] \in Call /\ CallOK(s) /\ entered \in Nat
  BY DEF AdmissionInv, AdmissionType, Calls
<1>2. entering'[s] = d /\ \A t \in Sessions \ {s} : entering'[t] = entering[t]
  BY DEF AdmissionInv, AdmissionType
<1>3. ASSUME NEW t \in Sessions \ {s}, entering[t] # Admission!Idle
      PROVE  CallOK(t)'
  <2>1. CallOK(t) /\ entering[t] \in Call /\ entering[t].n # entering[s].n
    BY <1>1, <1>3 DEF AdmissionInv, AdmissionType, Calls, CallOK
  <2>2. plans'[entering[t].n] = plans[entering[t].n] /\ answers'[entering[t].n] = answers[entering[t].n]
    BY <2>1 DEF Call
  <2> DEFINE old == slices[entering[t].intent][entering[t].declared]
             new == slices'[entering[t].intent][entering[t].declared]
  <2>3. old \in Slice /\ new \in Slice
    BY <2>1 DEF Call, AdmissionInv, AdmissionType
  <2>4. (new.plan = old.plan /\ new.rev = old.rev) \/ new.rev > old.rev
    BY <2>1 DEF Call
  <2>5. entering[t].pc = "bind" => entering[t].rev <= new.rev /\ (entering[t].rev = new.rev => ~Admission!Taken(new, entering[t].n))
    <3> HIDE DEF new
    <3>1. entering[t].pc = "bind" => entering[t].rev <= old.rev /\ (entering[t].rev = old.rev => ~Admission!Taken(old, entering[t].n))
      BY <2>1 DEF CallOK
    <3> HIDE DEF old
    <3>2. entering[t].rev \in Nat /\ old.rev \in Nat /\ new.rev \in Nat
      BY <2>1, <2>3 DEF Call, Slice
    <3> QED
      BY <2>4, <3>1, <3>2 DEF Admission!Taken
  <2>6. \A u \in Sessions \ {t} : entering'[u] # Admission!Idle => entering'[u].n # entering[t].n
    BY <1>2, <2>1 DEF CallOK
  <2> QED
    BY <1>2, <2>1, <2>2, <2>5, <2>6 DEF CallOK
<1>4. Calls'
  BY <1>2, <1>3 DEF Calls
<1>5. Fresh'
  BY <1>1 DEF AdmissionInv, Fresh, CallOK, Call
<1>6. Answered'
  BY DEF AdmissionInv, Answered
<1>7. Bound'
  <2> SUFFICES ASSUME NEW i \in Intents, NEW x \in Admission!DeclaredIds, slices'[i][x].plan # 0
               PROVE  LET p == slices'[i][x].plan
                      IN /\ p \in 1..entered /\ plans'[p] # "CANCELLED"
                         /\ \A t \in Sessions : entering'[t] # Admission!Idle /\ entering'[t].n = p => entering'[t].pc = "started"
    BY DEF Bound
  <2>1. CASE slices'[i][x].plan = entering[s].n
    <3>1. entering[s].n \in 1..entered
      BY <1>1 DEF CallOK, Call
    <3>2. plans'[entering[s].n] # "CANCELLED" /\ (d # Admission!Idle => d.pc = "started")
      BY <2>1
    <3>3. \A t \in Sessions \ {s} : entering[t] # Admission!Idle => entering[t].n # entering[s].n
      BY <1>1 DEF CallOK
    <3> QED
      BY <1>2, <2>1, <3>1, <3>2, <3>3
  <2>2. CASE slices'[i][x].plan # entering[s].n
    <3>1. slices'[i][x].plan = slices[i][x].plan
      BY <2>2
    <3>2. /\ slices[i][x].plan \in 1..entered /\ plans[slices[i][x].plan] # "CANCELLED"
          /\ \A t \in Sessions : entering[t] # Admission!Idle /\ entering[t].n = slices[i][x].plan => entering[t].pc = "started"
      BY <3>1 DEF AdmissionInv, Bound
    <3>3. slices[i][x].plan \in 1..MaxEnters
      BY <1>1, <3>2, MaxEntersIsNat DEF AdmissionInv, AdmissionType
    <3>4. plans'[slices[i][x].plan] = plans[slices[i][x].plan]
      BY <2>2, <3>1, <3>3
    <3> QED
      BY <1>2, <2>2, <3>1, <3>2, <3>4
  <2> QED
    BY <2>1, <2>2
<1> QED
  BY <1>4, <1>5, <1>6, <1>7 DEF AdmissionInv

Pcs == Admitted \cup {"check", "admit"}

LEMMA CallGoes ==
  ASSUME AdmissionInv, NEW s \in Sessions, entering[s] # Admission!Idle, NEW pc \in Pcs, Admission!Goto(s, pc)
  PROVE  \E d \in Call :
           /\ entering' = [entering EXCEPT ![s] = d]
           /\ d.pc = pc /\ d.n = entering[s].n /\ d.intent = entering[s].intent
           /\ d.declared = entering[s].declared /\ d.rev = entering[s].rev /\ (d.known <=> entering[s].known)
<1>1. PICK c \in Call : c = entering[s]
  BY DEF AdmissionInv, AdmissionType
<1>2. PICK d : d = [c EXCEPT !.pc = pc]
  OBVIOUS
<1>3. d \in Call
  BY <1>1, <1>2 DEF Call, Pcs
<1>4. d.pc = pc /\ d.n = c.n /\ d.intent = c.intent /\ d.declared = c.declared /\ d.rev = c.rev /\ (d.known <=> c.known)
  BY <1>1, <1>2 DEF Call
<1>5. entering' = [entering EXCEPT ![s] = d]
  BY <1>1, <1>2, Zenon DEF Admission!Goto
<1> QED
  BY <1>1, <1>3, <1>4, <1>5, Zenon

\* A Slice bound to the plan of a call that goes on has just been bound.
LEMMA NotYetBound ==
  ASSUME AdmissionInv, NEW s \in Sessions, entering[s] # Admission!Idle, entering[s].pc # "started",
         NEW i \in Intents, NEW x \in Admission!DeclaredIds
  PROVE  slices[i][x].plan # entering[s].n
<1>1. entering[s].n # 0
  BY DEF AdmissionInv, AdmissionType, Call
<1> QED
  BY <1>1 DEF AdmissionInv, Bound

LEMMA EnterGotoStep ==
  ASSUME AdmissionInv, NEW s \in Sessions, entering[s] # Admission!Idle, NEW pc \in Pcs \ {"check", "bind"},
         Admission!Goto(s, pc), entered' = entered, answers' = answers,
         entering[s].pc # "started", pc # "started",
         works \subseteq works', baselines \subseteq baselines',
         plans' = plans \/ plans' = [plans EXCEPT ![entering[s].n] = "RECORDED"],
         slices' \in [Intents -> [Admission!DeclaredIds -> Slice]],
         \A i \in Intents, x \in Admission!DeclaredIds :
            slices'[i][x].plan = slices[i][x].plan /\ slices'[i][x].rev = slices[i][x].rev,
         ~(entering[s].declared = "INTENT" /\ entering[s].known),
         pc \in Admitted => entering[s].intent \in works',
         pc \in Based => entering[s].intent \in baselines',
         pc \notin Planned => plans'[entering[s].n] = "NONE"
  PROVE  AdmissionInv'
<1>1. PICK d \in Call :
        /\ entering' = [entering EXCEPT ![s] = d]
        /\ d.pc = pc /\ d.n = entering[s].n /\ d.intent = entering[s].intent
        /\ d.declared = entering[s].declared /\ d.rev = entering[s].rev /\ (d.known <=> entering[s].known)
  BY CallGoes
<1>2. AdmissionType'
  BY <1>1 DEF AdmissionInv, AdmissionType, PlanStates
<1>3. entering[s] \in Call /\ CallOK(s)
  BY DEF AdmissionInv, AdmissionType, Calls
<1>4. entering'[s] = d /\ \A t \in Sessions \ {s} : entering'[t] = entering[t]
  BY <1>1 DEF AdmissionInv, AdmissionType
<1>5. CallOK(s)'
  <2>1. plans'[entering[s].n] # "CANCELLED"
    BY <1>3 DEF AdmissionInv, AdmissionType, CallOK, Call
  <2> QED
    BY <1>1, <1>3, <1>4, <2>1 DEF CallOK
<1>6. \A n \in 1..MaxEnters : n # entering[s].n => plans'[n] = plans[n]
  BY DEF AdmissionInv, AdmissionType
<1>7. answers'[entering[s].n] = "NONE"
  BY <1>3 DEF CallOK
<1>8. d # Admission!Idle
  BY <1>1 DEF Pcs, Admitted, Based, Planned, Admission!Idle
<1>9. \A i \in Intents, x \in Admission!DeclaredIds : slices'[i][x].plan # entering[s].n
  BY NotYetBound
<1>10. answers'[entering[s].n] # "CONCURRENT_WORK_REUSED"
       /\ answers'[entering[s].n] \notin {"NEW_WORK_ADMITTED", "EXISTING_WORK_BOUND"}
  BY <1>7
<1>11. /\ \A n \in 1..MaxEnters : n # entering[s].n => plans'[n] = plans[n] /\ answers'[n] = answers[n]
       /\ d # Admission!Idle => d.n = entering[s].n /\ CallOK(s)'
  BY <1>1, <1>5, <1>6
<1>12. \A i \in Intents, x \in Admission!DeclaredIds :
         LET old == slices[i][x]
             new == slices'[i][x]
         IN /\ \/ new.plan = old.plan /\ new.rev = old.rev
               \/ new.rev > old.rev /\ new.plan = entering[s].n
            /\ new.plan = entering[s].n =>
                  plans'[entering[s].n] # "CANCELLED" /\ (d # Admission!Idle => d.pc = "started")
  BY <1>9
<1>13. d \in {Admission!Idle} \cup Call
  OBVIOUS
<1>14. d = Admission!Idle => answers'[entering[s].n] # "NONE"
  BY <1>8
<1>15. /\ answers'[entering[s].n] = "CONCURRENT_WORK_REUSED" => plans'[entering[s].n] = "CANCELLED"
       /\ answers'[entering[s].n] \in {"NEW_WORK_ADMITTED", "EXISTING_WORK_BOUND"} => plans'[entering[s].n] = "ACTIVE"
  BY <1>10
<1> QED
  BY <1>1, <1>2, <1>11, <1>12, <1>13, <1>14, <1>15, EnterCallStep, Zenon

\* A call that goes on after a step of its own that leaves the Slices as they are ...
LEMMA CallGoesOn ==
  ASSUME AdmissionInv, NEW s \in Sessions, entering[s] # Admission!Idle,
         NEW d \in Call, entering' = [entering EXCEPT ![s] = d], d # Admission!Idle,
         AdmissionType', entered' = entered, UNCHANGED <<works, baselines>>,
         \A n \in 1..MaxEnters : n # entering[s].n => plans'[n] = plans[n] /\ answers'[n] = answers[n],
         d.n = entering[s].n, CallOK(s)', answers'[entering[s].n] = "NONE",
         \A i \in Intents, x \in Admission!DeclaredIds : UNCHANGED <<slices[i][x].plan, slices[i][x].rev>>,
         \A i \in Intents, x \in Admission!DeclaredIds : slices[i][x].plan # entering[s].n
  PROVE  AdmissionInv'
<1>1. \A i \in Intents, x \in Admission!DeclaredIds :
         LET old == slices[i][x]
             new == slices'[i][x]
         IN /\ \/ new.plan = old.plan /\ new.rev = old.rev
               \/ new.rev > old.rev /\ new.plan = entering[s].n
            /\ new.plan = entering[s].n =>
                  plans'[entering[s].n] # "CANCELLED" /\ (d # Admission!Idle => d.pc = "started")
  OBVIOUS
<1>2. /\ d \in {Admission!Idle} \cup Call /\ works \subseteq works' /\ baselines \subseteq baselines'
      /\ d # Admission!Idle => d.n = entering[s].n /\ CallOK(s)'
      /\ d = Admission!Idle => answers'[entering[s].n] # "NONE"
      /\ answers'[entering[s].n] = "CONCURRENT_WORK_REUSED" => plans'[entering[s].n] = "CANCELLED"
      /\ answers'[entering[s].n] \in {"NEW_WORK_ADMITTED", "EXISTING_WORK_BOUND"} => plans'[entering[s].n] = "ACTIVE"
  OBVIOUS
<1> QED
  BY <1>1, <1>2, EnterCallStep, Zenon

\* ... or binds one.
LEMMA CallBinds ==
  ASSUME AdmissionInv, NEW s \in Sessions, entering[s] # Admission!Idle,
         NEW d \in Call, entering' = [entering EXCEPT ![s] = d], d # Admission!Idle, d.pc = "started",
         AdmissionType', entered' = entered, UNCHANGED <<works, baselines>>,
         \A n \in 1..MaxEnters : n # entering[s].n => plans'[n] = plans[n] /\ answers'[n] = answers[n],
         d.n = entering[s].n, CallOK(s)', answers'[entering[s].n] = "NONE", plans'[entering[s].n] # "CANCELLED",
         \A i \in Intents, x \in Admission!DeclaredIds :
           \/ UNCHANGED <<slices[i][x].plan, slices[i][x].rev>>
           \/ slices'[i][x].rev > slices[i][x].rev /\ slices'[i][x].plan = entering[s].n
  PROVE  AdmissionInv'
<1>1. \A i \in Intents, x \in Admission!DeclaredIds :
         LET old == slices[i][x]
             new == slices'[i][x]
         IN /\ \/ new.plan = old.plan /\ new.rev = old.rev
               \/ new.rev > old.rev /\ new.plan = entering[s].n
            /\ new.plan = entering[s].n =>
                  plans'[entering[s].n] # "CANCELLED" /\ (d # Admission!Idle => d.pc = "started")
  OBVIOUS
<1>2. /\ d \in {Admission!Idle} \cup Call /\ works \subseteq works' /\ baselines \subseteq baselines'
      /\ d # Admission!Idle => d.n = entering[s].n /\ CallOK(s)'
      /\ d = Admission!Idle => answers'[entering[s].n] # "NONE"
      /\ answers'[entering[s].n] = "CONCURRENT_WORK_REUSED" => plans'[entering[s].n] = "CANCELLED"
      /\ answers'[entering[s].n] \in {"NEW_WORK_ADMITTED", "EXISTING_WORK_BOUND"} => plans'[entering[s].n] = "ACTIVE"
  OBVIOUS
<1> QED
  BY <1>1, <1>2, EnterCallStep, Zenon

LEMMA AnswerStep ==
  ASSUME AdmissionInv, NEW s \in Sessions, entering[s] # Admission!Idle, NEW a \in Answers \ {"NONE"},
         Admission!Answer(s, a), entered' = entered, UNCHANGED <<works, slices>>, baselines \subseteq baselines',
         NEW p \in PlanStates, plans' = plans \/ plans' = [plans EXCEPT ![entering[s].n] = p],
         p = "CANCELLED" => entering[s].pc # "started",
         a = "CONCURRENT_WORK_REUSED" => plans'[entering[s].n] = "CANCELLED",
         a \in {"NEW_WORK_ADMITTED", "EXISTING_WORK_BOUND"} => plans'[entering[s].n] = "ACTIVE"
  PROVE  AdmissionInv'
<1>1. entering' = [entering EXCEPT ![s] = Admission!Idle] /\ answers' = [answers EXCEPT ![entering[s].n] = a]
  BY DEF Admission!Answer
<1>2. entering[s] \in Call /\ CallOK(s) /\ entering[s].n \in 1..MaxEnters
  BY DEF AdmissionInv, AdmissionType, Calls, Call
<1>3. AdmissionType'
  BY <1>1, <1>2 DEF AdmissionInv, AdmissionType
<1>4. \A n \in 1..MaxEnters : n # entering[s].n => plans'[n] = plans[n] /\ answers'[n] = answers[n]
  BY <1>1, <1>2 DEF AdmissionInv, AdmissionType
<1>5. answers'[entering[s].n] = a
  BY <1>1, <1>2 DEF AdmissionInv, AdmissionType
<1>6. ASSUME NEW i \in Intents, NEW x \in Admission!DeclaredIds, slices[i][x].plan = entering[s].n
      PROVE  plans'[entering[s].n] # "CANCELLED"
  <2>1. entering[s].pc = "started"
    BY <1>6, NotYetBound
  <2>2. plans[entering[s].n] # "CANCELLED"
    <3>1. entering[s].n # 0
      BY <1>2
    <3> QED
      BY <1>6, <3>1 DEF AdmissionInv, Bound
  <2> QED
    BY <1>2, <2>1, <2>2 DEF AdmissionInv, AdmissionType
<1> QED
  BY <1>1, <1>3, <1>4, <1>5, <1>6, EnterCallStep

LEMMA FailStep ==
  ASSUME AdmissionInv, NEW s \in Sessions, entering[s] # Admission!Idle, NEW a \in {"EXISTING_WORK_CANDIDATE", "FAILED", "CRASHED"},
         Admission!Answer(s, a), UNCHANGED <<entered, works, baselines, plans, slices>>
  PROVE  AdmissionInv'
<1>1. a \in Answers \ {"NONE"} /\ "NONE" \in PlanStates
  BY DEF Answers, PlanStates
<1> QED
  BY <1>1, AnswerStep

\* What is known of a call that is past the candidate check.
LEMMA Entered ==
  ASSUME AdmissionInv, NEW s \in Sessions, entering[s].pc \in Pcs
  PROVE  /\ entering[s] # Admission!Idle /\ entering[s] \in Call /\ CallOK(s)
         /\ slices \in [Intents -> [Admission!DeclaredIds -> Slice]]
         /\ entering[s].pc # "check" => ~(entering[s].declared = "INTENT" /\ entering[s].known)
<1>1. entering[s] # Admission!Idle
  BY DEF Pcs, Admitted, Based, Planned, Admission!Idle
<1>2. entering[s] \in Call /\ CallOK(s) /\ slices \in [Intents -> [Admission!DeclaredIds -> Slice]]
  BY <1>1 DEF AdmissionInv, AdmissionType, Calls
<1> QED
  BY <1>1, <1>2 DEF CallOK

LEMMA BeginCallStep ==
  ASSUME AdmissionInv, NEW s \in Sessions, NEW i \in Intents,
         Admission!EnterPrompt(s, i) \/ Admission!EnterReference(s, i)
  PROVE  AdmissionInv'
<1>1. PICK pc \in {"check", "turn"}, declared \in Admission!DeclaredIds :
        /\ Admission!Begin(s, i, pc, declared)
        /\ declared = "INTENT" => pc = "check"
        /\ pc = "turn" => i \in works
  BY DEF Admission!EnterPrompt, Admission!EnterReference, Admission!DeclaredIds
<1>2. UNCHANGED <<works, baselines, plans, slices, answers>>
  BY DEF Admission!EnterPrompt, Admission!EnterReference, Admission!Begin, Admission!docs
<1>3. (i \in works) \in BOOLEAN
  BY SMT
<1>4. PICK d : d = [pc |-> pc, n |-> entered + 1, intent |-> i, declared |-> declared, rev |-> 0, known |-> i \in works]
  OBVIOUS
<1>5. /\ d.pc = pc /\ d.n = entered + 1 /\ d.intent = i /\ d.declared = declared /\ d.rev = 0
      /\ (d.known <=> i \in works)
  BY <1>4, Zenon
<1>6. entered \in Nat /\ entered < MaxEnters /\ entered' = entered + 1 /\ entered + 1 \in 1..MaxEnters
  BY <1>1, MaxEntersIsNat DEF Admission!Begin, AdmissionInv, AdmissionType
<1>7. d \in Call
  BY <1>3, <1>4, <1>6 DEF Call, Admitted, Based, Planned
<1>8. entering' = [entering EXCEPT ![s] = d] /\ entering[s] = Admission!Idle
  BY <1>1, <1>3, <1>4, Zenon DEF Admission!Begin
<1>9. entering'[s] = d /\ \A t \in Sessions \ {s} : entering'[t] = entering[t]
  BY <1>8 DEF AdmissionInv, AdmissionType
<1>10. AdmissionType'
  BY <1>2, <1>6, <1>7, <1>8, MaxEntersIsNat DEF AdmissionInv, AdmissionType
<1>11. plans[entered + 1] = "NONE" /\ answers[entered + 1] = "NONE"
  BY <1>6 DEF AdmissionInv, Fresh
<1>12. ASSUME NEW t \in Sessions, entering'[t] # Admission!Idle
       PROVE  CallOK(t)'
  <2>1. CASE t = s
    <3>1. \A u \in Sessions \ {s} : entering[u] # Admission!Idle => entering[u].n # entered + 1
      BY <1>6 DEF AdmissionInv, AdmissionType, Calls, CallOK, Call
    <3>2. /\ d.n <= entered' /\ answers'[d.n] = "NONE" /\ plans'[d.n] = "NONE" /\ d.pc \notin Based /\ d.pc # "bind"
          /\ d.pc \in Admitted => d.intent \in works'
          /\ d.declared = "INTENT" /\ d.known => d.pc = "check" /\ d.intent \in works'
      BY <1>1, <1>2, <1>5, <1>6, <1>11 DEF Admitted, Based, Planned
    <3> QED
      BY <1>5, <1>9, <2>1, <3>1, <3>2 DEF CallOK
  <2>2. CASE t # s
    <3>1. CallOK(t) /\ entering[t] \in Call /\ entering'[t] = entering[t]
      BY <1>9, <1>12, <2>2 DEF AdmissionInv, AdmissionType, Calls
    <3>2. entering[t].n # entered + 1 /\ entering[t].n <= entered + 1
      BY <1>6, <3>1 DEF CallOK, Call
    <3> QED
      BY <1>2, <1>5, <1>6, <1>8, <1>9, <3>1, <3>2 DEF CallOK
  <2> QED
    BY <2>1, <2>2
<1>13. Calls' /\ Fresh' /\ Answered'
  BY <1>2, <1>6, <1>12 DEF AdmissionInv, Calls, Fresh, Answered
<1>14. Bound'
  <2> SUFFICES ASSUME NEW j \in Intents, NEW x \in Admission!DeclaredIds, slices[j][x].plan # 0
               PROVE  LET p == slices[j][x].plan
                      IN /\ p \in 1..entered + 1 /\ plans[p] # "CANCELLED"
                         /\ \A t \in Sessions : entering'[t] # Admission!Idle /\ entering'[t].n = p => entering'[t].pc = "started"
    BY <1>2, <1>6 DEF Bound
  <2>1. /\ slices[j][x].plan \in 1..entered /\ plans[slices[j][x].plan] # "CANCELLED"
        /\ \A t \in Sessions : entering[t] # Admission!Idle /\ entering[t].n = slices[j][x].plan => entering[t].pc = "started"
    BY DEF AdmissionInv, Bound
  <2> QED
    BY <1>5, <1>6, <1>9, <2>1
<1> QED
  BY <1>10, <1>13, <1>14 DEF AdmissionInv

LEMMA CheckCandidateStep ==
  ASSUME AdmissionInv, NEW s \in Sessions, Admission!CheckCandidate(s)
  PROVE  AdmissionInv'
<1>1. /\ entering[s] # Admission!Idle /\ entering[s] \in Call /\ CallOK(s) /\ entering[s].pc = "check"
      /\ slices \in [Intents -> [Admission!DeclaredIds -> Slice]]
      /\ UNCHANGED <<works, baselines, plans, slices, entered>>
  BY Entered DEF Admission!CheckCandidate, Pcs
<1>2. CASE Admission!Answer(s, "EXISTING_WORK_CANDIDATE")
  BY <1>1, <1>2, FailStep
<1>3. CASE Admission!Goto(s, "admit") /\ answers' = answers /\ ~Admission!Candidate(entering[s].intent)
  <2>1. ~(entering[s].declared = "INTENT" /\ entering[s].known)
    BY <1>1, <1>3 DEF CallOK, Admission!Candidate
  <2>2. plans[entering[s].n] = "NONE"
    BY <1>1 DEF CallOK, Planned
  <2> QED
    BY <1>1, <1>3, <2>1, <2>2, EnterGotoStep DEF Pcs, Admitted, Based, Planned
<1> QED
  BY <1>2, <1>3 DEF Admission!CheckCandidate

LEMMA AdmitWorkStep ==
  ASSUME AdmissionInv, NEW s \in Sessions, Admission!AdmitWork(s)
  PROVE  AdmissionInv'
<1>1. /\ entering[s] # Admission!Idle /\ CallOK(s) /\ entering[s].pc = "admit"
      /\ slices \in [Intents -> [Admission!DeclaredIds -> Slice]]
      /\ ~(entering[s].declared = "INTENT" /\ entering[s].known)
      /\ UNCHANGED <<baselines, plans, slices, entered, answers>>
  BY Entered DEF Admission!AdmitWork, Pcs
<1>2. PICK pc \in {"turn", "baseline"} : Admission!Goto(s, pc)
  BY DEF Admission!AdmitWork
<1>3. entering[s].intent \in works' /\ works \subseteq works'
  BY DEF Admission!AdmitWork
<1>4. plans[entering[s].n] = "NONE"
  BY <1>1 DEF CallOK, Planned
<1> QED
  BY <1>1, <1>2, <1>3, <1>4, EnterGotoStep DEF Pcs, Admitted, Based, Planned

LEMMA FindBaselineStep ==
  ASSUME AdmissionInv, NEW s \in Sessions,
         \/ Admission!FindBaseline(s, "baseline", "insertBaseline", "turn")
         \/ Admission!FindBaseline(s, "plan", "planBaseline", "record")
  PROVE  AdmissionInv'
<1>1. /\ entering[s] # Admission!Idle /\ CallOK(s) /\ entering[s].pc \in {"baseline", "plan"}
      /\ slices \in [Intents -> [Admission!DeclaredIds -> Slice]]
      /\ ~(entering[s].declared = "INTENT" /\ entering[s].known)
      /\ UNCHANGED <<works, baselines, plans, slices, entered, answers>>
  BY Entered DEF Admission!FindBaseline, Pcs, Admitted, Admission!docs
<1>2. PICK pc \in {"insertBaseline", "turn", "planBaseline", "record"} :
        Admission!Goto(s, pc) /\ (pc = "record" => entering[s].intent \in baselines)
  BY DEF Admission!FindBaseline
<1>3. plans[entering[s].n] = "NONE" /\ entering[s].intent \in works
  BY <1>1 DEF CallOK, Planned, Admitted
<1> QED
  BY <1>1, <1>2, <1>3, EnterGotoStep DEF Pcs, Admitted, Based, Planned

LEMMA InsertBaselineStep ==
  ASSUME AdmissionInv, NEW s \in Sessions,
         Admission!InsertBaseline(s, "insertBaseline", "turn") \/ Admission!InsertBaseline(s, "planBaseline", "record")
  PROVE  AdmissionInv'
<1>1. /\ entering[s] # Admission!Idle /\ CallOK(s) /\ entering[s].pc \in {"insertBaseline", "planBaseline"}
      /\ slices \in [Intents -> [Admission!DeclaredIds -> Slice]]
      /\ ~(entering[s].declared = "INTENT" /\ entering[s].known)
      /\ UNCHANGED <<works, plans, slices, entered>>
  BY Entered DEF Admission!InsertBaseline, Pcs, Admitted, Admission!docs
<1>2. CASE Admission!Fail(s) /\ UNCHANGED baselines
  BY <1>1, <1>2, FailStep DEF Admission!Fail
<1>3. CASE ~(Admission!Fail(s) /\ UNCHANGED baselines)
  <2>1. PICK pc \in {"turn", "record"} : Admission!Goto(s, pc)
    BY <1>3 DEF Admission!InsertBaseline
  <2>2. entering[s].intent \in baselines' /\ baselines \subseteq baselines' /\ answers' = answers
    BY <1>3 DEF Admission!InsertBaseline
  <2>3. plans[entering[s].n] = "NONE" /\ entering[s].intent \in works
    BY <1>1 DEF CallOK, Planned, Admitted
  <2> QED
    BY <1>1, <2>1, <2>2, <2>3, EnterGotoStep DEF Pcs, Admitted, Based, Planned
<1> QED
  BY <1>2, <1>3

LEMMA PlanSteps ==
  ASSUME AdmissionInv, NEW s \in Sessions, Admission!BindTurn(s) \/ Admission!RecordPlan(s)
  PROVE  AdmissionInv'
<1>1. /\ entering[s] # Admission!Idle /\ CallOK(s) /\ entering[s].pc \in {"turn", "record"}
      /\ slices \in [Intents -> [Admission!DeclaredIds -> Slice]]
      /\ ~(entering[s].declared = "INTENT" /\ entering[s].known)
      /\ UNCHANGED <<works, baselines, slices, entered, answers>>
  BY Entered DEF Admission!BindTurn, Admission!RecordPlan, Pcs, Admitted, Based
<1>2. entering[s].intent \in works /\ (entering[s].pc = "record" => entering[s].intent \in baselines)
  BY <1>1 DEF CallOK, Admitted, Based
<1>3. plans[entering[s].n] = "NONE"
  BY <1>1 DEF CallOK, Planned
<1>4. CASE Admission!BindTurn(s)
  BY <1>1, <1>2, <1>3, <1>4, EnterGotoStep DEF Admission!BindTurn, Pcs, Admitted, Based, Planned
<1>5. CASE Admission!RecordPlan(s)
  BY <1>1, <1>2, <1>5, EnterGotoStep DEF Admission!RecordPlan, Pcs, Admitted, Based, Planned
<1> QED
  BY <1>4, <1>5

\* A Slice is put in its place.
LEMMA SlicePut ==
  ASSUME slices \in [Intents -> [Admission!DeclaredIds -> Slice]], NEW i \in Intents, NEW d \in Admission!DeclaredIds,
         NEW sl \in Slice, slices' = [slices EXCEPT ![i][d] = sl]
  PROVE  /\ slices' \in [Intents -> [Admission!DeclaredIds -> Slice]]
         /\ slices'[i][d] = sl
         /\ \A j \in Intents, x \in Admission!DeclaredIds : j # i \/ x # d => slices'[j][x] = slices[j][x]
OBVIOUS

LEMMA MaterializeStep ==
  ASSUME AdmissionInv, NEW s \in Sessions, Admission!Materialize(s)
  PROVE  AdmissionInv'
<1>1. /\ entering[s] # Admission!Idle /\ CallOK(s) /\ entering[s].pc = "materialize" /\ entering[s] \in Call
      /\ slices \in [Intents -> [Admission!DeclaredIds -> Slice]]
      /\ ~(entering[s].declared = "INTENT" /\ entering[s].known)
      /\ Admission!Goto(s, "start")
      /\ UNCHANGED <<works, baselines, plans, entered, answers>>
  BY Entered DEF Admission!Materialize, Pcs, Admitted, Based, Planned
<1>2. PICK i \in Intents : i = entering[s].intent
  BY <1>1 DEF Call
<1>3. PICK d \in Admission!DeclaredIds : d = entering[s].declared
  BY <1>1 DEF Call
<1>4. PICK sl : sl = Admission!Materialized(slices[i][d])
  OBVIOUS
<1>5. sl \in Slice /\ sl.plan = slices[i][d].plan /\ sl.rev = slices[i][d].rev
  BY <1>1, <1>4 DEF Admission!Materialized, Admission!NoSlice, Slice, SliceStates
<1>6. slices' = [slices EXCEPT ![i][d] = sl]
  BY <1>2, <1>3, <1>4 DEF Admission!Materialize, Admission!PutSlice, Admission!Slice
<1>7. /\ slices' \in [Intents -> [Admission!DeclaredIds -> Slice]]
      /\ \A j \in Intents, x \in Admission!DeclaredIds :
            slices'[j][x].plan = slices[j][x].plan /\ slices'[j][x].rev = slices[j][x].rev
  BY <1>1, <1>5, <1>6, SlicePut
<1>8. entering[s].intent \in works /\ entering[s].intent \in baselines
  BY <1>1 DEF CallOK, Admitted, Based, Planned
<1> QED
  BY <1>1, <1>7, <1>8, EnterGotoStep DEF Pcs, Admitted, Based, Planned

LEMMA CheckSliceStep ==
  ASSUME AdmissionInv, NEW s \in Sessions, Admission!CheckSlice(s)
  PROVE  AdmissionInv'
<1>1. PICK c \in Call : c = entering[s]
  BY Entered DEF Admission!CheckSlice, Pcs, Admitted, Based, Planned
<1>2. /\ entering[s] # Admission!Idle /\ CallOK(s) /\ c.pc = "start"
      /\ slices \in [Intents -> [Admission!DeclaredIds -> Slice]]
      /\ ~(c.declared = "INTENT" /\ c.known)
      /\ UNCHANGED <<works, baselines, plans, slices, entered>>
  BY <1>1, Entered DEF Admission!CheckSlice, Pcs, Admitted, Based, Planned, Admission!docs
<1>3. c.intent \in works /\ c.intent \in baselines
  BY <1>1, <1>2 DEF CallOK, Admitted, Based, Planned
<1>4. CASE Admission!Goto(s, "collided") /\ answers' = answers
  BY <1>1, <1>2, <1>3, <1>4, EnterGotoStep DEF Pcs, Admitted, Based, Planned
<1>5. CASE Admission!Fail(s)
  BY <1>2, <1>5, FailStep DEF Admission!Fail
<1>6. CASE /\ ~Admission!Taken(Admission!Slice(s), c.n)
           /\ entering' = [entering EXCEPT ![s] = [@ EXCEPT !.pc = "bind", !.rev = Admission!Slice(s).rev]]
           /\ answers' = answers
  <2>1. PICK sl \in Slice : sl = slices[c.intent][c.declared]
    BY <1>2 DEF Call
  <2>2. Admission!Slice(s) = sl
    BY <1>1, <2>1 DEF Admission!Slice
  <2>3. PICK d : d = [c EXCEPT !.pc = "bind", !.rev = sl.rev]
    OBVIOUS
  <2>4. d \in Call
    BY <2>1, <2>3 DEF Call, Slice, Admitted, Based, Planned
  <2>5. d.pc = "bind" /\ d.n = c.n /\ d.intent = c.intent /\ d.declared = c.declared /\ d.rev = sl.rev /\ (d.known <=> c.known)
    BY <2>1, <2>3 DEF Call
  <2>6. entering' = [entering EXCEPT ![s] = d]
    BY <1>1, <1>6, <2>2, <2>3, Zenon
  <2>7. AdmissionType'
    BY <1>2, <1>6, <2>4, <2>6 DEF AdmissionInv, AdmissionType
  <2>8. entering'[s] = d /\ \A t \in Sessions \ {s} : entering'[t] = entering[t]
    BY <2>6 DEF AdmissionInv, AdmissionType
  <2>9. sl.rev \in Nat
    BY <2>1 DEF Slice
  <2>10. CallOK(s)'
    BY <1>1, <1>2, <1>3, <1>6, <2>1, <2>2, <2>5, <2>8, <2>9 DEF CallOK, Planned
  <2>11. \A i \in Intents, x \in Admission!DeclaredIds : slices[i][x].plan # entering[s].n
    BY <1>1, <1>2, NotYetBound
  <2>12. answers'[entering[s].n] = "NONE" /\ d # Admission!Idle
    BY <1>2, <1>6, <2>5 DEF CallOK, Admission!Idle
  <2>13. \A n \in 1..MaxEnters : n # entering[s].n => plans'[n] = plans[n] /\ answers'[n] = answers[n]
    BY <1>2, <1>6
  <2>14. d.n = entering[s].n
    BY <1>1, <2>5
  <2>15. \A i \in Intents, x \in Admission!DeclaredIds : UNCHANGED <<slices[i][x].plan, slices[i][x].rev>>
    BY <1>2
  <2> QED
    BY <1>2, <2>4, <2>6, <2>7, <2>10, <2>11, <2>12, <2>13, <2>14, <2>15, CallGoesOn
<1> QED
  BY <1>1, <1>4, <1>5, <1>6 DEF Admission!CheckSlice

\* The compare-and-set meets a Slice that is not bound to the plan of another call.
LEMMA BindSliceStep ==
  ASSUME AdmissionInv, NEW s \in Sessions, Admission!BindSlice(s)
  PROVE  AdmissionInv'
<1>1. PICK c \in Call : c = entering[s]
  BY Entered DEF Admission!BindSlice, Pcs, Admitted, Based, Planned
<1>2. /\ entering[s] # Admission!Idle /\ CallOK(s) /\ c.pc = "bind"
      /\ slices \in [Intents -> [Admission!DeclaredIds -> Slice]]
      /\ ~(c.declared = "INTENT" /\ c.known)
      /\ UNCHANGED <<works, baselines, plans, entered, answers>>
  BY <1>1, Entered DEF Admission!BindSlice, Pcs, Admitted, Based, Planned
<1>3. c.intent \in works /\ c.intent \in baselines
  BY <1>1, <1>2 DEF CallOK, Admitted, Based, Planned
<1>4. CASE Admission!Goto(s, "collided") /\ UNCHANGED slices
  BY <1>1, <1>2, <1>3, <1>4, EnterGotoStep DEF Pcs, Admitted, Based, Planned
<1>5. CASE /\ Admission!PutSlice(s, [state |-> "ACTIVE", plan |-> c.n, rev |-> Admission!Slice(s).rev + 1])
           /\ Admission!Goto(s, "started")
  <2>1. PICK i \in Intents : i = c.intent
    BY DEF Call
  <2>2. PICK x \in Admission!DeclaredIds : x = c.declared
    BY DEF Call
  <2>3. PICK sl : sl = [state |-> "ACTIVE", plan |-> c.n, rev |-> slices[i][x].rev + 1]
    OBVIOUS
  <2>4. slices[i][x].rev \in Nat /\ c.n \in Nat /\ c.n # 0
    BY <1>2 DEF Slice, Call
  <2>5. sl \in Slice /\ sl.plan = c.n /\ sl.rev = slices[i][x].rev + 1 /\ sl.rev > slices[i][x].rev
    BY <2>3, <2>4 DEF Slice, SliceStates
  <2>6. slices' = [slices EXCEPT ![i][x] = sl]
    BY <1>1, <1>5, <2>1, <2>2, <2>3 DEF Admission!PutSlice, Admission!Slice
  <2>7. /\ slices' \in [Intents -> [Admission!DeclaredIds -> Slice]]
        /\ slices'[i][x] = sl
        /\ \A j \in Intents, y \in Admission!DeclaredIds : j # i \/ y # x => slices'[j][y] = slices[j][y]
    BY <1>2, <2>5, <2>6, SlicePut
  <2>8. PICK d \in Call :
          /\ entering' = [entering EXCEPT ![s] = d]
          /\ d.pc = "started" /\ d.n = entering[s].n /\ d.intent = entering[s].intent
          /\ d.declared = entering[s].declared /\ d.rev = entering[s].rev /\ (d.known <=> entering[s].known)
    BY <1>2, <1>5, CallGoes DEF Pcs, Admitted, Based, Planned
  <2>9. AdmissionType'
    BY <1>2, <2>7, <2>8 DEF AdmissionInv, AdmissionType
  <2>10. entering'[s] = d /\ \A t \in Sessions \ {s} : entering'[t] = entering[t]
    BY <2>8 DEF AdmissionInv, AdmissionType
  <2>11. CallOK(s)'
    BY <1>1, <1>2, <1>3, <2>8, <2>10 DEF CallOK, Planned
  <2>12. answers'[entering[s].n] = "NONE" /\ d # Admission!Idle
    BY <1>2, <2>8 DEF CallOK, Admission!Idle
  <2>13. \A j \in Intents, y \in Admission!DeclaredIds : slices[j][y].plan # entering[s].n
    BY <1>1, <1>2, NotYetBound
  <2>14. \A n \in 1..MaxEnters : n # entering[s].n => plans'[n] = plans[n] /\ answers'[n] = answers[n]
    BY <1>2
  <2>15. plans'[entering[s].n] # "CANCELLED"
    BY <1>2 DEF CallOK
  <2>16. \A j \in Intents, y \in Admission!DeclaredIds :
           \/ UNCHANGED <<slices[j][y].plan, slices[j][y].rev>>
           \/ slices'[j][y].rev > slices[j][y].rev /\ slices'[j][y].plan = entering[s].n
    BY <1>1, <2>5, <2>7
  <2>17. d.n = entering[s].n /\ d.pc = "started"
    BY <2>8
  <2> QED
    BY <1>2, <2>8, <2>9, <2>11, <2>12, <2>14, <2>15, <2>16, <2>17, CallBinds
<1> QED
  BY <1>1, <1>4, <1>5 DEF Admission!BindSlice

\* The call ends: with the plan active, because of another session's Slice, or dead.
LEMMA EndStep ==
  ASSUME AdmissionInv, NEW s \in Sessions,
         Admission!ActivatePlan(s) \/ Admission!CancelPlan(s) \/ Admission!Crash(s)
  PROVE  AdmissionInv'
<1>1. CASE Admission!Crash(s)
  BY <1>1, FailStep DEF Admission!Crash, Admission!docs
<1>2. CASE Admission!ActivatePlan(s) \/ Admission!CancelPlan(s)
  <2>1. /\ entering[s] # Admission!Idle /\ entering[s].pc \in {"started", "cancel"} /\ entering[s].n \in 1..MaxEnters
        /\ UNCHANGED <<works, slices, baselines, entered>>
    BY <1>2, Entered DEF Admission!ActivatePlan, Admission!CancelPlan, Pcs, Admitted, Based, Planned, Call
  <2>2. CASE Admission!ActivatePlan(s)
    <3>1. PICK a \in {"NEW_WORK_ADMITTED", "EXISTING_WORK_BOUND"} : Admission!Answer(s, a)
      BY <2>2 DEF Admission!ActivatePlan
    <3>2. plans' = [plans EXCEPT ![entering[s].n] = "ACTIVE"]
      BY <2>2 DEF Admission!ActivatePlan
    <3>3. plans'[entering[s].n] = "ACTIVE"
      BY <2>1, <3>2 DEF AdmissionInv, AdmissionType
    <3>4. a \in Answers \ {"NONE"} /\ "ACTIVE" \in PlanStates /\ a # "CONCURRENT_WORK_REUSED"
      BY <3>1 DEF Answers, PlanStates
    <3> QED
      BY <2>1, <3>1, <3>2, <3>3, <3>4, AnswerStep
  <2>3. CASE Admission!CancelPlan(s)
    <3>1. /\ plans' = [plans EXCEPT ![entering[s].n] = "CANCELLED"] /\ entering[s].pc # "started"
          /\ Admission!Answer(s, "CONCURRENT_WORK_REUSED")
      BY <2>3 DEF Admission!CancelPlan
    <3>2. plans'[entering[s].n] = "CANCELLED"
      BY <2>1, <3>1 DEF AdmissionInv, AdmissionType
    <3>3. "CONCURRENT_WORK_REUSED" \in Answers \ {"NONE"} /\ "CANCELLED" \in PlanStates
      BY DEF Answers, PlanStates
    <3> QED
      BY <2>1, <3>1, <3>2, <3>3, AnswerStep
  <2> QED
    BY <1>2, <2>2, <2>3
<1> QED
  BY <1>1, <1>2

LEMMA CollidedStep ==
  ASSUME AdmissionInv, NEW s \in Sessions, Admission!Collided(s)
  PROVE  AdmissionInv'
<1>1. /\ entering[s] # Admission!Idle /\ CallOK(s) /\ entering[s].pc = "collided"
      /\ slices \in [Intents -> [Admission!DeclaredIds -> Slice]]
      /\ ~(entering[s].declared = "INTENT" /\ entering[s].known)
      /\ UNCHANGED <<works, baselines, plans, slices, entered>>
  BY Entered DEF Admission!Collided, Pcs, Admitted, Based, Planned, Admission!docs
<1>2. entering[s].intent \in works /\ entering[s].intent \in baselines
  BY <1>1 DEF CallOK, Admitted, Based, Planned
<1>3. CASE Admission!Fail(s)
  BY <1>1, <1>3, FailStep DEF Admission!Fail
<1>4. CASE Admission!Goto(s, "cancel") /\ answers' = answers
  BY <1>1, <1>2, <1>4, EnterGotoStep DEF Pcs, Admitted, Based, Planned
<1> QED
  BY <1>3, <1>4 DEF Admission!Collided

\* A worker claims the Slice done, a validator sends it back: it is bound to no plan, or to
\* the one it was bound to, and its revision grows.
LEMMA WorkerStep ==
  ASSUME AdmissionInv, NEW i \in Intents, NEW d \in Admission!DeclaredIds,
         Admission!Finish(i, d) \/ Admission!SendBack(i, d)
  PROVE  AdmissionInv'
<1>1. slices \in [Intents -> [Admission!DeclaredIds -> Slice]]
  BY DEF AdmissionInv, AdmissionType
<1>2. PICK old \in Slice : old = slices[i][d]
  BY <1>1
<1>3. PICK sl \in Slice : slices' = [slices EXCEPT ![i][d] = sl] /\ sl.rev = old.rev + 1 /\ sl.plan \in {0, old.plan}
  <2>1. CASE Admission!Finish(i, d)
    <3>1. PICK sl : sl = [state |-> "DONE_CLAIMED", plan |-> 0, rev |-> slices[i][d].rev + 1]
      OBVIOUS
    <3>2. sl \in Slice /\ sl.rev = old.rev + 1 /\ sl.plan = 0
      BY <1>2, <3>1 DEF Slice, SliceStates
    <3>3. slices' = [slices EXCEPT ![i][d] = sl]
      BY <2>1, <3>1 DEF Admission!Finish
    <3> QED
      BY <3>2, <3>3
  <2>2. CASE Admission!SendBack(i, d)
    <3>1. PICK sl : sl = [old EXCEPT !.state = "REWORK_REQUIRED", !.rev = old.rev + 1]
      OBVIOUS
    <3>0. old.rev + 1 \in Nat /\ "REWORK_REQUIRED" \in SliceStates
      BY DEF Slice, SliceStates
    <3>2. sl \in Slice /\ sl.rev = old.rev + 1 /\ sl.plan = old.plan
      BY <3>0, <3>1 DEF Slice
    <3>3. slices' = [slices EXCEPT ![i][d] = sl]
      BY <1>2, <2>2, <3>1, Zenon DEF Admission!SendBack
    <3> QED
      BY <3>2, <3>3
  <2> QED
    BY <2>1, <2>2
<1>4. /\ slices' \in [Intents -> [Admission!DeclaredIds -> Slice]]
      /\ slices'[i][d] = sl
      /\ \A j \in Intents, x \in Admission!DeclaredIds : j # i \/ x # d => slices'[j][x] = slices[j][x]
  BY <1>1, <1>3, SlicePut
<1>5. UNCHANGED <<works, baselines, plans, entering, answers, entered>>
  BY DEF Admission!Finish, Admission!SendBack
<1>6. \A j \in Intents, x \in Admission!DeclaredIds :
        /\ slices'[j][x].rev > slices[j][x].rev \/ slices'[j][x] = slices[j][x]
        /\ slices'[j][x].plan \in {0, slices[j][x].plan}
  BY <1>2, <1>3, <1>4 DEF Slice
<1>7. AdmissionType'
  BY <1>4, <1>5 DEF AdmissionInv, AdmissionType
<1>8. ASSUME NEW s \in Sessions, entering[s] # Admission!Idle
      PROVE  CallOK(s)'
  <2>1. CallOK(s) /\ entering[s] \in Call
    BY <1>8 DEF AdmissionInv, AdmissionType, Calls
  <2>2. PICK o \in Slice : o = slices[entering[s].intent][entering[s].declared]
    BY <1>1, <2>1 DEF Call
  <2>3. PICK p \in Slice : p = slices'[entering[s].intent][entering[s].declared]
    BY <1>4, <2>1 DEF Call
  <2>4. p.rev > o.rev \/ p = o
    BY <1>6, <2>1, <2>2, <2>3 DEF Call
  <2>5. entering[s].pc = "bind" => entering[s].rev <= p.rev /\ (entering[s].rev = p.rev => ~Admission!Taken(p, entering[s].n))
    <3>1. entering[s].pc = "bind" => entering[s].rev <= o.rev /\ (entering[s].rev = o.rev => ~Admission!Taken(o, entering[s].n))
      BY <2>1, <2>2 DEF CallOK
    <3> QED
      BY <2>1, <2>4, <3>1 DEF Call, Slice
  <2> QED
    BY <1>5, <2>1, <2>3, <2>5 DEF CallOK
<1>9. Calls' /\ Fresh' /\ Answered'
  BY <1>5, <1>8 DEF AdmissionInv, Calls, Fresh, Answered
<1>10. Bound'
  BY <1>5, <1>6 DEF AdmissionInv, Bound
<1> QED
  BY <1>7, <1>9, <1>10 DEF AdmissionInv

LEMMA AdmissionStutter ==
  ASSUME AdmissionInv, UNCHANGED admission
  PROVE  AdmissionInv'
<1>1. UNCHANGED <<works, baselines, plans, slices, entering, answers, entered>>
  BY DEF admission
<1>2. AdmissionType' /\ Fresh' /\ Answered' /\ Bound'
  BY <1>1 DEF AdmissionInv, AdmissionType, Fresh, Answered, Bound
<1>3. Calls'
  BY <1>1 DEF AdmissionInv, Calls, CallOK
<1> QED
  BY <1>2, <1>3 DEF AdmissionInv

LEMMA AdmissionNext == AdmissionInv /\ Admission!Next => AdmissionInv'
<1> SUFFICES ASSUME AdmissionInv, Admission!Next PROVE AdmissionInv'
  OBVIOUS
<1>1. CASE \E s \in Sessions, i \in Intents : Admission!EnterPrompt(s, i) \/ Admission!EnterReference(s, i)
  BY <1>1, BeginCallStep
<1>2. CASE \E s \in Sessions : Admission!EnterStep(s) \/ Admission!Crash(s)
  BY <1>2, CheckCandidateStep, AdmitWorkStep, FindBaselineStep, InsertBaselineStep, PlanSteps, MaterializeStep,
     CheckSliceStep, BindSliceStep, EndStep, CollidedStep DEF Admission!EnterStep
<1>3. CASE \E i \in Intents, d \in Admission!DeclaredIds : Admission!Finish(i, d) \/ Admission!SendBack(i, d)
  BY <1>3, WorkerStep
<1> QED
  BY <1>1, <1>2, <1>3 DEF Admission!Next

LEMMA PlansFollowAdmission == AdmissionInv => AdmissionIsComplete
<1> SUFFICES ASSUME AdmissionInv, NEW s \in Sessions, entering[s] # Admission!Idle, plans[entering[s].n] # "NONE"
             PROVE  /\ entering[s].intent \in works \cap baselines
                    /\ entering[s].declared = "INTENT" => ~entering[s].known
  BY DEF AdmissionIsComplete, Admission!AdmissionIsComplete
<1>1. CallOK(s) /\ entering[s].pc \in Planned
  BY DEF AdmissionInv, Calls, CallOK
<1> QED
  BY <1>1 DEF CallOK, Planned, Based, Admitted

\* Nobody takes a Slice from the plan it is bound to.
LEMMA SlicesStayBound ==
  ASSUME AdmissionInv, Admission!Next, NEW i \in Intents, NEW d \in Admission!DeclaredIds, slices[i][d].plan # 0
  PROVE  slices'[i][d].plan \in {0, slices[i][d].plan}
<1>0. slices \in [Intents -> [Admission!DeclaredIds -> Slice]]
  BY DEF AdmissionInv, AdmissionType
<1>1. CASE UNCHANGED slices
  BY <1>1
<1>2. ASSUME NEW s \in Sessions, Admission!Materialize(s) \/ Admission!BindSlice(s), slices' # slices
      PROVE  slices'[i][d].plan \in {0, slices[i][d].plan}
  <2>1. PICK c \in Call : c = entering[s] /\ CallOK(s)
    BY <1>2, Entered DEF Admission!Materialize, Admission!BindSlice, Pcs, Admitted, Based, Planned
  <2>2. PICK j \in Intents : j = c.intent
    BY DEF Call
  <2>3. PICK x \in Admission!DeclaredIds : x = c.declared
    BY DEF Call
  <2>4. CASE Admission!Materialize(s)
    BY <1>0, <2>1, <2>2, <2>3, <2>4 DEF Admission!Materialize, Admission!PutSlice, Admission!Slice, Admission!Materialized, Admission!NoSlice
  <2>5. CASE Admission!BindSlice(s)
    <3>1. slices' = [slices EXCEPT ![j][x] = [state |-> "ACTIVE", plan |-> c.n, rev |-> slices[j][x].rev + 1]]
          /\ c.rev = slices[j][x].rev /\ c.pc = "bind"
      BY <1>2, <2>1, <2>2, <2>3, <2>5 DEF Admission!BindSlice, Admission!PutSlice, Admission!Slice, Admission!Unchanged
    <3>2. slices[j][x].plan \in {0, c.n}
      BY <2>1, <2>2, <2>3, <3>1 DEF CallOK, Admission!Taken
    <3> QED
      BY <1>0, <3>1, <3>2
  <2> QED
    BY <1>2, <2>4, <2>5
<1>3. ASSUME NEW j \in Intents, NEW x \in Admission!DeclaredIds, Admission!Finish(j, x) \/ Admission!SendBack(j, x)
      PROVE  slices'[i][d].plan \in {0, slices[i][d].plan}
  <2>1. CASE Admission!Finish(j, x)
    BY <1>0, <2>1 DEF Admission!Finish
  <2>2. CASE Admission!SendBack(j, x)
    <3>1. PICK old \in Slice : old = slices[j][x]
      BY <1>0
    <3>2. PICK sl : sl = [old EXCEPT !.state = "REWORK_REQUIRED", !.rev = old.rev + 1]
      OBVIOUS
    <3>3. sl.plan = old.plan
      BY <3>1, <3>2 DEF Slice
    <3>4. slices' = [slices EXCEPT ![j][x] = sl]
      BY <2>2, <3>1, <3>2, Zenon DEF Admission!SendBack
    <3> QED
      BY <1>0, <3>1, <3>3, <3>4
  <2> QED
    BY <1>3, <2>1, <2>2
<1> QED
  <2>1. ASSUME NEW s \in Sessions, Admission!EnterStep(s), ~Admission!Materialize(s), ~Admission!BindSlice(s)
        PROVE  UNCHANGED slices
    BY <2>1 DEF Admission!EnterStep, Admission!CheckCandidate, Admission!AdmitWork, Admission!FindBaseline,
       Admission!InsertBaseline, Admission!BindTurn, Admission!RecordPlan, Admission!CheckSlice, Admission!ActivatePlan,
       Admission!Collided, Admission!CancelPlan, Admission!docs
  <2>2. ASSUME NEW s \in Sessions, NEW j \in Intents, Admission!EnterPrompt(s, j) \/ Admission!EnterReference(s, j)
        PROVE  UNCHANGED slices
    BY <2>2 DEF Admission!EnterPrompt, Admission!EnterReference, Admission!docs
  <2>3. ASSUME NEW s \in Sessions, Admission!Crash(s) PROVE UNCHANGED slices
    BY <2>3 DEF Admission!Crash, Admission!docs
  <2> QED
    BY <1>1, <1>2, <1>3, <2>1, <2>2, <2>3 DEF Admission!Next

LEMMA OneTargetStep ==
  ASSUME AdmissionInv, [Admission!Next]_admission
  PROVE  /\ \A i \in Intents, d \in Admission!DeclaredIds :
              slices[i][d].plan # 0 => slices'[i][d].plan \in {0, slices[i][d].plan}
         /\ \A n \in 1..MaxEnters :
              /\ answers'[n] = "CONCURRENT_WORK_REUSED" => plans'[n] = "CANCELLED"
              /\ answers'[n] \in {"NEW_WORK_ADMITTED", "EXISTING_WORK_BOUND"} => plans'[n] = "ACTIVE"
              /\ plans'[n] = "CANCELLED" =>
                    \A i \in Intents, d \in Admission!DeclaredIds : slices'[i][d].plan # n
<1>1. AdmissionInv'
  BY AdmissionNext, AdmissionStutter
<1>2. \A n \in 1..MaxEnters : n # 0
  OBVIOUS
<1>3. \A i \in Intents, d \in Admission!DeclaredIds :
         slices[i][d].plan # 0 => slices'[i][d].plan \in {0, slices[i][d].plan}
  BY SlicesStayBound DEF admission
<1> QED
  BY <1>1, <1>2, <1>3 DEF AdmissionInv, Answered, Bound

-----------------------------------------------------------------------------
(* WorkDelegation. *)

Row == [task : Tasks, costly : BOOLEAN, status : {"AUTHORIZED", "COMPLETED", "FAILED"}]
Asking == [pc : {"eligible", "count", "insert"}, task : Tasks, costly : BOOLEAN]

DelegationType ==
    /\ profile \in [limit : Nat, able : BOOLEAN, costly : BOOLEAN, active : BOOLEAN]
    /\ delegations \in Seq(Row)
    /\ authorizing \in [Sessions -> {Delegation!Idle} \cup Asking]
    /\ high \in Nat /\ most \in Nat

\* The calls that have counted and are about to insert; the calls for a task.
Inserting == {s \in Delegation!Running : authorizing[s].pc = "insert"}
AskedFor(t) == {s \in Delegation!Running : authorizing[s].task = t}

\* Who is about to insert counts as a delegation already.
Counted ==
    /\ IsFiniteSet(Delegation!Running) /\ Cardinality(Delegation!Running) <= most
    /\ Delegation!Open # {} \/ Inserting # {} =>
          Cardinality(Delegation!Open) + Cardinality(Inserting) <= high + most - 1
    /\ \A t \in Tasks : Cardinality(Delegation!OpenFor(t)) + Cardinality(AskedFor(t)) <= most

Justified ==
    /\ \A s \in Delegation!Running : authorizing[s].costly => authorizing[s].task \in approved
    /\ \A n \in DOMAIN delegations : delegations[n].costly => delegations[n].task \in approved

DelegationInv == DelegationType /\ profile.limit <= high /\ Counted /\ Justified

LEMMA CardinalityInParts ==
  /\ \A S : Delegation!Cardinality(S) = Cardinality(S)
  /\ \A S : Supersession!Cardinality(S) = Cardinality(S)
BY DEF Delegation!Cardinality, Supersession!Cardinality, Cardinality

LEMMA MaxOfTwo ==
  ASSUME NEW a \in Nat, NEW b \in Nat
  PROVE  Delegation!Max({a, b}) \in {a, b} /\ Delegation!Max({a, b}) >= a /\ Delegation!Max({a, b}) >= b
<1>1. \E x \in {a, b} : \A y \in {a, b} : x >= y
  <2>1. CASE a >= b
    BY <2>1
  <2>2. CASE b >= a
    BY <2>2
  <2> QED
    BY <2>1, <2>2
<1> QED
  BY <1>1 DEF Delegation!Max

LEMMA DelegationInit == Delegation!Init => DelegationInv
<1> SUFFICES ASSUME Delegation!Init PROVE DelegationInv
  OBVIOUS
<1>1. delegations = <<>> /\ delegations \in Seq(Row) /\ Delegation!Running = {} /\ high = 0 /\ most = 0
  BY DEF Delegation!Init, Delegation!Running
<1>2. Delegation!Open = {} /\ Inserting = {} /\ \A t : Delegation!OpenFor(t) = {} /\ AskedFor(t) = {}
  BY <1>1 DEF Delegation!Open, Inserting, Delegation!OpenFor, AskedFor
<1>3. DelegationType /\ profile.limit <= high
  BY <1>1 DEF Delegation!Init, DelegationType, Delegation!NoProfile
<1>4. Counted
  <2>1. IsFiniteSet({}) /\ Cardinality({}) = 0
    BY FS_EmptySet
  <2>2. ASSUME NEW t \in Tasks PROVE Cardinality(Delegation!OpenFor(t)) + Cardinality(AskedFor(t)) <= most
    <3>1. Delegation!OpenFor(t) = {} /\ AskedFor(t) = {}
      BY <1>2
    <3>2. Cardinality(Delegation!OpenFor(t)) = 0 /\ Cardinality(AskedFor(t)) = 0
      BY <2>1, <3>1, Zenon
    <3> QED
      BY <1>1, <3>2
  <2> QED
    BY <1>1, <1>2, <2>1, <2>2 DEF Counted
<1>5. Justified
  BY <1>1 DEF Justified
<1> QED
  BY <1>3, <1>4, <1>5 DEF DelegationInv

\* All that is counted is finite.
LEMMA Countable ==
  ASSUME delegations \in Seq(Row), IsFiniteSet(Delegation!Running)
  PROVE  /\ IsFiniteSet(Delegation!Open) /\ Cardinality(Delegation!Open) \in Nat
         /\ IsFiniteSet(Inserting) /\ Cardinality(Inserting) \in Nat /\ Cardinality(Inserting) <= Cardinality(Delegation!Running)
         /\ \A t : /\ IsFiniteSet(Delegation!OpenFor(t)) /\ Cardinality(Delegation!OpenFor(t)) \in Nat
                   /\ IsFiniteSet(AskedFor(t)) /\ Cardinality(AskedFor(t)) \in Nat
                   /\ Cardinality(AskedFor(t)) <= Cardinality(Delegation!Running)
         /\ Cardinality(Delegation!Running) \in Nat
<1>1. IsFiniteSet(DOMAIN delegations)
  <2>1. DOMAIN delegations = 1..Len(delegations) /\ Len(delegations) \in Nat
    OBVIOUS
  <2> QED
    BY <2>1, FS_Interval
<1>2. Delegation!Open \in SUBSET DOMAIN delegations /\ \A t : Delegation!OpenFor(t) \in SUBSET DOMAIN delegations
  BY DEF Delegation!Open, Delegation!OpenFor
<1>3. Inserting \in SUBSET Delegation!Running /\ \A t : AskedFor(t) \in SUBSET Delegation!Running
  BY DEF Inserting, AskedFor
<1> QED
  BY <1>1, <1>2, <1>3, FS_Subset, FS_CardinalityType

\* A step that adds neither a delegation nor a call.
LEMMA Fewer ==
  ASSUME DelegationInv, delegations' \in Seq(Row), high' \in Nat, most' \in Nat,
         Delegation!Running' \subseteq Delegation!Running, Inserting' \subseteq Inserting,
         Delegation!Open' \subseteq Delegation!Open,
         \A t \in Tasks : Delegation!OpenFor(t)' \subseteq Delegation!OpenFor(t) /\ AskedFor(t)' \subseteq AskedFor(t),
         high' >= high, most' >= most
  PROVE  Counted'
<1>1. delegations \in Seq(Row) /\ IsFiniteSet(Delegation!Running) /\ high \in Nat /\ most \in Nat
  BY DEF DelegationInv, DelegationType, Counted
<1>2. IsFiniteSet(Delegation!Running')
  BY <1>1, FS_Subset
<1>3. Cardinality(Delegation!Running') \in Nat /\ Cardinality(Delegation!Running) \in Nat
      /\ Cardinality(Delegation!Running') <= Cardinality(Delegation!Running)
  BY <1>1, <1>2, FS_Subset, FS_CardinalityType
<1>4. /\ Cardinality(Delegation!Open') \in Nat /\ Cardinality(Delegation!Open) \in Nat
      /\ Cardinality(Delegation!Open') <= Cardinality(Delegation!Open)
  BY <1>1, Countable, FS_Subset, FS_CardinalityType
<1>5. /\ Cardinality(Inserting') \in Nat /\ Cardinality(Inserting) \in Nat
      /\ Cardinality(Inserting') <= Cardinality(Inserting)
  BY <1>1, Countable, FS_Subset, FS_CardinalityType
<1>6. ASSUME NEW t \in Tasks
      PROVE  Cardinality(Delegation!OpenFor(t)') + Cardinality(AskedFor(t)') <= most'
  <2>1. /\ Cardinality(Delegation!OpenFor(t)') \in Nat /\ Cardinality(Delegation!OpenFor(t)) \in Nat
        /\ Cardinality(Delegation!OpenFor(t)') <= Cardinality(Delegation!OpenFor(t))
    BY <1>1, Countable, FS_Subset, FS_CardinalityType
  <2>2. /\ Cardinality(AskedFor(t)') \in Nat /\ Cardinality(AskedFor(t)) \in Nat
        /\ Cardinality(AskedFor(t)') <= Cardinality(AskedFor(t))
    BY <1>1, Countable, FS_Subset, FS_CardinalityType
  <2>3. Cardinality(Delegation!OpenFor(t)) + Cardinality(AskedFor(t)) <= most
    BY DEF DelegationInv, Counted
  <2> QED
    BY <1>1, <2>1, <2>2, <2>3
<1>7. Delegation!Open' # {} \/ Inserting' # {} =>
         Cardinality(Delegation!Open') + Cardinality(Inserting') <= high' + most' - 1
  <2>1. Delegation!Open # {} \/ Inserting # {} =>
          Cardinality(Delegation!Open) + Cardinality(Inserting) <= high + most - 1
    BY DEF DelegationInv, Counted
  <2> QED
    BY <1>1, <1>4, <1>5, <2>1
<1>8. Cardinality(Delegation!Running') <= most'
  BY <1>1, <1>3 DEF DelegationInv, Counted
<1> QED
  BY <1>2, <1>6, <1>7, <1>8 DEF Counted

\* What the end or the next step of a call does to the sets of calls.
LEMMA CallMoves ==
  ASSUME DelegationInv, NEW s \in Sessions, authorizing[s] # Delegation!Idle,
         NEW d \in {Delegation!Idle} \cup Asking, authorizing' = [authorizing EXCEPT ![s] = d],
         d # Delegation!Idle => d.task = authorizing[s].task
  PROVE  /\ authorizing' \in [Sessions -> {Delegation!Idle} \cup Asking]
         /\ Delegation!Running' = IF d = Delegation!Idle THEN Delegation!Running \ {s} ELSE Delegation!Running
         /\ Inserting' = IF d # Delegation!Idle /\ d.pc = "insert" THEN Inserting \cup {s} ELSE Inserting \ {s}
         /\ \A t : AskedFor(t)' = IF d = Delegation!Idle THEN AskedFor(t) \ {s} ELSE AskedFor(t)
<1>1. authorizing \in [Sessions -> {Delegation!Idle} \cup Asking]
  BY DEF DelegationInv, DelegationType
<1>2. authorizing'[s] = d /\ \A u \in Sessions \ {s} : authorizing'[u] = authorizing[u]
  BY <1>1
<1>3. \A u \in Sessions : u \in Delegation!Running' <=> IF u = s THEN d # Delegation!Idle ELSE u \in Delegation!Running
  BY <1>2 DEF Delegation!Running
<1>4. s \in Delegation!Running /\ Delegation!Running \subseteq Sessions /\ Delegation!Running' \subseteq Sessions
  BY DEF Delegation!Running
<1>5. Delegation!Running' = IF d = Delegation!Idle THEN Delegation!Running \ {s} ELSE Delegation!Running
  BY <1>3, <1>4
<1>6. Inserting' = IF d # Delegation!Idle /\ d.pc = "insert" THEN Inserting \cup {s} ELSE Inserting \ {s}
  BY <1>2, <1>4, <1>5 DEF Inserting
<1>7. \A t : AskedFor(t)' = IF d = Delegation!Idle THEN AskedFor(t) \ {s} ELSE AskedFor(t)
  BY <1>2, <1>4, <1>5 DEF AskedFor
<1> QED
  BY <1>1, <1>5, <1>6, <1>7

\* A step of a call that does not make it one that is about to insert.
LEMMA CallMovesOn ==
  ASSUME DelegationInv, NEW s \in Sessions, authorizing[s] # Delegation!Idle,
         NEW d \in {Delegation!Idle} \cup Asking, authorizing' = [authorizing EXCEPT ![s] = d],
         d # Delegation!Idle => d.task = authorizing[s].task /\ d.pc # "insert" /\ (d.costly => d.task \in approved),
         UNCHANGED <<profile, approved, delegations, high, most>>
  PROVE  DelegationInv'
<1>1. /\ authorizing' \in [Sessions -> {Delegation!Idle} \cup Asking]
      /\ Delegation!Running' = IF d = Delegation!Idle THEN Delegation!Running \ {s} ELSE Delegation!Running
      /\ Inserting' = Inserting \ {s}
      /\ \A t : AskedFor(t)' = IF d = Delegation!Idle THEN AskedFor(t) \ {s} ELSE AskedFor(t)
  BY CallMoves
<1>2. DelegationType' /\ (profile.limit <= high)'
  BY <1>1 DEF DelegationInv, DelegationType
<1>3. Delegation!Open' = Delegation!Open /\ \A t : Delegation!OpenFor(t)' = Delegation!OpenFor(t)
  BY DEF Delegation!Open, Delegation!OpenFor
<1>4. Counted'
  <2>1. /\ delegations' \in Seq(Row) /\ high' \in Nat /\ most' \in Nat /\ high' >= high /\ most' >= most
        /\ Delegation!Open' \subseteq Delegation!Open
        /\ Delegation!Running' \subseteq Delegation!Running /\ Inserting' \subseteq Inserting
        /\ \A t \in Tasks : Delegation!OpenFor(t)' \subseteq Delegation!OpenFor(t) /\ AskedFor(t)' \subseteq AskedFor(t)
    BY <1>1, <1>3 DEF DelegationInv, DelegationType
  <2> QED
    BY <2>1, Fewer
<1>5. Justified'
  <2>1. authorizing'[s] = d /\ \A u \in Sessions \ {s} : authorizing'[u] = authorizing[u]
    BY DEF DelegationInv, DelegationType
  <2>2. \A u \in Delegation!Running' : u \in Sessions /\ authorizing'[u] # Delegation!Idle
    BY DEF Delegation!Running
  <2> QED
    BY <1>1, <2>1, <2>2 DEF DelegationInv, Justified
<1> QED
  BY <1>2, <1>4, <1>5 DEF DelegationInv

LEMMA EligibilityStep ==
  ASSUME DelegationInv, NEW s \in Sessions, Delegation!CheckEligibility(s)
  PROVE  DelegationInv'
<1>1. authorizing[s] # Delegation!Idle /\ authorizing[s].pc = "eligible" /\ UNCHANGED <<profile, approved, delegations, high, most>>
  BY DEF Delegation!CheckEligibility, Delegation!Idle
<1>2. PICK c \in Asking : c = authorizing[s]
  BY <1>1 DEF DelegationInv, DelegationType
<1>3. CASE Delegation!End(s)
  BY <1>1, <1>3, CallMovesOn DEF Delegation!End
<1>4. CASE /\ Delegation!Eligible(c.task)
           /\ authorizing' = [authorizing EXCEPT ![s] = [@ EXCEPT !.pc = "count", !.costly = profile.costly]]
  <2>1. PICK d : d = [c EXCEPT !.pc = "count", !.costly = profile.costly]
    OBVIOUS
  <2>2. profile.costly \in BOOLEAN
    BY DEF DelegationInv, DelegationType
  <2>3. d \in Asking /\ d.pc = "count" /\ d.task = c.task /\ d.costly = profile.costly
    BY <2>1, <2>2 DEF Asking
  <2>4. authorizing' = [authorizing EXCEPT ![s] = d]
    BY <1>2, <1>4, <2>1, Zenon
  <2>5. d.costly => d.task \in approved
    BY <1>4, <2>3 DEF Delegation!Eligible
  <2> QED
    BY <1>1, <1>2, <2>3, <2>4, <2>5, CallMovesOn
<1> QED
  BY <1>2, <1>3, <1>4 DEF Delegation!CheckEligibility

\* Below the limit, one more call that is about to insert is one of those that run.
LEMMA CountStep ==
  ASSUME DelegationInv, NEW s \in Sessions, Delegation!CountOpen(s)
  PROVE  DelegationInv'
<1>1. authorizing[s] # Delegation!Idle /\ authorizing[s].pc = "count" /\ UNCHANGED <<profile, approved, delegations, high, most>>
  BY DEF Delegation!CountOpen, Delegation!Idle
<1>2. PICK c \in Asking : c = authorizing[s]
  BY <1>1 DEF DelegationInv, DelegationType
<1>3. CASE Delegation!End(s)
  BY <1>1, <1>3, CallMovesOn DEF Delegation!End
<1>4. CASE Cardinality(Delegation!Open) < profile.limit /\ Delegation!Goto(s, "insert")
  <2>1. PICK d : d = [c EXCEPT !.pc = "insert"]
    OBVIOUS
  <2>2. d \in Asking /\ d.pc = "insert" /\ d.task = c.task /\ d.costly = c.costly
    BY <2>1 DEF Asking
  <2>3. authorizing' = [authorizing EXCEPT ![s] = d]
    BY <1>2, <1>4, <2>1, Zenon DEF Delegation!Goto
  <2>4. d # Delegation!Idle
    BY <2>2 DEF Delegation!Idle
  <2>5. /\ authorizing' \in [Sessions -> {Delegation!Idle} \cup Asking]
        /\ Delegation!Running' = Delegation!Running
        /\ \A t : AskedFor(t)' = AskedFor(t)
    BY <1>1, <1>2, <2>2, <2>3, <2>4, CallMoves
  <2>6. DelegationType' /\ (profile.limit <= high)'
    BY <1>1, <2>5 DEF DelegationInv, DelegationType
  <2>7. Delegation!Open' = Delegation!Open /\ \A t : Delegation!OpenFor(t)' = Delegation!OpenFor(t)
    BY <1>1 DEF Delegation!Open, Delegation!OpenFor
  <2>8. /\ high \in Nat /\ most \in Nat /\ profile.limit \in Nat /\ profile.limit <= high
        /\ IsFiniteSet(Delegation!Running) /\ Cardinality(Delegation!Running) <= most /\ delegations \in Seq(Row)
    BY DEF DelegationInv, DelegationType, Counted
  <2>9. Cardinality(Inserting') \in Nat /\ Cardinality(Inserting') <= most
    <3>1. Inserting' \in SUBSET Delegation!Running
      BY <2>5 DEF Inserting
    <3>2. IsFiniteSet(Inserting') /\ Cardinality(Inserting') <= Cardinality(Delegation!Running)
      BY <2>8, <3>1, FS_Subset
    <3> QED
      BY <2>8, <3>2, FS_CardinalityType
  <2>10. Cardinality(Delegation!Open) \in Nat
    BY <2>8, Countable
  <2>11. Cardinality(Delegation!Open') + Cardinality(Inserting') <= high' + most' - 1
    BY <1>1, <1>4, <2>7, <2>8, <2>9, <2>10
  <2>12. Counted'
    BY <1>1, <2>5, <2>7, <2>8, <2>11 DEF DelegationInv, Counted
  <2>13. Justified'
    <3>1. authorizing'[s] = d /\ \A u \in Sessions \ {s} : authorizing'[u] = authorizing[u]
      BY <2>3 DEF DelegationInv, DelegationType
    <3>2. \A u \in Delegation!Running : u \in Sessions
      BY DEF Delegation!Running
    <3>3. s \in Delegation!Running
      BY <1>1 DEF Delegation!Running
    <3> QED
      BY <1>1, <1>2, <2>2, <2>5, <3>1, <3>2, <3>3 DEF DelegationInv, Justified
  <2> QED
    BY <2>6, <2>12, <2>13 DEF DelegationInv
<1> QED
  BY <1>3, <1>4, CardinalityInParts DEF Delegation!CountOpen, Delegation!Below

\* The delegation takes the place of the call that was about to insert it.
LEMMA InsertStep ==
  ASSUME DelegationInv, NEW s \in Sessions, Delegation!Insert(s)
  PROVE  DelegationInv'
<1>1. /\ authorizing[s] # Delegation!Idle /\ authorizing[s].pc = "insert" /\ UNCHANGED <<profile, approved, high, most>>
      /\ authorizing' = [authorizing EXCEPT ![s] = Delegation!Idle]
  BY DEF Delegation!Insert, Delegation!Idle, Delegation!End
<1>2. PICK c \in Asking : c = authorizing[s]
  BY <1>1 DEF DelegationInv, DelegationType
<1>3. PICK row \in Row : /\ delegations' = Append(delegations, row)
                         /\ row.task = c.task /\ (row.costly <=> c.costly) /\ row.status = "AUTHORIZED"
  <2>1. PICK row : row = [task |-> c.task, costly |-> c.costly, status |-> "AUTHORIZED"]
    OBVIOUS
  <2>2. row \in Row /\ row.task = c.task /\ (row.costly <=> c.costly) /\ row.status = "AUTHORIZED"
    BY <2>1 DEF Row, Asking
  <2> QED
    BY <1>2, <2>1, <2>2 DEF Delegation!Insert
<1>4. /\ delegations \in Seq(Row) /\ high \in Nat /\ most \in Nat /\ IsFiniteSet(Delegation!Running)
      /\ Cardinality(Delegation!Running) <= most
  BY DEF DelegationInv, DelegationType, Counted
<1> DEFINE n == Len(delegations) + 1
<1>5. /\ delegations' \in Seq(Row) /\ DOMAIN delegations' = DOMAIN delegations \cup {n} /\ n \notin DOMAIN delegations
      /\ delegations'[n] = row /\ \A m \in DOMAIN delegations : delegations'[m] = delegations[m]
  BY <1>3, <1>4
<1>6. /\ authorizing' \in [Sessions -> {Delegation!Idle} \cup Asking]
      /\ Delegation!Running' = Delegation!Running \ {s} /\ Inserting' = Inserting \ {s}
      /\ \A t : AskedFor(t)' = AskedFor(t) \ {s}
  BY <1>1, CallMoves
<1> HIDE DEF n
<1>7. /\ Delegation!Open' = Delegation!Open \cup {n} /\ n \notin Delegation!Open
      /\ \A t : Delegation!OpenFor(t)' = IF t = c.task THEN Delegation!OpenFor(t) \cup {n} ELSE Delegation!OpenFor(t)
      /\ \A t : n \notin Delegation!OpenFor(t)
  BY <1>3, <1>5 DEF Delegation!Open, Delegation!OpenFor
<1>8. s \in Inserting /\ s \in AskedFor(c.task) /\ s \in Delegation!Running
  BY <1>1, <1>2 DEF Inserting, AskedFor, Delegation!Running
<1>9. DelegationType' /\ (profile.limit <= high)'
  BY <1>1, <1>5, <1>6 DEF DelegationInv, DelegationType
<1>10. /\ IsFiniteSet(Delegation!Open) /\ IsFiniteSet(Inserting) /\ Cardinality(Delegation!Open) \in Nat
       /\ Cardinality(Inserting) \in Nat /\ Cardinality(Delegation!Running) \in Nat
  BY <1>4, Countable
<1>11. Cardinality(Delegation!Open') + Cardinality(Inserting') <= high' + most' - 1
  <2>1. Cardinality(Delegation!Open') = Cardinality(Delegation!Open) + 1
    BY <1>7, <1>10, FS_AddElement
  <2>2. Cardinality(Inserting') = Cardinality(Inserting) - 1
    BY <1>6, <1>8, <1>10, FS_RemoveElement
  <2>3. Cardinality(Delegation!Open) + Cardinality(Inserting) <= high + most - 1
    BY <1>8 DEF DelegationInv, Counted
  <2> QED
    BY <1>1, <1>4, <1>10, <2>1, <2>2, <2>3
<1>12. ASSUME NEW t \in Tasks
       PROVE  Cardinality(Delegation!OpenFor(t)') + Cardinality(AskedFor(t)') <= most'
  <2>1. /\ IsFiniteSet(Delegation!OpenFor(t)) /\ Cardinality(Delegation!OpenFor(t)) \in Nat
        /\ IsFiniteSet(AskedFor(t)) /\ Cardinality(AskedFor(t)) \in Nat
    BY <1>4, Countable
  <2>2. Cardinality(Delegation!OpenFor(t)) + Cardinality(AskedFor(t)) <= most
    BY DEF DelegationInv, Counted
  <2>3. CASE t = c.task
    <3>1. Cardinality(Delegation!OpenFor(t)') = Cardinality(Delegation!OpenFor(t)) + 1
      BY <1>7, <2>1, <2>3, FS_AddElement
    <3>2. Cardinality(AskedFor(t)') = Cardinality(AskedFor(t)) - 1
      BY <1>6, <1>8, <2>1, <2>3, FS_RemoveElement
    <3> QED
      BY <1>1, <1>4, <2>1, <2>2, <3>1, <3>2
  <2>4. CASE t # c.task
    <3>1. Delegation!OpenFor(t)' = Delegation!OpenFor(t)
      BY <1>7, <2>4
    <3>2. AskedFor(t)' = AskedFor(t)
      BY <1>2, <1>6, <2>4 DEF AskedFor
    <3> QED
      BY <1>1, <2>2, <3>1, <3>2
  <2> QED
    BY <2>3, <2>4
<1>13. IsFiniteSet(Delegation!Running') /\ Cardinality(Delegation!Running') <= most'
  <2>1. IsFiniteSet(Delegation!Running') /\ Cardinality(Delegation!Running') = Cardinality(Delegation!Running) - 1
    BY <1>4, <1>6, <1>8, FS_RemoveElement
  <2> QED
    BY <1>1, <1>4, <1>10, <2>1
<1>14. Counted'
  BY <1>11, <1>12, <1>13 DEF Counted
<1>15. Justified'
  <2>1. \A u \in Delegation!Running' : authorizing'[u] = authorizing[u] /\ u \in Delegation!Running
    <3>1. Delegation!Running \subseteq Sessions
      BY DEF Delegation!Running
    <3> QED
      BY <1>1, <1>6, <3>1 DEF DelegationInv, DelegationType
  <2>2. c.costly => c.task \in approved
    BY <1>2, <1>8 DEF DelegationInv, Justified
  <2> QED
    BY <1>1, <1>3, <1>5, <2>1, <2>2 DEF DelegationInv, Justified
<1> QED
  BY <1>9, <1>14, <1>15 DEF DelegationInv

LEMMA AskStep ==
  ASSUME DelegationInv, NEW s \in Sessions, NEW t \in Tasks, Delegation!Begin(s, t)
  PROVE  DelegationInv'
<1>1. authorizing[s] = Delegation!Idle /\ UNCHANGED <<profile, approved, delegations, high>>
  BY DEF Delegation!Begin
<1>2. Delegation!Open' = Delegation!Open /\ \A u : Delegation!OpenFor(u)' = Delegation!OpenFor(u)
  BY <1>1 DEF Delegation!Open, Delegation!OpenFor
<1>3. CASE UNCHANGED <<authorizing, most>>
  <2>1. Delegation!Running' = Delegation!Running
    BY <1>3 DEF Delegation!Running
  <2>2. Inserting' = Inserting /\ \A u : AskedFor(u)' = AskedFor(u)
    BY <1>3, <2>1 DEF Inserting, AskedFor
  <2>3. DelegationType' /\ Justified' /\ (profile.limit <= high)'
    BY <1>1, <1>3, <2>1 DEF DelegationInv, DelegationType, Justified
  <2>4. Counted'
    BY <1>1, <1>2, <1>3, <2>1, <2>2 DEF DelegationInv, Counted
  <2> QED
    BY <2>3, <2>4 DEF DelegationInv
<1>4. CASE /\ Delegation!OpenFor(t) = {}
           /\ authorizing' = [authorizing EXCEPT ![s] = [pc |-> "eligible", task |-> t, costly |-> FALSE]]
           /\ most' = Delegation!Max({most, Cardinality(Delegation!Running) + 1})
  <2>1. PICK d \in Asking : d = [pc |-> "eligible", task |-> t, costly |-> FALSE]
    BY DEF Asking
  <2>2. d # Delegation!Idle /\ d.pc = "eligible" /\ d.task = t /\ d.costly = FALSE
    BY <2>1 DEF Delegation!Idle
  <2>3. /\ authorizing' = [authorizing EXCEPT ![s] = d] /\ authorizing \in [Sessions -> {Delegation!Idle} \cup Asking]
    BY <1>4, <2>1 DEF DelegationInv, DelegationType
  <2>4. authorizing'[s] = d /\ \A u \in Sessions \ {s} : authorizing'[u] = authorizing[u]
    BY <2>3
  <2>5. s \notin Delegation!Running /\ Delegation!Running' = Delegation!Running \cup {s} /\ Delegation!Running \subseteq Sessions
    BY <1>1, <2>2, <2>4 DEF Delegation!Running
  <2>6. Inserting' = Inserting
    BY <2>2, <2>4, <2>5 DEF Inserting
  <2>7. \A u : AskedFor(u)' \subseteq Delegation!Running' /\ (u # t => AskedFor(u)' = AskedFor(u))
    BY <2>2, <2>4, <2>5 DEF AskedFor
  <2>8. /\ delegations \in Seq(Row) /\ high \in Nat /\ most \in Nat /\ IsFiniteSet(Delegation!Running)
        /\ Cardinality(Delegation!Running) <= most /\ Cardinality(Delegation!Running) \in Nat
    BY FS_CardinalityType DEF DelegationInv, DelegationType, Counted
  <2>9. most' \in Nat /\ most' >= most /\ most' >= Cardinality(Delegation!Running) + 1
    BY <1>4, <2>8, MaxOfTwo
  <2>10. IsFiniteSet(Delegation!Running') /\ Cardinality(Delegation!Running') = Cardinality(Delegation!Running) + 1
    BY <2>5, <2>8, FS_AddElement
  <2>11. ASSUME NEW u \in Tasks
         PROVE  Cardinality(Delegation!OpenFor(u)') + Cardinality(AskedFor(u)') <= most'
    <3>1. CASE u = t
      <4>1. Cardinality(Delegation!OpenFor(u)') = 0
        BY <1>2, <1>4, <3>1, FS_EmptySet
      <4>2. Cardinality(AskedFor(u)') \in Nat /\ Cardinality(AskedFor(u)') <= Cardinality(Delegation!Running')
        BY <2>7, <2>10, FS_Subset, FS_CardinalityType
      <4> QED
        BY <2>8, <2>9, <2>10, <4>1, <4>2
    <3>2. CASE u # t
      <4>1. Cardinality(Delegation!OpenFor(u)') + Cardinality(AskedFor(u)') <= most
        BY <1>2, <2>7, <3>2 DEF DelegationInv, Counted
      <4>2. Cardinality(Delegation!OpenFor(u)') \in Nat /\ Cardinality(AskedFor(u)') \in Nat
        BY <1>2, <2>7, <2>8, <3>2, Countable
      <4> QED
        BY <2>8, <2>9, <4>1, <4>2
    <3> QED
      BY <3>1, <3>2
  <2>12. Delegation!Open' # {} \/ Inserting' # {} =>
           Cardinality(Delegation!Open') + Cardinality(Inserting') <= high' + most' - 1
    <3>1. Delegation!Open # {} \/ Inserting # {} =>
            Cardinality(Delegation!Open) + Cardinality(Inserting) <= high + most - 1
      BY DEF DelegationInv, Counted
    <3>2. Cardinality(Delegation!Open) \in Nat /\ Cardinality(Inserting) \in Nat
      BY <2>8, Countable
    <3> QED
      BY <1>1, <1>2, <2>6, <2>8, <2>9, <3>1, <3>2
  <2>13. Counted'
    BY <2>8, <2>9, <2>10, <2>11, <2>12 DEF Counted
  <2>14. DelegationType' /\ (profile.limit <= high)'
    BY <1>1, <2>3, <2>9 DEF DelegationInv, DelegationType
  <2>15. Justified'
    BY <1>1, <2>2, <2>4, <2>5 DEF DelegationInv, Justified
  <2> QED
    BY <2>13, <2>14, <2>15 DEF DelegationInv
<1> QED
  BY <1>3, <1>4, CardinalityInParts DEF Delegation!Begin

\* The profile, the approvals and the end of a delegation.
LEMMA OtherDelegationSteps ==
  ASSUME DelegationInv,
         \/ Delegation!Publish \/ (\E t \in Tasks : Delegation!Approve(t)) \/ (\E n \in 1..MaxRows : Delegation!Complete(n))
  PROVE  DelegationInv'
<1>1. UNCHANGED <<authorizing, most>>
  BY DEF Delegation!Publish, Delegation!Approve, Delegation!Complete
<1>2. Delegation!Running' = Delegation!Running
  BY <1>1 DEF Delegation!Running
<1>3. Inserting' = Inserting /\ \A u : AskedFor(u)' = AskedFor(u)
  BY <1>1, <1>2 DEF Inserting, AskedFor
<1>4. high \in Nat /\ high' \in Nat /\ high' >= high /\ most \in Nat
      /\ profile' \in [limit : Nat, able : BOOLEAN, costly : BOOLEAN, active : BOOLEAN] /\ profile'.limit <= high'
      /\ approved \subseteq approved'
  <2>1. CASE Delegation!Publish
    <3>1. profile' \in [limit : Nat, able : BOOLEAN, costly : BOOLEAN, active : BOOLEAN] /\ profile'.limit \in Nat
      BY <2>1, GovernanceAssumption DEF Delegation!Publish, Delegation!Profiles, Delegation!DelegationAssumption
    <3> QED
      BY <2>1, <3>1, MaxOfTwo DEF Delegation!Publish, DelegationInv, DelegationType
  <2>2. CASE ~Delegation!Publish
    BY <2>2 DEF Delegation!Approve, Delegation!Complete, DelegationInv, DelegationType
  <2> QED
    BY <2>1, <2>2
<1> DEFINE Kept(ds) ==
             /\ ds \in Seq(Row) /\ DOMAIN ds = DOMAIN delegations
             /\ \A n \in DOMAIN delegations :
                   /\ ds[n].task = delegations[n].task /\ (ds[n].costly <=> delegations[n].costly)
                   /\ ds[n].status = "AUTHORIZED" => delegations[n].status = "AUTHORIZED"
<1>5. Kept(delegations')
  <2>0. delegations \in Seq(Row)
    BY DEF DelegationInv, DelegationType
  <2>1. CASE UNCHANGED delegations
    BY <2>0, <2>1
  <2>2. ASSUME NEW n \in 1..MaxRows, Delegation!Complete(n) PROVE Kept(delegations')
    <3>1. PICK status \in {"COMPLETED", "FAILED"} : delegations' = [delegations EXCEPT ![n].status = status]
      BY <2>2 DEF Delegation!Complete
    <3>0. n \in DOMAIN delegations
      BY <2>2 DEF Delegation!Complete
    <3>2. PICK row \in Row : row = delegations[n]
      BY <2>0, <3>0
    <3>3. PICK new : new = [row EXCEPT !.status = status]
      OBVIOUS
    <3>4. new \in Row /\ new.task = row.task /\ (new.costly <=> row.costly) /\ new.status = status
      BY <3>3 DEF Row
    <3>5. delegations' = [delegations EXCEPT ![n] = new]
      BY <3>1, <3>2, <3>3, Zenon
    <3> QED
      <4>1. delegations' \in Seq(Row) /\ DOMAIN delegations' = DOMAIN delegations
        BY <2>0, <3>0, <3>4, <3>5
      <4>2. \A m \in DOMAIN delegations : delegations'[m] = IF m = n THEN new ELSE delegations[m]
        BY <2>0, <3>0, <3>5
      <4> QED
        BY <3>1, <3>2, <3>4, <4>1, <4>2
  <2> QED
    BY <2>1, <2>2 DEF Delegation!Publish, Delegation!Approve
<1>6. Delegation!Open' \subseteq Delegation!Open /\ \A t : Delegation!OpenFor(t)' \subseteq Delegation!OpenFor(t)
  BY <1>5 DEF Delegation!Open, Delegation!OpenFor
<1>7. Counted'
  <2>1. Delegation!Running' \subseteq Delegation!Running /\ Inserting' \subseteq Inserting /\ most' \in Nat /\ most' >= most
        /\ \A t \in Tasks : Delegation!OpenFor(t)' \subseteq Delegation!OpenFor(t) /\ AskedFor(t)' \subseteq AskedFor(t)
    BY <1>1, <1>2, <1>3, <1>4, <1>6
  <2> QED
    BY <1>4, <1>5, <1>6, <2>1, Fewer
<1>8. DelegationType'
  BY <1>1, <1>4, <1>5 DEF DelegationInv, DelegationType
<1>9. Justified'
  BY <1>1, <1>2, <1>4, <1>5 DEF DelegationInv, Justified
<1> QED
  BY <1>4, <1>7, <1>8, <1>9 DEF DelegationInv

LEMMA DelegationNext == DelegationInv /\ Delegation!Next => DelegationInv'
BY AskStep, EligibilityStep, CountStep, InsertStep, OtherDelegationSteps DEF Delegation!Next

LEMMA DelegationStutter ==
  ASSUME DelegationInv, UNCHANGED delegation
  PROVE  DelegationInv'
<1>1. UNCHANGED <<profile, approved, delegations, authorizing, high, most>>
  BY DEF delegation
<1>2. Delegation!Running' = Delegation!Running /\ Delegation!Open' = Delegation!Open
  BY <1>1 DEF Delegation!Running, Delegation!Open
<1>3. Inserting' = Inserting /\ \A u : AskedFor(u)' = AskedFor(u) /\ Delegation!OpenFor(u)' = Delegation!OpenFor(u)
  BY <1>1, <1>2 DEF Inserting, AskedFor, Delegation!OpenFor
<1>4. Counted'
  BY <1>1, <1>2, <1>3 DEF DelegationInv, Counted
<1>5. DelegationType' /\ Justified' /\ (profile.limit <= high)'
  BY <1>1, <1>2 DEF DelegationInv, DelegationType, Justified
<1> QED
  BY <1>4, <1>5 DEF DelegationInv

LEMMA CountsBound == DelegationInv => OverrunIsBounded
<1> SUFFICES ASSUME DelegationInv PROVE OverrunIsBounded
  OBVIOUS
<1>1. /\ delegations \in Seq(Row) /\ high \in Nat /\ most \in Nat /\ IsFiniteSet(Delegation!Running)
  BY DEF DelegationInv, DelegationType, Counted
<1>2. Cardinality(Delegation!Open) \in Nat /\ Cardinality(Inserting) \in Nat
  BY <1>1, Countable
<1>3. Delegation!Open # {} => Cardinality(Delegation!Open) <= high + most - 1
  BY <1>1, <1>2 DEF DelegationInv, Counted
<1>4. ASSUME NEW t \in Tasks PROVE Cardinality(Delegation!OpenFor(t)) <= most
  <2>1. Cardinality(Delegation!OpenFor(t)) \in Nat /\ Cardinality(AskedFor(t)) \in Nat
    BY <1>1, Countable
  <2> QED
    BY <1>1, <2>1 DEF DelegationInv, Counted
<1> QED
  BY <1>3, <1>4, CardinalityInParts DEF DelegationInv, Justified, OverrunIsBounded, Delegation!OverrunIsBounded

-----------------------------------------------------------------------------
(* WorkSupersession. *)

Edges == Works \X Works
Linking == [pc : {"check", "insert", "found", "inserted", "told"}, edge : Edges]

SupersessionType ==
    /\ supersedes \subseteq Edges /\ IsFiniteSet(supersedes)
    /\ recorded \subseteq supersedes \X Works /\ cut \subseteq supersedes
    /\ linking \in [Sessions -> {Supersession!Idle} \cup Linking]

\* What the edge that a call inserts is like, as long as the calls do not overlap.
Fits(e) ==
    /\ e[1] # e[2] /\ Project[e[1]] = Project[e[2]]
    /\ ~Supersession!Superseded(e[1]) /\ ~Supersession!Superseded(e[2])

\* No two calls run at the same time, and the one that runs is the first for its edge.
Alone ==
    /\ \A s, t \in Sessions : linking[s] # Supersession!Idle /\ linking[t] # Supersession!Idle => s = t
    /\ \A s \in Sessions : linking[s] # Supersession!Idle =>
          /\ linking[s].pc \in {"check", "insert"} => linking[s].edge \notin supersedes
          /\ linking[s].pc = "insert" => Fits(linking[s].edge)
          /\ linking[s].edge \notin cut /\ <<linking[s].edge, linking[s].edge[2]>> \notin recorded
    /\ \A e \in cut : <<e, e[2]>> \notin recorded

\* The edges have no fork, stay in a project, and lead down a ranking no higher than they are many.
NoFork == \A e, f \in supersedes : e[1] = f[1] => e[2] = f[2]
InProject == \A e \in supersedes : Project[e[1]] = Project[e[2]]
Descends(r) == \A e \in supersedes : r[e[1]] > r[e[2]]
Ranked == \E r \in [Works -> 0..Cardinality(supersedes)] : Descends(r)

\* Who has an edge tells of it, the archived work first.
BothTold(e) == {<<e, e[1]>>, <<e, e[2]>>} \subseteq recorded
IsTelling(s, e) == Supersession!Telling(s) /\ linking[s].edge = e
Told ==
    /\ \A s \in Sessions : Supersession!Telling(s) =>
          /\ linking[s].edge \in supersedes
          /\ linking[s].pc = "told" => <<linking[s].edge, linking[s].edge[1]>> \in recorded
    /\ \A e \in supersedes : BothTold(e) \/ e \in cut \/ \E s \in Sessions : IsTelling(s, e)
    /\ \A r \in recorded : <<r[1], r[1][1]>> \in recorded

SupersessionInv ==
    /\ SupersessionType /\ Told
    /\ ~raced => Alone /\ NoFork /\ InProject /\ Ranked

LEMMA SupersessionInit == Supersession!Init => SupersessionInv
<1> SUFFICES ASSUME Supersession!Init PROVE SupersessionInv
  OBVIOUS
<1>1. supersedes = {} /\ recorded = {} /\ cut = {} /\ \A s \in Sessions : linking[s] = Supersession!Idle
  BY DEF Supersession!Init
<1>2. IsFiniteSet({}) /\ Cardinality({}) = 0
  BY FS_EmptySet
<1>3. Ranked
  <2>1. [w \in Works |-> 0] \in [Works -> 0..Cardinality(supersedes)]
    BY <1>1, <1>2
  <2> QED
    BY <1>1, <2>1 DEF Ranked, Descends
<1>4. SupersessionType
  BY <1>1, <1>2 DEF Supersession!Init, SupersessionType
<1>5. ASSUME NEW s \in Sessions PROVE ~Supersession!Telling(s)
  <2>1. Supersession!Idle.pc = "idle"
    BY DEF Supersession!Idle
  <2> QED
    BY <1>1, <2>1 DEF Supersession!Telling
<1>6. Told
  BY <1>1, <1>5 DEF Told
<1>7. Alone
  BY <1>1 DEF Alone
<1> QED
  BY <1>1, <1>3, <1>4, <1>6, <1>7 DEF SupersessionInv, NoFork, InProject

\* One more edge between two works that are not superseded: the work it leads to is now the
\* lowest, and all the others are one higher.
LEMMA EdgeAdded ==
  ASSUME supersedes \subseteq Edges, IsFiniteSet(supersedes), NoFork, InProject, Ranked,
         NEW e \in Edges, e \in supersedes \/ Fits(e), supersedes' = supersedes \cup {e}
  PROVE  (NoFork /\ InProject /\ Ranked)'
<1>1. CASE e \in supersedes
  <2>1. supersedes' = supersedes
    BY <1>1
  <2> QED
    BY <2>1 DEF NoFork, InProject, Ranked, Descends
<1>2. CASE e \notin supersedes
  <2>1. Fits(e)
    BY <1>2
  <2>2. \A f \in supersedes : f[1] # e[1] /\ f[1] # e[2]
    BY <2>1 DEF Fits, Supersession!Superseded
  <2>3. NoFork' /\ InProject'
    BY <2>1, <2>2 DEF NoFork, InProject, Fits
  <2>4. Cardinality(supersedes') = Cardinality(supersedes) + 1 /\ Cardinality(supersedes) \in Nat
    BY <1>2, FS_AddElement, FS_CardinalityType
  <2>5. PICK r \in [Works -> 0..Cardinality(supersedes)] : Descends(r)
    BY DEF Ranked
  <2> DEFINE q == [w \in Works |-> IF w = e[2] THEN 0 ELSE r[w] + 1]
  <2>6. q \in [Works -> 0..Cardinality(supersedes')]
    BY <2>4
  <2>7. ASSUME NEW f \in supersedes' PROVE q[f[1]] > q[f[2]]
    <3>1. f[1] \in Works /\ f[2] \in Works /\ e[1] # e[2] /\ e[1] \in Works /\ e[2] \in Works
      BY <2>1 DEF Edges, Fits
    <3>2. r[f[1]] \in Nat /\ r[f[2]] \in Nat /\ (f \in supersedes => r[f[1]] > r[f[2]])
      BY <2>4, <2>5, <3>1 DEF Descends
    <3>3. f[1] # e[2]
      BY <2>2, <3>1
    <3> QED
      BY <3>1, <3>2, <3>3
  <2> HIDE DEF q
  <2>8. Ranked'
    BY <2>6, <2>7 DEF Ranked, Descends
  <2> QED
    BY <2>3, <2>8
<1> QED
  BY <1>1, <1>2

\* What becomes of the calls when one of them moves.
LEMMA LinkMoves ==
  ASSUME SupersessionInv, NEW s \in Sessions, NEW d \in {Supersession!Idle} \cup Linking,
         linking' = [linking EXCEPT ![s] = d]
  PROVE  /\ linking' \in [Sessions -> {Supersession!Idle} \cup Linking]
         /\ linking'[s] = d /\ \A t \in Sessions \ {s} : linking'[t] = linking[t]
         /\ \A t \in Sessions \ {s}, e \in Edges : Supersession!Telling(t)' = Supersession!Telling(t)
                                                   /\ IsTelling(t, e)' = IsTelling(t, e)
<1>1. /\ linking' \in [Sessions -> {Supersession!Idle} \cup Linking]
      /\ linking'[s] = d /\ \A t \in Sessions \ {s} : linking'[t] = linking[t]
  BY DEF SupersessionInv, SupersessionType
<1> QED
  BY <1>1 DEF Supersession!Telling, IsTelling

\* Whoever tells is in a call.
LEMMA TellingIsACall == \A s \in Sessions : Supersession!Telling(s) => linking[s] # Supersession!Idle
BY DEF Supersession!Telling, Supersession!Idle

\* Without another edge the edges keep their shape.
LEMMA SameEdges ==
  ASSUME UNCHANGED supersedes
  PROVE  UNCHANGED <<NoFork, InProject, Ranked>> /\ \A e : Fits(e)' = Fits(e)
BY DEF NoFork, InProject, Ranked, Descends, Fits, Supersession!Superseded

LEMMA BeginLinkStep ==
  ASSUME SupersessionInv, NEW s \in Sessions, NEW old \in Works, NEW new \in Works, Supersession!Begin(s, old, new)
  PROVE  SupersessionInv'
<1>1. /\ linking[s] = Supersession!Idle /\ UNCHANGED <<supersedes, recorded, cut>>
      /\ ~raced' => ~raced /\ \A t \in Sessions : linking[t] = Supersession!Idle
  BY DEF Supersession!Begin
<1>2. UNCHANGED <<NoFork, InProject, Ranked>> /\ \A e : Fits(e)' = Fits(e)
  BY <1>1, SameEdges
<1>3. CASE UNCHANGED linking
  <2>1. \A t \in Sessions : Supersession!Telling(t)' = Supersession!Telling(t)
    BY <1>3 DEF Supersession!Telling
  <2> QED
    BY <1>1, <1>2, <1>3, <2>1 DEF SupersessionInv, SupersessionType, Told, BothTold, IsTelling, Alone
<1>4. CASE <<old, new>> \notin supersedes /\ linking' = [linking EXCEPT ![s] = [pc |-> "check", edge |-> <<old, new>>]]
  <2>1. PICK d \in Linking : d = [pc |-> "check", edge |-> <<old, new>>]
    BY DEF Linking, Edges
  <2>2. d.pc = "check" /\ d.edge = <<old, new>> /\ d.edge \in Edges /\ d # Supersession!Idle
    BY <2>1 DEF Linking, Edges, Supersession!Idle
  <2>3. /\ linking' \in [Sessions -> {Supersession!Idle} \cup Linking]
        /\ linking'[s] = d /\ \A t \in Sessions \ {s} : linking'[t] = linking[t]
        /\ \A t \in Sessions \ {s}, e \in Edges : Supersession!Telling(t)' = Supersession!Telling(t)
                                                  /\ IsTelling(t, e)' = IsTelling(t, e)
    BY <1>4, <2>1, LinkMoves
  <2>4. SupersessionType'
    BY <1>1, <2>3 DEF SupersessionInv, SupersessionType
  <2>5. ~Supersession!Telling(s) /\ ~Supersession!Telling(s)'
    BY <1>1, <2>2, <2>3 DEF Supersession!Telling, Supersession!Idle
  <2>6. Told'
    <3>1. \A e \in supersedes : e \in Edges
      BY DEF SupersessionInv, SupersessionType
    <3>2. \A t \in Sessions, e \in Edges : IsTelling(t, e)' = IsTelling(t, e)
      BY <2>3, <2>5 DEF IsTelling
    <3>3. \A t \in Sessions : Supersession!Telling(t)' => Supersession!Telling(t) /\ linking'[t] = linking[t]
      BY <2>3, <2>5, <2>2
    <3> QED
      BY <1>1, <3>1, <3>2, <3>3 DEF SupersessionInv, Told, BothTold
  <2>7. ASSUME ~raced' PROVE Alone'
    <3>1. d.edge \notin supersedes /\ d.edge \notin cut /\ <<d.edge, d.edge[2]>> \notin recorded
      BY <1>4, <2>2 DEF SupersessionInv, SupersessionType
    <3>2. \A e \in cut : <<e, e[2]>> \notin recorded
      BY <1>1, <2>7 DEF SupersessionInv, Alone
    <3> QED
      BY <1>1, <2>2, <2>3, <2>7, <3>1, <3>2 DEF Alone
  <2> QED
    BY <1>1, <1>2, <2>4, <2>6, <2>7 DEF SupersessionInv
<1> QED
  BY <1>3, <1>4 DEF Supersession!Begin

\* What is left to show of a step that moves one call and inserts no edge.
LEMMA LinkStep ==
  ASSUME SupersessionInv, NEW s \in Sessions, linking[s] # Supersession!Idle, UNCHANGED <<supersedes, raced>>,
         NEW d \in {Supersession!Idle} \cup Linking, linking' = [linking EXCEPT ![s] = d],
         recorded' \subseteq supersedes \X Works, recorded \subseteq recorded',
         cut \subseteq cut', cut' \subseteq supersedes,
         \A r \in recorded' : <<r[1], r[1][1]>> \in recorded',
         \A e \in supersedes : IsTelling(s, e) => (BothTold(e) \/ e \in cut \/ IsTelling(s, e))',
         Supersession!Telling(s)' => d.edge \in supersedes
                                     /\ (d.pc = "told" => <<d.edge, d.edge[1]>> \in recorded'),
         ~raced /\ Alone => \A e \in cut' : <<e, e[2]>> \notin recorded',
         ~raced /\ Alone /\ d # Supersession!Idle =>
             /\ d.pc \in {"check", "insert"} => d.edge \notin supersedes
             /\ d.pc = "insert" => Fits(d.edge)
             /\ d.edge \notin cut' /\ <<d.edge, d.edge[2]>> \notin recorded'
  PROVE  SupersessionInv'
<1>1. UNCHANGED <<NoFork, InProject, Ranked>> /\ \A e : Fits(e)' = Fits(e)
  BY SameEdges
<1>2. /\ linking' \in [Sessions -> {Supersession!Idle} \cup Linking]
      /\ linking'[s] = d /\ \A t \in Sessions \ {s} : linking'[t] = linking[t]
      /\ \A t \in Sessions \ {s}, e \in Edges : Supersession!Telling(t)' = Supersession!Telling(t)
                                                /\ IsTelling(t, e)' = IsTelling(t, e)
  BY LinkMoves
<1>3. SupersessionType'
  BY <1>2 DEF SupersessionInv, SupersessionType
<1>4. Told'
  <2>1. \A t \in Sessions : Supersession!Telling(t)' =>
          /\ linking'[t].edge \in supersedes
          /\ linking'[t].pc = "told" => <<linking'[t].edge, linking'[t].edge[1]>> \in recorded'
    <3>1. ASSUME NEW t \in Sessions \ {s}, Supersession!Telling(t)'
          PROVE  /\ linking'[t].edge \in supersedes
                 /\ linking'[t].pc = "told" => <<linking'[t].edge, linking'[t].edge[1]>> \in recorded'
      <4>1. Supersession!Telling(t) /\ linking'[t] = linking[t]
        BY <1>2, <3>1 DEF Supersession!Telling
      <4> QED
        BY <4>1 DEF SupersessionInv, Told
    <3> QED
      BY <1>2, <3>1
  <2>2. ASSUME NEW e \in supersedes
        PROVE  BothTold(e)' \/ e \in cut' \/ \E t \in Sessions : IsTelling(t, e)'
    <3>1. e \in Edges
      BY DEF SupersessionInv, SupersessionType
    <3>2. BothTold(e) \/ e \in cut \/ \E t \in Sessions : IsTelling(t, e)
      BY DEF SupersessionInv, Told
    <3>3. BothTold(e) => BothTold(e)'
      BY DEF BothTold
    <3>4. ASSUME NEW t \in Sessions, IsTelling(t, e)
          PROVE  BothTold(e)' \/ e \in cut' \/ \E u \in Sessions : IsTelling(u, e)'
      <4>1. CASE t = s
        <5>1. BothTold(e)' \/ e \in cut' \/ IsTelling(s, e)'
          BY <3>4, <4>1
        <5> QED
          BY <5>1
      <4>2. CASE t # s
        <5>1. IsTelling(t, e)'
          BY <1>2, <3>1, <3>4, <4>2
        <5> QED
          BY <5>1
      <4> QED
        BY <4>1, <4>2
    <3> QED
      BY <3>2, <3>3, <3>4
  <2> QED
    BY <2>1, <2>2 DEF Told
<1>5. ASSUME ~raced PROVE Alone'
  <2>1. Alone
    BY <1>5 DEF SupersessionInv
  <2>2. \A t \in Sessions : linking'[t] # Supersession!Idle => t = s
    BY <1>2, <2>1 DEF Alone
  <2> QED
    BY <1>1, <1>2, <1>5, <2>1, <2>2 DEF Alone
<1> QED
  BY <1>1, <1>3, <1>4, <1>5 DEF SupersessionInv

LEMMA CheckLinkStep ==
  ASSUME SupersessionInv, NEW s \in Sessions, Supersession!Check(s)
  PROVE  SupersessionInv'
<1>1. linking[s] # Supersession!Idle /\ linking[s].pc = "check" /\ UNCHANGED <<supersedes, recorded, cut, raced>>
  BY DEF Supersession!Check, Supersession!Idle, Supersession!docs
<1>2. PICK c \in Linking : c = linking[s]
  BY <1>1 DEF SupersessionInv, SupersessionType
<1>3. PICK d \in {Supersession!Idle} \cup Linking :
        /\ linking' = [linking EXCEPT ![s] = d]
        /\ d # Supersession!Idle =>
              /\ d.edge = c.edge /\ d.pc \in {"insert", "found"}
              /\ d.pc = "insert" => Fits(c.edge)
              /\ d.pc = "found" => c.edge \in supersedes
  <2>1. CASE Supersession!End(s)
    BY <2>1 DEF Supersession!End
  <2>2. CASE c.edge \in supersedes /\ Supersession!Goto(s, "found")
    <3>1. PICK d : d = [c EXCEPT !.pc = "found"]
      OBVIOUS
    <3>2. d \in Linking /\ d.pc = "found" /\ d.edge = c.edge
      BY <3>1 DEF Linking
    <3>3. linking' = [linking EXCEPT ![s] = d]
      BY <1>2, <2>2, <3>1, Zenon DEF Supersession!Goto
    <3> QED
      BY <2>2, <3>2, <3>3
  <2>3. CASE Supersession!Allowed(c.edge) /\ Supersession!Goto(s, "insert")
    <3>1. PICK d : d = [c EXCEPT !.pc = "insert"]
      OBVIOUS
    <3>2. d \in Linking /\ d.pc = "insert" /\ d.edge = c.edge
      BY <3>1 DEF Linking
    <3>3. linking' = [linking EXCEPT ![s] = d]
      BY <1>2, <2>3, <3>1, Zenon DEF Supersession!Goto
    <3>4. Fits(c.edge)
      BY <2>3 DEF Supersession!Allowed, Fits
    <3> QED
      BY <3>2, <3>3, <3>4
  <2> QED
    BY <1>2, <2>1, <2>2, <2>3 DEF Supersession!Check
<1>4. linking'[s] = d
  BY <1>3, LinkMoves
<1>5. ~Supersession!Telling(s) /\ (Supersession!Telling(s)' => d.pc = "found" /\ d # Supersession!Idle)
  BY <1>1, <1>3, <1>4 DEF Supersession!Telling, Supersession!Idle
<1>6. \A e \in supersedes : IsTelling(s, e) => (BothTold(e) \/ e \in cut \/ IsTelling(s, e))'
  BY <1>5 DEF IsTelling
<1>7. Supersession!Telling(s)' => d.edge \in supersedes /\ (d.pc = "told" => <<d.edge, d.edge[1]>> \in recorded')
  BY <1>3, <1>5
<1>8. ~raced /\ Alone => \A e \in cut' : <<e, e[2]>> \notin recorded'
  BY <1>1 DEF Alone
<1>9. ~raced /\ Alone /\ d # Supersession!Idle =>
         /\ d.pc \in {"check", "insert"} => d.edge \notin supersedes
         /\ d.pc = "insert" => Fits(d.edge)
         /\ d.edge \notin cut' /\ <<d.edge, d.edge[2]>> \notin recorded'
  BY <1>1, <1>2, <1>3 DEF Alone
<1>10. recorded \subseteq supersedes \X Works /\ cut \subseteq supersedes /\ \A r \in recorded : <<r[1], r[1][1]>> \in recorded
  BY DEF SupersessionInv, SupersessionType, Told
<1> QED
  BY <1>1, <1>3, <1>6, <1>7, <1>8, <1>9, <1>10, LinkStep

LEMMA InsertLinkStep ==
  ASSUME SupersessionInv, NEW s \in Sessions, Supersession!Insert(s)
  PROVE  SupersessionInv'
<1>1. linking[s] # Supersession!Idle /\ linking[s].pc = "insert" /\ UNCHANGED <<recorded, cut, raced>>
  BY DEF Supersession!Insert, Supersession!Idle
<1>2. PICK c \in Linking : c = linking[s]
  BY <1>1 DEF SupersessionInv, SupersessionType
<1>3. c.edge \in Edges /\ supersedes' = supersedes \cup {c.edge}
  BY <1>2 DEF Linking, Supersession!Insert
<1>4. PICK d : d = [c EXCEPT !.pc = "inserted"]
  OBVIOUS
<1>5. d \in Linking /\ d.pc = "inserted" /\ d.edge = c.edge
  BY <1>4 DEF Linking
<1>6. linking' = [linking EXCEPT ![s] = d]
  BY <1>2, <1>4, Zenon DEF Supersession!Insert, Supersession!Goto
<1>7. /\ linking' \in [Sessions -> {Supersession!Idle} \cup Linking]
      /\ linking'[s] = d /\ \A t \in Sessions \ {s} : linking'[t] = linking[t]
      /\ \A t \in Sessions \ {s}, e \in Edges : Supersession!Telling(t)' = Supersession!Telling(t)
                                                /\ IsTelling(t, e)' = IsTelling(t, e)
  BY <1>5, <1>6, LinkMoves
<1>8. SupersessionType'
  <2>1. IsFiniteSet(supersedes')
    BY <1>3, FS_AddElement DEF SupersessionInv, SupersessionType
  <2> QED
    BY <1>1, <1>3, <1>7, <2>1 DEF SupersessionInv, SupersessionType
<1>9. d # Supersession!Idle /\ Supersession!Telling(s)' /\ ~Supersession!Telling(s)
  BY <1>1, <1>5, <1>7 DEF Supersession!Idle, Supersession!Telling
<1>10. Told'
  <2>1. ASSUME NEW e \in supersedes'
        PROVE  BothTold(e)' \/ e \in cut' \/ \E t \in Sessions : IsTelling(t, e)'
    <3>1. CASE e = c.edge
      <4>1. IsTelling(s, e)'
        BY <1>5, <1>7, <1>9, <3>1 DEF IsTelling
      <4> QED
        BY <4>1
    <3>2. CASE e # c.edge
      <4>1. e \in supersedes /\ e \in Edges
        BY <1>3, <3>2 DEF SupersessionInv, SupersessionType
      <4>2. BothTold(e) => BothTold(e)'
        BY <1>1 DEF BothTold
      <4>3. BothTold(e) \/ e \in cut \/ \E t \in Sessions : IsTelling(t, e)
        BY <4>1 DEF SupersessionInv, Told
      <4>4. ASSUME NEW t \in Sessions, IsTelling(t, e) PROVE \E u \in Sessions : IsTelling(u, e)'
        <5>1. t # s
          BY <1>9, <4>4 DEF IsTelling
        <5>2. IsTelling(t, e)'
          BY <1>7, <4>1, <4>4, <5>1
        <5> QED
          BY <5>2
      <4> QED
        BY <1>1, <4>2, <4>3, <4>4
    <3> QED
      BY <3>1, <3>2
  <2>2. ASSUME NEW t \in Sessions, Supersession!Telling(t)'
        PROVE  /\ linking'[t].edge \in supersedes'
               /\ linking'[t].pc = "told" => <<linking'[t].edge, linking'[t].edge[1]>> \in recorded'
    <3>1. CASE t = s
      BY <1>3, <1>5, <1>7, <3>1
    <3>2. CASE t # s
      <4>1. Supersession!Telling(t) /\ linking'[t] = linking[t]
        BY <1>7, <2>2, <3>2 DEF Supersession!Telling
      <4> QED
        BY <1>1, <1>3, <4>1 DEF SupersessionInv, Told
    <3> QED
      BY <3>1, <3>2
  <2>3. \A r \in recorded' : <<r[1], r[1][1]>> \in recorded'
    BY <1>1 DEF SupersessionInv, Told
  <2> QED
    BY <2>1, <2>2, <2>3 DEF Told
<1>11. ASSUME ~raced PROVE (Alone /\ NoFork /\ InProject /\ Ranked)'
  <2>0. Alone /\ NoFork /\ InProject /\ Ranked /\ supersedes \subseteq Edges /\ IsFiniteSet(supersedes)
    BY <1>11 DEF SupersessionInv, SupersessionType
  <2>1. Fits(c.edge) /\ c.edge \notin cut /\ <<c.edge, c.edge[2]>> \notin recorded
    BY <1>1, <1>2, <2>0 DEF Alone
  <2>2. (NoFork /\ InProject /\ Ranked)'
    BY <1>3, <2>0, <2>1, EdgeAdded
  <2>3. \A t \in Sessions : linking'[t] # Supersession!Idle => t = s
    BY <1>1, <1>7, <2>0 DEF Alone
  <2>4. Alone'
    BY <1>1, <1>5, <1>7, <2>0, <2>1, <2>3 DEF Alone
  <2> QED
    BY <2>2, <2>4
<1> QED
  BY <1>1, <1>8, <1>10, <1>11 DEF SupersessionInv

LEMMA AppendSupersededStep ==
  ASSUME SupersessionInv, NEW s \in Sessions, Supersession!AppendSuperseded(s)
  PROVE  SupersessionInv'
<1>1. /\ linking[s] # Supersession!Idle /\ Supersession!Telling(s) /\ linking[s].pc \in {"found", "inserted"}
      /\ UNCHANGED <<supersedes, cut, raced>>
  BY DEF Supersession!AppendSuperseded, Supersession!Idle, Supersession!Telling
<1>2. PICK c \in Linking : c = linking[s]
  BY <1>1 DEF SupersessionInv, SupersessionType
<1>3. c.edge \in supersedes /\ c.edge \in Edges /\ recorded' = recorded \cup {<<c.edge, c.edge[1]>>}
  BY <1>1, <1>2 DEF SupersessionInv, Told, Linking, Supersession!AppendSuperseded
<1>4. PICK d : d = [c EXCEPT !.pc = "told"]
  OBVIOUS
<1>5. d \in Linking /\ d.pc = "told" /\ d.edge = c.edge
  BY <1>4 DEF Linking
<1>6. linking' = [linking EXCEPT ![s] = d]
  BY <1>2, <1>4, Zenon DEF Supersession!AppendSuperseded, Supersession!Goto
<1>7. linking'[s] = d
  BY <1>5, <1>6, LinkMoves
<1>8. \A e \in supersedes : IsTelling(s, e) => (BothTold(e) \/ e \in cut \/ IsTelling(s, e))'
  BY <1>2, <1>5, <1>7 DEF IsTelling, Supersession!Telling
<1>9. \A r \in recorded' : <<r[1], r[1][1]>> \in recorded'
  <2>1. \A r \in recorded : <<r[1], r[1][1]>> \in recorded
    BY DEF SupersessionInv, Told
  <2>2. <<c.edge, c.edge[1]>>[1] = c.edge
    OBVIOUS
  <2>3. ASSUME NEW r \in recorded' PROVE <<r[1], r[1][1]>> \in recorded'
    <3>1. CASE r \in recorded
      BY <1>3, <2>1, <3>1
    <3>2. CASE r = <<c.edge, c.edge[1]>>
      BY <1>3, <2>2, <3>2, Zenon
    <3> QED
      BY <1>3, <3>1, <3>2
  <2> QED
    BY <2>3
<1>10. recorded' \subseteq supersedes \X Works /\ recorded \subseteq recorded' /\ cut \subseteq supersedes
  BY <1>3 DEF SupersessionInv, SupersessionType, Edges
<1>11. ASSUME ~raced, Alone
       PROVE  /\ c.edge \notin cut /\ <<c.edge, c.edge[2]>> \notin recorded'
              /\ \A e \in cut' : <<e, e[2]>> \notin recorded'
  <2>1. c.edge \notin cut /\ <<c.edge, c.edge[2]>> \notin recorded /\ \A e \in cut : <<e, e[2]>> \notin recorded
    BY <1>1, <1>2, <1>11 DEF Alone
  <2>2. PICK r \in [Works -> 0..Cardinality(supersedes)] : Descends(r)
    BY <1>11 DEF SupersessionInv, Ranked
  <2>3. c.edge[1] # c.edge[2]
    <3>1. r[c.edge[1]] > r[c.edge[2]] /\ c.edge[1] \in Works /\ c.edge[2] \in Works
      BY <1>3, <2>2 DEF Descends, Edges
    <3>2. Cardinality(supersedes) \in Nat
      BY FS_CardinalityType DEF SupersessionInv, SupersessionType
    <3>3. r[c.edge[1]] \in Nat
      BY <2>2, <3>1, <3>2
    <3> QED
      BY <3>1, <3>3
  <2> QED
    BY <1>1, <1>3, <2>1, <2>3
<1> QED
  BY <1>1, <1>3, <1>5, <1>6, <1>8, <1>9, <1>10, <1>11, LinkStep

LEMMA AppendSupersedesStep ==
  ASSUME SupersessionInv, NEW s \in Sessions, Supersession!AppendSupersedes(s)
  PROVE  SupersessionInv'
<1>1. /\ linking[s] # Supersession!Idle /\ Supersession!Telling(s) /\ linking[s].pc = "told"
      /\ UNCHANGED <<supersedes, cut, raced>> /\ linking' = [linking EXCEPT ![s] = Supersession!Idle]
  BY DEF Supersession!AppendSupersedes, Supersession!Idle, Supersession!Telling, Supersession!End
<1>2. PICK c \in Linking : c = linking[s]
  BY <1>1 DEF SupersessionInv, SupersessionType
<1>3. /\ c.edge \in supersedes /\ c.edge \in Edges /\ <<c.edge, c.edge[1]>> \in recorded
      /\ recorded' = recorded \cup {<<c.edge, c.edge[2]>>}
  BY <1>1, <1>2 DEF SupersessionInv, Told, Linking, Supersession!AppendSupersedes
<1>4. linking'[s] = Supersession!Idle /\ Supersession!Idle.pc = "idle"
  BY <1>1, LinkMoves DEF Supersession!Idle
<1>5. ~Supersession!Telling(s)'
  BY <1>4 DEF Supersession!Telling
<1>6. \A e \in supersedes : IsTelling(s, e) => (BothTold(e) \/ e \in cut \/ IsTelling(s, e))'
  BY <1>2, <1>3 DEF IsTelling, BothTold
<1>7. \A r \in recorded' : <<r[1], r[1][1]>> \in recorded'
  <2>1. \A r \in recorded : <<r[1], r[1][1]>> \in recorded
    BY DEF SupersessionInv, Told
  <2>2. <<c.edge, c.edge[2]>>[1] = c.edge
    OBVIOUS
  <2>3. ASSUME NEW r \in recorded' PROVE <<r[1], r[1][1]>> \in recorded'
    <3>1. CASE r \in recorded
      BY <1>3, <2>1, <3>1
    <3>2. CASE r = <<c.edge, c.edge[2]>>
      BY <1>3, <2>2, <3>2, Zenon
    <3> QED
      BY <1>3, <3>1, <3>2
  <2> QED
    BY <2>3
<1>8. recorded' \subseteq supersedes \X Works /\ recorded \subseteq recorded' /\ cut \subseteq supersedes
  BY <1>3 DEF SupersessionInv, SupersessionType, Edges
<1>9. ASSUME ~raced, Alone PROVE \A e \in cut' : <<e, e[2]>> \notin recorded'
  BY <1>1, <1>2, <1>3, <1>9 DEF Alone
<1> QED
  BY <1>1, <1>5, <1>6, <1>7, <1>8, <1>9, LinkStep

\* The call ends where it is, by a refusal or by dying.
LEMMA CutShortStep ==
  ASSUME SupersessionInv, NEW s \in Sessions, linking[s] # Supersession!Idle, Supersession!CutShort(s)
  PROVE  SupersessionInv'
<1>1. /\ linking' = [linking EXCEPT ![s] = Supersession!Idle] /\ UNCHANGED <<supersedes, recorded, raced>>
      /\ cut' = IF Supersession!Telling(s) THEN cut \cup {linking[s].edge} ELSE cut
  BY DEF Supersession!CutShort, Supersession!End, Supersession!docs
<1>2. linking'[s] = Supersession!Idle /\ Supersession!Idle.pc = "idle"
  BY <1>1, LinkMoves DEF Supersession!Idle
<1>3. ~Supersession!Telling(s)'
  BY <1>2 DEF Supersession!Telling
<1>4. cut \subseteq cut' /\ cut' \subseteq supersedes
  BY <1>1 DEF SupersessionInv, SupersessionType, Told
<1>5. \A e \in supersedes : IsTelling(s, e) => (BothTold(e) \/ e \in cut \/ IsTelling(s, e))'
  BY <1>1 DEF IsTelling
<1>6. \A r \in recorded' : <<r[1], r[1][1]>> \in recorded'
  BY <1>1 DEF SupersessionInv, Told
<1>7. recorded' \subseteq supersedes \X Works /\ recorded \subseteq recorded'
  BY <1>1 DEF SupersessionInv, SupersessionType
<1>8. ASSUME ~raced, Alone PROVE \A e \in cut' : <<e, e[2]>> \notin recorded'
  BY <1>1, <1>8 DEF Alone
<1> QED
  BY <1>1, <1>3, <1>4, <1>5, <1>6, <1>7, <1>8, LinkStep

LEMMA SupersessionNext == SupersessionInv /\ Supersession!Next => SupersessionInv'
<1>1. \A s \in Sessions : Supersession!Refused(s) \/ Supersession!Crash(s)
                            => linking[s] # Supersession!Idle /\ Supersession!CutShort(s)
  BY DEF Supersession!Refused, Supersession!Crash, Supersession!Idle
<1> QED
  BY <1>1, BeginLinkStep, CheckLinkStep, InsertLinkStep, AppendSupersededStep, AppendSupersedesStep, CutShortStep
     DEF Supersession!Next

LEMMA SupersessionStutter ==
  ASSUME SupersessionInv, UNCHANGED supersession
  PROVE  SupersessionInv'
<1>1. UNCHANGED <<supersedes, recorded, linking, raced, cut>>
  BY DEF supersession
<1>2. UNCHANGED <<NoFork, InProject, Ranked>> /\ \A e : Fits(e)' = Fits(e)
  BY <1>1, SameEdges
<1>3. SupersessionType' /\ Told' /\ (Alone => Alone')
  BY <1>1, <1>2 DEF SupersessionInv, SupersessionType, Told, BothTold, IsTelling, Supersession!Telling, Alone
<1> QED
  BY <1>1, <1>2, <1>3 DEF SupersessionInv

\* A set of numbers that is not empty has a least one: the intervals below its numbers are
\* ordered by inclusion, which is well-founded.
LEMMA LeastNumber ==
  ASSUME NEW S \in SUBSET Nat, S # {}
  PROVE  \E n \in S : \A m \in S : n <= m
<1> DEFINE T == {0..m - 1 : m \in S}
           R == StrictSubsetOrdering(Nat)
<1>1. T \subseteq FiniteSubsetsOf(Nat) /\ T # {}
  <2>1. ASSUME NEW m \in Nat PROVE IsFiniteSet(0..m-1) /\ 0..m-1 \in SUBSET Nat
    BY FS_Interval
  <2> QED
    BY <2>1 DEF FiniteSubsetsOf
<1>2. PICK x \in T : \A y \in T : <<y, x>> \notin R
  <2>1. IsWellFoundedOn(R, FiniteSubsetsOf(Nat))
    BY FS_StrictSubsetOrderingWellFounded
  <2> HIDE DEF T, R
  <2> QED
    BY <1>1, <2>1, WFMin, Zenon
<1>3. PICK n \in S : x = 0..n - 1
  OBVIOUS
<1>4. ASSUME NEW m \in S, m < n PROVE FALSE
  <2>1. 0..m-1 \in T
    OBVIOUS
  <2>2. 0..m-1 \subseteq 0..n-1 /\ 0..n-1 \subseteq Nat /\ m \in 0..n-1 /\ m \notin 0..m-1
    BY <1>4
  <2>3. <<0..m-1, 0..n-1>> \in R
    BY <2>2, Zenon DEF StrictSubsetOrdering
  <2> QED
    BY <1>2, <1>3, <2>1, <2>3
<1> QED
  BY <1>4

\* What is followed in one hop more.
Followed(f, h) ==
    [w \in Works |-> IF h = 0 \/ ~Supersession!Superseded(w) THEN {w}
                     ELSE UNION {f[h - 1][v] : v \in Supersession!Successors(w)}]

\* There is a function as the recursion of Reached demands, up to any number of hops.
LEMMA FollowedSoFar ==
  ASSUME NEW n \in Nat
  PROVE  \E f : f = [h \in 0..n |-> Followed(f, h)]
<1> DEFINE Bad == {m \in Nat : ~ \E f : f = [h \in 0..m |-> Followed(f, h)]}
<1> SUFFICES ASSUME Bad # {} PROVE FALSE
  OBVIOUS
<1>1. PICK m \in Bad : \A k \in Bad : m <= k
  <2>1. Bad \in SUBSET Nat
    OBVIOUS
  <2> HIDE DEF Bad
  <2> QED
    BY <2>1, LeastNumber
<1>2. m # 0
  <2> DEFINE f == [h \in 0..0 |-> [w \in Works |-> {w}]]
  <2>1. \A h \in 0..0 : Followed(f, h) = [w \in Works |-> {w}]
    BY DEF Followed
  <2>2. f = [h \in 0..0 |-> Followed(f, h)]
    BY <2>1
  <2> HIDE DEF f
  <2> QED
    BY <2>2
<1>3. PICK f : f = [h \in 0..m - 1 |-> Followed(f, h)]
  <2>1. m - 1 \in Nat /\ m - 1 \notin Bad
    BY <1>1, <1>2
  <2> QED
    BY <2>1
<1> DEFINE g == [h \in 0..m |-> Followed(f, h)]
<1>4. \A h \in 0..m - 1 : g[h] = f[h]
  BY <1>3
<1>5. ASSUME NEW h \in 0..m PROVE Followed(g, h) = Followed(f, h)
  <2>1. CASE h = 0
    BY <2>1 DEF Followed
  <2>2. CASE h # 0
    <3>0. h - 1 \in 0..m - 1
      BY <2>2
    <3>1. g[h - 1] = f[h - 1]
      BY <1>4, <3>0
    <3> HIDE DEF g
    <3> QED
      BY <3>1 DEF Followed
  <2> QED
    BY <2>1, <2>2
<1>6. g = [h \in 0..m |-> Followed(g, h)]
  BY <1>5
<1> HIDE DEF g
<1> QED
  BY <1>6

LEMMA ReachedIs ==
  ASSUME NEW h \in 0..Hops
  PROVE  Supersession!Reached[h] = Followed(Supersession!Reached, h)
<1>1. Hops \in Nat
  BY GovernanceAssumption DEF Supersession!SupersessionAssumption
<1>2. \E f : f = [k \in 0..Hops |-> Followed(f, k)]
  BY <1>1, FollowedSoFar
<1>3. Supersession!Reached = [k \in 0..Hops |-> Followed(Supersession!Reached, k)]
  BY <1>2, Zenon DEF Supersession!Reached, Followed
<1> QED
  BY <1>3

\* Without a fork there is one work to end at; with hops enough for the rank of the work that
\* is followed, it is not superseded.
LEMMA OneEnd ==
  ASSUME supersedes \subseteq Edges, NoFork, InProject, NEW r \in [Works -> Nat], Descends(r), NEW h \in 0..Hops, NEW w \in Works
  PROVE  \E v \in Works : /\ Supersession!Reached[h][w] = {v} /\ Project[v] = Project[w]
                          /\ r[w] <= h => ~Supersession!Superseded(v)
<1> DEFINE Ends(u, k) == \E v \in Works : /\ Supersession!Reached[k][u] = {v} /\ Project[v] = Project[u]
                                          /\ r[u] <= k => ~Supersession!Superseded(v)
           Bad == {k \in 0..Hops : \E u \in Works : ~Ends(u, k)}
<1>0. Hops \in Nat
  BY GovernanceAssumption DEF Supersession!SupersessionAssumption
<1> SUFFICES ASSUME Bad # {} PROVE FALSE
  OBVIOUS
<1>1. PICK k \in Bad : \A m \in Bad : k <= m
  <2>1. Bad \in SUBSET Nat
    BY <1>0
  <2> HIDE DEF Bad
  <2> QED
    BY <2>1, LeastNumber
<1>2. PICK u \in Works : ~Ends(u, k)
  OBVIOUS
<1>3. Supersession!Reached[k][u] = IF k = 0 \/ ~Supersession!Superseded(u) THEN {u}
         ELSE UNION {Supersession!Reached[k - 1][v] : v \in Supersession!Successors(u)}
  BY ReachedIs DEF Followed
<1>4. CASE ~Supersession!Superseded(u)
  BY <1>2, <1>3, <1>4
<1>5. CASE Supersession!Superseded(u)
  <2>1. PICK e \in supersedes : e[1] = u
    BY <1>5 DEF Supersession!Superseded
  <2>2. e[2] \in Works /\ r[u] > r[e[2]] /\ Project[u] = Project[e[2]] /\ r[u] \in Nat /\ r[e[2]] \in Nat
    BY <2>1 DEF Descends, InProject, Edges
  <2>3. CASE k = 0
    BY <1>2, <1>3, <2>2, <2>3
  <2>4. CASE k # 0
    <3>1. Supersession!Successors(u) = {e[2]}
      BY <2>1 DEF Supersession!Successors, NoFork
    <3>2. Supersession!Reached[k][u] = Supersession!Reached[k - 1][e[2]]
      BY <1>3, <1>5, <2>4, <3>1
    <3>3. k \in 0..Hops /\ k - 1 \in 0..Hops /\ k - 1 \notin Bad
      <4>1. k \in 0..Hops
        BY <1>1
      <4>2. k - 1 \in 0..Hops /\ ~(k <= k - 1)
        BY <1>0, <2>4, <4>1
      <4> HIDE DEF Bad
      <4> QED
        BY <1>1, <4>1, <4>2
    <3>4. PICK v \in Works : /\ Supersession!Reached[k - 1][e[2]] = {v} /\ Project[v] = Project[e[2]]
                             /\ r[e[2]] <= k - 1 => ~Supersession!Superseded(v)
      BY <2>2, <3>3
    <3>5. r[u] <= k => r[e[2]] <= k - 1
      BY <2>2, <3>3
    <3> QED
      BY <1>2, <2>2, <3>2, <3>4, <3>5
  <2> QED
    BY <2>3, <2>4
<1> QED
  BY <1>4, <1>5

LEMMA EdgesLeadToOne == SupersessionInv => CandidateIsCanonical
<1> SUFFICES ASSUME SupersessionInv PROVE CandidateIsCanonical
  OBVIOUS
<1>1. ASSUME ~raced, NEW w \in Works
      PROVE  \E v \in Works : /\ Supersession!Reached[Hops][w] = {v} /\ Project[v] = Project[w]
                              /\ Supersession!Cardinality(supersedes) <= Hops => ~Supersession!Superseded(v)
  <2>1. supersedes \subseteq Edges /\ IsFiniteSet(supersedes) /\ NoFork /\ InProject /\ Ranked
    BY <1>1 DEF SupersessionInv, SupersessionType
  <2>2. Cardinality(supersedes) \in Nat /\ Hops \in Nat
    BY <2>1, FS_CardinalityType, GovernanceAssumption DEF Supersession!SupersessionAssumption
  <2>3. PICK r \in [Works -> 0..Cardinality(supersedes)] : Descends(r)
    BY <2>1 DEF Ranked
  <2>4. r \in [Works -> Nat] /\ r[w] <= Cardinality(supersedes) /\ r[w] \in Nat
    BY <2>2, <2>3
  <2>5. PICK v \in Works : /\ Supersession!Reached[Hops][w] = {v} /\ Project[v] = Project[w]
                           /\ r[w] <= Hops => ~Supersession!Superseded(v)
    BY <2>1, <2>2, <2>3, <2>4, OneEnd
  <2> QED
    BY <2>2, <2>4, <2>5, CardinalityInParts
<1>2. \A e \in supersedes : \/ {<<e, e[1]>>, <<e, e[2]>>} \subseteq recorded \/ e \in cut
                           \/ \E s \in Sessions : Supersession!Telling(s) /\ linking[s].edge = e
  BY DEF SupersessionInv, Told, BothTold, IsTelling
<1>3. \A r \in recorded : r[1] \in supersedes /\ <<r[1], r[1][1]>> \in recorded
  BY DEF SupersessionInv, SupersessionType, Told
<1>4. ~raced => \A e \in cut : <<e, e[2]>> \notin recorded
  BY DEF SupersessionInv, Alone
<1> QED
  BY <1>1, <1>2, <1>3, <1>4, Zenon DEF CandidateIsCanonical, Supersession!CandidateIsCanonical

-----------------------------------------------------------------------------
(* NormativeBaseline. *)

Version == [version : Nat, effective : BOOLEAN, rev : Nat]
AllSemantics == [spec : Nat, specRev : Nat, contracts : SUBSET (Contracts \X Nat)]

\* The calls of create_spec, and the others.
SpecPcs == {"retire", "insert", "family"}
SpecCall == [pc : SpecPcs, familyRev : Nat, version : Nat, prior : Nat, priorRev : Nat, spec : Nat]
OtherChange == {Norms!Idle, [pc |-> "project"], [pc |-> "refresh"]}
               \cup [pc : {"materialize"}, semantics : AllSemantics, plan : BOOLEAN]

NormsType ==
    /\ specs \in Seq(Version)
    /\ family \in [spec : Nat, rev : Nat] /\ (family.spec # 0 => family.spec \in DOMAIN specs)
    /\ contracts \subseteq Contracts /\ generations \in [Contracts -> Nat]
    /\ changing \in [Sessions -> SpecCall \cup OtherChange]
    /\ changed \in Nat

\* What a call of create_spec has read and done.
Specifies(s) ==
    LET c == changing[s] IN
    /\ c.familyRev <= family.rev /\ c.version <= changed
    /\ c.familyRev = family.rev /\ family.spec # 0 => c.version > specs[family.spec].version
    /\ c.prior # 0 \/ c.pc = "retire" => c.prior \in DOMAIN specs
    /\ c.pc = "family" => c.spec \in DOMAIN specs /\ specs[c.spec].version = c.version /\ c.prior < c.spec

Versioned ==
    /\ \A n \in DOMAIN specs : specs[n].version <= changed
    /\ \A s \in Sessions : changing[s].pc \in SpecPcs => Specifies(s)

\* A specification that is not effective is retired by a call that has not ended, or the
\* family does not point at it and never will.
RetiredBy(n) == \E s \in Sessions : changing[s].pc \in {"insert", "family"} /\ changing[s].prior = n
Gone(n) ==
    /\ family.spec # n
    /\ \A s \in Sessions : changing[s].pc = "family" /\ changing[s].spec = n => changing[s].familyRev # family.rev
Retired == casualty \/ \A n \in DOMAIN specs : specs[n].effective \/ RetiredBy(n) \/ Gone(n)

\* A call that will look for the baseline of the semantics, or has found that there is none.
Pending(s) ==
    \/ changing[s].pc \in {"insert", "family", "project", "refresh"}
    \/ changing[s].pc = "materialize" /\ changing[s].semantics = Norms!Semantics
Baselined == casualty \/ promoted \/ Norms!Semantics \in materialized \/ \E s \in Sessions : Pending(s)

NormsInv == NormsType /\ Versioned /\ Retired /\ Baselined /\ boundPlans \subseteq materialized

LEMMA VersionTypes ==
  ASSUME specs \in Seq(Version), NEW n \in DOMAIN specs
  PROVE  specs[n] \in Version /\ specs[n].version \in Nat /\ specs[n].rev \in Nat
<1>1. specs[n] \in Version
  OBVIOUS
<1> QED
  BY <1>1 DEF Version

LEMMA NormsInit == Norms!Init => NormsInv
<1> SUFFICES ASSUME Norms!Init PROVE NormsInv
  OBVIOUS
<1>1. /\ specs = <<>> /\ family = [spec |-> 0, rev |-> 0] /\ contracts = First /\ evolution = {}
      /\ generations = [c \in Contracts |-> 1] /\ boundPlans = {} /\ changed = 0
      /\ changing = [s \in Sessions |-> Norms!Idle]
      /\ materialized = {[spec |-> 0, specRev |-> 0, contracts |-> First \X {1}]}
  BY DEF Norms!Init
<1>2. DOMAIN specs = {} /\ specs \in Seq(Version) /\ First \subseteq Contracts
  BY <1>1, GovernanceAssumption DEF Norms!BaselineAssumption
<1>3. NormsType
  BY <1>1, <1>2 DEF NormsType, OtherChange
<1>4. Versioned /\ Retired
  BY <1>1, <1>2 DEF Versioned, Retired, SpecPcs, Norms!Idle
<1>5. Norms!Semantics \in materialized
  <2>1. Norms!Effective = First
    BY <1>1 DEF Norms!Effective
  <2>2. {<<c, generations[c]>> : c \in First} = First \X {1}
    BY <1>1, <1>2
  <2>3. Norms!Semantics = [spec |-> 0, specRev |-> 0, contracts |-> First \X {1}]
    BY <1>1, <2>1, <2>2 DEF Norms!Semantics
  <2> QED
    BY <1>1, <2>3
<1> QED
  BY <1>1, <1>3, <1>4, <1>5 DEF NormsInv, Baselined

LEMMA GreatestNumber ==
  ASSUME NEW S \in SUBSET Nat, S # {}, NEW b \in Nat, \A x \in S : x <= b
  PROVE  \E x \in S : \A y \in S : x >= y
<1> DEFINE Bounds == {m \in Nat : \A x \in S : x <= m}
<1>1. PICK m \in Bounds : \A k \in Bounds : m <= k
  <2>1. Bounds \in SUBSET Nat /\ Bounds # {}
    OBVIOUS
  <2> HIDE DEF Bounds
  <2> QED
    BY <2>1, LeastNumber
<1>2. CASE m \in S
  BY <1>2
<1>3. CASE m \notin S
  <2>1. \A x \in S : x < m
    BY <1>3
  <2>0. PICK z \in S : TRUE
    OBVIOUS
  <2>2. m - 1 \in Nat /\ \A x \in S : x <= m - 1
    BY <2>0, <2>1
  <2>3. m - 1 \in Bounds /\ ~(m <= m - 1)
    BY <2>2
  <2> QED
    BY <1>1, <2>3
<1> QED
  BY <1>2, <1>3

\* The version that a call gives is higher than all there are.
LEMMA NextVersion ==
  ASSUME NormsType, Versioned
  PROVE  /\ Norms!Max(Norms!Versions \cup {0}) + 1 \in Nat
         /\ Norms!Max(Norms!Versions \cup {0}) + 1 <= changed + 1
         /\ \A n \in DOMAIN specs : Norms!Max(Norms!Versions \cup {0}) + 1 > specs[n].version
<1> DEFINE V == Norms!Versions \cup {0}
<1>1. \A n \in DOMAIN specs : specs[n] \in Version
  BY DEF NormsType
<1>2. V \in SUBSET Nat /\ V # {} /\ \A x \in V : x <= changed
  BY <1>1 DEF Norms!Versions, Version, NormsType, Versioned
<1>3. \A n \in DOMAIN specs : specs[n].version \in V
  BY DEF Norms!Versions
<1> HIDE DEF V
<1>4. \E x \in V : \A y \in V : x >= y
  BY <1>2, GreatestNumber DEF NormsType
<1>5. Norms!Max(V) \in V /\ \A y \in V : Norms!Max(V) >= y
  BY <1>4 DEF Norms!Max
<1>6. Norms!Max(V) + 1 \in Nat /\ Norms!Max(V) + 1 <= changed + 1 /\ \A n \in DOMAIN specs : Norms!Max(V) + 1 > specs[n].version
  <2>1. Norms!Max(V) \in Nat /\ Norms!Max(V) <= changed /\ changed \in Nat
    BY <1>2, <1>5 DEF NormsType
  <2>2. \A n \in DOMAIN specs : specs[n].version \in Nat /\ Norms!Max(V) >= specs[n].version
    BY <1>2, <1>3, <1>5
  <2> QED
    BY <2>1, <2>2
<1> QED
  BY <1>6 DEF V

LEMMA SemanticsType == NormsType => Norms!Semantics \in AllSemantics
<1> SUFFICES ASSUME NormsType PROVE Norms!Semantics \in AllSemantics
  OBVIOUS
<1>1. Norms!Effective \subseteq Contracts
  BY DEF Norms!Effective, NormsType
<1>2. {<<c, generations[c]>> : c \in Norms!Effective} \in SUBSET (Contracts \X Nat)
  BY <1>1 DEF NormsType
<1>3. family.spec \in Nat /\ (family.spec # 0 => specs[family.spec].rev \in Nat)
  BY VersionTypes DEF NormsType
<1> QED
  BY <1>2, <1>3 DEF Norms!Semantics, AllSemantics

LEMMA SemanticsSame ==
  ASSUME UNCHANGED <<specs, family, contracts, evolution, generations>>
  PROVE  Norms!Semantics' = Norms!Semantics
BY DEF Norms!Semantics, Norms!Effective

\* A step that leaves the specifications and the family: the call goes on with other things,
\* and if it has retired a specification, it has failed or died.
LEMMA SpecsStay ==
  ASSUME NormsInv, NEW s \in Sessions, NEW d \in OtherChange, changing' = [changing EXCEPT ![s] = d],
         UNCHANGED <<specs, family>>, changed' \in Nat, changed' >= changed,
         casualty => casualty', changing[s].pc \in {"insert", "family"} => casualty'
  PROVE  (Versioned /\ Retired)' /\ changing' \in [Sessions -> SpecCall \cup OtherChange]
<1>1. changing \in [Sessions -> SpecCall \cup OtherChange] /\ changed \in Nat /\ specs \in Seq(Version)
  BY DEF NormsInv, NormsType
<1>2. changing'[s] = d /\ \A t \in Sessions \ {s} : changing'[t] = changing[t]
  BY <1>1
<1>3. d.pc \notin SpecPcs
  BY DEF OtherChange, SpecPcs, Norms!Idle
<1>4. \A n \in DOMAIN specs : specs[n].version \in Nat
  BY <1>1, VersionTypes
<1>5. \A t \in Sessions : changing[t].pc \in SpecPcs => changing[t] \in SpecCall
  BY <1>1 DEF OtherChange, SpecPcs, Norms!Idle
<1>6. Versioned'
  <2>1. \A n \in DOMAIN specs' : specs'[n].version <= changed'
    BY <1>1, <1>4 DEF NormsInv, Versioned
  <2>2. ASSUME NEW t \in Sessions, changing'[t].pc \in SpecPcs PROVE Specifies(t)'
    <3>1. t # s /\ changing'[t] = changing[t] /\ changing[t] \in SpecCall
      BY <1>2, <1>3, <1>5, <2>2
    <3>2. changing[t].version \in Nat
      BY <3>1 DEF SpecCall
    <3>3. Specifies(t)
      BY <2>2, <3>1 DEF NormsInv, Versioned
    <3> QED
      BY <1>1, <3>1, <3>2, <3>3 DEF Specifies
  <2> QED
    BY <2>1, <2>2 DEF Versioned
<1>7. Retired'
  <2>1. CASE casualty'
    BY <2>1 DEF Retired
  <2>2. CASE ~casualty'
    <3>1. changing[s].pc \notin {"insert", "family"} /\ ~casualty
      BY <2>2
    <3>2. \A n : RetiredBy(n) => RetiredBy(n)'
      BY <1>2, <3>1 DEF RetiredBy
    <3>3. \A n : Gone(n) => Gone(n)'
      BY <1>2, <1>3 DEF Gone, SpecPcs
    <3> QED
      BY <3>1, <3>2, <3>3 DEF NormsInv, Retired
  <2> QED
    BY <2>1, <2>2
<1>8. changing' \in [Sessions -> SpecCall \cup OtherChange]
  BY <1>1
<1> QED
  BY <1>6, <1>7, <1>8

LEMMA BeginSpecStep ==
  ASSUME NormsInv, NEW s \in Sessions, NEW prior \in 0..MaxChanges, Norms!BeginSpec(s, prior)
  PROVE  NormsInv'
<1> DEFINE v == Norms!Max(Norms!Versions \cup {0}) + 1
           rev == IF prior = 0 THEN 0 ELSE specs[prior].rev
           pc == IF prior = 0 THEN "insert" ELSE "retire"
<1>1. /\ changing[s] = Norms!Idle /\ changed' = changed + 1 /\ (prior = 0 \/ prior \in DOMAIN specs)
      /\ changing' = [changing EXCEPT ![s] = [pc |-> pc, familyRev |-> family.rev, version |-> v,
                                              prior |-> prior, priorRev |-> rev, spec |-> 0]]
      /\ UNCHANGED <<specs, family, contracts, evolution, generations, materialized, boundPlans, casualty, promoted>>
  BY DEF Norms!BeginSpec, Norms!Begin, Norms!docs
<1>2. /\ changing \in [Sessions -> SpecCall \cup OtherChange] /\ changed \in Nat /\ specs \in Seq(Version)
      /\ family \in [spec : Nat, rev : Nat] /\ (family.spec # 0 => family.spec \in DOMAIN specs)
  BY DEF NormsInv, NormsType
<1>3. v \in Nat /\ v <= changed + 1 /\ \A n \in DOMAIN specs : v > specs[n].version
  BY NextVersion DEF NormsInv
<1> HIDE DEF v
<1>4. rev \in Nat /\ prior \in Nat /\ pc \in {"insert", "retire"}
  BY <1>1, <1>2, VersionTypes
<1>5. PICK d \in SpecCall : /\ d = [pc |-> pc, familyRev |-> family.rev, version |-> v,
                                    prior |-> prior, priorRev |-> rev, spec |-> 0]
  BY <1>2, <1>3, <1>4 DEF SpecCall, SpecPcs
<1>6. d.pc = pc /\ d.familyRev = family.rev /\ d.version = v /\ d.prior = prior
  BY <1>5
<1> HIDE DEF rev
<1>7. changing'[s] = d /\ (\A t \in Sessions \ {s} : changing'[t] = changing[t])
      /\ changing' \in [Sessions -> SpecCall \cup OtherChange]
  BY <1>1, <1>2, <1>5
<1>8. NormsType'
  BY <1>1, <1>2, <1>7 DEF NormsInv, NormsType
<1>9. Versioned'
  <2>1. \A n \in DOMAIN specs' : specs'[n].version <= changed'
    <3>1. \A n \in DOMAIN specs : specs[n].version \in Nat
      BY <1>2, VersionTypes
    <3> QED
      BY <1>1, <1>2, <3>1 DEF NormsInv, Versioned
  <2>2. Specifies(s)'
    BY <1>1, <1>2, <1>3, <1>4, <1>6, <1>7 DEF Specifies
  <2>3. ASSUME NEW t \in Sessions \ {s}, changing'[t].pc \in SpecPcs PROVE Specifies(t)'
    <3>1. changing'[t] = changing[t] /\ changing[t] \in SpecCall
      BY <1>2, <1>7, <2>3 DEF OtherChange, SpecPcs, Norms!Idle
    <3>2. changing[t].version \in Nat /\ Specifies(t)
      BY <2>3, <3>1 DEF SpecCall, NormsInv, Versioned
    <3> QED
      BY <1>1, <1>2, <3>1, <3>2 DEF Specifies
  <2> QED
    BY <2>1, <2>2, <2>3 DEF Versioned
<1>10. Retired'
  <2>1. changing[s].pc = "idle"
    BY <1>1 DEF Norms!Idle
  <2>2. \A n : RetiredBy(n) => RetiredBy(n)'
    BY <1>7, <2>1 DEF RetiredBy
  <2>3. \A n : Gone(n) => Gone(n)'
    BY <1>1, <1>4, <1>6, <1>7 DEF Gone
  <2> QED
    BY <1>1, <2>2, <2>3 DEF NormsInv, Retired
<1>11. Baselined'
  <2>1. changing[s].pc = "idle" /\ Norms!Semantics' = Norms!Semantics
    BY <1>1, SemanticsSame DEF Norms!Idle
  <2> QED
    BY <1>1, <1>7, <2>1 DEF NormsInv, Baselined, Pending
<1> QED
  BY <1>1, <1>8, <1>9, <1>10, <1>11 DEF NormsInv

LEMMA SpecCalls ==
  ASSUME NormsInv, NEW s \in Sessions, changing[s].pc \in SpecPcs
  PROVE  changing[s] \in SpecCall /\ Specifies(s)
<1>1. changing[s] \in SpecCall \cup OtherChange
  BY DEF NormsInv, NormsType
<1> QED
  BY <1>1 DEF OtherChange, SpecPcs, Norms!Idle, NormsInv, Versioned

LEMMA NormsBasics ==
  ASSUME NormsInv
  PROVE  /\ changing \in [Sessions -> SpecCall \cup OtherChange] /\ changed \in Nat /\ specs \in Seq(Version)
         /\ family \in [spec : Nat, rev : Nat] /\ (family.spec # 0 => family.spec \in DOMAIN specs)
         /\ contracts \subseteq Contracts /\ generations \in [Contracts -> Nat]
         /\ \A t \in Sessions : changing[t].pc \in SpecPcs => changing[t] \in SpecCall /\ Specifies(t)
BY SpecCalls DEF NormsInv, NormsType

\* The specification that the call replaces is retired, by the call.
LEMMA RetireStep ==
  ASSUME NormsInv, NEW s \in Sessions, Norms!RetireSpec(s)
  PROVE  NormsInv'
<1>1. /\ changing[s].pc = "retire" /\ changing[s] \in SpecCall /\ Specifies(s)
      /\ UNCHANGED <<family, contracts, evolution, generations, materialized, boundPlans, changed, casualty, promoted>>
  BY SpecCalls DEF Norms!RetireSpec, SpecPcs
<1>2. /\ changing \in [Sessions -> SpecCall \cup OtherChange] /\ changed \in Nat /\ specs \in Seq(Version)
      /\ family \in [spec : Nat, rev : Nat] /\ (family.spec # 0 => family.spec \in DOMAIN specs)
      /\ \A t \in Sessions : changing[t].pc \in SpecPcs => changing[t] \in SpecCall /\ Specifies(t)
  BY NormsBasics
<1>3. PICK c \in SpecCall : c = changing[s]
  BY <1>1
<1>4. CASE Norms!End(s) /\ UNCHANGED specs
  <2>1. changing' = [changing EXCEPT ![s] = Norms!Idle] /\ Norms!Idle \in OtherChange
    BY <1>4 DEF Norms!End, OtherChange
  <2>0. changed' \in Nat /\ changed' >= changed /\ (casualty => casualty')
        /\ (changing[s].pc \in {"insert", "family"} => casualty')
    BY <1>1, <1>2
  <2>2. (Versioned /\ Retired)' /\ changing' \in [Sessions -> SpecCall \cup OtherChange]
    BY <1>1, <1>4, <2>0, <2>1, SpecsStay
  <2>3. NormsType'
    BY <1>1, <1>4, <2>2 DEF NormsInv, NormsType
  <2>4. Baselined'
    <3>1. Norms!Semantics' = Norms!Semantics
      BY <1>1, <1>4, SemanticsSame
    <3>2. \A t \in Sessions \ {s} : changing'[t] = changing[t]
      BY <1>2, <2>1
    <3> QED
      BY <1>1, <3>1, <3>2 DEF NormsInv, Baselined, Pending
  <2> QED
    BY <1>1, <2>2, <2>3, <2>4 DEF NormsInv
<1>5. CASE /\ specs' = [specs EXCEPT ![c.prior] = [specs[c.prior] EXCEPT !.effective = FALSE, !.rev = c.priorRev + 1]]
           /\ Norms!Goto(s, "insert")
  <2>1. c.prior \in DOMAIN specs
    BY <1>1, <1>3 DEF Specifies
  <2>2. PICK old \in Version : old = specs[c.prior]
    BY <1>2, <2>1, VersionTypes
  <2>3. PICK new : new = [old EXCEPT !.effective = FALSE, !.rev = c.priorRev + 1]
    OBVIOUS
  <2>4. c.priorRev + 1 \in Nat
    BY DEF SpecCall
  <2>5. new \in Version /\ new.version = old.version
    BY <2>3, <2>4 DEF Version
  <2>6. specs' = [specs EXCEPT ![c.prior] = new]
    BY <1>5, <2>2, <2>3, Zenon
  <2>7. /\ specs' \in Seq(Version) /\ DOMAIN specs' = DOMAIN specs
        /\ \A n \in DOMAIN specs : specs'[n] = IF n = c.prior THEN new ELSE specs[n]
    BY <1>2, <2>1, <2>5, <2>6
  <2>8. \A n \in DOMAIN specs : /\ specs'[n].version = specs[n].version
                                /\ n # c.prior => specs'[n] = specs[n]
    BY <2>2, <2>5, <2>7
  <2>9. PICK d : d = [c EXCEPT !.pc = "insert"]
    OBVIOUS
  <2>10. /\ d \in SpecCall /\ d.pc = "insert" /\ d.familyRev = c.familyRev /\ d.version = c.version
         /\ d.prior = c.prior /\ d.spec = c.spec
    BY <2>9 DEF SpecCall, SpecPcs
  <2>11. changing' = [changing EXCEPT ![s] = d]
    BY <1>3, <1>5, <2>9, Zenon DEF Norms!Goto
  <2>12. changing'[s] = d /\ (\A t \in Sessions \ {s} : changing'[t] = changing[t])
         /\ changing' \in [Sessions -> SpecCall \cup OtherChange]
    BY <1>2, <2>10, <2>11
  <2>13. NormsType'
    BY <1>1, <2>7, <2>12 DEF NormsInv, NormsType
  <2>14. Versioned'
    <3>1. \A n \in DOMAIN specs' : specs'[n].version <= changed'
      BY <1>1, <2>7, <2>8 DEF NormsInv, Versioned
    <3>2. Specifies(s)'
      BY <1>1, <1>2, <1>3, <2>7, <2>8, <2>10, <2>12 DEF Specifies
    <3>3. ASSUME NEW t \in Sessions \ {s}, changing'[t].pc \in SpecPcs PROVE Specifies(t)'
      <4>1. changing'[t] = changing[t] /\ Specifies(t)
        BY <1>2, <2>12, <3>3
      <4> QED
        BY <1>1, <1>2, <2>7, <2>8, <4>1 DEF Specifies
    <3> QED
      BY <3>1, <3>2, <3>3 DEF Versioned
  <2>15. Retired'
    <3>1. \A n : RetiredBy(n) => RetiredBy(n)'
      BY <1>1, <2>12 DEF RetiredBy
    <3>2. RetiredBy(c.prior)'
      BY <2>10, <2>12 DEF RetiredBy
    <3>3. \A n : Gone(n) => Gone(n)'
      BY <1>1, <2>10, <2>12 DEF Gone
    <3> QED
      BY <1>1, <2>7, <2>8, <3>1, <3>2, <3>3 DEF NormsInv, Retired
  <2>16. Baselined'
    BY <2>10, <2>12 DEF Baselined, Pending
  <2> QED
    BY <1>1, <2>13, <2>14, <2>15, <2>16 DEF NormsInv
<1> QED
  BY <1>3, <1>4, <1>5 DEF Norms!RetireSpec

LEMMA InsertSpecStep ==
  ASSUME NormsInv, NEW s \in Sessions, Norms!InsertSpec(s)
  PROVE  NormsInv'
<1>1. /\ changing[s].pc = "insert" /\ changing[s] \in SpecCall /\ Specifies(s)
      /\ UNCHANGED <<family, contracts, evolution, generations, materialized, boundPlans, changed, casualty, promoted>>
  BY SpecCalls DEF Norms!InsertSpec, SpecPcs
<1>2. /\ changing \in [Sessions -> SpecCall \cup OtherChange] /\ changed \in Nat /\ specs \in Seq(Version)
      /\ family \in [spec : Nat, rev : Nat] /\ (family.spec # 0 => family.spec \in DOMAIN specs)
      /\ \A t \in Sessions : changing[t].pc \in SpecPcs => changing[t] \in SpecCall /\ Specifies(t)
  BY NormsBasics
<1>3. PICK c \in SpecCall : c = changing[s]
  BY <1>1
<1> DEFINE n == Len(specs) + 1
<1>4. PICK new : new = [version |-> c.version, effective |-> TRUE, rev |-> 0]
  OBVIOUS
<1>5. new \in Version /\ new.version = c.version /\ new.effective
  BY <1>4 DEF Version, SpecCall
<1>6. /\ specs' = Append(specs, new) /\ changing' = [changing EXCEPT ![s] = [c EXCEPT !.pc = "family", !.spec = n]]
  BY <1>3, <1>4 DEF Norms!InsertSpec
<1>7. /\ specs' \in Seq(Version) /\ DOMAIN specs' = DOMAIN specs \cup {n} /\ n \notin DOMAIN specs /\ n \in Nat
      /\ specs'[n] = new /\ \A m \in DOMAIN specs : specs'[m] = specs[m] /\ m \in Nat /\ m < n
  BY <1>2, <1>5, <1>6
<1>8. n > 0
  BY <1>2
<1> HIDE DEF n
<1>9. PICK d : d = [c EXCEPT !.pc = "family", !.spec = n]
  OBVIOUS
<1>10. /\ d \in SpecCall /\ d.pc = "family" /\ d.familyRev = c.familyRev /\ d.version = c.version
       /\ d.prior = c.prior /\ d.spec = n
  BY <1>7, <1>9 DEF SpecCall, SpecPcs
<1>11. changing'[s] = d /\ (\A t \in Sessions \ {s} : changing'[t] = changing[t])
       /\ changing' \in [Sessions -> SpecCall \cup OtherChange]
  BY <1>2, <1>6, <1>9, <1>10
<1>12. NormsType'
  BY <1>1, <1>2, <1>7, <1>11 DEF NormsInv, NormsType
<1>13. Versioned'
  <2>1. c.version <= changed /\ c.prior \in Nat /\ (c.prior # 0 => c.prior \in DOMAIN specs)
    BY <1>1, <1>3 DEF Specifies, SpecCall
  <2>2. \A m \in DOMAIN specs' : specs'[m].version <= changed'
    BY <1>1, <1>5, <1>7, <2>1 DEF NormsInv, Versioned
  <2>3. Specifies(s)'
    <3>1. c.prior < n
      BY <1>7, <1>8, <2>1
    <3>2. c.familyRev <= family.rev /\ (c.familyRev = family.rev /\ family.spec # 0 => c.version > specs[family.spec].version)
      BY <1>1, <1>3 DEF Specifies
    <3> QED
      BY <1>1, <1>2, <1>5, <1>7, <1>10, <1>11, <2>1, <3>1, <3>2 DEF Specifies
  <2>4. ASSUME NEW t \in Sessions \ {s}, changing'[t].pc \in SpecPcs PROVE Specifies(t)'
    <3>1. changing'[t] = changing[t] /\ Specifies(t)
      BY <1>2, <1>11, <2>4
    <3> QED
      BY <1>1, <1>2, <1>7, <3>1 DEF Specifies
  <2> QED
    BY <2>2, <2>3, <2>4 DEF Versioned
<1>14. Retired'
  <2>1. \A m : RetiredBy(m) => RetiredBy(m)'
    BY <1>3, <1>10, <1>11 DEF RetiredBy
  <2>2. \A m : m # n /\ Gone(m) => Gone(m)'
    BY <1>1, <1>10, <1>11 DEF Gone
  <2> QED
    BY <1>1, <1>5, <1>7, <2>1, <2>2 DEF NormsInv, Retired
<1>15. Baselined'
  BY <1>10, <1>11 DEF Baselined, Pending
<1> QED
  BY <1>1, <1>12, <1>13, <1>14, <1>15 DEF NormsInv

\* The family points at the new specification: of those that were not to be pointed at, none
\* is this one, and the calls that read the family before will find its revision moved.
LEMMA PointStep ==
  ASSUME NormsInv, NEW s \in Sessions, Norms!PointFamily(s)
  PROVE  NormsInv'
<1>1. /\ changing[s].pc = "family" /\ changing[s] \in SpecCall /\ Specifies(s)
      /\ UNCHANGED <<specs, contracts, evolution, generations, materialized, boundPlans, changed, promoted>>
  BY SpecCalls DEF Norms!PointFamily, SpecPcs
<1>2. /\ changing \in [Sessions -> SpecCall \cup OtherChange] /\ changed \in Nat /\ specs \in Seq(Version)
      /\ family \in [spec : Nat, rev : Nat] /\ (family.spec # 0 => family.spec \in DOMAIN specs)
      /\ \A t \in Sessions : changing[t].pc \in SpecPcs => changing[t] \in SpecCall /\ Specifies(t)
  BY NormsBasics
<1>3. CASE Norms!Fail(s) /\ UNCHANGED family
  <2>1. changing' = [changing EXCEPT ![s] = Norms!Idle] /\ Norms!Idle \in OtherChange /\ casualty' = TRUE
    BY <1>3 DEF Norms!Fail, Norms!End, OtherChange
  <2>0. changed' \in Nat /\ changed' >= changed /\ (casualty => casualty')
        /\ (changing[s].pc \in {"insert", "family"} => casualty')
    BY <1>1, <1>2, <2>1
  <2>2. (Versioned /\ Retired)' /\ changing' \in [Sessions -> SpecCall \cup OtherChange]
    BY <1>1, <1>3, <2>0, <2>1, SpecsStay
  <2>3. NormsType'
    BY <1>1, <1>3, <2>2 DEF NormsInv, NormsType
  <2> QED
    BY <1>1, <2>1, <2>2, <2>3 DEF NormsInv, Baselined
<1>4. CASE /\ Norms!Current(changing[s].familyRev)
           /\ family' = [spec |-> changing[s].spec, rev |-> family.rev + 1]
           /\ changing' = [changing EXCEPT ![s] = [pc |-> "refresh"]]
           /\ UNCHANGED casualty
  <2>1. PICK d \in OtherChange : d = [pc |-> "refresh"]
    BY DEF OtherChange
  <2>2. d.pc = "refresh"
    BY <2>1
  <2>3. changing'[s] = d /\ (\A t \in Sessions \ {s} : changing'[t] = changing[t])
        /\ changing' \in [Sessions -> SpecCall \cup OtherChange]
    BY <1>2, <1>4, <2>1
  <2>4. /\ family'.spec = changing[s].spec /\ family'.rev = family.rev + 1
        /\ family' \in [spec : Nat, rev : Nat] /\ family'.spec \in DOMAIN specs
        /\ changing[s].familyRev = family.rev /\ family.rev \in Nat
    BY <1>1, <1>2, <1>4 DEF Specifies, SpecCall, Norms!Current
  <2>5. NormsType'
    BY <1>1, <1>2, <2>3, <2>4 DEF NormsInv, NormsType
  <2>6. \A t \in Sessions : changing'[t].pc \in SpecPcs => /\ t # s /\ changing'[t] = changing[t] /\ changing[t] \in SpecCall
                                                           /\ Specifies(t) /\ changing[t].familyRev < family'.rev
    <3>1. ASSUME NEW t \in Sessions, changing'[t].pc \in SpecPcs
          PROVE  t # s /\ changing'[t] = changing[t] /\ changing[t] \in SpecCall /\ Specifies(t)
      BY <1>2, <2>2, <2>3, <3>1 DEF SpecPcs
    <3> QED
      BY <2>4, <3>1 DEF Specifies, SpecCall
  <2>7. Versioned'
    <3>1. ASSUME NEW t \in Sessions, changing'[t].pc \in SpecPcs PROVE Specifies(t)'
      <4>1. changing'[t] = changing[t] /\ Specifies(t) /\ changing[t].familyRev < family'.rev /\ changing[t].familyRev \in Nat
        BY <2>6, <3>1 DEF SpecCall
      <4> QED
        BY <1>1, <2>4, <4>1 DEF Specifies
    <3> QED
      BY <1>1, <3>1 DEF NormsInv, Versioned
  <2>8. Retired'
    <3>1. ASSUME NEW n \in DOMAIN specs, ~specs[n].effective, ~casualty
          PROVE  RetiredBy(n)' \/ Gone(n)'
      <4>1. ASSUME NEW t \in Sessions, changing'[t].pc = "family"
            PROVE  changing'[t].familyRev # family'.rev
        <5>1. changing'[t] = changing[t] /\ changing[t].familyRev < family'.rev /\ changing[t].familyRev \in Nat
          BY <2>6, <4>1 DEF SpecCall, SpecPcs
        <5> QED
          BY <2>4, <5>1
      <4>2. CASE Gone(n)
        BY <1>1, <2>4, <4>1, <4>2 DEF Gone
      <4>3. CASE RetiredBy(n)
        <5>1. PICK t \in Sessions : changing[t].pc \in {"insert", "family"} /\ changing[t].prior = n
          BY <4>3 DEF RetiredBy
        <5>2. CASE t = s
          <6>1. n < family'.spec /\ family'.spec \in Nat /\ n \in Nat
            BY <1>1, <2>4, <5>1, <5>2 DEF Specifies, SpecCall
          <6> QED
            BY <4>1, <6>1 DEF Gone
        <5>3. CASE t # s
          BY <2>3, <5>1, <5>3 DEF RetiredBy
        <5> QED
          BY <5>2, <5>3
      <4> QED
        BY <3>1, <4>2, <4>3 DEF NormsInv, Retired
    <3> QED
      BY <1>1, <1>4, <3>1 DEF Retired
  <2>9. Baselined'
    BY <2>2, <2>3 DEF Baselined, Pending
  <2> QED
    BY <1>1, <2>5, <2>7, <2>8, <2>9 DEF NormsInv
<1> QED
  BY <1>3, <1>4 DEF Norms!PointFamily

\* The projection moves the revision of the family and nothing else of it.
LEMMA ProjectStep ==
  ASSUME NormsInv, NEW s \in Sessions, Norms!ProjectFamily(s)
  PROVE  NormsInv'
<1>1. /\ changing[s].pc = "project" /\ changing' = [changing EXCEPT ![s] = [pc |-> "refresh"]]
      /\ UNCHANGED <<specs, contracts, evolution, generations, materialized, boundPlans, changed, casualty, promoted>>
  BY DEF Norms!ProjectFamily, Norms!Changed
<1>2. /\ changing \in [Sessions -> SpecCall \cup OtherChange] /\ changed \in Nat /\ specs \in Seq(Version)
      /\ family \in [spec : Nat, rev : Nat] /\ (family.spec # 0 => family.spec \in DOMAIN specs)
      /\ \A t \in Sessions : changing[t].pc \in SpecPcs => changing[t] \in SpecCall /\ Specifies(t)
  BY NormsBasics
<1>3. PICK f \in [spec : Nat, rev : Nat] : f = family
  BY <1>2
<1>4. family' = [f EXCEPT !.rev = f.rev + 1]
  BY <1>3 DEF Norms!ProjectFamily
<1>5. family' \in [spec : Nat, rev : Nat] /\ family'.spec = family.spec /\ family'.rev = family.rev + 1 /\ family.rev \in Nat
  BY <1>3, <1>4
<1>6. PICK d \in OtherChange : d = [pc |-> "refresh"]
  BY DEF OtherChange
<1>7. d.pc = "refresh"
  BY <1>6
<1>8. changing'[s] = d /\ (\A t \in Sessions \ {s} : changing'[t] = changing[t])
      /\ changing' \in [Sessions -> SpecCall \cup OtherChange]
  BY <1>1, <1>2, <1>6
<1>9. NormsType'
  BY <1>1, <1>2, <1>5, <1>8 DEF NormsInv, NormsType
<1>10. ASSUME NEW t \in Sessions, changing'[t].pc \in SpecPcs
       PROVE  /\ changing'[t] = changing[t] /\ Specifies(t) /\ changing[t].familyRev < family'.rev
              /\ changing[t].familyRev \in Nat
  <2>1. changing'[t] = changing[t] /\ changing[t] \in SpecCall /\ Specifies(t)
    BY <1>2, <1>7, <1>8, <1>10 DEF SpecPcs
  <2> QED
    BY <1>5, <2>1 DEF Specifies, SpecCall
<1>11. Versioned'
  <2>1. ASSUME NEW t \in Sessions, changing'[t].pc \in SpecPcs PROVE Specifies(t)'
    BY <1>1, <1>5, <1>10, <2>1 DEF Specifies
  <2> QED
    BY <1>1, <2>1 DEF NormsInv, Versioned
<1>12. Retired'
  <2>1. \A n : RetiredBy(n) => RetiredBy(n)'
    BY <1>1, <1>8 DEF RetiredBy
  <2>2. \A n : Gone(n) => Gone(n)'
    <3>1. ASSUME NEW t \in Sessions, changing'[t].pc = "family"
          PROVE  changing'[t].familyRev # family'.rev
      <4>1. changing'[t].familyRev < family'.rev /\ changing'[t].familyRev \in Nat
        BY <1>10, <3>1 DEF SpecPcs
      <4> QED
        BY <1>5, <4>1
    <3> QED
      BY <1>5, <3>1 DEF Gone
  <2> QED
    BY <1>1, <2>1, <2>2 DEF NormsInv, Retired
<1>13. Baselined'
  BY <1>7, <1>8 DEF Baselined, Pending
<1> QED
  BY <1>1, <1>9, <1>11, <1>12, <1>13 DEF NormsInv

\* A contract is registered, or superseded: the call will refresh the baseline.
LEMMA ContractStep ==
  ASSUME NormsInv, NEW s \in Sessions, NEW c \in Contracts, NEW e \in Contracts,
         Norms!RegisterContract(s, c) \/ Norms!LinkContracts(s, c, e)
  PROVE  NormsInv'
<1>1. /\ changing[s] = Norms!Idle /\ changed' = changed + 1 /\ changing' = [changing EXCEPT ![s] = [pc |-> "project"]]
      /\ UNCHANGED <<specs, family, generations, materialized, boundPlans, casualty, promoted>> /\ contracts' \subseteq Contracts
  BY NormsBasics DEF Norms!RegisterContract, Norms!LinkContracts, Norms!Begin
<1>2. changing \in [Sessions -> SpecCall \cup OtherChange] /\ changed \in Nat
  BY NormsBasics
<1>3. PICK d \in OtherChange : d = [pc |-> "project"]
  BY DEF OtherChange
<1>4. changing'[s] = d /\ d.pc = "project"
  BY <1>1, <1>2, <1>3
<1>5. (Versioned /\ Retired)' /\ changing' \in [Sessions -> SpecCall \cup OtherChange]
  <2>1. changed' \in Nat /\ changed' >= changed /\ (casualty => casualty')
        /\ (changing[s].pc \in {"insert", "family"} => casualty')
    BY <1>1, <1>2 DEF Norms!Idle
  <2> QED
    BY <1>1, <1>3, <2>1, SpecsStay
<1>6. NormsType'
  BY <1>1, <1>2, <1>5 DEF NormsInv, NormsType
<1>7. Baselined'
  BY <1>4 DEF Baselined, Pending
<1> QED
  BY <1>1, <1>5, <1>6, <1>7 DEF NormsInv

\* The semantics has its baseline, or the call goes on to make it.
LEMMA RefreshStep ==
  ASSUME NormsInv, NEW s \in Sessions, Norms!Refresh(s) \/ Norms!SubmitPlan(s)
  PROVE  NormsInv'
<1>1. /\ changing[s].pc \in {"idle", "refresh"} /\ changed' \in Nat /\ changed' >= changed
      /\ UNCHANGED <<specs, family, contracts, evolution, generations, materialized, casualty>>
  BY NormsBasics DEF Norms!Refresh, Norms!SubmitPlan, Norms!Begin, Norms!Idle, Norms!docs
<1>2. PICK p \in BOOLEAN :
        changing' = [changing EXCEPT ![s] = IF Norms!Semantics \in materialized THEN Norms!Idle
                                            ELSE [pc |-> "materialize", semantics |-> Norms!Semantics, plan |-> p]]
  BY DEF Norms!Refresh, Norms!SubmitPlan, Norms!Begin
<1>3. PICK d : d = IF Norms!Semantics \in materialized THEN Norms!Idle
                   ELSE [pc |-> "materialize", semantics |-> Norms!Semantics, plan |-> p]
  OBVIOUS
<1>4. d \in OtherChange /\ (Norms!Semantics \notin materialized => d.pc = "materialize" /\ d.semantics = Norms!Semantics)
  <2>1. Norms!Semantics \in AllSemantics
    BY SemanticsType DEF NormsInv
  <2> QED
    BY <1>3, <2>1 DEF OtherChange
<1>5. changing' = [changing EXCEPT ![s] = d] /\ changing \in [Sessions -> SpecCall \cup OtherChange]
  BY <1>2, <1>3, NormsBasics
<1>6. (Versioned /\ Retired)' /\ changing' \in [Sessions -> SpecCall \cup OtherChange]
  BY <1>1, <1>4, <1>5, SpecsStay
<1>7. NormsType'
  BY <1>1, <1>6 DEF NormsInv, NormsType
<1>8. Norms!Semantics' = Norms!Semantics
  BY <1>1, SemanticsSame
<1>9. Baselined'
  <2>1. CASE Norms!Semantics \in materialized
    BY <1>1, <1>8, <2>1 DEF Baselined
  <2>2. CASE Norms!Semantics \notin materialized
    <3>1. changing'[s] = d
      BY <1>5
    <3> QED
      BY <1>4, <1>8, <2>2, <3>1 DEF Baselined, Pending
  <2> QED
    BY <2>1, <2>2
<1>10. boundPlans' \subseteq materialized'
  BY <1>1 DEF Norms!Refresh, Norms!SubmitPlan, Norms!docs, NormsInv
<1> QED
  BY <1>6, <1>7, <1>9, <1>10 DEF NormsInv

\* The baseline is there: of the semantics, or of one that another call has changed since.
LEMMA BaselineStep ==
  ASSUME NormsInv, NEW s \in Sessions, Norms!Materialize(s)
  PROVE  NormsInv'
<1>1. /\ changing[s].pc = "materialize" /\ changing' = [changing EXCEPT ![s] = Norms!Idle]
      /\ materialized' = materialized \cup {changing[s].semantics}
      /\ boundPlans' \subseteq boundPlans \cup {changing[s].semantics}
      /\ promoted' = (promoted /\ changing[s].semantics # Norms!Semantics)
      /\ UNCHANGED <<specs, family, contracts, evolution, generations, changed, casualty>>
  BY DEF Norms!Materialize, Norms!End
<1>2. changing \in [Sessions -> SpecCall \cup OtherChange] /\ changed \in Nat /\ Norms!Idle \in OtherChange
  BY NormsBasics DEF OtherChange
<1>3. (Versioned /\ Retired)' /\ changing' \in [Sessions -> SpecCall \cup OtherChange]
  <2>1. changed' \in Nat /\ changed' >= changed /\ (casualty => casualty')
        /\ (changing[s].pc \in {"insert", "family"} => casualty')
    BY <1>1, <1>2
  <2> QED
    BY <1>1, <1>2, <2>1, SpecsStay
<1>4. NormsType'
  BY <1>1, <1>3 DEF NormsInv, NormsType
<1>5. Norms!Semantics' = Norms!Semantics
  BY <1>1, SemanticsSame
<1>6. Baselined'
  <2>1. CASE changing[s].semantics = Norms!Semantics
    BY <1>1, <1>5, <2>1 DEF Baselined
  <2>2. CASE changing[s].semantics # Norms!Semantics
    <3>1. ~Pending(s) /\ (promoted => promoted')
      BY <1>1, <2>2 DEF Pending
    <3>2. \A t \in Sessions \ {s} : changing'[t] = changing[t]
      BY <1>1, <1>2
    <3>3. \A t \in Sessions : Pending(t) => Pending(t)'
      BY <1>5, <3>1, <3>2 DEF Pending
    <3> QED
      BY <1>1, <1>5, <3>1, <3>3 DEF NormsInv, Baselined
  <2> QED
    BY <2>1, <2>2
<1>7. boundPlans' \subseteq materialized'
  BY <1>1 DEF NormsInv
<1> QED
  BY <1>3, <1>4, <1>6, <1>7 DEF NormsInv

LEMMA CrashStep ==
  ASSUME NormsInv, NEW s \in Sessions, Norms!Crash(s)
  PROVE  NormsInv'
<1>1. /\ changing' = [changing EXCEPT ![s] = Norms!Idle] /\ casualty' = TRUE /\ Norms!Idle \in OtherChange
      /\ UNCHANGED <<specs, family, contracts, evolution, generations, materialized, boundPlans, changed, promoted>>
  BY DEF Norms!Crash, Norms!Fail, Norms!End, Norms!docs, OtherChange
<1>2. (Versioned /\ Retired)' /\ changing' \in [Sessions -> SpecCall \cup OtherChange]
  <2>1. changed' \in Nat /\ changed' >= changed /\ (casualty => casualty')
        /\ (changing[s].pc \in {"insert", "family"} => casualty')
    BY <1>1, NormsBasics
  <2> QED
    BY <1>1, <2>1, SpecsStay
<1>3. NormsType'
  BY <1>1, <1>2 DEF NormsInv, NormsType
<1> QED
  BY <1>1, <1>2, <1>3 DEF NormsInv, Baselined

LEMMA PromoteStep ==
  ASSUME NormsInv, NEW c \in Contracts, Norms!PromoteGeneration(c)
  PROVE  NormsInv'
<1>1. /\ changed' = changed + 1 /\ generations' = [generations EXCEPT ![c] = @ + 1] /\ promoted' = TRUE
      /\ UNCHANGED <<specs, family, contracts, evolution, materialized, boundPlans, changing, casualty>>
  BY DEF Norms!PromoteGeneration
<1>2. /\ changed \in Nat /\ generations \in [Contracts -> Nat] /\ specs \in Seq(Version)
      /\ \A t \in Sessions : changing[t].pc \in SpecPcs => changing[t] \in SpecCall /\ Specifies(t)
  BY NormsBasics
<1>3. NormsType'
  BY <1>1, <1>2 DEF NormsInv, NormsType
<1>4. Versioned'
  <2>1. \A n \in DOMAIN specs : specs[n].version \in Nat
    BY <1>2, VersionTypes
  <2>2. \A n \in DOMAIN specs' : specs'[n].version <= changed'
    BY <1>1, <1>2, <2>1 DEF NormsInv, Versioned
  <2>3. ASSUME NEW t \in Sessions, changing[t].pc \in SpecPcs PROVE Specifies(t)'
    BY <1>1, <1>2, <2>3 DEF Specifies, SpecCall
  <2> QED
    BY <1>1, <2>2, <2>3 DEF Versioned
<1>5. Retired'
  BY <1>1 DEF NormsInv, Retired, RetiredBy, Gone
<1> QED
  BY <1>1, <1>3, <1>4, <1>5 DEF NormsInv, Baselined

LEMMA NormsNext == NormsInv /\ Norms!Next => NormsInv'
BY BeginSpecStep, RetireStep, InsertSpecStep, PointStep, ProjectStep, ContractStep, RefreshStep, BaselineStep, CrashStep,
   PromoteStep DEF Norms!Next

LEMMA NormsStutter ==
  ASSUME NormsInv, UNCHANGED norms
  PROVE  NormsInv'
<1>1. UNCHANGED <<specs, family, contracts, evolution, generations, materialized, boundPlans, changing, changed, casualty, promoted>>
  BY DEF norms
<1>2. Norms!Semantics' = Norms!Semantics
  BY <1>1, SemanticsSame
<1>3. NormsType' /\ Retired' /\ Baselined'
  BY <1>1, <1>2 DEF NormsInv, NormsType, Retired, RetiredBy, Gone, Baselined, Pending
<1>4. Versioned'
  BY <1>1 DEF NormsInv, Versioned, Specifies
<1> QED
  BY <1>1, <1>3, <1>4 DEF NormsInv

LEMMA NormsAreQuiet == NormsInv => QuietlyCurrent
<1> SUFFICES ASSUME NormsInv, ~casualty, \A s \in Sessions : changing[s] = Norms!Idle
             PROVE  /\ family.spec # 0 => specs[family.spec].effective
                    /\ promoted \/ Norms!Semantics \in materialized
                    /\ boundPlans \subseteq materialized
  BY DEF QuietlyCurrent, Norms!QuietlyCurrent
<1>1. \A s \in Sessions : changing[s].pc = "idle"
  <2>1. Norms!Idle.pc = "idle"
    BY DEF Norms!Idle
  <2> QED
    BY <2>1
<1>2. \A n \in DOMAIN specs : specs[n].effective \/ family.spec # n
  BY <1>1 DEF NormsInv, Retired, RetiredBy, Gone
<1>3. promoted \/ Norms!Semantics \in materialized
  BY <1>1 DEF NormsInv, Baselined, Pending
<1> QED
  BY <1>2, <1>3, NormsBasics DEF NormsInv

\* Only PointFamily moves the family to another specification.
LEMMA VersionStep ==
  ASSUME NormsInv, [Norms!Next]_norms, family'.spec # family.spec, family.spec # 0
  PROVE  specs'[family'.spec].version > specs[family.spec].version
<1>1. PICK s \in Sessions : Norms!PointFamily(s)
  <2>1. family' # family
    OBVIOUS
  <2>2. Norms!Next
    BY <2>1 DEF norms
  <2>3. ASSUME NEW s \in Sessions, Norms!ProjectFamily(s) PROVE FALSE
    <3>1. PICK f \in [spec : Nat, rev : Nat] : f = family
      BY NormsBasics
    <3> QED
      BY <2>3, <3>1 DEF Norms!ProjectFamily
  <2>4. ASSUME NEW s \in Sessions, NEW prior \in 0..MaxChanges, Norms!BeginSpec(s, prior) PROVE FALSE
    BY <2>1, <2>4 DEF Norms!BeginSpec, Norms!docs
  <2>5. ASSUME NEW s \in Sessions, NEW c \in Contracts, NEW d \in Contracts,
               Norms!RegisterContract(s, c) \/ Norms!LinkContracts(s, c, d)
        PROVE FALSE
    BY <2>1, <2>5 DEF Norms!RegisterContract, Norms!LinkContracts
  <2>6. ASSUME NEW s \in Sessions,
               \/ Norms!RetireSpec(s) \/ Norms!InsertSpec(s) \/ Norms!Refresh(s) \/ Norms!SubmitPlan(s)
               \/ Norms!Materialize(s) \/ Norms!Crash(s)
        PROVE FALSE
    BY <2>1, <2>6 DEF Norms!RetireSpec, Norms!InsertSpec, Norms!Refresh, Norms!SubmitPlan, Norms!Materialize,
       Norms!Crash, Norms!docs
  <2>7. ASSUME NEW c \in Contracts, Norms!PromoteGeneration(c) PROVE FALSE
    BY <2>1, <2>7 DEF Norms!PromoteGeneration
  <2> QED
    BY <2>2, <2>3, <2>4, <2>5, <2>6, <2>7 DEF Norms!Next
<1>2. changing[s].pc = "family" /\ changing[s] \in SpecCall /\ Specifies(s) /\ specs' = specs
  BY <1>1, SpecCalls DEF Norms!PointFamily, SpecPcs
<1>3. family'.spec = changing[s].spec /\ changing[s].familyRev = family.rev
  BY <1>1 DEF Norms!PointFamily, Norms!Current
<1> QED
  BY <1>2, <1>3 DEF Specifies

-----------------------------------------------------------------------------
(* The four parts together. *)

GovernanceInv == AdmissionInv /\ SupersessionInv /\ NormsInv /\ DelegationInv

LEMMA GovernanceInit == Init => GovernanceInv
BY AdmissionInit, SupersessionInit, NormsInit, DelegationInit DEF Init, GovernanceInv

LEMMA GovernanceNext == GovernanceInv /\ [Next]_<<part, admission, supersession, norms, delegation>> => GovernanceInv'
<1> SUFFICES ASSUME GovernanceInv, [Next]_<<part, admission, supersession, norms, delegation>> PROVE GovernanceInv'
  OBVIOUS
<1>1. /\ Admission!Next \/ UNCHANGED admission
      /\ Supersession!Next \/ UNCHANGED supersession
      /\ Norms!Next \/ UNCHANGED norms
      /\ Delegation!Next \/ UNCHANGED delegation
  BY DEF Next
<1> QED
  BY <1>1, AdmissionNext, AdmissionStutter, SupersessionNext, SupersessionStutter, NormsNext, NormsStutter,
     DelegationNext, DelegationStutter DEF GovernanceInv

LEMMA GovernanceIsInductive == Spec => []GovernanceInv
<1>1. Init => GovernanceInv
  BY GovernanceInit
<1>2. GovernanceInv /\ [Next]_<<part, admission, supersession, norms, delegation>> => GovernanceInv'
  BY GovernanceNext
<1> QED
  BY <1>1, <1>2, PTL DEF Spec

\* enter_work, for any number of sessions and prompts: a call that has a plan has admitted
\* work with its baseline, whoever died half way before it, and a prompt alone never binds
\* a plan to work that was there before the call.
THEOREM PlansFollowWork == Spec => []AdmissionIsComplete
<1>1. GovernanceInv => AdmissionIsComplete
  BY PlansFollowAdmission DEF GovernanceInv
<1> QED
  BY <1>1, GovernanceIsInductive, PTL

\* enter_work, start_slice: nobody takes a Slice from the plan it is bound to, the calls that
\* came too late have cancelled their own plan, no Slice is bound to a cancelled plan, and
\* whoever was told to work has an active one.
THEOREM OneTargetIsActive == Spec => OneActiveTarget
<1>1. GovernanceInv /\ [Next]_<<part, admission, supersession, norms, delegation>>
        => [Admission!Next]_admission
  BY DEF Next
<1>2. GovernanceInv /\ [Next]_<<part, admission, supersession, norms, delegation>> =>
        [ /\ \A i \in Intents, d \in Admission!DeclaredIds :
                slices[i][d].plan # 0 => slices'[i][d].plan \in {0, slices[i][d].plan}
          /\ \A n \in 1..MaxEnters :
                /\ answers'[n] = "CONCURRENT_WORK_REUSED" => plans'[n] = "CANCELLED"
                /\ answers'[n] \in {"NEW_WORK_ADMITTED", "EXISTING_WORK_BOUND"} => plans'[n] = "ACTIVE"
                /\ plans'[n] = "CANCELLED" =>
                      \A i \in Intents, d \in Admission!DeclaredIds : slices'[i][d].plan # n ]_(Admission!vars)
  BY <1>1, OneTargetStep DEF GovernanceInv
<1> QED
  BY <1>2, GovernanceIsInductive, PTL DEF Spec, OneActiveTarget, Admission!OneActiveTarget

\* supersede_work, for any number of works: as long as no two calls overlap, the confirmed
\* edges lead every work to one work of its project, which is not superseded unless there
\* are more edges than a candidate is followed.  The assurance histories tell of every edge
\* none of whose calls was cut short, and nothing adds what such a call has left out.
THEOREM SupersessionIsCanonical == Spec => []CandidateIsCanonical
<1>1. GovernanceInv => CandidateIsCanonical
  BY EdgesLeadToOne DEF GovernanceInv
<1> QED
  BY <1>1, GovernanceIsInductive, PTL

\* Changes of the norms that cross leave the family at an effective specification, the
\* semantics with its baseline, and every plan with a baseline that is there.
THEOREM NormsSettle == Spec => []QuietlyCurrent
<1>1. GovernanceInv => QuietlyCurrent
  BY NormsAreQuiet DEF GovernanceInv
<1> QED
  BY <1>1, GovernanceIsInductive, PTL

\* create_spec: the family is only moved to a specification of a higher version, although
\* the version is given long before the family is written.
THEOREM VersionsOnlyAdvance == Spec => VersionsAdvance
<1>1. GovernanceInv /\ [Next]_<<part, admission, supersession, norms, delegation>> => [Norms!Next]_norms
  BY DEF Next
<1>2. GovernanceInv /\ [Next]_<<part, admission, supersession, norms, delegation>> =>
        [ family'.spec # family.spec /\ family.spec # 0 =>
             specs'[family'.spec].version > specs[family.spec].version ]_(Norms!vars)
  BY <1>1, VersionStep DEF GovernanceInv
<1> QED
  BY <1>2, GovernanceIsInductive, PTL DEF Spec, VersionsAdvance, Norms!VersionsAdvance

\* authorize_delegation, for any number of coordinators: the race between counting and
\* inserting exceeds the highest limit published by fewer delegations than calls ran at the
\* same time, and what is costly was approved for its task.
THEOREM OverrunHasABound == Spec => []OverrunIsBounded
<1>1. GovernanceInv => OverrunIsBounded
  BY CountsBound DEF GovernanceInv
<1> QED
  BY <1>1, GovernanceIsInductive, PTL
===============================================================================
