---------------------------- MODULE WorkAdmission -----------------------------
(*****************************************************************************)
(* enter_work (work_control.py): a prompt becomes durable work.  The prompt, *)
(* normalised, is only a hint for finding work that is there; work that is   *)
(* there is continued by its reference.  Sessions enter the same prompt at   *)
(* the same time and may die anywhere; a worker finishes what was started.   *)
(*                                                                           *)
(* An intent stands for a normalised prompt of a workspace, for the admission *)
(* key made of it, and for the family and the work found under that key.     *)
(* A step is one access to a document that another session can reach; the    *)
(* documents that only this call reaches go with the step before.  The views *)
(* that the calls refresh are the subject of MaterializedViews, the life of  *)
(* a Slice after its start that of SliceLifecycle.                           *)
(*****************************************************************************)
EXTENDS Naturals, FiniteSets

CONSTANTS Sessions, Intents,
          MaxEnters      \* bound: calls of enter_work

\* Of the constants.
AdmissionAssumption == MaxEnters \in Nat

VARIABLES families,     \* admission keys that have a family, listed in its project
          requests,     \* admission keys that have an intake request
          works,        \* families that have a WorkIdentity
          baselines,    \* works whose current semantics has a baseline
          turns,        \* turns[n]: the turn of the call n
          plans,        \* plans[n]: the plan of the call n
          slices,       \* slices[i]: the Slices of the family i, by declared id
          entering,     \* entering[s]: the call of session s
          answers,      \* history: what the calls have answered
          entered

docs == <<families, requests, works, baselines, turns, plans, slices>>
vars == <<docs, entering, answers, entered>>

Idle == [pc |-> "idle"]

\* The declared ids: the one of the admission, and that of a continuation, which is
\* computed from the text, so that the same text continues the same Slice.
DeclaredIds == {"INTENT", "AUTO"}
NoSlice == [state |-> "ABSENT", plan |-> 0, rev |-> 0]

Init ==
    /\ families = {} /\ requests = {} /\ works = {} /\ baselines = {}
    /\ turns = [n \in 1..MaxEnters |-> "NONE"]
    /\ plans = [n \in 1..MaxEnters |-> "NONE"]
    /\ slices = [i \in Intents |-> [d \in DeclaredIds |-> NoSlice]]
    /\ entering = [s \in Sessions |-> Idle]
    /\ answers = [n \in 1..MaxEnters |-> "NONE"]
    /\ entered = 0

Goto(s, pc) == entering' = [entering EXCEPT ![s].pc = pc]
Answer(s, a) ==
    /\ answers' = [answers EXCEPT ![entering[s].n] = a]
    /\ entering' = [entering EXCEPT ![s] = Idle]
\* An exception that enter_work does not catch.
Fail(s) == Answer(s, "FAILED")

-----------------------------------------------------------------------------
(* Entering. *)

\* known says, for AdmissionIsComplete, whether the work was there when the call began.
Begin(s, i, pc, declared) ==
    /\ entering[s] = Idle
    /\ entered < MaxEnters
    /\ entered' = entered + 1
    /\ entering' = [entering EXCEPT ![s] = [pc |-> pc, n |-> entered + 1, intent |-> i, declared |-> declared, rev |-> 0,
                                        known |-> i \in works]]
    /\ UNCHANGED answers

\* Without a reference: create_project and create_family, both get_or_create.
EnterPrompt(s, i) ==
    /\ Begin(s, i, "check", "INTENT")
    /\ families' = families \cup {i}
    /\ UNCHANGED <<requests, works, baselines, turns, plans, slices>>

\* With work_ref; the new request has no admission key.
EnterReference(s, i) ==
    /\ i \in works
    /\ Begin(s, i, "turn", "AUTO")
    /\ UNCHANGED docs

\* Work that the prompt would silently rebind.
Candidate(i) == i \in works

CheckCandidate(s) ==
    LET i == entering[s].intent IN
    /\ entering[s].pc = "check"
    /\ IF Candidate(i)
       THEN Answer(s, "EXISTING_WORK_CANDIDATE") /\ UNCHANGED requests
       ELSE requests' = requests \cup {i} /\ Goto(s, "admit") /\ UNCHANGED answers
    /\ UNCHANGED <<families, works, baselines, turns, plans, slices, entered>>

\* admit_work: only the session that created the WorkIdentity refreshes the baseline.
AdmitWork(s) ==
    LET i == entering[s].intent IN
    /\ entering[s].pc = "admit"
    /\ works' = works \cup {i}
    /\ Goto(s, IF i \in works THEN "turn" ELSE "baseline")
    /\ UNCHANGED <<families, requests, baselines, turns, plans, slices, answers, entered>>

MutFindBaseline(s, pc, insert, next) ==
    /\ entering[s].pc = pc
    /\ Goto(s, IF entering[s].intent \in baselines \/ pc = "plan" THEN next ELSE insert)
    /\ UNCHANGED <<docs, answers, entered>>
\* _refresh_normative_baseline, find.
FindBaseline(s, pc, insert, next) ==
    /\ entering[s].pc = pc
    /\ Goto(s, IF entering[s].intent \in baselines THEN next ELSE insert)
    /\ UNCHANGED <<docs, answers, entered>>

\* ... and insert: the index allows one baseline of a semantics, the second one raises.
InsertBaseline(s, pc, next) ==
    LET i == entering[s].intent IN
    /\ entering[s].pc = pc
    /\ IF i \in baselines THEN Fail(s) /\ UNCHANGED baselines
                          ELSE baselines' = baselines \cup {i} /\ Goto(s, next) /\ UNCHANGED answers
    /\ UNCHANGED <<families, requests, works, turns, plans, slices, entered>>

-----------------------------------------------------------------------------
(* The plan of the call and its Slice. *)

BindTurn(s) ==
    /\ entering[s].pc = "turn"
    /\ turns' = [turns EXCEPT ![entering[s].n] = "BOUND"]
    /\ Goto(s, "plan")
    /\ UNCHANGED <<families, requests, works, baselines, plans, slices, answers, entered>>

\* submit_plan, once it has the current baseline.
RecordPlan(s) ==
    /\ entering[s].pc = "record"
    /\ plans' = [plans EXCEPT ![entering[s].n] = "RECORDED"]
    /\ Goto(s, "materialize")
    /\ UNCHANGED <<families, requests, works, baselines, turns, slices, answers, entered>>

Slice(s) == slices[entering[s].intent][entering[s].declared]
PutSlice(s, sl) == slices' = [slices EXCEPT ![entering[s].intent][entering[s].declared] = sl]

\* get_or_create of the unique (family, declared id).
Materialized(sl) == IF sl = NoSlice THEN [state |-> "PLANNED", plan |-> 0, rev |-> 0] ELSE sl

Materialize(s) ==
    /\ entering[s].pc = "materialize"
    /\ PutSlice(s, Materialized(Slice(s)))
    /\ turns' = [turns EXCEPT ![entering[s].n] = "ACTIVE"]
    /\ Goto(s, "start")
    /\ UNCHANGED <<families, requests, works, baselines, plans, answers, entered>>

\* The Slice is bound to the plan of another call.
Taken(sl, n) == sl.plan # 0 /\ sl.plan # n

\* start_slice, what it checks; InvalidTransition is not caught.
CheckSlice(s) ==
    LET sl == Slice(s) IN
    /\ entering[s].pc = "start"
    /\ IF Taken(sl, entering[s].n) THEN Goto(s, "collided") /\ UNCHANGED answers
       ELSE IF sl.state = "DONE_CLAIMED" THEN Fail(s)
       ELSE entering' = [entering EXCEPT ![s] = [@ EXCEPT !.pc = "bind", !.rev = sl.rev]] /\ UNCHANGED answers
    /\ UNCHANGED <<docs, entered>>

MutUnchanged(sl, rev) == TRUE
\* The compare-and-set of the Slice.
Unchanged(sl, rev) == sl.rev = rev

BindSlice(s) ==
    /\ entering[s].pc = "bind"
    /\ IF Unchanged(Slice(s), entering[s].rev)
       THEN /\ PutSlice(s, [state |-> "ACTIVE", plan |-> entering[s].n, rev |-> Slice(s).rev + 1])
            /\ Goto(s, "started")
       ELSE Goto(s, "collided") /\ UNCHANGED slices
    /\ UNCHANGED <<families, requests, works, baselines, turns, plans, answers, entered>>

ActivatePlan(s) ==
    /\ entering[s].pc = "started"
    /\ plans' = [plans EXCEPT ![entering[s].n] = "ACTIVE"]
    /\ Answer(s, IF entering[s].declared = "INTENT" THEN "NEW_WORK_ADMITTED" ELSE "EXISTING_WORK_BOUND")
    /\ UNCHANGED <<families, requests, works, baselines, turns, slices, entered>>

\* After PlanRequired or RevisionConflict: somebody else has the Slice; else raise.
Redundant(sl, n) == sl.plan # 0 /\ sl.plan # n

Collided(s) ==
    /\ entering[s].pc = "collided"
    /\ IF Redundant(Slice(s), entering[s].n) THEN Goto(s, "cancel") /\ UNCHANGED answers ELSE Fail(s)
    /\ UNCHANGED <<docs, entered>>

CancelPlan(s) ==
    /\ entering[s].pc = "cancel"
    /\ plans' = [plans EXCEPT ![entering[s].n] = "CANCELLED"]
    /\ Answer(s, "CONCURRENT_WORK_REUSED")
    /\ UNCHANGED <<families, requests, works, baselines, turns, slices, entered>>

-----------------------------------------------------------------------------
(* Around the calls. *)

Crash(s) ==
    /\ entering[s] # Idle
    /\ Answer(s, "CRASHED")
    /\ UNCHANGED <<docs, entered>>

\* claim_done by the worker of the plan; the plan document stays as it is.
Finish(i, d) ==
    /\ slices[i][d].plan # 0
    /\ slices' = [slices EXCEPT ![i][d] = [state |-> "DONE_CLAIMED", plan |-> 0, rev |-> @.rev + 1]]
    /\ UNCHANGED <<families, requests, works, baselines, turns, plans, entering, answers, entered>>

\* A validator sends the Slice back: it may be started again.
SendBack(i, d) ==
    /\ slices[i][d].state = "DONE_CLAIMED"
    /\ slices' = [slices EXCEPT ![i][d] = [slices[i][d] EXCEPT !.state = "REWORK_REQUIRED", !.rev = slices[i][d].rev + 1]]
    /\ UNCHANGED <<families, requests, works, baselines, turns, plans, entering, answers, entered>>

EnterStep(s) ==
    \/ CheckCandidate(s) \/ AdmitWork(s)
    \/ FindBaseline(s, "baseline", "insertBaseline", "turn") \/ InsertBaseline(s, "insertBaseline", "turn")
    \/ BindTurn(s)
    \/ FindBaseline(s, "plan", "planBaseline", "record") \/ InsertBaseline(s, "planBaseline", "record")
    \/ RecordPlan(s) \/ Materialize(s) \/ CheckSlice(s) \/ BindSlice(s) \/ ActivatePlan(s)
    \/ Collided(s) \/ CancelPlan(s)

Next ==
    \/ \E s \in Sessions, i \in Intents : EnterPrompt(s, i) \/ EnterReference(s, i)
    \/ \E s \in Sessions : EnterStep(s) \/ Crash(s)
    \/ \E i \in Intents, d \in DeclaredIds : Finish(i, d) \/ SendBack(i, d)

Spec == Init /\ [][Next]_vars

-----------------------------------------------------------------------------
(* Properties. *)

\* Sessions that enter the same prompt at the same time get one execution target: nobody
\* takes a Slice from the plan that it is bound to, the calls that were late have cancelled
\* their own plan and no other, and whoever was told to work has an active plan
\* (TEST_REPORT.md: "at most one active execution target").
OneActiveTarget ==
    [][ /\ \A i \in Intents, d \in DeclaredIds :
              slices[i][d].plan # 0 => slices'[i][d].plan \in {0, slices[i][d].plan}
        /\ \A n \in 1..MaxEnters :
              /\ answers'[n] = "CONCURRENT_WORK_REUSED" => plans'[n] = "CANCELLED"
              /\ answers'[n] \in {"NEW_WORK_ADMITTED", "EXISTING_WORK_BOUND"} => plans'[n] = "ACTIVE"
              /\ plans'[n] = "CANCELLED" =>
                    \A i \in Intents, d \in DeclaredIds : slices'[i][d].plan # n ]_vars

\* A plan exists only for admitted work, under a baseline of its semantics: a session that
\* died between the steps of an admission leaves nothing half admitted to the sessions
\* after it, although only the creator of the work refreshes the baseline.  And the prompt
\* alone never binds a plan to work that was there before the call (SECURITY.md:50).
AdmissionIsComplete ==
    \A s \in Sessions : entering[s] # Idle /\ plans[entering[s].n] # "NONE" =>
        /\ entering[s].intent \in works \cap baselines
        /\ entering[s].declared = "INTENT" => ~entering[s].known
=============================================================================
