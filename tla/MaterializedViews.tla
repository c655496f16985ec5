-------------------------- MODULE MaterializedViews --------------------------
(***************************************************************************)
(* The views that readers are served (service.py, work_control.py): the    *)
(* family document with its `current` summary, the project_views row that  *)
(* status() returns and the work_views row that work_context() returns.    *)
(*                                                                         *)
(* Every operation commits its own document first and then refreshes the   *)
(* views step by step: read, fetch the row's revision, compare-and-set.    *)
(* Nothing locks the store between the steps.  A call is here its commit   *)
(* and the sequence of refresh steps still to do; what guards the commit   *)
(* is the subject of SliceLifecycle and EffectJournal.                     *)
(*                                                                         *)
(* A revision is modelled by what it decides: row \in fresh[s] when nobody *)
(* has written the row since session s fetched it.  The reads that build   *)
(* one snapshot are one step.  Left out: times, titles, the other "latest" *)
(* pointers of the views, which follow the same steps, and BLOCKED,        *)
(* CANCELLED and REJECTED Slices.                                          *)
(***************************************************************************)
EXTENDS Naturals, Sequences, FiniteSets

CONSTANTS
  Sessions,    \* concurrent clients
  Uses,        \* Uses[s]: the operations that s calls
  Slices,      \* Slices of the family
  Known,       \* Slices that exist, and are listed, from the beginning
  Effects,     \* effects of the Work, all required for closure
  Plans,       \* plans of the Work
  Target,      \* Target[p]: the Slice that plan p proposes
  Contracts,   \* contracts that may be registered
  DeclaredId,  \* DeclaredId[c]: the identifier that c is declared under
  MayAbort,    \* sessions that may die in the middle of a call
  MaxCalls,    \* bound: MaxCalls[s] calls by session s
  None

ASSUME ModelAssumption ==
  /\ Known \subseteq Slices
  /\ Target \in [Plans -> Slices]
  /\ MayAbort \subseteq Sessions
  /\ MaxCalls \in [Sessions -> Nat]

VARIABLES
  slice,       \* slice[x]: the Slice document, None if there is none
  effect,      \* effect[e]: "ABSENT", "OPEN" or "SETTLED"
  plan,        \* plan[p]: "ABSENT", "OPEN" or "CLOSED"
  contracts,   \* the contracts collection
  events,      \* number of assurance events
  family,      \* the family document
  familyView,  \* the project_views row, None if there is none
  workView,    \* the work_views row, None if there is none
  call,        \* call[s]: the call of session s
  fresh,       \* fresh[s]: rows unwritten since s fetched their revisions
  calls,       \* calls[s]: how many calls s has made
  answered     \* the operation answered last, if it ran alone; FAILED after a
               \* call that ended without an answer, until one that ran alone

facts == <<slice, effect, plan, contracts, events>>
rows == <<family, familyView, workView>>
vars == <<facts, rows, call, fresh, calls, answered>>

-----------------------------------------------------------------------------
(* Slices and the summary of a family. *)

Planned ==
  [execution |-> "PLANNED", validated |-> FALSE, assurance |-> "UNVERIFIED",
   closed |-> FALSE]

Present == {x \in Slices : slice[x] # None}

Verified(x) == slice[x].assurance \in {"VERIFIED", "ACCEPTED"}

\* The family's execution state, from its Slices.
Execution ==
  CASE Present = {} -> "PLANNED"
    [] \E x \in Present : slice[x].execution = "ACTIVE" -> "ACTIVE"
    [] Present # {} /\ \A x \in Present : slice[x].execution = "DONE_CLAIMED"
         -> "DONE_CLAIMED"
    [] OTHER -> "PLANNED"

\* The family's assurance state, from its Slices.
Assurance ==
  IF Present # {} /\ \A x \in Present : slice[x].assurance = "ACCEPTED" THEN "ACCEPTED"
  ELSE IF Present # {} /\ \A x \in Present : Verified(x) THEN "VERIFIED"
  ELSE IF \E x \in Present : Verified(x) THEN "PARTIAL" ELSE "UNVERIFIED"

PendingClosure ==
  {x \in Present : slice[x].execution = "DONE_CLAIMED" /\ ~slice[x].closed}

PendingValidation ==
  {x \in Present : slice[x].execution = "DONE_CLAIMED" /\ ~slice[x].validated}

Collides(c) == \E d \in contracts \ {c} : DeclaredId[d] = DeclaredId[c]

OpenEffects == {e \in Effects : effect[e] = "OPEN"}
OpenPlans == {p \in Plans : plan[p] = "OPEN"}

\* What _project_family reads first; the warnings come from the old summary.
Summary ==
  [execution |-> Execution, assurance |-> Assurance,
   closing |-> PendingClosure, validating |-> PendingValidation,
   warnings |-> family.warnings]

\* _build_work_view
WorkNow == [plans |-> OpenPlans, effects |-> OpenEffects, events |-> events]

-----------------------------------------------------------------------------
(* What the operations do after their first write, in the code's order. *)

Listing == <<"fetchList", "storeList">>
Project == <<"summarise", "fetchFamily", "storeFamily", "collect">>
Refresh == <<"build", "find">>

\* A mutant: the refresh runs before the event is inserted.
MutAppendEvent == Refresh \o <<"append">>

\* _append_assurance_event
AppendEvent == <<"append">> \o Refresh

\* A mutant: the family is not projected after the claim.
MutClaimDone == AppendEvent

SubmitPlan == <<"materialise">> \o Listing \o Project \o Refresh
ClosePlan == <<>>
RegisterContract == Listing \o Project \o Refresh
StartSlice == Project
ClaimDone == Project \o AppendEvent
ValidateSlice == AppendEvent \o Project
VerifySlice == Project \o AppendEvent \o <<"close">> \o Project \o Refresh
CloseVerified == AppendEvent \o Project
AcceptSlice == Project \o AppendEvent
EffectStep == AppendEvent \o Refresh
Checkpoint == Refresh

OperationNames ==
  {"submit_plan", "close_plan", "register_contract", "start_slice",
   "claim_done", "validate_slice", "verify_slice", "close_verified_slice",
   "accept_slice", "record_intent", "mark_dispatched", "reconcile",
   "checkpoint_work"}

\* Operations that end having projected the family, and having refreshed the
\* Work view, after everything that they wrote.
Projecting ==
  {"submit_plan", "register_contract", "start_slice", "claim_done",
   "validate_slice", "verify_slice", "close_verified_slice", "accept_slice"}
Refreshing ==
  OperationNames \ {"close_plan", "start_slice"}

-----------------------------------------------------------------------------
(* Documents and calls. *)

SliceDocs ==
  [execution : {"PLANNED", "ACTIVE", "DONE_CLAIMED"}, validated : BOOLEAN,
   assurance : {"UNVERIFIED", "VERIFIED", "ACCEPTED"}, closed : BOOLEAN]
Warnings == {"DECLARED_ID_COLLISION"}
Summaries ==
  [execution : {"PLANNED", "ACTIVE", "DONE_CLAIMED"},
   assurance : {"UNVERIFIED", "PARTIAL", "VERIFIED", "ACCEPTED"},
   closing : SUBSET Slices, validating : SUBSET Slices, warnings : SUBSET Warnings]
Families ==
  [slice_ids : SUBSET Slices, contract_ids : SUBSET Contracts,
   execution : {"PLANNED", "ACTIVE", "DONE_CLAIMED"},
   assurance : {"UNVERIFIED", "PARTIAL", "VERIFIED", "ACCEPTED"},
   warnings : SUBSET Warnings]
Views == [summary : Summaries, effects : SUBSET Effects]
WorkViews == [plans : SUBSET Plans, effects : SUBSET Effects, events : Nat]
Lists ==
  [slices : SUBSET Slices, contracts : SUBSET Contracts, warnings : SUBSET Warnings]

Steps ==
  {"materialise", "fetchList", "storeList", "summarise", "fetchFamily",
   "storeFamily", "collect", "insertView", "fetchView", "storeView", "append",
   "build", "find", "saveWork", "insertWork", "close"}
Subjects == Plans \cup Contracts \cup Slices \cup Effects
Rows == {"family", "familyView", "workView"}

ASSUME NoneAssumption ==
  /\ None \notin OperationNames \cup Steps
  /\ None \notin SliceDocs /\ None \notin Views

\* name: the operation; todo: its remaining steps; subject: the plan, Slice or
\* contract; adds: Slice to be listed; tries: failed attempts in this loop;
\* list, sum, open, work: what was read, to be written; alone: did no other
\* call overlap this one?
Calls ==
  [name : OperationNames \cup {None}, todo : Seq(Steps),
   subject : Subjects \cup {None}, adds : SUBSET Slices, tries : Nat,
   list : Lists \cup {None}, sum : Summaries \cup {None}, open : SUBSET Effects,
   work : WorkViews \cup {None}, alone : BOOLEAN]

NoCall ==
  [name |-> None, todo |-> <<>>, subject |-> None, adds |-> {}, tries |-> 0,
   list |-> None, sum |-> None, open |-> {}, work |-> None, alone |-> FALSE]

Idle(s) == call[s].name = None

MaxTries == 3

\* The loops give up, silently, after the third conflict.
Retries(c) == c.tries + 1 < MaxTries

\* A mutant: no compare-and-set.
MutUnwritten(s, row) == TRUE

Unwritten(s, row) == row \in fresh[s]

Fetched(s, row) == fresh' = [fresh EXCEPT ![s] = @ \cup {row}]

Written(row) == fresh' = [t \in Sessions |-> fresh[t] \ {row}]

Init ==
  /\ slice = [x \in Slices |-> IF x \in Known THEN Planned ELSE None]
  /\ effect = [e \in Effects |-> "ABSENT"]
  /\ plan = [p \in Plans |-> "ABSENT"]
  /\ contracts = {}
  /\ events = 0
  /\ family = [slice_ids |-> Known, contract_ids |-> {}, execution |-> "PLANNED",
               assurance |-> "UNVERIFIED", warnings |-> {}]
  /\ familyView = None
  /\ workView \in {None, WorkNow}
  /\ call = [s \in Sessions |-> NoCall]
  /\ fresh = [s \in Sessions |-> {}]
  /\ calls = [s \in Sessions |-> 0]
  /\ answered = None

\* Session s has committed the first write of an operation.
Begin(s, name, subject, script) ==
  /\ name \in Uses[s]
  /\ Idle(s)
  /\ calls[s] < MaxCalls[s]
  /\ calls' = [calls EXCEPT ![s] = @ + 1]
  /\ LET alone == \A t \in Sessions : Idle(t)
     IN call' = [t \in Sessions |->
                   IF t = s
                   THEN [NoCall EXCEPT !.name = name, !.todo = script,
                                       !.subject = subject, !.alone = alone]
                   ELSE [call[t] EXCEPT !.alone = FALSE]]
  /\ fresh' = [fresh EXCEPT ![s] = {}]
  /\ answered' = IF answered = "FAILED" THEN answered ELSE None
  /\ UNCHANGED rows

BeginSubmitPlan(s, p) ==
  /\ plan[p] = "ABSENT"
  /\ plan' = [plan EXCEPT ![p] = "OPEN"]
  /\ Begin(s, "submit_plan", p, SubmitPlan)
  /\ UNCHANGED <<slice, effect, contracts, events>>

BeginClosePlan(s, p) ==
  /\ plan[p] = "OPEN"
  /\ plan' = [plan EXCEPT ![p] = "CLOSED"]
  /\ Begin(s, "close_plan", p, ClosePlan)
  /\ UNCHANGED <<slice, effect, contracts, events>>

BeginRegisterContract(s, c) ==
  /\ c \notin contracts
  /\ contracts' = contracts \cup {c}
  /\ Begin(s, "register_contract", c, RegisterContract)
  /\ UNCHANGED <<slice, effect, plan, events>>

\* The first write of an operation on a Slice.
WriteSlice(s, name, x, doc, script) ==
  /\ slice' = [slice EXCEPT ![x] = doc]
  /\ Begin(s, name, x, script)
  /\ UNCHANGED <<effect, plan, contracts, events>>

BeginStartSlice(s, x) ==
  /\ x \in Present
  /\ slice[x].execution = "PLANNED"
  /\ WriteSlice(s, "start_slice", x, [slice[x] EXCEPT !.execution = "ACTIVE"],
                StartSlice)

BeginClaimDone(s, x) ==
  /\ x \in Present
  /\ slice[x].execution = "ACTIVE"
  /\ WriteSlice(s, "claim_done", x,
                [slice[x] EXCEPT !.execution = "DONE_CLAIMED",
                                 !.validated = FALSE], ClaimDone)

BeginValidateSlice(s, x) ==
  /\ x \in Present
  /\ slice[x].execution = "DONE_CLAIMED"
  /\ ~Verified(x)
  /\ \E judgement \in BOOLEAN :
       WriteSlice(s, "validate_slice", x,
                  [slice[x] EXCEPT !.validated = judgement, !.closed = FALSE],
                  ValidateSlice)

BeginVerifySlice(s, x) ==
  /\ x \in Present
  /\ slice[x].validated
  /\ ~Verified(x)
  /\ WriteSlice(s, "verify_slice", x,
                [slice[x] EXCEPT !.assurance = "VERIFIED"], VerifySlice)

BeginCloseVerified(s, x) ==
  /\ x \in Present
  /\ slice[x].validated
  /\ Verified(x)
  /\ ~slice[x].closed
  /\ OpenEffects = {}
  /\ WriteSlice(s, "close_verified_slice", x, [slice[x] EXCEPT !.closed = TRUE],
                CloseVerified)

BeginAcceptSlice(s, x) ==
  /\ x \in Present
  /\ slice[x].closed
  /\ slice[x].assurance = "VERIFIED"
  /\ WriteSlice(s, "accept_slice", x, [slice[x] EXCEPT !.assurance = "ACCEPTED"],
                AcceptSlice)

\* The first write of an operation of the effect journal.
WriteEffect(s, name, e, state) ==
  /\ effect' = [effect EXCEPT ![e] = state]
  /\ Begin(s, name, e, EffectStep)
  /\ UNCHANGED <<slice, plan, contracts, events>>

BeginRecordIntent(s, e) ==
  effect[e] = "ABSENT" /\ WriteEffect(s, "record_intent", e, "OPEN")

\* Dispatches and observations, which leave the effect open.
BeginDispatch(s, e) ==
  effect[e] = "OPEN" /\ WriteEffect(s, "mark_dispatched", e, "OPEN")

BeginReconcile(s, e) ==
  effect[e] = "OPEN" /\ WriteEffect(s, "reconcile", e, "SETTLED")

BeginCheckpoint(s) ==
  /\ Begin(s, "checkpoint_work", None, Checkpoint)
  /\ UNCHANGED facts

-----------------------------------------------------------------------------
(* The steps of a call. *)

\* The next step of the call of s.
NextStep(s) == IF call[s].todo = <<>> THEN None ELSE Head(call[s].todo)

\* The call's next step is step; new is the call after it.
Do(s, step, new) ==
  /\ NextStep(s) = step
  /\ call' = [call EXCEPT ![s] = new]
  /\ UNCHANGED <<calls, answered>>

\* The call goes on with steps, and then with what is left to do.
Then(s, steps) == [call[s] EXCEPT !.todo = steps \o Tail(@)]

\* The call ends without an answer.
Fail(s) ==
  /\ call' = [call EXCEPT ![s] = NoCall]
  /\ fresh' = [fresh EXCEPT ![s] = {}]
  /\ answered' = "FAILED"
  /\ UNCHANGED <<facts, rows, calls>>

\* _materialize_plan_slices: a Slice that is already there is not listed again.
Materialise(s) ==
  LET x == Target[call[s].subject]
      new == slice[x] = None
  IN /\ Do(s, "materialise",
           [Then(s, <<>>) EXCEPT
              !.adds = family.slice_ids \cup (IF new THEN {x} ELSE {})])
     /\ slice' = IF new THEN [slice EXCEPT ![x] = Planned] ELSE slice
     /\ UNCHANGED <<effect, plan, contracts, events, rows, fresh>>

\* What register_contract and _materialize_plan_slices are about to write.
Listed(s) ==
  LET c == call[s]
  IN IF c.name = "register_contract"
     THEN [slices |-> {}, contracts |-> family.contract_ids \cup {c.subject},
           warnings |-> IF Collides(c.subject) THEN {"DECLARED_ID_COLLISION"}
                        ELSE family.warnings]
     ELSE [slices |-> family.slice_ids \cup c.adds, contracts |-> {},
           warnings |-> {}]

FetchList(s) ==
  /\ Do(s, "fetchList", [Then(s, <<>>) EXCEPT !.list = Listed(s)])
  /\ Fetched(s, "family")
  /\ UNCHANGED <<facts, rows>>

\* A failed attempt in a loop: fetch again, or go on as if it had succeeded.
TryAgain(s, loop) ==
  IF Retries(call[s])
  THEN [call[s] EXCEPT !.todo = <<loop>> \o @, !.tries = @ + 1]
  ELSE [Then(s, <<>>) EXCEPT !.tries = 0, !.list = None]

StoreList(s) ==
  LET l == call[s].list
  IN \/ /\ Unwritten(s, "family")
        /\ Do(s, "storeList", [Then(s, <<>>) EXCEPT !.tries = 0, !.list = None])
        /\ family' = IF call[s].name = "register_contract"
                     THEN [family EXCEPT !.contract_ids = l.contracts,
                                         !.warnings = l.warnings]
                     ELSE [family EXCEPT !.slice_ids = l.slices]
        /\ Written("family")
        /\ UNCHANGED <<facts, familyView, workView>>
     \/ /\ ~Unwritten(s, "family")
        /\ Do(s, "storeList", TryAgain(s, "fetchList"))
        /\ UNCHANGED <<facts, rows, fresh>>

\* _project_family: Slices and old warnings are read once, ...
Summarise(s) ==
  /\ Do(s, "summarise", [Then(s, <<>>) EXCEPT !.sum = Summary])
  /\ UNCHANGED <<facts, rows, fresh>>

FetchFamily(s) ==
  /\ Do(s, "fetchFamily", Then(s, <<>>))
  /\ Fetched(s, "family")
  /\ UNCHANGED <<facts, rows>>

\* ... and written to whatever revision the family has by now.
StoreFamily(s) ==
  LET c == call[s]
  IN \/ /\ Unwritten(s, "family")
        /\ Do(s, "storeFamily", [Then(s, <<>>) EXCEPT !.tries = 0])
        /\ family' = [family EXCEPT !.execution = c.sum.execution,
                                    !.assurance = c.sum.assurance,
                                    !.warnings = c.sum.warnings]
        /\ Written("family")
        /\ UNCHANGED <<facts, familyView, workView>>
     \/ /\ ~Unwritten(s, "family")
        /\ Do(s, "storeFamily", TryAgain(s, "fetchFamily"))
        /\ UNCHANGED <<facts, rows, fresh>>

\* The open effects are read, and whether there is a view already.
Collect(s) ==
  /\ Do(s, "collect",
        [Then(s, IF familyView = None THEN <<"insertView">>
                 ELSE <<"fetchView", "storeView">>) EXCEPT !.open = OpenEffects])
  /\ UNCHANGED <<facts, rows, fresh>>

\* The view that the call computed.
Computed(s) == [summary |-> call[s].sum, effects |-> call[s].open]

\* The row that is written.  The call forgets what it read.
Forget(s) == [Then(s, <<>>) EXCEPT !.sum = None, !.open = {}, !.tries = 0]

\* A row that has appeared in the meantime stays as it is.
InsertView(s) ==
  /\ Do(s, "insertView", Forget(s))
  /\ familyView' = IF familyView = None THEN Computed(s) ELSE familyView
  /\ UNCHANGED <<facts, family, workView, fresh>>

FetchView(s) ==
  /\ Do(s, "fetchView", Then(s, <<>>))
  /\ Fetched(s, "familyView")
  /\ UNCHANGED <<facts, rows>>

StoreView(s) ==
  \/ /\ Unwritten(s, "familyView")
     /\ Do(s, "storeView", Forget(s))
     /\ familyView' = Computed(s)
     /\ Written("familyView")
     /\ UNCHANGED <<facts, family, workView>>
  \/ /\ ~Unwritten(s, "familyView")
     /\ Do(s, "storeView",
           IF Retries(call[s]) THEN TryAgain(s, "fetchView") ELSE Forget(s))
     /\ UNCHANGED <<facts, rows, fresh>>

\* _append_assurance_event
AppendStep(s) ==
  /\ Do(s, "append", Then(s, <<>>))
  /\ events' = events + 1
  /\ UNCHANGED <<slice, effect, plan, contracts, rows, fresh>>

\* _refresh_work_view: build the view, then find the row it will replace.
Build(s) ==
  /\ Do(s, "build", [Then(s, <<>>) EXCEPT !.work = WorkNow])
  /\ UNCHANGED <<facts, rows, fresh>>

Find(s) ==
  /\ Do(s, "find", Then(s, IF workView = None THEN <<"insertWork">>
                           ELSE <<"saveWork">>))
  /\ Fetched(s, "workView")
  /\ UNCHANGED <<facts, rows>>

\* There is no second attempt: a conflict ends the call.
SaveWork(s) ==
  \/ /\ Unwritten(s, "workView")
     /\ Do(s, "saveWork", [Then(s, <<>>) EXCEPT !.work = None])
     /\ workView' = call[s].work
     /\ Written("workView")
     /\ UNCHANGED <<facts, family, familyView>>
  \/ /\ ~Unwritten(s, "workView")
     /\ NextStep(s) = "saveWork"
     /\ Fail(s)

InsertWork(s) ==
  \/ /\ workView = None
     /\ Do(s, "insertWork", [Then(s, <<>>) EXCEPT !.work = None])
     /\ workView' = call[s].work
     /\ Written("workView")
     /\ UNCHANGED <<facts, family, familyView>>
  \/ /\ workView # None
     /\ NextStep(s) = "insertWork"
     /\ Fail(s)

\* verify_slice closes the Slice unless a required effect is open.
Close(s) ==
  LET x == call[s].subject
      closes == OpenEffects = {}
  IN /\ Do(s, "close", Then(s, IF closes THEN AppendEvent ELSE <<>>))
     /\ slice' = IF closes THEN [slice EXCEPT ![x].closed = TRUE] ELSE slice
     /\ UNCHANGED <<effect, plan, contracts, events, rows, fresh>>

\* The answer to the caller.
Answer(s) ==
  /\ ~Idle(s)
  /\ call[s].todo = <<>>
  /\ answered' = IF call[s].alone THEN call[s].name ELSE answered
  /\ call' = [call EXCEPT ![s] = NoCall]
  /\ fresh' = [fresh EXCEPT ![s] = {}]
  /\ UNCHANGED <<facts, rows, calls>>

\* The client dies in the middle of a call.
Abort(s) ==
  /\ s \in MayAbort
  /\ ~Idle(s)
  /\ Fail(s)

Call(s) ==
  \/ \E p \in Plans : BeginSubmitPlan(s, p) \/ BeginClosePlan(s, p)
  \/ \E c \in Contracts : BeginRegisterContract(s, c)
  \/ \E x \in Slices :
       \/ BeginStartSlice(s, x)
       \/ BeginClaimDone(s, x)
       \/ BeginValidateSlice(s, x)
       \/ BeginVerifySlice(s, x)
       \/ BeginCloseVerified(s, x)
       \/ BeginAcceptSlice(s, x)
  \/ \E e \in Effects :
       BeginRecordIntent(s, e) \/ BeginDispatch(s, e) \/ BeginReconcile(s, e)
  \/ BeginCheckpoint(s)

Step(s) ==
  \/ Materialise(s) \/ FetchList(s) \/ StoreList(s)
  \/ Summarise(s) \/ FetchFamily(s) \/ StoreFamily(s)
  \/ Collect(s) \/ InsertView(s) \/ FetchView(s) \/ StoreView(s)
  \/ AppendStep(s) \/ Build(s) \/ Find(s) \/ SaveWork(s) \/ InsertWork(s)
  \/ Close(s) \/ Answer(s)

Next == \E s \in Sessions : Call(s) \/ Step(s) \/ Abort(s)

Spec == Init /\ [][Next]_vars

-----------------------------------------------------------------------------
(* Properties. *)

TypeOK ==
  /\ slice \in [Slices -> SliceDocs \cup {None}]
  /\ effect \in [Effects -> {"ABSENT", "OPEN", "SETTLED"}]
  /\ plan \in [Plans -> {"ABSENT", "OPEN", "CLOSED"}]
  /\ contracts \subseteq Contracts
  /\ events \in Nat
  /\ family \in Families
  /\ familyView \in Views \cup {None}
  /\ workView \in WorkViews \cup {None}
  /\ call \in [Sessions -> Calls]
  /\ fresh \in [Sessions -> SUBSET Rows]
  /\ calls \in [Sessions -> Nat]
  /\ answered \in OperationNames \cup {None, "FAILED"}

\* A projecting operation that ran alone leaves the family document and the
\* view that status() serves equal to what the Slices, effects and warnings
\* say, whatever crashes and overlapping calls had left there before it
\* (_project_family at the end of the operations of service.py).
LoneCallProjects ==
  answered \in Projecting =>
    /\ familyView # None
    /\ familyView.summary = Summary
    /\ familyView.effects = OpenEffects
    /\ family.execution = Execution
    /\ family.assurance = Assurance

\* An operation that refreshes the Work view and ran alone leaves it equal to
\* the canonical collections, whatever was left there before it
\* (_refresh_work_view and _append_assurance_event of work_control.py).
LoneCallRefreshes == answered \in Refreshing => workView = WorkNow

\* No interleaving of registrations, plans and projections drops a Slice or a
\* contract from the lists of the family document once it is there: each
\* writer replaces the whole list (register_contract,
\* _materialize_plan_slices).
ListsGrow ==
  [][/\ family.slice_ids \subseteq family'.slice_ids
     /\ family.contract_ids \subseteq family'.contract_ids]_vars

==============================================================================
