--------------------------- MODULE EffectJournal ----------------------------
(***************************************************************************)
(* PER/1, the effect journal of effect_control.py, for the effects of one  *)
(* verified Slice, together with close_verified_slice (work_control.py).   *)
(*                                                                         *)
(* A session runs one operation at a time.  An operation reads documents,  *)
(* checks its guards on what it read, and writes with a compare-and-set on *)
(* the document's revision (RevisionConflict ends the call); nothing locks *)
(* the store between the steps, so the steps of different sessions         *)
(* interleave, and a session may die between any two of them.              *)
(*                                                                         *)
(* Left out: HAS_EFFECT edges, assurance events and history lists (written *)
(* after the commit and read by no guard), texts, times and hashes.  The   *)
(* refresh of the views that follows is module MaterializedViews.          *)
(***************************************************************************)
EXTENDS Naturals, FiniteSets

CONSTANTS
  Sessions,     \* concurrent clients of the journal
  TurnMode,     \* TurnMode[s]: mode of the WorkTurn that s holds
  Verifiers,    \* sessions that hold the verifier capability
  Effects,      \* effect keys of the Slice
  Payloads,     \* logical effects a key can be used for
  Reportable,   \* outcomes that observers report
  MayCrash,     \* sessions that may die in the middle of a call
  StaleReports, \* may a report be about an attempt before the latest one?
  MaxAttempts,  \* bound: dispatches per effect
  MaxRevision,  \* bound: updates per effect document
  None

Modes == {"QUERY", "CONTINUE", "EXECUTE", "VERIFY", "MODIFY", "CONTROL"}
Outcomes == {"UNKNOWN", "CONFIRMED", "FAILED", "PARTIAL", "NOT_EXECUTED"}

\* Outcomes after which an effect may be dispatched again.
NotExecuted == {"FAILED", "NOT_EXECUTED"}

ASSUME SessionsAssumption ==
  /\ TurnMode \in [Sessions -> Modes]
  /\ Verifiers \subseteq Sessions
  /\ MayCrash \subseteq Sessions
ASSUME DataAssumption ==
  /\ Reportable \subseteq Outcomes
  /\ StaleReports \in BOOLEAN
  /\ None \notin Effects
ASSUME BoundsAssumption == MaxAttempts \in Nat /\ MaxRevision \in Nat

VARIABLES
  journal,   \* journal[e]: the effects document of key e
  slice,     \* closure state and revision of the Slice document
  sealed,    \* required effects found settled by the call that closed it
  call,      \* call[s]: the operation that s is executing
  accepted,  \* accepted[e]: payloads of the intents answered with success
  fate       \* fate[e][k]: what became of attempt k in the outside world

vars == <<journal, slice, sealed, call, accepted, fate>>

-----------------------------------------------------------------------------
(* Effect documents.  satisfied: None, true and false. *)

States == {"ABSENT", "AUTHORIZED", "DISPATCHED", "OBSERVED", "RECONCILED"}

Documents ==
  [state : States, outcome : Outcomes, satisfied : {"UNSET", "YES", "NO"},
   attempt : Nat, payload : Payloads \cup {None}, required : BOOLEAN, rev : Nat]

AbsentDoc ==
  [state |-> "ABSENT", outcome |-> "UNKNOWN", satisfied |-> "UNSET",
   attempt |-> 0, payload |-> None, required |-> FALSE, rev |-> 0]

Intent(p, r) ==
  [AbsentDoc EXCEPT !.state = "AUTHORIZED", !.payload = p, !.required = r]

Settled(d) == d.state = "RECONCILED" /\ d.satisfied = "YES"

Present(d) == d.state # "ABSENT"

\* A mutant: any intent under a known key counts as the recorded one.
MutSameLogicalEffect(d, n) == TRUE

\* record_intent's same_logical_effect
SameLogicalEffect(d, n) == d.payload = n.payload

\* unresolved_required_effects: a required effect that still blocks closure.
Blocks(d) == Present(d) /\ d.required /\ ~Settled(d)

\* A mutant: any observed effect may be dispatched again.
MutCanDispatch(d) == d.state \in {"AUTHORIZED", "OBSERVED"}

CanDispatch(d) ==
  \/ d.state = "AUTHORIZED"
  \/ d.state = "OBSERVED" /\ d.outcome \in NotExecuted

\* Mutants: settled effects are not terminal; an unsatisfied delta is.
MutCanObserve(d) == d.state \in {"DISPATCHED", "OBSERVED", "RECONCILED"}
MutCanObserveDelta(d) == d.state \in {"DISPATCHED", "OBSERVED"}

CanObserve(d) ==
  /\ d.state \in {"DISPATCHED", "OBSERVED", "RECONCILED"}
  /\ ~Settled(d)

\* A mutant: satisfaction does not need a confirmed observation.
MutCanReconcile(d, positive) == d.state = "OBSERVED"

CanReconcile(d, positive) ==
  /\ d.state = "OBSERVED"
  /\ positive => d.outcome = "CONFIRMED"

Dispatched(d) ==
  [d EXCEPT !.state = "DISPATCHED", !.outcome = "UNKNOWN",
            !.attempt = d.attempt + 1, !.rev = d.rev + 1]

ObservedAs(d, o) ==
  [d EXCEPT !.state = "OBSERVED", !.outcome = o, !.satisfied = "UNSET",
            !.rev = d.rev + 1]

Reconciled(d, positive) ==
  [d EXCEPT !.state = "RECONCILED", !.rev = d.rev + 1,
            !.satisfied = IF positive THEN "YES" ELSE "NO"]

-----------------------------------------------------------------------------
(* Calls in progress.                                                      *)

Steps == {"idle", "insert", "commit", "close"}

\* eff: the effect; base: the revision read; new: the document to be written;
\* seen: the settled required effects that a closing call has found.
Calls ==
  [step : Steps, eff : Effects \cup {None}, base : Nat, new : Documents,
   seen : SUBSET Effects]

NoCall ==
  [step |-> "idle", eff |-> None, base |-> 0, new |-> AbsentDoc,
   seen |-> {}]

Goto(s, c) == call' = [call EXCEPT ![s] = c]
Return(s)  == Goto(s, NoCall)

Idle(s) == call[s].step = "idle"

\* _require_turn
Turn(s, allowed) == TurnMode[s] \in allowed

Init ==
  /\ journal = [e \in Effects |-> AbsentDoc]
  /\ slice = [closure |-> "OPEN", rev |-> 0]
  /\ sealed = {}
  /\ call = [s \in Sessions |-> NoCall]
  /\ accepted = [e \in Effects |-> {}]
  /\ fate = [e \in Effects |-> [k \in 1..MaxAttempts |-> "unsent"]]

-----------------------------------------------------------------------------
(* record_intent                                                           *)

BeginIntent(s, e, p, r) ==
  /\ Idle(s)
  /\ Turn(s, {"CONTINUE", "EXECUTE", "MODIFY", "CONTROL"})
  /\ slice.closure # "CLOSED"
  /\ Goto(s, [NoCall EXCEPT !.step = "insert", !.eff = e, !.new = Intent(p, r)])
  /\ UNCHANGED <<journal, slice, sealed, accepted, fate>>

\* A recorded intent is answered as idempotent when it is the same logical
\* effect, and refused otherwise.  The lookup before the insert and the one
\* after a refused duplicate insert answer alike, so the insert decides.
InsertIntent(s) ==
  LET e == call[s].eff
      d == call[s].new
  IN /\ call[s].step = "insert"
     /\ \/ /\ ~Present(journal[e])
           /\ journal' = [journal EXCEPT ![e] = d]
           /\ accepted' = [accepted EXCEPT ![e] = @ \cup {d.payload}]
           /\ Return(s)
        \/ /\ Present(journal[e])
           /\ SameLogicalEffect(journal[e], d)
           /\ accepted' = [accepted EXCEPT ![e] = @ \cup {d.payload}]
           /\ Return(s)
           /\ UNCHANGED journal
        \/ /\ Present(journal[e])
           /\ ~SameLogicalEffect(journal[e], d)
           /\ Return(s)
           /\ UNCHANGED <<journal, accepted>>
     /\ UNCHANGED <<slice, sealed, fate>>

-----------------------------------------------------------------------------
(* mark_dispatched, record_observation, reconcile: read, check, prepare.   *)

Prepare(s, e, d) ==
  /\ journal[e].rev < MaxRevision
  /\ Goto(s, [NoCall EXCEPT !.step = "commit", !.eff = e,
                            !.base = journal[e].rev, !.new = d])
  /\ UNCHANGED <<journal, slice, sealed, accepted, fate>>

BeginDispatch(s, e) ==
  /\ Idle(s)
  /\ Turn(s, {"CONTINUE", "EXECUTE", "MODIFY", "CONTROL"})
  /\ CanDispatch(journal[e])
  /\ journal[e].attempt < MaxAttempts
  /\ Prepare(s, e, Dispatched(journal[e]))

\* The attempts a report handed to record_observation may be about.
ReportedAttempts(d) == IF StaleReports THEN 1..d.attempt ELSE {d.attempt}

\* Observers are honest: they report what became of some attempt.
Honest(e, k, o) ==
  \/ o = "UNKNOWN"
  \/ o \in {"CONFIRMED", "PARTIAL"} /\ fate[e][k] = "done"
  \/ o \in NotExecuted /\ fate[e][k] = "dead"

BeginObserve(s, e, o) ==
  /\ Idle(s)
  /\ Turn(s, {"CONTINUE", "EXECUTE", "VERIFY", "MODIFY", "CONTROL"})
  /\ CanObserve(journal[e])
  /\ \E k \in ReportedAttempts(journal[e]) : Honest(e, k, o)
  /\ Prepare(s, e, ObservedAs(journal[e], o))

BeginReconcile(s, e, positive) ==
  /\ Idle(s)
  /\ Turn(s, IF positive THEN {"VERIFY"}
             ELSE {"EXECUTE", "VERIFY", "MODIFY", "CONTROL"})
  /\ CanReconcile(journal[e], positive)
  /\ positive => s \in Verifiers
  /\ Prepare(s, e, Reconciled(journal[e], positive))

\* A mutant: the update is not guarded by a revision.
MutCurrent(s) == TRUE

\* _update(expected_revision = base) on the effects collection.
Current(s) == journal[call[s].eff].rev = call[s].base

Commit(s) ==
  LET e == call[s].eff
      d == call[s].new
  IN /\ call[s].step = "commit"
     /\ Current(s)
     /\ journal' = [journal EXCEPT ![e] = d]
     /\ fate' = IF d.state = "DISPATCHED"
                THEN [fate EXCEPT ![e][d.attempt] = "inflight"]
                ELSE fate
     /\ Return(s)
     /\ UNCHANGED <<slice, sealed, accepted>>

\* RevisionConflict
Conflict(s) ==
  /\ call[s].step = "commit"
  /\ ~Current(s)
  /\ Return(s)
  /\ UNCHANGED <<journal, slice, sealed, accepted, fate>>

-----------------------------------------------------------------------------
(* close_verified_slice, for a Slice that is VALIDATED and VERIFIED        *)

BeginClose(s) ==
  /\ Idle(s)
  /\ s \in Verifiers
  /\ Turn(s, {"VERIFY"})
  /\ slice.closure # "CLOSED"
  /\ \A e \in Effects : ~Blocks(journal[e])
  /\ Goto(s, [NoCall EXCEPT !.step = "close", !.base = slice.rev,
                !.seen = {e \in Effects : Settled(journal[e]) /\ journal[e].required}])
  /\ UNCHANGED <<journal, slice, sealed, accepted, fate>>

Close(s) ==
  /\ call[s].step = "close"
  /\ IF slice.rev = call[s].base
     THEN /\ slice' = [closure |-> "CLOSED", rev |-> slice.rev + 1]
          /\ sealed' = call[s].seen
          /\ Return(s)
     ELSE Return(s) /\ UNCHANGED <<slice, sealed>>
  /\ UNCHANGED <<journal, accepted, fate>>

-----------------------------------------------------------------------------
(* The outside world decides what becomes of a dispatched attempt, and a   *)
(* session may end in the middle of a call.                                *)

Happen(e, k, f) ==
  /\ fate[e][k] = "inflight"
  /\ fate' = [fate EXCEPT ![e][k] = f]
  /\ UNCHANGED <<journal, slice, sealed, call, accepted>>

Crash(s) ==
  /\ s \in MayCrash
  /\ ~Idle(s)
  /\ Return(s)
  /\ UNCHANGED <<journal, slice, sealed, accepted, fate>>

Begin(s) ==
  \/ \E e \in Effects :
       \/ \E p \in Payloads, r \in BOOLEAN : BeginIntent(s, e, p, r)
       \/ BeginDispatch(s, e)
       \/ \E o \in Reportable : BeginObserve(s, e, o)
       \/ \E positive \in BOOLEAN : BeginReconcile(s, e, positive)
  \/ BeginClose(s)

Continue(s) ==
  \/ InsertIntent(s) \/ Commit(s) \/ Conflict(s) \/ Close(s)

World == \E e \in Effects, k \in 1..MaxAttempts, f \in {"done", "dead"} :
           Happen(e, k, f)

Next ==
  \/ \E s \in Sessions : Begin(s) \/ Continue(s) \/ Crash(s)
  \/ World

Spec == Init /\ [][Next]_vars

-----------------------------------------------------------------------------
(* Properties                                                              *)

TypeOK ==
  /\ journal \in [Effects -> Documents]
  /\ slice \in [closure : {"OPEN", "CLOSED"}, rev : Nat]
  /\ sealed \subseteq Effects
  /\ call \in [Sessions -> Calls]
  /\ accepted \in [Effects -> SUBSET (Payloads \cup {None})]
  /\ fate \in [Effects -> [1..MaxAttempts -> {"unsent", "inflight", "done", "dead"}]]

\* With reports about the latest attempt, the outside world performs an effect
\* at most once, whatever the sessions' interleaving: mark_dispatched refuses
\* to repeat an attempt that is not known to have failed, and the revision
\* check makes the document it decided on the one it overwrites.
AtMostOnce ==
  \A e \in Effects : \A j, k \in 1..MaxAttempts :
    {fate[e][j], fate[e][k]} \subseteq {"inflight", "done"} => j = k

\* A settled effect was really performed: reconcile(satisfied = true) rests on
\* a confirmed observation that no other session has replaced since.
SettledMeansDone ==
  \A e \in Effects :
    Settled(journal[e]) => \E k \in 1..MaxAttempts : fate[e][k] = "done"

\* Every intent that was answered with success is the effect in the journal:
\* two sessions that race on one effect_key cannot both get their own effect.
KeyNamesOneEffect ==
  \A e \in Effects : accepted[e] \subseteq {journal[e].payload}

\* The required effects on which a Slice was closed stay settled: neither a
\* late observation nor a later reconciliation can reopen them.
ClosureStaysJustified == \A e \in sealed : Settled(journal[e])

\* "Either reconciled or durably recoverable": whatever calls died on the way,
\* each recorded effect can be dispatched, observed or is settled.
Recoverable ==
  \A e \in Effects :
    Present(journal[e]) =>
      \/ CanDispatch(journal[e])
      \/ CanObserve(journal[e])
      \/ Settled(journal[e])

\* docs/effect-reconciliation.md, "Slice closure": a required effect blocks
\* CLOSED unless it is reconciled and satisfied.
ClosedMeansSettled ==
  slice.closure = "CLOSED" => \A e \in Effects : ~Blocks(journal[e])

-----------------------------------------------------------------------------
(* The journal implements the atomic ledger.                               *)

PhaseOf(d) ==
  CASE d.state = "ABSENT" -> "none"
    [] d.state = "AUTHORIZED" -> "authorized"
    [] d.state = "DISPATCHED" -> "inflight"
    [] d.state = "OBSERVED" /\ d.outcome \in NotExecuted -> "notExecuted"
    [] d.state = "OBSERVED" /\ d.outcome = "CONFIRMED" -> "confirmed"
    [] d.state = "OBSERVED" /\ d.outcome \in {"UNKNOWN", "PARTIAL"} -> "unclear"
    [] d.state = "RECONCILED" /\ d.satisfied = "YES" -> "settled"
    [] d.state = "RECONCILED" /\ d.satisfied # "YES" -> "delta"

Ledger == INSTANCE EffectLedger WITH
  phase <- [e \in Effects |-> PhaseOf(journal[e])],
  attempts <- [e \in Effects |-> journal[e].attempt]

\* Every step of the interleaved, crashing sessions is one atomic operation
\* of the ledger or changes nothing in it.
ImplementsLedger == Ledger!Spec
=============================================================================
