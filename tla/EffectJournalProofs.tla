------------------------ MODULE EffectJournalProofs -------------------------
(***************************************************************************)
(* Proofs about EffectJournal, for any number of sessions, effects and     *)
(* attempts.                                                               *)
(*                                                                         *)
(* The argument rests on one fact about the revision check: a call whose   *)
(* base revision is still the document's revision holds a document that    *)
(* the guards of its operation allow as the successor of the stored one    *)
(* (SnapshotOK).  The invariants of the documents follow from it, and the  *)
(* outside world's history follows from those.                             *)
(***************************************************************************)
EXTENDS EffectJournal, TLAPS

\* n is what a guarded operation makes of d.
Successor(d, n) ==
  \/ CanDispatch(d) /\ d.attempt < MaxAttempts /\ n = Dispatched(d)
  \/ CanObserve(d) /\ \E o \in Reportable : n = ObservedAs(d, o)
  \/ \E positive \in BOOLEAN :
       CanReconcile(d, positive) /\ n = Reconciled(d, positive)

SnapshotOK(s) ==
  LET c == call[s]
  IN /\ c.step = "insert" =>
          /\ c.eff \in Effects
          /\ \E p \in Payloads, r \in BOOLEAN : c.new = Intent(p, r)
     /\ c.step = "commit" =>
          /\ c.eff \in Effects
          /\ Present(journal[c.eff])
          /\ c.base <= journal[c.eff].rev
          /\ c.base = journal[c.eff].rev => Successor(journal[c.eff], c.new)
     /\ c.step = "close" => \A e \in c.seen : Settled(journal[e])

Snapshots == \A s \in Sessions : SnapshotOK(s)

\* The documents alone: what the states say about attempts and outcomes.
DocumentOK(d) ==
  /\ d.attempt <= MaxAttempts
  /\ d.state \in {"ABSENT", "AUTHORIZED"} => d.attempt = 0
  /\ d.state \notin {"ABSENT", "AUTHORIZED"} => d.attempt > 0
  /\ Settled(d) => d.outcome = "CONFIRMED"

DocumentsOK == \A e \in Effects : DocumentOK(journal[e])

AcceptedIsPresent == \A e \in Effects : ~Present(journal[e]) => accepted[e] = {}

Inv ==
  /\ TypeOK
  /\ Snapshots
  /\ DocumentsOK
  /\ AcceptedIsPresent
  /\ KeyNamesOneEffect
  /\ ClosureStaysJustified

\* What the journal knows about the world, when reports are never stale.
WorldOK(e) ==
  LET d == journal[e]
  IN /\ \A k \in 1..MaxAttempts :
          /\ k < d.attempt => fate[e][k] = "dead"
          /\ k > d.attempt => fate[e][k] = "unsent"
     /\ d.state = "OBSERVED" /\ d.outcome \in NotExecuted
          => fate[e][d.attempt] = "dead"
     /\ d.state \in {"OBSERVED", "RECONCILED"} /\ d.outcome = "CONFIRMED"
          => fate[e][d.attempt] = "done"

\* An observation about to be committed is still true.
ReportOK(s) ==
  LET c == call[s]
  IN c.step = "commit" /\ c.base = journal[c.eff].rev /\ c.new.state = "OBSERVED"
       => Honest(c.eff, c.new.attempt, c.new.outcome)

WorldInv ==
  /\ \A e \in Effects : WorldOK(e)
  /\ \A s \in Sessions : ReportOK(s)
-----------------------------------------------------------------------------
(* Documents and calls are well formed.                                    *)

LEMMA DocumentTypes ==
  /\ AbsentDoc \in Documents
  /\ \A p \in Payloads, r \in BOOLEAN : Intent(p, r) \in Documents
  /\ \A d \in Documents :
       /\ Dispatched(d) \in Documents
       /\ \A o \in Outcomes : ObservedAs(d, o) \in Documents
       /\ \A b \in BOOLEAN : Reconciled(d, b) \in Documents
<1> USE DEF Documents, States
<1>1. AbsentDoc \in Documents
  BY DEF AbsentDoc, Outcomes
<1>2. ASSUME NEW p \in Payloads, NEW r \in BOOLEAN PROVE Intent(p, r) \in Documents
  BY <1>1 DEF Intent
<1>3. ASSUME NEW d \in Documents PROVE d.attempt + 1 \in Nat /\ d.rev + 1 \in Nat
  OBVIOUS
<1>4. ASSUME NEW d \in Documents, NEW n \in Nat, NEW r \in Nat
      PROVE  [d EXCEPT !.state = "DISPATCHED", !.outcome = "UNKNOWN",
                       !.attempt = n, !.rev = r] \in Documents
  <2>1. [d EXCEPT !.state = "DISPATCHED", !.outcome = "UNKNOWN"] \in Documents
    BY DEF Outcomes
  <2>2. \A c \in Documents : [c EXCEPT !.attempt = n, !.rev = r] \in Documents
    OBVIOUS
  <2> QED
    BY <2>1, <2>2, Zenon
<1>5. ASSUME NEW d \in Documents, NEW o \in Outcomes, NEW r \in Nat
      PROVE  [d EXCEPT !.state = "OBSERVED", !.outcome = o,
                       !.satisfied = "UNSET", !.rev = r] \in Documents
  <2>1. [d EXCEPT !.state = "OBSERVED", !.outcome = o] \in Documents
    OBVIOUS
  <2>2. \A c \in Documents :
          [c EXCEPT !.satisfied = "UNSET", !.rev = r] \in Documents
    OBVIOUS
  <2> QED
    BY <2>1, <2>2, Zenon
<1>6. ASSUME NEW d \in Documents, NEW b \in {"YES", "NO"}, NEW r \in Nat
      PROVE  [d EXCEPT !.state = "RECONCILED", !.rev = r,
                       !.satisfied = b] \in Documents
  OBVIOUS
<1>7. ASSUME NEW d \in Documents PROVE Dispatched(d) \in Documents
  BY <1>3, <1>4, Zenon DEF Dispatched
<1>8. ASSUME NEW d \in Documents, NEW o \in Outcomes
      PROVE  ObservedAs(d, o) \in Documents
  BY <1>3, <1>5, Zenon DEF ObservedAs
<1>9. ASSUME NEW d \in Documents, NEW b \in BOOLEAN
      PROVE  Reconciled(d, b) \in Documents
  <2>1. (IF b THEN "YES" ELSE "NO") \in {"YES", "NO"}
    OBVIOUS
  <2> QED
    BY <1>3, <1>6, <2>1, Zenon DEF Reconciled
<1> QED
  BY <1>1, <1>2, <1>7, <1>8, <1>9

LEMMA NoCallType == NoCall \in Calls
  BY DocumentTypes DEF NoCall, Calls, Steps

\* The journal, the Slice, the calls and the outside world keep their types.
THEOREM TypeCorrect == Spec => []TypeOK
<1>1. Init => TypeOK
  BY DocumentTypes, NoCallType DEF Init, TypeOK
<1>2. TypeOK /\ [Next]_vars => TypeOK'
  <2> SUFFICES ASSUME TypeOK, [Next]_vars PROVE TypeOK'
    OBVIOUS
  <2> USE DataAssumption, NoCallType, DocumentTypes DEF TypeOK, Goto, Return
  <2>1. ASSUME NEW s \in Sessions, Begin(s) PROVE TypeOK'
    <3>1. ASSUME NEW e \in Effects, NEW p \in Payloads, NEW r \in BOOLEAN,
                 BeginIntent(s, e, p, r)
          PROVE TypeOK'
      BY <3>1 DEF BeginIntent, NoCall, Calls, Steps
    <3>2. ASSUME NEW e \in Effects, NEW d \in Documents, Prepare(s, e, d)
          PROVE TypeOK'
      BY <3>2 DEF Prepare, NoCall, Calls, Steps, Documents
    <3>3. CASE BeginClose(s)
      BY <3>3 DEF BeginClose, NoCall, Calls, Steps
    <3>4. \A e \in Effects : journal[e] \in Documents
      OBVIOUS
    <3>5. ASSUME NEW e \in Effects, BeginDispatch(s, e) PROVE TypeOK'
      BY <3>2, <3>4, <3>5 DEF BeginDispatch
    <3>6. ASSUME NEW e \in Effects, NEW o \in Reportable, BeginObserve(s, e, o)
          PROVE TypeOK'
      BY <3>2, <3>4, <3>6 DEF BeginObserve
    <3>7. ASSUME NEW e \in Effects, NEW b \in BOOLEAN, BeginReconcile(s, e, b)
          PROVE TypeOK'
      BY <3>2, <3>4, <3>7 DEF BeginReconcile
    <3> QED
      BY <2>1, <3>1, <3>3, <3>5, <3>6, <3>7 DEF Begin
  <2>2. ASSUME NEW s \in Sessions, Continue(s) PROVE TypeOK'
    <3>1. call[s] \in Calls
      OBVIOUS
    <3>2. CASE InsertIntent(s)
      <4> DEFINE e == call[s].eff
                 d == call[s].new
      <4>1. d \in Documents /\ d.payload \in Payloads \cup {None}
        BY <3>1 DEF Calls, Documents
      <4>2. journal' \in [Effects -> Documents]
        BY <4>1, <3>2 DEF InsertIntent
      <4>3. accepted' \in [Effects -> SUBSET (Payloads \cup {None})]
        BY <4>1, <3>2 DEF InsertIntent
      <4> QED
        BY <3>2, <4>2, <4>3 DEF InsertIntent
    <3>3. CASE Commit(s)
      BY <3>1, <3>3 DEF Commit, Calls
    <3>4. CASE Conflict(s)
      BY <3>4 DEF Conflict
    <3>5. CASE Close(s)
      <4>1. call' \in [Sessions -> Calls]
        BY <3>5 DEF Close
      <4>2. /\ slice' \in [closure : {"OPEN", "CLOSED"}, rev : Nat]
            /\ sealed' \subseteq Effects
        <5>1. call[s].seen \subseteq Effects
          BY <3>1 DEF Calls
        <5>2. [closure |-> "CLOSED", rev |-> slice.rev + 1] \in [closure : {"OPEN", "CLOSED"}, rev : Nat]
          OBVIOUS
        <5> QED
          BY <3>5, <5>1, <5>2 DEF Close
      <4> QED
        BY <3>5, <4>1, <4>2 DEF Close
    <3> QED
      BY <2>2, <3>2, <3>3, <3>4, <3>5 DEF Continue
  <2>3. ASSUME NEW s \in Sessions, Crash(s) PROVE TypeOK'
    BY <2>3 DEF Crash
  <2>4. CASE World
    BY <2>4 DEF World, Happen
  <2>5. CASE UNCHANGED vars
    BY <2>5 DEF vars
  <2> QED
    BY <2>1, <2>2, <2>3, <2>4, <2>5 DEF Next
<1> QED
  BY <1>1, <1>2, PTL DEF Spec
-----------------------------------------------------------------------------
(* The revision check and the documents.                                   *)

\* A document has no successor once it is settled; otherwise its successors
\* keep its identity, move its revision on, and are well formed.
LEMMA SuccessorFacts ==
  ASSUME NEW d \in Documents, NEW n, Successor(d, n), DocumentOK(d)
  PROVE  /\ n \in Documents
         /\ n.rev = d.rev + 1
         /\ n.payload = d.payload
         /\ Present(d) /\ Present(n)
         /\ ~Settled(d)
         /\ DocumentOK(n)
<1> USE BoundsAssumption DEF DocumentOK, Present, Settled, Documents
<1>1. n \in Documents
  BY DocumentTypes, DataAssumption DEF Successor
<1>2. CASE CanDispatch(d) /\ d.attempt < MaxAttempts /\ n = Dispatched(d)
  BY <1>1, <1>2 DEF CanDispatch, Dispatched
<1>3. ASSUME CanObserve(d), NEW o \in Reportable, n = ObservedAs(d, o)
      PROVE  /\ n.rev = d.rev + 1 /\ n.payload = d.payload
             /\ Present(d) /\ Present(n) /\ ~Settled(d) /\ DocumentOK(n)
  BY <1>1, <1>3 DEF CanObserve, ObservedAs
<1>4. ASSUME NEW positive \in BOOLEAN, CanReconcile(d, positive),
             n = Reconciled(d, positive)
      PROVE  /\ n.rev = d.rev + 1 /\ n.payload = d.payload
             /\ Present(d) /\ Present(n) /\ ~Settled(d) /\ DocumentOK(n)
  BY <1>1, <1>4 DEF CanReconcile, Reconciled
<1> QED
  BY <1>1, <1>2, <1>3, <1>4 DEF Successor

\* What a step does to the documents: one effect is recorded, or one document
\* is replaced by a successor, or nothing happens to them.
DocumentStep ==
  \/ \E e \in Effects, p \in Payloads, r \in BOOLEAN :
       /\ ~Present(journal[e])
       /\ journal' = [journal EXCEPT ![e] = Intent(p, r)]
       /\ accepted' = [accepted EXCEPT ![e] = @ \cup {p}]
  \/ \E e \in Effects, n \in Documents :
       /\ Successor(journal[e], n)
       /\ journal' = [journal EXCEPT ![e] = n]
       /\ UNCHANGED accepted
  \/ \E e \in Effects :
       /\ Present(journal[e])
       /\ UNCHANGED journal
       /\ accepted' = [accepted EXCEPT ![e] = @ \cup {journal[e].payload}]
  \/ UNCHANGED <<journal, accepted>>

LEMMA EveryStepIsADocumentStep ==
  ASSUME TypeOK, Snapshots, [Next]_vars
  PROVE  DocumentStep
<1>1. ASSUME NEW s \in Sessions, Begin(s) PROVE DocumentStep
  BY <1>1 DEF DocumentStep, Begin, BeginIntent, BeginDispatch, BeginObserve,
       BeginReconcile, BeginClose, Prepare
<1>2. ASSUME NEW s \in Sessions, InsertIntent(s) PROVE DocumentStep
  <2> DEFINE e == call[s].eff
             d == call[s].new
  <2>1. e \in Effects
    BY <1>2 DEF InsertIntent, Snapshots, SnapshotOK
  <2>2. PICK p \in Payloads, r \in BOOLEAN : d = Intent(p, r)
    BY <1>2 DEF InsertIntent, Snapshots, SnapshotOK
  <2>3. d.payload = p
    BY <2>2 DEF Intent, AbsentDoc
  <2>4. CASE ~Present(journal[e])
    BY <1>2, <2>1, <2>2, <2>3, <2>4 DEF InsertIntent, DocumentStep
  <2>5. CASE Present(journal[e]) /\ SameLogicalEffect(journal[e], d)
    <3>1. d.payload = journal[e].payload
      BY <2>5 DEF SameLogicalEffect
    <3>2. UNCHANGED journal /\ accepted' = [accepted EXCEPT ![e] = @ \cup {d.payload}]
      BY <1>2, <2>5 DEF InsertIntent
    <3> QED
      BY <2>1, <2>5, <3>1, <3>2 DEF DocumentStep
  <2>6. CASE Present(journal[e]) /\ ~SameLogicalEffect(journal[e], d)
    BY <1>2, <2>6 DEF InsertIntent, DocumentStep
  <2> QED
    BY <2>4, <2>5, <2>6
<1>3. ASSUME NEW s \in Sessions, Commit(s) PROVE DocumentStep
  <2>1. /\ call[s].eff \in Effects
        /\ call[s].new \in Documents
        /\ Successor(journal[call[s].eff], call[s].new)
    BY <1>3 DEF Commit, Current, Snapshots, SnapshotOK, TypeOK, Calls
  <2> QED
    BY <1>3, <2>1 DEF Commit, DocumentStep
<1>4. ASSUME NEW s \in Sessions, Conflict(s) \/ Close(s) \/ Crash(s)
      PROVE  DocumentStep
  BY <1>4 DEF Conflict, Close, Crash, DocumentStep
<1>5. CASE World \/ UNCHANGED vars
  BY <1>5 DEF World, Happen, vars, DocumentStep
<1> QED
  BY <1>1, <1>2, <1>3, <1>4, <1>5 DEF Next, Continue

\* Documents stay well formed, revisions grow with every change, and settled
\* effects are left alone.
LEMMA DocumentStepFacts ==
  ASSUME TypeOK, DocumentsOK, DocumentStep
  PROVE  /\ DocumentsOK'
         /\ \A e \in Effects :
              /\ journal'[e] \in Documents
              /\ journal'[e] = journal[e]
                   \/ ~Present(journal[e])
                   \/ journal'[e].rev > journal[e].rev
              /\ Present(journal[e]) => Present(journal'[e])
              /\ Settled(journal[e]) => journal'[e] = journal[e]
<1> USE DEF TypeOK
<1>1. ASSUME NEW e \in Effects, NEW p \in Payloads, NEW r \in BOOLEAN,
             ~Present(journal[e]), journal' = [journal EXCEPT ![e] = Intent(p, r)]
      PROVE  DocumentsOK' /\ ~Settled(journal[e])
  BY <1>1, BoundsAssumption
  DEF DocumentsOK, DocumentOK, Intent, AbsentDoc, Settled, Present
<1>2. ASSUME NEW e \in Effects, NEW n \in Documents,
             Successor(journal[e], n), journal' = [journal EXCEPT ![e] = n]
      PROVE  /\ DocumentsOK'
             /\ n.rev > journal[e].rev /\ Present(n) /\ ~Settled(journal[e])
  <2>1. journal[e] \in Documents /\ DocumentOK(journal[e])
    BY DEF DocumentsOK
  <2>2. journal[e].rev \in Nat
    BY <2>1 DEF Documents
  <2> QED
    BY <1>2, <2>1, <2>2, SuccessorFacts DEF DocumentsOK
<1>3. CASE UNCHANGED journal
  BY <1>3 DEF DocumentsOK
<1> QED
  BY <1>1, <1>2, <1>3, DocumentTypes DEF DocumentStep

-----------------------------------------------------------------------------
(* The inductive invariant.                                                *)

\* A new call holds a fresh snapshot; an old one is protected by its revision.
LEMMA SnapshotsStep ==
  ASSUME TypeOK, Snapshots, DocumentsOK, [Next]_vars
  PROVE  Snapshots'
<1> SUFFICES ASSUME NEW s \in Sessions PROVE SnapshotOK(s)'
  BY DEF Snapshots
<1>1. DocumentStep
  BY EveryStepIsADocumentStep
<1>2. \A e \in Effects :
        /\ journal[e] \in Documents /\ journal[e].rev \in Nat
        /\ journal'[e] = journal[e]
             \/ ~Present(journal[e])
             \/ journal'[e].rev > journal[e].rev
        /\ Present(journal[e]) => Present(journal'[e])
        /\ Settled(journal[e]) => journal'[e] = journal[e]
  BY <1>1, DocumentStepFacts DEF TypeOK, Documents
<1>3. CASE call'[s] = call[s]
  <2>1. SnapshotOK(s)
    BY DEF Snapshots
  <2>2. call[s] \in Calls /\ call[s].base \in Nat /\ call[s].seen \subseteq Effects
    BY DEF TypeOK, Calls
  <2>3. ASSUME call[s].step = "commit"
        PROVE  LET e == call[s].eff
               IN /\ e \in Effects
                  /\ Present(journal'[e])
                  /\ call[s].base <= journal'[e].rev
                  /\ call[s].base = journal'[e].rev
                       => Successor(journal'[e], call[s].new)
    <3> DEFINE e == call[s].eff
    <3>1. /\ e \in Effects /\ Present(journal[e])
          /\ call[s].base <= journal[e].rev
          /\ call[s].base = journal[e].rev => Successor(journal[e], call[s].new)
      BY <2>1, <2>3 DEF SnapshotOK
    <3>2. CASE journal'[e] = journal[e]
      BY <3>1, <3>2
    <3>3. CASE journal'[e].rev > journal[e].rev
      <4>1. journal'[e].rev \in Nat
        BY <3>1, <1>1, DocumentStepFacts DEF Documents
      <4> QED
        BY <3>1, <3>3, <4>1, <2>2, <1>2
    <3> QED
      BY <1>2, <3>1, <3>2, <3>3
  <2>4. ASSUME call[s].step = "close"
        PROVE  \A e \in call[s].seen : Settled(journal'[e])
    BY <1>2, <2>1, <2>2, <2>4 DEF SnapshotOK
  <2> QED
    BY <1>3, <2>1, <2>3, <2>4 DEF SnapshotOK, Present, Settled
<1>4. CASE call'[s].step = "idle"
  BY <1>4 DEF SnapshotOK
<1>5. CASE Begin(s)
  <2> USE <1>5 DEF TypeOK, SnapshotOK, Goto
  <2>1. ASSUME NEW e \in Effects, NEW p \in Payloads, NEW r \in BOOLEAN,
               BeginIntent(s, e, p, r)
        PROVE  SnapshotOK(s)'
    BY <2>1 DEF BeginIntent, NoCall
  <2>2. ASSUME NEW e \in Effects, NEW n, Prepare(s, e, n), Present(journal[e]),
               Successor(journal[e], n)
        PROVE  SnapshotOK(s)'
    BY <1>2, <2>2 DEF Prepare, NoCall
  <2>3. ASSUME NEW e \in Effects, BeginDispatch(s, e) PROVE SnapshotOK(s)'
    BY <2>2, <2>3 DEF BeginDispatch, Successor, CanDispatch, Present
  <2>4. ASSUME NEW e \in Effects, NEW o \in Reportable, BeginObserve(s, e, o)
        PROVE  SnapshotOK(s)'
    BY <2>2, <2>4 DEF BeginObserve, Successor, CanObserve, Present
  <2>5. ASSUME NEW e \in Effects, NEW b \in BOOLEAN, BeginReconcile(s, e, b)
        PROVE  SnapshotOK(s)'
    BY <2>2, <2>5 DEF BeginReconcile, Successor, CanReconcile, Present
  <2>6. CASE BeginClose(s)
    BY <2>6 DEF BeginClose, NoCall, Settled
  <2> QED
    BY <2>1, <2>3, <2>4, <2>5, <2>6 DEF Begin
<1>6. call'[s] = call[s] \/ call'[s].step = "idle" \/ Begin(s)
  <2> USE DEF TypeOK, Goto, Return, NoCall
  <2>1. ASSUME NEW t \in Sessions, Begin(t), t # s PROVE call'[s] = call[s]
    BY <2>1 DEF Begin, BeginIntent, BeginDispatch, BeginObserve, BeginReconcile,
         BeginClose, Prepare
  <2>2. ASSUME NEW t \in Sessions, Continue(t) \/ Crash(t)
        PROVE  call'[s] = call[s] \/ call'[s].step = "idle"
    BY <2>2 DEF Continue, InsertIntent, Commit, Conflict, Close, Crash
  <2>3. CASE World \/ UNCHANGED vars
    BY <2>3 DEF World, Happen, vars
  <2> QED
    BY <2>1, <2>2, <2>3 DEF Next
<1> QED
  BY <1>3, <1>4, <1>5, <1>6

\* The journal and its calls are consistent: the invariant the rest rests on.
THEOREM InvariantHolds == Spec => []Inv
<1>1. Init => Inv
  <2> SUFFICES ASSUME Init PROVE Inv
    OBVIOUS
  <2>1. TypeOK
    BY DocumentTypes, NoCallType DEF Init, TypeOK
  <2> QED
    BY <2>1, BoundsAssumption
    DEF Init, Inv, Snapshots, SnapshotOK, NoCall, DocumentsOK, DocumentOK,
        AbsentDoc, Settled, Present, AcceptedIsPresent, KeyNamesOneEffect, ClosureStaysJustified
<1>2. Inv /\ TypeOK' /\ [Next]_vars => Inv'
  <2> SUFFICES ASSUME Inv, TypeOK', [Next]_vars PROVE Inv'
    OBVIOUS
  <2> USE DEF Inv
  <2>1. DocumentStep
    BY EveryStepIsADocumentStep
  <2>2. Snapshots'
    BY SnapshotsStep
  <2>3. DocumentsOK' /\ \A e \in Effects : Settled(journal[e]) => Settled(journal'[e])
    BY <2>1, DocumentStepFacts
  <2>4. AcceptedIsPresent' /\ KeyNamesOneEffect'
    <3> USE DEF TypeOK, AcceptedIsPresent, KeyNamesOneEffect
    <3>1. ASSUME NEW e \in Effects, NEW p \in Payloads, NEW r \in BOOLEAN,
                 ~Present(journal[e]),
                 journal' = [journal EXCEPT ![e] = Intent(p, r)],
                 accepted' = [accepted EXCEPT ![e] = @ \cup {p}]
          PROVE  AcceptedIsPresent' /\ KeyNamesOneEffect'
      <4>1. Present(Intent(p, r)) /\ Intent(p, r).payload = p
        BY DEF Intent, AbsentDoc, Present
      <4> QED
        BY <3>1, <4>1
    <3>2. ASSUME NEW e \in Effects, NEW n \in Documents, Successor(journal[e], n),
                 journal' = [journal EXCEPT ![e] = n], UNCHANGED accepted
          PROVE  AcceptedIsPresent' /\ KeyNamesOneEffect'
      <4>1. Present(n) /\ n.payload = journal[e].payload
        BY <3>2, SuccessorFacts DEF DocumentsOK
      <4> QED
        BY <3>2, <4>1
    <3>3. ASSUME NEW e \in Effects, Present(journal[e]), UNCHANGED journal,
                 accepted' = [accepted EXCEPT ![e] = @ \cup {journal[e].payload}]
          PROVE  AcceptedIsPresent' /\ KeyNamesOneEffect'
      BY <3>3
    <3> QED
      BY <2>1, <3>1, <3>2, <3>3 DEF DocumentStep
  <2>5. ClosureStaysJustified'
    <3>1. UNCHANGED sealed \/ \E s \in Sessions :
            call[s].step = "close" /\ sealed' = call[s].seen /\ UNCHANGED journal
      BY DEF Next, Begin, BeginIntent, BeginDispatch, BeginObserve, BeginReconcile,
         BeginClose, Prepare, Continue, InsertIntent, Commit, Conflict, Close,
         Crash, World, Happen, vars
    <3> QED
      BY <2>3, <3>1 DEF ClosureStaysJustified, Snapshots, SnapshotOK, TypeOK
  <2> QED
    BY <2>2, <2>3, <2>4, <2>5
<1> QED
  BY <1>1, <1>2, TypeCorrect, PTL DEF Spec

\* Racing intents for one effect_key never yield two different effects.
THEOREM KeyNamesOneEffectHolds == Spec => []KeyNamesOneEffect
  BY InvariantHolds, PTL DEF Inv

\* Whatever the sessions do after a Slice was closed, the effects that the
\* closing call found settled stay settled.
THEOREM ClosureStaysJustifiedHolds == Spec => []ClosureStaysJustified
  BY InvariantHolds, PTL DEF Inv

\* No interleaving and no crash leaves an effect that nothing can resolve.
THEOREM RecoverableHolds == Spec => []Recoverable
<1>1. TypeOK => Recoverable
  BY DEF TypeOK, Recoverable, Documents, States, Present, CanObserve, CanDispatch,
         Settled
<1> QED
  BY <1>1, TypeCorrect, PTL

-----------------------------------------------------------------------------
(* Refinement of the atomic ledger.                                        *)

LEMMA PhaseTypes == \A d \in Documents : PhaseOf(d) \in Ledger!Phases
  BY DEF PhaseOf, Documents, States, Outcomes, NotExecuted, Ledger!Phases

\* A guarded change of a document is one of the ledger's operations.
LEMMA SuccessorPhases ==
  ASSUME NEW d \in Documents, NEW n, Successor(d, n)
  PROVE  \/ /\ PhaseOf(d) \in {"authorized", "notExecuted"}
            /\ PhaseOf(n) = "inflight" /\ n.attempt = d.attempt + 1
         \/ /\ PhaseOf(d) \in {"notExecuted", "unclear", "confirmed", "inflight", "delta"}
            /\ PhaseOf(n) \in {"notExecuted", "unclear", "confirmed"}
            /\ n.attempt = d.attempt
         \/ /\ PhaseOf(d) = "confirmed" /\ PhaseOf(n) = "settled"
            /\ n.attempt = d.attempt
         \/ /\ PhaseOf(d) \in {"notExecuted", "unclear", "confirmed"}
            /\ PhaseOf(n) = "delta" /\ n.attempt = d.attempt
<1> USE DEF Documents, PhaseOf, NotExecuted
<1>1. CASE CanDispatch(d) /\ n = Dispatched(d)
  BY <1>1 DEF CanDispatch, Dispatched
<1>2. ASSUME CanObserve(d), NEW o \in Reportable, n = ObservedAs(d, o)
      PROVE  /\ PhaseOf(d) \in {"notExecuted", "unclear", "confirmed", "inflight", "delta"}
             /\ PhaseOf(n) \in {"notExecuted", "unclear", "confirmed"}
             /\ n.attempt = d.attempt
  <2>1. n.state = "OBSERVED" /\ n.outcome = o /\ n.attempt = d.attempt
    BY <1>2 DEF ObservedAs
  <2>2. PhaseOf(n) \in {"notExecuted", "unclear", "confirmed"}
    BY <2>1, DataAssumption DEF Outcomes
  <2>3. PhaseOf(d) \in {"notExecuted", "unclear", "confirmed", "inflight", "delta"}
    BY <1>2 DEF CanObserve, Settled, Outcomes
  <2> QED
    BY <2>1, <2>2, <2>3
<1>3. ASSUME CanReconcile(d, TRUE), n = Reconciled(d, TRUE)
      PROVE  PhaseOf(d) = "confirmed" /\ PhaseOf(n) = "settled" /\ n.attempt = d.attempt
  BY <1>3 DEF CanReconcile, Reconciled
<1>4. ASSUME CanReconcile(d, FALSE), n = Reconciled(d, FALSE)
      PROVE  /\ PhaseOf(d) \in {"notExecuted", "unclear", "confirmed"}
             /\ PhaseOf(n) = "delta" /\ n.attempt = d.attempt
  BY <1>4 DEF CanReconcile, Reconciled, Outcomes
<1> QED
  BY <1>1, <1>2, <1>3, <1>4 DEF Successor

\* One step of the sessions is one operation of the ledger, or none.
LEMMA StepRefines ==
  ASSUME Inv, Inv', [Next]_vars
  PROVE  [Ledger!Next]_(Ledger!ledgerVars)
<1> DEFINE phase == [e \in Effects |-> PhaseOf(journal[e])]
           attempts == [e \in Effects |-> journal[e].attempt]
<1> USE DEF Inv, TypeOK
<1>1. ASSUME NEW e \in Effects, NEW n, journal' = [journal EXCEPT ![e] = n]
      PROVE  /\ phase' = [phase EXCEPT ![e] = PhaseOf(n)]
             /\ attempts' = [attempts EXCEPT ![e] = n.attempt]
  BY <1>1
<1>2. UNCHANGED sealed \/ UNCHANGED journal
  BY DEF Next, Begin, BeginIntent, BeginDispatch, BeginObserve, BeginReconcile,
     BeginClose, Prepare, Continue, InsertIntent, Commit, Conflict, Close,
     Crash, World, Happen, vars
<1>3. CASE UNCHANGED journal
  <2>1. phase' = phase /\ attempts' = attempts
    BY <1>3
  <2>2. \A e \in Effects : Settled(journal[e]) => PhaseOf(journal[e]) = "settled"
    BY DEF Settled, PhaseOf
  <2>3. sealed' \in SUBSET {e \in Effects : phase[e] = "settled"}
    BY <1>3, <2>2 DEF ClosureStaysJustified
  <2> QED
    BY <2>1, <2>3 DEF Ledger!Next, Ledger!Seal
<1>4. CASE UNCHANGED sealed
  <2>1. DocumentStep
    BY EveryStepIsADocumentStep
  <2>2. ASSUME NEW e \in Effects, NEW p \in Payloads, NEW r \in BOOLEAN,
               ~Present(journal[e]),
               journal' = [journal EXCEPT ![e] = Intent(p, r)]
        PROVE  Ledger!Next
    <3>1. /\ phase[e] = "none" /\ journal[e].attempt = 0
          /\ PhaseOf(Intent(p, r)) = "authorized" /\ Intent(p, r).attempt = 0
      BY <2>2 DEF PhaseOf, Present, Intent, AbsentDoc, DocumentsOK, DocumentOK
    <3>2. attempts' = attempts
      BY <2>2, <3>1, <1>1
    <3> QED
      BY <1>1, <1>4, <2>2, <3>1, <3>2 DEF Ledger!Next, Ledger!Authorize
  <2>3. ASSUME NEW e \in Effects, NEW n \in Documents, Successor(journal[e], n),
               journal' = [journal EXCEPT ![e] = n]
        PROVE  Ledger!Next
    <3>1. /\ phase' = [phase EXCEPT ![e] = PhaseOf(n)]
          /\ attempts' = [attempts EXCEPT ![e] = n.attempt]
          /\ phase[e] = PhaseOf(journal[e])
          /\ attempts[e] = journal[e].attempt
      BY <1>1, <2>3
    <3>2. n.attempt = journal[e].attempt => attempts' = attempts
      BY <3>1
    <3>3. CASE /\ PhaseOf(journal[e]) \in {"authorized", "notExecuted"}
               /\ PhaseOf(n) = "inflight" /\ n.attempt = journal[e].attempt + 1
      BY <1>4, <3>1, <3>3 DEF Ledger!Next, Ledger!Send
    <3>4. CASE /\ PhaseOf(journal[e]) \in
                    {"notExecuted", "unclear", "confirmed", "inflight", "delta"}
               /\ PhaseOf(n) \in {"notExecuted", "unclear", "confirmed"}
               /\ n.attempt = journal[e].attempt
      BY <1>4, <3>1, <3>2, <3>4 DEF Ledger!Next, Ledger!Observe, Ledger!Observed
    <3>5. CASE /\ PhaseOf(journal[e]) = "confirmed" /\ PhaseOf(n) = "settled"
               /\ n.attempt = journal[e].attempt
      BY <1>4, <3>1, <3>2, <3>5 DEF Ledger!Next, Ledger!Settle
    <3>6. CASE /\ PhaseOf(journal[e]) \in {"notExecuted", "unclear", "confirmed"}
               /\ PhaseOf(n) = "delta" /\ n.attempt = journal[e].attempt
      BY <1>4, <3>1, <3>2, <3>6 DEF Ledger!Next, Ledger!KeepDelta, Ledger!Observed
    <3> QED
      BY <2>3, <3>3, <3>4, <3>5, <3>6, SuccessorPhases
  <2>4. CASE UNCHANGED journal
    BY <1>3, <2>4
  <2> QED
    BY <2>1, <2>2, <2>3, <2>4 DEF DocumentStep
<1> QED
  BY <1>2, <1>3, <1>4

\* The interleaved, crashing sessions implement the atomic ledger.
THEOREM JournalImplementsLedger == Spec => ImplementsLedger
<1>1. Init => Ledger!Init
  BY DEF Init, Ledger!Init, PhaseOf, AbsentDoc
<1>2. Inv /\ Inv' /\ [Next]_vars => [Ledger!Next]_(Ledger!ledgerVars)
  BY StepRefines
<1> QED
  BY <1>1, <1>2, InvariantHolds, PTL DEF Spec, ImplementsLedger, Ledger!Spec

-----------------------------------------------------------------------------
(* The outside world, when every report is about the latest attempt.       *)

-----------------------------------------------------------------------------
(* The outside world, when every report is about the latest attempt.       *)

\* Reads leave the world alone; a new report is about the latest attempt.
LEMMA WorldBegin ==
  ASSUME StaleReports = FALSE, TypeOK, WorldInv, NEW t \in Sessions, Begin(t)
  PROVE  WorldInv'
<1> USE DEF TypeOK, Goto
<1>1. UNCHANGED <<journal, fate>> /\ \A s \in Sessions : s # t => call'[s] = call[s]
  BY DEF Begin, BeginIntent, BeginDispatch, BeginObserve, BeginReconcile,
     BeginClose, Prepare
<1>2. ReportOK(t)'
  <2>1. ASSUME call'[t].step # "commit" PROVE ReportOK(t)'
    BY <2>1 DEF ReportOK
  <2>2. ASSUME NEW e \in Effects, NEW n, Prepare(t, e, n), n.state # "OBSERVED"
        PROVE  ReportOK(t)'
    BY <2>2 DEF Prepare, ReportOK, NoCall
  <2>3. ASSUME NEW e \in Effects, NEW o \in Reportable, BeginObserve(t, e, o)
        PROVE  ReportOK(t)'
    <3>1. Honest(e, journal[e].attempt, o)
      BY <2>3 DEF BeginObserve, ReportedAttempts
    <3>2. /\ call'[t].eff = e
          /\ call'[t].new = ObservedAs(journal[e], o)
      BY <2>3 DEF BeginObserve, Prepare, NoCall
    <3>3. /\ ObservedAs(journal[e], o).attempt = journal[e].attempt
          /\ ObservedAs(journal[e], o).outcome = o
      BY DEF ObservedAs, Documents
    <3> QED
      BY <1>1, <3>1, <3>2, <3>3 DEF ReportOK, Honest
  <2>4. ASSUME NEW e \in Effects
        PROVE  /\ Dispatched(journal[e]).state # "OBSERVED"
               /\ \A b \in BOOLEAN : Reconciled(journal[e], b).state # "OBSERVED"
    BY DEF Dispatched, Reconciled, Documents
  <2>5. ASSUME NEW e \in Effects, BeginDispatch(t, e) PROVE ReportOK(t)'
    BY <2>2, <2>4, <2>5 DEF BeginDispatch
  <2>6. ASSUME NEW e \in Effects, NEW b \in BOOLEAN, BeginReconcile(t, e, b)
        PROVE  ReportOK(t)'
    BY <2>2, <2>4, <2>6 DEF BeginReconcile
  <2>7. ASSUME NEW e \in Effects, NEW p \in Payloads, NEW r \in BOOLEAN,
               BeginIntent(t, e, p, r)
        PROVE  call'[t].step # "commit"
    BY <2>7 DEF BeginIntent, NoCall
  <2>8. ASSUME BeginClose(t) PROVE call'[t].step # "commit"
    BY <2>8 DEF BeginClose, NoCall
  <2> QED
    BY <2>1, <2>3, <2>5, <2>6, <2>7, <2>8 DEF Begin
<1>3. ASSUME NEW s \in Sessions, s # t PROVE ReportOK(s)'
  <2>1. ReportOK(s)
    BY DEF WorldInv
  <2> QED
    BY <1>1, <1>3, <2>1 DEF ReportOK, Honest
<1>4. ASSUME NEW e \in Effects PROVE WorldOK(e)'
  BY <1>1 DEF WorldInv, WorldOK
<1> QED
  BY <1>2, <1>3, <1>4 DEF WorldInv

\* The committed successor agrees with what became of the attempts.
LEMMA WorldCommit ==
  ASSUME Inv, WorldInv, NEW t \in Sessions, Commit(t)
  PROVE  WorldInv'
<1> USE BoundsAssumption DEF TypeOK
<1>0. PICK e \in Effects, d \in Documents, n \in Documents :
        e = call[t].eff /\ d = journal[e] /\ n = call[t].new
  BY DEF Inv, Commit, Snapshots, SnapshotOK, Calls
<1>1. /\ TypeOK /\ e \in Effects /\ d \in Documents /\ n \in Documents
      /\ Successor(d, n) /\ DocumentOK(d) /\ DocumentOK(n) /\ n.rev = d.rev + 1
      /\ journal' = [journal EXCEPT ![e] = n]
      /\ call' = [call EXCEPT ![t] = NoCall]
  <2>1. TypeOK /\ e \in Effects /\ d \in Documents /\ Successor(d, n) /\ DocumentOK(d)
    BY <1>0 DEF Inv, Commit, Current, Snapshots, SnapshotOK, DocumentsOK
  <2> QED
    BY <1>0, <2>1, SuccessorFacts DEF Commit, Goto, Return
<1>2. /\ d.attempt \in Nat /\ d.rev \in Nat /\ n.attempt \in Nat
      /\ d.attempt <= MaxAttempts /\ n.attempt <= MaxAttempts
  BY <1>1 DEF Documents, DocumentOK
<1>3. WorldOK(e)
  BY DEF WorldInv
<1>4. journal'[e] = n
  BY <1>1
<1>5. WorldOK(e)'
  <2>1. CASE CanDispatch(d) /\ n = Dispatched(d)
    <3>1. /\ n.state = "DISPATCHED" /\ n.attempt = d.attempt + 1
          /\ d.state = "AUTHORIZED" => d.attempt = 0
          /\ d.state = "OBSERVED" => fate[e][d.attempt] = "dead"
      BY <1>1, <1>0, <1>3, <2>1 DEF Dispatched, Documents, CanDispatch, DocumentOK, WorldOK
    <3>2. fate' = [fate EXCEPT ![e][n.attempt] = "inflight"]
      BY <1>0, <3>1 DEF Commit
    <3>3. \A k \in 1..MaxAttempts :
            fate'[e][k] = IF k = n.attempt THEN "inflight" ELSE fate[e][k]
      BY <1>1, <3>2
    <3>4. \A k \in 1..MaxAttempts : k < n.attempt => fate[e][k] = "dead"
      BY <1>0, <1>2, <1>3, <2>1, <3>1 DEF WorldOK, CanDispatch
    <3>5. \A k \in 1..MaxAttempts : k > n.attempt => fate[e][k] = "unsent"
      BY <1>0, <1>2, <1>3, <3>1 DEF WorldOK
    <3> QED
      BY <1>2, <1>4, <3>1, <3>3, <3>4, <3>5 DEF WorldOK
  <2>2. ASSUME CanObserve(d), NEW o \in Reportable, n = ObservedAs(d, o)
        PROVE  WorldOK(e)'
    <3>1. n.state = "OBSERVED" /\ n.attempt = d.attempt /\ n.outcome = o
      BY <1>1, <2>2 DEF ObservedAs, Documents
    <3>2. UNCHANGED fate
      BY <1>0, <3>1 DEF Commit
    <3>3. Honest(e, n.attempt, n.outcome)
      BY <1>0, <3>1 DEF WorldInv, ReportOK, Commit, Current
    <3> QED
      BY <1>0, <1>2, <1>3, <1>4, <3>1, <3>2, <3>3 DEF WorldOK, Honest, NotExecuted
  <2>3. ASSUME NEW b \in BOOLEAN, CanReconcile(d, b), n = Reconciled(d, b)
        PROVE  WorldOK(e)'
    <3>1. /\ n.state = "RECONCILED" /\ n.attempt = d.attempt
          /\ n.outcome = d.outcome /\ d.state = "OBSERVED"
      BY <1>1, <2>3 DEF Reconciled, CanReconcile, Documents
    <3>2. UNCHANGED fate
      BY <1>0, <3>1 DEF Commit
    <3> QED
      BY <1>0, <1>2, <1>3, <1>4, <3>1, <3>2 DEF WorldOK
  <2> QED
    BY <1>1, <2>1, <2>2, <2>3 DEF Successor
<1>6. ASSUME NEW f \in Effects, f # e
      PROVE  journal'[f] = journal[f] /\ fate'[f] = fate[f]
  BY <1>0, <1>1, <1>6 DEF Commit
<1>7. ASSUME NEW f \in Effects, f # e PROVE WorldOK(f)'
  BY <1>6, <1>7 DEF WorldInv, WorldOK
<1>8. ASSUME NEW s \in Sessions PROVE ReportOK(s)'
  <2>1. CASE s = t
    BY <1>1, <2>1 DEF ReportOK, NoCall
  <2>2. CASE s # t
    <3>1. call'[s] = call[s] /\ ReportOK(s) /\ SnapshotOK(s) /\ call[s].base \in Nat
      BY <1>1, <2>2 DEF WorldInv, Inv, Snapshots, Calls
    <3>2. CASE call[s].step = "commit" /\ call[s].eff = e
      <4>1. call[s].base # journal'[e].rev
        BY <1>1, <1>2, <1>4, <3>1, <3>2, <1>0 DEF SnapshotOK
      <4> QED
        BY <3>1, <3>2, <4>1 DEF ReportOK
    <3>3. CASE call[s].step = "commit" /\ call[s].eff # e
      <4>1. call[s].eff \in Effects
        BY <3>1, <3>3 DEF SnapshotOK
      <4> QED
        BY <1>6, <3>1, <3>3, <4>1 DEF ReportOK, Honest
    <3> QED
      BY <3>1, <3>2, <3>3 DEF ReportOK
  <2> QED
    BY <2>1, <2>2
<1> QED
  BY <1>1, <1>5, <1>7, <1>8 DEF WorldInv

LEMMA WorldInsert ==
  ASSUME Inv, WorldInv, NEW t \in Sessions, InsertIntent(t)
  PROVE  WorldInv'
<1> USE BoundsAssumption DEF TypeOK
<1>1. TypeOK /\ UNCHANGED fate /\ call' = [call EXCEPT ![t] = NoCall]
  BY DEF Inv, InsertIntent, Goto, Return
<1>2. PICK e \in Effects, p \in Payloads, r \in BOOLEAN :
        call[t].eff = e /\ call[t].new = Intent(p, r)
  BY DEF Inv, Snapshots, SnapshotOK, InsertIntent
<1>3. \/ UNCHANGED journal
      \/ ~Present(journal[e]) /\ journal' = [journal EXCEPT ![e] = Intent(p, r)]
  BY <1>2 DEF InsertIntent
<1>4. ASSUME NEW f \in Effects PROVE WorldOK(f)'
  <2>1. CASE journal'[f] = journal[f]
    BY <1>1, <2>1 DEF WorldInv, WorldOK
  <2>2. CASE f = e /\ ~Present(journal[e]) /\ journal'[e] = Intent(p, r)
    <3>1. /\ journal[e].attempt = 0 /\ journal'[e].attempt = 0
          /\ journal'[e].state = "AUTHORIZED"
      BY <2>2 DEF Inv, DocumentsOK, DocumentOK, Present, Intent, AbsentDoc
    <3> QED
      BY <1>1, <2>2, <3>1 DEF WorldInv, WorldOK
  <2> QED
    BY <1>1, <1>3, <2>1, <2>2
<1>5. ASSUME NEW s \in Sessions PROVE ReportOK(s)'
  <2>1. CASE s = t
    BY <1>1, <2>1 DEF ReportOK, NoCall
  <2>2. CASE s # t /\ call[s].step = "commit"
    <3>1. /\ call'[s] = call[s] /\ ReportOK(s)
          /\ call[s].eff \in Effects /\ Present(journal[call[s].eff])
      BY <1>1, <2>2 DEF WorldInv, Inv, Snapshots, SnapshotOK
    <3>2. journal'[call[s].eff] = journal[call[s].eff]
      BY <1>1, <1>3, <3>1
    <3> QED
      BY <1>1, <3>1, <3>2 DEF ReportOK, Honest
  <2>3. CASE s # t /\ call[s].step # "commit"
    BY <1>1, <2>3 DEF ReportOK
  <2> QED
    BY <2>1, <2>2, <2>3
<1> QED
  BY <1>4, <1>5 DEF WorldInv

\* An attempt meets its fate once; what was reported of others stays true.
LEMMA WorldHappens ==
  ASSUME Inv, WorldInv, World
  PROVE  WorldInv'
<1> USE BoundsAssumption DEF TypeOK
<1>1. PICK e \in Effects, k \in 1..MaxAttempts, f \in {"done", "dead"} :
        Happen(e, k, f)
  BY DEF World
<1>2. /\ TypeOK /\ UNCHANGED <<journal, call>> /\ fate[e][k] = "inflight"
      /\ fate' = [fate EXCEPT ![e][k] = f]
  BY <1>1 DEF Happen, Inv
<1>3. ASSUME NEW c \in Effects, NEW j \in 1..MaxAttempts,
             fate[c][j] \in {"done", "dead", "unsent"}
      PROVE  fate'[c][j] = fate[c][j]
  BY <1>2, <1>3
<1>4. ASSUME NEW c \in Effects PROVE WorldOK(c)'
  <2>1. /\ WorldOK(c) /\ journal'[c] = journal[c]
        /\ journal[c] \in Documents /\ DocumentOK(journal[c])
    BY <1>2 DEF WorldInv, Inv, DocumentsOK
  <2>2. /\ journal[c].attempt \in Nat /\ journal[c].attempt <= MaxAttempts
        /\ journal[c].state \in {"OBSERVED", "RECONCILED"} => journal[c].attempt > 0
    BY <2>1 DEF Documents, DocumentOK
  <2> QED
    BY <1>3, <2>1, <2>2 DEF WorldOK
<1>5. ASSUME NEW s \in Sessions PROVE ReportOK(s)'
  <2>1. CASE call[s].step = "commit" /\ call[s].base = journal[call[s].eff].rev
             /\ call[s].new.state = "OBSERVED"
    <3> DEFINE c == call[s].eff
               n == call[s].new
    <3>1. /\ c \in Effects /\ journal[c] \in Documents /\ n \in Documents
          /\ DocumentOK(journal[c]) /\ Successor(journal[c], n)
          /\ Honest(c, n.attempt, n.outcome)
      BY <1>2, <2>1 DEF Inv, Snapshots, SnapshotOK, DocumentsOK, Calls, WorldInv, ReportOK
    <3>2. n.attempt \in 1..MaxAttempts
      <4>1. DocumentOK(n)
        BY <3>1, SuccessorFacts
      <4> QED
        BY <2>1, <3>1, <4>1 DEF DocumentOK, Documents
    <3>3. Honest(c, n.attempt, n.outcome)'
      BY <1>2, <1>3, <3>1, <3>2 DEF Honest
    <3> QED
      BY <1>2, <3>3 DEF ReportOK
  <2>2. CASE ~(call[s].step = "commit" /\ call[s].base = journal[call[s].eff].rev
               /\ call[s].new.state = "OBSERVED")
    BY <1>2, <2>2 DEF ReportOK
  <2> QED
    BY <2>1, <2>2
<1> QED
  BY <1>4, <1>5 DEF WorldInv

\* With honest reports about the latest attempt, the journal knows the world.
LEMMA WorldKnown ==
  ASSUME StaleReports = FALSE
  PROVE  Spec => []WorldInv
<1>1. Init => WorldInv
  BY BoundsAssumption
  DEF Init, WorldInv, WorldOK, ReportOK, AbsentDoc, NoCall
<1>2. Inv /\ WorldInv /\ [Next]_vars => WorldInv'
  <2> SUFFICES ASSUME Inv, WorldInv, [Next]_vars PROVE WorldInv'
    OBVIOUS
  <2>1. ASSUME NEW t \in Sessions, Begin(t) PROVE WorldInv'
    BY <2>1, WorldBegin DEF Inv
  <2>2. ASSUME NEW t \in Sessions, InsertIntent(t) PROVE WorldInv'
    BY <2>2, WorldInsert
  <2>3. ASSUME NEW t \in Sessions, Commit(t) PROVE WorldInv'
    BY <2>3, WorldCommit
  <2>4. ASSUME NEW t \in Sessions, Conflict(t) \/ Close(t) \/ Crash(t)
        PROVE  WorldInv'
    <3>1. UNCHANGED <<journal, fate>> /\ call' = [call EXCEPT ![t] = NoCall]
      BY <2>4 DEF Conflict, Close, Crash, Goto, Return
    <3>2. ASSUME NEW s \in Sessions PROVE ReportOK(s)'
      <4>1. call'[s] = call[s] \/ call'[s] = NoCall
        BY <3>1 DEF Inv, TypeOK
      <4> QED
        BY <3>1, <4>1 DEF WorldInv, ReportOK, Honest, NoCall
    <3> QED
      BY <3>1, <3>2 DEF WorldInv, WorldOK
  <2>5. CASE World
    BY <2>5, WorldHappens
  <2>6. CASE UNCHANGED vars
    BY <2>6 DEF vars, WorldInv, WorldOK, ReportOK, Honest
  <2> QED
    BY <2>1, <2>2, <2>3, <2>4, <2>5, <2>6 DEF Next, Continue
<1> QED
  BY <1>1, <1>2, InvariantHolds, PTL DEF Spec

\* No interleaving of any number of sessions makes the outside world perform
\* one logical effect twice.
THEOREM AtMostOnceHolds ==
  ASSUME StaleReports = FALSE
  PROVE  Spec => []AtMostOnce
<1>1. Inv /\ WorldInv => AtMostOnce
  <2> SUFFICES ASSUME Inv, WorldInv, NEW e \in Effects,
                      NEW j \in 1..MaxAttempts, NEW k \in 1..MaxAttempts,
                      {fate[e][j], fate[e][k]} \subseteq {"inflight", "done"}
               PROVE  j = k
    BY DEF AtMostOnce
  <2>1. journal[e].attempt \in Nat /\ WorldOK(e)
    BY DEF Inv, TypeOK, Documents, WorldInv
  <2>2. j = journal[e].attempt /\ k = journal[e].attempt
    BY <2>1, BoundsAssumption DEF WorldOK
  <2> QED
    BY <2>2
<1> QED
  BY <1>1, WorldKnown, InvariantHolds, PTL

\* A settled effect was performed by the outside world.
THEOREM SettledMeansDoneHolds ==
  ASSUME StaleReports = FALSE
  PROVE  Spec => []SettledMeansDone
<1>1. Inv /\ WorldInv => SettledMeansDone
  <2> SUFFICES ASSUME Inv, WorldInv, NEW e \in Effects, Settled(journal[e])
               PROVE  \E k \in 1..MaxAttempts : fate[e][k] = "done"
    BY DEF SettledMeansDone
  <2>1. /\ journal[e] \in Documents /\ DocumentOK(journal[e]) /\ WorldOK(e)
        /\ journal[e].state = "RECONCILED"
    BY DEF Inv, TypeOK, DocumentsOK, WorldInv, Settled
  <2>2. journal[e].attempt \in 1..MaxAttempts
    BY <2>1, BoundsAssumption DEF Documents, DocumentOK
  <2>3. fate[e][journal[e].attempt] = "done"
    BY <2>1 DEF DocumentOK, WorldOK
  <2> QED
    BY <2>2, <2>3
<1> QED
  BY <1>1, WorldKnown, InvariantHolds, PTL
=============================================================================
