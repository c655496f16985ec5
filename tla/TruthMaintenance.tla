--------------------------- MODULE TruthMaintenance ---------------------------
(*****************************************************************************)
(* BTTM/1, truth.py.  Assertions are rows that are added and closed, never   *)
(* removed.  Row n is the n-th row inserted; a row names only rows that were *)
(* there when it was recorded, so references go from later rows to earlier.  *)
(*                                                                           *)
(* A call closes a row, inserts one, evaluates it, stores the result with a  *)
(* compare-and-set and walks the rows that depend on a closed row.  Other    *)
(* calls act between any two of these writes, and a call may end between any *)
(* two of them.  What is stored in support_state is what the hygiene kernel  *)
(* reads; truth_at evaluates afresh.  truth_events are a log and left out.   *)
(*****************************************************************************)
EXTENDS Integers, Sequences, FiniteSets, FiniteSetsExt

CONSTANTS Sessions,     \* concurrent callers
          MaxRows,      \* bound: rows in truth_assertions
          MaxCalls,     \* bound: calls begun
          Horizon,      \* bound: moments of both time axes
          Inputs(_),    \* Inputs(n): the assertions callers record when n rows exist
          Histories     \* truth_assertions at the start, recorded by calls that have ended; nothing is retracted

Moments == 0..Horizon
\* known_to of a row that is not closed: later than every moment.
Open == Horizon + 1
Ids  == 1..MaxRows

SupportStates == {"SUPPORTED", "UNSUPPORTED", "CONTRADICTED", "REVALIDATION_REQUIRED"}
\* evidence_ids: none, all with a verdict that supports, or one that does not.
Evidence == {"none", "good", "bad"}

Rows == [kf : Moments, kt : Moments \cup {Open}, valid : SUBSET Moments,
         support : SUBSET Ids,      \* support_ids, assumption_ids and depends_on
         contradicts : SUBSET Ids, evidence : Evidence,
         life : {"ACTIVE", "SUPERSEDED", "RETRACTED"},
         state : SupportStates, rev : Nat]

\* References go to rows that were there before: the graph that evaluate and the
\* propagation walk has no cycle.
\* Of the constants.
TruthAssumption ==
    /\ MaxRows \in Nat \ {0} /\ MaxCalls \in Nat /\ Horizon \in Nat
    /\ \A n \in 0..MaxRows : Inputs(n) \subseteq
          [valid : (SUBSET Moments) \ {{}}, evidence : Evidence,
           support : SUBSET (1..n), contradicts : SUBSET (1..n)]
    /\ Histories \subseteq Seq(Rows)
    /\ \A rs \in Histories : \A n \in DOMAIN rs :
          /\ rs[n].support \cup rs[n].contradicts \subseteq 1..n - 1
          /\ rs[n].life = (IF rs[n].kt = Open THEN "ACTIVE" ELSE "SUPERSEDED")
    /\ IsFiniteSet(Sessions)

VARIABLES rows,         \* truth_assertions, in the order of insertion
          call,         \* call[s]: the call session s is in
          begun,        \* calls begun so far
          outstanding   \* closed rows no completed walk has started from since

vars == <<rows, call, begun, outstanding>>

Idle == [pc |-> "idle", op |-> "record", root |-> 0, rev |-> 0, now |-> 0, id |-> 0,
         draft |-> <<>>, result |-> "UNSUPPORTED", queue |-> <<>>, seen |-> {}, todo |-> <<>>]

Init ==
    /\ rows \in Histories
    /\ call = [s \in Sessions |-> Idle]
    /\ begun = 0
    /\ outstanding = {}

-----------------------------------------------------------------------------
(* Evaluation. *)

Known(r, k) == r.kf <= k /\ k < r.kt

Grounded(r) == r.evidence # "none" \/ r.support # {}

MutVerdict(r, v, k, supported) ==
    IF ~Known(r, k) \/ v \notin r.valid \/ r.life = "RETRACTED" THEN "UNSUPPORTED"
    ELSE IF \E c \in r.contradicts : supported[c] THEN "CONTRADICTED"
    ELSE IF r.evidence = "bad" \/ (r.support # {} /\ \A d \in r.support : ~supported[d])
         THEN "REVALIDATION_REQUIRED"
    ELSE IF Grounded(r) THEN "SUPPORTED" ELSE "UNSUPPORTED"

\* The state of one row, given which of the rows it refers to are supported.
Verdict(r, v, k, supported) ==
    IF ~Known(r, k) \/ v \notin r.valid \/ r.life = "RETRACTED" THEN "UNSUPPORTED"
    ELSE IF \E c \in r.contradicts : supported[c] THEN "CONTRADICTED"
    ELSE IF r.evidence = "bad" \/ \E d \in r.support : ~supported[d] THEN "REVALIDATION_REQUIRED"
    ELSE IF Grounded(r) THEN "SUPPORTED" ELSE "UNSUPPORTED"

\* evaluate: the memoised walk.  References go to earlier rows, so the walk is a
\* recursive function on the row number and its branch for cycles is never taken.
Evaluate(rs, v, k) ==
    LET state[n \in DOMAIN rs] ==
            Verdict(rs[n], v, k, [m \in rs[n].support \cup rs[n].contradicts |-> state[m] = "SUPPORTED"])
    IN  state

\* truth_at with include_unsupported = False.
TruthAt(rs, v, k) == {n \in DOMAIN rs : Evaluate(rs, v, k)[n] = "SUPPORTED"}

-----------------------------------------------------------------------------
(* Steps of a call. *)

\* The compare-and-set of update: the row is as it was read.
Matches(id, rev) == rows[id].rev = rev

Put(id, row) == rows' = [rows EXCEPT ![id] = [row EXCEPT !.rev = row.rev + 1]]

Goto(s, c) == call' = [call EXCEPT ![s] = c]

\* A compare-and-set that loses raises, and the rest of the call does not happen.
Conflict(s, id, rev) ==
    /\ ~Matches(id, rev)
    /\ Goto(s, Idle)
    /\ UNCHANGED <<rows, begun, outstanding>>

Begin(s) ==
    /\ call[s].pc = "idle"
    /\ begun < MaxCalls
    /\ begun' = begun + 1
    /\ UNCHANGED <<rows, outstanding>>

\* Calls that are still to insert a row.
Recording == Cardinality({s \in Sessions : call[s].op = "record" /\ call[s].pc \in {"close", "insert"}})

MutCloses(old) == old # 0
\* The call closes the row that it supersedes, unless that one is closed already.
Closes(old) == old # 0 /\ rows[old].kt = Open

\* record_assertion up to its first write.  The moment at which the assertion is
\* known is fixed here, by the caller or from the clock.
BeginRecord(s) ==
    /\ Begin(s)
    /\ Len(rows) + Recording < MaxRows
    /\ \E now \in Moments, d \in Inputs(Len(rows)), old \in {0} \cup DOMAIN rows :   \* old = 0: supersedes none
          LET c == [Idle EXCEPT !.now = now, !.draft = d] IN
          Goto(s, IF Closes(old)
                  THEN [c EXCEPT !.pc = "close", !.root = old, !.rev = rows[old].rev]
                  ELSE [c EXCEPT !.pc = "insert"])

Superseded(r, when) == [r EXCEPT !.kt = when, !.life = "SUPERSEDED"]
Retracted(r, when) == [r EXCEPT !.kt = when, !.life = "RETRACTED", !.state = "UNSUPPORTED"]

CloseSuperseded(s) ==
    LET c == call[s] IN
    /\ c.pc = "close" /\ c.op = "record"
    /\ \/ /\ Matches(c.root, c.rev)
          /\ Put(c.root, Superseded(rows[c.root], c.now))
          /\ outstanding' = outstanding \cup {c.root}
          /\ Goto(s, [c EXCEPT !.pc = "insert"])
          /\ UNCHANGED begun
       \/ Conflict(s, c.root, c.rev)

InsertAssertion(s) ==
    LET c == call[s]
        d == c.draft IN
    /\ c.pc = "insert"
    /\ rows' = Append(rows, [kf |-> c.now, kt |-> Open, valid |-> d.valid, support |-> d.support,
                             contradicts |-> d.contradicts, evidence |-> d.evidence,
                             life |-> "ACTIVE", state |-> "REVALIDATION_REQUIRED", rev |-> 0])
    /\ Goto(s, [c EXCEPT !.pc = "evaluate", !.id = Len(rows) + 1])
    /\ UNCHANGED <<begun, outstanding>>

\* The new row is evaluated as of the moment it was known: valid_from or known_from.
EvaluateNew(s) ==
    LET c == call[s]
        v == IF rows[c.id].valid = Moments THEN c.now ELSE Min(rows[c.id].valid) IN
    /\ c.pc = "evaluate"
    /\ Goto(s, [c EXCEPT !.pc = "store", !.result = Evaluate(rows, v, c.now)[c.id]])
    /\ UNCHANGED <<rows, begun, outstanding>>

\* _propagate_revalidation starts at the closed row, if the call closed one.
Propagate(c) ==
    IF c.root = 0 THEN Idle
    ELSE [Idle EXCEPT !.pc = "find", !.op = c.op, !.root = c.root, !.queue = <<c.root>>, !.seen = {c.root}]

MutStoreRevision(c) == rows[c.id].rev
\* The revision under which the evaluation is stored: that of the inserted row.
StoreRevision(c) == 0

StoreEvaluation(s) ==
    LET c == call[s] IN
    /\ c.pc = "store"
    /\ \/ /\ Matches(c.id, StoreRevision(c))
          /\ Put(c.id, [rows[c.id] EXCEPT !.state = c.result])
          /\ Goto(s, Propagate(c))
          /\ UNCHANGED <<begun, outstanding>>
       \/ Conflict(s, c.id, StoreRevision(c))

\* invalidate reads the row; one that is closed already is only propagated again.
BeginInvalidate(s) ==
    /\ Begin(s)
    /\ \E id \in DOMAIN rows, now \in Moments :
          LET c == [Idle EXCEPT !.op = "invalidate", !.root = id, !.rev = rows[id].rev, !.now = now] IN
          Goto(s, IF rows[id].kt = Open THEN [c EXCEPT !.pc = "close"] ELSE Propagate(c))

CloseRetracted(s) ==
    LET c == call[s] IN
    /\ c.pc = "close" /\ c.op = "invalidate"
    /\ \/ /\ Matches(c.root, c.rev)
          /\ Put(c.root, Retracted(rows[c.root], c.now))
          /\ outstanding' = outstanding \cup {c.root}
          /\ Goto(s, Propagate(c))
          /\ UNCHANGED begun
       \/ Conflict(s, c.root, c.rev)

\* The rows that _propagate_revalidation marks after it has taken one from its queue.
Dependents(of, seen) == {n \in DOMAIN rows \ seen : of \in rows[n].support /\ rows[n].kt = Open}

\* One find of the loop: the rows that depend on the head of the queue, as they are now.
FindDependents(s) ==
    LET c    == call[s]
        next == Dependents(Head(c.queue), c.seen) IN
    /\ c.pc = "find"
    /\ c.queue # <<>>
    /\ Goto(s, [c EXCEPT !.pc = "mark", !.todo = [n \in next |-> rows[n].rev], !.queue = Tail(c.queue)])
    /\ UNCHANGED <<rows, begun, outstanding>>

\* The rows found are marked one by one; find returns them in the order of insertion.
MarkDependent(s) ==
    LET c == call[s]
        n == Min(DOMAIN c.todo) IN
    /\ c.pc = "mark"
    /\ DOMAIN c.todo # {}
    /\ \/ /\ Matches(n, c.todo[n])
          /\ Put(n, [rows[n] EXCEPT !.state = "REVALIDATION_REQUIRED"])
          /\ Goto(s, [c EXCEPT !.todo  = [m \in DOMAIN c.todo \ {n} |-> c.todo[m]],
                               !.seen  = c.seen \cup {n}, !.queue = Append(c.queue, n)])
          /\ UNCHANGED <<begun, outstanding>>
       \/ Conflict(s, n, c.todo[n])

NextLevel(s) ==
    LET c == call[s] IN
    /\ c.pc = "mark"
    /\ DOMAIN c.todo = {}
    /\ Goto(s, [c EXCEPT !.pc = "find", !.todo = <<>>])
    /\ UNCHANGED <<rows, begun, outstanding>>

EndPropagation(s) ==
    LET c == call[s] IN
    /\ c.pc = "find"
    /\ c.queue = <<>>
    /\ outstanding' = outstanding \ {c.root}
    /\ Goto(s, Idle)
    /\ UNCHANGED <<rows, begun>>

\* The process or its session dies.
Crash(s) ==
    /\ call[s].pc # "idle"
    /\ Goto(s, Idle)
    /\ UNCHANGED <<rows, begun, outstanding>>

Step(s) ==
    \/ CloseSuperseded(s) \/ InsertAssertion(s) \/ EvaluateNew(s) \/ StoreEvaluation(s)
    \/ CloseRetracted(s) \/ FindDependents(s) \/ MarkDependent(s) \/ NextLevel(s) \/ EndPropagation(s)

Next == \E s \in Sessions : BeginRecord(s) \/ BeginInvalidate(s) \/ Step(s) \/ Crash(s)

Spec == Init /\ [][Next]_vars

-----------------------------------------------------------------------------
(* Properties. *)

\* The rows that a retraction of n concerns: those that depend on n directly or
\* through rows that are not closed themselves.
Concerned(rs, n) ==
    LET on[m \in DOMAIN rs] == \E d \in rs[m].support : d = n \/ (rs[d].kt = Open /\ on[d])
    IN  {m \in DOMAIN rs : on[m]}

\* A current assertion is stored as SUPPORTED although an assertion that it rests on
\* has been retracted only while the walk from the retracted one is outstanding: it
\* runs, or it was cut short by a conflict or a crash and invalidate was not repeated.
\* (record_assertion evaluates and stores beside invalidate's propagation.)
RetractionReaches ==
    \A n \in DOMAIN rows : rows[n].life = "RETRACTED" /\ n \notin outstanding =>
        \A m \in Concerned(rows, n) : rows[m].kt = Open => rows[m].state # "SUPPORTED"

\* Everything a row rests on, the row included.
Basis(rs, n) ==
    LET basis[m \in DOMAIN rs] == {m} \cup UNION {basis[d] : d \in rs[m].support}
    IN  basis[n]

\* evaluate says SUPPORTED exactly of the rows whose whole basis was known and valid
\* at the moments asked for, is not retracted, not contradicted by a supported row,
\* has no failing evidence, and ends in rows that have evidence of their own.
SupportRestsOnEvidence ==
    \A v, k \in Moments : \A n \in DOMAIN rows :
        n \in TruthAt(rows, v, k) <=>
            \A m \in Basis(rows, n) :
                /\ Known(rows[m], k) /\ v \in rows[m].valid /\ rows[m].life # "RETRACTED"
                /\ rows[m].contradicts \cap TruthAt(rows, v, k) = {}
                /\ IF rows[m].support = {} THEN rows[m].evidence = "good" ELSE rows[m].evidence # "bad"

\* Knowledge is corrected from a moment on: a step that retracts nothing leaves what
\* truth_at answers about earlier moments as it was (record_assertion closes the
\* superseded row at known_from, and never moves the close of a closed row).
LeavesEarlierAnswers ==
    LET closed == {n \in DOMAIN rows : rows'[n].kt # rows[n].kt}
        before == {k \in Moments : \A n \in closed : k < rows'[n].kt}
    IN  /\ rows' # rows
        /\ \A n \in DOMAIN rows : rows'[n].life = "RETRACTED" => rows[n].life = "RETRACTED"
        => /\ \A n \in closed : rows[n].kt = Open
           /\ \A k \in before, v \in Moments : TruthAt(rows, v, k) \subseteq TruthAt(rows', v, k)

HistoryMovesForward == [][LeavesEarlierAnswers]_vars
=============================================================================
