-------------------------- MODULE ScopedAuditProofs ---------------------------
(***************************************************************************)
(* Proofs about ScopedAudit, for any objects, relations, reports, budgets  *)
(* and number of sessions.                                                 *)
(***************************************************************************)
EXTENDS ScopedAudit, FiniteSetTheorems, TLAPS

Closures   == {"OPEN", "FIXPOINT_REACHED", "BOUNDED_FIXPOINT"}
Boundaries == Limits \cup {"OUTSIDE_FAMILY", "REPORTED_OUTSIDE_SCOPE"}

Runs == [status : {"NONE", "ACTIVE", "CLOSED"}, turn : BOOLEAN, closure : Closures, initial : SUBSET Family,
         pending : SUBSET Family, inspected : SUBSET Family, depth : [Objects -> 0..MaxDepth],
         boundary : SUBSET (Boundaries \X Objects), mutation : SUBSET Family]

Findings == [subject : Family, impact : Impacts, affected : SUBSET Objects]

\* A call that records a finding, by what it has written and read so far.
Inserting  == [pc : {"insert"}, finding : Findings]
Expanding  == [pc : {"expand"}, finding : Findings]
Committing == [pc : {"commit"}, finding : Findings, candidates : SUBSET Objects]
Calls == {Idle} \cup {[pc |-> "close"]} \cup Inserting \cup Expanding \cup Committing

TypeOK ==
    /\ run \in Runs /\ admitted \in BOOLEAN
    /\ findings \in SUBSET Family
    /\ call \in [Sessions -> Calls]
    /\ fresh \in SUBSET Sessions
    /\ material \in SUBSET Objects

-----------------------------------------------------------------------------
(* Calls. *)

LEMMA CallFacts ==
  ASSUME NEW c \in Calls
  PROVE  /\ c.pc \in {"idle", "close", "insert", "expand", "commit"}
         /\ c.pc \in {"insert", "expand", "commit"} => c.finding \in Findings
         /\ c.pc = "commit" => c.candidates \in SUBSET Objects
BY DEF Calls, Idle, Inserting, Expanding, Committing

LEMMA GotoFacts ==
  ASSUME TypeOK, NEW s \in Sessions, NEW c \in Calls, Goto(s, c)
  PROVE  /\ call' \in [Sessions -> Calls]
         /\ call'[s] = c
         /\ \A r \in Sessions \ {s} : call'[r] = call[r]
BY DEF Goto, TypeOK

LEMMA IdleType == Idle \in Calls /\ Idle.pc = "idle"
BY DEF Idle, Calls

-----------------------------------------------------------------------------
(* The documents of a run. *)

\* What a committed finding makes of the run.
Extended(r, f, candidates, added) ==
    [r EXCEPT !.pending   = Pending(r, f.subject, added),
              !.inspected = @ \cup {f.subject},
              !.depth     = [o \in Objects |-> IF o \in added THEN r.depth[f.subject] + 1 ELSE r.depth[o]],
              !.boundary  = @ \cup Reported(f) \cup Boundary(r, candidates, r.depth[f.subject] + 1, added)]

LEMMA ExtendedFields ==
  ASSUME NEW r \in Runs, NEW f, NEW candidates, NEW added,
         NEW x, x = Extended(r, f, candidates, added)
  PROVE  /\ x = [status |-> r.status, turn |-> r.turn, closure |-> r.closure, initial |-> r.initial,
                 pending |-> Pending(r, f.subject, added),
                 inspected |-> r.inspected \cup {f.subject},
                 depth |-> [o \in Objects |-> IF o \in added THEN r.depth[f.subject] + 1 ELSE r.depth[o]],
                 boundary |-> r.boundary \cup Reported(f) \cup Boundary(r, candidates, r.depth[f.subject] + 1, added),
                 mutation |-> r.mutation]
BY DEF Extended, Runs


LEMMA FiniteFamily == IsFiniteSet(Family)
BY AuditAssumption, FS_Subset

\* The scope only grows: the subject goes over to the inspected objects.
LEMMA ScopeGrows ==
  ASSUME NEW r \in Runs, NEW f, f.subject \in Scope(r), NEW candidates, NEW added,
         NEW x, x = Extended(r, f, candidates, added)
  PROVE  Scope(x) = Scope(r) \cup added
BY ExtendedFields DEF Scope, Pending

\* The budgets, at the one place where the scope is widened.
LEMMA AddedFacts ==
  ASSUME NEW r \in Runs, Cardinality(Scope(r)) <= MaxObjects,
         NEW candidates, NEW depth \in Nat, NEW added \in Added(r, candidates, depth)
  PROVE  /\ added \subseteq (candidates \cap Family) \ Scope(r)
         /\ depth > MaxDepth => added = {}
         /\ Cardinality(Scope(r) \cup added) <= MaxObjects
<1> DEFINE new == IF depth > MaxDepth THEN {} ELSE (candidates \cap Family) \ Scope(r)
           room == MaxObjects - Cardinality(Scope(r))
<1>1. IsFiniteSet(Scope(r)) /\ Cardinality(Scope(r)) \in Nat
  <2>1. Scope(r) \in SUBSET Family
    BY DEF Scope, Runs
  <2> QED
    BY <2>1, FiniteFamily, FS_Subset, FS_CardinalityType
<1>2. new \in SUBSET Family /\ IsFiniteSet(new) /\ Cardinality(new) \in Nat
  <2>1. new \in SUBSET Family
    OBVIOUS
  <2> QED
    BY <2>1, FiniteFamily, FS_Subset, FS_CardinalityType
<1>3. added \in SUBSET new /\ Cardinality(added) <= room
  <2>1. Added(r, candidates, depth) = IF Cardinality(new) <= room THEN {new} ELSE kSubset(room, new)
    BY DEF Added
  <2>2. room \in Nat
    BY <1>1, AuditAssumption
  <2>3. CASE Cardinality(new) <= room
    BY <2>1, <2>3
  <2>4. CASE ~(Cardinality(new) <= room)
    <3> HIDE DEF new, room
    <3> QED
      BY <2>1, <2>2, <2>4 DEF kSubset
  <2> QED
    BY <2>3, <2>4
<1>4. IsFiniteSet(added) /\ Cardinality(added) \in Nat /\ Scope(r) \cap added = {}
  <2>1. IsFiniteSet(added)
    BY <1>2, <1>3, FS_Subset
  <2> QED
    BY <1>3, <2>1, FS_CardinalityType
<1>5. Cardinality(Scope(r) \cup added) = Cardinality(Scope(r)) + Cardinality(added)
  BY <1>1, <1>4, FS_Union, FS_EmptySet
<1> QED
  BY <1>1, <1>3, <1>4, <1>5, AuditAssumption

LEMMA ExtendedType ==
  ASSUME NEW r \in Runs, NEW f \in Findings, f.subject \in Scope(r),
         NEW candidates \in SUBSET Objects,
         NEW added, added \subseteq Family, r.depth[f.subject] + 1 > MaxDepth => added = {},
         NEW x, x = Extended(r, f, candidates, added)
  PROVE  x \in Runs
<1> DEFINE depth == r.depth[f.subject] + 1
<1>1. r.depth[f.subject] \in 0..MaxDepth
  BY AuditAssumption DEF Runs, Findings
<1>2. Pending(r, f.subject, added) \in SUBSET Family /\ r.inspected \cup {f.subject} \in SUBSET Family
  BY DEF Pending, Runs, Findings
<1>3. [o \in Objects |-> IF o \in added THEN r.depth[f.subject] + 1 ELSE r.depth[o]] \in [Objects -> 0..MaxDepth]
  BY <1>1, AuditAssumption DEF Runs
<1>4. Reported(f) \in SUBSET (Boundaries \X Objects)
  BY DEF Reported, Findings, Boundaries
<1>5. Boundary(r, candidates, depth, added) \in SUBSET (Boundaries \X Objects)
  BY DEF Boundary, Boundaries, Limits
<1>6. r.boundary \cup Reported(f) \cup Boundary(r, candidates, depth, added) \in SUBSET (Boundaries \X Objects)
  BY <1>4, <1>5 DEF Runs
<1> QED
  BY <1>2, <1>3, <1>6, ExtendedFields DEF Runs

-----------------------------------------------------------------------------
(* The inductive invariant. *)

Limited(r) == \E b \in r.boundary : b[1] \in Limits

BudgetKept == Cardinality(Scope(run)) <= MaxObjects

\* Before the run is started there is nothing.
NothingBefore ==
    run.status = "NONE" =>
        /\ Scope(run) = {} /\ findings = {}
        /\ \A s \in Sessions : call[s].pc = "idle"

\* A finding that is being recorded is about an object of the scope, as those stored are.
FindingsInScope ==
    /\ run.initial \cup findings \subseteq Scope(run)
    /\ \A s \in Sessions :
          call[s].pc \in {"insert", "expand", "commit"} => call[s].finding.subject \in Scope(run)

\* The frontier gives an object up only for a stored finding.
InspectedHasFinding ==
    /\ run.inspected \subseteq findings
    /\ \A s \in Sessions : call[s].pc \in {"expand", "commit"} => call[s].finding.subject \in findings

\* What a committed finding said is concerned is in scope, or a budget was met.
NothingDropped == Limited(run) \/ material \cap Family \subseteq Scope(run)

\* Only a session that has read an active run can write it, so a closed run stays as it was.
ClosedStays ==
    /\ fresh # {} => run.status = "ACTIVE"
    /\ run.closure = "FIXPOINT_REACHED" => run.status = "CLOSED" /\ run.pending = {} /\ ~Limited(run)

IInv ==
    /\ TypeOK /\ BudgetKept /\ NothingBefore /\ FindingsInScope
    /\ InspectedHasFinding /\ NothingDropped /\ ClosedStays

\* The initial state.
LEMMA InitInv == Init => IInv
<1> SUFFICES ASSUME Init PROVE IInv
  OBVIOUS
<1>1. TypeOK
  <2>1. run \in Runs
    BY AuditAssumption DEF Init, Runs, Closures
  <2> QED
    BY <2>1 DEF Init, TypeOK, Calls
<1>2. Scope(run) = {} /\ run.boundary = {} /\ run.closure = "OPEN" /\ run.initial = {} /\ run.inspected = {}
  BY DEF Init, Scope
<1>3. \A s \in Sessions : call[s].pc = "idle"
  BY DEF Init, Idle
<1>4. BudgetKept
  BY <1>2, FS_EmptySet, AuditAssumption DEF BudgetKept
<1> QED
  BY <1>1, <1>2, <1>3, <1>4
     DEF Init, IInv, NothingBefore, FindingsInScope, InspectedHasFinding, NothingDropped, ClosedStays

-----------------------------------------------------------------------------
(* Steps that leave the run alone. *)

\* A step that writes neither the run nor what the run is judged by preserves the
\* invariant, if the call that it moves still names an object of the scope.
LEMMA RunUntouched ==
  ASSUME IInv, NEW s \in Sessions, NEW c \in Calls, Goto(s, c),
         run' = run, admitted' = admitted, material' = material, findings' \in SUBSET Scope(run), findings \subseteq findings',
         fresh' \in SUBSET Sessions, fresh' # {} => run.status = "ACTIVE",
         run.status # "NONE" \/ (findings' = {} /\ c.pc = "idle"),
         c.pc \in {"insert", "expand", "commit"} => c.finding.subject \in Scope(run),
         c.pc \in {"expand", "commit"} => c.finding.subject \in findings'
  PROVE  IInv'
<1>1. /\ call' \in [Sessions -> Calls]
      /\ call'[s] = c
      /\ \A r \in Sessions \ {s} : call'[r] = call[r]
  BY GotoFacts DEF IInv
<1>2. TypeOK'
  BY <1>1 DEF IInv, TypeOK, Scope, Runs
<1>3. BudgetKept' /\ NothingDropped' /\ ClosedStays'
  BY DEF IInv, BudgetKept, NothingDropped, ClosedStays, Limited, Scope
<1>4. NothingBefore'
  BY <1>1 DEF IInv, NothingBefore, Scope
<1>5. FindingsInScope'
  BY <1>1 DEF IInv, FindingsInScope, Scope
<1>6. InspectedHasFinding'
  BY <1>1 DEF IInv, InspectedHasFinding
<1> QED
  BY <1>2, <1>3, <1>4, <1>5, <1>6 DEF IInv


\* A call of a session is one of Calls.
LEMMA SessionCall == TypeOK => \A s \in Sessions : call[s] \in Calls
BY DEF TypeOK

\* A call begins: it has read the run, and names an object of its scope.
LEMMA FindingStep ==
  ASSUME IInv, NEW s \in Sessions, NEW o \in Scope(run), NEW impact \in Impacts, NEW affected \in Reports,
         Finding(s, o, impact, affected)
  PROVE  IInv'
<1> DEFINE f == [subject |-> o, impact |-> impact, affected |-> affected]
           c == [pc |-> "insert", finding |-> f]
<1>1. f \in Findings /\ f.subject = o
  BY AuditAssumption DEF IInv, TypeOK, Runs, Scope, Findings
<1>2. c \in Calls /\ c.pc = "insert" /\ c.finding = f
  BY <1>1 DEF Calls, Inserting
<1>3. Goto(s, c) /\ fresh' = fresh \cup {s} /\ run.status = "ACTIVE" /\ UNCHANGED <<run, findings, admitted, material>>
  BY DEF Finding
<1>4. findings \subseteq Scope(run) /\ fresh \in SUBSET Sessions
  BY DEF IInv, TypeOK, FindingsInScope
<1> HIDE DEF c, f
<1> QED
  BY <1>1, <1>2, <1>3, <1>4, RunUntouched

LEMMA InsertStep ==
  ASSUME IInv, NEW s \in Sessions, InsertFinding(s)
  PROVE  IInv'
<1> DEFINE f == call[s].finding
           c == [pc |-> "expand", finding |-> f]
<1>1. call[s].pc = "insert" /\ f \in Findings /\ f.subject \in Scope(run) /\ run.status # "NONE"
  <2>1. call[s].pc = "insert" /\ call[s] \in Calls
    BY SessionCall DEF IInv, InsertFinding
  <2> QED
    BY <2>1, CallFacts DEF IInv, FindingsInScope, NothingBefore
<1>2. c \in Calls /\ c.pc = "expand" /\ c.finding = f
  BY <1>1 DEF Calls, Expanding
<1>3. Goto(s, c) /\ findings' = findings \cup {f.subject} /\ UNCHANGED <<run, admitted, fresh, material>>
  BY DEF InsertFinding
<1>4. findings \subseteq Scope(run) /\ fresh \in SUBSET Sessions /\ (fresh # {} => run.status = "ACTIVE")
  BY DEF IInv, TypeOK, FindingsInScope, ClosedStays
<1> HIDE DEF c, f
<1> QED
  BY <1>1, <1>2, <1>3, <1>4, RunUntouched

LEMMA ReadNeighboursStep ==
  ASSUME IInv, NEW s \in Sessions, ReadNeighbours(s)
  PROVE  IInv'
<1> DEFINE f == call[s].finding
           candidates == IF f.impact = "EXPAND" THEN f.affected \cup Neighbours(f.subject) ELSE {}
           c == [pc |-> "commit", finding |-> f, candidates |-> candidates]
<1>1. /\ call[s].pc = "expand" /\ f \in Findings /\ f.subject \in Scope(run)
      /\ f.subject \in findings /\ run.status # "NONE"
  <2>1. call[s].pc = "expand" /\ call[s] \in Calls
    BY SessionCall DEF IInv, ReadNeighbours
  <2> QED
    BY <2>1, CallFacts DEF IInv, FindingsInScope, InspectedHasFinding, NothingBefore
<1>2. c \in Calls /\ c.pc = "commit" /\ c.finding = f
  <2>1. candidates \in SUBSET Objects
    BY <1>1 DEF Findings, Neighbours
  <2> HIDE DEF candidates, f
  <2> QED
    BY <1>1, <2>1 DEF Calls, Committing
<1>3. Goto(s, c) /\ UNCHANGED <<run, findings, admitted, fresh, material>>
  BY DEF ReadNeighbours
<1>4. findings \subseteq Scope(run) /\ fresh \in SUBSET Sessions /\ (fresh # {} => run.status = "ACTIVE")
  BY DEF IInv, TypeOK, FindingsInScope, ClosedStays
<1> HIDE DEF c, f
<1> QED
  BY <1>1, <1>2, <1>3, <1>4, RunUntouched

\* A call ends without having written: it lost against another write, or it died.
LEMMA EndStep ==
  ASSUME IInv, NEW s \in Sessions, Goto(s, Idle), UNCHANGED <<run, findings, admitted, fresh, material>>
  PROVE  IInv'
<1>1. findings \subseteq Scope(run) /\ fresh \in SUBSET Sessions /\ (fresh # {} => run.status = "ACTIVE")
  BY DEF IInv, TypeOK, FindingsInScope, ClosedStays
<1>2. run.status # "NONE" \/ findings = {}
  BY DEF IInv, NothingBefore
<1> QED
  BY <1>1, <1>2, IdleType, RunUntouched

LEMMA BeginCloseStep ==
  ASSUME IInv, NEW s \in Sessions, BeginClose(s)
  PROVE  IInv'
<1> DEFINE c == [pc |-> "close"]
<1>1. c \in Calls /\ c.pc = "close"
  BY DEF Calls
<1>2. Goto(s, c) /\ fresh' = fresh \cup {s} /\ run.status = "ACTIVE" /\ UNCHANGED <<run, findings, admitted, material>>
  BY DEF BeginClose
<1>3. findings \subseteq Scope(run) /\ fresh \in SUBSET Sessions
  BY DEF IInv, TypeOK, FindingsInScope
<1> HIDE DEF c
<1> QED
  BY <1>1, <1>2, <1>3, RunUntouched

-----------------------------------------------------------------------------
(* Steps that write the run. *)

LEMMA StartStep ==
  ASSUME IInv, Start
  PROVE  IInv'
<1>0. PICK seeds \in Seeds, mode \in {"READ_ONLY", "REPAIR_WITHIN_SCOPE"} :
         /\ Cardinality(seeds) <= MaxObjects
         /\ \E mutation \in IF mode = "READ_ONLY" THEN {{}} ELSE SUBSET seeds :
               run' = [run EXCEPT !.status = "ACTIVE", !.initial = seeds, !.pending = seeds,
                                  !.mutation = mutation, !.turn = admitted]
  BY DEF Start
<1>1. PICK mutation \in SUBSET seeds :
         run' = [run EXCEPT !.status = "ACTIVE", !.initial = seeds, !.pending = seeds,
                             !.mutation = mutation, !.turn = admitted]
  BY <1>0
<1>2. seeds \in SUBSET Family
  BY AuditAssumption
<1>3. run.status = "NONE" /\ UNCHANGED <<findings, admitted, links, call, fresh, material>>
  BY DEF Start
<1>4. /\ run' \in Runs /\ run'.status = "ACTIVE" /\ run'.closure = run.closure /\ run'.boundary = run.boundary
      /\ run'.initial = seeds /\ run'.pending = seeds /\ run'.inspected = run.inspected
  BY <1>1, <1>2 DEF IInv, TypeOK, Runs
<1>5. Scope(run) = {} /\ findings = {} /\ (\A s \in Sessions : call[s].pc = "idle")
  BY <1>3 DEF IInv, NothingBefore
<1>6. Scope(run') = seeds /\ run'.inspected = {}
  BY <1>4, <1>5 DEF Scope
<1>7. run.closure # "FIXPOINT_REACHED"
  BY <1>3 DEF IInv, ClosedStays
<1>8. TypeOK'
  BY <1>3, <1>4 DEF IInv, TypeOK
<1>9. BudgetKept' /\ NothingBefore' /\ FindingsInScope' /\ InspectedHasFinding'
  BY <1>0, <1>3, <1>4, <1>5, <1>6
     DEF BudgetKept, NothingBefore, FindingsInScope, InspectedHasFinding
<1>10. NothingDropped' /\ ClosedStays'
  BY <1>3, <1>4, <1>5, <1>6, <1>7 DEF IInv, NothingDropped, ClosedStays, Limited
<1> QED
  BY <1>8, <1>9, <1>10 DEF IInv

LEMMA CloseStep ==
  ASSUME IInv, NEW s \in Sessions, Close(s)
  PROVE  IInv'
<1>1. CASE Current(s) /\ Write(s, [run EXCEPT !.status = "CLOSED", !.closure = ClosureState(run)])
  <2>1. run' = [run EXCEPT !.status = "CLOSED", !.closure = ClosureState(run)] /\ fresh' = {}
    BY <1>1 DEF Write
  <2>2. ClosureState(run) \in Closures
    BY DEF ClosureState, Closures
  <2>3. /\ run' \in Runs /\ run'.status = "CLOSED" /\ run'.closure = ClosureState(run)
        /\ run'.initial = run.initial /\ run'.pending = run.pending /\ run'.inspected = run.inspected
        /\ run'.boundary = run.boundary
    BY <2>1, <2>2 DEF IInv, TypeOK, Runs
  <2>4. Scope(run') = Scope(run) /\ Limited(run') = Limited(run)
    BY <2>3 DEF Scope, Limited
  <2>5. Goto(s, Idle) /\ UNCHANGED <<findings, admitted, material>>
    BY DEF Close
  <2>6. /\ call' \in [Sessions -> Calls] /\ call'[s].pc = "idle"
        /\ \A r \in Sessions \ {s} : call'[r] = call[r]
    BY <2>5, IdleType, GotoFacts DEF IInv
  <2>7. TypeOK'
    BY <2>1, <2>3, <2>5, <2>6 DEF IInv, TypeOK
  <2>8. BudgetKept' /\ NothingBefore' /\ NothingDropped'
    BY <2>3, <2>4, <2>5 DEF IInv, BudgetKept, NothingBefore, NothingDropped
  <2>9. FindingsInScope' /\ InspectedHasFinding'
    BY <2>3, <2>4, <2>5, <2>6 DEF IInv, FindingsInScope, InspectedHasFinding
  <2>10. ClosureState(run) = "FIXPOINT_REACHED" => run.pending = {} /\ ~Limited(run)
    BY DEF ClosureState, Limited
  <2>11. ClosedStays'
    BY <2>1, <2>3, <2>4, <2>10 DEF ClosedStays
  <2> QED
    BY <2>7, <2>8, <2>9, <2>11 DEF IInv
<1>2. CASE ~Current(s) /\ UNCHANGED <<run, fresh>>
  BY <1>2, EndStep DEF Close
<1> QED
  BY <1>1, <1>2 DEF Close


\* What a committed finding names and does not add has met a budget, or is of no concern.
LEMMA NothingIsDroppedSilently ==
  ASSUME NEW r \in Runs, NEW f \in Findings, NEW candidates \in SUBSET Objects, NEW added,
         NEW x, x = Extended(r, f, candidates, added),
         NEW o \in candidates \cap Family, o \notin Scope(r) \cup added
  PROVE  Limited(x)
<1> DEFINE depth == r.depth[f.subject] + 1
           b == <<IF depth > MaxDepth THEN "DEPTH_LIMIT" ELSE "OBJECT_BUDGET", o>>
<1>1. b \in Boundary(r, candidates, depth, added)
  <2>1. b = <<IF depth > MaxDepth THEN "DEPTH_LIMIT"
              ELSE IF o \notin Family THEN "OUTSIDE_FAMILY" ELSE "OBJECT_BUDGET", o>>
    OBVIOUS
  <2> HIDE DEF b, depth
  <2> QED
    BY <2>1 DEF Boundary
<1>2. b \in x.boundary
  BY <1>1, ExtendedFields
<1>3. b[1] \in Limits
  BY DEF Limits
<1> QED
  BY <1>2, <1>3 DEF Limited

LEMMA CommitStep ==
  ASSUME IInv, NEW s \in Sessions, Commit(s)
  PROVE  IInv'
<1> DEFINE c == call[s]
           f == c.finding
           depth == run.depth[f.subject] + 1
<1>1. CASE ~Current(s) /\ UNCHANGED <<run, fresh, material>>
  BY <1>1, EndStep DEF Commit
<1>2. CASE ~(~Current(s) /\ UNCHANGED <<run, fresh, material>>)
  <2>1. c.pc = "commit" /\ c \in Calls
    BY SessionCall DEF IInv, Commit
  <2>2. /\ f \in Findings /\ f.subject \in Scope(run) /\ f.subject \in findings
        /\ c.candidates \in SUBSET Objects
    BY <2>1, CallFacts DEF IInv, FindingsInScope, InspectedHasFinding
  <2>3. PICK added \in Added(run, c.candidates, depth) :
           Write(s, [run EXCEPT
                    !.pending   = Pending(run, f.subject, added),
                    !.inspected = @ \cup {f.subject},
                    !.depth     = [o \in Objects |-> IF o \in added THEN depth ELSE run.depth[o]],
                    !.boundary  = @ \cup Reported(f) \cup Boundary(run, c.candidates, depth, added)])
    BY <1>2 DEF Commit
  <2>4. run' = Extended(run, f, c.candidates, added) /\ fresh' = {}
    BY <2>3 DEF Write, Extended
  <2>5. s \in fresh /\ material' = material \cup c.candidates /\ UNCHANGED <<findings, admitted>> /\ Goto(s, Idle)
    BY <1>2 DEF Commit, Current
  <2>6. run \in Runs /\ depth \in Nat /\ Cardinality(Scope(run)) <= MaxObjects
    <3>1. run \in Runs /\ Cardinality(Scope(run)) <= MaxObjects
      BY DEF IInv, TypeOK, BudgetKept
    <3> QED
      BY <2>2, <3>1, AuditAssumption DEF Runs, Findings
  <2>7. /\ added \subseteq (c.candidates \cap Family) \ Scope(run)
        /\ depth > MaxDepth => added = {}
        /\ Cardinality(Scope(run) \cup added) <= MaxObjects
    <3> HIDE DEF depth, c
    <3> QED
      BY <2>3, <2>6, AddedFacts
  <2>8. run' \in Runs
    BY <2>2, <2>4, <2>6, <2>7, ExtendedType
  <2>9. Scope(run') = Scope(run) \cup added
    BY <2>2, <2>4, <2>6, ScopeGrows
  <2>10. /\ run'.status = run.status /\ run'.closure = run.closure /\ run'.initial = run.initial
         /\ run'.inspected = run.inspected \cup {f.subject}
         /\ run.boundary \subseteq run'.boundary
    BY <2>4, <2>6, ExtendedFields
  <2>11. run.status = "ACTIVE" /\ run.closure # "FIXPOINT_REACHED"
    BY <2>5 DEF IInv, ClosedStays
  <2>12. /\ call' \in [Sessions -> Calls] /\ call'[s].pc = "idle"
         /\ \A r \in Sessions \ {s} : call'[r] = call[r]
    BY <2>5, IdleType, GotoFacts DEF IInv
  <2>13. TypeOK'
    BY <2>2, <2>4, <2>5, <2>8, <2>12 DEF IInv, TypeOK
  <2>14. BudgetKept' /\ NothingBefore' /\ ClosedStays'
    BY <2>4, <2>7, <2>9, <2>10, <2>11 DEF BudgetKept, NothingBefore, ClosedStays
  <2>15. FindingsInScope' /\ InspectedHasFinding'
    BY <2>2, <2>5, <2>9, <2>10, <2>12 DEF IInv, FindingsInScope, InspectedHasFinding
  <2>16. NothingDropped'
    <3>1. CASE Limited(run)
      BY <2>10, <3>1 DEF Limited, NothingDropped
    <3>2. CASE ~Limited(run) /\ ~Limited(run')
      <4>1. c.candidates \cap Family \subseteq Scope(run) \cup added
        BY <2>2, <2>4, <2>6, <3>2, NothingIsDroppedSilently
      <4>2. material \cap Family \subseteq Scope(run)
        BY <3>2 DEF IInv, NothingDropped
      <4> QED
        BY <2>5, <2>9, <4>1, <4>2 DEF NothingDropped
    <3> QED
      BY <3>1, <3>2 DEF NothingDropped
  <2> QED
    BY <2>13, <2>14, <2>15, <2>16 DEF IInv
<1> QED
  BY <1>1, <1>2

-----------------------------------------------------------------------------
LEMMA NextInv == IInv /\ [Next]_vars => IInv'
<1> SUFFICES ASSUME IInv, [Next]_vars PROVE IInv'
  OBVIOUS
<1>1. CASE Start
  BY <1>1, StartStep
<1>2. CASE Relate
  BY <1>2 DEF Relate, IInv, TypeOK, BudgetKept, NothingBefore, FindingsInScope,
              InspectedHasFinding, NothingDropped, ClosedStays, Scope, Limited
<1>3. CASE Admit
  BY <1>3 DEF Admit, IInv, TypeOK, BudgetKept, NothingBefore, FindingsInScope,
              InspectedHasFinding, NothingDropped, ClosedStays, Scope, Limited
<1>4. ASSUME NEW s \in Sessions, InspectFrontier(s) \/ InspectAgain(s)
      PROVE  IInv'
  <2>1. PICK o \in Scope(run), i \in Impacts, a \in Reports : Finding(s, o, i, a)
    BY <1>4 DEF InspectFrontier, InspectAgain, Scope
  <2> QED
    BY <2>1, FindingStep
<1>5. ASSUME NEW s \in Sessions, BeginClose(s) \/ Step(s)
      PROVE  IInv'
  BY <1>5, BeginCloseStep, InsertStep, ReadNeighboursStep, CommitStep, CloseStep DEF Step
<1>6. ASSUME NEW s \in Sessions, Crash(s)
      PROVE  IInv'
  BY <1>6, EndStep DEF Crash
<1>7. CASE UNCHANGED vars
  BY <1>7 DEF vars, IInv, TypeOK, BudgetKept, NothingBefore, FindingsInScope,
              InspectedHasFinding, NothingDropped, ClosedStays, Scope, Limited
<1> QED
  BY <1>1, <1>2, <1>3, <1>4, <1>5, <1>6, <1>7 DEF Next

LEMMA Invariance == Spec => []IInv
<1>1. Init => IInv
  BY InitInv
<1> QED
  BY <1>1, NextInv, PTL DEF Spec

\* Calls and documents keep their shape, and the depths stay within the budget
\* (record_finding, close).
THEOREM TypeCorrect == Spec => []TypeOK
<1>1. IInv => TypeOK
  BY DEF IInv
<1> QED
  BY <1>1, Invariance, PTL

\* Whatever is reported and confirmed, by however many sessions: the scope of an audit
\* keeps to its object budget, its depth and its family, nothing leaves it, and every
\* stored finding is about an object of it (audit.py, record_finding).
THEOREM ScopeStaysInBudget == Spec => []ScopeKeepsBudget
<1>1. IInv => ScopeKeepsBudget
  <2> SUFFICES ASSUME IInv PROVE ScopeKeepsBudget
    OBVIOUS
  <2>1. Scope(run) \subseteq Family /\ \A o \in Scope(run) : run.depth[o] <= MaxDepth
    BY AuditAssumption DEF IInv, TypeOK, Runs, Scope
  <2> QED
    BY <2>1 DEF IInv, BudgetKept, FindingsInScope, ScopeKeepsBudget
<1> QED
  BY <1>1, Invariance, PTL

\* An audit closed as FIXPOINT_REACHED is complete: everything that it was started on and
\* that committed findings said is concerned has been inspected, with a stored finding
\* (audit.py, close and record_finding).
THEOREM FixpointsAreComplete == Spec => []FixpointIsComplete
<1>1. IInv => FixpointIsComplete
  <2> SUFFICES ASSUME IInv, run.closure = "FIXPOINT_REACHED"
               PROVE  run.initial \cup (material \cap Family) \subseteq run.inspected \cap findings
    BY DEF FixpointIsComplete
  <2>1. run.pending = {} /\ ~Limited(run)
    BY DEF IInv, ClosedStays
  <2>2. Scope(run) = run.inspected
    BY <2>1 DEF Scope
  <2> QED
    BY <2>1, <2>2 DEF IInv, NothingDropped, FindingsInScope, InspectedHasFinding
<1> QED
  BY <1>1, Invariance, PTL

=============================================================================
