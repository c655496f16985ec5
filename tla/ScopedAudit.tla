----------------------------- MODULE ScopedAudit ------------------------------
(*****************************************************************************)
(* SRA/1, audit.py: one audit run, started on some objects and widened by    *)
(* findings of impact EXPAND along confirmed relations, within a depth and   *)
(* an object budget.  The sessions belong to the actor that owns the run.    *)
(*                                                                           *)
(* record_finding reads the run, inserts the finding, reads the neighbours   *)
(* of its subject and then writes the whole frontier with a compare-and-set. *)
(* The steps are separate: a finding whose last write loses stays stored.    *)
(*                                                                           *)
(* While the family has no WorkIdentity an audit is started without a work   *)
(* turn.  Once the family is admitted, every call asks for the turn that the *)
(* run was started with, and nothing gives it one later.                     *)
(*                                                                           *)
(* Objects are entities and free references.  A reference has no neighbours  *)
(* and is of every family, otherwise the two lists of the run behave alike.  *)
(*****************************************************************************)
EXTENDS Integers, FiniteSets, FiniteSetsExt

CONSTANTS Sessions,     \* sessions of the auditing actor
          Objects,      \* what can be in scope
          Family,       \* the objects that exist and are of the run's family
          Refs,         \* the free references among them
          Links,        \* confirmed relations and stored references at the start
          Confirmable,  \* relations that other actors may confirm meanwhile
          Seeds,        \* scopes that audits are started on
          Reports,      \* sets of affected objects that auditors report
          MaxDepth, MaxObjects,   \* the budgets of the run
          MaxRepeats,   \* bound: findings about objects inspected before
          MaxCrashes    \* bound: calls that die

ASSUME AuditAssumption ==
    /\ MaxDepth \in Nat /\ MaxObjects \in Nat \ {0} /\ MaxRepeats \in Nat /\ MaxCrashes \in Nat
    /\ Refs \subseteq Family /\ Family \subseteq Objects /\ IsFiniteSet(Objects)
    /\ Links \cup Confirmable \subseteq (Objects \ Refs) \X (Objects \ Refs)
    /\ Reports \subseteq SUBSET Objects /\ Seeds \subseteq (SUBSET Family) \ {{}}

Impacts == {"LOCAL", "EXPAND", "OUTSIDE_SCOPE"}
Limits  == {"DEPTH_LIMIT", "OBJECT_BUDGET"}

VARIABLES run,          \* the audit_runs document
          findings,     \* audit_findings: the objects that have one
          admitted,     \* the family of the run has a WorkIdentity
          links,        \* confirmed relations of an allowed kind, stored in either direction
          call,         \* call[s]: what session s is doing
          fresh,        \* the sessions whose read of the run has its current revision
          material,     \* history: the objects that committed findings said are concerned
          repeats, crashes

vars == <<run, findings, admitted, links, call, fresh, material, repeats, crashes>>

Idle == [pc |-> "idle"]
Goto(s, c) == call' = [call EXCEPT ![s] = c]

Init ==
    /\ run = [status |-> "NONE", turn |-> FALSE, closure |-> "OPEN", initial |-> {}, pending |-> {}, inspected |-> {},
              depth |-> [o \in Objects |-> 0], boundary |-> {}, mutation |-> {}]
    /\ findings = {}
    /\ admitted \in BOOLEAN
    /\ links = Links
    /\ call = [s \in Sessions |-> Idle]
    /\ fresh = {}
    /\ material = {}
    /\ repeats = 0
    /\ crashes = 0

Scope(r) == r.pending \cup r.inspected

\* Confirmed edges in both directions and the references that documents store.
Neighbours(o) == {n \in Objects \ {o} : <<o, n>> \in links \/ <<n, o>> \in links}

MutClosureState(r) ==
    IF r.pending # {} THEN "OPEN"
    ELSE IF \E b \in r.boundary : b[1] = "DEPTH_LIMIT" THEN "BOUNDED_FIXPOINT" ELSE "FIXPOINT_REACHED"
ClosureState(r) ==
    IF r.pending # {} THEN "OPEN"
    ELSE IF \E b \in r.boundary : b[1] \in Limits THEN "BOUNDED_FIXPOINT" ELSE "FIXPOINT_REACHED"

\* start: seeds of the family, within the budget; only a repair audit may mutate,
\* and only what it named at the start.  With a WorkIdentity it takes a work turn.
Start ==
    /\ run.status = "NONE"
    /\ \E seeds \in Seeds, mode \in {"READ_ONLY", "REPAIR_WITHIN_SCOPE"} :
          /\ Cardinality(seeds) <= MaxObjects
          /\ \E mutation \in IF mode = "READ_ONLY" THEN {{}} ELSE SUBSET seeds :
                run' = [run EXCEPT !.status = "ACTIVE", !.initial = seeds, !.pending = seeds,
                                   !.mutation = mutation, !.turn = admitted]
    /\ UNCHANGED <<findings, admitted, links, call, fresh, material, repeats, crashes>>

\* _work_and_turn: the turn of the run is good for its family.
HasTurn == admitted => run.turn

-----------------------------------------------------------------------------
(* record_finding. *)

Finding(s, o, impact, affected) ==
    /\ call[s].pc = "idle"
    /\ run.status = "ACTIVE" /\ HasTurn
    /\ o \in Scope(run)
    /\ impact = "LOCAL" => affected = {}   \* stored, and used for nothing
    /\ Goto(s, [pc |-> "insert",
                finding |-> [subject |-> o, impact |-> impact, affected |-> affected]])
    /\ fresh' = fresh \cup {s}
    /\ UNCHANGED <<run, findings, admitted, links, material, crashes>>

\* The next object of the frontier that the service hands out.
InspectFrontier(s) ==
    /\ \E o \in run.pending, i \in Impacts, a \in Reports : Finding(s, o, i, a)
    /\ UNCHANGED repeats

\* Any object in scope may be the subject again.
InspectAgain(s) ==
    /\ repeats < MaxRepeats
    /\ repeats' = repeats + 1
    /\ \E o \in run.inspected, i \in Impacts, a \in Reports : Finding(s, o, i, a)

InsertFinding(s) ==
    /\ call[s].pc = "insert"
    /\ findings' = findings \cup {call[s].finding.subject}
    /\ Goto(s, [pc |-> "expand", finding |-> call[s].finding])
    /\ UNCHANGED <<run, admitted, links, fresh, material, repeats, crashes>>

\* The neighbours are read after the run was, and before the run is written.
ReadNeighbours(s) ==
    LET f == call[s].finding IN
    /\ call[s].pc = "expand"
    /\ Goto(s, [pc |-> "commit", finding |-> f,
                candidates |-> IF f.impact = "EXPAND" THEN f.affected \cup Neighbours(f.subject) ELSE {}])
    /\ UNCHANGED <<run, findings, admitted, links, fresh, material, repeats, crashes>>

MutAdded(r, candidates, depth) ==
    LET new  == IF depth > MaxDepth THEN {} ELSE (candidates \cap Family) \ Scope(r)
        room == MaxObjects + 1 - Cardinality(Scope(r))
    IN  IF Cardinality(new) <= room THEN {new} ELSE kSubset(room, new)
\* The candidates that one finding adds when it meets them in some order: those of
\* the family that are within the depth, as many as the object budget leaves room for.
Added(r, candidates, depth) ==
    LET new  == IF depth > MaxDepth THEN {} ELSE (candidates \cap Family) \ Scope(r)
        room == MaxObjects - Cardinality(Scope(r))
    IN  IF Cardinality(new) <= room THEN {new} ELSE kSubset(room, new)

\* The boundary events of the candidates that were not added.
Boundary(r, candidates, depth, added) ==
    {<<IF depth > MaxDepth THEN "DEPTH_LIMIT"
       ELSE IF c \notin Family THEN "OUTSIDE_FAMILY" ELSE "OBJECT_BUDGET", c>> :
     c \in candidates \ (Scope(r) \cup added)}

Reported(f) == IF f.impact = "OUTSIDE_SCOPE" THEN {"REPORTED_OUTSIDE_SCOPE"} \X f.affected ELSE {}

MutPending(r, o, added) == r.pending \cup added
Pending(r, o, added) == (r.pending \ {o}) \cup added

\* The compare-and-set: nobody has written the run since session s read it, so what
\* the call computes from its read is what it would compute from the run.
Current(s) == s \in fresh

Write(s, r) == run' = r /\ fresh' = {}

Commit(s) ==
    LET c == call[s]
        f == c.finding
        depth == run.depth[f.subject] + 1 IN
    /\ c.pc = "commit"
    /\ \/ /\ Current(s)
          /\ \E added \in Added(run, c.candidates, depth) :
                Write(s, [run EXCEPT
                    !.pending   = Pending(run, f.subject, added),
                    !.inspected = @ \cup {f.subject},
                    !.depth     = [o \in Objects |-> IF o \in added THEN depth ELSE run.depth[o]],
                    !.boundary  = @ \cup Reported(f) \cup Boundary(run, c.candidates, depth, added)])
          /\ material' = material \cup c.candidates
       \/ ~Current(s) /\ UNCHANGED <<run, fresh, material>>
    /\ Goto(s, Idle)
    /\ UNCHANGED <<findings, admitted, links, repeats, crashes>>

-----------------------------------------------------------------------------
(* close. *)

BeginClose(s) ==
    /\ call[s].pc = "idle"
    /\ run.status = "ACTIVE" /\ HasTurn
    /\ ClosureState(run) # "OPEN"
    /\ Goto(s, [pc |-> "close"])
    /\ fresh' = fresh \cup {s}
    /\ UNCHANGED <<run, findings, admitted, links, material, repeats, crashes>>

Close(s) ==
    /\ call[s].pc = "close"
    /\ \/ Current(s) /\ Write(s, [run EXCEPT !.status = "CLOSED", !.closure = ClosureState(run)])
       \/ ~Current(s) /\ UNCHANGED <<run, fresh>>
    /\ Goto(s, Idle)
    /\ UNCHANGED <<findings, admitted, links, material, repeats, crashes>>

-----------------------------------------------------------------------------
(* Environment. *)

\* Another actor confirms a relation.
Relate ==
    /\ \E l \in Confirmable \ links : links' = links \cup {l}
    /\ UNCHANGED <<run, findings, admitted, call, fresh, material, repeats, crashes>>

\* admit_work gives the family a WorkIdentity.
Admit ==
    /\ ~admitted
    /\ admitted' = TRUE
    /\ UNCHANGED <<run, findings, links, call, fresh, material, repeats, crashes>>

Crash(s) ==
    /\ crashes < MaxCrashes
    /\ call[s].pc # "idle"
    /\ crashes' = crashes + 1
    /\ Goto(s, Idle)
    /\ UNCHANGED <<run, findings, admitted, links, fresh, material, repeats>>

Step(s) == InsertFinding(s) \/ ReadNeighbours(s) \/ Commit(s) \/ Close(s)

Next ==
    \/ Start \/ Relate \/ Admit
    \/ \E s \in Sessions : InspectFrontier(s) \/ InspectAgain(s) \/ BeginClose(s) \/ Step(s) \/ Crash(s)

\* The auditor goes on with the frontier and closes the run when it is empty, and
\* calls that do not die return: the run itself is driven by nothing else.
Fairness ==
    /\ WF_vars(Start)
    /\ \A s \in Sessions : WF_vars(InspectFrontier(s)) /\ WF_vars(BeginClose(s)) /\ WF_vars(Step(s))

Spec == Init /\ [][Next]_vars /\ Fairness

-----------------------------------------------------------------------------
(* Properties. *)

\* However findings, budgets and relations race, the scope keeps to the object budget,
\* the depth and the family, no object leaves it, and no finding is about another
\* object (start and record_finding count from the run that they read).
ScopeKeepsBudget ==
    /\ Cardinality(Scope(run)) <= MaxObjects
    /\ \A o \in Scope(run) : run.depth[o] <= MaxDepth
    /\ run.initial \cup findings \subseteq Scope(run) /\ Scope(run) \subseteq Family

\* A run that is closed as FIXPOINT_REACHED has inspected, with a stored finding, what
\* it was started on and every object of the family that a committed finding said is
\* concerned, at whatever distance, although relations were confirmed, findings were
\* recorded and calls died meanwhile, and it stays so.  (record_finding keeps the
\* frontier and the boundary events, close decides from them.)
FixpointIsComplete ==
    run.closure = "FIXPOINT_REACHED" =>
        run.initial \cup (material \cap Family) \subseteq run.inspected \cap findings

\* The family was admitted after the audit had been started: no call finds the work turn
\* that the run would need.
Stranded == run.status = "ACTIVE" /\ ~HasTurn

\* An audit whose auditor goes on with the frontier is closed in the end, unless it is
\* stranded by a late admission of its family: the budgets bound the widening, and of two
\* conflicting findings one is always committed.  A stranded audit ends with the calls that
\* had begun before: then it can neither be closed nor widened.
AuditCloses ==
    /\ <>(run.status = "CLOSED" \/ Stranded)
    /\ [][Stranded /\ (\A s \in Sessions : call[s].pc = "idle") => UNCHANGED run]_vars
=============================================================================
