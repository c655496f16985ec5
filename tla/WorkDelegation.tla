---------------------------- MODULE WorkDelegation ----------------------------
(*****************************************************************************)
(* Delegation of tasks to a worker (service.py): the runtime profile that    *)
(* the host publishes, the eligibility computed from it, and the delegations *)
(* that coordinators authorise and close.  authorize_delegation looks for    *)
(* the task, reads the profile, reads it again, counts the open delegations  *)
(* and inserts; nothing is locked and no index limits what is inserted.      *)
(*                                                                           *)
(* One worker, one family and one coordinator per task.  Capabilities are    *)
(* those of one required set: the profile has them or not.                   *)
(*****************************************************************************)
EXTENDS Naturals, Sequences, FiniteSets, FiniteSetsExt

CONSTANTS Sessions, Tasks,
          Limits,       \* max_parallel_tasks that the host may publish
          MaxAsked,     \* bound: calls of authorize_delegation
          MaxRows,      \* bound: delegations
          MaxPublished  \* bound: publications of the profile

\* Of the constants.
DelegationAssumption ==
    Limits \subseteq Nat \ {0} /\ {MaxAsked, MaxRows, MaxPublished} \subseteq Nat

VARIABLES profile,      \* the worker's runtime profile
          approved,     \* tasks the owner has approved for this worker, by exact subject
          delegations,         \* the delegations
          authorizing, asked, published,
          high,         \* history: the highest limit published
          most          \* history: the most calls that ran at the same time

vars == <<profile, approved, delegations, authorizing, asked, published, high, most>>

NoProfile == [limit |-> 0, able |-> FALSE, costly |-> FALSE, active |-> FALSE]
Profiles == [limit : Limits, able : BOOLEAN, costly : BOOLEAN, active : BOOLEAN]
Idle == [pc |-> "idle"]

Init ==
    /\ profile = NoProfile /\ approved = {} /\ delegations = <<>>
    /\ authorizing = [s \in Sessions |-> Idle]
    /\ asked = 0 /\ published = 0 /\ high = 0 /\ most = 0

End(s) == authorizing' = [authorizing EXCEPT ![s] = Idle]
Goto(s, pc) == authorizing' = [authorizing EXCEPT ![s].pc = pc]
Running == {s \in Sessions : authorizing[s] # Idle}

\* register_worker_runtime
Publish ==
    /\ published < MaxPublished
    /\ published' = published + 1
    /\ profile' \in Profiles
    /\ high' = Max({high, profile'.limit})
    /\ UNCHANGED <<approved, delegations, authorizing, asked, most>>

\* An AUTHORIZE_DELEGATION approval of the owner.
Approve(t) ==
    /\ approved' = approved \cup {t}
    /\ UNCHANGED <<profile, delegations, authorizing, asked, published, high, most>>

Open == {n \in DOMAIN delegations : delegations[n].status = "AUTHORIZED"}
OpenFor(t) == {n \in Open : delegations[n].task = t}

-----------------------------------------------------------------------------
(* authorize_delegation. *)

\* A task that is open is answered with its row.
Begin(s, t) ==
    /\ authorizing[s] = Idle
    /\ asked < MaxAsked
    /\ asked' = asked + 1
    /\ IF OpenFor(t) # {} THEN UNCHANGED <<authorizing, most>>
       ELSE /\ authorizing' = [authorizing EXCEPT ![s] = [pc |-> "eligible", task |-> t, costly |-> FALSE]]
            /\ most' = Max({most, Cardinality(Running) + 1})
    /\ UNCHANGED <<profile, approved, delegations, published, high>>

\* check_execution_eligibility.
Eligible(t) == profile.active /\ profile.able /\ (profile.costly => t \in approved)

CheckEligibility(s) ==
    /\ authorizing[s].pc = "eligible"
    /\ IF Eligible(authorizing[s].task)
       THEN authorizing' = [authorizing EXCEPT ![s] = [@ EXCEPT !.pc = "count", !.costly = profile.costly]]
       ELSE End(s)
    /\ UNCHANGED <<profile, approved, delegations, asked, published, high, most>>

MutBelow(open, limit) == open <= limit
Below(open, limit) == open < limit

\* The profile is read a second time, for its limit.
CountOpen(s) ==
    /\ authorizing[s].pc = "count"
    /\ IF Below(Cardinality(Open), profile.limit) THEN Goto(s, "insert") ELSE End(s)
    /\ UNCHANGED <<profile, approved, delegations, asked, published, high, most>>

Insert(s) ==
    /\ authorizing[s].pc = "insert"
    /\ Len(delegations) < MaxRows
    /\ delegations' = Append(delegations, [task |-> authorizing[s].task, costly |-> authorizing[s].costly, status |-> "AUTHORIZED"])
    /\ End(s)
    /\ UNCHANGED <<profile, approved, asked, published, high, most>>

\* complete_delegation: whatever status the row has, by compare-and-set.
Complete(n) ==
    /\ n \in DOMAIN delegations
    /\ \E status \in {"COMPLETED", "FAILED"} : delegations' = [delegations EXCEPT ![n].status = status]
    /\ UNCHANGED <<profile, approved, authorizing, asked, published, high, most>>

Next ==
    \/ Publish
    \/ \E t \in Tasks : Approve(t)
    \/ \E s \in Sessions :
          (\E t \in Tasks : Begin(s, t)) \/ CheckEligibility(s) \/ CountOpen(s) \/ Insert(s)
    \/ \E n \in 1..MaxRows : Complete(n)

Spec == Init /\ [][Next]_vars

-----------------------------------------------------------------------------
(* Properties. *)

\* The race between counting and inserting is bounded: a worker has never more open
\* delegations than the highest limit published plus the calls that ran beside another
\* one, a task never more open delegations than calls ran at the same time; and what is
\* costly was approved for exactly this task, even if the profile changed between the two
\* reads (docs/delegation-governance.md).
OverrunIsBounded ==
    /\ Open # {} => Cardinality(Open) <= high + most - 1
    /\ \A t \in Tasks : Cardinality(OpenFor(t)) <= most
    /\ \A n \in DOMAIN delegations : delegations[n].costly => delegations[n].task \in approved
=============================================================================
