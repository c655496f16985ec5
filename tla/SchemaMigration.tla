--------------------------- MODULE SchemaMigration ---------------------------
(*****************************************************************************)
(* Documents of earlier schemas (schema.py, maintenance.py).  A reader       *)
(* upgrades a document in memory; MongoStore.update writes the patch to the  *)
(* document as it is stored, InMemoryStore.update also stores the upgrade;   *)
(* migrate_schema upgrades what is stored, document after document, while    *)
(* the services go on.  What an upgrade adds is derived from other fields,   *)
(* and is derived anew at every reading until somebody writes it.            *)
(*                                                                           *)
(* One Slice, of a family that has a WorkIdentity, gets one, or has none.    *)
(* Its fields are those that an upgrade adds or reads; plan and proof stand  *)
(* for the fields of the schemas 2 and 4, closer for closed_at and           *)
(* closed_by: the operation that they name, of verify_slice, accept_slice    *)
(* and the closing itself.                                                   *)
(*****************************************************************************)
EXTENDS Naturals

CONSTANTS Writers,      \* sessions of the services
          Migrators,    \* runs of migrate_schema
          MaxWrites     \* bound: revisions of the document

VARIABLES backend,      \* which store
          stored,       \* the document as it is stored
          admitted,     \* the family has a WorkIdentity
          writing,      \* what each session has read for its operation
          migrating,    \* what each migration has read
          eager,        \* history: the document, had it been upgraded before anything else
          bypassed      \* history: a call that had found no WorkIdentity has verified the Slice

vars == <<backend, stored, admitted, writing, migrating, eager, bypassed>>

Idle == [pc |-> "idle"]
Missing == "missing"
Latest == 6
Defaulted(value, default) == IF value = Missing THEN default ELSE value

\* The step from schema 5 to 6.
AlreadyAssured(d) == d.assurance \in {"VERIFIED", "ACCEPTED"}
ValidationOf(d) == IF AlreadyAssured(d) THEN "VALIDATED"
                   ELSE IF d.execution = "DONE_CLAIMED" THEN "PENDING" ELSE "NOT_STARTED"
ClosureOf(d) == IF AlreadyAssured(d) THEN "CLOSED" ELSE "OPEN"
CloserOf(d) == IF d.assurance = "ACCEPTED" THEN "accepter" ELSE IF d.assurance = "VERIFIED" THEN "verifier" ELSE "none"

\* upgrade_document: of each schema that the document has not reached yet.
Upgraded(d) ==
    [d EXCEPT !.version = Latest,
              !.plan = IF d.version < 2 THEN Defaulted(d.plan, "none") ELSE d.plan,
              !.proof = IF d.version < 4 THEN Defaulted(d.proof, "none") ELSE d.proof,
              !.validation = IF d.version < 6 THEN Defaulted(d.validation, ValidationOf(d)) ELSE d.validation,
              !.closure = IF d.version < 6 THEN Defaulted(d.closure, ClosureOf(d)) ELSE d.closure,
              !.closer = IF d.version < 6 THEN Defaulted(d.closer, CloserOf(d)) ELSE d.closer]

\* What each schema wrote, in the states that a Slice was then in; a document without a
\* revision is one of revision 0, for both stores and for the upgrade.
Written(version, execution, assurance) ==
    [version |-> version, execution |-> execution, assurance |-> assurance,
     rev |-> 0,
     plan |-> IF version < 2 THEN Missing ELSE IF execution = "ACTIVE" THEN "bound" ELSE "none",
     proof |-> IF version < 4 THEN Missing ELSE IF assurance = "UNVERIFIED" THEN "none" ELSE "given",
     validation |-> Missing, closure |-> Missing, closer |-> Missing]

Init ==
    /\ backend \in {"mongo", "memory"}
    /\ stored \in {Written(v, "PLANNED", "UNVERIFIED") : v \in 1..Latest - 1}
              \cup {Written(v, "ACTIVE", "UNVERIFIED") : v \in 1..Latest - 1}
              \cup {Written(v, "DONE_CLAIMED", a) : v \in 1..Latest - 1, a \in {"UNVERIFIED", "VERIFIED", "ACCEPTED"}}
    /\ admitted \in BOOLEAN
    /\ writing = [s \in Writers |-> Idle]
    /\ migrating = [m \in Migrators |-> Idle]
    /\ eager = Upgraded(stored) /\ bypassed = FALSE

-----------------------------------------------------------------------------
(* The store. *)

\* The fields of the patch are replaced; the store itself counts the revision.
Patched(d, patch) ==
    [f \in DOMAIN d |-> IF f = "rev" THEN d.rev + 1 ELSE IF f \in DOMAIN patch THEN patch[f] ELSE d[f]]
Update(patch) == stored' = IF backend = "memory" THEN Upgraded(Patched(stored, patch)) ELSE Patched(stored, patch)

\* The compare-and-set.
Unchanged(rev) == stored.rev = rev

-----------------------------------------------------------------------------
(* The operations of the services. *)

Start    == [execution |-> "ACTIVE", plan |-> "bound", validation |-> "NOT_STARTED", closure |-> "OPEN", closer |-> "none"]
Claim    == [execution |-> "DONE_CLAIMED", plan |-> "none", validation |-> "PENDING", closure |-> "OPEN", closer |-> "none"]
Progress == [e \in {"execution"} |-> "BLOCKED"]
MutJudge(verdict) == [v \in {"validation"} |-> verdict]
Judge(verdict)    == [validation |-> verdict, closure |-> "OPEN", closer |-> "none"]
Verify   == [assurance |-> "VERIFIED", proof |-> "given"]
Close    == [closure |-> "CLOSED", closer |-> "closer"]
Reopen   == [closure |-> "OPEN", closer |-> "none"]
Accept   == [a \in {"assurance"} |-> "ACCEPTED"]

\* _work_for_slice, and the first of the two reads of verify_slice and accept_slice, on
\* which they decide about the judgement and the closure if there is a WorkIdentity.
Looked == [work |-> admitted, validation |-> Upgraded(stored).validation, closure |-> Upgraded(stored).closure]

LookUp(s) ==
    /\ writing[s] = Idle
    /\ writing' = [writing EXCEPT ![s] = [pc |-> "read", look |-> Looked]]
    /\ UNCHANGED <<backend, stored, admitted, migrating, eager, bypassed>>

\* The patches that the operations make, of the Slice as they read it after that.
Patches(d, look) ==
    LET claimed == d.execution = "DONE_CLAIMED"
        unassured == d.assurance = "UNVERIFIED"
    IN {p \in {Start} : claimed => d.validation = "REWORK_REQUIRED"}
       \cup {p \in {Claim, Progress} : d.plan = "bound"}
       \cup {p \in {Judge("VALIDATED"), Judge("REWORK_REQUIRED")} : look.work /\ claimed /\ unassured}
       \cup {p \in {Verify} : claimed /\ unassured /\ (look.work => look.validation = "VALIDATED")}
       \cup {p \in {Close} : look.work /\ d.validation = "VALIDATED" /\ ~unassured /\ d.closure = "OPEN"}
       \cup {p \in {Accept} : d.assurance = "VERIFIED" /\ (look.work => look.closure = "CLOSED")}

\* _must_get upgrades; what the operation decides on is what it has read.
Read(s) ==
    /\ writing[s] # Idle /\ writing[s].pc = "read"
    /\ stored.rev < MaxWrites
    /\ LET look == writing[s].look
       IN \E patch \in Patches(Upgraded(stored), look) :
             writing' = [writing EXCEPT ![s] = [pc |-> "write", look |-> look, patch |-> patch, rev |-> stored.rev]]
    /\ UNCHANGED <<backend, stored, admitted, migrating, eager, bypassed>>

Write(s) ==
    /\ writing[s] # Idle /\ writing[s].pc = "write"
    /\ LET patch == writing[s].patch
           work == writing[s].look.work
       IN IF Unchanged(writing[s].rev)
          THEN /\ Update(patch) /\ eager' = Patched(eager, patch)
               /\ bypassed' = (bypassed \/ (patch = Verify /\ ~work))
               /\ writing' = [writing EXCEPT ![s] =
                      IF patch = Verify /\ work THEN [pc |-> "verified", look |-> writing[s].look] ELSE Idle]
          ELSE writing' = [writing EXCEPT ![s] = Idle] /\ UNCHANGED <<stored, eager, bypassed>>
    /\ UNCHANGED <<backend, admitted, migrating>>

\* The rest of verify_slice if there is a WorkIdentity: the Slice is closed, or, with
\* effects that block it or by request, it is left open or opened.
Finish(s) ==
    /\ writing[s] # Idle /\ writing[s].pc = "verified"
    /\ stored.rev < MaxWrites
    /\ \/ \E patch \in {Close} \cup {p \in {Reopen} : Upgraded(stored).closure # "OPEN"} :
             writing' = [writing EXCEPT ![s] =
                 [pc |-> "write", look |-> writing[s].look, patch |-> patch, rev |-> stored.rev]]
       \/ Upgraded(stored).closure = "OPEN" /\ writing' = [writing EXCEPT ![s] = Idle]
    /\ UNCHANGED <<backend, stored, admitted, migrating, eager, bypassed>>

\* admit_work, or backfill_work_identity for a family of an earlier version.
Admit ==
    /\ ~admitted /\ admitted' = TRUE
    /\ UNCHANGED <<backend, stored, writing, migrating, eager, bypassed>>

-----------------------------------------------------------------------------
(* migrate_schema(dry_run=False). *)

\* raw_find of the collection; a document of the latest schema is passed over.
Scan(m) ==
    /\ migrating[m] = Idle
    /\ stored.version < Latest
    /\ migrating' = [migrating EXCEPT ![m] = [pc |-> "persist", doc |-> Upgraded(stored)]]
    /\ UNCHANGED <<backend, stored, admitted, writing, eager, bypassed>>

\* The whole document as a patch; a conflict ends the migration, of all that follows too.
Persist(m) ==
    /\ migrating[m] # Idle
    /\ migrating' = [migrating EXCEPT ![m] = Idle]
    /\ IF Unchanged(migrating[m].doc.rev) THEN Update(migrating[m].doc) ELSE UNCHANGED stored
    /\ UNCHANGED <<backend, admitted, writing, eager, bypassed>>

Next ==
    \/ \E s \in Writers : LookUp(s) \/ Read(s) \/ Write(s) \/ Finish(s)
    \/ \E m \in Migrators : Scan(m) \/ Persist(m)
    \/ Admit

Spec == Init /\ [][Next]_vars

-----------------------------------------------------------------------------
(* Properties. *)

Seen == Upgraded(stored)
Differing == {f \in DOMAIN stored \ {"rev"} : Seen[f] # eager[f]}

\* accept_slice does not write closed_at and closed_by, but what they are derived from.
ClosedByAcceptance ==
    Differing = {"closer"} /\ Seen.closer = "accepter" /\ eager.closer = "verifier"

\* Without a WorkIdentity nobody asks for a judgement before the verification, and the
\* verification writes neither the judgement nor the closure, which are derived from it.
JudgedByVerification ==
    /\ bypassed /\ Differing \subseteq {"validation", "closure", "closer"}
    /\ Seen.validation = "VALIDATED" /\ Seen.closure = "CLOSED"
    /\ eager.assurance # "UNVERIFIED" /\ eager.validation = "PENDING" /\ eager.closure = "OPEN"

\* When a document was migrated can be told in two cases only.  What a reader gets is what
\* it would get if the document had been upgraded before the first operation, in either
\* store, with operations, migrations and an admission in any order; but a Slice that was
\* verified under an earlier schema and is accepted before it is migrated was closed by
\* its acceptance instead of its verification, and one that is verified before it is
\* migrated, by a call that found no WorkIdentity, is VALIDATED and CLOSED instead of
\* PENDING and OPEN (docs/schema-evolution.md).
UpgradeIsInvisible == Differing = {} \/ ClosedByAcceptance \/ JudgedByVerification
=============================================================================
