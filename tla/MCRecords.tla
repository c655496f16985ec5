------------------------------- MODULE MCRecords -------------------------------
(* What the store keeps about the world, in three parts that touch different *)
(* documents: assertions with their evidence, the inventory of files with    *)
(* the evidence bound to them, and the documents of earlier schemas.  Each   *)
(* behaviour exercises one part.                                             *)
(*                                                                           *)
(* Truth: two sessions record observations with evidence, conclusions that   *)
(* rest on earlier assertions and assertions that contradict one; there is   *)
(* an observation and a conclusion from it at the start.                     *)
(* Files: a repository, and a directory of it that is also a root.           *)
(* Schema: a Slice of any schema, in any state that it could then be in.     *)
EXTENDS Integers, Sequences, TLC

CONSTANTS Sessions, MaxRows, MaxCalls, Horizon, Inputs(_), Histories,
          repo, src, main, notes,
          Scanners, Paths, Roots, Under, Deep, Limits, Disks, Contents, MaxChanges, MaxScans,
          Writers, Migrators, MaxWrites
VARIABLES part,
          rows, asserting, begun, outstanding,
          disk, unlisted, entries, roots, scanning, exact, binding, changes, scans,
          backend, stored, admitted, writing, migrating, eager, bypassed

assertions == <<rows, asserting, begun, outstanding>>
inventory  == <<disk, unlisted, entries, roots, scanning, exact, binding, changes, scans>>
schema     == <<backend, stored, admitted, writing, migrating, eager, bypassed>>

Truth == INSTANCE TruthMaintenance WITH call <- asserting
Files == INSTANCE FilesystemInventory WITH call <- scanning
Schema == INSTANCE SchemaMigration

ASSUME RecordsAssumption == Truth!TruthAssumption /\ Files!InventoryAssumption

\* The part that a behaviour does not exercise stays as it starts.
Init ==
    /\ part \in {"truth", "files", "schema"}
    /\ Truth!Init /\ Files!Init /\ Schema!Init
    /\ part # "files" => disk = [p \in Paths |-> 1]
    /\ part # "schema" => backend = "memory" /\ stored = Schema!Written(5, "PLANNED", "UNVERIFIED")
                          /\ admitted = TRUE

Next ==
    /\ UNCHANGED part
    /\ \/ part = "truth" /\ Truth!Next /\ UNCHANGED <<inventory, schema>>
       \/ part = "files" /\ Files!Next /\ UNCHANGED <<assertions, schema>>
       \/ part = "schema" /\ Schema!Next /\ UNCHANGED <<assertions, inventory>>

Spec == Init /\ [][Next]_<<part, assertions, inventory, schema>>

-----------------------------------------------------------------------------
Draft(valid, evidence, support, contradicts) ==
    [valid |-> valid, evidence |-> evidence, support |-> support, contradicts |-> contradicts]

MCInputs(n) ==
    {Draft(0..Horizon, "bad", {}, {}), Draft({0}, "good", {}, {})}
    \cup {Draft(0..Horizon, "none", r, {}) : r \in (SUBSET (1..n)) \ {{}}}
    \cup {Draft(0..Horizon, "good", {}, {m}) : m \in 1..n}

Recorded(d) == [kf |-> 0, kt |-> Horizon + 1, valid |-> d.valid, support |-> d.support,
                contradicts |-> d.contradicts, evidence |-> d.evidence,
                life |-> "ACTIVE", state |-> "SUPPORTED", rev |-> 1]

Observation == Recorded(Draft(0..Horizon, "good", {}, {}))
Conclusion  == Recorded(Draft(0..Horizon, "none", {1}, {}))
MCHistories == {<<Observation, Conclusion>>}

MCUnder == [r \in {repo, src} |-> IF r = repo THEN {main, notes} ELSE {main}]
MCDisks == {[p \in {main, notes} |-> 1], [p \in {main, notes} |-> IF p = main THEN 1 ELSE 0]}

Symmetry == Permutations(Sessions) \cup Permutations(Scanners) \cup Permutations(Writers)

-----------------------------------------------------------------------------
\* invalidate: a retraction reaches every current conclusion, or its walk is outstanding.
RetractionReaches == part = "truth" => Truth!RetractionReaches
\* evaluate: what is supported rests on evidence, through the whole basis.
SupportRestsOnEvidence == part = "truth" => Truth!SupportRestsOnEvidence
\* record_assertion: corrections leave the answers about earlier moments alone.
HistoryMovesForward == Truth!HistoryMovesForward
\* scan: a file is marked as missing only if a scan could not see it.
MissingWasMissing == Files!MissingWasMissing
\* evidence_freshness: the index of a lone complete scan answers as the disk does.
IndexAnswersForDisk == part = "files" => Files!IndexAnswersForDisk
\* upgrade_document, migrate_schema: two cases apart, nobody can tell when a document was migrated.
UpgradeIsInvisible == part = "schema" => Schema!UpgradeIsInvisible
=============================================================================
