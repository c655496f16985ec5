------------------------- MODULE FilesystemInventory --------------------------
(*****************************************************************************)
(* filesystem.py: the inventory of scanned roots and the freshness of RB/1   *)
(* evidence.  The disk changes while it is walked; two scans may overlap in  *)
(* time, and two roots may overlap in paths.                                 *)
(*                                                                           *)
(* A scan of a root reads the rows that were stored under that root, walks   *)
(* the directories for candidates, takes the candidates one by one (hash,    *)
(* compare with the row, write), marks the rows that it has not seen as      *)
(* missing if its coverage is complete, and writes the document of the root. *)
(*                                                                           *)
(* A file is its content, a number.  Exclusion of secrets and caches is part *)
(* of what Under names; roles, identifiers and sizes follow the content.     *)
(*****************************************************************************)
EXTENDS Integers, FiniteSets, FiniteSetsExt

CONSTANTS Scanners,     \* concurrent scan calls
          Paths, Roots,
          Under,        \* Under[r]: the included paths below root r
          Deep,         \* paths below the depth limit
          Limits,       \* max_files of a scan; a root gets what earlier roots have left of it
          Disks,        \* contents of the disk at the start
          Contents,     \* bound: contents of a file
          MaxChanges,   \* bound: changes of the disk
          MaxScans      \* bound: scans begun

\* Of the constants.
InventoryAssumption ==
    /\ Under \in [Roots -> SUBSET Paths] /\ Deep \subseteq Paths
    /\ Contents \subseteq Nat \ {0} /\ Limits \subseteq Nat \ {0}
    /\ Disks \subseteq [Paths -> {0} \cup Contents]
    /\ IsFiniteSet(Paths)

Absent == 0     \* no such file
NoRow  == [root |-> "none", hash |-> Absent, present |-> FALSE, rev |-> 0]

VARIABLES disk,         \* disk[p]: the content of the file, or Absent
          unlisted,     \* paths in directories that cannot be listed
          entries,      \* filesystem_entries, unique by path
          roots,        \* filesystem_roots: roots[r] says whether the last scan was complete
          call,         \* call[s]: the scan s
          exact,        \* history: roots whose rows were written by a scan beside which nothing happened
          binding,      \* the RB/1 binding of one evidence document
          changes, scans

vars == <<disk, unlisted, entries, roots, call, exact, binding, changes, scans>>

Idle == [pc |-> "idle"]
Goto(s, c) == call' = [call EXCEPT ![s] = c]
Unbound == [p \in Paths |-> Absent]

Init ==
    /\ disk \in Disks
    /\ unlisted = {}
    /\ entries = [p \in Paths |-> NoRow]
    /\ roots = [r \in Roots |-> "never"]
    /\ call = [s \in Scanners |-> Idle]
    /\ exact = {}
    /\ binding = Unbound
    /\ changes = 0
    /\ scans = 0

-----------------------------------------------------------------------------
(* The disk. *)

\* Every running scan learns that p was not there, or not as it was.
Disturb(p) ==
    /\ call' = [s \in Scanners |-> IF call[s] = Idle THEN Idle
                                   ELSE [call[s] EXCEPT !.lone = FALSE, !.missed = call[s].missed \cup {p}]]
    /\ exact' = {r \in exact : p \notin Under[r]}

Change(p) ==
    /\ changes < MaxChanges
    /\ changes' = changes + 1
    /\ \E c \in {Absent} \cup Contents : c # disk[p] /\ disk' = [disk EXCEPT ![p] = c]
    /\ Disturb(p)
    /\ UNCHANGED <<unlisted, entries, roots, binding, scans>>

\* A directory loses its permissions: os.walk passes over it without an error.
Unlist(p) ==
    /\ changes < MaxChanges
    /\ changes' = changes + 1
    /\ p \notin unlisted
    /\ unlisted' = unlisted \cup {p}
    /\ Disturb(p)
    /\ UNCHANGED <<disk, entries, roots, binding, scans>>

-----------------------------------------------------------------------------
(* scan. *)

Visible == {p \in Paths : disk[p] # Absent /\ p \notin unlisted}

\* coverage_complete of a walk that met the candidates found: neither limit was hit.
Covers(r, found, limit) == Cardinality(found) < limit /\ Under[r] \cap Deep \cap Visible = {}

MutPrevious(r) == entries
\* The rows that the scan of a root knows: those stored under this very root.
Previous(r) == [p \in Paths |-> IF entries[p].root = r THEN entries[p] ELSE NoRow]

BeginRoot(s, r, limit) ==
    /\ call[s] = Idle
    /\ scans < MaxScans
    /\ scans' = scans + 1
    /\ call' = [o \in Scanners |->
                  IF o = s THEN [pc |-> "walk", root |-> r, limit |-> limit, previous |-> Previous(r),
                                 todo |-> {}, seen |-> {}, complete |-> TRUE,
                                 missed |-> {p \in Paths : p \notin Visible},
                                 lone |-> \A t \in Scanners : call[t] = Idle]
                  ELSE IF call[o] = Idle THEN Idle ELSE [call[o] EXCEPT !.lone = FALSE]]
    /\ UNCHANGED <<disk, unlisted, entries, roots, exact, binding, changes>>

\* os.walk: at most max_files candidates in the order of the directories.
Walk(s) ==
    LET c == call[s]
        there == (Under[c.root] \ Deep) \cap Visible IN
    /\ c.pc = "walk"
    /\ \E found \in IF Cardinality(there) <= c.limit THEN {there} ELSE kSubset(c.limit, there) :
          Goto(s, [c EXCEPT !.pc = "files", !.todo = found, !.complete = Covers(c.root, found, c.limit)])
    /\ UNCHANGED <<disk, unlisted, entries, roots, exact, binding, changes, scans>>

\* The scan is done with a candidate.
Taken(s, p, seen) == [call[s] EXCEPT !.todo = call[s].todo \ {p}, !.seen = call[s].seen \cup seen]

\* A file that has gone since the walk is passed over.  It counts as seen if it goes
\* between the look at it and the hashing of it.
Skip(s, p) ==
    /\ disk[p] = Absent
    /\ \E seen \in {{}, {p}} : Goto(s, Taken(s, p, seen))
    /\ UNCHANGED <<entries, exact>>

\* _same_entry: present and nothing about the file is different.
Same(row, content) == row.present /\ row.hash = content

Keep(s, p) ==
    /\ disk[p] # Absent
    /\ Same(call[s].previous[p], disk[p])
    /\ Goto(s, Taken(s, p, {p}))
    /\ UNCHANGED <<entries, exact>>

Entry(s, p) == [root |-> call[s].root, hash |-> disk[p], present |-> TRUE, rev |-> entries[p].rev + 1]

\* The compare-and-set of update.
Current(row, p) == row.rev = entries[p].rev

\* Writing a row under one root makes the rows of the other roots over it inexact.
Persisted(s, p) == exact' = {r \in exact : p \notin Under[r]}

\* _persist_entry without a previous row inserts; with one it updates.
Persist(s, p) ==
    LET old == call[s].previous[p] IN
    /\ disk[p] # Absent
    /\ ~Same(old, disk[p])
    /\ IF old = NoRow THEN entries[p] = NoRow ELSE Current(old, p)
    /\ entries' = [entries EXCEPT ![p] = Entry(s, p)]
    /\ Goto(s, Taken(s, p, {p}))
    /\ Persisted(s, p)

\* The row belongs to another root, or another scan has just inserted it: the error of
\* the memory store is swallowed with those of the file, that of MongoDB is not.
Duplicate(s, p) ==
    /\ disk[p] # Absent
    /\ call[s].previous[p] = NoRow
    /\ entries[p] # NoRow
    /\ \/ Goto(s, Idle)                                             \* MongoStore
       \/ Goto(s, [Taken(s, p, {p}) EXCEPT !.lone = FALSE])
    /\ UNCHANGED <<entries, exact>>

\* A row that another scan wrote since: the conflict ends the scan.
Conflict(s, p) ==
    LET old == call[s].previous[p] IN
    /\ disk[p] # Absent
    /\ old # NoRow /\ ~Same(old, disk[p]) /\ ~Current(old, p)
    /\ Goto(s, Idle)
    /\ UNCHANGED <<entries, exact>>

TakeFile(s) ==
    /\ call[s].pc = "files"
    /\ \E p \in call[s].todo : Skip(s, p) \/ Keep(s, p) \/ Persist(s, p) \/ Duplicate(s, p) \/ Conflict(s, p)
    /\ UNCHANGED <<disk, unlisted, roots, binding, changes, scans>>

\* The rows that a scan may mark as missing.
Missing(c) == {p \in Paths : c.previous[p].present /\ p \notin c.seen}

AfterFiles(s) ==
    LET c == call[s] IN
    /\ c.pc = "files"
    /\ c.todo = {}
    /\ Goto(s, [c EXCEPT !.pc = "missing", !.todo = IF c.complete THEN Missing(c) ELSE {}])
    /\ UNCHANGED <<disk, unlisted, entries, roots, exact, binding, changes, scans>>

MarkMissing(s) ==
    LET c == call[s] IN
    /\ c.pc = "missing"
    /\ \E p \in c.todo :
          IF Current(c.previous[p], p)
          THEN /\ entries' = [entries EXCEPT ![p] = [c.previous[p] EXCEPT !.present = FALSE, !.rev = c.previous[p].rev + 1]]
               /\ Goto(s, [c EXCEPT !.todo = c.todo \ {p}])
               /\ Persisted(s, p)
          ELSE Goto(s, Idle) /\ UNCHANGED <<entries, exact>>
    /\ UNCHANGED <<disk, unlisted, roots, binding, changes, scans>>

\* No row of another root lies below this one (a root inside another one, scanned second,
\* leaves the rows of the first as they are).
Owns(r) == \A p \in Under[r] : entries[p] = NoRow \/ entries[p].root = r

EndRoot(s) ==
    LET c == call[s] IN
    /\ c.pc = "missing"
    /\ c.todo = {}
    /\ roots' = [roots EXCEPT ![c.root] = IF c.complete THEN "complete" ELSE "bounded"]
    /\ exact' = IF c.lone /\ c.complete /\ Owns(c.root) THEN exact \cup {c.root} ELSE exact
    /\ Goto(s, Idle)
    /\ UNCHANGED <<disk, unlisted, entries, binding, changes, scans>>

Crash(s) ==
    /\ call[s] # Idle
    /\ Goto(s, Idle)
    /\ UNCHANGED <<disk, unlisted, entries, roots, exact, binding, changes, scans>>

-----------------------------------------------------------------------------
(* RB/1. *)

\* build_reproduction_binding hashes the inputs as they are; each must exist.
Bind ==
    /\ binding = Unbound
    /\ \E inputs \in (SUBSET Paths) \ {{}} :
          /\ \A p \in inputs : disk[p] # Absent
          /\ binding' = [p \in Paths |-> IF p \in inputs THEN disk[p] ELSE Absent]
    /\ UNCHANGED <<disk, unlisted, entries, roots, call, exact, changes, scans>>

\* _check_file_bindings on the disk, or on the index when live_check is off.
MutStatus(p, expected, live) ==
    IF live THEN IF disk[p] # Absent /\ disk[p] = expected THEN "MATCH" ELSE "STALE"
    ELSE IF entries[p] = NoRow THEN "UNKNOWN"
    ELSE IF entries[p].hash = expected THEN "MATCH" ELSE "STALE"
Status(p, expected, live) ==
    IF live THEN IF disk[p] # Absent /\ disk[p] = expected THEN "MATCH" ELSE "STALE"
    ELSE IF entries[p] = NoRow THEN "UNKNOWN"
    ELSE IF entries[p].present /\ entries[p].hash = expected THEN "MATCH" ELSE "STALE"

\* evidence_freshness of attested PASS evidence with an intact fingerprint.
Freshness(b, live) ==
    LET statuses == {Status(p, b[p], live) : p \in {q \in Paths : b[q] # Absent}} IN
    IF statuses = {} THEN "UNBOUND"
    ELSE IF "STALE" \in statuses THEN "STALE"
    ELSE IF "UNKNOWN" \in statuses THEN "UNKNOWN" ELSE "REUSABLE"

Next ==
    \/ \E p \in Paths : Change(p) \/ Unlist(p)
    \/ \E s \in Scanners :
          \/ \E r \in Roots, limit \in Limits : BeginRoot(s, r, limit)
          \/ Walk(s) \/ TakeFile(s) \/ AfterFiles(s) \/ MarkMissing(s) \/ EndRoot(s) \/ Crash(s)
    \/ Bind

Spec == Init /\ [][Next]_vars

-----------------------------------------------------------------------------
(* Properties. *)

\* Whoever marks a row as missing runs a scan during which the file could not be seen.
OnlyMissedAreMarked ==
    \A p \in Paths : entries[p].present /\ ~entries'[p].present =>
        \E s \in Scanners : call[s] # Idle /\ p \in call[s].missed

\* A scan marks a file as missing only if it could not be seen at some moment of that
\* scan: what was passed over because of a limit is not taken for removed, and a file
\* that another root or another scan covers is left alone (_scan_root).
MissingWasMissing == [][OnlyMissedAreMarked]_vars

\* Once a scan beside which nothing happened has covered a root, and until something
\* changes there, and unless an overlapping root owns rows there, evidence bound to
\* files of that root is as fresh on the index as on the disk (evidence_freshness with
\* live_check off); a file that never was indexed and is gone is unknown to the index.
IndexAnswersForDisk ==
    \A r \in exact :
        {p \in Paths : binding[p] # Absent} \subseteq Under[r] \ unlisted =>
            \/ Freshness(binding, FALSE) = Freshness(binding, TRUE)
            \/ Freshness(binding, FALSE) = "UNKNOWN" /\ Freshness(binding, TRUE) = "STALE"
=============================================================================
