# A TLA+ development of MangoMe

MangoMe is a control plane for the work of software agents. Agents call it over
MCP; it keeps contracts, plans, work slices, evidence, decisions and external
effects as documents in a store (memory or MongoDB), and decides what a call may
do from what the documents say. It has no scheduler and no locks of its own:
several server processes and sessions use one store, and a call is a sequence of
reads, checks and writes of single documents.

This directory models the parts of MangoMe whose correctness depends on that,
checks the models with TLC on small instances, and proves the most important
properties with TLAPS for every instance. `PROJECT.json` lists components, runs,
mutants, hazards, findings, theorems, and the source lines of every definition.
Paths such as `work_control.py` are under `src/src/mangome/`, `docs/` is
`src/docs/`.

## 1. The system

### 1.1 The store, and what follows from it

`storage/base.py` is the interface, `memory.py` and `mongo.py` implement it.
Documents are named by collection and id and carry a `revision`.

| operation | what is atomic |
|---|---|
| `get`, `find` | one read of a collection |
| `insert` | refuses an existing id or unique key |
| `update(expected_revision)` | compare-and-set of one document |
| `get_or_create` | find or insert by a unique key |

There are no transactions. Each operation of a service is therefore a sequence
of atomic steps, other sessions act between any two of them, and a process may
die between any two of them. A compare-and-set protects the document that it
writes and nothing that was read beside it. This is the source of nearly every
hazard below, and the reason why each module has explicit read and write steps.

### 1.2 Components

For each: its state, operations, what makes it hard, and what makes it correct.

**External effect journal, PER/1** (`effect_control.py`). State: `effects`
documents keyed by Slice and effect key, with state, outcome, satisfied,
attempt. Operations: `record_intent`, `mark_dispatched`, `record_observation`,
`reconcile`; `close_verified_slice` reads it as a gate. Hard: races on one key,
retries, reports that arrive late, death after dispatch. Correct: no effect is
performed twice, a settled effect was performed, a key names one effect, closure
rests on settled effects, nothing is stranded.

**Slice lifecycle** (`service.py`, `integrity.py`, `work_control.py`). State:
`slices`, `plans`, `evidence`, `approvals`. Operations: `submit_plan`,
`close_plan`, `start_slice`, `update_slice_progress`, `claim_done`,
`submit_evidence`, `attest_evidence`, `submit_verification_observation`,
`set_gate`, `request_override`, `approve_override`, `validate_slice`,
`verify_slice`, `close_verified_slice`, `accept_slice`. Hard: each guard reads
other documents than the one it protects, `verify_slice` reads and
writes the Slice several times. Correct: the ladder DONE_CLAIMED,
VALIDATED, VERIFIED, CLOSED, ACCEPTED is climbed in order; verification rests on
an observation by somebody else than the executor; one plan executes at a time.

**Contract turns and generations** (`contract_control.py`). State:
`contract_heads`, `contract_generation_grants`, `turn_bindings`,
`contract_generations`. Operations: `bind_turn`, `promote_contract_generation`,
`release_contract_generation_grant`. Hard: a promotion makes five writes to
four documents, a grant is inserted before the head names it, grants expire.
Correct: one linear history, each generation made by the one grant that was
issued for its predecessor.

**Materialised views** (`service.py` `_project_family`, `work_control.py`
`_refresh_work_view`, `status`, `work_context`). State: the family document,
`project_views`, `work_views`. Each operation of the two components above and of
`register_contract` ends with some of these refreshes. Hard: lost updates, views
built early and saved late, loops that give up, death before a refresh. Correct:
readers are served what the collections say.

**Work admission, turns, `enter_work`** (`work_control.py`). State:
`work_identities`, `work_turns`, plans and Slices of an entry. Operations:
`enter_work` with a prompt or with a reference, and `admit_work`,
`bind_work_turn`, `submit_plan`, `start_slice` inside it. Hard: sessions enter
the same prompt at the same time; the creator of the work alone refreshes its
baseline, and may die before it does. Correct: one execution target, the late
caller cancels its own plan, no plan without admitted work.

**Normative baseline, specifications, relations** (`work_control.py`,
`service.py`). State: `normative_baselines`, `specs`, `edges`. Operations:
`create_spec`, `register_contract`, `link`, promotion, `submit_plan`. Hard: find
and then insert; `create_spec` retires, inserts and points in three writes; two
changes cross between write and refresh. Correct: specifications only advance,
and when all is quiet the semantics in force has its baseline.

**Work supersession** (`work_control.py`): `supersede_work` adds an edge after
checks that other calls may outdate; resolution follows at most eight. Hard: each
write is followed by a refresh of a view that may be refused, which ends the call.
Correct: archived work leads to one canonical work, and its history tells so unless
a call was cut short.

**Delegation** (`service.py`): `register_worker_runtime`,
`check_execution_eligibility`, `authorize_delegation`, `complete_delegation`.
Hard: the open delegations are counted, then one is inserted. Correct: the
overrun of `max_parallel_tasks` is bounded by the calls that race, and what is
costly was approved.

**Truth maintenance, BTTM/1** (`truth.py`). State: `truth_assertions` with
evidence, support, validity and knowledge intervals. Operations:
`record_assertion`, `invalidate`, `evaluate`, `truth_at`. Hard: the propagation
is a loop of writes that a conflict or a death ends half way, and an evaluation
may be overtaken by an invalidation. Correct: a retraction reaches what rests on
it; support rests on evidence; answers about the past do not move.

**Scoped audit, SRA/1** (`audit.py`). State: `audit_runs`, `audit_findings`.
Operations: `start`, `record_finding`, `close`. Hard: the frontier is written
from a run that was read earlier, a finding is inserted before the run knows it, and
the family may be admitted while the audit runs. Correct: the scope keeps its budgets,
a fixpoint is complete, an audit that is continued is closed, or it is stranded for a
reason that can be named.

**Filesystem inventory, RB/1** (`filesystem.py`). State: `filesystem_entries`,
`filesystem_roots`. Operations: `scan`, binding of inputs, `evidence_freshness`.
Hard: the disk changes while it is walked, scans and roots overlap. Correct:
nothing is recorded as missing that was not looked for; the index answers as the
disk does.

**Schema upgrade and maintenance** (`schema.py`, `maintenance.py`). State: the
stored form of old documents. Operations: `upgrade_document` on every read,
`migrate_schema`. Hard: what is derived is derived anew at every read until
somebody writes it, and operations write what it is derived from. Correct: nobody can
tell when a document was migrated, but in two cases.

**Runtime bootstrap and zero-touch migration** (`runtime.py`, `zero_touch.py`).
State: `mongod.conf`, its backups, the service, old credential files. Hard: every
managed process does it on its own, without a lock, and may die anywhere; an
endpoint is guessed when the file that names it cannot be read. Correct: what the
operator wrote and what leads back is not lost, and where it is, one can say by what.

**Managed runtime generations** (`runtime_generation.py`). State: processes of
the host. Operations: snapshot, SIGTERM, wait, SIGKILL. Hard: numbers are used
again. Correct: signals reach stale processes only, as far as the code can tell.

**Client setup** (`operability.py`). State: configuration and instruction files
of the clients. Hard: several files, one temporary name, backups made once and by
a copy that may end half way, clients that save their own state. Correct: no file is
torn or loses what somebody else wrote.

**Session binding and restore gate** (`mcp_server.py`, `runtime.py`). State: the
workspace that a server process is bound to and its last restore decision, in
memory. Hard: the gate asks the decision and not the store. Correct: no
productive call goes on a guess.

**Fast judgment and hygiene**, **authority**, **context, interlingua and human
status**, **structural intelligence**, **import and reconciliation**, **worker
server, fail-soft wrapper, CLI**: pure functions, advisory rows, or translation
around the services (see 7).

### 1.3 How they interact

`work_control.py` wraps `contract_control.py`, which wraps `integrity.py`, which
wraps `service.py`, as subclasses: one call of `verify_slice` runs code of three
files. The effect journal calls the work service for turns, events and the view
refresh; closure calls `unresolved_required_effects` of the journal. All of them
share documents, and nothing else: there are no callbacks and no threads within
a call.

## 2. Modules

| module | what it is |
|---|---|
| `EffectLedger` | what PER/1 promises, with atomic operations |
| `EffectJournal` | PER/1 as steps of interleaved sessions, with closure and an outside world |
| `EffectJournalProofs` | proofs about `EffectJournal` |
| `SliceLadder` | what the lifecycle of a Slice promises, with atomic operations |
| `SliceLifecycle` | plans, evidence, gates, validation, verification, closure, acceptance |
| `SliceLifecycleProofs` | types, the binding of a Slice to its plan, assurance and the refinement, proved |
| `GenerationChain` | what a contract promises: one history with one holder |
| `ContractGeneration` | heads, grants, turns and generations, write by write |
| `ContractGenerationProofs` | types, history, marks, refinement and rest of `ContractGeneration`, proved |
| `MaterializedViews` | the refreshes that follow each commit, step by step |
| `MaterializedViewsProofs` | types, growing lists and the repair by a lone call, proved |
| `WorkAdmission` | `enter_work`: admission, turn, plan and start of an entry |
| `WorkSupersession` | `supersede_work` and the resolution of archived work |
| `NormativeBaseline` | specifications, contracts, their semantics and its baselines |
| `WorkDelegation` | runtime profiles, eligibility, delegations |
| `TruthMaintenance` | assertions, retraction, propagation, evaluation at a moment |
| `ScopedAudit` | one audit run, with fairness |
| `ScopedAuditProofs` | its types and its two safety properties, proved |
| `FilesystemInventory` | scans of overlapping roots over a changing disk, freshness |
| `SchemaMigration` | upgrade on read and on migration, beside the operations on a Slice |
| `HostMigration` | the zero-touch migration of the local database |
| `RuntimeGeneration` | the recycling of processes of another version |
| `ClientSetup` | the edits of the clients' configuration |
| `SessionBinding` | workspace, restore decision and gate of a server process |
| `MCWorkGovernance` | admission, supersession, norms and delegation, side by side |
| `GovernanceProofs` | the six properties of these parts, proved |
| `MCRecords` | assertions, inventory and old documents, side by side |
| `RecordsProofs` | the six properties of these parts, proved |
| `MCHostRuntime` | migration, recycling, setup and session, side by side |
| `HostProofs` | the four properties of these parts, proved |
| other `MC...` | instances for TLC: sessions, actors, what each client does |

The three detailed modules with an abstract one `INSTANCE` it with a refinement
mapping (`Ledger`, `Ladder`, `Chain`). Components that interact are composed by
their interfaces rather than by one product: `SliceLifecycle` leaves the answer
of the effect gate open (either answer is possible whenever it is asked), and
`EffectJournal` has the closing call and the real gate; `MaterializedViews` takes
the commits of both, with their guards reduced to those that decide the contents
of a view, and adds what follows them; `SliceLifecycle` lets the baseline drift at
any moment, and `NormativeBaseline` has the changes that make it drift.

`MCWorkGovernance`, `MCRecords` and `MCHostRuntime` each instantiate modules that
share no document. A variable `part`, chosen at the start, says which one a
behaviour exercises, since interleaving parts that cannot see each other adds
states and no behaviour; a property of a part holds trivially in the others.

### 2.1 Correspondence with the code

- A **session** is one client with one call in progress. `call[s]` holds what
  the Python call keeps in local variables between its steps.
- A **step** is one store operation, or several that nothing can tell from one:
  reads of documents in which a guard that held keeps holding, and a read that
  the compare-and-set of the same document confirms.
- A **conflict** (`RevisionConflictError`) ends a call, except in the loops of
  `_project_family`, `register_contract` and `_materialize_plan_slices`, which
  try three times and then go on silently.
- A **death** (`Crash`, `Abort`, `Die`) drops a call between two steps and leaves
  the documents as they are.
- A **revision** is a counter in `EffectJournal` and `ContractGeneration`. In
  `SliceLifecycle` and `MaterializedViews` only equality matters, and a set of
  those who have read the current revision (`fresh`) replaces the counter; it
  keeps the state space finite without a bound.
- Times are left out except the end of a grant (`late`), which may come at any
  moment. Hashes are the texts they are made of.

**EffectJournal.** `record_intent` is `BeginIntent` (turn, Slice open) and
`InsertIntent` (insert, or the existing document, compared as
`SameLogicalEffect`). The other operations are a `Begin...`, which reads and
checks, and `Commit` or `Conflict`. `BeginClose` reads the unresolved effects
and `Close` writes the Slice. `fate` is the outside world: a dispatched attempt
is executed or lost at any later time; reports come from observers that are
`Honest`. `accepted` and `sealed` are history variables.

**SliceLifecycle.** One Slice with its plans, gates and evidence. `verify_slice`
is `BeginVerify` (validation is checked), `Recheck` (the Slice is read again,
gates and proof are checked), `Verify` (the write) and `DecideClosure` (its
tail). `start_slice` is `BeginStart`, `Start` and `Activate`, the last being the
update of the plan. `Drift` changes the normative baseline under open plans.

**ContractGeneration.** One contract, with one action for each write of
`bind_turn`, `promote_contract_generation` and
`release_contract_generation_grant`. The checks of turn and grant in a promotion
are one step (`BeginPromote`): both are read before anything is written and every
later write is decided on the head alone. A promotion starts only when the call
that bound the turn has ended, since its caller learns the grant's id from the
answer (`Answered`).

**MaterializedViews.** Each operation is a commit followed by a list of refresh
steps (`SubmitPlan`, `VerifySlice`, ... are these lists, in the order of the
code). The contents of views are reduced to execution, assurance, pending work,
warnings, open effects, open plans and the number of events.

**WorkAdmission.** `entering[s]` is the call of `enter_work`: `Begin` normalises
the prompt or takes the reference, `CheckCandidate` asks for existing work,
`AdmitWork` is the `get_or_create` of the identity, `FindBaseline` and
`InsertBaseline` are the find and the insert of `_refresh_normative_baseline`,
`BindTurn`, `RecordPlan`, `Materialize`, `CheckSlice`, `BindSlice` and
`ActivatePlan` follow the code, and `Collided` with `CancelPlan` is the path of the
caller that was late. `Finish` and `SendBack` stand for the life of the Slice
afterwards.

**WorkSupersession.** `Begin` answers a replay or binds the MODIFY turn, `Check`
reads the edges (`Allowed`), `Insert` inserts one, `AppendSuperseded` and
`AppendSupersedes` write the history of the two works. After the turn, the edge and the
first event `_refresh_work_view` is called, whose compare-and-set is not tried again:
`Refused` ends the call there. The views have other writers than supersessions, so a
refusal is possible at any of these points. `Reached` is a recursive function over the
works, `Hops` edges deep. `CandidateIsCanonical` says that what a prompt is led to is not
itself superseded as long as there are no more edges than `Hops`; a longer chain of the code
ends half way.

**NormativeBaseline.** A baseline is its semantics: the specification in force and
its revision, the contracts in effect and their generations (`Semantics`).
`create_spec` is `BeginSpec`, `RetireSpec`, `InsertSpec`, `PointFamily`; every
change but a promotion is followed by `Refresh` and `Materialize`.

**WorkDelegation.** `authorize_delegation` is `Begin` (a replay returns the open
delegation), `CheckEligibility`, `CountOpen`, `Insert`; the profile may be
published again between any two of them.

**TruthMaintenance.** `record_assertion` is `BeginRecord`, `CloseSuperseded`,
`InsertAssertion`, `EvaluateNew`, `StoreEvaluation` and the propagation;
`invalidate` is `BeginInvalidate`, `CloseRetracted` and the propagation
(`FindDependents`, `MarkDependent`, `NextLevel`, `EndPropagation`). `Evaluate` is a
recursive function over the rows; a row names only earlier ones, because an
assertion is refused that names one which is not stored. It reads its rows in one
step, the memoised walk of the code reads them one after the other.

**ScopedAudit.** `record_finding` is `InspectFrontier` or `InspectAgain` (the run
is read), `InsertFinding`, `ReadNeighbours` and `Commit`, the compare-and-set of
the run that `Added` and `Boundary` compute; `close` is `BeginClose` and `Close`.
`HasTurn` is `_work_and_turn`: `start` takes a turn if the family has a WorkIdentity,
and `record_finding` and `close` ask for the turn of the run as soon as it has one
(`Admit`). The model takes a turn that was good at the start for one that stays so.

**FilesystemInventory.** `BeginRoot` reads the rows of the root, `Walk` lists the
directories, `TakeFile` hashes and stores one candidate, `MarkMissing` one row that
was not seen, `EndRoot` stores the document of the root. `missed` is a history of
what a running scan could not see.

**SchemaMigration.** `Read` and `Write` are an operation of a service, `Scan` and
`Persist` a document of `migrate_schema`. `Update` is that of MongoDB, which adds the
patch to the document as it is stored, or that of the memory store, which stores the
upgraded document. `LookUp` is `_work_for_slice` and the first of the two reads that
`verify_slice` and `accept_slice` make of the Slice; without a WorkIdentity (`Admit` may
come at any time) nothing is decided on it. `Finish` is the rest of `verify_slice`, which
closes the Slice or leaves it open. `closer` is the pair closed_at, closed_by, by the
operation that they name. `eager` is a history variable: the document as it would be,
had it been upgraded before the first operation.

**HostMigration.** A process is `Begin`, `Probe`, `ReadConfig`, `Backup`, `Replace`,
`Restart`, then `Restore` and `RestartOriginal` or `Verify`, `RemoveUri`,
`RemoveOthers` and `FinalProbe`. `Endpoint` is `_legacy_candidate_loopback_uri`: the
environment, or the mongodb-uri file, or, if that is missing, empty or unreadable, the
local endpoint. A configuration is the class that `_rewrite_mongod_config` gives its
security section.

**RuntimeGeneration.** `Snapshot`, `Terminate`, `EndWait`, `Kill`, `Report`, beside
processes that start (`Spawn`) and end (`Exit`).

**ClientSetup.** One edit is `Read`, `Backup`, `CopyBackup`, `OpenTemporary`,
`WriteTemporary`, `Rename`; `Edits` is their order for each scope. A backup that is being
copied is torn, and stays so if the setup dies or the disk is full.

**SessionBinding.** `Look` binds the workspace, `Restore` makes a decision
(`Resolved` is `_canonical_workspace_resolution`), `Productive`, `EnterWork` and
`Import` pass `AtGate`.

### 2.2 Plan

All components with state, order or concurrency of their own have a module, and
every safety property of a passing run has a theorem. What remains, in this order:

1. Proofs: an atomic specification of what `ScopedAudit` and `WorkAdmission` promise,
   with the refinement, as for the three components that have one.
2. The other orders of admission (`begin_work`, `prepare_assignment`, backfill) in
   `WorkAdmission`.
3. An atomic specification of `TruthMaintenance` and the refinement, if the walk is
   split into its reads.

## 3. Runs

Passing runs check every property that holds under the stated assumptions;
violation runs show a statement of the documentation or of a comment that the
code does not keep. States are distinct states.

| run | states | what it shows |
|---|---|---|
| `effects` | 985 603 | at most one execution of an effect, true settlement, one effect per key, durable closure, nothing stranded, refinement of `EffectLedger` |
| `slice_lifecycle` | 556 666 | assurance rests on validation, an accepted Slice is a closed one, bound plans are open, only the bound worker executes |
| `slice_gates` | 918 574 | VERIFIED needs independently observed proof for every gate that is not waived; refinement of `SliceLadder` |
| `views` | 1 838 500 | lists of the family never lose an entry; an operation that runs alone repairs every view, whatever was left there |
| `generations` | 956 252 | one linear history, each generation built by the grant issued for it, true marks, no dead holder at rest, immutability, refinement of `GenerationChain` |
| `work` | 782 255 | one execution target for a prompt, complete admissions, canonical work, advancing specifications with a baseline, bounded overrun of delegations |
| `records` | 1 533 586 | retraction reaches what rests on it, support rests on evidence, answers about the past stand, nothing unseen is missing, the index answers for the disk, the time of a migration shows in two cases only |
| `audit` | 1 249 792 | the scope keeps its budgets, a fixpoint is complete, an audit that is continued is closed unless its family is admitted late |
| `host` | 2 330 630 | a migration destroys nothing that recovery needs, signals are aimed, no configuration is lost, nothing is guessed |
| `effects_closure_race` | violation | a Slice is CLOSED with an unresolved required effect |
| `slice_validation_race` | violation | REWORK_REQUIRED is overwritten by VERIFIED |
| `slice_drift` | violation | a Slice in execution cannot be bound to a plan under the new baseline |

### 3.1 Instances and why they are large enough

- `effects`: two workers and a verifier on one key, two payloads, two attempts,
  deaths everywhere. A race on a document needs two sessions and a judge needs a
  third; the second attempt is the one that at-most-once is about. Each effect
  is a document of its own and calls on different keys share only the Slice, so
  a second key adds no interaction before closure; `effects_closure_race` has
  two. `MaxRevision` (6) exceeds the writes that two attempts need. The workers
  are symmetric: no constant and no property tells them apart.
- `slice_lifecycle`: two workers with a plan each (one of them an audit plan), a
  reviewer who may also execute, half-way endings of two sessions. Two plans are
  what a race for a Slice needs.
- `slice_gates`: one gate, one evidence document, an imported or a planned Slice,
  drift, overrides. One evidence document is enough for a stale, foreign or
  replaced proof, because the gates hold references to documents.
- `views`: a client with five calls, which is a whole life of a Slice
  (start, claim, validate, verify, accept), and a second one with one call
  between any two steps of it, which may die. Two contracts with one declared
  identifier collide.
- `generations`: two sessions of one actor (each may use the other's grant, a
  superset of what two actors can do), two turns, two texts, three generations
  (a loser and a second success), one session that may die, one grant that may
  expire.
- `work`, two sessions in each part. Admission: four entries (`MaxEnters`) of one
  prompt, so that a session can die in an entry, two can race and a fourth can
  continue. Supersession: five works in two projects, three edges, two hops, which is
  the smallest bound on resolution that leaves room for a step in the middle and that
  a chain of three edges exceeds (the code follows eight). Norms: two contracts, four
  changes, which is two calls of `create_spec` crossing with two others. Delegation: limits
  of one and two, three requests for two tasks, the profile published twice.
- `records`. Truth: two sessions, an observation and a conclusion that are stored
  already and one more row (`MaxRows` 3), three calls, two moments of each time axis:
  a chain of support, a contradiction and a correction that overtakes a propagation.
  Nothing is retracted in the rows that are stored already, so that every retraction
  is one of the run.
  Files: two scanners, a repository and a directory of it that is a root as well, two
  files, one change of the disk while three scans run. Schema: a Slice of each older
  schema, in each state it could have, in a family that is admitted, is admitted
  meanwhile or is not, two operations and one migration at a time, four writes
  (`MaxWrites`), which is claim, judgement, verification and closure.
- `audit`: two sessions of the auditor, five objects (one of another family, one free
  reference), a depth of one and room for two objects, so that both budgets bite; one
  repeated finding, one death; a family that is admitted before the start, after it or
  never.
- `host`: two processes that migrate with three starts and one tick of the clock, with a
  binding file that is missing, empty, local or remote and may be unreadable, two repairs of
  different versions over two process numbers with two births, two setups, which may follow
  each other or overlap, and one client with three nested workspaces, two imported projects,
  two families.

The passing runs of `SliceLifecycle` have one reviewing session, and one session
for each actor. That is an assumption, and the properties need it:
`slice_validation_race` drops it. `EffectJournal` assumes in `effects` that
reports are about the latest attempt (`StaleReports = FALSE`); finding 4 is what
happens without it. Properties that hold only while calls do not overlap say so with
a history variable (`raced`, `met`, `crossing`, `outstanding`), and those that hold
unless a call ends at one place remember it (`cut`, `casualty`, `unread`, `bypassed`): the
findings below are what happens when they do.

Deadlock is checked where a client can always begin another call
(`slice_lifecycle`, `slice_gates`); the other runs bound the calls, attempts or
turns, and their systems stop when the bound is used up. Symmetry is used for
sessions that no constant tells apart, and in no run with a liveness property.

### 3.2 Fairness

MangoMe schedules nothing: every step is taken because a client calls, and no
client has to. Only `ScopedAudit` states fairness, because the protocol of an audit
names who goes on: `status` hands out the next frontier, and an auditor that follows
it inspects it (`WF` of `InspectFrontier`), starts (`WF` of `Start`) and closes
(`WF` of `BeginClose`); a call that did not die returns (`WF` of `Step`, one
session at a time). Nobody is assumed to confirm relations, repeat findings or die,
and `AuditCloses` holds whatever they do: of two conflicting findings one is
committed, and the budgets bound the widening. The guards of these actions have the
code's check of the work turn (`HasTurn`), so nothing is fair about an audit that is
stranded; the property allows for it and says that such a run moves no more (finding 23).
Weak fairness is enough, as a session whose call has lost may begin it again.

Elsewhere "eventually closed" would be a property of the clients. What the code
can promise instead is that nothing becomes impossible, and that is checked as
invariants: `Recoverable` (each effect can be dispatched, observed, or is settled),
`NewPlanCanBind`, `SettledAtRest` (no dead grant keeps the head when all calls are
over). The bootstrap of the runtime does not retry by itself: a blocked result is
cached, and the next process begins again.

## 4. Findings

With a run:

1. *Closure beside a new effect* (`effect_control.py:124`). `record_intent`
   checks that the Slice is open and then inserts, closure reads the effects and
   then writes the Slice; neither write meets the other's.
2. *Validation is read twice* (`work_control.py:1252`). The wrapper checks
   VALIDATED on its own read; the inherited method reads again and does not.
3. *Drift strands a Slice* (`service.py:1037`). The plan that holds the Slice
   may not act and no other may bind.

Met while modelling, explained here and without a run of their own. Where a
property above is conditional, its condition excludes one of these.

Effects, Slices and views:

4. *Reports name no attempt* (`effect_control.py:289`): a late report about attempt 1
   makes attempt 2 eligible for another dispatch, while
   `docs/effect-reconciliation.md:53` says "Redispatch becomes eligible only after
   observation establishes known non-execution".
5. *The effect journal never projects the family* (`work_control.py:1457`), so
   `status()` misses an open effect, with one client and no failure.
6. *The Work view is built before its row is found* (`work_control.py:1413`), so
   the compare-and-set accepts an older build, which loses an open effect
   (`docs/effect-reconciliation.md:111`).
7. The tail of `verify_slice(close_slice=False)` reads the Slice again and
   resets a closure that another verifier has written since
   (`work_control.py:1288`).
8. `close_plan` looks for bound Slices and then writes the plan, `start_slice`
   binds the Slice and then writes the plan (`service.py:1233`, `1075`).
   `BoundPlanIsOpen` fails when two calls of one actor overlap so; the theorem
   `BoundPlanOpen` says that it fails in no other way.
9. `close_plan` refreshes no view (`service.py:1236`): the plan stays listed as
   active until the next operation that refreshes.
10. `_project_family` takes a new revision on each attempt but writes the
    warnings of its first read (`service.py:2023`), and may erase a collision
    warning written in between.
11. `start_slice` after rework keeps the gate decisions and evidence of the
    rejected attempt.

Work:

12. Two calls of `supersede_work` that check before either inserts make a fork or a
    cycle (`work_control.py:1065`); with a fork the candidate of a prompt depends on
    the order of the edges.
13. `supersede_work` ends between the edge and the events when it dies, and also when
    `_refresh_work_view` loses its compare-and-set to any other operation on either work
    (`work_control.py:1086`, `1109`, `1416`). The history of one or both works is then
    without the edge for ever: a replay answers ALREADY_SUPERSEDED (`work_control.py:223`).
14. `enter_work` with the reference of work that was archived continues it; only
    prompts are led to the canonical work.
15. Of two sessions that insert the same baseline the loser raises, instead of
    taking the row that is there (`work_control.py:378`).
16. A session that dies after it materialised the Slice of an entry leaves an INTENT
    Slice without an active plan; entering the prompt again continues by AUTO ids
    beside it. Entering a prompt again whose Slice claims DONE raises
    InvalidTransition and leaves its plan RECORDED.
17. `create_spec` that loses the compare-and-set of the family leaves the earlier
    version retired and a new one that nobody points at (`service.py:259`); two
    concurrent calls may give one version twice.
18. A promotion does not refresh the baseline (`contract_control.py:413`): plans are
    refused with CURRENT_NORMATIVE_BASELINE_NOT_MATERIALIZED until something else does.
19. `authorize_delegation` may exceed `max_parallel_tasks` (`service.py:1447`);
    `OverrunIsBounded` says by how much. `complete_delegation` rewrites a terminal
    status.

Records:

20. RETRACTED is checked without the time it became known (`truth.py:249`), so a
    retraction changes what `truth_at` answers about earlier moments, while
    `docs/bitemporal-truth-maintenance.md:21` says "Historical queries can still
    reconstruct the earlier state."; `HistoryMovesForward` excludes retractions.
21. A conflict or a death in the propagation (`truth.py:392`) leaves conclusions
    SUPPORTED until somebody invalidates again.
22. A finding whose commit loses stays stored (`audit.py:481`), and the frontier never
    follows what it reported.
23. An audit that was started before its family was admitted has no work turn
    (`audit.py:330`). After the admission `record_finding` and `close` raise
    WORK_TURN_REQUIRED (`audit.py:459`, `678`), and nothing gives the run a turn: it stays
    ACTIVE and can be neither widened nor closed.
24. Roots that overlap give a row to the one that scanned last, and a directory that
    cannot be listed looks like an empty one, so that its files become missing.
25. A conflict in `migrate_schema` raises and leaves all later documents unmigrated
    (`maintenance.py:60`); the next run goes on.
26. The upgrade to schema 6 derives closed_at and closed_by from the acceptance or else
    from the verification (`schema.py:109`), and `accept_slice` writes only the acceptance
    (`integrity.py:667`). A Slice that was VERIFIED under an earlier schema is closed by its
    verifier if it was migrated before it is accepted, and by its accepter if not.
27. `verify_slice` in a family without a WorkIdentity asks for no validation and writes
    neither judgement nor closure (`work_control.py:247`, in `verify_slice` `1248`). If the
    Slice is not migrated yet, it then reads as VALIDATED and CLOSED; if it is, or was
    created under the current schema, as PENDING and OPEN. In the second case an admission
    of the family strands it, VERIFIED: it cannot be judged (`work_control.py:1143`), closed
    or accepted (both need the judgement or the closure), nor started again.

Host:

28. Backups of one second have one name (`zero_touch.py:474`), and the second
    overwrites the first.
29. Beside another migration a process may restore a configuration that enforces
    authorization after the other removed the credentials; and a failed
    verification leaves the rewritten configuration in place (`zero_touch.py:505`).
    The restore copies in place, so that a death tears the file.
30. A local endpoint in the environment hides a remote binding file and lets a
    migration delete it. So does a binding file that cannot be read: the error is passed
    over (`zero_touch.py:94`), the local default takes its place (`zero_touch.py:97`), and
    on a host whose mongod admits clients the cleanup removes the file (`zero_touch.py:125`).
31. SIGKILL goes to numbers that may have been given to other processes
    (`runtime_generation.py:195`).
32. Two setups share one temporary file (`operability.py:332`), and a client that
    saves between the reading and the renaming of an edit loses what it saved.
33. `_backup_once` copies to the final name (`operability.py:328`). A setup that dies in the
    copy, or meets a full disk, leaves an incomplete `.mangome.bak`; every later setup finds
    that it exists (`operability.py:326`), takes it for the backup and removes the old
    entries, which are then nowhere.
34. The decision that the gate asks may be older than another session's work
    (`mcp_server.py:160`); it was right when it was made, and that is what
    `NothingIsGuessed` says.

## 5. Proofs

All theorems hold for every value of the constants that the named assumptions allow:
any number of sessions, effects, turns, texts, plans, works, rows or paths, and any
bound. A theorem that needs more says so in its statement (`OneVerifier`,
`StaleReports = FALSE`), and a violation run or a finding shows what
happens without it. Nearly every property needs an inductive invariant that is
stronger, and nearly always for one reason: a call writes what it decided on an
earlier read, so the invariant has to say what a waiting call knows.

**`EffectJournalProofs`.**

- `TypeCorrect`.
- `KeyNamesOneEffectHolds`, `ClosureStaysJustifiedHolds`, `RecoverableHolds`
  from the inductive invariant `Inv`. `Snapshots` adds that a call that
  waits to commit either has a stale revision, and then cannot write, or has the
  current document and decided on it (`SnapshotOK`); `DocumentsOK` ties
  outcome, satisfied and attempt to the state; `AcceptedIsPresent` says that
  nothing was accepted for a key without a document. The argument goes through
  one lemma: every step changes the journal by one of six document steps
  (`EveryStepIsADocumentStep`), so that facts about documents are shown six
  times and not for each action.
- `JournalImplementsLedger`: initial states map to initial states
  and each document step maps to one ledger operation or a stutter, with `Inv`
  as the invariant that makes the mapped guards true.
- `AtMostOnceHolds`, `SettledMeansDoneHolds`: if reports are about the latest
  attempt (`StaleReports = FALSE`), from `WorldInv`, which relates each document
  to the fate of its attempts: earlier attempts are dead, later ones unsent, and
  what the document says of the latest one is true.

**`SliceLifecycleProofs`.**

- `TypeCorrect`, from `CallsTyped`: a call that is to write a plan or to bind the
  Slice names a plan.
- `BoundWorker` (`OnlyTheBoundWorker`) from `BindingInv`: a call acts for the actor of
  the plan that it named (`CallsOwned`, which needs `PlansOwned`: a plan that is absent
  has no actor), and as long as its copy of the Slice has the current revision, the
  Slice is not bound to another plan (`CopiesBound`). The operations on evidence,
  gates, approvals and assurance are shown once to touch neither plans, bindings nor
  the calls that name plans (`Quiet`).
- `BoundPlanOpen` (`BoundPlanIsOpen`, of `WatchedSpec`): without any assumption, the plan
  of a bound Slice is open or one of those for which a `close_plan` and a `start_slice` of
  one actor have overlapped, which a history variable `crossed` beside the specification
  remembers. From `OpenInv`: unless its plan is one of these, a call that is going to bind a
  Slice has an open plan (`StartsOpen`), and one that is going to close a plan has an
  unbound one (`ClosesUnbound`); two calls that named one plan are calls of one actor
  (`SamePlan`), and while both are under way they are `Crossing`. The overlap itself breaks
  the property (finding 8), so this is as far as the code's promise goes.
- `AssuranceRests` and `AcceptedClosed`, if one session verifies and no other one
  judges (`OneVerifier`; without it `slice_validation_race` refutes the first), from
  `AssuranceInv`: only a Slice that claims DONE, and is bound to no plan, is validated
  (`SliceOK`), and what a call has found still holds when it writes (`CallOK`): a
  verification that is under way finds the judgement VALIDATED, the tail of
  `verify_slice` finds its own verification, an acceptance finds the closure.
- `VerifiedProven` (`VerifiedOnProof`), without that assumption: observations and
  approvals are never taken back (`Lasting`), so what a call found of them holds, and
  the compare-and-set sees to the gates (`GroundsInv`).
- `LadderImplemented`, under `OneVerifier`: who writes which rung (`Climbs`) is a step
  of `SliceLadder`, and whoever leaves the rungs alone stutters.

**`ContractGenerationProofs`.**

- `TypeCorrect`, from `CallsTyped`: what the steps of a call leave in it (a promoting
  call has a text, a marking call names an existing generation) is what makes the later
  writes well typed.
- `HistoryIsLinear`, `GrantsAreUsedOnce`, `MarksAgree` from the inductive
  invariant `Inv`. The head's revision carries the
  argument: a session whose copy of the head has the current revision holds the
  current head (`SnapshotOK`), so the conditions under which it prepared its
  generation (`PromotionOK`) still hold when its compare-and-set succeeds; and
  the turn that the head names has its grant for the head's generation and has
  not used it (`HolderOK`), because a grant that is being installed has no right
  yet (`BindingOK`) and no two calls bind one turn or own one generation
  (`RivalsOK`). Each action is shown to leave the other calls alone
  (`Untouched`), so that only the documents and the acting call need a proof.
- `GenerationsAreImmutable`, an action property, from the types.
- `DocumentsImplementChain`: the compare-and-sets of the head are the steps of
  `GenerationChain` (`OwnHead` grants, `ClearHead` and `FreeHead` drop,
  `AdvanceHead` promotes); every other step, the insertion and the marks of a
  generation included, is a stutter.
- `ContractSettles` (`SettledAtRest`) from `Rest`, which says who is about to repair
  what: the generation of the head is marked, or somebody is about to mark it or died
  (`LastMarked`); the grant of the holder is active, or somebody is about to take the
  head from it or died (`HolderActive`). The difficulty is that whoever ends a grant
  writes the head afterwards by compare-and-set, and must not lose that race. It does
  not, because a turn that is being bound is known to its own call only (`Apart`), so
  that a turn holds the head once, and a call that knows the holder knows the revision
  (`Once`).

**`MaterializedViewsProofs`.** A call is the script of steps that it has still to do.

- `TypeCorrect`.
- `ListsGrowHolds` (`ListsGrow`): a list that can still be written holds all that is
  in the one that it replaces (`ListOK`).
- `LoneCallProjectsHolds`, `LoneCallRefreshesHolds` from `Inv`. A script is proper if
  its steps follow one another in the order of the code (`Follows`, `Ends`), which is
  shown once for the script of each operation (`Scripts`: each owes a summary of the
  family, or a build of the Work view, when it begins); the next step then tells what
  the call has read (`Held`) and, if it runs alone, how much of what it has read is
  current and how much of what it has written is (`ProjectOK`, `RefreshOK`). The views
  that were there before are arbitrary, so this is repair and not only preservation.

**`ScopedAuditProofs`.** `TypeCorrect`, `ScopeStaysInBudget`, `FixpointsAreComplete`
from `IInv`: the cardinality of the scope is bounded through the room that
`Added` may fill (`BudgetKept`), the findings that are being recorded are about objects
of the scope (`FindingsInScope`), the frontier gives an object up only for a stored
finding (`InspectedHasFinding`), what a committed finding concerned is in scope unless a
budget was met (`NothingDropped`), and nobody who has read an active run can write a
closed one (`ClosedStays`).

**`GovernanceProofs`.** The parts share no document, so `GovernanceInv` is the
conjunction of four invariants.

- Admission, `PlansFollowWork` and the action property `OneTargetIsActive`: the number of
  a call is its own (`Calls`, `Fresh`), what was answered is stored (`Answered`), and a
  Slice is bound to the plan of a call that has ended or has just bound it (`Bound`).
- Supersession, `SupersessionIsCanonical`: as long as no calls overlapped there is no fork
  and the edges lead down a ranking no higher than they are many (`NoFork`, `Ranked`), so
  that a chain ends within as many hops as there are edges; that `Reached` finds its end
  is an induction over the hops. `Told` says who is about to write the history of an edge,
  or that a call was cut short between the edge and its events.
- Norms, `NormsSettle` and the action property `VersionsOnlyAdvance`: what a call of
  `create_spec` has read is at most what is there, and its version is above that of the
  specification that it replaces if its compare-and-set is going to succeed
  (`Versioned`); a version that is no longer effective is being replaced (`Retired`); the
  semantics in force has its baseline or somebody is going to look for it (`Baselined`).
- Delegation, `OverrunHasABound`: a call that is about to insert counts as a delegation
  already (`Counted`), which is the form in which the bound is inductive; `Justified` is
  the same for approvals.

**`RecordsProofs`.**

- Truth, `SupportRests`, `RetractionsReach` and the action property `HistoryIsKept`. The
  rows refer to earlier rows (`RowsOK`), so that what `Evaluate` computes is settled row
  by row. The propagation is the hard part: of a walk that is under way there is a number
  of rows such that it will find what it concerns among these (`CaughtUpTo`), and whatever
  was inserted later is evaluated after the retraction (`QuietFrom`); when it ends, all
  that rests on a retracted row is quiet (`RetractedIsQuiet`).
- Files, `IndexAnswers` and the action property `MarkedWereMissing`: what a scan has not
  come across could not be seen at some moment of it (`ScanOK`); a scan beside which
  nothing happened knows what is stored and has left what is on the disk (`LoneOK`), which
  makes an exact root exact (`ExactTells`).
- Schema, `MigrationShowsInTwoCases` from `SchemaInv`. The stored document, upgraded, and
  the one that was upgraded first are `Related`: the same but for their revisions, or in
  one of the two cases (`Late`, `Unjudged`). Every patch of an operation keeps them so
  (`OperationRelates`), because in the two cases few operations are left that may be made,
  and what a call or a migration has read is what is stored as long as the revision is the
  same (`ReadOK`, `ScannedOK`).

**`HostProofs`.** `HostInv` has one invariant for each part.

- `MigrationRecovers` from `MigrationInv`: what the operator wrote is the configuration or
  in a backup, and whoever replaces it has one (`OperatorKept`); credentials are removed
  after an open configuration is served, if processes do not meet (`RemovedOpened`,
  `CleansOpened`); nobody migrates what a binding file that he could read says is remote
  (`RemoteUntouched`).
- `RepairsAreAimed` from `GenerationInv`: behind each number that a repair has found is
  nothing, a stale process, or one that came later.
- `SetupsRecover` from `SetupInv`: as long as setups do not cross, each file is whole and
  has the operator's entries, and its backup has the rest unless it is torn (`FileOK`);
  what an edit holds is enough to write, and a backup is being copied only from a file that
  still has all (`ActiveOK`).
- `NothingGuessed` from `SessionInv`: a decision that found a state meant one project.

The type invariants of the first four modules above and of `ScopedAudit` are
proved and no run checks them; those of the parts are conjuncts of the invariants of
`GovernanceProofs`, `RecordsProofs` and `HostProofs`.

### 5.1 Model-checked only

`AuditCloses`. The violation runs are counterexamples and need no proof. The inductive
invariants of the proofs are in no run: a theorem says more than a run of them would.

### 5.2 Out of the prover's reach

Liveness (`AuditCloses`) and ENABLED. Induction is out of reach as a theorem that takes a
predicate; where it is needed it is done by the least counterexample (`LeastNumber`,
`Least`, from the library's theorem that strict subsets are well founded), which is how
the facts about the recursive functions `Evaluate`, `Reached` and `Basis` are proved.
There are no modules with RECURSIVE operators.

## 6. Mutants

Each property of a passing run has a mutant of a mapped definition (an operator
`Mut...` beside it) that it refutes: a dropped compare-and-set, a guard that is
too weak, a refresh in the wrong order, a missing reset. Mutants are in the
modules because they have the parameters of the definitions they replace; they
are no part of the specifications.

## 7. Not modelled, and why

- Context compilation, interlingua, human status, semantic surface: read-only
  transformations into text.
- Structural intelligence: heuristic analysis of source text.
- Fast judgment, hygiene: scores by fixed rules; rows that no guard reads.
- Authority and trust boundary: checks of the environment without state; an
  action stands for a call that has passed them.
- Import and reconciliation: classification of text; what they write goes
  through operations that are modelled.
- Worker server, fail-soft wrapper, CLI, installation: translation of arguments, one
  operation of the services for each tool or command, and I/O.
- `database_admin.py`: roles and users of the database, by hand.

Within the modelled parts: HAS_EFFECT and other edges that no guard reads, storage
bindings, the texts and times of documents, delegation of turns, the entry paths of
`begin_work`, `prepare_assignment` and backfill, `diagnose`, the fields that an upgrade
adds with a default or derives from fields that nothing writes later (closed_at and
closed_by are not among them, and are modelled), and the live check of reproduction bindings
inside `verify_slice` (it can only refuse a verification).
