------------------------------ MODULE HostProofs ------------------------------
(***************************************************************************)
(* Proofs about the four parts of MCHostRuntime, for any number of         *)
(* processes, repairs, setups and workspaces.  No step of one part changes *)
(* what another part is about, so each part has an inductive invariant of  *)
(* its own, which holds in the behaviours that exercise the part.          *)
(***************************************************************************)
EXTENDS MCHostRuntime, Sequences, FiniteSetTheorems, TLAPS

LEMMA NextPart == Next => part' = part
BY DEF Next

-----------------------------------------------------------------------------
(* RuntimeGeneration: repairs. *)

Process == [kind : Generation!Kinds, birth : Nat, ours : BOOLEAN, stubborn : BOOLEAN]
Repairing == [pc : {"term", "kill"}, since : Nat, todo : SUBSET Pids, found : SUBSET Pids,
              terminated : SUBSET Pids]

GenerationType ==
    /\ procs \in [Pids -> {Generation!Gone} \cup Process]
    /\ repairing \in [Repairs -> {Generation!Idle} \cup Repairing]
    /\ births \in Nat

Later(r, p) == procs[p].birth > repairing[r].since

\* What is behind a number that a repair has found: nothing, or a stale process, or one
\* that came later.
Found(r, p) == procs[p] = Generation!Gone \/ Later(r, p) \/ Generation!Stale(r, p)

\* The repair is done with the number.
Spared(r, p) == procs[p] = Generation!Gone \/ Later(r, p) \/ ~procs[p].ours

RepairOK(r) ==
    /\ repairing[r].since <= births
    /\ repairing[r].todo \cup repairing[r].terminated \subseteq repairing[r].found
    /\ \A p \in repairing[r].found : Found(r, p)
    /\ \A p \in repairing[r].found \ repairing[r].todo :
          Spared(r, p) \/ (repairing[r].pc = "term" /\ p \in repairing[r].terminated)

Repairs0 == \A r \in Repairs : repairing[r] # Generation!Idle => RepairOK(r)

GenerationInv == GenerationType /\ Repairs0 /\ Generation!RepairIsAimed

LEMMA GenerationInit == Generation!Init => GenerationInv
<1> SUFFICES ASSUME Generation!Init PROVE GenerationInv
  OBVIOUS
<1>1. Generation!Processes(0) \subseteq Process
  BY DEF Generation!Processes, Process
<1> QED
  BY <1>1 DEF Generation!Init, GenerationInv, GenerationType, Repairs0, Generation!RepairIsAimed

\* A step that replaces the process behind p by nothing, or nothing by a later process, and
\* leaves the repairs alone, keeps what they have found.
LEMMA ProcessReplaced ==
  ASSUME GenerationInv, NEW p \in Pids, NEW new \in {Generation!Gone} \cup Process,
         new = Generation!Gone \/ (procs[p] = Generation!Gone /\ new.birth = births'),
         births' \in Nat, births' >= births, new = Generation!Gone \/ births' > births,
         procs' = [procs EXCEPT ![p] = new],
         NEW r \in Repairs, repairing'[r] = repairing[r], repairing[r] # Generation!Idle
  PROVE  RepairOK(r)'
<1>1. RepairOK(r)
  BY DEF GenerationInv, Repairs0
<1>2. repairing[r] \in Repairing
  BY DEF GenerationInv, GenerationType
<1>3. procs'[p] = new /\ \A q \in Pids \ {p} : procs'[q] = procs[q]
  BY DEF GenerationInv, GenerationType
<1>4. new = Generation!Gone \/ Later(r, p)'
  BY <1>1, <1>2, <1>3 DEF Later, RepairOK, Repairing, GenerationInv, GenerationType
<1>5. ASSUME NEW q \in repairing[r].found
      PROVE  Found(r, q)' /\ (Spared(r, q) => Spared(r, q)')
  <2>1. CASE q = p
    BY <1>3, <1>4, <2>1 DEF Found, Spared
  <2>2. CASE q # p
    <3>1. q \in Pids /\ procs'[q] = procs[q]
      BY <1>2, <1>3, <2>2 DEF Repairing
    <3>2. Found(r, q)
      BY <1>1 DEF RepairOK
    <3> QED
      BY <3>1, <3>2 DEF Found, Spared, Later, Generation!Stale
  <2> QED
    BY <2>1, <2>2
<1>6. repairing[r].since <= births'
  BY <1>1, <1>2 DEF RepairOK, Repairing, GenerationInv, GenerationType
<1> QED
  BY <1>1, <1>5, <1>6 DEF RepairOK


\* A step of a repair that it takes alone and leaves the processes alone.
LEMMA OtherRepairs ==
  ASSUME GenerationInv, NEW r \in Repairs, NEW d \in {Generation!Idle} \cup Repairing,
         repairing' = [repairing EXCEPT ![r] = d],
         procs' = procs, births' = births, Generation!RepairIsAimed',
         d # Generation!Idle => RepairOK(r)'
  PROVE  GenerationInv'
<1>1. repairing'[r] = d /\ \A q \in Repairs \ {r} : repairing'[q] = repairing[q]
  BY DEF GenerationInv, GenerationType
<1>2. GenerationType'
  BY DEF GenerationInv, GenerationType
<1>3. ASSUME NEW q \in Repairs, repairing'[q] # Generation!Idle
      PROVE  RepairOK(q)'
  <2>1. CASE q = r
    BY <1>1, <1>3, <2>1
  <2>2. CASE q # r
    <3>1. RepairOK(q) /\ repairing'[q] = repairing[q]
      BY <1>1, <1>3, <2>2 DEF GenerationInv, Repairs0
    <3> QED
      BY <3>1 DEF RepairOK, Found, Spared, Later, Generation!Stale
  <2> QED
    BY <2>1, <2>2
<1> QED
  BY <1>2, <1>3 DEF GenerationInv, Repairs0

LEMMA QuietIsAimed == Generation!Quiet => Generation!RepairIsAimed'
BY DEF Generation!Quiet, Generation!RepairIsAimed

LEMMA SnapshotStep ==
  ASSUME GenerationInv, NEW r \in Repairs, Generation!Snapshot(r)
  PROVE  GenerationInv'
<1> DEFINE stale == {p \in Pids : Generation!Stale(r, p)}
           d == [pc |-> "term", since |-> births, todo |-> stale, found |-> stale, terminated |-> {}]
<1>1. repairing' = [repairing EXCEPT ![r] = d] /\ procs' = procs /\ births' = births /\ Generation!RepairIsAimed'
  BY QuietIsAimed DEF Generation!Snapshot
<1>2. d \in Repairing
  BY DEF Repairing, GenerationInv, GenerationType
<1>3. RepairOK(r)'
  <2>1. repairing'[r] = d
    BY <1>1 DEF GenerationInv, GenerationType
  <2> QED
    BY <1>1, <2>1 DEF RepairOK, Found, Generation!Stale, GenerationInv, GenerationType
<1> HIDE DEF d
<1> QED
  BY <1>1, <1>2, <1>3, OtherRepairs

LEMMA EndWaitStep ==
  ASSUME GenerationInv, NEW r \in Repairs, Generation!EndWait(r)
  PROVE  GenerationInv'
<1>1. PICK c : c = repairing[r]
  OBVIOUS
<1>2. c.pc = "term" /\ c.todo = {} /\ c \in Repairing /\ RepairOK(r)
  BY <1>1 DEF Generation!EndWait, GenerationInv, GenerationType, Repairs0, Generation!Idle
<1>3. PICK d : d = [c EXCEPT !.pc = "kill", !.todo = c.terminated]
  OBVIOUS
<1>4. d \in Repairing /\ d.pc = "kill" /\ d.since = c.since /\ d.todo = c.terminated /\ d.found = c.found
      /\ d.terminated = c.terminated
  BY <1>2, <1>3 DEF Repairing
<1>5. repairing' = [repairing EXCEPT ![r] = d] /\ procs' = procs /\ births' = births /\ Generation!RepairIsAimed'
  BY <1>1, <1>3, QuietIsAimed, Zenon DEF Generation!EndWait
<1>6. RepairOK(r)'
  <2>1. repairing'[r] = d
    BY <1>5 DEF GenerationInv, GenerationType
  <2> QED
    BY <1>1, <1>2, <1>4, <1>5, <2>1 DEF RepairOK, Found, Spared, Later, Generation!Stale
<1> QED
  BY <1>4, <1>5, <1>6, OtherRepairs

LEMMA ReportStep ==
  ASSUME GenerationInv, NEW r \in Repairs, Generation!Report(r)
  PROVE  GenerationInv'
<1>1. repairing[r].pc = "kill" /\ repairing[r].todo = {} /\ repairing[r] \in Repairing /\ RepairOK(r)
  BY DEF Generation!Report, GenerationInv, GenerationType, Repairs0, Generation!Idle
<1>2. repairing' = [repairing EXCEPT ![r] = Generation!Idle] /\ procs' = procs /\ births' = births
  BY DEF Generation!Report
<1>3. \A p \in repairing[r].found : Generation!Exists(p) => Later(r, p) \/ ~procs[p].ours
  BY <1>1 DEF RepairOK, Spared, Generation!Exists
<1>4. ASSUME NEW l \in leftOver'
      PROVE  l.later \/ ~l.ours
  <2>1. PICK p \in {q \in repairing[r].found : Generation!Exists(q) /\ Generation!Stale(r, q)} :
           l = [ours |-> procs[p].ours, later |-> procs[p].birth > repairing[r].since]
    BY DEF Generation!Report
  <2>2. l.ours = procs[p].ours /\ l.later = (procs[p].birth > repairing[r].since)
    BY <2>1, Zenon
  <2>3. Later(r, p) \/ ~procs[p].ours
    BY <1>3
  <2> QED
    BY <2>2, <2>3, Zenon DEF Later
<1>5. Generation!RepairIsAimed'
  BY <1>4 DEF Generation!Report, Generation!RepairIsAimed
<1> QED
  BY <1>2, <1>5, OtherRepairs


\* What a signal reaches, if it is delivered to what is behind a number that was found.
LEMMA HitIsAimed ==
  ASSUME GenerationInv, NEW r \in Repairs, RepairOK(r), NEW p \in repairing[r].found,
         procs[p] # Generation!Gone, Generation!Hit(r, p) \/ hits' = {}, leftOver' = {}
  PROVE  Generation!RepairIsAimed'
<1>1. Later(r, p) \/ procs[p].kind \in Versions \ {Own[r]}
  BY DEF RepairOK, Found, Generation!Stale
<1>2. ASSUME NEW h \in hits'
      PROVE  h.later \/ h.kind \in Versions \ {h.own}
  <2>1. h = [own |-> Own[r], kind |-> procs[p].kind, later |-> procs[p].birth > repairing[r].since]
    BY DEF Generation!Hit
  <2>2. h.own = Own[r] /\ h.kind = procs[p].kind /\ h.later = (procs[p].birth > repairing[r].since)
    BY <2>1, Zenon
  <2> QED
    BY <1>1, <2>2, Zenon DEF Later
<1> QED
  BY <1>2 DEF Generation!RepairIsAimed

\* A signal: the number leaves the list, and its process may end.
LEMMA SignalStep ==
  ASSUME GenerationInv, NEW r \in Repairs, repairing[r] # Generation!Idle, NEW p \in repairing[r].todo,
         NEW d \in Repairing, repairing' = [repairing EXCEPT ![r] = d],
         d.pc = repairing[r].pc, d.since = repairing[r].since, d.todo = repairing[r].todo \ {p},
         d.found = repairing[r].found, repairing[r].terminated \subseteq d.terminated,
         d.terminated \subseteq repairing[r].terminated \cup {p},
         births' = births, Generation!RepairIsAimed',
         procs' = procs \/ procs' = [procs EXCEPT ![p] = Generation!Gone],
         Spared(r, p)' \/ (d.pc = "term" /\ p \in d.terminated)
  PROVE  GenerationInv'
<1>1. repairing[r] \in Repairing /\ RepairOK(r) /\ p \in Pids
  BY DEF GenerationInv, GenerationType, Repairs0, Repairing
<1>2. repairing'[r] = d /\ \A q \in Repairs \ {r} : repairing'[q] = repairing[q]
  BY DEF GenerationInv, GenerationType
<1>3. \A q \in Pids : procs'[q] = procs[q] \/ procs'[q] = Generation!Gone
  BY <1>1 DEF GenerationInv, GenerationType
<1>4. GenerationType'
  BY <1>1 DEF GenerationInv, GenerationType
<1>5. ASSUME NEW q \in Repairs, repairing'[q] # Generation!Idle, NEW x \in repairing[q].found
      PROVE  /\ repairing[q] # Generation!Idle
             /\ repairing'[q].since = repairing[q].since
             /\ Found(q, x)'
             /\ Spared(q, x) => Spared(q, x)'
  <2>1. /\ repairing[q] # Generation!Idle /\ repairing'[q].since = repairing[q].since
        /\ repairing[q] \in Repairing /\ RepairOK(q)
    BY <1>1, <1>2, <1>5 DEF GenerationInv, GenerationType, Repairs0
  <2>2. x \in Pids /\ Found(q, x)
    BY <2>1 DEF Repairing, RepairOK
  <2> QED
    BY <1>3, <2>1, <2>2 DEF Found, Spared, Later, Generation!Stale
<1>6. ASSUME NEW q \in Repairs, repairing'[q] # Generation!Idle
      PROVE  RepairOK(q)'
  <2>1. CASE q = r
    <3>1. /\ d.since <= births' /\ d.todo \cup d.terminated \subseteq d.found
          /\ \A x \in d.found : Found(r, x)'
      BY <1>1, <1>5, <1>6, <2>1 DEF RepairOK, Repairing
    <3>2. ASSUME NEW x \in d.found \ d.todo
          PROVE  Spared(r, x)' \/ (d.pc = "term" /\ x \in d.terminated)
      <4>1. CASE x = p
        BY <4>1
      <4>2. CASE x # p
        <5>1. x \in repairing[r].found \ repairing[r].todo
          BY <4>2
        <5> QED
          BY <1>1, <1>5, <1>6, <2>1, <5>1 DEF RepairOK
      <4> QED
        BY <4>1, <4>2
    <3> QED
      BY <1>2, <2>1, <3>1, <3>2 DEF RepairOK
  <2>2. CASE q # r
    <3>1. repairing'[q] = repairing[q] /\ RepairOK(q)
      BY <1>2, <1>6, <2>2 DEF GenerationInv, Repairs0
    <3> QED
      BY <1>5, <1>6, <3>1 DEF RepairOK
  <2> QED
    BY <2>1, <2>2
<1> QED
  BY <1>4, <1>6 DEF GenerationInv, Repairs0

LEMMA TerminateStep ==
  ASSUME GenerationInv, NEW r \in Repairs, NEW p \in Pids, Generation!Terminate(r, p)
  PROVE  GenerationInv'
<1> DEFINE delivered == Generation!Exists(p) /\ procs[p].ours
<1>1. PICK c : c = repairing[r]
  OBVIOUS
<1>2. c.pc = "term" /\ p \in c.todo /\ c \in Repairing /\ RepairOK(r) /\ c # Generation!Idle /\ p \in c.found
  BY <1>1 DEF Generation!Terminate, GenerationInv, GenerationType, Repairs0, Generation!Idle, RepairOK
<1>3. PICK t \in SUBSET Pids : t = IF delivered THEN c.terminated \cup {p} ELSE c.terminated
  BY <1>2 DEF Repairing
<1>4. PICK d : d = [c EXCEPT !.todo = c.todo \ {p}, !.terminated = t]
  OBVIOUS
<1>5. /\ d \in Repairing /\ d.pc = c.pc /\ d.since = c.since /\ d.todo = c.todo \ {p} /\ d.found = c.found
      /\ d.terminated = t
  BY <1>2, <1>4 DEF Repairing
<1>6. repairing' = [repairing EXCEPT ![r] = d]
  BY <1>1, <1>3, <1>4, Zenon DEF Generation!Terminate
<1>7. births' = births /\ leftOver' = {} /\ IF delivered THEN Generation!Hit(r, p) ELSE hits' = {}
  BY DEF Generation!Terminate
<1>8. procs' = procs \/ procs' = [procs EXCEPT ![p] = Generation!Gone]
  BY DEF Generation!Terminate, GenerationInv, GenerationType
<1>9. Generation!RepairIsAimed'
  <2>1. CASE delivered
    BY <1>1, <1>2, <1>7, <2>1, HitIsAimed DEF Generation!Exists
  <2>2. CASE ~delivered
    BY <1>7, <2>2 DEF Generation!RepairIsAimed
  <2> QED
    BY <2>1, <2>2
<1>10. Spared(r, p)' \/ p \in d.terminated
  <2>1. CASE delivered
    BY <1>3, <1>5, <2>1
  <2>2. CASE ~delivered
    <3>1. procs'[p] = procs[p]
      BY <2>2 DEF Generation!Terminate, GenerationInv, GenerationType
    <3> QED
      BY <2>2, <3>1 DEF Spared, Generation!Exists
  <2> QED
    BY <2>1, <2>2
<1> QED
  BY <1>1, <1>2, <1>3, <1>5, <1>6, <1>7, <1>8, <1>9, <1>10, SignalStep

LEMMA KillStep ==
  ASSUME GenerationInv, NEW r \in Repairs, NEW p \in Pids, Generation!Kill(r, p)
  PROVE  GenerationInv'
<1> DEFINE delivered == Generation!Exists(p) /\ procs[p].ours
<1>1. PICK c : c = repairing[r]
  OBVIOUS
<1>2. c.pc = "kill" /\ p \in c.todo /\ c \in Repairing /\ RepairOK(r) /\ c # Generation!Idle /\ p \in c.found
  BY <1>1 DEF Generation!Kill, GenerationInv, GenerationType, Repairs0, Generation!Idle, RepairOK
<1>3. PICK d : d = [c EXCEPT !.todo = c.todo \ {p}]
  OBVIOUS
<1>4. /\ d \in Repairing /\ d.pc = c.pc /\ d.since = c.since /\ d.todo = c.todo \ {p} /\ d.found = c.found
      /\ d.terminated = c.terminated
  BY <1>2, <1>3 DEF Repairing
<1>5. repairing' = [repairing EXCEPT ![r] = d]
  BY <1>1, <1>3, Zenon DEF Generation!Kill
<1>6. births' = births /\ leftOver' = {} /\ IF delivered THEN Generation!Hit(r, p) ELSE hits' = {}
  BY DEF Generation!Kill
<1>7. procs' = procs \/ procs' = [procs EXCEPT ![p] = Generation!Gone]
  BY DEF Generation!Kill, GenerationInv, GenerationType
<1>8. Generation!RepairIsAimed'
  <2>1. CASE delivered
    BY <1>1, <1>2, <1>6, <2>1, HitIsAimed DEF Generation!Exists
  <2>2. CASE ~delivered
    BY <1>6, <2>2 DEF Generation!RepairIsAimed
  <2> QED
    BY <2>1, <2>2
<1>9. Spared(r, p)'
  <2>1. CASE delivered
    BY <2>1 DEF Generation!Kill, Spared, GenerationInv, GenerationType
  <2>2. CASE ~delivered
    <3>1. procs'[p] = procs[p]
      BY <2>2 DEF Generation!Kill, GenerationInv, GenerationType
    <3> QED
      BY <2>2, <3>1 DEF Spared, Generation!Exists
  <2> QED
    BY <2>1, <2>2
<1> QED
  BY <1>1, <1>2, <1>4, <1>5, <1>6, <1>7, <1>8, <1>9, SignalStep

LEMMA ProcessStep ==
  ASSUME GenerationInv, NEW p \in Pids, Generation!Spawn(p) \/ Generation!Exit(p)
  PROVE  GenerationInv'
<1>1. PICK new \in {Generation!Gone} \cup Process :
         /\ new = Generation!Gone \/ (procs[p] = Generation!Gone /\ new.birth = births' /\ births' > births)
         /\ births' \in Nat /\ births' >= births
         /\ procs' = [procs EXCEPT ![p] = new]
  <2>1. CASE Generation!Spawn(p)
    <3>1. PICK new \in Generation!Processes(births') : procs' = [procs EXCEPT ![p] = new]
      BY <2>1 DEF Generation!Spawn
    <3>2. births' = births + 1 /\ births \in Nat /\ procs[p] = Generation!Gone
      BY <2>1 DEF Generation!Spawn, Generation!Exists, GenerationInv, GenerationType
    <3>3. new \in Process /\ new.birth = births'
      BY <3>1, <3>2 DEF Generation!Processes, Process
    <3>4. births' \in Nat /\ births' > births /\ births' >= births
      BY <3>2
    <3> QED
      BY <3>1, <3>2, <3>3, <3>4, Zenon
  <2>2. CASE Generation!Exit(p)
    <3>1. births' = births /\ births \in Nat /\ procs' = [procs EXCEPT ![p] = Generation!Gone]
      BY <2>2 DEF Generation!Exit, GenerationInv, GenerationType
    <3>2. births' \in Nat /\ births' >= births
      BY <3>1
    <3> QED
      BY <3>1, <3>2, Zenon
  <2> QED
    BY <2>1, <2>2
<1>2. repairing' = repairing /\ Generation!RepairIsAimed'
  BY QuietIsAimed DEF Generation!Spawn, Generation!Exit
<1>3. GenerationType'
  BY <1>1, <1>2 DEF GenerationInv, GenerationType
<1>4. \A r \in Repairs : repairing'[r] # Generation!Idle => RepairOK(r)'
  BY <1>1, <1>2, ProcessReplaced
<1> QED
  BY <1>2, <1>3, <1>4 DEF GenerationInv, Repairs0

LEMMA GenerationNext == GenerationInv /\ Generation!Next => GenerationInv'
<1> SUFFICES ASSUME GenerationInv, Generation!Next PROVE GenerationInv'
  OBVIOUS
<1>1. ASSUME NEW r \in Repairs, Generation!Crash(r)
      PROVE  GenerationInv'
  BY <1>1, QuietIsAimed, OtherRepairs DEF Generation!Crash
<1> QED
  BY <1>1, SnapshotStep, EndWaitStep, ReportStep, TerminateStep, KillStep, ProcessStep DEF Generation!Next

LEMMA GenerationStutter == GenerationInv /\ UNCHANGED generation => GenerationInv'
BY DEF generation, GenerationInv, GenerationType, Repairs0, RepairOK, Found, Spared, Later,
       Generation!Stale, Generation!RepairIsAimed


-----------------------------------------------------------------------------
(* HostMigration. *)

\* The call of a process is a record that tells at least how far it is.
IsCall(c) == "pc" \in DOMAIN c /\ c = [x \in DOMAIN c |-> c[x]]
Named(p) == "name" \in DOMAIN hosting[p]

Cleaning == {"cleanup", "others", "final"}

MigrationType ==
    /\ DOMAIN hosting = Hosts /\ hosting = [p \in Hosts |-> hosting[p]]
    /\ \A p \in Hosts : IsCall(hosting[p])
    /\ {met, collided, overridden, unread} \subseteq BOOLEAN
    /\ uriFile \in {origin, "none"}
    /\ \A p \in Hosts :
          /\ hosting[p].pc \in {"backup", "replace"} => hosting[p].updated \in Migration!Open
          /\ hosting[p].pc \in {"restore", "restored"} => Named(p)

\* Whoever has replaced the configuration, or is about to, has a backup before it.
OperatorKept ==
    ~collided =>
        /\ operator = mongod \/ operator \in Migration!Range(backups)
        /\ \A p \in Hosts : hosting[p].pc = "replace" \/ Named(p) => operator \in Migration!Range(backups)

Alone == ~met => \A p, q \in Hosts : hosting[p] # Migration!Idle /\ hosting[q] # Migration!Idle => p = q

\* mongod serves without credentials only from a configuration that is still the file.
ServesFile == ~met /\ serving \in Migration!Open => mongod \in Migration!Open \cup {"torn"}

Opened ==
    /\ serving \in Migration!Open \cup {"down"}
    /\ mongod \in Migration!Open \cup {"torn"}

CleansOpened == ~met => \A p \in Hosts : hosting[p].pc \in Cleaning => Opened

\* After the credentials are gone nobody finds authorization enforced again.
RemovedOpened ==
    ~met /\ uriFile # origin =>
        Opened /\ \A p \in Hosts : hosting[p].pc \in Cleaning \cup {"idle", "probe"}

RemoteUntouched ==
    origin = "remote" /\ ~overridden /\ ~unread => uriFile = origin /\ \A p \in Hosts : hosting[p] = Migration!Idle

MigrationInv ==
    /\ MigrationType /\ OperatorKept /\ Alone /\ ServesFile /\ CleansOpened /\ RemovedOpened /\ RemoteUntouched

LEMMA MigrationInit == Migration!Init => MigrationInv
<1> SUFFICES ASSUME Migration!Init PROVE MigrationInv
  OBVIOUS
<1>1. \A p \in Hosts : hosting[p] = Migration!Idle /\ hosting[p].pc = "idle" /\ DOMAIN hosting[p] = {"pc"}
  BY DEF Migration!Init, Migration!Idle
<1>2. MigrationType
  BY <1>1 DEF Migration!Init, MigrationType, Migration!Enforcing, IsCall, Migration!Idle
<1> QED
  BY <1>1, <1>2 DEF Migration!Init, MigrationInv, OperatorKept, Alone, ServesFile, CleansOpened,
     RemovedOpened, RemoteUntouched, Cleaning, Named, Migration!Enforcing, Migration!Open

\* A call that goes on keeps what it knows; no other call is changed.
LEMMA HostGoto ==
  ASSUME MigrationType, NEW p \in Hosts, NEW pc, Migration!Goto(p, pc)
  PROVE  /\ DOMAIN hosting' = Hosts /\ hosting' = [q \in Hosts |-> hosting'[q]]
         /\ \A q \in Hosts \ {p} : hosting'[q] = hosting[q]
         /\ IsCall(hosting'[p]) /\ hosting'[p].pc = pc
         /\ DOMAIN hosting'[p] = DOMAIN hosting[p]
         /\ \A x \in DOMAIN hosting[p] \ {"pc"} : hosting'[p][x] = hosting[p][x]
<1>1. PICK c : c = [hosting[p] EXCEPT !.pc = pc]
  OBVIOUS
<1>2. hosting' = [hosting EXCEPT ![p] = c]
  BY <1>1, Zenon DEF Migration!Goto
<1>3. IsCall(hosting[p])
  BY DEF MigrationType
<1>4. /\ DOMAIN c = DOMAIN hosting[p] /\ IsCall(c) /\ c.pc = pc
      /\ \A x \in DOMAIN hosting[p] \ {"pc"} : c[x] = hosting[p][x]
  BY <1>1, <1>3 DEF IsCall
<1> QED
  BY <1>2, <1>4 DEF MigrationType

LEMMA HostSet ==
  ASSUME MigrationType, NEW p \in Hosts, NEW c, IsCall(c), hosting' = [hosting EXCEPT ![p] = c]
  PROVE  /\ DOMAIN hosting' = Hosts /\ hosting' = [q \in Hosts |-> hosting'[q]]
         /\ \A q \in Hosts \ {p} : hosting'[q] = hosting[q]
         /\ hosting'[p] = c
BY DEF MigrationType

LEMMA HostEnd ==
  ASSUME MigrationType, NEW p \in Hosts, NEW result, Migration!End(p, result)
  PROVE  /\ DOMAIN hosting' = Hosts /\ hosting' = [q \in Hosts |-> hosting'[q]]
         /\ \A q \in Hosts \ {p} : hosting'[q] = hosting[q]
         /\ hosting'[p] = Migration!Idle /\ IsCall(hosting'[p]) /\ hosting'[p].pc = "idle" /\ ~Named(p)'
<1>1. IsCall(Migration!Idle) /\ Migration!Idle.pc = "idle" /\ "name" \notin DOMAIN Migration!Idle
  BY DEF IsCall, Migration!Idle
<1>2. hosting' = [hosting EXCEPT ![p] = Migration!Idle]
  BY DEF Migration!End
<1> QED
  BY <1>1, <1>2, HostSet DEF Named

\* Only the call of p changes, and nothing that is shared.
LEMMA CallStep ==
  ASSUME MigrationInv, NEW p \in Hosts,
         DOMAIN hosting' = Hosts /\ hosting' = [q \in Hosts |-> hosting'[q]],
         \A q \in Hosts \ {p} : hosting'[q] = hosting[q],
         IsCall(hosting'[p]),
         hosting'[p].pc \in {"backup", "replace"} => hosting'[p].updated \in Migration!Open,
         hosting'[p].pc \in {"restore", "restored"} => Named(p)',
         hosting'[p].pc = "replace" \/ Named(p)' => hosting[p].pc = "replace" \/ Named(p),
         hosting'[p] # Migration!Idle => hosting[p] # Migration!Idle,
         ~met /\ hosting'[p].pc \in Cleaning => Opened,
         ~met /\ uriFile # origin => hosting'[p].pc \in Cleaning \cup {"idle", "probe"},
         UNCHANGED <<mongod, serving, backups, uriFile, operator, origin, overridden, unread, met, collided>>
  PROVE  MigrationInv'
<1>1. MigrationType'
  BY DEF MigrationInv, MigrationType, IsCall, Named
<1>2. OperatorKept'
  BY DEF MigrationInv, OperatorKept, Named, Migration!Range
<1>3. Alone'
  BY DEF MigrationInv, Alone
<1>4. ServesFile' /\ CleansOpened'
  BY DEF MigrationInv, ServesFile, CleansOpened, Opened
<1>5. RemovedOpened'
  BY DEF MigrationInv, RemovedOpened, Opened
<1>6. RemoteUntouched'
  BY DEF MigrationInv, RemoteUntouched
<1> QED
  BY <1>1, <1>2, <1>3, <1>4, <1>5, <1>6 DEF MigrationInv

\* A call that ends, whatever the result.
LEMMA EndStep ==
  ASSUME MigrationInv, NEW p \in Hosts, NEW result, Migration!End(p, result),
         UNCHANGED <<mongod, serving, backups, uriFile, operator, origin, overridden, unread, met, collided>>
  PROVE  MigrationInv'
<1>1. MigrationType
  BY DEF MigrationInv
<1> QED
  BY <1>1, HostEnd, CallStep DEF Cleaning

\* A call that goes on to a step for which it knows enough.
LEMMA GotoStep ==
  ASSUME MigrationInv, NEW p \in Hosts, NEW pc \in Cleaning \cup {"read", "restart", "verify"},
         Migration!Goto(p, pc), hosting[p] # Migration!Idle,
         ~met /\ pc \in Cleaning => Opened,
         ~met /\ uriFile # origin => pc \in Cleaning,
         UNCHANGED <<mongod, serving, backups, uriFile, operator, origin, overridden, unread, met, collided>>
  PROVE  MigrationInv'
<1>1. MigrationType
  BY DEF MigrationInv
<1>2. hosting'[p].pc = pc /\ (Named(p)' <=> Named(p))
  BY <1>1, HostGoto DEF Named
<1> QED
  BY <1>1, <1>2, HostGoto, CallStep DEF Cleaning

LEMMA ServesOpened ==
  ASSUME MigrationInv, Migration!Admits(serving), ~met
  PROVE  Opened
BY DEF MigrationInv, ServesFile, Opened, Migration!Admits

LEMMA Busy ==
  ASSUME NEW p \in Hosts, hosting[p].pc # "idle"
  PROVE  hosting[p] # Migration!Idle
BY DEF Migration!Idle

LEMMA ProbeStep ==
  ASSUME MigrationInv, NEW p \in Hosts, Migration!Probe(p)
  PROVE  MigrationInv'
<1>1. /\ hosting[p] # Migration!Idle
      /\ UNCHANGED <<mongod, serving, backups, uriFile, operator, origin, overridden, unread, met, collided>>
  BY Busy DEF Migration!Probe, Migration!history
<1>2. CASE Migration!Admits(serving) /\ Migration!Goto(p, "cleanup")
  BY <1>1, <1>2, ServesOpened, GotoStep DEF Cleaning
<1>3. CASE ~Migration!Admits(serving) /\ serving # "down" /\ Migration!Goto(p, "read")
  <2>1. ~(~met /\ uriFile # origin)
    BY <1>3 DEF MigrationInv, RemovedOpened, Opened, Migration!Admits
  <2> QED
    BY <1>1, <1>3, <2>1, GotoStep DEF Cleaning
<1>4. CASE Migration!End(p, "blocked")
  BY <1>1, <1>4, EndStep
<1> QED
  BY <1>2, <1>3, <1>4 DEF Migration!Probe

LEMMA ReadConfigStep ==
  ASSUME MigrationInv, NEW p \in Hosts, Migration!ReadConfig(p)
  PROVE  MigrationInv'
<1>1. /\ hosting[p] # Migration!Idle /\ hosting[p].pc = "read" /\ MigrationType
      /\ UNCHANGED <<mongod, serving, backups, uriFile, operator, origin, overridden, unread, met, collided>>
  BY Busy DEF Migration!ReadConfig, Migration!history, MigrationInv
<1>2. ~(~met /\ uriFile # origin)
  BY <1>1 DEF MigrationInv, RemovedOpened, Cleaning
<1>3. CASE Migration!Goto(p, "restart")
  BY <1>1, <1>2, <1>3, GotoStep DEF Cleaning
<1>4. CASE mongod \in DOMAIN Migration!Rewritten
           /\ hosting' = [hosting EXCEPT ![p] = [pc |-> "backup", updated |-> Migration!Rewritten[mongod]]]
  <2>1. PICK c : c = [pc |-> "backup", updated |-> Migration!Rewritten[mongod]]
    OBVIOUS
  <2>2. Migration!Rewritten[mongod] \in Migration!Open
    BY <1>4 DEF Migration!Rewritten, Migration!Open
  <2>3. IsCall(c) /\ c.pc = "backup" /\ c.updated \in Migration!Open /\ "name" \notin DOMAIN c
    BY <2>1, <2>2 DEF IsCall
  <2>4. hosting' = [hosting EXCEPT ![p] = c]
    BY <1>4, <2>1, Zenon
  <2>5. hosting'[p] = c
    BY <1>1, <2>3, <2>4, HostSet
  <2> QED
    BY <1>1, <1>2, <2>3, <2>4, <2>5, HostSet, CallStep DEF Cleaning, Named
<1>5. CASE Migration!End(p, "blocked")
  BY <1>1, <1>5, EndStep
<1> QED
  BY <1>3, <1>4, <1>5 DEF Migration!ReadConfig

LEMMA VerifyStep ==
  ASSUME MigrationInv, NEW p \in Hosts, Migration!Verify(p)
  PROVE  MigrationInv'
<1>1. /\ hosting[p] # Migration!Idle
      /\ UNCHANGED <<mongod, serving, backups, uriFile, operator, origin, overridden, unread, met, collided>>
  BY Busy DEF Migration!Verify, Migration!history
<1>2. CASE Migration!Admits(serving) /\ Migration!Goto(p, "cleanup")
  BY <1>1, <1>2, ServesOpened, GotoStep DEF Cleaning
<1>3. CASE Migration!End(p, "blocked")
  BY <1>1, <1>3, EndStep
<1> QED
  BY <1>2, <1>3 DEF Migration!Verify

LEMMA RemoveOthersStep ==
  ASSUME MigrationInv, NEW p \in Hosts, Migration!RemoveOthers(p)
  PROVE  MigrationInv'
<1>1. /\ hosting[p] # Migration!Idle /\ hosting[p].pc = "others"
      /\ UNCHANGED <<mongod, serving, backups, uriFile, operator, origin, overridden, unread, met, collided>>
  BY Busy DEF Migration!RemoveOthers, Migration!history
<1>2. ~met => Opened
  BY <1>1 DEF MigrationInv, CleansOpened, Cleaning
<1>3. CASE Migration!Goto(p, "final")
  BY <1>1, <1>2, <1>3, GotoStep DEF Cleaning
<1>4. CASE Migration!End(p, "blocked")
  BY <1>1, <1>4, EndStep
<1> QED
  BY <1>3, <1>4 DEF Migration!RemoveOthers

LEMMA EndingStep ==
  ASSUME MigrationInv, NEW p \in Hosts, Migration!FinalProbe(p) \/ Migration!Crash(p)
  PROVE  MigrationInv'
BY EndStep DEF Migration!FinalProbe, Migration!Crash, Migration!history

\* A call that starts meets another one, or is alone.  It finds the binding of the old
\* version unless the environment hides it or the file cannot be read.
LEMMA BeginStep ==
  ASSUME MigrationInv, NEW p \in Hosts, NEW env \in {"none", "loopback", "remote"},
         NEW readable \in BOOLEAN, Migration!Begin(p, env, readable)
  PROVE  MigrationInv'
<1>1. /\ MigrationType /\ hosting[p] = Migration!Idle
      /\ met' = (met \/ \E q \in Hosts : hosting[q] # Migration!Idle)
      /\ overridden' = (overridden \/ env = "loopback")
      /\ unread' = (unread \/ (~readable /\ env = "none" /\ uriFile # "none"))
      /\ UNCHANGED <<mongod, serving, backups, uriFile, operator, origin, collided>>
  BY DEF Migration!Begin, MigrationInv
<1>2. /\ DOMAIN hosting' = Hosts /\ hosting' = [q \in Hosts |-> hosting'[q]]
      /\ \A q \in Hosts \ {p} : hosting'[q] = hosting[q]
      /\ IsCall(hosting'[p]) /\ hosting'[p].pc \in {"idle", "probe"} /\ ~Named(p)'
  <2>1. CASE Migration!End(p, "blocked")
    BY <1>1, <2>1, HostEnd
  <2>2. CASE hosting' = [hosting EXCEPT ![p] = [pc |-> "probe"]]
    <3>1. PICK c : c = [pc |-> "probe"]
      OBVIOUS
    <3>2. IsCall(c) /\ c.pc = "probe" /\ "name" \notin DOMAIN c /\ hosting' = [hosting EXCEPT ![p] = c]
      BY <2>2, <3>1 DEF IsCall
    <3> QED
      BY <1>1, <3>2, HostSet DEF Named
  <2> QED
    BY <2>1, <2>2 DEF Migration!Begin
<1>3. MigrationType'
  BY <1>1, <1>2 DEF MigrationType, IsCall, Named
<1>4. OperatorKept'
  BY <1>1, <1>2 DEF MigrationInv, OperatorKept, Named, Migration!Range
<1>5. Alone'
  <2> SUFFICES ASSUME ~met', NEW q \in Hosts, NEW r \in Hosts,
                      hosting'[q] # Migration!Idle, hosting'[r] # Migration!Idle
               PROVE  q = r
    BY DEF Alone, Migration!Idle
  <2>1. \A x \in Hosts : hosting[x] = Migration!Idle
    BY <1>1
  <2> QED
    BY <1>2, <2>1
<1>6. ServesFile' /\ CleansOpened' /\ RemovedOpened'
  BY <1>1, <1>2 DEF MigrationInv, ServesFile, CleansOpened, RemovedOpened, Opened, Cleaning
<1>7. RemoteUntouched'
  <2> SUFFICES ASSUME origin = "remote", ~overridden', ~unread'
               PROVE  uriFile = origin /\ \A q \in Hosts : hosting'[q] = Migration!Idle
    BY <1>1 DEF RemoteUntouched
  <2>1. uriFile = origin /\ \A q \in Hosts : hosting[q] = Migration!Idle
    BY <1>1 DEF MigrationInv, RemoteUntouched
  <2>2. Migration!Endpoint(env, readable) = "remote"
    BY <1>1, <2>1 DEF Migration!Endpoint
  <2> QED
    BY <1>1, <2>1, <2>2, HostEnd DEF Migration!Begin
<1> QED
  BY <1>3, <1>4, <1>5, <1>6, <1>7 DEF MigrationInv

\* Unless the name is taken, a backup loses none of the others.
LEMMA BackupStep ==
  ASSUME MigrationInv, NEW p \in Hosts, Migration!Backup(p)
  PROVE  MigrationInv'
<1>1. PICK c : c = [pc |-> "replace", updated |-> hosting[p].updated, name |-> second]
  OBVIOUS
<1>2. /\ MigrationType /\ hosting[p] # Migration!Idle /\ hosting[p].pc = "backup"
      /\ hosting[p].updated \in Migration!Open
      /\ UNCHANGED <<mongod, serving, uriFile, operator, origin, overridden, unread, met>>
  BY Busy DEF Migration!Backup, MigrationInv, MigrationType
<1>3. IsCall(c) /\ c.pc = "replace" /\ c.updated \in Migration!Open
  BY <1>1, <1>2 DEF IsCall
<1>4. hosting' = [hosting EXCEPT ![p] = c]
  BY <1>1, Zenon DEF Migration!Backup
<1>5. /\ DOMAIN hosting' = Hosts /\ hosting' = [q \in Hosts |-> hosting'[q]]
      /\ \A q \in Hosts \ {p} : hosting'[q] = hosting[q]
      /\ hosting'[p] = c
  BY <1>2, <1>3, <1>4, HostSet
<1>6. collided' \in BOOLEAN
  BY <1>2 DEF Migration!Backup, MigrationType
<1>7. MigrationType'
  BY <1>2, <1>3, <1>5, <1>6 DEF MigrationType, IsCall, Named
<1>8. OperatorKept'
  <2> SUFFICES ASSUME ~collided'
               PROVE  operator \in Migration!Range(backups')
    BY <1>2 DEF OperatorKept
  <2>1. ~collided /\ second \notin DOMAIN backups
    BY DEF Migration!Backup
  <2>2. /\ DOMAIN backups' = DOMAIN backups \cup {second}
        /\ backups'[second] = mongod /\ \A n \in DOMAIN backups : backups'[n] = backups[n]
    BY <2>1 DEF Migration!Backup, Migration!Saved
  <2>3. operator = mongod \/ operator \in Migration!Range(backups)
    BY <2>1 DEF MigrationInv, OperatorKept
  <2> QED
    BY <2>2, <2>3 DEF Migration!Range
<1>9. Alone' /\ ServesFile'
  BY <1>2, <1>5 DEF MigrationInv, Alone, ServesFile
<1>10. CleansOpened' /\ RemovedOpened' /\ RemoteUntouched'
  BY <1>2, <1>3, <1>5 DEF MigrationInv, CleansOpened, RemovedOpened, RemoteUntouched, Opened, Cleaning
<1> QED
  BY <1>7, <1>8, <1>9, <1>10 DEF MigrationInv

\* Only a call that is not alone meets a cleanup; this is what the steps that change the
\* configuration or the service rely on.
LEMMA OnlyCall ==
  ASSUME MigrationInv, ~met, NEW p \in Hosts, hosting[p].pc \notin Cleaning \cup {"idle", "probe"}
  PROVE  /\ uriFile = origin
         /\ \A q \in Hosts \ {p} : hosting[q] = Migration!Idle /\ hosting[q].pc = "idle"
BY DEF MigrationInv, RemovedOpened, Alone, Migration!Idle, Cleaning

LEMMA ReplaceStep ==
  ASSUME MigrationInv, NEW p \in Hosts, Migration!Replace(p)
  PROVE  MigrationInv'
<1>1. PICK c : c = [pc |-> "restart", name |-> hosting[p].name]
  OBVIOUS
<1>2. /\ MigrationType /\ hosting[p] # Migration!Idle /\ hosting[p].pc = "replace"
      /\ mongod' \in Migration!Open
      /\ UNCHANGED <<serving, backups, uriFile, operator, origin, overridden, unread, met, collided>>
  BY Busy DEF Migration!Replace, MigrationInv, MigrationType, Migration!history
<1>3. IsCall(c) /\ c.pc = "restart"
  BY <1>1 DEF IsCall
<1>4. hosting' = [hosting EXCEPT ![p] = c]
  BY <1>1, Zenon DEF Migration!Replace
<1>5. /\ DOMAIN hosting' = Hosts /\ hosting' = [q \in Hosts |-> hosting'[q]]
      /\ \A q \in Hosts \ {p} : hosting'[q] = hosting[q]
      /\ hosting'[p] = c
  BY <1>2, <1>3, <1>4, HostSet
<1>6. MigrationType'
  BY <1>2, <1>3, <1>5 DEF MigrationType, IsCall, Named
<1>7. OperatorKept'
  BY <1>2, <1>3, <1>5 DEF MigrationInv, OperatorKept, Migration!Range, Named
<1>8. Alone' /\ ServesFile'
  BY <1>2, <1>5 DEF MigrationInv, Alone, ServesFile
<1>9. CleansOpened' /\ RemovedOpened' /\ RemoteUntouched'
  BY <1>2, <1>3, <1>5 DEF MigrationInv, CleansOpened, RemovedOpened, RemoteUntouched, Opened, Cleaning
<1> QED
  BY <1>6, <1>7, <1>8, <1>9 DEF MigrationInv

LEMMA RestartStep ==
  ASSUME MigrationInv, NEW p \in Hosts, Migration!Restart(p)
  PROVE  MigrationInv'
<1>1. /\ MigrationType /\ hosting[p] # Migration!Idle /\ hosting[p].pc = "restart"
      /\ serving' = mongod \/ serving' = "down"
      /\ UNCHANGED <<mongod, backups, uriFile, operator, origin, overridden, unread, met, collided>>
  BY Busy DEF Migration!Restart, Migration!Restarted, MigrationInv, Migration!history
<1>2. /\ DOMAIN hosting' = Hosts /\ hosting' = [q \in Hosts |-> hosting'[q]]
      /\ \A q \in Hosts \ {p} : hosting'[q] = hosting[q]
      /\ IsCall(hosting'[p]) /\ hosting'[p].pc \in {"verify", "restore", "idle"}
      /\ hosting'[p].pc = "restore" => Named(p)'
      /\ Named(p)' => Named(p)
  <2>1. CASE Migration!Goto(p, "verify")
    BY <1>1, <2>1, HostGoto DEF Named
  <2>2. CASE Named(p) /\ Migration!Goto(p, "restore")
    BY <1>1, <2>2, HostGoto DEF Named
  <2>3. CASE Migration!End(p, "blocked")
    BY <1>1, <2>3, HostEnd
  <2> QED
    BY <2>1, <2>2, <2>3 DEF Migration!Restart, Named
<1>3. MigrationType'
  BY <1>1, <1>2 DEF MigrationType, IsCall, Named
<1>4. OperatorKept'
  BY <1>1, <1>2 DEF MigrationInv, OperatorKept, Migration!Range, Named
<1>5. Alone'
  BY <1>1, <1>2 DEF MigrationInv, Alone
<1>6. ServesFile'
  BY <1>1 DEF MigrationInv, ServesFile, Migration!Open
<1>7. CleansOpened' /\ RemovedOpened'
  BY <1>1, <1>2, OnlyCall DEF CleansOpened, RemovedOpened, Cleaning
<1>8. RemoteUntouched'
  BY <1>1, <1>2 DEF MigrationInv, RemoteUntouched
<1> QED
  BY <1>3, <1>4, <1>5, <1>6, <1>7, <1>8 DEF MigrationInv

LEMMA RestoreStep ==
  ASSUME MigrationInv, NEW p \in Hosts, Migration!Restore(p)
  PROVE  MigrationInv'
<1>1. /\ MigrationType /\ hosting[p] # Migration!Idle /\ hosting[p].pc = "restore" /\ Named(p)
      /\ mongod' = "torn"
      /\ UNCHANGED <<serving, backups, uriFile, operator, origin, overridden, unread, met, collided>>
  BY Busy DEF Migration!Restore, MigrationInv, MigrationType, Migration!history
<1>2. /\ DOMAIN hosting' = Hosts /\ hosting' = [q \in Hosts |-> hosting'[q]]
      /\ \A q \in Hosts \ {p} : hosting'[q] = hosting[q]
      /\ IsCall(hosting'[p]) /\ hosting'[p].pc = "restored" /\ Named(p)'
  BY <1>1, HostGoto DEF Named, Migration!Restore
<1>3. MigrationType'
  BY <1>1, <1>2 DEF MigrationType, IsCall, Named
<1>4. OperatorKept'
  BY <1>1, <1>2 DEF MigrationInv, OperatorKept, Migration!Range, Named
<1>5. Alone' /\ ServesFile'
  BY <1>1, <1>2 DEF MigrationInv, Alone, ServesFile
<1>6. CleansOpened' /\ RemovedOpened'
  BY <1>1, <1>2, OnlyCall DEF CleansOpened, RemovedOpened, Cleaning
<1>7. RemoteUntouched'
  BY <1>1, <1>2 DEF MigrationInv, RemoteUntouched
<1> QED
  BY <1>3, <1>4, <1>5, <1>6, <1>7 DEF MigrationInv

LEMMA RestartOriginalStep ==
  ASSUME MigrationInv, NEW p \in Hosts, Migration!RestartOriginal(p)
  PROVE  MigrationInv'
<1>1. /\ MigrationType /\ hosting[p] # Migration!Idle /\ hosting[p].pc = "restored" /\ Named(p)
      /\ serving' = mongod' \/ serving' = "down"
      /\ UNCHANGED <<backups, uriFile, operator, origin, overridden, unread, met, collided>>
  BY Busy DEF Migration!RestartOriginal, MigrationInv, MigrationType, Migration!history
<1>2. /\ DOMAIN hosting' = Hosts /\ hosting' = [q \in Hosts |-> hosting'[q]]
      /\ \A q \in Hosts \ {p} : hosting'[q] = hosting[q]
      /\ hosting'[p] = Migration!Idle /\ IsCall(hosting'[p]) /\ hosting'[p].pc = "idle" /\ ~Named(p)'
  BY <1>1, HostEnd DEF Migration!RestartOriginal
<1>3. MigrationType'
  BY <1>1, <1>2 DEF MigrationType, IsCall, Named
<1>4. OperatorKept'
  BY <1>1, <1>2 DEF MigrationInv, OperatorKept, Migration!Range, Named
<1>5. Alone' /\ ServesFile'
  BY <1>1, <1>2 DEF MigrationInv, Alone, ServesFile, Migration!Open
<1>6. CleansOpened' /\ RemovedOpened'
  BY <1>1, <1>2, OnlyCall DEF CleansOpened, RemovedOpened, Cleaning
<1>7. RemoteUntouched'
  BY <1>1, <1>2 DEF MigrationInv, RemoteUntouched
<1> QED
  BY <1>3, <1>4, <1>5, <1>6, <1>7 DEF MigrationInv

LEMMA RemoveUriStep ==
  ASSUME MigrationInv, NEW p \in Hosts, Migration!RemoveUri(p)
  PROVE  MigrationInv'
<1>1. /\ MigrationType /\ hosting[p] # Migration!Idle /\ hosting[p].pc = "cleanup"
      /\ UNCHANGED <<mongod, serving, backups, operator, origin, overridden, unread, met, collided>>
  BY Busy DEF Migration!RemoveUri, MigrationInv, Migration!history
<1>2. CASE uriFile' = "none" /\ Migration!Goto(p, "others")
  <2>1. /\ DOMAIN hosting' = Hosts /\ hosting' = [q \in Hosts |-> hosting'[q]]
        /\ \A q \in Hosts \ {p} : hosting'[q] = hosting[q]
        /\ IsCall(hosting'[p]) /\ hosting'[p].pc = "others" /\ (Named(p)' => Named(p))
    BY <1>1, <1>2, HostGoto DEF Named
  <2>2. MigrationType'
    BY <1>1, <1>2, <2>1 DEF MigrationType, IsCall, Named
  <2>3. OperatorKept'
    BY <1>1, <2>1 DEF MigrationInv, OperatorKept, Migration!Range, Named
  <2>4. Alone' /\ ServesFile'
    BY <1>1, <2>1 DEF MigrationInv, Alone, ServesFile
  <2>5. CleansOpened'
    BY <1>1, <2>1 DEF MigrationInv, CleansOpened, Opened, Cleaning
  <2>6. RemovedOpened'
    <3> SUFFICES ASSUME ~met
                 PROVE  Opened /\ \A q \in Hosts : hosting'[q].pc \in Cleaning \cup {"idle", "probe"}
      BY <1>1 DEF RemovedOpened, Opened
    <3>1. Opened
      BY <1>1 DEF MigrationInv, CleansOpened, Cleaning
    <3>2. \A q \in Hosts \ {p} : hosting[q] = Migration!Idle
      BY <1>1 DEF MigrationInv, Alone
    <3> QED
      BY <2>1, <3>1, <3>2 DEF Cleaning, Migration!Idle
  <2>7. RemoteUntouched'
    BY <1>1, <2>1 DEF MigrationInv, RemoteUntouched
  <2> QED
    BY <2>2, <2>3, <2>4, <2>5, <2>6, <2>7 DEF MigrationInv
<1>3. CASE UNCHANGED uriFile /\ Migration!End(p, "blocked")
  BY <1>1, <1>3, EndStep
<1> QED
  BY <1>2, <1>3 DEF Migration!RemoveUri

\* mongod restarts by itself with the file as it is.
LEMMA RebootStep ==
  ASSUME MigrationInv, Migration!Reboot
  PROVE  MigrationInv'
<1>1. /\ serving' = mongod \/ serving' = "down"
      /\ serving' # "torn"
      /\ UNCHANGED <<hosting, mongod, backups, uriFile, operator, origin, overridden, unread, met, collided>>
  BY DEF Migration!Reboot, Migration!Restarted, Migration!history
<1>2. MigrationType' /\ OperatorKept' /\ Alone' /\ RemoteUntouched'
  BY <1>1 DEF MigrationInv, MigrationType, OperatorKept, Alone, RemoteUntouched, Migration!Range, Named, IsCall
<1>3. Opened => Opened'
  BY <1>1 DEF Opened
<1>4. ServesFile' /\ CleansOpened' /\ RemovedOpened'
  BY <1>1, <1>3 DEF MigrationInv, ServesFile, CleansOpened, RemovedOpened, Migration!Open
<1> QED
  BY <1>2, <1>4 DEF MigrationInv

LEMMA SharedUnchanged ==
  ASSUME MigrationInv,
         UNCHANGED <<hosting, mongod, serving, backups, uriFile, operator, origin, overridden, unread, met, collided>>
  PROVE  MigrationInv'
BY DEF MigrationInv, MigrationType, OperatorKept, Alone, RemoteUntouched, Migration!Range, Named, IsCall,
       ServesFile, CleansOpened, RemovedOpened, Opened

LEMMA MigrationNext == MigrationInv /\ Migration!Next => MigrationInv'
<1> SUFFICES ASSUME MigrationInv, Migration!Next PROVE MigrationInv'
  OBVIOUS
<1>1. Migration!Tick => MigrationInv'
  BY SharedUnchanged DEF Migration!Tick, Migration!history
<1> QED
  BY <1>1, BeginStep, ProbeStep, ReadConfigStep, BackupStep, ReplaceStep, RestartStep, RestoreStep,
     RestartOriginalStep, VerifyStep, RemoveUriStep, RemoveOthersStep, EndingStep, RebootStep
  DEF Migration!Next

LEMMA MigrationStutter == MigrationInv /\ UNCHANGED migration => MigrationInv'
BY SharedUnchanged DEF migration

LEMMA MigrationIsSafe == MigrationInv => Migration!MigrationIsRecoverable
BY DEF MigrationInv, OperatorKept, RemovedOpened, RemoteUntouched, Opened, Migration!MigrationIsRecoverable

-----------------------------------------------------------------------------
(* SessionBinding. *)

\* Every set of numbers that is not empty has a least one: the intervals below its numbers
\* are ordered by inclusion, which is well-founded.
LEMMA Least ==
  ASSUME NEW S \in SUBSET Nat, S # {}
  PROVE  Session!Min(S) \in S /\ \A m \in S : Session!Min(S) <= m
<1> DEFINE T == {0..m - 1 : m \in S}
           R == StrictSubsetOrdering(Nat)
<1>1. T \subseteq FiniteSubsetsOf(Nat) /\ T # {}
  <2>1. ASSUME NEW m \in Nat PROVE IsFiniteSet(0..m-1) /\ 0..m-1 \in SUBSET Nat
    BY FS_Interval
  <2> QED
    BY <2>1 DEF FiniteSubsetsOf
<1>2. PICK x \in T : \A y \in T : <<y, x>> \notin R
  <2>1. IsWellFoundedOn(R, FiniteSubsetsOf(Nat))
    BY FS_StrictSubsetOrderingWellFounded
  <2> HIDE DEF T, R
  <2> QED
    BY <1>1, <2>1, WFMin, Zenon
<1>3. PICK n \in S : x = 0..n - 1
  OBVIOUS
<1>4. ASSUME NEW m \in S, m < n
      PROVE  FALSE
  <2>1. 0..m-1 \in T
    OBVIOUS
  <2>2. 0..m-1 \subseteq 0..n-1 /\ 0..n-1 \subseteq Nat /\ m \in 0..n-1 /\ m \notin 0..m-1
    BY <1>4
  <2>3. <<0..m-1, 0..n-1>> \in R
    BY <2>2, Zenon DEF StrictSubsetOrdering
  <2> QED
    BY <1>2, <1>3, <2>1, <2>3
<1>5. \A m \in S : n <= m
  BY <1>4
<1> QED
  BY <1>5 DEF Session!Min

Places == Paths \cup {Session!Nowhere}

SessionType ==
    /\ IsFiniteSet(projects)
    /\ \A h \in homes : h.scopes \subseteq Places
    /\ bound \in [Clients -> Places]
    /\ DOMAIN decision = Clients /\ decision = [c \in Clients |-> decision[c]]

\* What the property says, of a decision.
Founded(d) == d.state = "STATE_FOUND" => d.meant = {d.project}

SessionInv == SessionType /\ (\A c \in Clients : Founded(decision[c])) /\ Session!NothingIsGuessed

\* The instance of the module has a Cardinality of its own, defined alike.
LEMMA SameCardinality == \A S : Session!Cardinality(S) = Cardinality(S)
BY DEF Session!Cardinality, Cardinality

LEMMA PlacesHaveLength == \A w \in Places : Len(w) \in Nat
<1>1. \A w \in Paths : Len(w) \in Nat
  BY RuntimeAssumption DEF Session!BindingAssumption
<1>2. Len(Session!Nowhere) = 1
  BY DEF Session!Nowhere
<1> QED
  BY <1>1, <1>2 DEF Places

\* Among two places that one is around the other, exactly what _path_relation ranks.
LEMMA DistanceRanks ==
  ASSUME NEW w \in Places, NEW v \in Places
  PROVE  /\ Session!IsPrefix(v, w) => Session!Distance(w, v) = Len(w) - Len(v) /\ Len(v) <= Len(w)
         /\ Session!Related(w, v) => Session!Distance(w, v) \in Nat
         /\ Session!Related(w, v) /\ Session!Distance(w, v) <= Len(w) => Session!IsPrefix(v, w)
BY PlacesHaveLength DEF Session!Distance, Session!Related, Session!IsPrefix

LEMMA ScopesArePlaces ==
  ASSUME SessionType, NEW k
  PROVE  Session!Scopes(k) \subseteq Places
BY DEF SessionType, Session!Scopes

\* The place of a candidate that is nearest to w.
LEMMA NearestPlace ==
  ASSUME SessionType, NEW w \in Places, NEW k \in Session!Candidates(w)
  PROVE  /\ Session!Nearest(w, k) \in Nat
         /\ \E v \in Session!Scopes(k) : Session!Related(w, v) /\ Session!Nearest(w, k) = Session!Distance(w, v)
         /\ \A v \in Session!Scopes(k) : Session!Related(w, v) => Session!Nearest(w, k) <= Session!Distance(w, v)
<1> DEFINE D == {Session!Distance(w, v) : v \in {u \in Session!Scopes(k) : Session!Related(w, u)}}
<1>1. D \in SUBSET Nat
  BY ScopesArePlaces, DistanceRanks
<1>2. D # {}
  BY DEF Session!Candidates
<1>3. Session!Nearest(w, k) = Session!Min(D)
  BY DEF Session!Nearest
<1>4. Session!Nearest(w, k) \in D /\ \A m \in D : Session!Nearest(w, k) <= m
  <2> HIDE DEF D
  <2> QED
    BY <1>1, <1>2, <1>3, Least
<1> QED
  BY <1>1, <1>4

\* The best candidates are the nearest ones.
LEMMA BestIsNearest ==
  ASSUME SessionType, NEW w \in Places, NEW k, Session!Candidates(w) # {}, Session!Best(w) = {k}
  PROVE  /\ k \in Session!Candidates(w)
         /\ \A j \in Session!Candidates(w) :
               /\ Session!Nearest(w, k) <= Session!Nearest(w, j)
               /\ Session!Nearest(w, j) <= Session!Nearest(w, k) => j = k
<1> DEFINE N == {Session!Nearest(w, j) : j \in Session!Candidates(w)}
<1>1. N \in SUBSET Nat /\ N # {}
  BY NearestPlace
<1>2. Session!Min(N) \in N /\ \A m \in N : Session!Min(N) <= m
  <2> HIDE DEF N
  <2> QED
    BY <1>1, Least
<1>3. Session!Best(w) = {j \in Session!Candidates(w) : Session!Nearest(w, j) = Session!Min(N)}
  BY DEF Session!Best
<1>4. k \in Session!Candidates(w) /\ Session!Nearest(w, k) = Session!Min(N)
  BY <1>3
<1>5. ASSUME NEW j \in Session!Candidates(w)
      PROVE  /\ Session!Nearest(w, k) <= Session!Nearest(w, j)
             /\ Session!Nearest(w, j) <= Session!Nearest(w, k) => j = k
  <2>1. Session!Nearest(w, j) \in N /\ Session!Nearest(w, k) \in N
    BY <1>4
  <2>2. Session!Nearest(w, j) = Session!Nearest(w, k) => j = k
    BY <1>3, <1>4
  <2>3. Session!Nearest(w, k) <= Session!Nearest(w, j)
    <3> HIDE DEF N
    <3> QED
      BY <1>2, <1>4, <2>1
  <2>4. Session!Nearest(w, j) \in Nat /\ Session!Nearest(w, k) \in Nat
    BY <1>4, NearestPlace
  <2> QED
    BY <2>2, <2>3, <2>4
<1> QED
  BY <1>4, <1>5

\* What the resolution returns is the only project that the workspace can mean.
LEMMA ResolvedIsMeant ==
  ASSUME SessionType, NEW w \in Places, w \notin projects, NEW k \in projects, Session!Resolved(w, k)
  PROVE  Session!Meant(w) = {k}
<1> DEFINE around == {v \in UNION {Session!Scopes(j) : j \in projects} : Session!IsPrefix(v, w)}
<1>1. k \in Session!Candidates(w) /\ Session!Candidates(w) # {} /\ Session!Best(w) = {k}
  BY BestIsNearest DEF Session!Resolved
<1>2. PICK v \in Session!Scopes(k) : Session!Related(w, v) /\ Session!Nearest(w, k) = Session!Distance(w, v)
  BY <1>1, NearestPlace
<1>3. v \in Places /\ Session!Scopes(k) \subseteq Places
  BY <1>2, ScopesArePlaces
<1>4. CASE around = {}
  <2>1. Session!Meant(w) = {j \in projects : \E u \in Session!Scopes(j) : Session!IsPrefix(w, u)}
    BY <1>4 DEF Session!Meant
  <2>2. ~Session!IsPrefix(v, w)
    BY <1>2, <1>4
  <2>3. Session!Nearest(w, k) > Len(w)
    BY <1>2, <1>3, <2>2, DistanceRanks, PlacesHaveLength
  <2>4. Cardinality(Session!Candidates(w)) = 1
    BY <2>3, SameCardinality DEF Session!Resolved
  <2>5. IsFiniteSet(Session!Candidates(w))
    BY FS_Subset DEF SessionType, Session!Candidates
  <2>6. Session!Candidates(w) = {k}
    BY <1>1, <2>4, <2>5, FS_Singleton
  <2>7. Session!IsPrefix(w, v)
    BY <1>2, <2>2 DEF Session!Related
  <2>8. ASSUME NEW j \in projects, NEW u \in Session!Scopes(j), Session!IsPrefix(w, u)
        PROVE  j = k
    BY <2>6, <2>8 DEF Session!Candidates, Session!Related
  <2> QED
    BY <1>2, <2>1, <2>7, <2>8
<1>5. CASE around # {}
  <2>1. Session!Meant(w) =
          {j \in projects : \E x \in Session!Scopes(j) : x \in around /\ \A u \in around : Len(u) <= Len(x)}
    BY <1>5 DEF Session!Meant
  <2>2. ASSUME NEW j \in projects, NEW x \in Session!Scopes(j), Session!IsPrefix(x, w)
        PROVE  /\ x \in Places /\ j \in Session!Candidates(w)
               /\ Session!Nearest(w, j) <= Len(w) - Len(x) /\ Len(x) <= Len(w)
    <3>1. x \in Places
      BY ScopesArePlaces
    <3>2. Session!Related(w, x)
      BY <2>2 DEF Session!Related
    <3>3. j \in Session!Candidates(w)
      BY <3>2 DEF Session!Candidates
    <3>4. Session!Distance(w, x) = Len(w) - Len(x) /\ Len(x) <= Len(w)
      BY <2>2, <3>1, DistanceRanks
    <3>5. Session!Nearest(w, j) <= Session!Distance(w, x)
      BY <3>2, <3>3, NearestPlace
    <3> QED
      BY <3>1, <3>3, <3>4, <3>5
  <2>3. Session!IsPrefix(v, w)
    <3>1. PICK j \in projects : \E x \in Session!Scopes(j) : Session!IsPrefix(x, w)
      BY <1>5
    <3> PICK x \in Session!Scopes(j) : Session!IsPrefix(x, w)
      BY <3>1
    <3>2. j \in Session!Candidates(w) /\ Session!Nearest(w, j) <= Len(w) - Len(x) /\ x \in Places
      BY <2>2
    <3>3. Session!Nearest(w, k) <= Session!Nearest(w, j)
      BY <1>1, <3>2, BestIsNearest
    <3>4. Session!Nearest(w, k) \in Nat /\ Session!Nearest(w, j) \in Nat
      BY <1>1, <3>2, NearestPlace
    <3>5. Session!Distance(w, v) <= Len(w)
      BY <1>2, <3>2, <3>3, <3>4, PlacesHaveLength
    <3> QED
      BY <1>2, <1>3, <3>5, DistanceRanks
  <2>4. Session!Nearest(w, k) = Len(w) - Len(v)
    BY <1>2, <1>3, <2>3, DistanceRanks
  <2>5. ASSUME NEW u \in around
        PROVE  Len(u) <= Len(v)
    <3>1. PICK j \in projects : u \in Session!Scopes(j)
      OBVIOUS
    <3>2. j \in Session!Candidates(w) /\ Session!Nearest(w, j) <= Len(w) - Len(u) /\ u \in Places
      BY <3>1, <2>2
    <3>3. Session!Nearest(w, k) <= Session!Nearest(w, j) /\ Session!Nearest(w, j) \in Nat
      BY <1>1, <3>2, BestIsNearest, NearestPlace
    <3>4. Len(u) \in Nat /\ Len(v) \in Nat /\ Len(w) \in Nat
      BY <1>3, <3>2, PlacesHaveLength
    <3> QED
      BY <2>4, <3>2, <3>3, <3>4
  <2>6. v \in around
    BY <2>3
  <2>7. ASSUME NEW j \in projects, NEW x \in Session!Scopes(j), x \in around, Len(v) <= Len(x)
        PROVE  j = k
    <3>1. j \in Session!Candidates(w) /\ Session!Nearest(w, j) <= Len(w) - Len(x) /\ x \in Places
      BY <2>2, <2>7
    <3>2. Len(x) \in Nat /\ Len(v) \in Nat /\ Len(w) \in Nat /\ Session!Nearest(w, j) \in Nat
      BY <1>3, <3>1, PlacesHaveLength, NearestPlace
    <3>3. Session!Nearest(w, j) <= Session!Nearest(w, k)
      BY <2>4, <2>7, <3>1, <3>2
    <3> QED
      BY <1>1, <3>1, <3>3, BestIsNearest
  <2> HIDE DEF around
  <2> QED
    BY <1>2, <2>1, <2>5, <2>6, <2>7
<1> QED
  BY <1>4, <1>5

\* A decision that state was found is founded, on any workspace of a process.
LEMMA DecidedIsFounded ==
  ASSUME SessionType, NEW w \in Places
  PROVE  Founded(Session!Decided(w))
<1> DEFINE rebound == {k \in projects : Session!Resolved(w, k)}
           k == CHOOSE x \in rebound : TRUE
           restored ==
             IF Session!StateOf(w) # "STATE_NOT_FOUND" THEN [state |-> Session!StateOf(w), project |-> w]
             ELSE IF rebound # {} THEN [state |-> Session!StateOf(k), project |-> k]
             ELSE IF Session!Candidates(w) # {} THEN [state |-> "STATE_PARTIAL", project |-> Session!Nowhere]
             ELSE [state |-> "STATE_NOT_FOUND", project |-> Session!Nowhere]
<1>1. Session!Decided(w) = [state |-> restored.state, project |-> restored.project, meant |-> Session!Meant(w)]
  BY Zenon DEF Session!Decided
<1>2. /\ Session!Decided(w).state = restored.state /\ Session!Decided(w).project = restored.project
      /\ Session!Decided(w).meant = Session!Meant(w)
  <2> HIDE DEF restored
  <2> QED
    BY <1>1
<1>3. ASSUME restored.state = "STATE_FOUND"
      PROVE  Session!Meant(w) = {restored.project}
  <2>1. CASE Session!StateOf(w) # "STATE_NOT_FOUND"
    <3>1. w \in projects /\ restored.project = w
      BY <2>1 DEF Session!StateOf
    <3> QED
      BY <3>1 DEF Session!Meant
  <2>2. CASE Session!StateOf(w) = "STATE_NOT_FOUND"
    <3>1. w \notin projects
      BY <2>2 DEF Session!StateOf
    <3>2. rebound # {} /\ restored.project = k
      BY <1>3, <2>2
    <3>3. k \in rebound
      BY <3>2
    <3>4. k \in projects /\ Session!Resolved(w, k)
      BY <3>3
    <3> HIDE DEF k
    <3>5. Session!Meant(w) = {k}
      BY <3>1, <3>4, ResolvedIsMeant
    <3> QED
      BY <3>2, <3>5
  <2> QED
    BY <2>1, <2>2
<1> QED
  BY <1>2, <1>3 DEF Founded

LEMMA AtGateIsFounded ==
  ASSUME SessionInv, NEW c \in Clients, NEW w \in Places
  PROVE  Founded(Session!AtGate(c, w)) /\ Session!BoundAtGate(c, w) \in Places
<1>1. bound[c] \in Places /\ SessionType
  BY DEF SessionInv, SessionType
<1>2. Founded(decision[c])
  BY DEF SessionInv
<1> QED
  BY <1>1, <1>2, DecidedIsFounded DEF Session!AtGate, Session!BoundAtGate

LEMMA SessionInit == Session!Init => SessionInv
<1> SUFFICES ASSUME Session!Init PROVE SessionInv
  OBVIOUS
<1>1. IsFiniteSet(projects)
  BY FS_EmptySet DEF Session!Init
<1>2. \A c \in Clients : Founded(decision[c])
  BY DEF Session!Init, Session!None, Founded
<1> QED
  BY <1>1, <1>2 DEF Session!Init, SessionInv, SessionType, Places, Session!NothingIsGuessed

\* A step of one process, whose decision is founded.
LEMMA ClientStep ==
  ASSUME SessionInv, NEW c \in Clients, NEW d, Founded(d), NEW b \in Places,
         decision' = [decision EXCEPT ![c] = d] \/ decision' = decision,
         bound' = [bound EXCEPT ![c] = b],
         IsFiniteSet(projects'), \A h \in homes' : h.scopes \subseteq Places,
         effects' \subseteq {d}, \A e \in effects' : e.state = "STATE_FOUND"
  PROVE  SessionInv'
<1>1. SessionType'
  BY DEF SessionInv, SessionType
<1>2. \A x \in Clients : Founded(decision'[x])
  BY DEF SessionInv, SessionType
<1>3. Session!NothingIsGuessed'
  BY DEF Session!NothingIsGuessed, Founded
<1> QED
  BY <1>1, <1>2, <1>3 DEF SessionInv, Founded

LEMMA RestoreWorkspaceStep ==
  ASSUME SessionInv, NEW c \in Clients, NEW w \in Paths,
         Session!Restore(c, w) \/ Session!Look(c, w)
  PROVE  SessionInv'
<1>1. w \in Places
  BY DEF Places
<1>2. Founded(Session!Decided(w))
  BY <1>1, DecidedIsFounded DEF SessionInv
<1>3. IsFiniteSet(projects') /\ (\A h \in homes' : h.scopes \subseteq Places) /\ effects' = {}
  BY DEF Session!Restore, Session!Look, SessionInv, SessionType
<1> QED
  BY <1>1, <1>2, <1>3, ClientStep DEF Session!Restore, Session!Look

LEMMA ProductiveStep ==
  ASSUME SessionInv, NEW c \in Clients, NEW w \in Paths, Session!Productive(c, w)
  PROVE  SessionInv'
<1>1. Founded(Session!AtGate(c, w)) /\ Session!BoundAtGate(c, w) \in Places
  BY AtGateIsFounded DEF Places
<1>2. /\ IsFiniteSet(projects') /\ (\A h \in homes' : h.scopes \subseteq Places)
      /\ effects' \subseteq {Session!AtGate(c, w)} /\ \A e \in effects' : e.state = "STATE_FOUND"
  BY DEF Session!Productive, SessionInv, SessionType
<1> QED
  BY <1>1, <1>2, ClientStep DEF Session!Productive

LEMMA EnterWorkStep ==
  ASSUME SessionInv, NEW c \in Clients, NEW start \in Paths, Session!EnterWork(c, start)
  PROVE  SessionInv'
<1> DEFINE w == Session!BoundAtGate(c, start)
<1>1. Founded(Session!AtGate(c, start)) /\ w \in Places
  BY AtGateIsFounded DEF Places
<1>2. bound' = [bound EXCEPT ![c] = w] /\ effects' = {}
  BY DEF Session!EnterWork
<1>3. CASE /\ projects' = projects \cup {w}
           /\ homes' = homes \cup {[project |-> w, scopes |-> {w}, ready |-> TRUE]}
           /\ decision' = [decision EXCEPT ![c] = [state |-> "STATE_FOUND", project |-> w, meant |-> {w}]]
  <2>1. IsFiniteSet(projects')
    BY <1>3, FS_AddElement DEF SessionInv, SessionType
  <2>2. PICK n : n = [project |-> w, scopes |-> {w}, ready |-> TRUE]
    OBVIOUS
  <2>3. n.scopes = {w} /\ homes' = homes \cup {n}
    BY <1>3, <2>2, Zenon
  <2>4. \A h \in homes' : h.scopes \subseteq Places
    BY <1>1, <2>3 DEF SessionInv, SessionType
  <2>5. PICK d : d = [state |-> "STATE_FOUND", project |-> w, meant |-> {w}]
    OBVIOUS
  <2>6. Founded(d) /\ decision' = [decision EXCEPT ![c] = d]
    BY <1>3, <2>5, Zenon DEF Founded
  <2> QED
    BY <1>1, <1>2, <2>1, <2>4, <2>6, ClientStep
<1>4. CASE decision' = [decision EXCEPT ![c] = Session!AtGate(c, start)] /\ UNCHANGED <<projects, homes>>
  <2>1. IsFiniteSet(projects') /\ (\A h \in homes' : h.scopes \subseteq Places)
    BY <1>4 DEF SessionInv, SessionType
  <2> QED
    BY <1>1, <1>2, <1>4, <2>1, ClientStep
<1> QED
  BY <1>3, <1>4, Zenon DEF Session!EnterWork

\* Work that other sessions admit or import.
LEMMA StoreStep ==
  ASSUME SessionInv,
         \/ \E h \in Session!Homes : Session!Import(h)
         \/ \E k \in Imported : Session!CreateProject(k)
         \/ \E h \in homes : Session!MakeReady(h)
  PROVE  SessionInv'
<1>1. UNCHANGED <<bound, decision>> /\ effects' = {}
  BY DEF Session!Import, Session!CreateProject, Session!MakeReady
<1>2. IsFiniteSet(projects')
  BY FS_AddElement DEF Session!Import, Session!CreateProject, Session!MakeReady, SessionInv, SessionType
<1>3. \A h \in homes' : h.scopes \subseteq Places
  <2>1. CASE \E h \in Session!Homes : Session!Import(h)
    BY <2>1 DEF Session!Import, Session!Homes, SessionInv, SessionType, Places
  <2>2. CASE \E k \in Imported : Session!CreateProject(k)
    BY <2>2 DEF Session!CreateProject, SessionInv, SessionType
  <2>3. CASE \E h \in homes : Session!MakeReady(h)
    <3>1. PICK h \in homes : Session!MakeReady(h)
      BY <2>3
    <3>2. PICK n : n = [h EXCEPT !.ready = TRUE]
      OBVIOUS
    <3>3. homes' = (homes \ {h}) \cup {n}
      BY <3>1, <3>2, Zenon DEF Session!MakeReady
    <3>4. n.scopes = h.scopes
      BY <3>2
    <3> QED
      BY <3>3, <3>4 DEF SessionInv, SessionType
  <2> QED
    BY <2>1, <2>2, <2>3
<1> QED
  BY <1>1, <1>2, <1>3 DEF SessionInv, SessionType, Session!NothingIsGuessed, Founded

LEMMA SessionNext == SessionInv /\ Session!Next => SessionInv'
<1>1. ASSUME SessionInv, NEW c \in Clients, Session!Restart(c)
      PROVE  SessionInv'
  <2>1. Founded(Session!None) /\ Session!Nowhere \in Places
    BY DEF Founded, Session!None, Places
  <2>2. IsFiniteSet(projects') /\ (\A h \in homes' : h.scopes \subseteq Places) /\ effects' = {}
    BY <1>1 DEF Session!Restart, SessionInv, SessionType
  <2> QED
    BY <1>1, <2>1, <2>2, ClientStep DEF Session!Restart
<1> QED
  BY <1>1, RestoreWorkspaceStep, ProductiveStep, EnterWorkStep, StoreStep DEF Session!Next

LEMMA SessionStutter == SessionInv /\ UNCHANGED session => SessionInv'
BY DEF session, SessionInv, SessionType, Founded, Session!NothingIsGuessed

-----------------------------------------------------------------------------
(* ClientSetup. *)

Entries == {"mine", "old", "server", "fresh"}
Contents == [state : {"absent", "text", "torn"}, has : SUBSET Entries]
Steps == {"read", "backup", "copy", "open", "write", "rename", "next"}
Editing == [pc : Steps, scope : {"local", "project"}, at : 1..4, data : SUBSET Entries]

SetupType ==
    /\ files \in [Setup!Files -> Contents] /\ saved \in [Setup!Files -> Contents]
    /\ temporary \in [Setup!Files -> Contents]
    /\ editing \in [Setups -> {Setup!Idle} \cup Editing]
    /\ crossing \in BOOLEAN

\* What the operator wrote is in the file, and what was removed from it is in its backup
\* unless that is what an interrupted copy has left.
FileOK(f) ==
    /\ files[f].state # "torn" /\ (files[f].state = "absent" => files[f].has = {})
    /\ "mine" \in given[f].has => "mine" \in files[f].has
    /\ saved[f].state = "absent" => saved[f].has = {} /\ given[f].has \subseteq files[f].has
    /\ saved[f].state = "torn" => saved[f] = Setup!Torn
    /\ saved[f].state = "text" => given[f].has \subseteq saved[f].has

Clean(f) == files[f].has \cap Setup!MangoMe = {}

\* What the edits before the n-th one have achieved.
Progress(scope, n) ==
    /\ n >= 2 /\ (scope = "local" => n <= 3) => Clean("user")
    /\ n >= 3 /\ (scope = "project" => n <= 3) => Clean("project")
    /\ n >= 4 => "server" \in files[Setup!Target[scope]].has

\* What a setup that is about to write f holds.
Holds(e, f, op) ==
    /\ e.pc # "read" \/ op = "rewrite" => ("mine" \in given[f].has => "mine" \in e.data)
    /\ e.pc \in {"backup", "copy", "open", "write", "rename"} =>
          /\ op = "strip" => e.data \cap Setup!MangoMe = {}
          /\ op # "strip" => "server" \in e.data
          /\ f = "user" /\ client = "kept" => "fresh" \in e.data
    /\ e.pc = "copy" => saved[f] = Setup!Torn /\ given[f].has \subseteq files[f].has
    /\ e.pc \in {"open", "write", "rename"} /\ saved[f] # Setup!Torn => given[f].has \subseteq saved[f].has
    /\ e.pc = "rename" => temporary[f] = Setup!Text(e.data)

ActiveOK(s) ==
    LET e == editing[s]
    IN /\ installed = "none"
       /\ Progress(e.scope, IF e.pc = "next" THEN e.at + 1 ELSE e.at)
       /\ Holds(e, Setup!Edit(s).file, Setup!Edit(s).op)

Lonely == \A s, t \in Setups : editing[s] # Setup!Idle /\ editing[t] # Setup!Idle => s = t

Reported ==
    /\ installed # "none" =>
          /\ "server" \in files[installed].has
          /\ {f \in {"user", "project"} : files[f].has \cap Setup!MangoMe # {}} = {installed}
    /\ client = "kept" => "fresh" \in files["user"].has

Orderly ==
    /\ \A f \in Setup!Files : FileOK(f)
    /\ Lonely /\ Reported
    /\ \A s \in Setups : editing[s] # Setup!Idle => ActiveOK(s)

SetupInv == SetupType /\ (~crossing => Orderly)

LEMMA SetupIsSafe == SetupInv => Setup!SetupIsRecoverable
<1> SUFFICES ASSUME SetupInv, ~crossing PROVE Setup!SetupIsRecoverable
  BY DEF Setup!SetupIsRecoverable
<1>1. ASSUME NEW f \in Setup!Files
      PROVE  /\ files[f].state # "torn"
             /\ "mine" \in given[f].has => "mine" \in files[f].has
             /\ saved[f] # Setup!Torn => given[f].has \subseteq files[f].has \cup saved[f].has
  <2>1. FileOK(f) /\ saved[f].state \in {"absent", "text", "torn"}
    BY DEF SetupInv, SetupType, Contents, Orderly
  <2> QED
    BY <2>1 DEF FileOK
<1>2. Reported
  BY DEF SetupInv, Orderly
<1> QED
  BY <1>1, <1>2 DEF Reported, Setup!SetupIsRecoverable

LEMMA SetupInit == Setup!Init => SetupInv
<1> SUFFICES ASSUME Setup!Init PROVE SetupInv
  OBVIOUS
<1>1. ASSUME NEW f \in Setup!Files
      PROVE  given[f] \in Contents /\ given[f].state # "torn" /\ (given[f].state = "absent" => given[f].has = {})
  BY DEF Setup!Init, Setup!Absent, Setup!Text, Contents, Entries
<1>2. Setup!Absent \in Contents /\ Setup!Absent.state = "absent" /\ Setup!Absent.has = {}
  BY DEF Setup!Absent, Contents
<1>3. SetupType
  BY <1>1, <1>2 DEF Setup!Init, SetupType
<1> QED
  BY <1>1, <1>2, <1>3 DEF Setup!Init, SetupInv, Orderly, FileOK, Lonely, Reported

\* The edits, one by one.
LEMMA EditTable ==
  /\ \A scope \in {"local", "project"} :
        /\ Len(Setup!Edits[scope]) = 4
        /\ Setup!Edits[scope][1].file = "user" /\ Setup!Edits[scope][1].op = "strip"
        /\ Setup!Edits[scope][2].file = "project" /\ Setup!Edits[scope][2].op = "strip"
        /\ Setup!Edits[scope][4].file = "instruction" /\ Setup!Edits[scope][4].op = "install"
  /\ Setup!Edits["local"][3].file = "user" /\ Setup!Edits["local"][3].op = "install"
  /\ Setup!Edits["project"][3].file = "project" /\ Setup!Edits["project"][3].op = "rewrite"
BY DEF Setup!Edits, Setup!LocalEdits, Setup!ProjectEdits

LEMMA EditOfSetup ==
  ASSUME SetupType, NEW s \in Setups, editing[s] # Setup!Idle
  PROVE  LET e == editing[s]
             f == Setup!Edit(s).file
             op == Setup!Edit(s).op
         IN /\ e \in Editing /\ f \in Setup!Files
            /\ e.at = 1 => f = "user" /\ op = "strip"
            /\ e.at = 2 => f = "project" /\ op = "strip"
            /\ e.at = 3 => f = Setup!Target[e.scope]
            /\ e.at = 3 => op = IF e.scope = "local" THEN "install" ELSE "rewrite"
            /\ e.at = 4 => f = "instruction" /\ op = "install"
<1>1. editing[s] \in Editing
  BY DEF SetupType
<1>2. editing[s].scope \in {"local", "project"} /\ editing[s].at \in {1, 2, 3, 4}
  BY <1>1 DEF Editing
<1>3. Setup!Edit(s) = Setup!Edits[editing[s].scope][editing[s].at]
  BY DEF Setup!Edit
<1> QED
  BY <1>1, <1>2, <1>3, EditTable DEF Setup!Files, Setup!Target

\* A step of one setup; if no two overlap, the others do not run.
LEMMA SetupStep ==
  ASSUME SetupInv, NEW s \in Setups, editing[s] # Setup!Idle, NEW d \in {Setup!Idle} \cup Editing,
         editing' = [editing EXCEPT ![s] = d], crossing' = crossing,
         files' \in [Setup!Files -> Contents], saved' \in [Setup!Files -> Contents],
         temporary' \in [Setup!Files -> Contents],
         ~crossing => /\ \A f \in Setup!Files : FileOK(f)'
                      /\ Reported' /\ (d # Setup!Idle => ActiveOK(s)')
  PROVE  SetupInv'
<1>1. SetupType'
  BY DEF SetupInv, SetupType
<1>2. ASSUME ~crossing
      PROVE  Orderly'
  <2>1. editing'[s] = d /\ \A t \in Setups \ {s} : editing'[t] = Setup!Idle
    BY <1>2 DEF SetupInv, SetupType, Orderly, Lonely
  <2> QED
    BY <1>2, <2>1 DEF Orderly, Lonely
<1> QED
  BY <1>1, <1>2 DEF SetupInv

LEMMA SetupEnds ==
  ASSUME SetupInv, NEW s \in Setups, editing[s] # Setup!Idle, Setup!End(s),
         UNCHANGED <<files, saved, temporary, installed, given, crossing, client>>
  PROVE  SetupInv'
<1>1. /\ files' \in [Setup!Files -> Contents] /\ saved' \in [Setup!Files -> Contents]
      /\ temporary' \in [Setup!Files -> Contents]
  BY DEF SetupInv, SetupType
<1>2. ~crossing => (\A f \in Setup!Files : FileOK(f)') /\ Reported'
  BY DEF SetupInv, Orderly, FileOK, Reported
<1> QED
  BY <1>1, <1>2, SetupStep DEF Setup!End

\* A step that stays with the edit, of the file f.
LEMMA EditStep ==
  ASSUME SetupInv, NEW s \in Setups, editing[s] # Setup!Idle, NEW d \in Editing,
         d.scope = editing[s].scope, d.at = editing[s].at,
         NEW f, f = Setup!Edit(s).file, NEW op, op = Setup!Edit(s).op,
         editing' = [editing EXCEPT ![s] = d], crossing' = crossing,
         files' \in [Setup!Files -> Contents], saved' \in [Setup!Files -> Contents],
         temporary' \in [Setup!Files -> Contents],
         ~crossing => /\ \A x \in Setup!Files : FileOK(x)'
                      /\ Reported' /\ installed' = "none"
                      /\ Progress(d.scope, IF d.pc = "next" THEN d.at + 1 ELSE d.at)'
                      /\ Holds(d, f, op)'
  PROVE  SetupInv'
<1>1. editing'[s] = d
  BY DEF SetupInv, SetupType
<1>2. Setup!Edit(s)' = Setup!Edit(s)
  BY <1>1 DEF Setup!Edit
<1>3. ~crossing => ActiveOK(s)'
  BY <1>1, <1>2 DEF ActiveOK
<1> QED
  BY <1>3, SetupStep

\* What is known of a setup that runs alone.
LEMMA Running ==
  ASSUME SetupInv, ~crossing, NEW s \in Setups, editing[s] # Setup!Idle,
         NEW f, f = Setup!Edit(s).file, NEW op, op = Setup!Edit(s).op
  PROVE  /\ installed = "none" /\ Reported /\ \A x \in Setup!Files : FileOK(x)
         /\ Progress(editing[s].scope, IF editing[s].pc = "next" THEN editing[s].at + 1 ELSE editing[s].at)
         /\ Holds(editing[s], f, op)
BY DEF SetupInv, Orderly, ActiveOK

LEMMA ReadStep ==
  ASSUME SetupInv, NEW s \in Setups, Setup!Read(s)
  PROVE  SetupInv'
<1>1. PICK e : e = editing[s]
  OBVIOUS
<1>2. PICK f : f = Setup!Edit(s).file
  OBVIOUS
<1>3. PICK op : op = Setup!Edit(s).op
  OBVIOUS
<1>4. /\ e.pc = "read" /\ editing[s] # Setup!Idle
      /\ UNCHANGED <<files, saved, temporary, installed, given, crossing, client>>
  BY <1>1 DEF Setup!Read, Setup!Idle
<1>5. /\ e \in Editing /\ f \in Setup!Files
      /\ e.at = 1 => f = "user" /\ op = "strip"
      /\ e.at = 2 => f = "project" /\ op = "strip"
      /\ e.at = 3 => f = Setup!Target[e.scope]
      /\ e.at = 3 => op = IF e.scope = "local" THEN "install" ELSE "rewrite"
      /\ e.at = 4 => f = "instruction" /\ op = "install"
  BY <1>1, <1>2, <1>3, <1>4, EditOfSetup DEF SetupInv
<1>6. CASE Setup!End(s)
  BY <1>4, <1>6, SetupEnds
<1>7. CASE ~Setup!End(s)
  <2>1. PICK entries : entries = IF op = "rewrite" THEN e.data ELSE files[f].has
    OBVIOUS
  <2>2. PICK new : new = Setup!Edited(op, entries)
    OBVIOUS
  <2>3. PICK pc : pc = IF new # entries \/ (op # "strip" /\ f # "instruction") THEN "backup" ELSE "next"
    OBVIOUS
  <2>4. PICK d : d = [e EXCEPT !.data = new, !.pc = pc]
    OBVIOUS
  <2>5. editing' = [editing EXCEPT ![s] = d]
    BY <1>1, <1>2, <1>3, <1>7, <2>1, <2>2, <2>3, <2>4, Zenon DEF Setup!Read
  <2>6. entries \in SUBSET Entries
    BY <1>5, <2>1 DEF Editing, SetupInv, SetupType, Contents
  <2>7. new \in SUBSET Entries
    BY <2>2, <2>6 DEF Setup!Edited, Setup!Stripped, Setup!Installed, Entries
  <2>8. d \in Editing /\ d.scope = e.scope /\ d.at = e.at /\ d.data = new /\ d.pc = pc
    BY <1>5, <2>3, <2>4, <2>7 DEF Editing, Steps
  <2>9. /\ files' \in [Setup!Files -> Contents] /\ saved' \in [Setup!Files -> Contents]
        /\ temporary' \in [Setup!Files -> Contents]
    BY <1>4 DEF SetupInv, SetupType
  <2>10. ASSUME ~crossing
         PROVE  /\ \A x \in Setup!Files : FileOK(x)'
                /\ Reported' /\ installed' = "none"
                /\ Progress(d.scope, IF d.pc = "next" THEN d.at + 1 ELSE d.at)'
                /\ Holds(d, f, op)'
    <3>1. /\ installed = "none" /\ Reported /\ \A x \in Setup!Files : FileOK(x)
          /\ Progress(e.scope, e.at) /\ Holds(e, f, op)
      BY <1>1, <1>2, <1>3, <1>4, <2>10, Running
    <3>2. (\A x \in Setup!Files : FileOK(x)') /\ Reported' /\ installed' = "none"
      BY <1>4, <3>1 DEF FileOK, Reported
    <3>3. "mine" \in given[f].has => "mine" \in new
      BY <1>4, <1>5, <2>1, <2>2, <3>1 DEF Holds, FileOK, Setup!Edited, Setup!Stripped, Setup!Installed, Setup!MangoMe
    <3>4. f = "user" /\ client = "kept" => "fresh" \in new
      <4>1. f = "user" => op # "rewrite"
        BY <1>5 DEF Editing, Setup!Target
      <4> QED
        BY <2>1, <2>2, <3>1, <4>1 DEF Reported, Setup!Edited, Setup!Stripped, Setup!Installed, Setup!MangoMe
    <3>5. Holds(d, f, op)'
      BY <1>4, <2>2, <2>3, <2>8, <3>3, <3>4 DEF Holds, Setup!Edited, Setup!Stripped, Setup!Installed
    <3>6. pc = "next" /\ op = "strip" => Clean(f)
      BY <2>1, <2>2, <2>3 DEF Clean, Setup!Edited, Setup!Stripped
    <3>7. Progress(e.scope, IF pc = "next" THEN e.at + 1 ELSE e.at)
      <4>1. e.at \in {1, 2, 3, 4} /\ e.scope \in {"local", "project"}
        BY <1>5 DEF Editing
      <4>2. e.at = 3 => pc = "backup"
        BY <1>5, <2>3, <4>1 DEF Setup!Target
      <4> QED
        BY <1>5, <2>3, <3>1, <3>6, <4>1, <4>2 DEF Progress
    <3> QED
      BY <1>4, <2>8, <3>2, <3>5, <3>7 DEF Progress, Clean
  <2> QED
    BY <1>1, <1>2, <1>3, <1>4, <2>5, <2>8, <2>9, <2>10, EditStep
<1> QED
  BY <1>6, <1>7

\* The backup is made now, begins to be made, or is taken to be there.
LEMMA BackupOnceStep ==
  ASSUME SetupInv, NEW s \in Setups, Setup!Backup(s)
  PROVE  SetupInv'
<1>1. PICK e : e = editing[s]
  OBVIOUS
<1>2. PICK f : f = Setup!Edit(s).file
  OBVIOUS
<1>3. PICK op : op = Setup!Edit(s).op
  OBVIOUS
<1>4. /\ e.pc = "backup" /\ editing[s] # Setup!Idle /\ e \in Editing /\ f \in Setup!Files
      /\ UNCHANGED <<files, temporary, installed, given, crossing, client>>
  BY <1>1, <1>2, EditOfSetup DEF Setup!Backup, Setup!Idle, SetupInv
<1>5. PICK copies : copies = (saved[f].state = "absent" /\ files[f] # Setup!Absent)
  OBVIOUS
<1>6. PICK pc : pc = IF copies THEN "copy" ELSE "open"
  OBVIOUS
<1>7. PICK d : d = [e EXCEPT !.pc = pc]
  OBVIOUS
<1>8. d \in Editing /\ d.scope = e.scope /\ d.at = e.at /\ d.data = e.data /\ d.pc = pc
  BY <1>4, <1>6, <1>7 DEF Editing, Steps
<1>9. editing' = [editing EXCEPT ![s] = d]
  <2>1. Setup!Goto(s, pc)
    BY <1>2, <1>5, <1>6 DEF Setup!Backup, Setup!First
  <2> QED
    BY <1>1, <1>7, <2>1, Zenon DEF Setup!Goto
<1>10. saved' = IF copies THEN [saved EXCEPT ![f] = Setup!Torn] ELSE saved
  BY <1>2, <1>5 DEF Setup!Backup, Setup!First
<1>11. Setup!Torn \in Contents /\ Setup!Torn.state = "torn"
  BY DEF Setup!Torn, Contents
<1>12. /\ files' \in [Setup!Files -> Contents] /\ saved' \in [Setup!Files -> Contents]
       /\ temporary' \in [Setup!Files -> Contents]
       /\ saved'[f] = IF copies THEN Setup!Torn ELSE saved[f]
       /\ \A x \in Setup!Files \ {f} : saved'[x] = saved[x]
  BY <1>4, <1>10, <1>11 DEF SetupInv, SetupType
<1>13. ASSUME ~crossing
       PROVE  /\ \A x \in Setup!Files : FileOK(x)'
              /\ Reported' /\ installed' = "none"
              /\ Progress(d.scope, IF d.pc = "next" THEN d.at + 1 ELSE d.at)'
              /\ Holds(d, f, op)'
  <2>1. /\ installed = "none" /\ Reported /\ \A x \in Setup!Files : FileOK(x)
        /\ Progress(e.scope, e.at) /\ Holds(e, f, op)
    BY <1>1, <1>2, <1>3, <1>4, <1>13, Running
  <2>2. FileOK(f)'
    BY <1>4, <1>11, <1>12, <2>1 DEF FileOK
  <2>3. \A x \in Setup!Files : FileOK(x)'
    BY <1>4, <1>12, <2>1, <2>2 DEF FileOK
  <2>4. Reported' /\ Progress(e.scope, e.at)'
    BY <1>4, <2>1 DEF Reported, Progress, Clean
  <2>5. copies => saved'[f] = Setup!Torn /\ given[f].has \subseteq files[f].has
    BY <1>4, <1>5, <1>12, <2>1 DEF FileOK
  <2>6. ~copies /\ saved'[f] # Setup!Torn => given[f].has \subseteq saved'[f].has
    <3>1. FileOK(f) /\ saved[f].state \in {"absent", "text", "torn"}
      BY <1>4, <2>1 DEF SetupInv, SetupType, Contents
    <3>2. files[f] = Setup!Absent => files[f].has = {}
      BY DEF Setup!Absent
    <3> QED
      BY <1>5, <1>12, <3>1, <3>2 DEF FileOK
  <2>7. Holds(d, f, op)'
    BY <1>4, <1>6, <1>8, <2>1, <2>5, <2>6 DEF Holds
  <2> QED
    BY <1>4, <1>6, <1>8, <2>1, <2>3, <2>4, <2>7
<1> QED
  BY <1>1, <1>2, <1>3, <1>4, <1>8, <1>9, <1>12, <1>13, EditStep

LEMMA CopyBackupStep ==
  ASSUME SetupInv, NEW s \in Setups, Setup!CopyBackup(s)
  PROVE  SetupInv'
<1>1. PICK e : e = editing[s]
  OBVIOUS
<1>2. PICK f : f = Setup!Edit(s).file
  OBVIOUS
<1>3. PICK op : op = Setup!Edit(s).op
  OBVIOUS
<1>4. /\ e.pc = "copy" /\ editing[s] # Setup!Idle /\ e \in Editing /\ f \in Setup!Files
      /\ UNCHANGED <<files, temporary, installed, given, crossing, client>>
  BY <1>1, <1>2, EditOfSetup DEF Setup!CopyBackup, Setup!Idle, SetupInv
<1>5. CASE UNCHANGED saved /\ Setup!End(s)
  BY <1>4, <1>5, SetupEnds
<1>6. CASE saved' = [saved EXCEPT ![f] = files[f]] /\ Setup!Goto(s, "open")
  <2>1. PICK d : d = [e EXCEPT !.pc = "open"]
    OBVIOUS
  <2>2. d \in Editing /\ d.scope = e.scope /\ d.at = e.at /\ d.data = e.data /\ d.pc = "open"
    BY <1>4, <2>1 DEF Editing, Steps
  <2>3. editing' = [editing EXCEPT ![s] = d]
    BY <1>1, <1>6, <2>1, Zenon DEF Setup!Goto
  <2>4. /\ files' \in [Setup!Files -> Contents] /\ saved' \in [Setup!Files -> Contents]
        /\ temporary' \in [Setup!Files -> Contents]
        /\ saved'[f] = files[f] /\ \A x \in Setup!Files \ {f} : saved'[x] = saved[x]
    BY <1>4, <1>6 DEF SetupInv, SetupType
  <2>5. ASSUME ~crossing
        PROVE  /\ \A x \in Setup!Files : FileOK(x)'
               /\ Reported' /\ installed' = "none"
               /\ Progress(d.scope, IF d.pc = "next" THEN d.at + 1 ELSE d.at)'
               /\ Holds(d, f, op)'
    <3>1. /\ installed = "none" /\ Reported /\ \A x \in Setup!Files : FileOK(x)
          /\ Progress(e.scope, e.at) /\ Holds(e, f, op)
      BY <1>1, <1>2, <1>3, <1>4, <2>5, Running
    <3>2. given[f].has \subseteq files[f].has
      BY <1>4, <3>1 DEF Holds
    <3>3. FileOK(f)'
      BY <1>4, <2>4, <3>1, <3>2 DEF FileOK
    <3>4. \A x \in Setup!Files : FileOK(x)'
      BY <1>4, <2>4, <3>1, <3>3 DEF FileOK
    <3>5. Reported' /\ Progress(e.scope, e.at)'
      BY <1>4, <3>1 DEF Reported, Progress, Clean
    <3>6. Holds(d, f, op)'
      BY <1>4, <2>2, <2>4, <3>1, <3>2 DEF Holds
    <3> QED
      BY <1>4, <2>2, <3>1, <3>4, <3>5, <3>6
  <2> QED
    BY <1>1, <1>2, <1>3, <1>4, <2>2, <2>3, <2>4, <2>5, EditStep
<1> QED
  BY <1>2, <1>5, <1>6 DEF Setup!CopyBackup

LEMMA OpenTemporaryStep ==
  ASSUME SetupInv, NEW s \in Setups, Setup!OpenTemporary(s)
  PROVE  SetupInv'
<1>1. PICK e : e = editing[s]
  OBVIOUS
<1>2. PICK f : f = Setup!Edit(s).file
  OBVIOUS
<1>3. PICK op : op = Setup!Edit(s).op
  OBVIOUS
<1>4. /\ e.pc = "open" /\ editing[s] # Setup!Idle /\ e \in Editing /\ f \in Setup!Files
      /\ UNCHANGED <<files, saved, installed, given, crossing, client>>
  BY <1>1, <1>2, EditOfSetup DEF Setup!OpenTemporary, Setup!Idle, SetupInv
<1>5. PICK d : d = [e EXCEPT !.pc = "write"]
  OBVIOUS
<1>6. d \in Editing /\ d.scope = e.scope /\ d.at = e.at /\ d.data = e.data /\ d.pc = "write"
  BY <1>4, <1>5 DEF Editing, Steps
<1>7. editing' = [editing EXCEPT ![s] = d]
  BY <1>1, <1>5, Zenon DEF Setup!OpenTemporary, Setup!Goto
<1>8. /\ files' \in [Setup!Files -> Contents] /\ saved' \in [Setup!Files -> Contents]
      /\ temporary' \in [Setup!Files -> Contents]
      /\ temporary'[f] = Setup!Torn
  BY <1>1, <1>2, <1>4 DEF SetupInv, SetupType, Setup!OpenTemporary, Setup!Torn, Setup!Text, Contents, Editing
<1>9. ASSUME ~crossing
      PROVE  /\ \A x \in Setup!Files : FileOK(x)'
             /\ Reported' /\ installed' = "none"
             /\ Progress(d.scope, IF d.pc = "next" THEN d.at + 1 ELSE d.at)'
             /\ Holds(d, f, op)'
  <2>1. /\ installed = "none" /\ Reported /\ \A x \in Setup!Files : FileOK(x)
        /\ Progress(e.scope, e.at) /\ Holds(e, f, op)
    BY <1>1, <1>2, <1>3, <1>4, <1>9, Running
  <2>2. (\A x \in Setup!Files : FileOK(x)') /\ Reported' /\ Progress(e.scope, e.at)'
    BY <1>4, <2>1 DEF FileOK, Reported, Progress, Clean
  <2>3. Holds(d, f, op)'
    BY <1>4, <1>6, <1>8, <2>1 DEF Holds
  <2> QED
    BY <1>4, <1>6, <2>1, <2>2, <2>3
<1> QED
  BY <1>1, <1>2, <1>3, <1>4, <1>6, <1>7, <1>8, <1>9, EditStep

LEMMA WriteTemporaryStep ==
  ASSUME SetupInv, NEW s \in Setups, Setup!WriteTemporary(s)
  PROVE  SetupInv'
<1>1. PICK e : e = editing[s]
  OBVIOUS
<1>2. PICK f : f = Setup!Edit(s).file
  OBVIOUS
<1>3. PICK op : op = Setup!Edit(s).op
  OBVIOUS
<1>4. /\ e.pc = "write" /\ editing[s] # Setup!Idle /\ e \in Editing /\ f \in Setup!Files
      /\ UNCHANGED <<files, saved, installed, given, crossing, client>>
  BY <1>1, <1>2, EditOfSetup DEF Setup!WriteTemporary, Setup!Idle, SetupInv
<1>5. PICK d : d = [e EXCEPT !.pc = "rename"]
  OBVIOUS
<1>6. d \in Editing /\ d.scope = e.scope /\ d.at = e.at /\ d.data = e.data /\ d.pc = "rename"
  BY <1>4, <1>5 DEF Editing, Steps
<1>7. editing' = [editing EXCEPT ![s] = d]
  BY <1>1, <1>5, Zenon DEF Setup!WriteTemporary, Setup!Goto
<1>8. /\ files' \in [Setup!Files -> Contents] /\ saved' \in [Setup!Files -> Contents]
      /\ temporary' \in [Setup!Files -> Contents]
      /\ temporary'[f] = Setup!Text(e.data)
  BY <1>1, <1>2, <1>4 DEF SetupInv, SetupType, Setup!WriteTemporary, Setup!Torn, Setup!Text, Contents, Editing
<1>9. ASSUME ~crossing
      PROVE  /\ \A x \in Setup!Files : FileOK(x)'
             /\ Reported' /\ installed' = "none"
             /\ Progress(d.scope, IF d.pc = "next" THEN d.at + 1 ELSE d.at)'
             /\ Holds(d, f, op)'
  <2>1. /\ installed = "none" /\ Reported /\ \A x \in Setup!Files : FileOK(x)
        /\ Progress(e.scope, e.at) /\ Holds(e, f, op)
    BY <1>1, <1>2, <1>3, <1>4, <1>9, Running
  <2>2. (\A x \in Setup!Files : FileOK(x)') /\ Reported' /\ Progress(e.scope, e.at)'
    BY <1>4, <2>1 DEF FileOK, Reported, Progress, Clean
  <2>3. Holds(d, f, op)'
    BY <1>4, <1>6, <1>8, <2>1 DEF Holds
  <2> QED
    BY <1>4, <1>6, <2>1, <2>2, <2>3
<1> QED
  BY <1>1, <1>2, <1>3, <1>4, <1>6, <1>7, <1>8, <1>9, EditStep

LEMMA RenameStep ==
  ASSUME SetupInv, NEW s \in Setups, Setup!Rename(s)
  PROVE  SetupInv'
<1>1. PICK e : e = editing[s]
  OBVIOUS
<1>2. PICK f : f = Setup!Edit(s).file
  OBVIOUS
<1>3. PICK op : op = Setup!Edit(s).op
  OBVIOUS
<1>4. /\ e.pc = "rename" /\ editing[s] # Setup!Idle
      /\ UNCHANGED <<saved, installed, given, crossing, client>>
  BY <1>1 DEF Setup!Rename, Setup!Idle
<1>5. /\ e \in Editing /\ f \in Setup!Files
      /\ e.at = 1 => f = "user" /\ op = "strip"
      /\ e.at = 2 => f = "project" /\ op = "strip"
      /\ e.at = 3 => f = Setup!Target[e.scope]
      /\ e.at = 3 => op = IF e.scope = "local" THEN "install" ELSE "rewrite"
      /\ e.at = 4 => f = "instruction" /\ op = "install"
  BY <1>1, <1>2, <1>3, <1>4, EditOfSetup DEF SetupInv
<1>6. CASE Setup!End(s) /\ UNCHANGED <<files, temporary>>
  BY <1>4, <1>6, SetupEnds
<1>7. CASE /\ files' = [files EXCEPT ![f] = temporary[f]]
           /\ temporary' = [temporary EXCEPT ![f] = Setup!Absent]
           /\ Setup!Goto(s, "next")
  <2>1. PICK d : d = [e EXCEPT !.pc = "next"]
    OBVIOUS
  <2>2. d \in Editing /\ d.scope = e.scope /\ d.at = e.at /\ d.data = e.data /\ d.pc = "next"
    BY <1>5, <2>1 DEF Editing, Steps
  <2>3. editing' = [editing EXCEPT ![s] = d]
    BY <1>1, <1>7, <2>1, Zenon DEF Setup!Goto
  <2>4. /\ files' \in [Setup!Files -> Contents] /\ saved' \in [Setup!Files -> Contents]
        /\ temporary' \in [Setup!Files -> Contents]
        /\ files'[f] = temporary[f] /\ \A x \in Setup!Files \ {f} : files'[x] = files[x]
    BY <1>4, <1>5, <1>7 DEF SetupInv, SetupType, Setup!Absent, Contents
  <2>5. ASSUME ~crossing
        PROVE  /\ \A x \in Setup!Files : FileOK(x)'
               /\ Reported' /\ installed' = "none"
               /\ Progress(d.scope, IF d.pc = "next" THEN d.at + 1 ELSE d.at)'
               /\ Holds(d, f, op)'
    <3>1. /\ installed = "none" /\ Reported /\ \A x \in Setup!Files : FileOK(x)
          /\ Progress(e.scope, e.at) /\ Holds(e, f, op)
      BY <1>1, <1>2, <1>3, <1>4, <2>5, Running
    <3>2. files'[f].state = "text" /\ files'[f].has = e.data
      BY <1>4, <2>4, <3>1 DEF Holds, Setup!Text
    <3>3. "mine" \in given[f].has => "mine" \in e.data
      BY <1>4, <3>1 DEF Holds
    <3>4. \A x \in Setup!Files : FileOK(x)'
      <4>1. saved[f].state = "absent" => given[f].has \subseteq files'[f].has
        <5>1. saved[f].state = "absent" => saved[f] # Setup!Torn /\ saved[f].has = {}
          BY <1>5, <3>1 DEF FileOK, Setup!Torn
        <5> QED
          BY <1>4, <3>1, <5>1 DEF Holds
      <4>2. FileOK(f)'
        BY <1>4, <1>5, <2>4, <3>1, <3>2, <3>3, <4>1 DEF FileOK
      <4> QED
        BY <1>4, <1>5, <2>4, <3>1, <4>2 DEF FileOK
    <3>5. Reported'
      BY <1>4, <1>5, <2>4, <3>1, <3>2 DEF Reported, Holds, Setup!Files
    <3>6. Progress(e.scope, e.at + 1)'
      <4>1. e.at \in {1, 2, 3, 4} /\ e.scope \in {"local", "project"}
        BY <1>5 DEF Editing
      <4>2. /\ op = "strip" => files'[f].has \cap Setup!MangoMe = {}
            /\ op # "strip" => "server" \in files'[f].has
        BY <1>4, <3>1, <3>2 DEF Holds
      <4> HIDE DEF Setup!MangoMe
      <4>3. Setup!Target["local"] = "user" /\ Setup!Target["project"] = "project"
        BY DEF Setup!Target
      <4>4. "user" \in Setup!Files /\ "project" \in Setup!Files
        BY DEF Setup!Files
      <4> QED
        BY <1>5, <2>4, <3>1, <4>1, <4>2, <4>3, <4>4 DEF Progress, Clean
    <3>7. Holds(d, f, op)'
      BY <1>4, <2>2, <3>3 DEF Holds
    <3> QED
      BY <1>4, <2>2, <3>1, <3>4, <3>5, <3>6, <3>7
  <2> QED
    BY <1>1, <1>2, <1>3, <1>4, <2>2, <2>3, <2>4, <2>5, EditStep
<1> QED
  BY <1>2, <1>6, <1>7 DEF Setup!Rename

LEMMA NextEditStep ==
  ASSUME SetupInv, NEW s \in Setups, Setup!NextEdit(s)
  PROVE  SetupInv'
<1>1. PICK e : e = editing[s]
  OBVIOUS
<1>2. /\ e.pc = "next" /\ editing[s] # Setup!Idle /\ e \in Editing
      /\ UNCHANGED <<files, saved, temporary, given, crossing, client>>
  BY <1>1, EditOfSetup DEF Setup!NextEdit, Setup!Idle, SetupInv
<1>3. /\ files' \in [Setup!Files -> Contents] /\ saved' \in [Setup!Files -> Contents]
      /\ temporary' \in [Setup!Files -> Contents]
  BY <1>2 DEF SetupInv, SetupType
<1>4. Len(Setup!Edits[e.scope]) = 4 /\ e.at \in {1, 2, 3, 4} /\ e.scope \in {"local", "project"}
  BY <1>2, EditTable DEF Editing
<1>5. CASE e.at < 4
  <2>1. PICK d : d = [e EXCEPT !.pc = "read", !.at = e.at + 1]
    OBVIOUS
  <2>2. d \in Editing /\ d.scope = e.scope /\ d.at = e.at + 1 /\ d.data = e.data /\ d.pc = "read"
    <3>1. e.at + 1 \in 1..4 /\ "read" \in Steps
      BY <1>4, <1>5 DEF Steps
    <3> QED
      BY <1>2, <2>1, <3>1 DEF Editing
  <2>3. editing' = [editing EXCEPT ![s] = d] /\ installed' = installed
    BY <1>1, <1>4, <1>5, <2>1, Zenon DEF Setup!NextEdit
  <2>4. editing'[s] = d
    BY <2>3 DEF SetupInv, SetupType
  <2>5. ASSUME ~crossing
        PROVE  /\ \A x \in Setup!Files : FileOK(x)'
               /\ Reported' /\ ActiveOK(s)'
    <3>1. /\ installed = "none" /\ Reported /\ \A x \in Setup!Files : FileOK(x)
          /\ Progress(e.scope, e.at + 1) /\ Holds(e, Setup!Edit(s).file, Setup!Edit(s).op)
      BY <1>1, <1>2, <2>5, Running
    <3>2. (\A x \in Setup!Files : FileOK(x)') /\ Reported' /\ Progress(d.scope, d.at)'
      BY <1>2, <2>2, <2>3, <3>1 DEF FileOK, Reported, Progress, Clean
    <3>3. Setup!Edit(s) = Setup!Edits[e.scope][e.at] /\ Setup!Edit(s)' = Setup!Edits[e.scope][e.at + 1]
      BY <1>1, <2>2, <2>4 DEF Setup!Edit
    <3>4. Setup!Edit(s)'.op = "rewrite" => Setup!Edit(s)'.file = "project" /\ Setup!Edit(s).file = "project"
      BY <1>4, <1>5, <3>3, EditTable
    <3>5. Setup!Edit(s)'.op = "rewrite" => ("mine" \in given["project"].has => "mine" \in e.data)
      BY <1>2, <3>1, <3>4 DEF Holds
    <3>6. Holds(editing[s], Setup!Edit(s).file, Setup!Edit(s).op)'
      BY <1>2, <2>2, <2>4, <3>4, <3>5 DEF Holds
    <3> QED
      BY <2>2, <2>3, <2>4, <3>1, <3>2, <3>6 DEF ActiveOK
  <2> QED
    BY <1>2, <1>3, <2>2, <2>3, <2>5, SetupStep
<1>6. CASE e.at = 4
  <2>1. Setup!End(s) /\ installed' = Setup!Target[e.scope]
    BY <1>1, <1>4, <1>6 DEF Setup!NextEdit
  <2>2. ASSUME ~crossing
        PROVE  (\A x \in Setup!Files : FileOK(x)') /\ Reported'
    <3>1. /\ Reported /\ \A x \in Setup!Files : FileOK(x)
          /\ Progress(e.scope, 5)
      BY <1>1, <1>2, <1>6, <2>2, Running
    <3>2. \A x \in Setup!Files : FileOK(x)'
      BY <1>2, <3>1 DEF FileOK
    <3>3. installed' \in {"user", "project"} /\ "server" \in files[installed'].has
          /\ \A x \in {"user", "project"} \ {installed'} : Clean(x)
      BY <1>4, <2>1, <3>1 DEF Progress, Setup!Target
    <3>4. "server" \in Setup!MangoMe
      BY DEF Setup!MangoMe
    <3> QED
      BY <1>2, <3>1, <3>2, <3>3, <3>4 DEF Reported, Clean
  <2> QED
    BY <1>2, <1>3, <2>1, <2>2, SetupStep DEF Setup!End
<1> QED
  BY <1>4, <1>5, <1>6

LEMMA SetupBeginStep ==
  ASSUME SetupInv, NEW s \in Setups, NEW scope \in {"local", "project"}, Setup!Begin(s, scope)
  PROVE  SetupInv'
<1>1. /\ editing[s] = Setup!Idle
      /\ crossing' = (crossing \/ \E t \in Setups : editing[t] # Setup!Idle)
      /\ UNCHANGED <<files, saved, temporary, given, client>>
  BY DEF Setup!Begin
<1>2. PICK d : d = [pc |-> "read", scope |-> scope, at |-> 1, data |-> {}]
  OBVIOUS
<1>3. d \in Editing /\ d.pc = "read" /\ d.scope = scope /\ d.at = 1 /\ d.data = {}
  BY <1>2 DEF Editing, Steps
<1>4. \/ editing' = [editing EXCEPT ![s] = d] /\ installed' = "none"
      \/ UNCHANGED <<editing, installed>>
  BY <1>2, Zenon DEF Setup!Begin
<1>5. SetupType'
  BY <1>1, <1>3, <1>4 DEF SetupInv, SetupType
<1>6. ASSUME ~crossing'
      PROVE  Orderly'
  <2>1. Orderly /\ \A t \in Setups : editing[t] = Setup!Idle
    BY <1>1, <1>6 DEF SetupInv
  <2>2. \A f \in Setup!Files : FileOK(f)'
    BY <1>1, <2>1 DEF Orderly, FileOK
  <2>3. Reported'
    BY <1>1, <1>4, <2>1 DEF Orderly, Reported
  <2>4. \A t \in Setups \ {s} : editing'[t] = Setup!Idle
    BY <1>4, <2>1 DEF SetupInv, SetupType
  <2>5. editing'[s] # Setup!Idle => editing'[s] = d /\ installed' = "none"
    BY <1>4, <2>1 DEF SetupInv, SetupType
  <2>6. editing'[s] # Setup!Idle => ActiveOK(s)'
    <3> SUFFICES ASSUME editing'[s] = d, installed' = "none"
                 PROVE  ActiveOK(s)'
      BY <2>5
    <3>1. Setup!Edit(s)'.op = "strip"
      BY <1>3, EditTable DEF Setup!Edit
    <3> QED
      BY <1>3, <3>1 DEF ActiveOK, Progress, Holds
  <2> QED
    BY <2>2, <2>3, <2>4, <2>6 DEF Orderly, Lonely
<1> QED
  BY <1>5, <1>6 DEF SetupInv

\* What the client saves is lost only to an edit that has read the file before.
LEMMA ClientWritesStep ==
  ASSUME SetupInv, Setup!ClientWrites
  PROVE  SetupInv'
<1>1. PICK c : c = [files["user"] EXCEPT !.has = files["user"].has \cup {"fresh"}]
  OBVIOUS
<1>2. files' = [files EXCEPT !["user"] = c]
  BY <1>1, Zenon DEF Setup!ClientWrites
<1>3. /\ files["user"] \in Contents /\ files["user"].state = "text" /\ "user" \in Setup!Files
      /\ UNCHANGED <<saved, temporary, editing, installed, given, crossing>>
  BY DEF SetupInv, SetupType, Setup!ClientWrites, Setup!Files
<1>4. c \in Contents /\ c.state = "text" /\ c.has = files["user"].has \cup {"fresh"}
  BY <1>1, <1>3 DEF Contents, Entries
<1>5. files'["user"] = c /\ \A x \in Setup!Files \ {"user"} : files'[x] = files[x]
  BY <1>2, <1>3 DEF SetupInv, SetupType
<1>6. SetupType'
  BY <1>2, <1>3, <1>4 DEF SetupInv, SetupType
<1>7. ASSUME ~crossing
      PROVE  Orderly'
  <2>1. Orderly
    BY <1>7 DEF SetupInv
  <2>2. \A f \in Setup!Files : FileOK(f)'
    BY <1>3, <1>4, <1>5, <2>1 DEF Orderly, FileOK
  <2>3. \A f \in Setup!Files : files'[f].has \cap Setup!MangoMe = files[f].has \cap Setup!MangoMe
    BY <1>4, <1>5 DEF Setup!MangoMe
  <2>4. \A f \in Setup!Files : files[f].has \subseteq files'[f].has
    BY <1>4, <1>5
  <2>5. Reported'
    <3>1. installed # "none" => installed \in Setup!Files
      BY <2>1 DEF Orderly, Reported, Setup!Files
    <3>2. {f \in {"user", "project"} : files'[f].has \cap Setup!MangoMe # {}} =
          {f \in {"user", "project"} : files[f].has \cap Setup!MangoMe # {}}
      BY <2>3 DEF Setup!Files
    <3> HIDE DEF Setup!MangoMe
    <3> QED
      BY <1>3, <1>4, <1>5, <2>1, <2>4, <3>1, <3>2 DEF Orderly, Reported
  <2>6. ASSUME NEW s \in Setups, editing'[s] # Setup!Idle
        PROVE  ActiveOK(s)'
    <3>1. ActiveOK(s) /\ editing[s] \in Editing /\ Setup!Edit(s)' = Setup!Edit(s)
      BY <1>3, <2>1, <2>6 DEF Orderly, SetupInv, SetupType, Setup!Edit
    <3>2. /\ {"user", "project"} \subseteq Setup!Files
          /\ \A scope \in {"local", "project"} : Setup!Target[scope] \in Setup!Files
      BY DEF Setup!Files, Setup!Target
    <3>3. \A n \in 1..5, scope \in {"local", "project"} : Progress(scope, n) => Progress(scope, n)'
      BY <2>3, <2>4, <3>2 DEF Progress, Clean
    <3>4. Holds(editing[s], Setup!Edit(s).file, Setup!Edit(s).op)'
      BY <1>3, <3>1 DEF ActiveOK, Holds, Setup!ClientWrites
    <3>5. /\ editing[s].scope \in {"local", "project"}
          /\ (IF editing[s].pc = "next" THEN editing[s].at + 1 ELSE editing[s].at) \in 1..5
      BY <3>1 DEF Editing
    <3> QED
      BY <1>3, <3>1, <3>3, <3>4, <3>5 DEF ActiveOK
  <2> QED
    BY <1>3, <2>1, <2>2, <2>5, <2>6 DEF Orderly, Lonely
<1> QED
  BY <1>3, <1>6, <1>7 DEF SetupInv

LEMMA SetupNext == SetupInv /\ Setup!Next => SetupInv'
<1>1. ASSUME SetupInv, NEW s \in Setups, Setup!Crash(s)
      PROVE  SetupInv'
  BY <1>1, SetupEnds DEF Setup!Crash
<1> QED
  BY <1>1, SetupBeginStep, ReadStep, BackupOnceStep, CopyBackupStep, OpenTemporaryStep, WriteTemporaryStep,
     RenameStep, NextEditStep, ClientWritesStep DEF Setup!Next

LEMMA SetupStutter == SetupInv /\ UNCHANGED setup => SetupInv'
<1> SUFFICES ASSUME SetupInv, UNCHANGED setup PROVE SetupInv'
  OBVIOUS
<1>1. UNCHANGED <<files, saved, temporary, editing, installed, given, crossing, client>>
  BY DEF setup
<1>2. SetupType' /\ (Lonely => Lonely') /\ (Reported => Reported') /\ \A f : FileOK(f) => FileOK(f)'
  BY <1>1 DEF SetupInv, SetupType, Lonely, Reported, FileOK
<1>3. ASSUME NEW s \in Setups, ActiveOK(s)
      PROVE  ActiveOK(s)'
  <2>1. Setup!Edit(s)' = Setup!Edit(s) /\ editing'[s] = editing[s]
    BY <1>1 DEF Setup!Edit
  <2>2. \A scope, n : Progress(scope, n) => Progress(scope, n)'
    BY <1>1 DEF Progress, Clean
  <2>3. \A e, f, op : Holds(e, f, op) => Holds(e, f, op)'
    BY <1>1 DEF Holds
  <2> QED
    BY <1>1, <1>3, <2>1, <2>2, <2>3, Zenon DEF ActiveOK
<1> QED
  BY <1>1, <1>2, <1>3 DEF SetupInv, Orderly

-----------------------------------------------------------------------------
(* The host. *)

HostInv ==
    /\ part = "migration" => MigrationInv
    /\ part = "generation" => GenerationInv
    /\ part = "setup" => SetupInv
    /\ part = "session" => SessionInv

LEMMA HostInvariant == Spec => []HostInv
<1>1. Init => HostInv
  BY MigrationInit, GenerationInit, SetupInit, SessionInit DEF Init, HostInv
<1>2. HostInv /\ [Next]_<<part, migration, generation, setup, session>> => HostInv'
  <2> SUFFICES ASSUME HostInv, [Next]_<<part, migration, generation, setup, session>>
               PROVE  HostInv'
    OBVIOUS
  <2>1. part' = part
    BY NextPart
  <2>2. CASE part = "migration"
    <3>1. Migration!Next \/ UNCHANGED migration
      BY <2>2 DEF Next
    <3> QED
      BY <2>1, <2>2, <3>1, MigrationNext, MigrationStutter DEF HostInv
  <2>3. CASE part = "generation"
    <3>1. Generation!Next \/ UNCHANGED generation
      BY <2>3 DEF Next
    <3> QED
      BY <2>1, <2>3, <3>1, GenerationNext, GenerationStutter DEF HostInv
  <2>4. CASE part = "setup"
    <3>1. Setup!Next \/ UNCHANGED setup
      BY <2>4 DEF Next
    <3> QED
      BY <2>1, <2>4, <3>1, SetupNext, SetupStutter DEF HostInv
  <2>5. CASE part = "session"
    <3>1. Session!Next \/ UNCHANGED session
      BY <2>5 DEF Next
    <3> QED
      BY <2>1, <2>5, <3>1, SessionNext, SessionStutter DEF HostInv
  <2> QED
    BY <2>1, <2>2, <2>3, <2>4, <2>5 DEF HostInv
<1> QED
  BY <1>1, <1>2, PTL DEF Spec

\* prepare_mongodb_runtime, for any number of processes and starts and whatever dies where:
\* the operator's configuration is mongod.conf or a backup unless two backups share a name;
\* credentials are removed only when the configuration admits clients without them; and a
\* binding to another host is never touched unless the environment hides it or its file
\* cannot be read.
THEOREM MigrationRecovers == Spec => []MigrationIsRecoverable
<1>1. HostInv => MigrationIsRecoverable
  BY MigrationIsSafe DEF HostInv, MigrationIsRecoverable
<1> QED
  BY <1>1, HostInvariant, PTL

\* reconcile_managed_runtime_generation, for any number of repairs and processes: what a
\* signal reaches is a stale process or one that came later, and a repair leaves over no
\* stale process of its own user.
THEOREM RepairsAreAimed == Spec => []RepairIsAimed
<1>1. HostInv => RepairIsAimed
  BY DEF HostInv, GenerationInv, RepairIsAimed
<1> QED
  BY <1>1, HostInvariant, PTL

\* setup_clients, for any number of setups that do not overlap and die anywhere: the
\* client's files are whole, keep what the operator and the client wrote or have it in
\* their backup, unless a setup ended inside the copy that makes the backup, and hold one
\* server entry after a setup that reports success.
THEOREM SetupsRecover == Spec => []SetupIsRecoverable
<1>1. HostInv => SetupIsRecoverable
  BY SetupIsSafe DEF HostInv, SetupIsRecoverable
<1> QED
  BY <1>1, HostInvariant, PTL

\* _canonical_workspace_resolution and the restore gate, for any workspaces, projects and
\* processes: a productive call goes on only by a decision that had one project to choose.
THEOREM NothingGuessed == Spec => []NothingIsGuessed
<1>1. HostInv => NothingIsGuessed
  BY DEF HostInv, SessionInv, NothingIsGuessed
<1> QED
  BY <1>1, HostInvariant, PTL

==============================================================================
