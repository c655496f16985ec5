----------------------------- MODULE HostMigration -----------------------------
(*****************************************************************************)
(* Zero-touch preparation of the local MongoDB (zero_touch.py), started once *)
(* per process by the first use of the service (runtime.py).  A process      *)
(* probes the endpoint without credentials; if authorization is enforced it  *)
(* rewrites mongod.conf, restarts mongod, and only when the path without     *)
(* credentials answers does it remove the credential files of the old        *)
(* version.  Every managed process of the host does this on its own: nothing *)
(* is locked, the configuration, the backups, the service and the files are  *)
(* shared, and a process can die at any step.                                *)
(*                                                                           *)
(* A configuration is its security section, as _rewrite_mongod_config        *)
(* classifies it; "torn" is a file that a copy left incomplete.              *)
(*****************************************************************************)
EXTENDS Naturals, FiniteSets, Functions

CONSTANTS Hosts,        \* managed processes of the host
          Roots,        \* those that run as root and may migrate
          MaxStarts,    \* bound: starts of a process
          MaxSeconds    \* bound: ticks of the clock that names backups

\* Of the constants.
HostAssumption == Roots \subseteq Hosts /\ {MaxStarts, MaxSeconds} \subseteq Nat

VARIABLES mongod,       \* content of mongod.conf
          serving,      \* configuration mongod runs with, or "down"
          backups,      \* content of each backup, by the second in its name
          uriFile,      \* endpoint in the mongodb-uri file: "loopback", "remote", or "empty"; "none" without a file
          otherFiles,   \* the other legacy files that are still there
          hosting,      \* the call of each process
          outcome,      \* its cached bootstrap: "none", "ready" or "blocked"
          starts, second,
          operator,     \* history: the configuration that the operator wrote
          origin,        \* history: the endpoint that the old version was bound to
          overridden,   \* history: a process named a local endpoint in its environment
          unread,       \* history: a process could not read the mongodb-uri file
          met,          \* history: two calls overlapped
          collided      \* history: two backups got the same name

history == <<operator, origin, overridden, unread, met, collided>>
vars == <<mongod, serving, backups, uriFile, otherFiles, hosting, outcome, starts, second, history>>

Enforcing == {"authorization", "keyFile"}
Rewritten == [authorization |-> "disabled", keyFile |-> "transition", torn |-> "disabled"]
Open == {"disabled", "transition"}
OtherFiles == {"maintenance-uri", "database-binding"}
Idle == [pc |-> "idle"]

Init ==
    /\ operator \in Enforcing \cup {"disabled", "complex"}
    /\ mongod = operator /\ serving = operator
    /\ backups = [x \in {} |-> "torn"]
    /\ origin \in {"none", "empty", "loopback", "remote"} /\ uriFile = origin /\ otherFiles \in {{}, OtherFiles}
    /\ hosting = [p \in Hosts |-> Idle] /\ outcome = [p \in Hosts |-> "none"]
    /\ starts = 0 /\ second = 0 /\ met = FALSE /\ collided = FALSE /\ overridden = FALSE /\ unread = FALSE

Goto(p, pc) == hosting' = [hosting EXCEPT ![p].pc = pc]

\* _bootstrap_database_once: the result, either way, is cached until the process ends.
End(p, result) ==
    /\ hosting' = [hosting EXCEPT ![p] = Idle]
    /\ outcome' = [outcome EXCEPT ![p] = result]

-----------------------------------------------------------------------------
(* prepare_mongodb_runtime. *)

\* _legacy_candidate_loopback_uri: the environment names the endpoint before the file does.
\* A file that is empty or cannot be read is passed over, and then the endpoint is local.
Endpoint(env, readable) ==
    IF env # "none" THEN env
    ELSE IF readable /\ uriFile \in {"loopback", "remote"} THEN uriFile ELSE "loopback"

\* A process is started by its client; only the first call bootstraps.  An endpoint that
\* is not on this host stops it before anything is touched.
Begin(p, env, readable) ==
    /\ hosting[p] = Idle /\ outcome[p] = "none"
    /\ starts < MaxStarts
    /\ starts' = starts + 1
    /\ met' = (met \/ \E q \in Hosts : hosting[q] # Idle)
    /\ overridden' = (overridden \/ env = "loopback")
    /\ unread' = (unread \/ (~readable /\ env = "none" /\ uriFile # "none"))
    /\ IF Endpoint(env, readable) = "remote" THEN End(p, "blocked")
       ELSE hosting' = [hosting EXCEPT ![p] = [pc |-> "probe"]] /\ UNCHANGED outcome
    /\ UNCHANGED <<mongod, serving, backups, uriFile, otherFiles, second, operator, origin, collided>>

\* _probe_ready, without credentials; at any time mongod may be out of reach.  Only root
\* goes on to the migration.
Admits(config) == config \in Open

Probe(p) ==
    /\ hosting[p].pc = "probe"
    /\ \/ Admits(serving) /\ Goto(p, "cleanup") /\ UNCHANGED outcome
       \/ ~Admits(serving) /\ serving # "down" /\ p \in Roots /\ Goto(p, "read") /\ UNCHANGED outcome
       \/ End(p, "blocked")
    /\ UNCHANGED <<mongod, serving, backups, uriFile, otherFiles, starts, second, history>>

\* _migrate_local_host_authorization: the checks of the host, then the rewrite is computed.
ReadConfig(p) ==
    /\ hosting[p].pc = "read"
    /\ \/ mongod \notin Open \cup DOMAIN Rewritten /\ End(p, "blocked")
       \/ mongod \in Open /\ Goto(p, "restart") /\ UNCHANGED outcome
       \/ /\ mongod \in DOMAIN Rewritten
          /\ hosting' = [hosting EXCEPT ![p] = [pc |-> "backup", updated |-> Rewritten[mongod]]]
          /\ UNCHANGED outcome
       \/ End(p, "blocked")
    /\ UNCHANGED <<mongod, serving, backups, uriFile, otherFiles, starts, second, history>>

MutSaved(p) == hosting[p].updated
\* What the backup gets: the file as it is by now.
Saved(p) == mongod

\* The name of a backup has a resolution of one second; an older file of that name is lost.
Backup(p) ==
    /\ hosting[p].pc = "backup"
    /\ backups' = [n \in DOMAIN backups \cup {second} |-> IF n = second THEN Saved(p) ELSE backups[n]]
    /\ collided' = (collided \/ second \in DOMAIN backups)
    /\ hosting' = [hosting EXCEPT ![p] = [pc |-> "replace", updated |-> hosting[p].updated, name |-> second]]
    /\ UNCHANGED <<mongod, serving, uriFile, otherFiles, outcome, starts, second, operator, origin, overridden, unread, met>>

\* _atomic_replace_config.
Replace(p) ==
    /\ hosting[p].pc = "replace"
    /\ mongod' = hosting[p].updated
    /\ hosting' = [hosting EXCEPT ![p] = [pc |-> "restart", name |-> hosting[p].name]]
    /\ UNCHANGED <<serving, backups, uriFile, otherFiles, outcome, starts, second, history>>

\* mongod comes up with the file as it is, or not at all; with a torn file it does not.
Restarted == serving' \in {mongod, "down"} \ {"torn"}

Restart(p) ==
    /\ hosting[p].pc = "restart"
    /\ Restarted
    /\ IF serving' # "down" THEN Goto(p, "verify") /\ UNCHANGED outcome
       ELSE IF "name" \in DOMAIN hosting[p] THEN Goto(p, "restore") /\ UNCHANGED outcome
       ELSE End(p, "blocked")
    /\ UNCHANGED <<mongod, backups, uriFile, otherFiles, starts, second, history>>

\* The backup is copied back in place, which truncates the file first.
Restore(p) ==
    /\ hosting[p].pc = "restore"
    /\ mongod' = "torn" /\ Goto(p, "restored")
    /\ UNCHANGED <<serving, backups, uriFile, otherFiles, outcome, starts, second, history>>

RestartOriginal(p) ==
    /\ hosting[p].pc = "restored"
    /\ mongod' = backups[hosting[p].name]
    /\ serving' \in {mongod', "down"} \ {"torn"}
    /\ End(p, "blocked")
    /\ UNCHANGED <<backups, uriFile, otherFiles, starts, second, history>>

\* The listener is awaited for 15 seconds and the endpoint probed again.  Neither failure
\* puts the backup back.
Verify(p) ==
    /\ hosting[p].pc = "verify"
    /\ \/ Admits(serving) /\ Goto(p, "cleanup") /\ UNCHANGED outcome
       \/ End(p, "blocked")
    /\ UNCHANGED <<mongod, serving, backups, uriFile, otherFiles, starts, second, history>>

\* _cleanup_legacy_local_host_state, file after file; a file that cannot be removed stops it.
RemoveUri(p) ==
    /\ hosting[p].pc = "cleanup"
    /\ \/ uriFile' = "none" /\ Goto(p, "others") /\ UNCHANGED outcome
       \/ UNCHANGED uriFile /\ End(p, "blocked")
    /\ UNCHANGED <<mongod, serving, backups, otherFiles, starts, second, history>>

RemoveOthers(p) ==
    /\ hosting[p].pc = "others"
    /\ \/ otherFiles' = {} /\ Goto(p, "final") /\ UNCHANGED outcome
       \/ \E rest \in SUBSET otherFiles : otherFiles' = rest /\ End(p, "blocked")
    /\ UNCHANGED <<mongod, serving, backups, uriFile, starts, second, history>>

FinalProbe(p) ==
    /\ hosting[p].pc = "final"
    /\ \/ Admits(serving) /\ End(p, "ready")
       \/ End(p, "blocked")
    /\ UNCHANGED <<mongod, serving, backups, uriFile, otherFiles, starts, second, history>>

-----------------------------------------------------------------------------
(* The host. *)

\* A process ends, in a call or not; the next one of its client starts from nothing.
Crash(p) ==
    /\ hosting[p] # Idle \/ outcome[p] # "none"
    /\ End(p, "none")
    /\ UNCHANGED <<mongod, serving, backups, uriFile, otherFiles, starts, second, history>>

\* mongod is restarted, or the host is.
Reboot ==
    /\ serving # mongod /\ Restarted
    /\ UNCHANGED <<mongod, backups, uriFile, otherFiles, hosting, outcome, starts, second, history>>

Tick ==
    /\ second < MaxSeconds /\ second' = second + 1
    /\ UNCHANGED <<mongod, serving, backups, uriFile, otherFiles, hosting, outcome, starts, history>>

Next ==
    \/ \E p \in Hosts :
          \/ \E env \in {"none", "loopback", "remote"}, readable \in BOOLEAN : Begin(p, env, readable)
          \/ Probe(p) \/ ReadConfig(p) \/ Backup(p) \/ Replace(p) \/ Restart(p)
          \/ Restore(p) \/ RestartOriginal(p) \/ Verify(p) \/ RemoveUri(p) \/ RemoveOthers(p)
          \/ FinalProbe(p) \/ Crash(p)
    \/ Reboot \/ Tick

Spec == Init /\ [][Next]_vars

-----------------------------------------------------------------------------
(* Properties. *)

\* What a migration may destroy.  The configuration that the operator wrote is mongod.conf
\* or a backup, whatever process dies where, unless two backups got the same name.  While
\* no two processes migrate at the same time, the old credentials are gone only if the
\* file mongod starts from admits clients without them or was torn by a death.  And a
\* binding to another host is removed only if a process had a local one in its environment,
\* which hides it, or could not read the file that holds it.
MigrationIsRecoverable ==
    /\ ~collided => operator = mongod \/ operator \in Range(backups)
    /\ ~met /\ uriFile # origin => mongod \in Open \cup {"torn"}
    /\ origin = "remote" /\ ~overridden /\ ~unread => uriFile = origin
=============================================================================
