----------------------------- MODULE MCHostRuntime -----------------------------
(* The runtime on a host, in four parts that touch different state: the      *)
(* migration of the local database, the recycling of processes after an      *)
(* update, the setup of the clients and the binding of a session.  Each      *)
(* behaviour exercises one of them; the state of the others is off.          *)
EXTENDS Naturals, TLC

CONSTANTS Hosts, Roots, MaxStarts, MaxSeconds,
          Repairs, Own, Versions, Pids, MaxBirths,
          Setups, MaxSetups,
          Clients, Paths, Imported, MaxFamilies
VARIABLES part,
          mongod, serving, backups, uriFile, otherFiles, hosting, outcome, starts, second,
          operator, origin, overridden, unread, met, collided,
          procs, repairing, births, hits, leftOver,
          files, saved, temporary, editing, installed, setups, given, crossing, client,
          projects, homes, bound, decision, effects

migration == <<mongod, serving, backups, uriFile, otherFiles, hosting, outcome, starts, second,
               operator, origin, overridden, unread, met, collided>>
generation == <<procs, repairing, births, hits, leftOver>>
setup == <<files, saved, temporary, editing, installed, setups, given, crossing, client>>
session == <<projects, homes, bound, decision, effects>>

Migration  == INSTANCE HostMigration
Generation == INSTANCE RuntimeGeneration
Setup      == INSTANCE ClientSetup
Session    == INSTANCE SessionBinding

ASSUME RuntimeAssumption ==
    /\ Migration!HostAssumption /\ Generation!GenerationAssumption
    /\ Setup!SetupAssumption /\ Session!BindingAssumption

Off == "off"
MigrationOff ==
    /\ mongod = Off /\ serving = Off /\ backups = Off /\ uriFile = Off /\ otherFiles = Off
    /\ hosting = Off /\ outcome = Off /\ starts = Off /\ second = Off
    /\ operator = Off /\ origin = Off /\ overridden = Off /\ unread = Off /\ met = Off /\ collided = Off
GenerationOff == procs = Off /\ repairing = Off /\ births = Off /\ hits = Off /\ leftOver = Off
SetupOff ==
    /\ files = Off /\ saved = Off /\ temporary = Off /\ editing = Off /\ installed = Off
    /\ setups = Off /\ given = Off /\ crossing = Off /\ client = Off
SessionOff == projects = Off /\ homes = Off /\ bound = Off /\ decision = Off /\ effects = Off

Init ==
    \/ part = "migration" /\ Migration!Init /\ GenerationOff /\ SetupOff /\ SessionOff
    \/ part = "generation" /\ Generation!Init /\ MigrationOff /\ SetupOff /\ SessionOff
    \/ part = "setup" /\ Setup!Init /\ MigrationOff /\ GenerationOff /\ SessionOff
    \/ part = "session" /\ Session!Init /\ MigrationOff /\ GenerationOff /\ SetupOff

Next ==
    /\ UNCHANGED part
    /\ \/ part = "migration" /\ Migration!Next /\ UNCHANGED <<generation, setup, session>>
       \/ part = "generation" /\ Generation!Next /\ UNCHANGED <<migration, setup, session>>
       \/ part = "setup" /\ Setup!Next /\ UNCHANGED <<migration, generation, session>>
       \/ part = "session" /\ Session!Next /\ UNCHANGED <<migration, generation, setup>>

Spec == Init /\ [][Next]_<<part, migration, generation, setup, session>>

MCOwn == [r \in Repairs |-> IF r = 1 THEN "v1" ELSE "v2"]
MCPaths == {<<>>, <<"a">>, <<"a", "b">>}
MCImported == {<<"x">>, <<"y">>}
Symmetry == Permutations(Hosts) \cup Permutations(Pids) \cup Permutations(Setups)

\* prepare_mongodb_runtime: a migration destroys nothing that recovery needs.
MigrationIsRecoverable == part = "migration" => Migration!MigrationIsRecoverable
\* reconcile_managed_runtime_generation: signals reach stale processes, and all of them.
RepairIsAimed == part = "generation" => Generation!RepairIsAimed
\* setup_clients: no setup loses or tears what others wrote.
SetupIsRecoverable == part = "setup" => Setup!SetupIsRecoverable
\* restore_workspace_state: no productive call goes on a guessed workspace.
NothingIsGuessed == part = "session" => Session!NothingIsGuessed
=============================================================================
