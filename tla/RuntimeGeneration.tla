--------------------------- MODULE RuntimeGeneration ---------------------------
(*****************************************************************************)
(* Recycling of managed MCP processes that an update left behind             *)
(* (runtime_generation.py).  A repair takes a snapshot of /proc, sends       *)
(* SIGTERM to the processes of another version, waits a bounded time and     *)
(* sends SIGKILL to the numbers that still exist.  Processes come and go     *)
(* meanwhile, a number can be given to another process, and two repairs, of  *)
(* the same or of different versions, can run at the same time.              *)
(*****************************************************************************)
EXTENDS Naturals, FiniteSets

CONSTANTS Repairs,
          Own,          \* Own[r]: the version of the installation that repairs
          Versions,     \* versions that managed processes may expect
          Pids,
          MaxBirths     \* bound: processes started

\* Of the constants.
GenerationAssumption == Own \in [Repairs -> Versions] /\ MaxBirths \in Nat

VARIABLES procs,        \* the process behind each number, or Gone
          repairing,    \* the repair of each installation
          births,
          hits,         \* history: the signal that the last step delivered
          leftOver      \* history: what a repair left of what it had found, if the last step reported

vars == <<procs, repairing, births, hits, leftOver>>

Gone == [kind |-> "gone"]
Idle == [pc |-> "idle"]
\* A managed process with or without an expected version, or a process of something else.
Kinds == Versions \cup {"unknown", "foreign"}
\* Ours: the repair may signal it.  Stubborn: it does not end on SIGTERM.
Processes(birth) == [kind : Kinds, birth : {birth}, ours : BOOLEAN, stubborn : BOOLEAN]

Init ==
    /\ procs \in [Pids -> {Gone} \cup Processes(0)]
    /\ repairing = [r \in Repairs |-> Idle]
    /\ births = 0 /\ hits = {} /\ leftOver = {}

Quiet == hits' = {} /\ leftOver' = {}

Exists(p) == procs[p] # Gone

\* managed_runtime_generation_snapshot: version drift needs an expected version.
MutStale(r, p) == procs[p].kind \in (Versions \cup {"unknown"}) \ {Own[r]}
Stale(r, p) == procs[p].kind \in Versions \ {Own[r]}

\* reconcile_managed_runtime_generation with repair.
Snapshot(r) ==
    /\ repairing[r] = Idle
    /\ \E p \in Pids : Stale(r, p)
    /\ repairing' = [repairing EXCEPT ![r] =
          [pc |-> "term", since |-> births, todo |-> {p \in Pids : Stale(r, p)}, found |-> {p \in Pids : Stale(r, p)},
           terminated |-> {}]]
    /\ Quiet /\ UNCHANGED <<procs, births>>

Hit(r, p) ==
    hits' = {[own |-> Own[r], kind |-> procs[p].kind, later |-> procs[p].birth > repairing[r].since]}

\* A number that is gone, or that the repair may not signal, is not escalated.
Terminate(r, p) ==
    /\ repairing[r].pc = "term" /\ p \in repairing[r].todo
    /\ LET delivered == Exists(p) /\ procs[p].ours
       IN /\ IF delivered THEN Hit(r, p) ELSE hits' = {}
          /\ repairing' = [repairing EXCEPT ![r] = [repairing[r] EXCEPT
                !.todo = repairing[r].todo \ {p},
                !.terminated = IF delivered THEN repairing[r].terminated \cup {p} ELSE repairing[r].terminated]]
          /\ procs' = [procs EXCEPT ![p] = IF delivered /\ ~@.stubborn THEN Gone ELSE @]
    /\ leftOver' = {} /\ UNCHANGED births

\* The wait ends when all are gone or the time is over, whichever is first.
EndWait(r) ==
    /\ repairing[r].pc = "term" /\ repairing[r].todo = {}
    /\ repairing' = [repairing EXCEPT ![r] = [@ EXCEPT !.pc = "kill", !.todo = repairing[r].terminated]]
    /\ Quiet /\ UNCHANGED <<procs, births>>

\* What exists under the number now.
Kill(r, p) ==
    /\ repairing[r].pc = "kill" /\ p \in repairing[r].todo
    /\ LET delivered == Exists(p) /\ procs[p].ours
       IN /\ IF delivered THEN Hit(r, p) ELSE hits' = {}
          /\ procs' = [procs EXCEPT ![p] = IF delivered THEN Gone ELSE @]
    /\ repairing' = [repairing EXCEPT ![r].todo = @ \ {p}]
    /\ leftOver' = {} /\ UNCHANGED births

\* The snapshot after the repair is the report.
Report(r) ==
    /\ repairing[r].pc = "kill" /\ repairing[r].todo = {}
    /\ leftOver' = {[ours |-> procs[p].ours, later |-> procs[p].birth > repairing[r].since] :
                                      p \in {q \in repairing[r].found : Exists(q) /\ Stale(r, q)}}
    /\ repairing' = [repairing EXCEPT ![r] = Idle]
    /\ hits' = {} /\ UNCHANGED <<procs, births>>

\* The repairing process dies.
Crash(r) ==
    /\ repairing[r] # Idle
    /\ repairing' = [repairing EXCEPT ![r] = Idle]
    /\ Quiet /\ UNCHANGED <<procs, births>>

\* A client starts a server, or anything starts, under a number that is free; any process
\* may end on its own.
Spawn(p) ==
    /\ ~Exists(p) /\ births < MaxBirths
    /\ births' = births + 1
    /\ \E new \in Processes(births') : procs' = [procs EXCEPT ![p] = new]
    /\ Quiet /\ UNCHANGED repairing

Exit(p) ==
    /\ Exists(p)
    /\ procs' = [procs EXCEPT ![p] = Gone]
    /\ Quiet /\ UNCHANGED <<repairing, births>>

Next ==
    \/ \E r \in Repairs :
          \/ Snapshot(r) \/ EndWait(r) \/ Report(r) \/ Crash(r)
          \/ \E p \in Pids : Terminate(r, p) \/ Kill(r, p)
    \/ \E p \in Pids : Spawn(p) \/ Exit(p)

Spec == Init /\ [][Next]_vars

-----------------------------------------------------------------------------
(* Properties. *)

\* A signal reaches a process of another known version, or one that was given the number
\* after the snapshot: only the existence of the number is checked before SIGKILL.  And a
\* repair that reports leaves of what it found only what it may not signal, or what came
\* after its snapshot.
RepairIsAimed ==
    /\ \A h \in hits : h.later \/ h.kind \in Versions \ {h.own}
    /\ \A l \in leftOver : l.later \/ ~l.ours
=============================================================================
