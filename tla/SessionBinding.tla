----------------------------- MODULE SessionBinding -----------------------------
(*****************************************************************************)
(* What a client's session is bound to (runtime.py, mcp_server.py).  Each    *)
(* MCP process keeps the workspace it is bound to and the last restore       *)
(* decision, both volatile; the projects and families are in the store, and  *)
(* other sessions admit and import work meanwhile.  A productive call asks   *)
(* the decision that the process holds, not the store.                       *)
(*                                                                           *)
(* A workspace is its path, a sequence of names.  Its own project has the    *)
(* path as key (workspace_project_key); an imported project has another key, *)
(* and its families name workspaces in their scopes.                         *)
(*****************************************************************************)
EXTENDS Naturals, Sequences, FiniteSets, FiniteSetsExt, SequencesExt

CONSTANTS Clients,
          Paths,        \* workspaces
          Imported,     \* keys of imported projects
          MaxFamilies   \* bound: families

\* Of the constants.
BindingAssumption == MaxFamilies \in Nat /\ Paths \subseteq Seq(STRING)

VARIABLES projects,     \* keys of the projects in the store
          homes,        \* families: their project, the workspaces they name, whether work can go on
          bound,        \* the workspace each process is bound to, or Nowhere
          decision,     \* its last restore decision, or None
          effects       \* history: the decision that let a call through in the last step

vars == <<projects, homes, bound, decision, effects>>

Nowhere == <<"nowhere">>
None == [state |-> "none", project |-> Nowhere, meant |-> {}]
Homes == [project : Imported, scopes : (SUBSET Paths) \ {{}}, ready : BOOLEAN]

Init ==
    /\ projects = {} /\ homes = {}
    /\ bound = [c \in Clients |-> Nowhere] /\ decision = [c \in Clients |-> None]
    /\ effects = {}

-----------------------------------------------------------------------------
(* _canonical_workspace_resolution. *)

Scopes(k) == UNION {h.scopes : h \in {g \in homes : g.project = k}}
Related(w, v) == IsPrefix(w, v) \/ IsPrefix(v, w)
\* Rank and distance of _path_relation as one number: the workspace itself, then those around
\* it, nearest first, then those below it, which are longer than any of these is far.
Distance(w, v) == IF IsPrefix(v, w) THEN Len(w) - Len(v) ELSE Len(v)
Candidates(w) == {k \in projects : \E v \in Scopes(k) : Related(w, v)}
Nearest(w, k) == Min({Distance(w, v) : v \in {u \in Scopes(k) : Related(w, u)}})
Best(w) == LET least == Min({Nearest(w, k) : k \in Candidates(w)})
           IN {k \in Candidates(w) : Nearest(w, k) = least}

MutResolved(w, k) == Candidates(w) # {} /\ Best(w) = {k}
Resolved(w, k) ==
    /\ Candidates(w) # {} /\ Best(w) = {k}
    /\ Nearest(w, k) > Len(w) => Cardinality(Candidates(w)) = 1

-----------------------------------------------------------------------------
(* restore_workspace_state. *)

\* session_restore: a project without families, or with a family that has neither a
\* specification nor admitted intent, is partial.
StateOf(k) ==
    LET of == {h \in homes : h.project = k}
    IN IF k \notin projects THEN "STATE_NOT_FOUND"
       ELSE IF of # {} /\ \A h \in of : h.ready THEN "STATE_FOUND" ELSE "STATE_PARTIAL"

\* What the workspace can mean, for the properties: its own project; otherwise those of the
\* nearest workspace around it; otherwise every project below it.
Meant(w) ==
    LET around == {v \in UNION {Scopes(k) : k \in projects} : IsPrefix(v, w)}
    IN IF w \in projects THEN {w}
       ELSE IF around # {} THEN {k \in projects : \E v \in Scopes(k) : v \in around /\ \A u \in around : Len(u) <= Len(v)}
       ELSE {k \in projects : \E v \in Scopes(k) : IsPrefix(w, v)}

Decided(w) ==
    LET rebound == {k \in projects : Resolved(w, k)}
        k == CHOOSE x \in rebound : TRUE
        restored ==
            IF StateOf(w) # "STATE_NOT_FOUND" THEN [state |-> StateOf(w), project |-> w]
            ELSE IF rebound # {} THEN [state |-> StateOf(k), project |-> k]
            ELSE IF Candidates(w) # {} THEN [state |-> "STATE_PARTIAL", project |-> Nowhere]
            ELSE [state |-> "STATE_NOT_FOUND", project |-> Nowhere]
    IN [state |-> restored.state, project |-> restored.project, meant |-> Meant(w)]

\* session_restore, session_bootstrap and reconcile_assignment bind the process as well.
Restore(c, w) ==
    /\ bound' = [bound EXCEPT ![c] = w]
    /\ decision' = [decision EXCEPT ![c] = Decided(w)]
    /\ effects' = {} /\ UNCHANGED <<projects, homes>>

\* workspace_status binds and decides nothing.
Look(c, w) ==
    /\ bound' = [bound EXCEPT ![c] = w]
    /\ effects' = {} /\ UNCHANGED <<projects, homes, decision>>

-----------------------------------------------------------------------------
(* Productive calls. *)

\* _restore_gate: without a decision the workspace that the client started in is restored.
AtGate(c, start) == IF decision[c] = None THEN Decided(IF bound[c] = Nowhere THEN start ELSE bound[c]) ELSE decision[c]
BoundAtGate(c, start) == IF decision[c] = None /\ bound[c] = Nowhere THEN start ELSE bound[c]

\* begin_work, start_slice, claim_done and the others: work of any family that has a
\* WorkIdentity.
Productive(c, start) ==
    /\ decision' = [decision EXCEPT ![c] = AtGate(c, start)]
    /\ bound' = [bound EXCEPT ![c] = BoundAtGate(c, start)]
    /\ IF AtGate(c, start).state = "STATE_FOUND" /\ \E h \in homes : h.ready
       THEN effects' = {AtGate(c, start)}
       ELSE effects' = {}
    /\ UNCHANGED <<projects, homes>>

\* enter_work: also where nothing was found.  The workspace's own project gets the family,
\* and the process remembers that state was found; a candidate for the same work, or an
\* error, changes nothing.
EnterWork(c, start) ==
    LET w == BoundAtGate(c, start)
        free == AtGate(c, start).state \in {"STATE_FOUND", "STATE_NOT_FOUND"}
    IN /\ bound' = [bound EXCEPT ![c] = w]
       /\ \/ /\ free /\ Cardinality(homes) < MaxFamilies
             /\ projects' = projects \cup {w}
             /\ homes' = homes \cup {[project |-> w, scopes |-> {w}, ready |-> TRUE]}
             /\ decision' = [decision EXCEPT ![c] = [state |-> "STATE_FOUND", project |-> w, meant |-> {w}]]
          \/ /\ decision' = [decision EXCEPT ![c] = AtGate(c, start)]
             /\ UNCHANGED <<projects, homes>>
       /\ effects' = {}

-----------------------------------------------------------------------------
\* create_project, create_family and import_contract_bundle; a family of history gets a
\* normative target later.
Import(h) ==
    /\ h \notin homes /\ Cardinality(homes) < MaxFamilies
    /\ projects' = projects \cup {h.project}
    /\ homes' = homes \cup {h}
    /\ effects' = {} /\ UNCHANGED <<bound, decision>>

CreateProject(k) ==
    /\ k \notin projects
    /\ projects' = projects \cup {k}
    /\ effects' = {} /\ UNCHANGED <<homes, bound, decision>>

MakeReady(h) ==
    /\ ~h.ready
    /\ homes' = (homes \ {h}) \cup {[h EXCEPT !.ready = TRUE]}
    /\ effects' = {} /\ UNCHANGED <<projects, bound, decision>>

\* The process ends; the client starts another one.
Restart(c) ==
    /\ bound' = [bound EXCEPT ![c] = Nowhere]
    /\ decision' = [decision EXCEPT ![c] = None]
    /\ effects' = {} /\ UNCHANGED <<projects, homes>>

Next ==
    \/ \E c \in Clients :
          \/ \E w \in Paths : Restore(c, w) \/ Look(c, w) \/ Productive(c, w) \/ EnterWork(c, w)
          \/ Restart(c)
    \/ \E h \in Homes : Import(h)
    \/ \E k \in Imported : CreateProject(k)
    \/ \E h \in homes : MakeReady(h)

Spec == Init /\ [][Next]_vars

-----------------------------------------------------------------------------
(* Properties. *)

\* A process never lets a productive call through on a guess: what it decided on was, when
\* it decided, the only project that its workspace could mean, however work was admitted
\* and imported before and whichever workspace the process was bound to.
NothingIsGuessed == \A e \in effects : e.meant = {e.project}
=============================================================================
