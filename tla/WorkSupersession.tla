--------------------------- MODULE WorkSupersession ---------------------------
(*****************************************************************************)
(* supersede_work (work_control.py): a duplicate WorkIdentity is archived by *)
(* a confirmed SUPERSEDES edge to the canonical one.  The checks read the    *)
(* edges and the insertion comes later, with no lock and no unique index on  *)
(* edges.  Each write is followed by a refresh of the work's view, which is  *)
(* refused for good when anybody else wrote that view in between.  A prompt  *)
(* that matches archived work is led along the edges.                        *)
(*****************************************************************************)
EXTENDS Naturals, FiniteSets, Functions

CONSTANTS Sessions, Works,
          Project,      \* Project[w]
          Hops,         \* how far a candidate is followed, 8 in the code
          MaxLinks      \* bound: calls of supersede_work

\* Of the constants.
SupersessionAssumption ==
    /\ DOMAIN Project = Works
    /\ Hops \in Nat /\ MaxLinks \in Nat

VARIABLES supersedes,        \* confirmed SUPERSEDES edges between works
          recorded,       \* <<edge, work>>: the assurance history of work tells of edge
          modifyTurns,        \* works with a MODIFY turn of the caller
          linking, linked,
          raced,        \* history: two calls overlapped
          cut           \* history: edges that a call has left without both events

docs == <<supersedes, recorded, modifyTurns>>
vars == <<docs, linking, linked, raced, cut>>

Idle == [pc |-> "idle"]

Init ==
    /\ supersedes = {} /\ recorded = {} /\ modifyTurns = {}
    /\ linking = [s \in Sessions |-> Idle]
    /\ linked = 0 /\ raced = FALSE /\ cut = {}

Goto(s, pc) == linking' = [linking EXCEPT ![s].pc = pc]
End(s) == linking' = [linking EXCEPT ![s] = Idle]

Successors(w) == {e[2] : e \in {f \in supersedes : f[1] = w}}
MutSuperseded(w) == \E e \in supersedes : e[2] = w
Superseded(w) == \E e \in supersedes : e[1] = w

\* supersede_work: a replay answers at once; otherwise the caller gets its MODIFY turn.
Begin(s, old, new) ==
    /\ linking[s] = Idle
    /\ linked < MaxLinks
    /\ linked' = linked + 1
    /\ raced' = (raced \/ \E t \in Sessions : linking[t] # Idle)
    /\ IF <<old, new>> \in supersedes
       THEN UNCHANGED <<linking, modifyTurns>>
       ELSE /\ linking' = [linking EXCEPT ![s] = [pc |-> "check", edge |-> <<old, new>>]]
            /\ modifyTurns' = modifyTurns \cup {old}
    /\ UNCHANGED <<supersedes, recorded, cut>>

\* _link_work_supersession.
Allowed(e) ==
    /\ e[1] # e[2]
    /\ Project[e[1]] = Project[e[2]]
    /\ ~Superseded(e[1])
    /\ ~Superseded(e[2])
    /\ e[1] \in modifyTurns

\* An edge that somebody has inserted meanwhile is returned as it is.
Check(s) ==
    LET e == linking[s].edge IN
    /\ linking[s].pc = "check"
    /\ CASE e \in supersedes -> Goto(s, "found")
         [] e \notin supersedes /\ Allowed(e) -> Goto(s, "insert")
         [] OTHER -> End(s)
    /\ UNCHANGED <<docs, linked, raced, cut>>

\* link: an edge that is there is returned, otherwise inserted.
Insert(s) ==
    /\ linking[s].pc = "insert"
    /\ supersedes' = supersedes \cup {linking[s].edge}
    /\ Goto(s, "inserted")
    /\ UNCHANGED <<recorded, modifyTurns, linked, raced, cut>>

\* The edge is there, and the call has yet to tell both works of it.
Telling(s) == linking[s].pc \in {"found", "inserted", "told"}

\* _append_assurance_event: WORK_SUPERSEDED for the archived work,
AppendSuperseded(s) ==
    /\ linking[s].pc \in {"found", "inserted"}
    /\ recorded' = recorded \cup {<<linking[s].edge, linking[s].edge[1]>>}
    /\ Goto(s, "told")
    /\ UNCHANGED <<supersedes, modifyTurns, linked, raced, cut>>

\* and WORK_SUPERSEDES for the canonical one.  A refusal of the last refresh loses nothing.
AppendSupersedes(s) ==
    /\ linking[s].pc = "told"
    /\ recorded' = recorded \cup {<<linking[s].edge, linking[s].edge[2]>>}
    /\ End(s)
    /\ UNCHANGED <<supersedes, modifyTurns, linked, raced, cut>>

\* The call ends where it is.
CutShort(s) ==
    /\ End(s)
    /\ cut' = IF Telling(s) THEN cut \cup {linking[s].edge} ELSE cut
    /\ UNCHANGED <<docs, linked, raced>>

\* _refresh_work_view, after the turn, the edge and the first event: its compare-and-set is
\* not tried again.  Every operation on either work writes the same views.
Refused(s) == linking[s].pc \in {"check", "inserted", "told"} /\ CutShort(s)

Crash(s) == linking[s] # Idle /\ CutShort(s)

Next ==
    \E s \in Sessions :
        \/ \E old, new \in Works : Begin(s, old, new)
        \/ Check(s) \/ Insert(s) \/ AppendSuperseded(s) \/ AppendSupersedes(s)
        \/ Refused(s) \/ Crash(s)

Spec == Init /\ [][Next]_vars

-----------------------------------------------------------------------------
\* work_candidate_for_request: the works at which following w may end, by the hops allowed.
Reached[hops \in 0..Hops] ==
    [w \in Works |-> IF hops = 0 \/ ~Superseded(w) THEN {w}
                     ELSE UNION {Reached[hops - 1][v] : v \in Successors(w)}]

(* Properties. *)

\* While no two calls overlap, archived work leads to one work of the same project: the
\* edges have no fork and no cycle.  A prompt is then never led to work that is archived
\* itself, as long as there are no more edges than a candidate is followed: after its hops
\* work_candidate_for_request stops silently.  The assurance histories tell only of edges, and
\* the canonical work only of what the archived one tells.  An edge is missing there only when
\* a call that had it was cut short, by its death or by the refusal of a refresh; and nothing
\* adds the events later, since a replay answers ALREADY_SUPERSEDED.
CandidateIsCanonical ==
    /\ ~raced => \A w \in Works : \E v \in Works :
                     /\ Reached[Hops][w] = {v} /\ Project[v] = Project[w]
                     /\ Cardinality(supersedes) <= Hops => ~Superseded(v)
    /\ \A e \in supersedes : \/ {<<e, e[1]>>, <<e, e[2]>>} \subseteq recorded \/ e \in cut
                             \/ \E s \in Sessions : Telling(s) /\ linking[s].edge = e
    /\ \A r \in recorded : r[1] \in supersedes /\ <<r[1], r[1][1]>> \in recorded
    /\ ~raced => \A e \in cut : <<e, e[2]>> \notin recorded
=============================================================================
