--------------------------- MODULE GenerationChain ---------------------------
(***************************************************************************)
(* What contract_control.py promises of one Contract (README, "Contract-   *)
(* first turn binding and immutable generations"): its canonical           *)
(* generations form one history that only grows at its end; at any time at *)
(* most one turn holds the right to promote; only its holder extends the   *)
(* history, only by a new text, and a turn does so at most once.           *)
(***************************************************************************)
EXTENDS Naturals, Sequences

CONSTANTS Turns, Contents, None

VARIABLES
  history,  \* the canonical generations, oldest first
  holder    \* the turn that may promote the next one

vars == <<history, holder>>

Generations == [turn : Turns, content : Contents]

Init == history = <<>> /\ holder = None

\* A turn gets the right, perhaps in place of one that has given it up.
Grant(t) ==
  /\ \A i \in 1..Len(history) : history[i].turn # t
  /\ holder' = t
  /\ UNCHANGED history

\* The right is given up, or has expired.
Drop == holder' = None /\ UNCHANGED history

Promote(t, c) ==
  /\ holder = t
  /\ history # <<>> => history[Len(history)].content # c
  /\ history' = Append(history, [turn |-> t, content |-> c])
  /\ holder' = None

Next ==
  \/ \E t \in Turns : Grant(t)
  \/ Drop
  \/ \E t \in Turns, c \in Contents : Promote(t, c)

Spec == Init /\ [][Next]_vars
==============================================================================
