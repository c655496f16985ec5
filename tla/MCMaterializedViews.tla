------------------------- MODULE MCMaterializedViews -------------------------
(* Small instances of MaterializedViews. *)
EXTENDS MaterializedViews

CONSTANTS s1, s2, x1, e1, e2, p1, c1, c2

\* Every plan proposes x1.
OneTarget == [p \in Plans |-> x1]

\* All contracts are declared under one identifier.
OneIdentifier == [c \in Contracts |-> "DOC-1"]

\* s1 takes a Slice and an effect through their lives; s2 calls in between.
ClientUses ==
  [s \in Sessions |->
     IF s = s1 THEN OperationNames \ {"submit_plan", "checkpoint_work"}
     ELSE {"submit_plan", "register_contract", "checkpoint_work"}]
ClientCalls == [s \in Sessions |-> IF s = s1 THEN 5 ELSE 1]

\* Clients that start the Slice and record intents.
IntentUses == [s \in Sessions |-> {"start_slice", "record_intent"}]
FewCalls == [s \in Sessions |-> 2]
==============================================================================
