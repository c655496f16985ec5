------------------------ MODULE MCContractGeneration ------------------------
(* Small instances of ContractGeneration. *)
EXTENDS ContractGeneration

CONSTANTS s1, s2, t1, t2

\* Two sessions of one actor: either may use the grant that the other got.
OneActor == [s \in Sessions |-> s1]
==============================================================================
