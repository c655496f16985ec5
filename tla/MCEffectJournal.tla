-------------------------- MODULE MCEffectJournal ---------------------------
(***************************************************************************)
(* Small instances of EffectJournal: worker sessions hold an EXECUTE turn, *)
(* the verifier session a VERIFY turn.                                     *)
(***************************************************************************)
EXTENDS EffectJournal, TLC

CONSTANTS w1, w2, v1

MCTurnMode == [s \in Sessions |-> IF s \in Verifiers THEN "VERIFY" ELSE "EXECUTE"]

\* PARTIAL is treated like UNKNOWN and FAILED like NOT_EXECUTED by every guard.
MCReportable == {"UNKNOWN", "CONFIRMED", "NOT_EXECUTED"}

Workers == Permutations(Sessions \ Verifiers)
=============================================================================
