---------------------------- MODULE MCScopedAudit -----------------------------
(*****************************************************************************)
(* A chain of three entities of the family, of which the last relation is    *)
(* confirmed during the audit, a reference, and an entity of another family. *)
(*****************************************************************************)
EXTENDS ScopedAudit
CONSTANTS contract, slice, plan, ref, foreign
MCLinks       == {<<contract, slice>>}
MCConfirmable == {<<plan, slice>>}
MCSeeds       == {{contract}}
MCReports     == {{}, {ref, foreign}}
=============================================================================
