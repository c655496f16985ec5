---------------------------- MODULE EffectLedger ----------------------------
(***************************************************************************)
(* What PER/1 promises about the external effects of one Slice, with every *)
(* operation atomic: no sessions, no document revisions, no crashes.       *)
(*                                                                         *)
(* "sending" an effect is irrevocable, so it may be repeated only after    *)
(* the previous attempt is known not to have happened, and a settled       *)
(* effect never changes again.  EffectJournal implements this ledger.      *)
(***************************************************************************)
EXTENDS Naturals

CONSTANT Effects

VARIABLES phase,     \* phase[e]: what the ledger knows about e
          attempts,  \* attempts[e]: how often e was sent
          sealed     \* effects on whose settlement the Slice was closed

ledgerVars == <<phase, attempts, sealed>>

Phases == {"none", "authorized", "inflight", "notExecuted", "unclear",
           "confirmed", "settled", "delta"}

\* Known non-execution, an unclear outcome, or a confirmed execution.
Observed == {"notExecuted", "unclear", "confirmed"}

Init ==
  /\ phase = [e \in Effects |-> "none"]
  /\ attempts = [e \in Effects |-> 0]
  /\ sealed = {}

Authorize(e) ==
  /\ phase[e] = "none"
  /\ phase' = [phase EXCEPT ![e] = "authorized"]
  /\ UNCHANGED <<attempts, sealed>>

Send(e) ==
  /\ phase[e] \in {"authorized", "notExecuted"}
  /\ phase' = [phase EXCEPT ![e] = "inflight"]
  /\ attempts' = [attempts EXCEPT ![e] = @ + 1]
  /\ UNCHANGED sealed

Observe(e) ==
  /\ phase[e] \in Observed \cup {"inflight", "delta"}
  /\ \E p \in Observed : phase' = [phase EXCEPT ![e] = p]
  /\ UNCHANGED <<attempts, sealed>>

Settle(e) ==
  /\ phase[e] = "confirmed"
  /\ phase' = [phase EXCEPT ![e] = "settled"]
  /\ UNCHANGED <<attempts, sealed>>

\* Reconciled with satisfied = false: a known unresolved delta.
KeepDelta(e) ==
  /\ phase[e] \in Observed
  /\ phase' = [phase EXCEPT ![e] = "delta"]
  /\ UNCHANGED <<attempts, sealed>>

Seal ==
  /\ sealed' \in SUBSET {e \in Effects : phase[e] = "settled"}
  /\ UNCHANGED <<phase, attempts>>

Next ==
  \/ \E e \in Effects :
       Authorize(e) \/ Send(e) \/ Observe(e) \/ Settle(e) \/ KeepDelta(e)
  \/ Seal

Spec == Init /\ [][Next]_ledgerVars
=============================================================================
