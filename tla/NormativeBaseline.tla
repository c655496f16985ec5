--------------------------- MODULE NormativeBaseline --------------------------
(*****************************************************************************)
(* What a work is normed by (work_control.py, service.py): the specification *)
(* its family points at, the contracts in effect and their generations.      *)
(* Every call that changes them materialises the baseline of the semantics   *)
(* afterwards, in a step of its own; a plan is bound to a baseline and is    *)
(* refused when the semantics has moved on.                                  *)
(*                                                                           *)
(* One family with an admitted work.  A baseline is its semantics.  A step   *)
(* is one write or the reads between two writes; the reads that make up one  *)
(* semantics are one step.  The text of a specification is its identity.     *)
(*****************************************************************************)
EXTENDS Naturals, Sequences, FiniteSets, FiniteSetsExt

CONSTANTS Sessions, Contracts,
          First,            \* contracts registered at the start
          MaxChanges          \* bound: calls

\* Of the constants.
BaselineAssumption == First \subseteq Contracts /\ MaxChanges \in Nat

VARIABLES specs,        \* the specifications of the family, in order of insertion
          family,       \* the family: the specification it points at, and its revision
          contracts,    \* contracts registered
          evolution,        \* confirmed SUPERSEDES edges between them
          generations,  \* the generation of each contract's head
          materialized,    \* semantics that have a baseline
          boundPlans,        \* the baselines that plans are bound to
          changing, changed,
          casualty,     \* history: a call has changed something and then failed or died
          promoted      \* history: a generation was promoted since a baseline was made

docs == <<specs, family, contracts, evolution, generations, materialized, boundPlans>>
vars == <<docs, changing, changed, casualty, promoted>>

Idle == [pc |-> "idle"]

Init ==
    /\ specs = <<>>
    /\ family = [spec |-> 0, rev |-> 0]
    /\ contracts = First
    /\ evolution = {}
    /\ generations = [c \in Contracts |-> 1]
    /\ materialized = {[spec |-> 0, specRev |-> 0, contracts |-> First \X {1}]}
    /\ boundPlans = {}
    /\ changing = [s \in Sessions |-> Idle]
    /\ changed = 0 /\ casualty = FALSE /\ promoted = FALSE

Goto(s, pc) == changing' = [changing EXCEPT ![s].pc = pc]
End(s) == changing' = [changing EXCEPT ![s] = Idle]
Fail(s) == End(s) /\ casualty' = TRUE

\* effective_family_view: nothing confirmed supersedes the contract.
Effective == {c \in contracts : \A e \in evolution : e[2] # c}

\* _normative_semantics; the revision of the specification is part of it.
Semantics ==
    [spec |-> family.spec,
     specRev |-> IF family.spec = 0 THEN 0 ELSE specs[family.spec].rev,
     contracts |-> {<<c, generations[c]>> : c \in Effective}]

Begin(s, c) ==
    /\ changing[s] = Idle
    /\ changed < MaxChanges
    /\ changed' = changed + 1
    /\ changing' = [changing EXCEPT ![s] = c]
    /\ UNCHANGED <<casualty, promoted>>

Versions == {specs[n].version : n \in DOMAIN specs}

-----------------------------------------------------------------------------
(* create_spec. *)

\* The reads: the family, the version to be given, the specification to be retired.
BeginSpec(s, prior) ==
    /\ prior = 0 \/ prior \in DOMAIN specs
    /\ Begin(s, [pc |-> IF prior = 0 THEN "insert" ELSE "retire",
                 familyRev |-> family.rev, version |-> Max(Versions \cup {0}) + 1,
                 prior |-> prior, priorRev |-> IF prior = 0 THEN 0 ELSE specs[prior].rev, spec |-> 0])
    /\ UNCHANGED docs

RetireSpec(s) ==
    LET c == changing[s] IN
    /\ c.pc = "retire"
    /\ IF specs[c.prior].rev = c.priorRev
       THEN /\ specs' = [specs EXCEPT ![c.prior] = [specs[c.prior] EXCEPT !.effective = FALSE, !.rev = c.priorRev + 1]]
            /\ Goto(s, "insert")
       ELSE End(s) /\ UNCHANGED specs
    /\ UNCHANGED <<family, contracts, evolution, generations, materialized, boundPlans, changed, casualty, promoted>>

InsertSpec(s) ==
    LET c == changing[s] IN
    /\ c.pc = "insert"
    /\ specs' = Append(specs, [version |-> c.version, effective |-> TRUE, rev |-> 0])
    /\ changing' = [changing EXCEPT ![s] = [c EXCEPT !.pc = "family", !.spec = Len(specs) + 1]]
    /\ UNCHANGED <<family, contracts, evolution, generations, materialized, boundPlans, changed, casualty, promoted>>

MutCurrent(rev) == TRUE
\* The compare-and-set of the family.
Current(rev) == family.rev = rev

PointFamily(s) ==
    LET c == changing[s] IN
    /\ c.pc = "family"
    /\ IF Current(c.familyRev)
       THEN /\ family' = [spec |-> c.spec, rev |-> family.rev + 1]
            /\ changing' = [changing EXCEPT ![s] = [pc |-> "refresh"]]
            /\ UNCHANGED casualty
       ELSE Fail(s) /\ UNCHANGED family
    /\ UNCHANGED <<specs, contracts, evolution, generations, materialized, boundPlans, changed, promoted>>

-----------------------------------------------------------------------------
(* register_contract, link, promote_contract_generation. *)

MutChanged == Idle
\* After the projection of the family the baseline is refreshed.
Changed == [pc |-> "refresh"]

\* The projection writes the family, so its revision moves.
ProjectFamily(s) ==
    /\ changing[s].pc = "project"
    /\ family' = [family EXCEPT !.rev = @ + 1]
    /\ changing' = [changing EXCEPT ![s] = Changed]
    /\ UNCHANGED <<specs, contracts, evolution, generations, materialized, boundPlans, changed, casualty, promoted>>

RegisterContract(s, c) ==
    /\ c \notin contracts
    /\ contracts' = contracts \cup {c}
    /\ Begin(s, [pc |-> "project"])
    /\ UNCHANGED <<specs, family, evolution, generations, materialized, boundPlans>>

\* link of a confirmed SUPERSEDES; an edge that is there is returned.
LinkContracts(s, c, d) ==
    /\ c # d /\ {c, d} \subseteq contracts
    /\ <<c, d>> \notin evolution
    /\ evolution' = evolution \cup {<<c, d>>}
    /\ Begin(s, [pc |-> "project"])
    /\ UNCHANGED <<specs, family, contracts, generations, materialized, boundPlans>>

\* ContractGeneration: the head moves on, and nothing refreshes the baseline.
PromoteGeneration(c) ==
    /\ c \in contracts
    /\ changed < MaxChanges
    /\ changed' = changed + 1
    /\ generations' = [generations EXCEPT ![c] = @ + 1]
    /\ promoted' = TRUE
    /\ UNCHANGED <<specs, family, contracts, evolution, materialized, boundPlans, changing, casualty>>

-----------------------------------------------------------------------------
(* Baselines and plans. *)

\* _refresh_normative_baseline: computes the semantics and looks for its baseline ...
Refresh(s) ==
    /\ changing[s].pc = "refresh"
    /\ changing' = [changing EXCEPT ![s] = IF Semantics \in materialized THEN Idle
                                   ELSE [pc |-> "materialize", semantics |-> Semantics, plan |-> FALSE]]
    /\ promoted' = (promoted /\ Semantics \notin materialized)
    /\ UNCHANGED <<docs, changed, casualty>>

\* submit_plan: current_normative_baseline(materialize=True), then the plan.
SubmitPlan(s) ==
    /\ Begin(s, IF Semantics \in materialized THEN Idle
                ELSE [pc |-> "materialize", semantics |-> Semantics, plan |-> TRUE])
    /\ boundPlans' = IF Semantics \in materialized THEN boundPlans \cup {Semantics} ELSE boundPlans
    /\ UNCHANGED <<specs, family, contracts, evolution, generations, materialized>>

\* ... and inserts it; the index allows one per semantics, the second insertion raises.
Materialize(s) ==
    LET c == changing[s] IN
    /\ c.pc = "materialize"
    /\ materialized' = materialized \cup {c.semantics}
    /\ boundPlans' = IF c.plan /\ c.semantics \notin materialized THEN boundPlans \cup {c.semantics} ELSE boundPlans
    /\ promoted' = (promoted /\ c.semantics # Semantics)
    /\ End(s)
    /\ UNCHANGED <<specs, family, contracts, evolution, generations, changed, casualty>>

\* _assert_plan_baseline_current: the current semantics has a baseline, and it is the plan's.
Executable(p) == Semantics \in materialized /\ p = Semantics

Crash(s) ==
    /\ changing[s] # Idle
    /\ Fail(s)
    /\ UNCHANGED <<docs, changed, promoted>>

Next ==
    \/ \E s \in Sessions :
          \/ \E prior \in 0..MaxChanges : BeginSpec(s, prior)
          \/ RetireSpec(s) \/ InsertSpec(s) \/ PointFamily(s)
          \/ \E c, d \in Contracts : RegisterContract(s, c) \/ LinkContracts(s, c, d)
          \/ ProjectFamily(s) \/ Refresh(s) \/ SubmitPlan(s) \/ Materialize(s) \/ Crash(s)
    \/ \E c \in Contracts : PromoteGeneration(c)

Spec == Init /\ [][Next]_vars

-----------------------------------------------------------------------------
(* Properties. *)

\* The specification that the family points at changes only to one of a higher version, for
\* calls in any interleaving, although versions are counted before anything is locked and
\* may be given twice (create_spec).
VersionsAdvance ==
    [][ family'.spec # family.spec /\ family.spec # 0 =>
            specs'[family'.spec].version > specs[family.spec].version ]_vars

\* When all calls have ended, and none of them failed or died half way, the family points
\* at an effective specification and the semantics has its baseline, unless a promotion
\* was the last to change it: nobody is refused with CURRENT_NORMATIVE_BASELINE_NOT_MATERIALIZED
\* because two changes crossed.
QuietlyCurrent ==
    ~casualty /\ (\A s \in Sessions : changing[s] = Idle) =>
        /\ family.spec # 0 => specs[family.spec].effective
        /\ promoted \/ Semantics \in materialized
        /\ boundPlans \subseteq materialized
=============================================================================
