-------------------------- MODULE ContractGeneration --------------------------
(***************************************************************************)
(* contract_control.py for one Contract: bind_turn in MODIFY mode with the *)
(* acquisition of the generation grant, promote_contract_generation and    *)
(* release_contract_generation_grant.                                      *)
(*                                                                         *)
(* The state is spread over four documents (head, grant, turn, generation) *)
(* and an operation writes them one after the other; a compare-and-set on  *)
(* the revision protects each write and nothing protects their sequence.   *)
(* Sessions interleave between any two steps and may die there.            *)
(*                                                                         *)
(* A turn has at most one grant, so grants are named by their turns.  A    *)
(* hash stands for the text it is made from.  The head exists from the     *)
(* beginning: _head creates it once, whoever comes first.  Turns of other  *)
(* modes only insert a turn document; storage bindings are left out.       *)
(***************************************************************************)
EXTENDS Naturals, Sequences, FiniteSets

CONSTANTS
  Sessions,       \* concurrent clients
  ActorOf,        \* ActorOf[s]: the actor that s acts for
  Turns,          \* MODIFY turns that may be bound
  Contents,       \* texts that may be promoted
  MayDie,         \* sessions that may die in the middle of a call
  MayExpire,      \* turns whose grants may reach the end of their time
  MaxGenerations, \* bound: generation documents, promoted or not
  None

ASSUME NoneAssumption == None \notin Turns /\ None \notin Contents

VARIABLES
  head,        \* the contract_heads document
  grant,       \* grant[t]: the contract_generation_grants document of t
  turn,        \* turn[t]: the turn_bindings document
  generations, \* the contract_generations collection, in order of insertion
  promoted,    \* indices of the generations that became the head's, in order
  call         \* call[s]: the operation of s

documents == <<head, grant, turn, generations>>
vars == <<head, grant, turn, generations, promoted, call>>

GrantStates ==
  {"ABSENT", "ACTIVE", "EXPIRED", "CANCELLED", "RELEASED", "CONSUMED"}
TurnStates == {"ABSENT", "BOUND", "DENIED", "RELEASED", "COMPLETED"}
GenerationStates == {"PENDING", "CANONICAL", "CONFLICTED"}

Heads ==
  [number : Nat, id : Nat, content : Contents \cup {None},
   active : Turns \cup {None}, rev : Nat]
Grants ==
  [state : GrantStates, base : Nat, content : Contents \cup {None},
   late : BOOLEAN, rev : Nat]
TurnDocs == [state : TurnStates, actor : {ActorOf[s] : s \in Sessions} \cup {None}]
GenerationDocs ==
  [number : Nat, content : Contents, previous : Nat, turn : Turns,
   state : GenerationStates]

FirstHead ==
  [number |-> 0, id |-> 0, content |-> None, active |-> None, rev |-> 0]
NoGrant ==
  [state |-> "ABSENT", base |-> 0, content |-> None, late |-> FALSE, rev |-> 0]
NoTurn == [state |-> "ABSENT", actor |-> None]

-----------------------------------------------------------------------------
(* Calls. *)

Binding == {"head", "owner", "recheck", "expire", "clear", "insert", "own",
            "cancel", "deny"}
Promoting == {"check", "generate", "advance", "conflict", "canonical",
              "consume", "complete"}
Releasing == {"free", "unhand", "retire"}
Steps == {"idle", "dead"} \cup Binding \cup Promoting \cup Releasing

\* head, seen: the head and the grant as the call read them; gen: the
\* generation that it inserted.
Calls ==
  [step : Steps, turn : Turns \cup {None}, content : Contents \cup {None},
   head : Heads, seen : Grants, gen : Nat]

NoCall ==
  [step |-> "idle", turn |-> None, content |-> None, head |-> FirstHead,
   seen |-> NoGrant, gen |-> 0]

Init ==
  /\ head = FirstHead
  /\ grant = [t \in Turns |-> NoGrant]
  /\ turn = [t \in Turns |-> NoTurn]
  /\ generations = <<>>
  /\ promoted = <<>>
  /\ call = [s \in Sessions |-> NoCall]

At(s, step) == call[s].step = step
Go(s, step) == call' = [call EXCEPT ![s].step = step]
End(s) == call' = [call EXCEPT ![s] = NoCall]

\* A mutant: the head is written whatever its revision is.
MutUnchanged(s) == TRUE

\* The compare of a compare-and-set of the head, and of a grant.
Unchanged(s) == call[s].head.rev = head.rev
GrantUnchanged(s, t) == call[s].seen.rev = grant[t].rev

\* The head with other fields, one revision on.
HeadOwnedBy(t) == [head EXCEPT !.active = t, !.rev = @ + 1]

GrantWith(t, state) ==
  [grant EXCEPT ![t] = [@ EXCEPT !.state = state, !.rev = grant[t].rev + 1]]

-----------------------------------------------------------------------------
(* bind_turn in MODIFY mode. *)

BindTurn(s, t) ==
  /\ At(s, "idle")
  /\ turn[t].state = "ABSENT"
  /\ turn' = [turn EXCEPT ![t] = [state |-> "BOUND", actor |-> ActorOf[s]]]
  /\ call' = [call EXCEPT ![s] = [NoCall EXCEPT !.step = "head", !.turn = t]]
  /\ UNCHANGED <<head, grant, generations, promoted>>

ReadHead(s) ==
  /\ At(s, "head")
  /\ call' = [call EXCEPT ![s].head = head,
                          ![s].step = IF head.active = None THEN "insert"
                                      ELSE "owner"]
  /\ UNCHANGED <<documents, promoted>>

Expired(g) == g.late

\* _expire_grant_if_needed reads the grant that the head names.
ReadOwner(s) ==
  LET g == grant[call[s].head.active]
  IN /\ At(s, "owner")
     /\ call' = [call EXCEPT
          ![s].seen = g,
          ![s].step = CASE g.state # "ACTIVE" -> "clear"
                        [] g.state = "ACTIVE" /\ Expired(g) -> "expire"
                        [] OTHER -> "recheck"]
     /\ UNCHANGED <<documents, promoted>>

\* The grant is read again, and refuses the turn only if it is still active.
Recheck(s) ==
  /\ At(s, "recheck")
  /\ Go(s, IF grant[call[s].head.active].state = "ACTIVE" THEN "deny"
           ELSE "insert")
  /\ UNCHANGED <<documents, promoted>>

ExpireGrant(s) ==
  LET t == call[s].head.active
  IN /\ At(s, "expire")
     /\ IF GrantUnchanged(s, t)
        THEN grant' = GrantWith(t, "EXPIRED") /\ Go(s, "clear")
        ELSE UNCHANGED grant /\ Go(s, "deny")
     /\ UNCHANGED <<head, turn, generations, promoted>>

\* The head is freed; the acquisition goes on from the updated head.
ClearHead(s) ==
  /\ At(s, "clear")
  /\ IF Unchanged(s)
     THEN /\ head' = HeadOwnedBy(None)
          /\ call' = [call EXCEPT ![s].head = HeadOwnedBy(None),
                                  ![s].step = "insert"]
     ELSE UNCHANGED head /\ Go(s, "deny")
  /\ UNCHANGED <<grant, turn, generations, promoted>>

InsertGrant(s) ==
  LET c == call[s]
  IN /\ At(s, "insert")
     /\ grant' = [grant EXCEPT ![c.turn] =
          [NoGrant EXCEPT !.state = "ACTIVE", !.base = c.head.number,
                          !.content = c.head.content]]
     /\ Go(s, "own")
     /\ UNCHANGED <<head, turn, generations, promoted>>

OwnHead(s) ==
  /\ At(s, "own")
  /\ IF Unchanged(s)
     THEN head' = HeadOwnedBy(call[s].turn) /\ End(s)
     ELSE UNCHANGED head /\ Go(s, "cancel")
  /\ UNCHANGED <<grant, turn, generations, promoted>>

CancelGrant(s) ==
  /\ At(s, "cancel")
  /\ grant' = GrantWith(call[s].turn, "CANCELLED")
  /\ Go(s, "deny")
  /\ UNCHANGED <<head, turn, generations, promoted>>

DenyTurn(s) ==
  /\ At(s, "deny")
  /\ turn' = [turn EXCEPT ![call[s].turn].state = "DENIED"]
  /\ End(s)
  /\ UNCHANGED <<head, grant, generations, promoted>>

-----------------------------------------------------------------------------
(* promote_contract_generation. *)

\* No call that still binds t: its caller does not know the grant yet.
Answered(t) == \A r \in Sessions : call[r].turn = t => call[r].step \notin Binding

BeginPromote(s, t, c) ==
  /\ At(s, "idle")
  /\ Answered(t)
  /\ turn[t] = [state |-> "BOUND", actor |-> ActorOf[s]]
  /\ grant[t].state = "ACTIVE"
  /\ ~Expired(grant[t])
  /\ call' = [call EXCEPT ![s] = [NoCall EXCEPT !.step = "check", !.turn = t,
                                                !.content = c]]
  /\ UNCHANGED <<documents, promoted>>

\* A mutant: any grant issued for the current generation may promote.
MutOwns(t) == head.number = grant[t].base

\* A mutant: the generation that the grant was issued for is not compared.
MutOwnsHead(t) == TRUE

\* The head is still the one that the grant of t was issued for.
Owns(t) ==
  /\ head.active = t
  /\ head.number = grant[t].base
  /\ head.content = grant[t].content

CheckHead(s) ==
  LET c == call[s]
  IN /\ At(s, "check")
     /\ IF Owns(c.turn) /\ head.content # c.content
        THEN call' = [call EXCEPT ![s].head = head, ![s].step = "generate"]
        ELSE End(s)
     /\ UNCHANGED <<documents, promoted>>

\* A mutant: the generation is inserted as the canonical one.
MutInsertCanonical(s) ==
  LET c == call[s]
  IN /\ At(s, "generate")
     /\ Len(generations) < MaxGenerations
     /\ generations' = Append(generations,
          [number |-> c.head.number + 1, content |-> c.content,
           previous |-> c.head.id, turn |-> c.turn, state |-> "CANONICAL"])
     /\ call' = [call EXCEPT ![s].gen = Len(generations) + 1,
                             ![s].step = "advance"]
     /\ UNCHANGED <<head, grant, turn, promoted>>

\* A mutant: the next number has one document, and the last writer keeps it.
MutUpsertGeneration(s) ==
  LET c == call[s]
      n == c.head.number + 1
  IN /\ At(s, "generate")
     /\ n <= MaxGenerations
     /\ n <= Len(generations) + 1
     /\ LET g == [number |-> n, content |-> c.content, previous |-> c.head.id,
                  turn |-> c.turn, state |-> "PENDING"]
        IN generations' = IF n > Len(generations) THEN Append(generations, g)
                          ELSE [generations EXCEPT ![n] = g]
     /\ call' = [call EXCEPT ![s].gen = n, ![s].step = "advance"]
     /\ UNCHANGED <<head, grant, turn, promoted>>

InsertGeneration(s) ==
  LET c == call[s]
  IN /\ At(s, "generate")
     /\ Len(generations) < MaxGenerations
     /\ generations' = Append(generations,
          [number |-> c.head.number + 1, content |-> c.content,
           previous |-> c.head.id, turn |-> c.turn, state |-> "PENDING"])
     /\ call' = [call EXCEPT ![s].gen = Len(generations) + 1,
                             ![s].step = "advance"]
     /\ UNCHANGED <<head, grant, turn, promoted>>

AdvanceHead(s) ==
  LET c == call[s]
  IN /\ At(s, "advance")
     /\ IF Unchanged(s)
        THEN /\ head' = [number |-> generations[c.gen].number, id |-> c.gen,
                         content |-> c.content, active |-> None,
                         rev |-> head.rev + 1]
             /\ promoted' = Append(promoted, c.gen)
             /\ Go(s, "canonical")
        ELSE UNCHANGED <<head, promoted>> /\ Go(s, "conflict")
     /\ UNCHANGED <<grant, turn, generations>>

\* A generation is marked after the fact, CANONICAL or CONFLICTED.
MarkGeneration(s, step, state) ==
  /\ At(s, step)
  /\ generations' = [generations EXCEPT ![call[s].gen].state = state]
  /\ UNCHANGED <<head, grant, turn, promoted>>

MarkConflicted(s) == MarkGeneration(s, "conflict", "CONFLICTED") /\ End(s)
MarkCanonical(s) ==
  MarkGeneration(s, "canonical", "CANONICAL") /\ Go(s, "consume")

\* Grant and turn follow whatever state they are in by now; a conflict there
\* is only a warning.
ConsumeGrant(s) ==
  /\ At(s, "consume")
  /\ \/ grant' = GrantWith(call[s].turn, "CONSUMED")
     \/ UNCHANGED grant
  /\ Go(s, "complete")
  /\ UNCHANGED <<head, turn, generations, promoted>>

CompleteTurn(s) ==
  /\ At(s, "complete")
  /\ \/ turn' = [turn EXCEPT ![call[s].turn].state = "COMPLETED"]
     \/ UNCHANGED turn
  /\ End(s)
  /\ UNCHANGED <<head, grant, generations, promoted>>

-----------------------------------------------------------------------------
(* release_contract_generation_grant. *)

BeginRelease(s, t) ==
  /\ At(s, "idle")
  /\ Answered(t)
  /\ turn[t].actor = ActorOf[s]
  /\ grant[t].state = "ACTIVE"
  /\ call' = [call EXCEPT ![s] = [NoCall EXCEPT !.step = "free", !.turn = t,
                                    !.head = head, !.seen = grant[t]]]
  /\ UNCHANGED <<documents, promoted>>

\* A mutant: the head is left to the next acquisition.
MutFreeGrant(s) ==
  LET t == call[s].turn
  IN /\ At(s, "free")
     /\ IF GrantUnchanged(s, t)
        THEN grant' = GrantWith(t, "RELEASED") /\ Go(s, "retire")
        ELSE UNCHANGED grant /\ End(s)
     /\ UNCHANGED <<head, turn, generations, promoted>>

FreeGrant(s) ==
  LET t == call[s].turn
  IN /\ At(s, "free")
     /\ IF GrantUnchanged(s, t)
        THEN /\ grant' = GrantWith(t, "RELEASED")
             /\ Go(s, IF call[s].head.active = t THEN "unhand" ELSE "retire")
        ELSE UNCHANGED grant /\ End(s)
     /\ UNCHANGED <<head, turn, generations, promoted>>

FreeHead(s) ==
  /\ At(s, "unhand")
  /\ IF Unchanged(s)
     THEN head' = HeadOwnedBy(None) /\ Go(s, "retire")
     ELSE UNCHANGED head /\ End(s)
  /\ UNCHANGED <<grant, turn, generations, promoted>>

RetireTurn(s) ==
  LET t == call[s].turn
  IN /\ At(s, "retire")
     /\ \/ turn[t].state = "BOUND" /\ turn' = [turn EXCEPT ![t].state = "RELEASED"]
        \/ UNCHANGED turn
     /\ End(s)
     /\ UNCHANGED <<head, grant, generations, promoted>>

-----------------------------------------------------------------------------

\* The time of an active grant is over.
TimePasses(t) ==
  /\ t \in MayExpire
  /\ grant[t].state = "ACTIVE"
  /\ ~grant[t].late
  /\ grant' = [grant EXCEPT ![t].late = TRUE]
  /\ UNCHANGED <<head, turn, generations, promoted, call>>

\* The client dies in the middle of a call and never comes back; the next
\* client of its actor is another session.
Die(s) ==
  /\ s \in MayDie
  /\ call[s].step \notin {"idle", "dead"}
  /\ call' = [call EXCEPT ![s] = [NoCall EXCEPT !.step = "dead"]]
  /\ UNCHANGED <<documents, promoted>>

Begin(s) ==
  \E t \in Turns :
    \/ BindTurn(s, t)
    \/ \E c \in Contents : BeginPromote(s, t, c)
    \/ BeginRelease(s, t)

Step(s) ==
  \/ ReadHead(s) \/ ReadOwner(s) \/ Recheck(s) \/ ExpireGrant(s)
  \/ ClearHead(s) \/ InsertGrant(s) \/ OwnHead(s) \/ CancelGrant(s)
  \/ DenyTurn(s)
  \/ CheckHead(s) \/ InsertGeneration(s) \/ AdvanceHead(s)
  \/ MarkConflicted(s) \/ MarkCanonical(s) \/ ConsumeGrant(s)
  \/ CompleteTurn(s)
  \/ FreeGrant(s) \/ FreeHead(s) \/ RetireTurn(s)

Next ==
  \/ \E s \in Sessions : Begin(s) \/ Step(s) \/ Die(s)
  \/ \E t \in Turns : TimePasses(t)

Spec == Init /\ [][Next]_vars

-----------------------------------------------------------------------------
(* Properties. *)

TypeOK ==
  /\ head \in Heads
  /\ grant \in [Turns -> Grants]
  /\ turn \in [Turns -> TurnDocs]
  /\ generations \in Seq(GenerationDocs)
  /\ promoted \in Seq(1..Len(generations))
  /\ call \in [Sessions -> Calls]

\* The head names the last of a gapless chain of generations, each of which
\* was written on top of the one before it, whatever sessions raced or died
\* (promote_contract_generation).
LinearHistory ==
  /\ head.number = Len(promoted)
  /\ head.id = IF promoted = <<>> THEN 0 ELSE promoted[Len(promoted)]
  /\ \A i \in 1..Len(promoted) :
       /\ generations[promoted[i]].number = i
       /\ generations[promoted[i]].previous = IF i = 1 THEN 0 ELSE promoted[i - 1]

\* "Only that grant may create the next immutable generation; concurrent or
\* stale promotion fails closed" (README): every promoted generation was made
\* by a grant issued for exactly the generation before it, and no grant has
\* made two.
BuiltOnItsGrant ==
  \A i \in 1..Len(promoted) :
    LET g == generations[promoted[i]]
    IN /\ grant[g.turn].base = i - 1
       /\ \A j \in 1..Len(promoted) :
            generations[promoted[j]].turn = g.turn => i = j

\* The marks written after the commit agree with it: a generation marked
\* CANONICAL was the head's, one marked CONFLICTED never.
MarksAreTrue ==
  \A k \in 1..Len(generations) :
    LET was == \E i \in 1..Len(promoted) : promoted[i] = k
    IN /\ generations[k].state = "CANONICAL" => was
       /\ generations[k].state = "CONFLICTED" => ~was

Quiet == \A s \in Sessions : At(s, "idle")

\* When no session has died and all calls are over, the generation of the head
\* is marked CANONICAL, and a grant that was released or has expired does not
\* keep the head from the next turn.
SettledAtRest ==
  Quiet =>
    /\ head.id # 0 => generations[head.id].state = "CANONICAL"
    /\ head.active # None => grant[head.active].state = "ACTIVE"

\* No step rewrites the text, number or predecessor of a generation, or takes
\* one out of the canonical history.
HistoryIsImmutable ==
  [][/\ \A k \in 1..Len(generations) :
         /\ generations'[k].content = generations[k].content
         /\ generations'[k].number = generations[k].number
         /\ generations'[k].previous = generations[k].previous
     /\ \A i \in 1..Len(promoted) : promoted'[i] = promoted[i]]_vars

\* The four documents implement one history with one holder.
Chain ==
  INSTANCE GenerationChain WITH
    history <- [i \in 1..Len(promoted) |->
                  [turn |-> generations[promoted[i]].turn,
                   content |-> generations[promoted[i]].content]],
    holder <- head.active

ImplementsChain == Chain!Spec

==============================================================================
