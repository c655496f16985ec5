----------------------- MODULE ContractGenerationProofs -----------------------
(***************************************************************************)
(* Proofs about ContractGeneration, for any number of sessions, turns and  *)
(* texts: types; the history of a contract is linear, each generation of   *)
(* it was made by the grant for its predecessor; the documents implement   *)
(* GenerationChain; and what interrupted calls have left is settled when   *)
(* all calls are over.                                                     *)
(*                                                                         *)
(* The head's revision carries the argument.  A session whose copy of the  *)
(* head has the current revision holds the current head (SnapshotOK), so   *)
(* the conditions under which it prepared a promotion still hold when its  *)
(* compare-and-set succeeds; and the turn that the head names got its      *)
(* grant for the head's generation and has not used it yet (HolderOK).     *)
(* For the last part, a turn that is being bound is known to no other call *)
(* (Apart), so it takes the head once, and whoever knows the holder knows  *)
(* the revision of the head (Once).                                        *)
(***************************************************************************)
EXTENDS ContractGeneration, SequenceTheorems, TLAPS

\* What the steps of a call leave in it.
CallsTyped ==
  \A s \in Sessions :
    /\ call[s].step \notin {"idle", "dead"} => call[s].turn \in Turns
    /\ call[s].step \in {"owner", "recheck", "expire"} => call[s].head.active # None
    /\ call[s].step \in {"check", "generate", "advance"} =>
         call[s].content \in Contents
    /\ call[s].step \in {"advance", "conflict", "canonical"} =>
         call[s].gen \in 1..Len(generations)

-----------------------------------------------------------------------------
(* Types. *)

TypeInv == TypeOK /\ CallsTyped

LEMMA Constants ==
  /\ FirstHead \in Heads
  /\ NoGrant \in Grants
  /\ NoTurn \in TurnDocs
  /\ NoCall \in Calls
<1>1. FirstHead \in Heads
  BY DEF FirstHead, Heads
<1>2. NoGrant \in Grants
  BY DEF NoGrant, Grants, GrantStates
<1>3. NoTurn \in TurnDocs
  BY DEF NoTurn, TurnDocs, TurnStates
<1>4. NoCall \in Calls
  BY <1>1, <1>2 DEF NoCall, Calls, Steps
<1> QED
  BY <1>1, <1>2, <1>3, <1>4

\* A changed step leaves a call well formed.
LEMMA StepType ==
  ASSUME NEW c \in Calls, NEW step \in Steps
  PROVE  [c EXCEPT !.step = step] \in Calls
BY DEF Calls

\* Writing the state of a generation keeps the collection and its other fields.
LEMMA MarkFacts ==
  ASSUME generations \in Seq(GenerationDocs),
         NEW k \in 1..Len(generations), NEW state \in GenerationStates,
         generations' = [generations EXCEPT ![k].state = state]
  PROVE  /\ generations' \in Seq(GenerationDocs)
         /\ Len(generations') = Len(generations)
         /\ \A i \in 1..Len(generations) :
              /\ generations'[i].number = generations[i].number
              /\ generations'[i].content = generations[i].content
              /\ generations'[i].previous = generations[i].previous
              /\ generations'[i].turn = generations[i].turn
              /\ generations'[i].state =
                   IF i = k THEN state ELSE generations[i].state
<1>1. PICK g \in GenerationDocs : g = generations[k]
  OBVIOUS
<1>2. PICK h : h = [g EXCEPT !.state = state]
  OBVIOUS
<1>3. /\ h \in GenerationDocs
      /\ h.number = g.number
      /\ h.content = g.content
      /\ h.previous = g.previous
      /\ h.turn = g.turn
      /\ h.state = state
  BY <1>2 DEF GenerationDocs
<1>4. generations' = [generations EXCEPT ![k] = h]
  BY <1>1, <1>2, Zenon
<1>5. generations' \in Seq(GenerationDocs) /\ Len(generations') = Len(generations)
  BY <1>3, <1>4, ExceptSeq
<1>6. \A i \in 1..Len(generations) : generations'[i] = IF i = k THEN h ELSE generations[i]
  BY <1>3, <1>4, ExceptSeq
<1> QED
  BY <1>1, <1>3, <1>5, <1>6

\* A call that goes on changes its step only.
LEMMA GoFacts ==
  ASSUME call \in [Sessions -> Calls], NEW s \in Sessions, NEW step \in Steps,
         Go(s, step)
  PROVE  /\ call' \in [Sessions -> Calls]
         /\ call'[s].step = step
         /\ call'[s].turn = call[s].turn
         /\ call'[s].content = call[s].content
         /\ call'[s].head = call[s].head
         /\ call'[s].seen = call[s].seen
         /\ call'[s].gen = call[s].gen
         /\ \A r \in Sessions : r # s => call'[r] = call[r]
<1>1. call[s] \in Calls
  OBVIOUS
<1>2. [call[s] EXCEPT !.step = step] \in Calls
  BY <1>1, StepType
<1>3. call' = [call EXCEPT ![s] = [call[s] EXCEPT !.step = step]]
  BY DEF Go
<1> QED
  BY <1>1, <1>2, <1>3 DEF Calls

\* A call that ends leaves nothing.
LEMMA EndFacts ==
  ASSUME call \in [Sessions -> Calls], NEW s \in Sessions, End(s)
  PROVE  /\ call' \in [Sessions -> Calls]
         /\ call'[s].step = "idle"
         /\ call'[s].turn = None
         /\ call'[s].head = FirstHead
         /\ call'[s].gen = 0
         /\ \A r \in Sessions : r # s => call'[r] = call[r]
BY Constants DEF End, NoCall

\* The steps of which CallsTyped asks for a turn only.
PlainSteps == {"head", "clear", "insert", "own", "cancel", "deny", "consume",
               "complete", "free", "unhand", "retire"}

LEMMA GoTyped ==
  ASSUME TypeInv, NEW s \in Sessions, call[s].turn \in Turns,
         NEW step \in PlainSteps, Go(s, step),
         Len(generations') = Len(generations)
  PROVE  CallsTyped'
<1>1. step \in Steps
  BY DEF PlainSteps, Steps, Binding, Promoting, Releasing
<1>2. /\ call'[s].step = step
      /\ call'[s].turn = call[s].turn
      /\ \A r \in Sessions : r # s => call'[r] = call[r]
  BY <1>1, GoFacts DEF TypeInv, TypeOK
<1> QED
  BY <1>2 DEF TypeInv, CallsTyped, PlainSteps

LEMMA EndTyped ==
  ASSUME TypeInv, NEW s \in Sessions, End(s),
         Len(generations') = Len(generations)
  PROVE  CallsTyped'
<1>1. /\ call'[s].step = "idle"
      /\ \A r \in Sessions : r # s => call'[r] = call[r]
  BY EndFacts DEF TypeInv, TypeOK
<1> QED
  BY <1>1 DEF TypeInv, CallsTyped

\* A grant that gets another state keeps what it was issued for.
LEMMA GrantFacts ==
  ASSUME grant \in [Turns -> Grants], NEW t \in Turns, NEW state \in GrantStates,
         grant' = GrantWith(t, state)
  PROVE  /\ grant' \in [Turns -> Grants]
         /\ grant'[t].base = grant[t].base
         /\ grant'[t].state = state
         /\ \A u \in Turns : u # t => grant'[u] = grant[u]
<1>1. grant[t] \in Grants
  OBVIOUS
<1>2. PICK g : g = [grant[t] EXCEPT !.state = state]
  OBVIOUS
<1>3. /\ g \in Grants
      /\ g.state = state
      /\ g.base = grant[t].base
      /\ g.rev = grant[t].rev
  BY <1>1, <1>2 DEF Grants
<1>4. PICK h : h = [g EXCEPT !.rev = g.rev + 1]
  OBVIOUS
<1>5. /\ h \in Grants
      /\ h.state = state
      /\ h.base = grant[t].base
  BY <1>3, <1>4 DEF Grants
<1>6. h = [grant[t] EXCEPT !.state = state, !.rev = grant[t].rev + 1]
  BY <1>2, <1>3, <1>4, Zenon
<1>7. grant' = [grant EXCEPT ![t] = h]
  BY <1>6, Zenon DEF GrantWith
<1> QED
  BY <1>5, <1>7

\* The head changes hands.
LEMMA HandFacts ==
  ASSUME head \in Heads, NEW t \in Turns \cup {None}
  PROVE  /\ HeadOwnedBy(t) \in Heads
         /\ HeadOwnedBy(t).active = t
         /\ HeadOwnedBy(t).rev = head.rev + 1
         /\ HeadOwnedBy(t).number = head.number
         /\ HeadOwnedBy(t).id = head.id
         /\ HeadOwnedBy(t).content = head.content
<1>1. PICK g : g = [head EXCEPT !.active = t]
  OBVIOUS
<1>2. /\ g \in Heads
      /\ g.active = t
      /\ g.rev = head.rev
      /\ g.number = head.number
      /\ g.id = head.id
      /\ g.content = head.content
  BY <1>1 DEF Heads
<1>3. PICK h : h = [g EXCEPT !.rev = head.rev + 1]
  OBVIOUS
<1>4. h = HeadOwnedBy(t)
  BY <1>1, <1>3, Zenon DEF HeadOwnedBy
<1> QED
  BY <1>2, <1>3, <1>4 DEF Heads

\* A turn document changes its state.
LEMMA TurnFacts ==
  ASSUME turn \in [Turns -> TurnDocs], NEW t \in Turns, NEW state \in TurnStates,
         turn' = [turn EXCEPT ![t].state = state]
  PROVE  /\ turn' \in [Turns -> TurnDocs]
         /\ turn'[t].state = state
         /\ \A u \in Turns : u # t => turn'[u] = turn[u]
<1>1. turn[t] \in TurnDocs
  OBVIOUS
<1>2. [turn[t] EXCEPT !.state = state] \in TurnDocs
  BY <1>1 DEF TurnDocs
<1>3. turn' = [turn EXCEPT ![t] = [turn[t] EXCEPT !.state = state]]
  OBVIOUS
<1> QED
  BY <1>1, <1>2, <1>3 DEF TurnDocs

\* The documents and the calls keep their types.
LEMMA TypeStep == TypeInv /\ [Next]_vars => TypeInv'
<1> SUFFICES ASSUME TypeInv, [Next]_vars PROVE TypeInv'
  OBVIOUS
<1> USE Constants, NoneAssumption DEF TypeInv, TypeOK, At
<1>calls. \A r \in Sessions : call[r] \in Calls
  OBVIOUS
<1>1. ASSUME NEW s \in Sessions, Begin(s) PROVE TypeInv'
  <2>1. ASSUME NEW t \in Turns, BindTurn(s, t) PROVE TypeInv'
    BY <2>1 DEF BindTurn, NoCall, Calls, Steps, Binding, TurnDocs, TurnStates, CallsTyped
  <2>2. ASSUME NEW t \in Turns, NEW c \in Contents, BeginPromote(s, t, c)
        PROVE  TypeInv'
    BY <2>2 DEF BeginPromote, documents, NoCall, Calls, Steps, Promoting, CallsTyped
  <2>3. ASSUME NEW t \in Turns, BeginRelease(s, t) PROVE TypeInv'
    BY <2>3 DEF BeginRelease, documents, NoCall, Calls, Steps, Releasing, CallsTyped
  <2> QED
    BY <1>1, <2>1, <2>2, <2>3 DEF Begin
<1>2. ASSUME NEW s \in Sessions, Step(s) PROVE TypeInv'
  <2>on. call[s].step \notin {"idle", "dead"}
    BY <1>2 DEF Step, ReadHead, ReadOwner, Recheck, ExpireGrant, ClearHead,
       InsertGrant, OwnHead, CancelGrant, DenyTurn, CheckHead, InsertGeneration,
       AdvanceHead, MarkConflicted, MarkCanonical, MarkGeneration, ConsumeGrant,
       CompleteTurn, FreeGrant, FreeHead, RetireTurn
  <2>call. call[s] \in Calls /\ call[s].turn \in Turns
    BY <2>on DEF CallsTyped
  <2>2. CASE ReadHead(s)
    <3>1. PICK c : c = [call[s] EXCEPT !.head = head]
      OBVIOUS
    <3>2. PICK step \in {"insert", "owner"} :
            /\ call' = [call EXCEPT ![s] = [c EXCEPT !.step = step]]
            /\ step = "owner" => head.active # None
      BY <2>2, <3>1, Zenon DEF ReadHead
    <3>3. c \in Calls /\ c.head = head /\ c.turn = call[s].turn
      BY <2>call, <3>1 DEF Calls
    <3>4. [c EXCEPT !.step = step] \in Calls
      BY <3>3, StepType DEF Steps, Binding
    <3>5. TypeOK'
      BY <2>2, <3>2, <3>4 DEF ReadHead, documents
    <3>6. CallsTyped'
      BY <2>2, <2>call, <3>2, <3>3, <3>4 DEF ReadHead, documents, CallsTyped, Calls
    <3> QED
      BY <3>5, <3>6
  <2>3. CASE ReadOwner(s)
    <3>1. PICK t \in Turns : t = call[s].head.active
      BY <2>3, <2>call DEF ReadOwner, Calls, Heads, CallsTyped
    <3>2. PICK c : c = [call[s] EXCEPT !.seen = grant[t]]
      OBVIOUS
    <3>3. PICK step \in {"clear", "expire", "recheck"} :
            call' = [call EXCEPT ![s] = [c EXCEPT !.step = step]]
      BY <2>3, <3>1, <3>2, Zenon DEF ReadOwner
    <3>4. c \in Calls /\ c.head = call[s].head /\ c.turn = call[s].turn
      BY <2>call, <3>2 DEF Calls
    <3>5. [c EXCEPT !.step = step] \in Calls
      BY <3>4, StepType DEF Steps, Binding
    <3>6. TypeOK'
      BY <2>3, <3>3, <3>5 DEF ReadOwner, documents
    <3>7. call[s].turn \in Turns /\ call[s].head.active # None
      BY <2>3, <2>call DEF ReadOwner, CallsTyped
    <3>8. /\ call'[s].step = step
          /\ call'[s].turn = call[s].turn
          /\ call'[s].head = call[s].head
          /\ \A r \in Sessions \ {s} : call'[r] = call[r]
      <4>1. call'[s] = [c EXCEPT !.step = step] /\ \A r \in Sessions \ {s} : call'[r] = call[r]
        BY <3>3, <2>call
      <4> QED
        BY <4>1, <3>4 DEF Calls
    <3>9. generations' = generations
      BY <2>3 DEF ReadOwner, documents
    <3>10. CallsTyped'
      <4>1. ASSUME NEW r \in Sessions, r # s
            PROVE  call'[r] = call[r]
        BY <3>8, <4>1
      <4> QED
        BY <2>call, <3>7, <3>8, <3>9, <4>1 DEF CallsTyped
    <3> QED
      BY <3>6, <3>10
  <2>4. CASE Recheck(s)
    <3>1. TypeOK'
      BY <2>4, GoFacts DEF Recheck, documents, Steps, Binding
    <3>2. CallsTyped'
      BY <2>4, <2>call, GoTyped DEF Recheck, documents, PlainSteps
    <3> QED
      BY <3>1, <3>2
  <2>5. CASE ExpireGrant(s)
    <3>1. PICK t \in Turns : t = call[s].head.active
      BY <2>5, <2>call DEF ExpireGrant, Calls, Heads, CallsTyped
    <3>2. grant' \in [Turns -> Grants]
      BY <2>5, <3>1, GrantFacts DEF ExpireGrant, GrantStates
    <3>3. TypeOK'
      BY <2>5, <3>2, GoFacts DEF ExpireGrant, Steps, Binding
    <3>4. CallsTyped'
      BY <2>5, <2>call, GoTyped DEF ExpireGrant, PlainSteps
    <3> QED
      BY <3>3, <3>4
  <2>6. CASE ClearHead(s)
    <3>1. CASE Unchanged(s)
      <4>1. PICK h : h = HeadOwnedBy(None)
        OBVIOUS
      <4>2. h \in Heads
        BY <4>1, HandFacts
      <4>3. PICK c : c = [call[s] EXCEPT !.head = h]
        OBVIOUS
      <4>4. /\ head' = h
            /\ call' = [call EXCEPT ![s] = [c EXCEPT !.step = "insert"]]
        BY <2>6, <3>1, <4>1, <4>3, Zenon DEF ClearHead
      <4>5. c \in Calls /\ c.turn = call[s].turn
        BY <2>call, <4>2, <4>3 DEF Calls
      <4>6. [c EXCEPT !.step = "insert"] \in Calls
        BY <4>5, StepType DEF Steps, Binding
      <4>7. TypeOK'
        BY <2>6, <4>2, <4>4, <4>6 DEF ClearHead
      <4>8. CallsTyped'
        BY <2>6, <2>call, <4>4, <4>5, <4>6 DEF ClearHead, CallsTyped, Calls
      <4> QED
        BY <4>7, <4>8
    <3>2. CASE ~Unchanged(s)
      <4>1. TypeOK'
        BY <2>6, <3>2, GoFacts DEF ClearHead, Steps, Binding
      <4>2. CallsTyped'
        BY <2>6, <2>call, <3>2, GoTyped DEF ClearHead, PlainSteps
      <4> QED
        BY <4>1, <4>2
    <3> QED
      BY <3>1, <3>2
  <2>7. CASE InsertGrant(s)
    <3>1. PICK g : g = [NoGrant EXCEPT !.state = "ACTIVE",
                                       !.base = call[s].head.number,
                                       !.content = call[s].head.content]
      OBVIOUS
    <3>2. /\ call[s].head.number \in Nat
          /\ call[s].head.content \in Contents \cup {None}
      BY <2>call DEF Calls, Heads
    <3>3. g \in Grants
      BY <3>1, <3>2 DEF NoGrant, Grants, GrantStates
    <3>4. grant' = [grant EXCEPT ![call[s].turn] = g]
      BY <2>7, <3>1, Zenon DEF InsertGrant
    <3>5. grant' \in [Turns -> Grants]
      BY <2>7, <2>call, <3>3, <3>4 DEF InsertGrant
    <3>6. TypeOK'
      BY <2>7, <3>5, GoFacts DEF InsertGrant, Steps, Binding
    <3>7. CallsTyped'
      BY <2>7, <2>call, GoTyped DEF InsertGrant, PlainSteps
    <3> QED
      BY <3>6, <3>7
  <2>8. CASE OwnHead(s)
    <3>1. PICK t \in Turns : t = call[s].turn
      BY <2>8, <2>call DEF OwnHead
    <3>2. head' \in Heads
      BY <2>8, <3>1, HandFacts DEF OwnHead
    <3>3. TypeOK'
      BY <2>8, <3>2, GoFacts, EndFacts DEF OwnHead, Steps, Binding
    <3>4. CallsTyped'
      BY <2>8, <2>call, GoTyped, EndTyped DEF OwnHead, PlainSteps
    <3> QED
      BY <3>3, <3>4
  <2>9. CASE CancelGrant(s)
    <3>1. grant' \in [Turns -> Grants]
      BY <2>9, <2>call, GrantFacts DEF CancelGrant, GrantStates
    <3>2. TypeOK'
      BY <2>9, <3>1, GoFacts DEF CancelGrant, Steps, Binding
    <3>3. CallsTyped'
      BY <2>9, <2>call, GoTyped DEF CancelGrant, PlainSteps
    <3> QED
      BY <3>2, <3>3
  <2>10. CASE DenyTurn(s)
    <3>1. turn' \in [Turns -> TurnDocs]
      BY <2>10, <2>call, TurnFacts DEF DenyTurn, TurnStates
    <3>2. TypeOK'
      BY <2>10, <3>1, EndFacts DEF DenyTurn
    <3>3. CallsTyped'
      BY <2>10, EndTyped DEF DenyTurn
    <3> QED
      BY <3>2, <3>3
  <2>11. CASE CheckHead(s)
    <3>1. CASE End(s)
      <4>1. TypeOK'
        BY <2>11, <3>1, EndFacts DEF CheckHead, documents
      <4>2. CallsTyped'
        BY <2>11, <3>1, EndTyped DEF CheckHead, documents
      <4> QED
        BY <4>1, <4>2
    <3>2. CASE call' = [call EXCEPT ![s].head = head, ![s].step = "generate"]
      <4>1. PICK c : c = [call[s] EXCEPT !.head = head]
        OBVIOUS
      <4>2. call' = [call EXCEPT ![s] = [c EXCEPT !.step = "generate"]]
        BY <3>2, <4>1, Zenon
      <4>3. c \in Calls /\ c.turn = call[s].turn /\ c.content = call[s].content
        BY <2>call, <4>1 DEF Calls
      <4>4. [c EXCEPT !.step = "generate"] \in Calls
        BY <4>3, StepType DEF Steps, Promoting
      <4>5. TypeOK'
        BY <2>11, <4>2, <4>4 DEF CheckHead, documents
      <4>6. CallsTyped'
        BY <2>11, <2>call, <4>2, <4>3, <4>4 DEF CheckHead, documents, CallsTyped, Calls
      <4> QED
        BY <4>5, <4>6
    <3> QED
      BY <2>11, <3>1, <3>2 DEF CheckHead
  <2>12. CASE InsertGeneration(s)
    <3>1. PICK g : g = [number |-> call[s].head.number + 1,
                        content |-> call[s].content,
                        previous |-> call[s].head.id, turn |-> call[s].turn,
                        state |-> "PENDING"]
      OBVIOUS
    <3>2. generations' = Append(generations, g)
      BY <2>12, <3>1, Zenon DEF InsertGeneration
    <3>3. /\ call[s].head.number \in Nat
          /\ call[s].head.id \in Nat
          /\ call[s].content \in Contents
          /\ call[s].turn \in Turns
      BY <2>12, <2>call DEF InsertGeneration, Calls, Heads, CallsTyped
    <3>4. g \in GenerationDocs
      BY <3>1, <3>3 DEF GenerationDocs, GenerationStates
    <3>5. /\ generations' \in Seq(GenerationDocs)
          /\ Len(generations) \in Nat
          /\ Len(generations') = Len(generations) + 1
      BY <3>2, <3>4
    <3>6. promoted' \in Seq(1..Len(generations'))
      BY <2>12, <3>5 DEF InsertGeneration
    <3>n. PICK n \in Nat : n = Len(generations) + 1
      BY <3>5
    <3>7. PICK c : c = [call[s] EXCEPT !.gen = n]
      OBVIOUS
    <3>8. call' = [call EXCEPT ![s] = [c EXCEPT !.step = "advance"]]
      BY <2>12, <3>n, <3>7, Zenon DEF InsertGeneration
    <3>9. /\ c \in Calls
          /\ c.turn = call[s].turn
          /\ c.content = call[s].content
          /\ c.gen = n
      BY <2>call, <3>7 DEF Calls
    <3>10. [c EXCEPT !.step = "advance"] \in Calls
      BY <3>9, StepType DEF Steps, Promoting
    <3>11. TypeOK'
      BY <2>12, <3>5, <3>6, <3>8, <3>10 DEF InsertGeneration
    <3>12. CallsTyped'
      BY <2>12, <2>call, <3>3, <3>5, <3>n, <3>8, <3>9, <3>10 DEF InsertGeneration, CallsTyped, Calls
    <3> QED
      BY <3>11, <3>12
  <2>13. CASE AdvanceHead(s)
    <3>1. CASE Unchanged(s)
      <4>1. PICK k \in 1..Len(generations) : k = call[s].gen
        BY <2>13 DEF AdvanceHead, CallsTyped
      <4>g. generations[k] \in GenerationDocs
        OBVIOUS
      <4>r. head.rev + 1 \in Nat
        BY DEF Heads
      <4>c. call[s].content \in Contents
        BY <2>13 DEF AdvanceHead, CallsTyped
      <4>2. /\ generations[k].number \in Nat
            /\ k \in Nat
            /\ call[s].content \in Contents
            /\ head.rev + 1 \in Nat
        BY <4>g, <4>r, <4>c DEF GenerationDocs
      <4>3. head' \in Heads
        BY <2>13, <3>1, <4>1, <4>2 DEF AdvanceHead, Heads
      <4>4. promoted' \in Seq(1..Len(generations'))
        <5>1. promoted' = Append(promoted, k) /\ generations' = generations
          BY <2>13, <3>1, <4>1 DEF AdvanceHead
        <5> QED
          BY <5>1
      <4>5. TypeOK'
        BY <2>13, <3>1, <4>3, <4>4, GoFacts DEF AdvanceHead, Steps, Promoting
      <4>6. /\ call'[s].step = "canonical"
            /\ call'[s].turn = call[s].turn
            /\ call'[s].gen = call[s].gen
            /\ \A r \in Sessions : r # s => call'[r] = call[r]
        BY <2>13, <3>1, GoFacts DEF AdvanceHead, Steps, Promoting
      <4>7. CallsTyped'
        BY <2>13, <2>call, <4>6 DEF AdvanceHead, CallsTyped
      <4> QED
        BY <4>5, <4>7
    <3>2. CASE ~Unchanged(s)
      <4>1. TypeOK'
        BY <2>13, <3>2, GoFacts DEF AdvanceHead, Steps, Promoting
      <4>2. /\ call'[s].step = "conflict"
            /\ call'[s].turn = call[s].turn
            /\ call'[s].gen = call[s].gen
            /\ \A r \in Sessions : r # s => call'[r] = call[r]
        BY <2>13, <3>2, GoFacts DEF AdvanceHead, Steps, Promoting
      <4>3. CallsTyped'
        BY <2>13, <2>call, <4>2 DEF AdvanceHead, CallsTyped
      <4> QED
        BY <4>1, <4>3
    <3> QED
      BY <3>1, <3>2
  <2>14. CASE MarkConflicted(s)
    <3>k. PICK k \in 1..Len(generations) : k = call[s].gen
      BY <2>14 DEF MarkConflicted, MarkGeneration, CallsTyped
    <3>h. generations' = [generations EXCEPT ![k].state = "CONFLICTED"]
      BY <2>14, <3>k DEF MarkConflicted, MarkGeneration
    <3>1. /\ generations' \in Seq(GenerationDocs)
          /\ Len(generations') = Len(generations)
      <4>1. /\ generations \in Seq(GenerationDocs)
            /\ {"CONFLICTED", "CANONICAL"} \subseteq GenerationStates
        BY DEF GenerationStates
      <4> QED
        BY <3>h, <4>1, MarkFacts
    <3>2. TypeOK'
      BY <2>14, <3>1, EndFacts DEF MarkConflicted, MarkGeneration
    <3>3. CallsTyped'
      BY <2>14, <3>1, EndTyped DEF MarkConflicted
    <3> QED
      BY <3>2, <3>3
  <2>15. CASE MarkCanonical(s)
    <3>k. PICK k \in 1..Len(generations) : k = call[s].gen
      BY <2>15 DEF MarkCanonical, MarkGeneration, CallsTyped
    <3>h. generations' = [generations EXCEPT ![k].state = "CANONICAL"]
      BY <2>15, <3>k DEF MarkCanonical, MarkGeneration
    <3>1. /\ generations' \in Seq(GenerationDocs)
          /\ Len(generations') = Len(generations)
      <4>1. /\ generations \in Seq(GenerationDocs)
            /\ {"CONFLICTED", "CANONICAL"} \subseteq GenerationStates
        BY DEF GenerationStates
      <4> QED
        BY <3>h, <4>1, MarkFacts
    <3>2. TypeOK'
      BY <2>15, <3>1, GoFacts DEF MarkCanonical, MarkGeneration, Steps, Promoting
    <3>3. CallsTyped'
      BY <2>15, <2>call, <3>1, GoTyped DEF MarkCanonical, PlainSteps
    <3> QED
      BY <3>2, <3>3
  <2>16. CASE ConsumeGrant(s)
    <3>1. grant' \in [Turns -> Grants]
      BY <2>16, <2>call, GrantFacts DEF ConsumeGrant, GrantStates
    <3>2. TypeOK'
      BY <2>16, <3>1, GoFacts DEF ConsumeGrant, Steps, Promoting
    <3>3. CallsTyped'
      BY <2>16, <2>call, GoTyped DEF ConsumeGrant, PlainSteps
    <3> QED
      BY <3>2, <3>3
  <2>17. CASE CompleteTurn(s)
    <3>1. turn' \in [Turns -> TurnDocs]
      BY <2>17, <2>call, TurnFacts DEF CompleteTurn, TurnStates
    <3>2. TypeOK'
      BY <2>17, <3>1, EndFacts DEF CompleteTurn
    <3>3. CallsTyped'
      BY <2>17, EndTyped DEF CompleteTurn
    <3> QED
      BY <3>2, <3>3
  <2>18. CASE FreeGrant(s)
    <3>1. grant' \in [Turns -> Grants]
      BY <2>18, <2>call, GrantFacts DEF FreeGrant, GrantStates
    <3>2. TypeOK'
      BY <2>18, <3>1, GoFacts, EndFacts DEF FreeGrant, Steps, Releasing
    <3>3. CASE GrantUnchanged(s, call[s].turn)
      <4>s. PICK step \in Releasing : Go(s, step) /\ generations' = generations
        BY <2>18, <3>3 DEF FreeGrant, Releasing
      <4>1. CallsTyped'
        BY <2>18, <2>call, <4>s, GoTyped DEF PlainSteps, Releasing
      <4> QED
        BY <3>2, <4>1
    <3>4. CASE ~GrantUnchanged(s, call[s].turn)
      <4>1. CallsTyped'
        BY <2>18, <3>4, EndTyped DEF FreeGrant
      <4> QED
        BY <3>2, <4>1
    <3> QED
      BY <3>3, <3>4
  <2>19. CASE FreeHead(s)
    <3>1. head' \in Heads
      BY <2>19, HandFacts DEF FreeHead
    <3>2. TypeOK'
      BY <2>19, <3>1, GoFacts, EndFacts DEF FreeHead, Steps, Releasing
    <3>3. CASE Unchanged(s)
      <4>1. CallsTyped'
        BY <2>19, <2>call, <3>3, GoTyped DEF FreeHead, PlainSteps
      <4> QED
        BY <3>2, <4>1
    <3>4. CASE ~Unchanged(s)
      <4>1. CallsTyped'
        BY <2>19, <3>4, EndTyped DEF FreeHead
      <4> QED
        BY <3>2, <4>1
    <3> QED
      BY <3>3, <3>4
  <2>20. CASE RetireTurn(s)
    <3>1. turn' \in [Turns -> TurnDocs]
      BY <2>20, <2>call, TurnFacts DEF RetireTurn, TurnStates
    <3>2. TypeOK'
      BY <2>20, <3>1, EndFacts DEF RetireTurn
    <3>3. CallsTyped'
      BY <2>20, EndTyped DEF RetireTurn
    <3> QED
      BY <3>2, <3>3
  <2> QED
    BY <1>2, <2>2, <2>3, <2>4, <2>5, <2>6, <2>7, <2>8, <2>9, <2>10, <2>11, <2>12,
       <2>13, <2>14, <2>15, <2>16, <2>17, <2>18, <2>19, <2>20 DEF Step
<1>3. ASSUME NEW s \in Sessions, Die(s) PROVE TypeInv'
  <2>1. [NoCall EXCEPT !.step = "dead"] \in Calls
    BY StepType DEF Steps
  <2>2. TypeOK'
    BY <1>3, <2>1 DEF Die, documents
  <2>3. CallsTyped'
    BY <1>3, <2>1 DEF Die, documents, CallsTyped, NoCall
  <2> QED
    BY <2>2, <2>3
<1>4. ASSUME NEW t \in Turns, TimePasses(t) PROVE TypeInv'
  <2>1. grant[t] \in Grants
    OBVIOUS
  <2>2. [grant[t] EXCEPT !.late = TRUE] \in Grants
    BY <2>1 DEF Grants
  <2>3. grant' = [grant EXCEPT ![t] = [grant[t] EXCEPT !.late = TRUE]]
    BY <1>4, Zenon DEF TimePasses
  <2>4. TypeOK'
    BY <1>4, <2>2, <2>3 DEF TimePasses
  <2>5. CallsTyped'
    BY <1>4 DEF TimePasses, CallsTyped
  <2> QED
    BY <2>4, <2>5
<1>5. CASE UNCHANGED vars
  <2>1. TypeOK'
    BY <1>5 DEF vars
  <2>2. CallsTyped'
    BY <1>5 DEF vars, CallsTyped
  <2> QED
    BY <2>1, <2>2
<1> QED
  BY <1>1, <1>2, <1>3, <1>4, <1>5 DEF Next

LEMMA TypeInit == Init => TypeInv
BY Constants DEF Init, TypeInv, TypeOK, CallsTyped, NoCall

\* The documents and what the calls remember keep their types: the fields of
\* contract_heads, contract_generation_grants, turn_bindings and
\* contract_generations (contract_control.py).
THEOREM TypeCorrect == Spec => []TypeOK
<1>1. TypeInv => TypeOK
  BY DEF TypeInv
<1> QED
  BY TypeInit, TypeStep, <1>1, PTL DEF Spec

-----------------------------------------------------------------------------
(* The history. *)

\* The steps of a call that has inserted a generation and not marked it.
Owning == {"advance", "conflict", "canonical"}

Canonical(k) == \E i \in 1..Len(promoted) : promoted[i] = k

HasPromoted(t) == \E i \in 1..Len(promoted) : generations[promoted[i]].turn = t

-----------------------------------------------------------------------------
(* The invariant: of a session ... *)

\* What a session read of the head is the head while the revision is the same.
SnapshotOK(s) ==
  /\ call[s].head.rev <= head.rev
  /\ call[s].head.rev = head.rev => call[s].head = head

\* A call knows of no turn that has not been bound.
TraceOK(s) ==
  \A t \in Turns :
    call[s].turn = t \/ call[s].head.active = t => turn[t].state # "ABSENT"

\* A turn that is being bound has no right yet.
BindingOK(s) ==
  call[s].step \in Binding =>
    /\ head.active # call[s].turn
    /\ ~HasPromoted(call[s].turn)
    /\ call[s].step = "own" => grant[call[s].turn].base = call[s].head.number

\* A promotion is prepared for the head that the call has read.
PromotionOK(s) ==
  LET c == call[s]
  IN /\ c.step \in {"generate", "advance"} =>
          c.head.active = c.turn /\ c.head.content # c.content
     /\ c.step = "advance" =>
          /\ generations[c.gen].number = c.head.number + 1
          /\ generations[c.gen].previous = c.head.id
          /\ generations[c.gen].turn = c.turn
          /\ generations[c.gen].content = c.content

\* The generation of a call is unmarked, and in the history exactly when the
\* call has advanced the head to it.
GenerationOK(s) ==
  call[s].step \in Owning =>
    /\ generations[call[s].gen].state = "PENDING"
    /\ Canonical(call[s].gen) <=> call[s].step = "canonical"

\* No two calls bind one turn or own one generation.
RivalsOK(s) ==
  \A r \in Sessions \ {s} :
    /\ call[r].step \in Binding /\ call[s].step \in Binding =>
         call[r].turn # call[s].turn
    /\ call[r].step \in Owning /\ call[s].step \in Owning =>
         call[r].gen # call[s].gen

SessionInv(s) ==
  /\ SnapshotOK(s)
  /\ TraceOK(s)
  /\ BindingOK(s)
  /\ PromotionOK(s)
  /\ GenerationOK(s)
  /\ RivalsOK(s)

(* ... and of the documents. *)

FirstRevision == head.rev = 0 => head = FirstHead

\* Only a turn that has been bound leaves a trace.
TurnsTraced ==
  \A t \in Turns :
    head.active = t \/ HasPromoted(t) \/ grant[t].state # "ABSENT" =>
      turn[t].state # "ABSENT"

\* The right is issued for the generation of the head, to a turn that has not
\* used it.
HolderOK ==
  head.active # None =>
    /\ grant[head.active].base = head.number
    /\ ~HasPromoted(head.active)

\* The head shows the text of the last generation.
HeadShowsLast ==
  head.content = IF promoted = <<>> THEN None
                 ELSE generations[promoted[Len(promoted)]].content

DocumentInv ==
  /\ FirstRevision
  /\ TurnsTraced
  /\ HolderOK
  /\ HeadShowsLast
  /\ LinearHistory
  /\ BuiltOnItsGrant
  /\ MarksAreTrue

HistoryInv == DocumentInv /\ \A s \in Sessions : SessionInv(s)

Inv == TypeInv /\ HistoryInv

-----------------------------------------------------------------------------
(* Steps that change nothing the invariant says of the documents. *)

DocumentsKept ==
  /\ head' = head
  /\ promoted' = promoted
  /\ generations' = generations
  /\ \A t \in Turns :
       /\ grant'[t].base = grant[t].base
       /\ turn'[t].state = "ABSENT" =>
            turn[t].state = "ABSENT" /\ grant'[t].state = grant[t].state

\* Only the call of s changes.
OnlyCall(s) == \A r \in Sessions : r # s => call'[r] = call[r]

LEMMA KeptHistory ==
  ASSUME promoted' = promoted, generations' = generations
  PROVE  /\ \A t : HasPromoted(t)' <=> HasPromoted(t)
         /\ \A k : Canonical(k)' <=> Canonical(k)
BY DEF HasPromoted, Canonical

\* The generations in the history were made by turns.
LEMMA HistoryTypes ==
  ASSUME TypeOK, NEW i \in 1..Len(promoted)
  PROVE  /\ promoted[i] \in 1..Len(generations)
         /\ generations[promoted[i]] \in GenerationDocs
         /\ generations[promoted[i]].turn \in Turns
<1>1. promoted[i] \in 1..Len(generations)
  BY DEF TypeOK
<1>2. generations[promoted[i]] \in GenerationDocs
  BY <1>1 DEF TypeOK
<1> QED
  BY <1>1, <1>2 DEF GenerationDocs

\* The conjuncts about the documents, one by one.
LEMMA KeptDocuments ==
  ASSUME Inv, DocumentsKept
  PROVE  DocumentInv'
<1> USE DEF Inv, HistoryInv, DocumentInv
<1>1. FirstRevision'
  BY DEF DocumentsKept, FirstRevision
<1>2. TurnsTraced'
  BY KeptHistory DEF DocumentsKept, TurnsTraced
<1>3. HolderOK'
  <2>1. head.active # None => head.active \in Turns
    BY DEF TypeInv, TypeOK, Heads
  <2> QED
    BY <2>1, KeptHistory DEF DocumentsKept, HolderOK
<1>4. HeadShowsLast'
  BY DEF DocumentsKept, HeadShowsLast
<1>5. LinearHistory'
  BY DEF DocumentsKept, LinearHistory
<1>6. BuiltOnItsGrant'
  BY HistoryTypes DEF DocumentsKept, BuiltOnItsGrant, TypeInv
<1>7. MarksAreTrue'
  BY DEF DocumentsKept, MarksAreTrue
<1> QED
  BY <1>1, <1>2, <1>3, <1>4, <1>5, <1>6, <1>7

\* What a step leaves alone for a call r that does not make it.
Untouched(r) ==
  /\ \/ head' = head
     \/ /\ head'.rev = head.rev + 1
        /\ call[r].step \in Binding => head'.active # call[r].turn
  /\ \A t \in Turns : turn'[t].state = "ABSENT" => turn[t].state = "ABSENT"
  /\ call[r].step \in Binding =>
       /\ grant'[call[r].turn].base = grant[call[r].turn].base
       /\ HasPromoted(call[r].turn)' => HasPromoted(call[r].turn)
  /\ call[r].step \in Owning =>
       /\ generations'[call[r].gen] = generations[call[r].gen]
       /\ Canonical(call[r].gen)' <=> Canonical(call[r].gen)

\* The conjuncts about another call, one by one.
LEMMA KeptSession ==
  ASSUME Inv, NEW r \in Sessions, call'[r] = call[r], Untouched(r)
  PROVE  /\ SnapshotOK(r)'
         /\ TraceOK(r)'
         /\ BindingOK(r)'
         /\ PromotionOK(r)'
         /\ GenerationOK(r)'
<1> USE DEF Inv, HistoryInv, SessionInv
<1>1. SnapshotOK(r)'
  <2>1. head.rev \in Nat /\ call[r].head.rev \in Nat
    BY DEF TypeInv, TypeOK, Heads, Calls
  <2> QED
    BY <2>1 DEF Untouched, SnapshotOK
<1>2. TraceOK(r)'
  BY DEF Untouched, TraceOK
<1>3. BindingOK(r)'
  <2>1. ASSUME call[r].step \in Binding PROVE HasPromoted(call[r].turn)' => FALSE
    BY <2>1 DEF Untouched, BindingOK
  <2>2. ASSUME call[r].step \in Binding
        PROVE  /\ head'.active # call[r].turn
               /\ call[r].step = "own" => grant'[call[r].turn].base = call[r].head.number
    BY <2>2 DEF Untouched, BindingOK
  <2> QED
    BY <2>1, <2>2 DEF BindingOK, HasPromoted
<1>4. PromotionOK(r)'
  BY DEF Untouched, PromotionOK, Owning
<1>5. GenerationOK(r)'
  <2>1. ASSUME call[r].step \in Owning
        PROVE  Canonical(call[r].gen)' <=> call[r].step = "canonical"
    BY <2>1 DEF Untouched, GenerationOK
  <2>2. ASSUME call[r].step \in Owning
        PROVE  generations'[call[r].gen].state = "PENDING"
    BY <2>2 DEF Untouched, GenerationOK
  <2> QED
    BY <2>1, <2>2 DEF GenerationOK, Canonical
<1> QED
  BY <1>1, <1>2, <1>3, <1>4, <1>5

LEMMA Rivals ==
  ASSUME HistoryInv, NEW s \in Sessions, OnlyCall(s), RivalsOK(s)'
  PROVE  \A r \in Sessions : RivalsOK(r)'
BY DEF HistoryInv, SessionInv, OnlyCall, RivalsOK

\* It is enough to look at the documents and at the call that makes a step.
LEMMA Whole ==
  ASSUME Inv, NEW s \in Sessions, OnlyCall(s), DocumentInv', SessionInv(s)',
         \A r \in Sessions : r # s => Untouched(r)
  PROVE  HistoryInv'
<1>1. ASSUME NEW r \in Sessions PROVE SessionInv(r)'
  <2>1. RivalsOK(r)'
    BY Rivals DEF Inv, SessionInv
  <2>2. CASE r = s
    BY <2>2
  <2>3. CASE r # s
    BY <2>1, <2>3, KeptSession DEF SessionInv, OnlyCall
  <2> QED
    BY <2>2, <2>3
<1> QED
  BY <1>1 DEF HistoryInv

\* ... and at the call only, when the documents are kept.
LEMMA Harmless ==
  ASSUME Inv, DocumentsKept, NEW s \in Sessions, OnlyCall(s), SessionInv(s)'
  PROVE  HistoryInv'
<1>1. DocumentInv'
  BY KeptDocuments
<1>2. ASSUME NEW r \in Sessions, r # s PROVE Untouched(r)
  <2>c. call'[r] = call[r]
    BY <1>2 DEF OnlyCall
  <2>1. call[r].step \in Binding => call[r].turn \in Turns
    BY DEF Inv, TypeInv, CallsTyped, Binding
  <2>2. /\ HasPromoted(call[r].turn)' <=> HasPromoted(call[r].turn)
        /\ Canonical(call[r].gen)' <=> Canonical(call[r].gen)
    BY <2>c DEF DocumentsKept, HasPromoted, Canonical
  <2> QED
    BY <2>1, <2>2 DEF DocumentsKept, Untouched
<1> QED
  BY <1>1, <1>2, Whole

\* A call that ends, and one that goes on to a step of which nothing is said.
LEMMA Ends ==
  ASSUME Inv, DocumentsKept, NEW s \in Sessions, OnlyCall(s),
         call'[s].step \in {"idle", "dead"}, call'[s].turn = None,
         call'[s].head = FirstHead
  PROVE  HistoryInv'
<1>1. SnapshotOK(s)'
  <2>1. FirstRevision /\ head.rev \in Nat
    BY DEF Inv, HistoryInv, DocumentInv, TypeInv, TypeOK, Heads
  <2> QED
    BY <2>1 DEF SnapshotOK, FirstRevision, FirstHead, DocumentsKept
<1>2. TraceOK(s)'
  BY NoneAssumption DEF TraceOK, FirstHead
<1>3. BindingOK(s)' /\ PromotionOK(s)' /\ GenerationOK(s)' /\ RivalsOK(s)'
  BY DEF BindingOK, PromotionOK, GenerationOK, RivalsOK, Binding, Owning
<1> QED
  BY <1>1, <1>2, <1>3, Harmless DEF SessionInv

LEMMA GoesOn ==
  ASSUME Inv, DocumentsKept, NEW s \in Sessions, OnlyCall(s),
         call'[s].step \notin Owning \cup {"own", "generate"},
         call'[s].step \in Binding => call[s].step \in Binding,
         call'[s].turn = call[s].turn,
         call'[s].head \in {call[s].head, head}
  PROVE  HistoryInv'
<1> USE DEF Inv, HistoryInv
<1>1. SnapshotOK(s)'
  BY DEF SessionInv, SnapshotOK, DocumentsKept, TypeInv, TypeOK, Heads
<1>2. TraceOK(s)'
  BY DEF SessionInv, TraceOK, DocumentsKept, DocumentInv, TurnsTraced
<1>3. BindingOK(s)'
  BY KeptHistory DEF SessionInv, BindingOK, DocumentsKept
<1>4. PromotionOK(s)' /\ GenerationOK(s)'
  BY DEF PromotionOK, GenerationOK, Owning
<1>5. RivalsOK(s)'
  BY DEF SessionInv, RivalsOK, OnlyCall
<1> QED
  BY <1>1, <1>2, <1>3, <1>4, <1>5, Harmless DEF SessionInv

\* The writes of one grant, or one turn, that the invariant does not notice.
LEMMA GrantKept ==
  ASSUME Inv, NEW t \in Turns, turn[t].state # "ABSENT", NEW state \in GrantStates,
         grant' = GrantWith(t, state), UNCHANGED <<head, turn, generations, promoted>>
  PROVE  DocumentsKept
<1>1. /\ grant'[t].base = grant[t].base
      /\ \A u \in Turns : u # t => grant'[u] = grant[u]
  BY GrantFacts DEF Inv, TypeInv, TypeOK
<1> QED
  BY <1>1 DEF DocumentsKept

LEMMA TurnKept ==
  ASSUME Inv, NEW t \in Turns, NEW state \in TurnStates \ {"ABSENT"},
         turn' = [turn EXCEPT ![t].state = state],
         UNCHANGED <<head, grant, generations, promoted>>
  PROVE  DocumentsKept
<1>1. /\ turn'[t].state = state
      /\ \A u \in Turns : u # t => turn'[u] = turn[u]
  BY TurnFacts DEF Inv, TypeInv, TypeOK
<1> QED
  BY <1>1 DEF DocumentsKept

\* A call that is going on has a turn, which has been bound.
LEMMA TurnOfCall ==
  ASSUME Inv, NEW s \in Sessions, call[s].step \notin {"idle", "dead"}
  PROVE  call[s].turn \in Turns /\ turn[call[s].turn].state # "ABSENT"
BY DEF Inv, TypeInv, CallsTyped, HistoryInv, SessionInv, TraceOK

\* What Go and End leave, in the terms of the lemmas above.
LEMMA GoStep ==
  ASSUME Inv, NEW s \in Sessions, NEW step \in Steps, Go(s, step)
  PROVE  /\ OnlyCall(s)
         /\ call'[s].step = step
         /\ call'[s].turn = call[s].turn
         /\ call'[s].content = call[s].content
         /\ call'[s].head = call[s].head
         /\ call'[s].gen = call[s].gen
BY GoFacts DEF Inv, TypeInv, TypeOK, OnlyCall

LEMMA EndStep ==
  ASSUME Inv, NEW s \in Sessions, End(s)
  PROVE  /\ OnlyCall(s)
         /\ call'[s].step = "idle"
         /\ call'[s].turn = None
         /\ call'[s].head = FirstHead
BY EndFacts DEF Inv, TypeInv, TypeOK, OnlyCall

LEMMA EndsKept ==
  ASSUME Inv, DocumentsKept, NEW s \in Sessions, End(s)
  PROVE  HistoryInv'
BY EndStep, Ends

\* The steps to which a call can go on without a word in the invariant.
Unsaid == Steps \ (Owning \cup {"own", "generate"})

LEMMA GoesKept ==
  ASSUME Inv, DocumentsKept, NEW s \in Sessions, NEW step \in Unsaid, Go(s, step),
         step \in Binding => call[s].step \in Binding
  PROVE  HistoryInv'
<1>1. /\ OnlyCall(s)
      /\ call'[s].step = step
      /\ call'[s].turn = call[s].turn
      /\ call'[s].head = call[s].head
  BY GoStep DEF Unsaid
<1> QED
  BY <1>1, GoesOn DEF Unsaid

LEMMA SameDocuments ==
  ASSUME UNCHANGED documents, UNCHANGED promoted
  PROVE  DocumentsKept
BY DEF documents, DocumentsKept

\* The steps of bind_turn that leave the head and the grants' generations alone.
LEMMA BindSteps ==
  ASSUME Inv, NEW s \in Sessions,
         \/ ReadHead(s) \/ ReadOwner(s) \/ Recheck(s) \/ ExpireGrant(s)
         \/ CancelGrant(s) \/ DenyTurn(s)
  PROVE  HistoryInv'
<1> USE DEF At
<1>b. {"insert", "owner", "clear", "expire", "recheck", "deny"} \subseteq Unsaid \cap Binding
  BY DEF Unsaid, Owning, Steps, Binding
<1>calls. call[s] \in Calls /\ call \in [Sessions -> Calls]
  BY DEF Inv, TypeInv, TypeOK
<1>1. CASE ReadHead(s)
  <2>1. DocumentsKept
    BY <1>1, SameDocuments DEF ReadHead
  <2>2. PICK c : c = [call[s] EXCEPT !.head = head]
    OBVIOUS
  <2>3. PICK step \in {"insert", "owner"} :
          call' = [call EXCEPT ![s] = [c EXCEPT !.step = step]]
    BY <1>1, <2>2, Zenon DEF ReadHead
  <2>4. /\ OnlyCall(s)
        /\ call'[s].step = step
        /\ call'[s].turn = call[s].turn
        /\ call'[s].head = head
    BY <1>calls, <2>2, <2>3 DEF Calls, OnlyCall
  <2> QED
    BY <1>1, <1>b, <2>1, <2>4, GoesOn DEF ReadHead, Unsaid, Binding
<1>2. CASE ReadOwner(s)
  <2>1. DocumentsKept
    BY <1>2, SameDocuments DEF ReadOwner
  <2>2. PICK c : c = [call[s] EXCEPT !.seen = grant[call[s].head.active]]
    OBVIOUS
  <2>3. PICK step \in {"clear", "expire", "recheck"} :
          call' = [call EXCEPT ![s] = [c EXCEPT !.step = step]]
    BY <1>2, <2>2, Zenon DEF ReadOwner
  <2>4. /\ OnlyCall(s)
        /\ call'[s].step = step
        /\ call'[s].turn = call[s].turn
        /\ call'[s].head = call[s].head
    BY <1>calls, <2>2, <2>3 DEF Calls, OnlyCall
  <2> QED
    BY <1>2, <1>b, <2>1, <2>4, GoesOn DEF ReadOwner, Unsaid, Binding
<1>3. CASE Recheck(s)
  <2>1. DocumentsKept
    BY <1>3, SameDocuments DEF Recheck
  <2>2. PICK step \in {"deny", "insert"} : Go(s, step)
    BY <1>3 DEF Recheck
  <2>3. call[s].step \in Binding
    BY <1>3 DEF Recheck, Binding
  <2> QED
    BY <1>b, <2>1, <2>2, <2>3, GoesKept
<1>4. CASE ExpireGrant(s)
  <2>1. PICK t \in Turns : t = call[s].head.active
    BY <1>4, <1>calls DEF ExpireGrant, Calls, Heads, Inv, TypeInv, CallsTyped
  <2>2. turn[t].state # "ABSENT"
    BY <2>1 DEF Inv, HistoryInv, SessionInv, TraceOK
  <2>3. DocumentsKept
    <3>1. CASE grant' = GrantWith(t, "EXPIRED")
      BY <1>4, <2>2, <3>1, GrantKept DEF ExpireGrant, GrantStates
    <3>2. CASE UNCHANGED grant
      BY <1>4, <3>2 DEF ExpireGrant, DocumentsKept
    <3> QED
      BY <1>4, <2>1, <3>1, <3>2 DEF ExpireGrant
  <2>4. PICK step \in {"clear", "deny"} : Go(s, step)
    BY <1>4 DEF ExpireGrant
  <2>5. call[s].step \in Binding
    BY <1>4 DEF ExpireGrant, Binding
  <2> QED
    BY <1>b, <2>3, <2>4, <2>5, GoesKept
<1>5. CASE CancelGrant(s)
  <2>1. call[s].step \in Binding /\ call[s].step \notin {"idle", "dead"}
    BY <1>5 DEF CancelGrant, Binding
  <2>2. DocumentsKept
    BY <1>5, <2>1, TurnOfCall, GrantKept DEF CancelGrant, GrantStates
  <2> QED
    BY <1>5, <1>b, <2>1, <2>2, GoesKept DEF CancelGrant
<1>6. CASE DenyTurn(s)
  <2>1. call[s].step \notin {"idle", "dead"}
    BY <1>6 DEF DenyTurn
  <2>2. DocumentsKept
    <3>1. PICK t \in Turns : t = call[s].turn
      BY <2>1, TurnOfCall
    <3>2. turn' = [turn EXCEPT ![t].state = "DENIED"]
      BY <1>6, <3>1, Zenon DEF DenyTurn
    <3>3. "DENIED" \in TurnStates \ {"ABSENT"}
      BY DEF TurnStates
    <3> QED
      BY <1>6, <3>2, <3>3, TurnKept DEF DenyTurn
  <2> QED
    BY <1>6, <2>2, EndsKept DEF DenyTurn
<1> QED
  BY <1>1, <1>2, <1>3, <1>4, <1>5, <1>6

\* The steps after a promotion, or in a release, that only close grant and turn.
LEMMA LateSteps ==
  ASSUME Inv, NEW s \in Sessions,
         \/ ConsumeGrant(s) \/ CompleteTurn(s) \/ FreeGrant(s) \/ RetireTurn(s)
         \/ Die(s)
  PROVE  HistoryInv'
<1> USE DEF At
<1>u. {"complete", "unhand", "retire"} \subseteq Unsaid \ Binding
  BY DEF Unsaid, Owning, Steps, Binding, Promoting, Releasing
<1>1. CASE ConsumeGrant(s)
  <2>1. call[s].turn \in Turns /\ turn[call[s].turn].state # "ABSENT"
    BY <1>1, TurnOfCall DEF ConsumeGrant
  <2>2. DocumentsKept
    <3>1. CASE grant' = GrantWith(call[s].turn, "CONSUMED")
      BY <1>1, <2>1, <3>1, GrantKept DEF ConsumeGrant, GrantStates
    <3>2. CASE UNCHANGED grant
      BY <1>1, <3>2 DEF ConsumeGrant, DocumentsKept
    <3> QED
      BY <1>1, <3>1, <3>2 DEF ConsumeGrant
  <2> QED
    BY <1>1, <1>u, <2>2, GoesKept DEF ConsumeGrant
<1>2. CASE CompleteTurn(s)
  <2>1. call[s].turn \in Turns
    BY <1>2, TurnOfCall DEF CompleteTurn
  <2>2. DocumentsKept
    <3>1. CASE turn' = [turn EXCEPT ![call[s].turn].state = "COMPLETED"]
      <4>1. PICK t \in Turns : t = call[s].turn
        BY <2>1
      <4>2. turn' = [turn EXCEPT ![t].state = "COMPLETED"]
        BY <3>1, <4>1, Zenon
      <4>3. "COMPLETED" \in TurnStates \ {"ABSENT"}
        BY DEF TurnStates
      <4> QED
        BY <1>2, <4>2, <4>3, TurnKept DEF CompleteTurn
    <3>2. CASE UNCHANGED turn
      BY <1>2, <3>2 DEF CompleteTurn, DocumentsKept
    <3> QED
      BY <1>2, <3>1, <3>2 DEF CompleteTurn
  <2> QED
    BY <1>2, <2>2, EndsKept DEF CompleteTurn
<1>3. CASE FreeGrant(s)
  <2>1. call[s].turn \in Turns /\ turn[call[s].turn].state # "ABSENT"
    BY <1>3, TurnOfCall DEF FreeGrant
  <2>2. CASE GrantUnchanged(s, call[s].turn)
    <3>1. DocumentsKept
      BY <1>3, <2>1, <2>2, GrantKept DEF FreeGrant, GrantStates
    <3>2. PICK step \in {"unhand", "retire"} : Go(s, step)
      BY <1>3, <2>2 DEF FreeGrant
    <3> QED
      BY <1>u, <3>1, <3>2, GoesKept
  <2>3. CASE ~GrantUnchanged(s, call[s].turn)
    <3>1. DocumentsKept /\ End(s)
      BY <1>3, <2>3 DEF FreeGrant, DocumentsKept
    <3> QED
      BY <3>1, EndsKept
  <2> QED
    BY <2>2, <2>3
<1>4. CASE RetireTurn(s)
  <2>1. call[s].turn \in Turns
    BY <1>4, TurnOfCall DEF RetireTurn
  <2>2. DocumentsKept
    <3>1. CASE turn' = [turn EXCEPT ![call[s].turn].state = "RELEASED"]
      <4>1. PICK t \in Turns : t = call[s].turn
        BY <2>1
      <4>2. turn' = [turn EXCEPT ![t].state = "RELEASED"]
        BY <3>1, <4>1, Zenon
      <4>3. "RELEASED" \in TurnStates \ {"ABSENT"}
        BY DEF TurnStates
      <4> QED
        BY <1>4, <4>2, <4>3, TurnKept DEF RetireTurn
    <3>2. CASE UNCHANGED turn
      BY <1>4, <3>2 DEF RetireTurn, DocumentsKept
    <3> QED
      BY <1>4, <3>1, <3>2 DEF RetireTurn
  <2> QED
    BY <1>4, <2>2, EndsKept DEF RetireTurn
<1>5. CASE Die(s)
  <2>1. DocumentsKept
    BY <1>5, SameDocuments DEF Die
  <2>2. /\ OnlyCall(s)
        /\ call'[s].step = "dead"
        /\ call'[s].turn = None
        /\ call'[s].head = FirstHead
    BY <1>5 DEF Die, OnlyCall, NoCall, Inv, TypeInv, TypeOK
  <2> QED
    BY <2>1, <2>2, Ends
<1> QED
  BY <1>1, <1>2, <1>3, <1>4, <1>5

-----------------------------------------------------------------------------
(* Steps that begin a call. *)

\* A call that begins for a turn that has been bound.
LEMMA Starts ==
  ASSUME Inv, DocumentsKept, NEW s \in Sessions, OnlyCall(s),
         NEW step \in Unsaid \ Binding, NEW t \in Turns,
         turn[t].state # "ABSENT", turn'[t].state # "ABSENT",
         call'[s].step = step, call'[s].turn = t,
         call'[s].head \in {FirstHead, head}
  PROVE  HistoryInv'
<1> USE DEF Inv, HistoryInv
<1>1. SnapshotOK(s)'
  <2>1. FirstRevision /\ head.rev \in Nat
    BY DEF DocumentInv, TypeInv, TypeOK, Heads
  <2> QED
    BY <2>1 DEF SnapshotOK, FirstRevision, FirstHead, DocumentsKept
<1>2. TraceOK(s)'
  <2>1. \A u \in Turns : head.active = u => turn'[u].state # "ABSENT"
    BY DEF DocumentInv, TurnsTraced, DocumentsKept
  <2> QED
    BY <2>1, NoneAssumption DEF TraceOK, FirstHead
<1>3. BindingOK(s)' /\ PromotionOK(s)' /\ GenerationOK(s)' /\ RivalsOK(s)'
  BY DEF BindingOK, PromotionOK, GenerationOK, RivalsOK, Owning, Unsaid
<1> QED
  BY <1>1, <1>2, <1>3, Harmless DEF SessionInv

\* A call begins.
LEMMA BeginSteps ==
  ASSUME Inv, NEW s \in Sessions, Begin(s)
  PROVE  HistoryInv'
<1> USE DEF At
<1>calls. call \in [Sessions -> Calls] /\ turn \in [Turns -> TurnDocs]
  BY DEF Inv, TypeInv, TypeOK
<1>1. ASSUME NEW t \in Turns, BindTurn(s, t) PROVE HistoryInv'
  <2>1. /\ turn[t].state = "ABSENT"
        /\ turn'[t].state = "BOUND"
        /\ \A u \in Turns : u # t => turn'[u] = turn[u]
    BY <1>1, <1>calls DEF BindTurn
  <2>2. /\ OnlyCall(s)
        /\ call'[s].step = "head"
        /\ call'[s].turn = t
        /\ call'[s].head = FirstHead
    BY <1>1, <1>calls DEF BindTurn, NoCall, OnlyCall
  <2>3. DocumentsKept
    BY <1>1, <2>1 DEF BindTurn, DocumentsKept
  <2>4. head.active # t /\ ~HasPromoted(t)
    BY <2>1 DEF Inv, HistoryInv, DocumentInv, TurnsTraced
  <2>5. SnapshotOK(s)'
    <3>1. FirstRevision /\ head.rev \in Nat
      BY DEF Inv, HistoryInv, DocumentInv, TypeInv, TypeOK, Heads
    <3> QED
      BY <2>2, <2>3, <3>1 DEF SnapshotOK, FirstRevision, FirstHead, DocumentsKept
  <2>6. TraceOK(s)'
    BY <2>1, <2>2, NoneAssumption DEF TraceOK, FirstHead
  <2>7. BindingOK(s)'
    <3>1. ~HasPromoted(t)'
      BY <2>3, <2>4, KeptHistory DEF DocumentsKept
    <3> QED
      BY <2>2, <2>3, <2>4, <3>1 DEF BindingOK, DocumentsKept, HasPromoted
  <2>8. PromotionOK(s)' /\ GenerationOK(s)'
    BY <2>2 DEF PromotionOK, GenerationOK, Owning
  <2>9. RivalsOK(s)'
    <3>1. ASSUME NEW r \in Sessions, r # s PROVE call'[r].turn # t
      BY <2>1, <2>2, <3>1 DEF OnlyCall, Inv, HistoryInv, SessionInv, TraceOK
    <3> QED
      BY <2>2, <3>1 DEF RivalsOK, Owning
  <2> QED
    BY <2>2, <2>3, <2>5, <2>6, <2>7, <2>8, <2>9, Harmless DEF SessionInv
<1>2. ASSUME NEW t \in Turns, NEW c \in Contents, BeginPromote(s, t, c)
      PROVE  HistoryInv'
  <2>1. DocumentsKept
    BY <1>2, SameDocuments DEF BeginPromote
  <2>2. turn[t].state # "ABSENT" /\ turn'[t].state # "ABSENT"
    BY <1>2 DEF BeginPromote, documents
  <2>3. /\ OnlyCall(s)
        /\ call'[s].step = "check"
        /\ call'[s].turn = t
        /\ call'[s].head = FirstHead
    BY <1>2, <1>calls DEF BeginPromote, NoCall, OnlyCall
  <2>4. "check" \in Unsaid \ Binding
    BY DEF Unsaid, Owning, Steps, Binding, Promoting
  <2> QED
    BY <2>1, <2>2, <2>3, <2>4, Starts
<1>3. ASSUME NEW t \in Turns, BeginRelease(s, t) PROVE HistoryInv'
  <2>1. DocumentsKept
    BY <1>3, SameDocuments DEF BeginRelease
  <2>2. turn[t].state # "ABSENT" /\ turn'[t].state # "ABSENT"
    BY <1>3 DEF BeginRelease, documents, Inv, HistoryInv, DocumentInv, TurnsTraced
  <2>3. /\ OnlyCall(s)
        /\ call'[s].step = "free"
        /\ call'[s].turn = t
        /\ call'[s].head = head
    BY <1>3, <1>calls DEF BeginRelease, NoCall, OnlyCall
  <2>4. "free" \in Unsaid \ Binding
    BY DEF Unsaid, Owning, Steps, Binding, Releasing
  <2> QED
    BY <2>1, <2>2, <2>3, <2>4, Starts
<1> QED
  BY <1>1, <1>2, <1>3 DEF Begin

-----------------------------------------------------------------------------
(* Steps that give the head to a turn, or take it away. *)

\* The head changes hands: to nobody, or to a turn with a fresh grant for it.
LEMMA HandOver ==
  ASSUME Inv, NEW s \in Sessions, OnlyCall(s), SessionInv(s)',
         NEW t \in Turns \cup {None}, head' = HeadOwnedBy(t),
         UNCHANGED <<grant, turn, generations, promoted>>,
         t # None => /\ turn[t].state # "ABSENT"
                     /\ grant[t].base = head.number
                     /\ ~HasPromoted(t),
         \A r \in Sessions : r # s /\ call[r].step \in Binding => call[r].turn # t
  PROVE  HistoryInv'
<1>1. /\ head'.active = t
      /\ head'.rev = head.rev + 1
      /\ head'.number = head.number
      /\ head'.id = head.id
      /\ head'.content = head.content
      /\ head.rev \in Nat
  BY HandFacts DEF Inv, TypeInv, TypeOK, Heads
<1>2. DocumentInv'
  <2> USE DEF Inv, HistoryInv, DocumentInv
  <2>1. FirstRevision'
    BY <1>1 DEF FirstRevision
  <2>2. TurnsTraced'
    BY <1>1, KeptHistory, NoneAssumption DEF TurnsTraced
  <2>3. HolderOK'
    BY <1>1, KeptHistory DEF HolderOK
  <2>4. HeadShowsLast'
    BY <1>1 DEF HeadShowsLast
  <2>5. LinearHistory'
    BY <1>1 DEF LinearHistory
  <2>6. BuiltOnItsGrant'
    BY DEF BuiltOnItsGrant
  <2>7. MarksAreTrue'
    BY DEF MarksAreTrue
  <2> QED
    BY <2>1, <2>2, <2>3, <2>4, <2>5, <2>6, <2>7
<1>3. ASSUME NEW r \in Sessions, r # s PROVE Untouched(r)
  <2>c. call'[r] = call[r]
    BY <1>3 DEF OnlyCall
  <2>1. /\ HasPromoted(call[r].turn)' <=> HasPromoted(call[r].turn)
        /\ Canonical(call[r].gen)' <=> Canonical(call[r].gen)
    BY <2>c DEF HasPromoted, Canonical
  <2>2. call[r].step \in Binding => head'.active # call[r].turn
    BY <1>1, <1>3
  <2> QED
    BY <1>1, <2>1, <2>2 DEF Untouched
<1> QED
  BY <1>2, <1>3, Whole

\* The compare-and-sets of the head outside the promotion.
LEMMA HeadSteps ==
  ASSUME Inv, NEW s \in Sessions, ClearHead(s) \/ OwnHead(s) \/ FreeHead(s)
  PROVE  HistoryInv'
<1> USE DEF At
<1>calls. call \in [Sessions -> Calls] /\ call[s] \in Calls /\ head \in Heads
  BY DEF Inv, TypeInv, TypeOK
<1>others. ASSUME NEW r \in Sessions, call[r].step \in Binding
           PROVE  call[r].turn # None
  BY <1>others, NoneAssumption DEF Inv, TypeInv, CallsTyped, Binding
<1>inv. SessionInv(s) /\ FirstRevision
  BY DEF Inv, HistoryInv, DocumentInv
<1>1. CASE ClearHead(s)
  <2>b. call[s].step \in Binding
    BY <1>1 DEF ClearHead, Binding
  <2>t. call[s].turn \in Turns /\ turn[call[s].turn].state # "ABSENT"
    BY <1>1, TurnOfCall DEF ClearHead
  <2>1. CASE Unchanged(s)
    <3>1. PICK h : h = HeadOwnedBy(None)
      OBVIOUS
    <3>2. PICK c : c = [call[s] EXCEPT !.head = h]
      OBVIOUS
    <3>3. /\ head' = h
          /\ call' = [call EXCEPT ![s] = [c EXCEPT !.step = "insert"]]
          /\ UNCHANGED <<grant, turn, generations, promoted>>
      BY <1>1, <2>1, <3>1, <3>2, Zenon DEF ClearHead
    <3>4. /\ OnlyCall(s)
          /\ call'[s].step = "insert"
          /\ call'[s].turn = call[s].turn
          /\ call'[s].head = h
      BY <1>calls, <3>2, <3>3 DEF Calls, OnlyCall
    <3>5. h.active = None /\ h.rev \in Nat
      BY <1>calls, <3>1, HandFacts DEF Heads
    <3>6. SnapshotOK(s)'
      BY <3>3, <3>4, <3>5 DEF SnapshotOK
    <3>7. TraceOK(s)'
      BY <2>t, <3>3, <3>4, <3>5, NoneAssumption DEF TraceOK
    <3>8. BindingOK(s)'
      BY <1>inv, <2>b, <2>t, <3>3, <3>4, <3>5, NoneAssumption
      DEF SessionInv, BindingOK, HasPromoted
    <3>9. PromotionOK(s)' /\ GenerationOK(s)'
      BY <3>4 DEF PromotionOK, GenerationOK, Owning
    <3>10. RivalsOK(s)'
      BY <1>inv, <2>b, <3>4 DEF SessionInv, RivalsOK, OnlyCall, Owning
    <3> QED
      BY <1>others, <3>1, <3>3, <3>4, <3>6, <3>7, <3>8, <3>9, <3>10, HandOver
      DEF SessionInv
  <2>2. CASE ~Unchanged(s)
    <3>1. DocumentsKept /\ Go(s, "deny")
      BY <1>1, <2>2 DEF ClearHead, DocumentsKept
    <3>2. "deny" \in Unsaid
      BY DEF Unsaid, Owning, Steps, Binding
    <3> QED
      BY <2>b, <3>1, <3>2, GoesKept
  <2> QED
    BY <2>1, <2>2
<1>2. CASE OwnHead(s)
  <2>b. call[s].step \in Binding
    BY <1>2 DEF OwnHead, Binding
  <2>t. call[s].turn \in Turns /\ turn[call[s].turn].state # "ABSENT"
    BY <1>2, TurnOfCall DEF OwnHead
  <2>1. CASE Unchanged(s)
    <3>1. PICK t \in Turns : t = call[s].turn
      BY <2>t
    <3>2. /\ head' = HeadOwnedBy(t)
          /\ End(s)
          /\ UNCHANGED <<grant, turn, generations, promoted>>
      BY <1>2, <2>1, <3>1 DEF OwnHead
    <3>3. /\ OnlyCall(s)
          /\ call'[s].step = "idle"
          /\ call'[s].turn = None
          /\ call'[s].head = FirstHead
      BY <3>2, EndStep
    <3>4. SessionInv(s)'
      <4>1. head'.rev = head.rev + 1 /\ head.rev \in Nat
        BY <1>calls, <3>2, HandFacts DEF Heads
      <4>2. SnapshotOK(s)'
        BY <3>3, <4>1 DEF SnapshotOK, FirstHead
      <4>3. TraceOK(s)'
        BY <3>3, NoneAssumption DEF TraceOK, FirstHead
      <4>4. BindingOK(s)' /\ PromotionOK(s)' /\ GenerationOK(s)' /\ RivalsOK(s)'
        BY <3>3 DEF BindingOK, PromotionOK, GenerationOK, RivalsOK, Binding, Owning
      <4> QED
        BY <4>2, <4>3, <4>4 DEF SessionInv
    <3>5. grant[t].base = head.number /\ ~HasPromoted(t)
      <4>1. call[s].head = head
        BY <1>inv, <2>1 DEF SessionInv, SnapshotOK, Unchanged
      <4> QED
        BY <1>2, <1>inv, <2>b, <3>1, <4>1 DEF OwnHead, SessionInv, BindingOK
    <3>6. \A r \in Sessions : r # s /\ call[r].step \in Binding => call[r].turn # t
      BY <1>inv, <2>b, <3>1 DEF SessionInv, RivalsOK
    <3> QED
      BY <2>t, <3>1, <3>2, <3>3, <3>4, <3>5, <3>6, HandOver
  <2>2. CASE ~Unchanged(s)
    <3>1. DocumentsKept /\ Go(s, "cancel")
      BY <1>2, <2>2 DEF OwnHead, DocumentsKept
    <3>2. "cancel" \in Unsaid
      BY DEF Unsaid, Owning, Steps, Binding
    <3> QED
      BY <2>b, <3>1, <3>2, GoesKept
  <2> QED
    BY <2>1, <2>2
<1>3. CASE FreeHead(s)
  <2>1. CASE Unchanged(s)
    <3>1. /\ head' = HeadOwnedBy(None)
          /\ Go(s, "retire")
          /\ UNCHANGED <<grant, turn, generations, promoted>>
      BY <1>3, <2>1 DEF FreeHead
    <3>2. "retire" \in Unsaid \ Binding /\ "retire" \in Steps
      BY DEF Unsaid, Owning, Steps, Binding, Releasing
    <3>3. /\ OnlyCall(s)
          /\ call'[s].step = "retire"
          /\ call'[s].turn = call[s].turn
          /\ call'[s].head = call[s].head
      BY <3>1, <3>2, GoStep
    <3>4. SessionInv(s)'
      <4>1. head'.rev = head.rev + 1 /\ head.rev \in Nat /\ call[s].head.rev \in Nat
        BY <1>calls, <3>1, HandFacts DEF Heads, Calls
      <4>2. SnapshotOK(s)'
        BY <1>inv, <3>3, <4>1 DEF SessionInv, SnapshotOK
      <4>3. TraceOK(s)'
        BY <1>inv, <3>1, <3>3 DEF SessionInv, TraceOK
      <4>4. BindingOK(s)' /\ PromotionOK(s)' /\ GenerationOK(s)' /\ RivalsOK(s)'
        BY <3>2, <3>3 DEF BindingOK, PromotionOK, GenerationOK, RivalsOK, Unsaid, Owning
      <4> QED
        BY <4>2, <4>3, <4>4 DEF SessionInv
    <3> QED
      BY <1>others, <3>1, <3>3, <3>4, HandOver
  <2>2. CASE ~Unchanged(s)
    <3>1. DocumentsKept /\ End(s)
      BY <1>3, <2>2 DEF FreeHead, DocumentsKept
    <3> QED
      BY <3>1, EndsKept
  <2> QED
    BY <2>1, <2>2
<1> QED
  BY <1>1, <1>2, <1>3

-----------------------------------------------------------------------------
(* The grant is issued for the generation of the head that the call has read. *)

LEMMA GrantStep ==
  ASSUME Inv, NEW s \in Sessions, InsertGrant(s)
  PROVE  HistoryInv'
<1> USE DEF At
<1>on. call[s].step = "insert" /\ call[s].step \in Binding
  BY DEF InsertGrant, Binding
<1>t. PICK t \in Turns : t = call[s].turn /\ turn[t].state # "ABSENT"
  BY <1>on, TurnOfCall
<1>g. PICK g : g = [NoGrant EXCEPT !.state = "ACTIVE",
                                   !.base = call[s].head.number,
                                   !.content = call[s].head.content]
  OBVIOUS
<1>1. grant' = [grant EXCEPT ![t] = g]
  BY <1>t, <1>g, Zenon DEF InsertGrant
<1>2. /\ grant'[t].base = call[s].head.number
      /\ \A u \in Turns : u # t => grant'[u] = grant[u]
  BY <1>1, <1>g DEF NoGrant, Inv, TypeInv, TypeOK
<1>3. UNCHANGED <<head, turn, generations, promoted>>
  BY DEF InsertGrant
<1>4. /\ OnlyCall(s)
      /\ call'[s].step = "own"
      /\ call'[s].turn = t
      /\ call'[s].head = call[s].head
  BY <1>t, GoStep DEF InsertGrant, Steps, Binding
<1>5. head.active # t /\ ~HasPromoted(t)
  BY <1>on, <1>t DEF Inv, HistoryInv, SessionInv, BindingOK
<1>6. DocumentInv'
  <2> USE DEF Inv, HistoryInv, DocumentInv
  <2>1. FirstRevision'
    BY <1>3 DEF FirstRevision
  <2>2. TurnsTraced'
    BY <1>2, <1>3, <1>t, KeptHistory DEF TurnsTraced
  <2>3. HolderOK'
    <3>1. head.active # None => head.active \in Turns
      BY DEF TypeInv, TypeOK, Heads
    <3> QED
      BY <1>2, <1>3, <1>5, <3>1, KeptHistory DEF HolderOK
  <2>4. HeadShowsLast'
    BY <1>3 DEF HeadShowsLast
  <2>5. LinearHistory'
    BY <1>3 DEF LinearHistory
  <2>6. BuiltOnItsGrant'
    <3>1. ASSUME NEW i \in 1..Len(promoted)
          PROVE  grant'[generations[promoted[i]].turn] = grant[generations[promoted[i]].turn]
      <4>1. generations[promoted[i]].turn \in Turns
        BY HistoryTypes DEF TypeInv
      <4>2. generations[promoted[i]].turn # t
        BY <1>5 DEF HasPromoted
      <4> QED
        BY <1>2, <4>1, <4>2
    <3> QED
      BY <1>3, <3>1 DEF BuiltOnItsGrant
  <2>7. MarksAreTrue'
    BY <1>3 DEF MarksAreTrue
  <2> QED
    BY <2>1, <2>2, <2>3, <2>4, <2>5, <2>6, <2>7
<1>7. SessionInv(s)'
  <2>1. SnapshotOK(s)'
    BY <1>3, <1>4 DEF Inv, HistoryInv, SessionInv, SnapshotOK
  <2>2. TraceOK(s)'
    BY <1>3, <1>4, <1>t DEF Inv, HistoryInv, SessionInv, TraceOK
  <2>3. BindingOK(s)'
    BY <1>2, <1>3, <1>4, <1>5 DEF BindingOK, HasPromoted
  <2>4. PromotionOK(s)' /\ GenerationOK(s)'
    BY <1>4 DEF PromotionOK, GenerationOK, Owning
  <2>5. RivalsOK(s)'
    BY <1>on, <1>t, <1>4 DEF Inv, HistoryInv, SessionInv, RivalsOK, OnlyCall, Owning
  <2> QED
    BY <2>1, <2>2, <2>3, <2>4, <2>5 DEF SessionInv
<1>8. ASSUME NEW r \in Sessions, r # s PROVE Untouched(r)
  <2>c. call'[r] = call[r]
    BY <1>4, <1>8 DEF OnlyCall
  <2>1. /\ HasPromoted(call[r].turn)' <=> HasPromoted(call[r].turn)
        /\ Canonical(call[r].gen)' <=> Canonical(call[r].gen)
    BY <1>3, <2>c DEF HasPromoted, Canonical
  <2>2. call[r].step \in Binding => call[r].turn \in Turns /\ call[r].turn # t
    BY <1>on, <1>t, <1>8
    DEF Inv, HistoryInv, SessionInv, RivalsOK, TypeInv, CallsTyped, Binding
  <2> QED
    BY <1>2, <1>3, <2>1, <2>2 DEF Untouched
<1> QED
  BY <1>4, <1>6, <1>7, <1>8, Whole

-----------------------------------------------------------------------------
(* The promotion. *)

LEMMA CheckStep ==
  ASSUME Inv, NEW s \in Sessions, CheckHead(s)
  PROVE  HistoryInv'
<1> USE DEF At
<1>kept. DocumentsKept
  BY SameDocuments DEF CheckHead
<1>1. CASE End(s)
  BY <1>1, <1>kept, EndsKept
<1>2. CASE /\ Owns(call[s].turn)
           /\ head.content # call[s].content
           /\ call' = [call EXCEPT ![s].head = head, ![s].step = "generate"]
  <2>1. call[s] \in Calls /\ call \in [Sessions -> Calls] /\ head.rev \in Nat
    BY DEF Inv, TypeInv, TypeOK, Heads
  <2>2. PICK c : c = [call[s] EXCEPT !.head = head]
    OBVIOUS
  <2>3. call' = [call EXCEPT ![s] = [c EXCEPT !.step = "generate"]]
    BY <1>2, <2>2, Zenon
  <2>4. /\ OnlyCall(s)
        /\ call'[s].step = "generate"
        /\ call'[s].turn = call[s].turn
        /\ call'[s].content = call[s].content
        /\ call'[s].head = head
    BY <2>1, <2>2, <2>3 DEF Calls, OnlyCall
  <2>5. SnapshotOK(s)'
    BY <1>kept, <2>1, <2>4 DEF SnapshotOK, DocumentsKept
  <2>6. TraceOK(s)'
    BY <1>kept, <2>4
    DEF TraceOK, DocumentsKept, Inv, HistoryInv, SessionInv, DocumentInv, TurnsTraced
  <2>7. PromotionOK(s)'
    BY <1>2, <2>4 DEF PromotionOK, Owns
  <2>8. BindingOK(s)' /\ GenerationOK(s)' /\ RivalsOK(s)'
    BY <2>4 DEF BindingOK, GenerationOK, RivalsOK, Owning, Binding
  <2> QED
    BY <1>kept, <2>4, <2>5, <2>6, <2>7, <2>8, Harmless DEF SessionInv
<1> QED
  BY <1>1, <1>2 DEF CheckHead

\* A generation that is only inserted is not in the history.
LEMMA InsertStep ==
  ASSUME Inv, NEW s \in Sessions, InsertGeneration(s)
  PROVE  HistoryInv'
<1> USE DEF At
<1> DEFINE n == Len(generations)
<1>types. /\ generations \in Seq(GenerationDocs)
          /\ promoted \in Seq(1..n)
          /\ call \in [Sessions -> Calls]
          /\ call[s] \in Calls
          /\ n \in Nat
  BY DEF Inv, TypeInv, TypeOK
<1>g. PICK g : g = [number |-> call[s].head.number + 1,
                    content |-> call[s].content,
                    previous |-> call[s].head.id, turn |-> call[s].turn,
                    state |-> "PENDING"]
  OBVIOUS
<1>1. /\ call[s].step = "generate"
      /\ generations' = Append(generations, g)
      /\ UNCHANGED <<head, grant, turn, promoted>>
  BY <1>g, Zenon DEF InsertGeneration
<1>2. /\ Len(generations') = n + 1
      /\ generations'[n + 1] = g
      /\ \A k \in 1..n : generations'[k] = generations[k]
  BY <1>types, <1>1
<1>3. /\ OnlyCall(s)
      /\ call'[s].step = "advance"
      /\ call'[s].gen = n + 1
      /\ call'[s].turn = call[s].turn
      /\ call'[s].content = call[s].content
      /\ call'[s].head = call[s].head
  <2>1. PICK c : c = [call[s] EXCEPT !.gen = n + 1]
    OBVIOUS
  <2>2. call' = [call EXCEPT ![s] = [c EXCEPT !.step = "advance"]]
    BY <2>1, Zenon DEF InsertGeneration
  <2> QED
    BY <1>types, <2>1, <2>2 DEF Calls, OnlyCall
<1>4. \A i \in 1..Len(promoted) :
        promoted[i] \in 1..n /\ generations'[promoted[i]] = generations[promoted[i]]
  BY <1>types, <1>2
<1>5. \A t : HasPromoted(t)' <=> HasPromoted(t)
  BY <1>1, <1>4 DEF HasPromoted
<1>6. DocumentInv'
  <2> USE DEF Inv, HistoryInv, DocumentInv
  <2>1. FirstRevision'
    BY <1>1 DEF FirstRevision
  <2>2. TurnsTraced'
    BY <1>1, <1>5 DEF TurnsTraced
  <2>3. HolderOK'
    BY <1>1, <1>5 DEF HolderOK
  <2>4. HeadShowsLast'
    <3>1. promoted # <<>> => Len(promoted) \in 1..Len(promoted)
      BY <1>types
    <3> QED
      BY <1>1, <1>4, <3>1 DEF HeadShowsLast
  <2>5. LinearHistory'
    BY <1>1, <1>4 DEF LinearHistory
  <2>6. BuiltOnItsGrant'
    BY <1>1, <1>4 DEF BuiltOnItsGrant
  <2>7. MarksAreTrue'
    <3>1. ASSUME NEW k \in 1..Len(generations')
          PROVE  /\ generations'[k].state = "CANONICAL" => Canonical(k)
                 /\ generations'[k].state = "CONFLICTED" => ~Canonical(k)
      <4>1. CASE k \in 1..n
        BY <1>2, <4>1 DEF MarksAreTrue, Canonical
      <4>2. CASE k = n + 1
        BY <1>2, <1>g, <4>2
      <4> QED
        BY <1>types, <1>2, <4>1, <4>2
    <3> QED
      BY <1>1, <3>1 DEF MarksAreTrue, Canonical
  <2> QED
    BY <2>1, <2>2, <2>3, <2>4, <2>5, <2>6, <2>7
<1>7. SessionInv(s)'
  <2> USE DEF Inv, HistoryInv, SessionInv
  <2>1. SnapshotOK(s)'
    BY <1>1, <1>3 DEF SnapshotOK
  <2>2. TraceOK(s)'
    BY <1>1, <1>3 DEF TraceOK
  <2>3. BindingOK(s)'
    BY <1>3 DEF BindingOK, Binding
  <2>4. PromotionOK(s)'
    BY <1>1, <1>2, <1>3, <1>g DEF PromotionOK
  <2>5. GenerationOK(s)'
    <3>1. \A i \in 1..Len(promoted) : promoted[i] # n + 1
      BY <1>types, <1>4
    <3> QED
      BY <1>1, <1>2, <1>3, <1>g, <3>1 DEF GenerationOK, Canonical
  <2>6. RivalsOK(s)'
    <3>1. \A r \in Sessions : call[r].step \in Owning => call[r].gen \in 1..n
      BY DEF TypeInv, CallsTyped, Owning
    <3> QED
      BY <1>types, <1>3, <3>1 DEF RivalsOK, OnlyCall, Binding
  <2> QED
    BY <2>1, <2>2, <2>3, <2>4, <2>5, <2>6
<1>8. ASSUME NEW r \in Sessions, r # s PROVE Untouched(r)
  <2>c. call'[r] = call[r]
    BY <1>3, <1>8 DEF OnlyCall
  <2>1. /\ HasPromoted(call[r].turn)' <=> HasPromoted(call[r].turn)
        /\ Canonical(call[r].gen)' <=> Canonical(call[r].gen)
    BY <1>1, <1>4, <2>c DEF HasPromoted, Canonical
  <2>2. call[r].step \in Owning => call[r].gen \in 1..n
    BY DEF Inv, TypeInv, CallsTyped, Owning
  <2> QED
    BY <1>1, <1>2, <2>1, <2>2 DEF Untouched
<1> QED
  BY <1>3, <1>6, <1>7, <1>8, Whole

\* A compare-and-set that succeeds found the head under which the promotion was
\* prepared; one that fails changes nothing.
LEMMA AdvanceStep ==
  ASSUME Inv, NEW s \in Sessions, AdvanceHead(s)
  PROVE  HistoryInv'
<1> USE DEF At
<1> DEFINE m == Len(promoted)
           k == call[s].gen
<1>types. /\ generations \in Seq(GenerationDocs)
          /\ promoted \in Seq(1..Len(generations))
          /\ call \in [Sessions -> Calls]
          /\ head.rev \in Nat
          /\ m \in Nat
  BY DEF Inv, TypeInv, TypeOK, Heads
<1>on. call[s].step = "advance"
  BY DEF AdvanceHead
<1>k. k \in 1..Len(generations)
  BY <1>on DEF Inv, TypeInv, CallsTyped
<1>t. call[s].turn \in Turns /\ turn[call[s].turn].state # "ABSENT"
  BY <1>on, TurnOfCall
<1>1. CASE ~Unchanged(s)
  <2>1. DocumentsKept /\ Go(s, "conflict")
    BY <1>1 DEF AdvanceHead, DocumentsKept
  <2>2. /\ OnlyCall(s)
        /\ call'[s].step = "conflict"
        /\ call'[s].turn = call[s].turn
        /\ call'[s].head = call[s].head
        /\ call'[s].gen = k
    BY <2>1, GoStep DEF Steps, Promoting
  <2>3. SessionInv(s)'
    <3> USE DEF Inv, HistoryInv, SessionInv
    <3>1. SnapshotOK(s)'
      BY <2>1, <2>2 DEF SnapshotOK, DocumentsKept
    <3>2. TraceOK(s)'
      BY <2>1, <2>2 DEF TraceOK, DocumentsKept
    <3>3. BindingOK(s)' /\ PromotionOK(s)'
      BY <2>2 DEF BindingOK, Binding, PromotionOK
    <3>4. GenerationOK(s)'
      BY <1>on, <2>1, <2>2 DEF GenerationOK, Owning, Canonical, DocumentsKept
    <3>5. RivalsOK(s)'
      BY <1>on, <2>2 DEF RivalsOK, OnlyCall, Owning, Binding
    <3> QED
      BY <3>1, <3>2, <3>3, <3>4, <3>5
  <2> QED
    BY <2>1, <2>2, <2>3, Harmless
<1>2. CASE Unchanged(s)
  <2>1. /\ head'.number = generations[k].number
        /\ head'.id = k
        /\ head'.content = call[s].content
        /\ head'.active = None
        /\ head'.rev = head.rev + 1
        /\ promoted' = Append(promoted, k)
        /\ Go(s, "canonical")
        /\ UNCHANGED <<grant, turn, generations>>
    BY <1>2 DEF AdvanceHead
  <2>2. /\ OnlyCall(s)
        /\ call'[s].step = "canonical"
        /\ call'[s].turn = call[s].turn
        /\ call'[s].head = call[s].head
        /\ call'[s].gen = k
    BY <2>1, GoStep DEF Steps, Promoting
  <2>3. call[s].head = head
    BY <1>2 DEF Inv, HistoryInv, SessionInv, SnapshotOK, Unchanged
  <2>4. /\ head.active = call[s].turn
        /\ generations[k].number = head.number + 1
        /\ generations[k].previous = head.id
        /\ generations[k].turn = call[s].turn
        /\ generations[k].content = call[s].content
        /\ generations[k].state = "PENDING"
    BY <1>on, <2>3 DEF Inv, HistoryInv, SessionInv, PromotionOK, GenerationOK, Owning
  <2>5. /\ grant[call[s].turn].base = head.number
        /\ ~HasPromoted(call[s].turn)
    BY <1>t, <2>4, NoneAssumption DEF Inv, HistoryInv, DocumentInv, HolderOK
  <2>6. /\ head.number = m
        /\ head.id = IF promoted = <<>> THEN 0 ELSE promoted[m]
    BY DEF Inv, HistoryInv, DocumentInv, LinearHistory
  <2>7. /\ Len(promoted') = m + 1
        /\ promoted'[m + 1] = k
        /\ \A i \in 1..m : promoted'[i] = promoted[i]
        /\ promoted' # <<>>
    BY <1>types, <1>k, <2>1
  <2>8. 1..(m + 1) = (1..m) \cup {m + 1}
    BY <1>types
  <2>9. \A t : (\E i \in 1..Len(promoted') : generations[promoted'[i]].turn = t)
                 <=> HasPromoted(t) \/ t = call[s].turn
    BY <2>4, <2>7, <2>8 DEF HasPromoted
  <2>10. DocumentInv'
    <3> USE DEF Inv, HistoryInv, DocumentInv
    <3>1. FirstRevision'
      BY <1>types, <2>1 DEF FirstRevision
    <3>2. TurnsTraced'
      BY <1>t, <2>1, <2>9, NoneAssumption DEF TurnsTraced, HasPromoted
    <3>3. HolderOK'
      BY <2>1 DEF HolderOK
    <3>4. HeadShowsLast'
      BY <2>1, <2>4, <2>7 DEF HeadShowsLast
    <3>5. LinearHistory'
      <4>1. ASSUME NEW i \in 1..m
            PROVE  /\ generations[promoted'[i]].number = i
                   /\ generations[promoted'[i]].previous =
                        IF i = 1 THEN 0 ELSE promoted'[i - 1]
        <5>1. i # 1 => i - 1 \in 1..m
          BY <1>types
        <5> QED
          BY <2>7, <5>1 DEF LinearHistory
      <4>2. /\ generations[promoted'[m + 1]].number = m + 1
            /\ generations[promoted'[m + 1]].previous =
                 IF m + 1 = 1 THEN 0 ELSE promoted'[m]
        <5>1. m # 0 => m \in 1..m /\ promoted # <<>>
          BY <1>types
        <5>2. m = 0 => promoted = <<>>
          BY <1>types, EmptySeq
        <5> QED
          BY <1>types, <2>4, <2>6, <2>7, <5>1, <5>2
      <4>3. head'.number = m + 1 /\ head'.id = promoted'[m + 1]
        BY <2>1, <2>4, <2>6, <2>7
      <4> QED
        BY <1>types, <2>1, <2>7, <2>8, <4>1, <4>2, <4>3 DEF LinearHistory
    <3>6. BuiltOnItsGrant'
      <4>1. ASSUME NEW i \in 1..m, NEW j \in 1..m,
                   generations[promoted[j]].turn = generations[promoted[i]].turn
            PROVE  i = j
        BY <4>1 DEF BuiltOnItsGrant
      <4>2. \A i \in 1..m : grant[generations[promoted[i]].turn].base = i - 1
        BY DEF BuiltOnItsGrant
      <4>3. \A i \in 1..m : generations[promoted[i]].turn # call[s].turn
        BY <2>5 DEF HasPromoted
      <4> DEFINE by(i) == generations[promoted'[i]].turn
      <4>4. /\ by(m + 1) = call[s].turn
            /\ \A i \in 1..m : by(i) = generations[promoted[i]].turn
        BY <2>4, <2>7
      <4> HIDE DEF by
      <4>5. ASSUME NEW i \in 1..(m + 1) PROVE grant[by(i)].base = i - 1
        <5>1. CASE i = m + 1
          BY <1>types, <2>5, <2>6, <4>4, <5>1
        <5>2. CASE i \in 1..m
          BY <4>2, <4>4, <5>2
        <5> QED
          BY <2>8, <5>1, <5>2
      <4>6. ASSUME NEW i \in 1..(m + 1), NEW j \in 1..(m + 1), by(j) = by(i)
            PROVE  i = j
        <5>1. CASE i \in 1..m /\ j \in 1..m
          BY <4>1, <4>4, <4>6, <5>1
        <5>2. CASE i = m + 1 \/ j = m + 1
          BY <2>8, <4>3, <4>4, <4>6, <5>2
        <5> QED
          BY <2>8, <5>1, <5>2
      <4> QED
        BY <2>1, <2>7, <4>5, <4>6 DEF BuiltOnItsGrant, by
    <3>7. MarksAreTrue'
      <4>1. ASSUME NEW g \in 1..Len(generations)
            PROVE  (\E i \in 1..(m + 1) : promoted'[i] = g)
                     <=> (\E i \in 1..m : promoted[i] = g) \/ g = k
        BY <2>7, <2>8
      <4> QED
        BY <2>1, <2>4, <2>7, <4>1 DEF MarksAreTrue
    <3> QED
      BY <3>1, <3>2, <3>3, <3>4, <3>5, <3>6, <3>7
  <2>11. SessionInv(s)'
    <3>1. SnapshotOK(s)'
      BY <1>types, <2>1, <2>2, <2>3 DEF SnapshotOK
    <3>2. TraceOK(s)'
      BY <2>1, <2>2 DEF Inv, HistoryInv, SessionInv, TraceOK
    <3>3. BindingOK(s)' /\ PromotionOK(s)'
      BY <2>2 DEF BindingOK, Binding, PromotionOK
    <3>4. GenerationOK(s)'
      <4>1. \E i \in 1..Len(promoted') : promoted'[i] = k
        BY <2>7, <2>8
      <4> QED
        BY <2>1, <2>2, <2>4, <4>1 DEF GenerationOK, Canonical
    <3>5. RivalsOK(s)'
      BY <1>on, <2>2 DEF Inv, HistoryInv, SessionInv, RivalsOK, OnlyCall, Owning, Binding
    <3> QED
      BY <3>1, <3>2, <3>3, <3>4, <3>5 DEF SessionInv
  <2>12. ASSUME NEW r \in Sessions, r # s PROVE Untouched(r)
    <3>c. call'[r] = call[r]
      BY <2>2, <2>12 DEF OnlyCall
    <3>1. call[r].step \in Binding =>
            /\ call[r].turn # None
            /\ call[r].turn # call[s].turn
      BY <2>4, NoneAssumption
      DEF Inv, HistoryInv, SessionInv, BindingOK, TypeInv, CallsTyped, Binding
    <3>2. HasPromoted(call[r].turn)' <=>
            HasPromoted(call[r].turn) \/ call[r].turn = call[s].turn
      <4>1. (\E i \in 1..Len(promoted') : generations[promoted'[i]].turn = call[r].turn)
              <=> HasPromoted(call[r].turn) \/ call[r].turn = call[s].turn
        BY <2>9
      <4>2. generations' = generations
        BY <2>1
      <4> QED
        BY <3>c, <4>1, <4>2 DEF HasPromoted
    <3>3. call[r].step \in Owning => call[r].gen # k
      BY <1>on, <2>12 DEF Inv, HistoryInv, SessionInv, RivalsOK, Owning
    <3>4. Canonical(call[r].gen)' <=> Canonical(call[r].gen) \/ call[r].gen = k
      BY <2>7, <2>8, <3>c DEF Canonical
    <3> QED
      BY <2>1, <3>1, <3>2, <3>3, <3>4 DEF Untouched
  <2> QED
    BY <2>2, <2>10, <2>11, <2>12, Whole
<1> QED
  BY <1>1, <1>2

\* A mark that agrees with the history.
LEMMA Marked ==
  ASSUME Inv, NEW s \in Sessions, call[s].step \in Owning, OnlyCall(s),
         SessionInv(s)', NEW state \in GenerationStates,
         NEW k \in 1..Len(generations), k = call[s].gen,
         generations' = [generations EXCEPT ![k].state = state],
         UNCHANGED <<head, grant, turn, promoted>>,
         state = "CANONICAL" => Canonical(k),
         state = "CONFLICTED" => ~Canonical(k)
  PROVE  HistoryInv'
<1>1. /\ Len(generations') = Len(generations)
      /\ \A i \in 1..Len(generations) :
           /\ generations'[i].number = generations[i].number
           /\ generations'[i].content = generations[i].content
           /\ generations'[i].previous = generations[i].previous
           /\ generations'[i].turn = generations[i].turn
           /\ generations'[i].state = IF i = k THEN state ELSE generations[i].state
  BY MarkFacts DEF Inv, TypeInv, TypeOK
<1>2. \A i \in 1..Len(promoted) : promoted[i] \in 1..Len(generations)
  BY HistoryTypes DEF Inv, TypeInv
<1>3. \A t : HasPromoted(t)' <=> HasPromoted(t)
  BY <1>1, <1>2 DEF HasPromoted
<1>4. DocumentInv'
  <2> USE DEF Inv, HistoryInv, DocumentInv
  <2>1. FirstRevision'
    BY DEF FirstRevision
  <2>2. TurnsTraced'
    BY <1>3 DEF TurnsTraced
  <2>3. HolderOK'
    BY <1>3 DEF HolderOK
  <2>4. HeadShowsLast'
    <3>1. promoted # <<>> => Len(promoted) \in 1..Len(promoted)
      BY DEF TypeInv, TypeOK
    <3> QED
      BY <1>1, <1>2, <3>1 DEF HeadShowsLast
  <2>5. LinearHistory'
    BY <1>1, <1>2 DEF LinearHistory
  <2>6. BuiltOnItsGrant'
    BY <1>1, <1>2 DEF BuiltOnItsGrant
  <2>7. MarksAreTrue'
    BY <1>1 DEF MarksAreTrue, Canonical
  <2> QED
    BY <2>1, <2>2, <2>3, <2>4, <2>5, <2>6, <2>7
<1>5. ASSUME NEW r \in Sessions, r # s PROVE Untouched(r)
  <2>c. call'[r] = call[r]
    BY <1>5 DEF OnlyCall
  <2>1. /\ HasPromoted(call[r].turn)' <=> HasPromoted(call[r].turn)
        /\ Canonical(call[r].gen)' <=> Canonical(call[r].gen)
    BY <1>1, <1>2, <2>c DEF HasPromoted, Canonical
  <2>2. call[r].step \in Owning =>
          call[r].gen \in 1..Len(generations) /\ call[r].gen # k
    BY <1>5 DEF Inv, HistoryInv, SessionInv, RivalsOK, TypeInv, CallsTyped, Owning
  <2>3. \A i \in 1..Len(generations) : i # k => generations'[i] = generations[i]
    BY DEF Inv, TypeInv, TypeOK
  <2> QED
    BY <2>1, <2>2, <2>3 DEF Untouched
<1> QED
  BY <1>4, <1>5, Whole

LEMMA MarkSteps ==
  ASSUME Inv, NEW s \in Sessions, MarkConflicted(s) \/ MarkCanonical(s)
  PROVE  HistoryInv'
<1> USE DEF At, MarkGeneration
<1>on. call[s].step \in {"conflict", "canonical"} /\ call[s].step \in Owning
  BY DEF MarkConflicted, MarkCanonical, Owning
<1>k. PICK k \in 1..Len(generations) : k = call[s].gen
  BY <1>on DEF Inv, TypeInv, CallsTyped
<1>was. Canonical(k) <=> call[s].step = "canonical"
  BY <1>on, <1>k DEF Inv, HistoryInv, SessionInv, GenerationOK
<1>states. {"CONFLICTED", "CANONICAL"} \subseteq GenerationStates
  BY DEF GenerationStates
<1>1. CASE MarkConflicted(s)
  <2>1. /\ generations' = [generations EXCEPT ![k].state = "CONFLICTED"]
        /\ UNCHANGED <<head, grant, turn, promoted>>
        /\ ~Canonical(k)
    BY <1>1, <1>k, <1>was DEF MarkConflicted
  <2>2. /\ OnlyCall(s)
        /\ call'[s].step = "idle"
        /\ call'[s].turn = None
        /\ call'[s].head = FirstHead
    BY <1>1, EndStep DEF MarkConflicted
  <2>3. SessionInv(s)'
    <3>1. FirstRevision /\ head.rev \in Nat
      BY DEF Inv, HistoryInv, DocumentInv, TypeInv, TypeOK, Heads
    <3>2. SnapshotOK(s)'
      BY <2>1, <2>2, <3>1 DEF SnapshotOK, FirstRevision, FirstHead
    <3>3. TraceOK(s)'
      BY <2>2, NoneAssumption DEF TraceOK, FirstHead
    <3>4. BindingOK(s)' /\ PromotionOK(s)' /\ GenerationOK(s)' /\ RivalsOK(s)'
      BY <2>2 DEF BindingOK, PromotionOK, GenerationOK, RivalsOK, Binding, Owning
    <3> QED
      BY <3>2, <3>3, <3>4 DEF SessionInv
  <2> QED
    BY <1>on, <1>k, <1>states, <2>1, <2>2, <2>3, Marked
<1>2. CASE MarkCanonical(s)
  <2>1. /\ generations' = [generations EXCEPT ![k].state = "CANONICAL"]
        /\ UNCHANGED <<head, grant, turn, promoted>>
        /\ Canonical(k)
    BY <1>2, <1>k, <1>was DEF MarkCanonical
  <2>2. /\ OnlyCall(s)
        /\ call'[s].step = "consume"
        /\ call'[s].turn = call[s].turn
        /\ call'[s].head = call[s].head
    BY <1>2, GoStep DEF MarkCanonical, Steps, Promoting
  <2>3. SessionInv(s)'
    <3>1. SnapshotOK(s)' /\ TraceOK(s)'
      BY <2>1, <2>2 DEF Inv, HistoryInv, SessionInv, SnapshotOK, TraceOK
    <3>2. BindingOK(s)' /\ PromotionOK(s)' /\ GenerationOK(s)' /\ RivalsOK(s)'
      BY <2>2 DEF BindingOK, PromotionOK, GenerationOK, RivalsOK, Binding, Owning
    <3> QED
      BY <3>1, <3>2 DEF SessionInv
  <2> QED
    BY <1>on, <1>k, <1>states, <2>1, <2>2, <2>3, Marked
<1> QED
  BY <1>1, <1>2

-----------------------------------------------------------------------------
(* The invariant is inductive. *)

\* Time, and steps of nobody, change no call.
LEMMA Resting ==
  ASSUME Inv, DocumentsKept, call' = call
  PROVE  HistoryInv'
<1>1. DocumentInv'
  BY KeptDocuments
<1>2. ASSUME NEW r \in Sessions PROVE SessionInv(r)'
  <2>1. Untouched(r)
    <3>1. call[r].step \in Binding => call[r].turn \in Turns
      BY DEF Inv, TypeInv, CallsTyped, Binding
    <3>2. /\ HasPromoted(call[r].turn)' <=> HasPromoted(call[r].turn)
          /\ Canonical(call[r].gen)' <=> Canonical(call[r].gen)
      BY DEF DocumentsKept, HasPromoted, Canonical
    <3> QED
      BY <3>1, <3>2 DEF DocumentsKept, Untouched
  <2>2. RivalsOK(r)'
    BY DEF Inv, HistoryInv, SessionInv, RivalsOK
  <2> QED
    BY <2>1, <2>2, KeptSession DEF SessionInv
<1> QED
  BY <1>1, <1>2 DEF HistoryInv

LEMMA HistoryInit == Init => HistoryInv
<1> SUFFICES ASSUME Init PROVE HistoryInv
  OBVIOUS
<1> USE NoneAssumption DEF Init, NoGrant, FirstHead
<1>1. ~\E t : HasPromoted(t)
  BY DEF HasPromoted
<1>2. DocumentInv
  BY <1>1 DEF DocumentInv, FirstRevision, TurnsTraced, HolderOK, HeadShowsLast,
     LinearHistory, BuiltOnItsGrant, MarksAreTrue
<1>3. ASSUME NEW s \in Sessions PROVE SessionInv(s)
  <2>1. /\ call[s].step = "idle"
        /\ call[s].turn = None
        /\ call[s].head = head
    BY DEF NoCall
  <2>2. SnapshotOK(s) /\ TraceOK(s)
    BY <2>1 DEF SnapshotOK, TraceOK
  <2>3. BindingOK(s) /\ PromotionOK(s) /\ GenerationOK(s) /\ RivalsOK(s)
    BY <2>1 DEF BindingOK, PromotionOK, GenerationOK, RivalsOK, Binding, Owning
  <2> QED
    BY <2>2, <2>3 DEF SessionInv
<1> QED
  BY <1>2, <1>3 DEF HistoryInv

LEMMA HistoryStep == Inv /\ [Next]_vars => HistoryInv'
<1> SUFFICES ASSUME Inv, [Next]_vars PROVE HistoryInv'
  OBVIOUS
<1>1. ASSUME NEW s \in Sessions, Begin(s) PROVE HistoryInv'
  BY <1>1, BeginSteps
<1>2. ASSUME NEW s \in Sessions, Step(s) PROVE HistoryInv'
  <2>1. \/ ReadHead(s) \/ ReadOwner(s) \/ Recheck(s) \/ ExpireGrant(s)
        \/ CancelGrant(s) \/ DenyTurn(s)
        => HistoryInv'
    BY BindSteps
  <2>2. ClearHead(s) \/ OwnHead(s) \/ FreeHead(s) => HistoryInv'
    BY HeadSteps
  <2>3. InsertGrant(s) => HistoryInv'
    BY GrantStep
  <2>4. CheckHead(s) => HistoryInv'
    BY CheckStep
  <2>5. InsertGeneration(s) => HistoryInv'
    BY InsertStep
  <2>6. AdvanceHead(s) => HistoryInv'
    BY AdvanceStep
  <2>7. MarkConflicted(s) \/ MarkCanonical(s) => HistoryInv'
    BY MarkSteps
  <2>8. ConsumeGrant(s) \/ CompleteTurn(s) \/ FreeGrant(s) \/ RetireTurn(s) => HistoryInv'
    BY LateSteps
  <2> QED
    BY <1>2, <2>1, <2>2, <2>3, <2>4, <2>5, <2>6, <2>7, <2>8 DEF Step
<1>3. ASSUME NEW s \in Sessions, Die(s) PROVE HistoryInv'
  BY <1>3, LateSteps
<1>4. ASSUME NEW t \in Turns, TimePasses(t) PROVE HistoryInv'
  <2>1. grant[t] \in Grants /\ grant \in [Turns -> Grants]
    BY DEF Inv, TypeInv, TypeOK
  <2>2. PICK g : g = [grant[t] EXCEPT !.late = TRUE]
    OBVIOUS
  <2>3. g.base = grant[t].base /\ g.state = grant[t].state
    BY <2>1, <2>2 DEF Grants
  <2>4. grant' = [grant EXCEPT ![t] = g]
    BY <1>4, <2>2, Zenon DEF TimePasses
  <2>5. \A u \in Turns : grant'[u].base = grant[u].base /\ grant'[u].state = grant[u].state
    BY <2>1, <2>3, <2>4
  <2> QED
    BY <1>4, <2>5, Resting DEF TimePasses, DocumentsKept
<1>5. CASE UNCHANGED vars
  BY <1>5, Resting DEF vars, DocumentsKept
<1> QED
  BY <1>1, <1>2, <1>3, <1>4, <1>5 DEF Next

LEMMA HistoryInvariant == Spec => []Inv
<1>1. Init => Inv
  BY TypeInit, HistoryInit DEF Inv
<1>2. Inv /\ [Next]_vars => Inv'
  BY TypeStep, HistoryStep DEF Inv
<1> QED
  BY <1>1, <1>2, PTL DEF Spec

-----------------------------------------------------------------------------
(* What the invariant says of the contract. *)

\* The head names the last of a gapless chain of generations, each written on
\* top of the one before it, whatever sessions raced or died
\* (promote_contract_generation).
THEOREM HistoryIsLinear == Spec => []LinearHistory
<1>1. Inv => LinearHistory
  BY DEF Inv, HistoryInv, DocumentInv
<1> QED
  BY HistoryInvariant, <1>1, PTL

\* Only the grant issued for a generation has made the next one, and no grant
\* has made two (_acquire_generation_grant, promote_contract_generation).
THEOREM GrantsAreUsedOnce == Spec => []BuiltOnItsGrant
<1>1. Inv => BuiltOnItsGrant
  BY DEF Inv, HistoryInv, DocumentInv
<1> QED
  BY HistoryInvariant, <1>1, PTL

\* The marks that promote_contract_generation writes after the compare-and-set
\* agree with its outcome.
THEOREM MarksAgree == Spec => []MarksAreTrue
<1>1. Inv => MarksAreTrue
  BY DEF Inv, HistoryInv, DocumentInv
<1> QED
  BY HistoryInvariant, <1>1, PTL

\* What HistoryIsImmutable asks of a step.
Immutable ==
  /\ \A k \in 1..Len(generations) :
       /\ generations'[k].content = generations[k].content
       /\ generations'[k].number = generations[k].number
       /\ generations'[k].previous = generations[k].previous
  /\ \A i \in 1..Len(promoted) : promoted'[i] = promoted[i]

LEMMA ImmutableStep ==
  ASSUME TypeInv, Next
  PROVE  Immutable
<1> USE DEF Immutable, TypeInv
<1>1. ASSUME UNCHANGED <<generations, promoted>> PROVE Immutable
  BY <1>1
<1>2. ASSUME NEW s \in Sessions, InsertGeneration(s) PROVE Immutable
  BY <1>2 DEF InsertGeneration, TypeOK
<1>3. ASSUME NEW s \in Sessions, AdvanceHead(s) PROVE Immutable
  <2>1. call[s].gen \in 1..Len(generations)
    BY <1>3 DEF AdvanceHead, At, CallsTyped
  <2>2. /\ generations' = generations
        /\ promoted' = promoted \/ promoted' = Append(promoted, call[s].gen)
    BY <1>3 DEF AdvanceHead
  <2>3. promoted \in Seq(1..Len(generations))
    BY DEF TypeOK
  <2>4. \A i \in 1..Len(promoted) : promoted'[i] = promoted[i]
    BY <2>1, <2>2, <2>3
  <2> QED
    BY <2>2, <2>4
<1>4. ASSUME NEW s \in Sessions, MarkConflicted(s) \/ MarkCanonical(s)
      PROVE  Immutable
  <2>1. PICK k \in 1..Len(generations) : k = call[s].gen
    BY <1>4 DEF MarkConflicted, MarkCanonical, MarkGeneration, At, CallsTyped
  <2>2. PICK state \in GenerationStates :
          generations' = [generations EXCEPT ![k].state = state]
    <3>1. {"CONFLICTED", "CANONICAL"} \subseteq GenerationStates
      BY DEF GenerationStates
    <3> QED
      BY <1>4, <2>1, <3>1 DEF MarkConflicted, MarkCanonical, MarkGeneration
  <2>3. promoted' = promoted
    BY <1>4 DEF MarkConflicted, MarkCanonical, MarkGeneration
  <2>4. generations \in Seq(GenerationDocs)
    BY DEF TypeOK
  <2>5. \A i \in 1..Len(generations) :
          /\ generations'[i].number = generations[i].number
          /\ generations'[i].content = generations[i].content
          /\ generations'[i].previous = generations[i].previous
    BY <2>2, <2>4, MarkFacts
  <2> QED
    BY <2>3, <2>5
<1>5. ASSUME NEW s \in Sessions, Begin(s) PROVE Immutable
  BY <1>1, <1>5 DEF Begin, BindTurn, BeginPromote, BeginRelease, documents
<1>6. ASSUME NEW s \in Sessions, Step(s) PROVE Immutable
  <2>1. CASE \/ ReadHead(s) \/ ReadOwner(s) \/ Recheck(s) \/ ExpireGrant(s)
             \/ ClearHead(s) \/ InsertGrant(s) \/ OwnHead(s) \/ CancelGrant(s)
             \/ DenyTurn(s) \/ CheckHead(s) \/ ConsumeGrant(s) \/ CompleteTurn(s)
             \/ FreeGrant(s) \/ FreeHead(s) \/ RetireTurn(s)
    BY <1>1, <2>1 DEF ReadHead, ReadOwner, Recheck, ExpireGrant, ClearHead,
       InsertGrant, OwnHead, CancelGrant, DenyTurn, CheckHead, ConsumeGrant,
       CompleteTurn, FreeGrant, FreeHead, RetireTurn, documents
  <2> QED
    BY <1>2, <1>3, <1>4, <1>6, <2>1 DEF Step
<1>7. ASSUME NEW s \in Sessions, Die(s) PROVE Immutable
  BY <1>1, <1>7 DEF Die, documents
<1>8. ASSUME NEW t \in Turns, TimePasses(t) PROVE Immutable
  BY <1>1, <1>8 DEF TimePasses
<1> QED
  BY <1>5, <1>6, <1>7, <1>8 DEF Next

\* No step rewrites the text, number or predecessor of a generation, or takes
\* one out of the canonical history.
THEOREM GenerationsAreImmutable == Spec => HistoryIsImmutable
<1>1. TypeInv /\ [Next]_vars =>
        [/\ \A k \in 1..Len(generations) :
              /\ generations'[k].content = generations[k].content
              /\ generations'[k].number = generations[k].number
              /\ generations'[k].previous = generations[k].previous
         /\ \A i \in 1..Len(promoted) : promoted'[i] = promoted[i]]_vars
  BY ImmutableStep DEF Immutable
<1> QED
  BY TypeInit, TypeStep, <1>1, PTL DEF Spec, HistoryIsImmutable

-----------------------------------------------------------------------------
(* The documents implement GenerationChain. *)

\* The history that the documents show.
History ==
  [i \in 1..Len(promoted) |->
     [turn |-> generations[promoted[i]].turn,
      content |-> generations[promoted[i]].content]]

LEMMA HistoryFacts ==
  ASSUME TypeOK
  PROVE  /\ History \in Seq([turn : Turns, content : Contents])
         /\ Len(History) = Len(promoted)
         /\ \A i \in 1..Len(promoted) :
              /\ History[i].turn = generations[promoted[i]].turn
              /\ History[i].content = generations[promoted[i]].content
<1>1. Len(promoted) \in Nat
  BY DEF TypeOK
<1>2. ASSUME NEW i \in 1..Len(promoted)
      PROVE  [turn |-> generations[promoted[i]].turn,
              content |-> generations[promoted[i]].content]
               \in [turn : Turns, content : Contents]
  BY HistoryTypes DEF GenerationDocs
<1> QED
  BY <1>1, <1>2 DEF History

\* A step that keeps the head's turn and what the history is made from.
LEMMA Stutters ==
  ASSUME head'.active = head.active, promoted' = promoted,
         \A i \in 1..Len(promoted) :
           /\ generations'[promoted[i]].turn = generations[promoted[i]].turn
           /\ generations'[promoted[i]].content = generations[promoted[i]].content
  PROVE  UNCHANGED <<History, head.active>>
BY DEF History

LEMMA ChainStutters ==
  ASSUME UNCHANGED <<History, head.active>>
  PROVE  UNCHANGED Chain!vars
BY DEF History, Chain!vars

LEMMA ChainGrants ==
  ASSUME NEW t \in Turns, \A i \in 1..Len(History) : History[i].turn # t,
         head'.active = t, History' = History
  PROVE  Chain!Next
<1>1. Chain!Grant(t)
  BY Zenon DEF History, Chain!Grant
<1> QED
  BY <1>1 DEF Chain!Next

LEMMA ChainDrops ==
  ASSUME head'.active = None, History' = History
  PROVE  Chain!Next
<1>1. Chain!Drop
  BY Zenon DEF History, Chain!Drop
<1> QED
  BY <1>1 DEF Chain!Next

LEMMA ChainPromotes ==
  ASSUME NEW t \in Turns, NEW c \in Contents, head.active = t,
         History # <<>> => History[Len(History)].content # c,
         History' = Append(History, [turn |-> t, content |-> c]),
         head'.active = None
  PROVE  Chain!Next
<1>1. Chain!Promote(t, c)
  BY Zenon DEF History, Chain!Promote
<1> QED
  BY <1>1 DEF Chain!Next

\* Only OwnHead, ClearHead, FreeHead and AdvanceHead are steps of GenerationChain.
LEMMA ChainStep ==
  ASSUME Inv, [Next]_vars
  PROVE  Chain!Next \/ UNCHANGED Chain!vars
<1> USE DEF At
<1>types. /\ head \in Heads
          /\ promoted \in Seq(1..Len(generations))
          /\ TypeOK
  BY DEF Inv, TypeInv, TypeOK
<1>1. ASSUME UNCHANGED <<head, generations, promoted>>
      PROVE  Chain!Next \/ UNCHANGED Chain!vars
  BY <1>1, Stutters, ChainStutters
<1>2. ASSUME UNCHANGED <<generations, promoted>>, head' = HeadOwnedBy(None)
      PROVE  Chain!Next
  <2>1. head'.active = None
    BY <1>types, <1>2, HandFacts
  <2>2. History' = History
    BY <1>2 DEF History
  <2> QED
    BY <2>1, <2>2, ChainDrops
<1>3. ASSUME NEW s \in Sessions, OwnHead(s), Unchanged(s) PROVE Chain!Next
  <2>1. PICK t \in Turns : t = call[s].turn
    BY <1>3, TurnOfCall DEF OwnHead
  <2>2. head'.active = t
    BY <1>types, <1>3, <2>1, HandFacts DEF OwnHead
  <2>3. History' = History
    BY <1>3 DEF OwnHead, History
  <2>4. ~HasPromoted(t)
    BY <1>3, <2>1 DEF OwnHead, Inv, HistoryInv, SessionInv, BindingOK, Binding
  <2>5. \A i \in 1..Len(History) : History[i].turn # t
    BY <1>types, <2>4, HistoryFacts DEF HasPromoted
  <2> QED
    BY <2>2, <2>3, <2>5, ChainGrants
<1>4. ASSUME NEW s \in Sessions, AdvanceHead(s), Unchanged(s) PROVE Chain!Next
  <2> DEFINE m == Len(promoted)
             k == call[s].gen
  <2>1. call[s].turn \in Turns /\ call[s].content \in Contents
    BY <1>4, TurnOfCall DEF AdvanceHead, Inv, TypeInv, CallsTyped
  <2>2. /\ call[s].head = head
        /\ k \in 1..Len(generations)
    BY <1>4 DEF AdvanceHead, Inv, HistoryInv, SessionInv, SnapshotOK, Unchanged,
       TypeInv, CallsTyped
  <2>3. /\ head.active = call[s].turn
        /\ head.content # call[s].content
        /\ generations[k].turn = call[s].turn
        /\ generations[k].content = call[s].content
    BY <1>4, <2>2 DEF AdvanceHead, Inv, HistoryInv, SessionInv, PromotionOK
  <2>4. /\ head'.active = None
        /\ promoted' = Append(promoted, k)
        /\ generations' = generations
    BY <1>4 DEF AdvanceHead
  <2>5. History # <<>> => History[Len(History)].content # call[s].content
    <3>1. ASSUME History # <<>> PROVE History[Len(History)].content = head.content
      <4>1. promoted # <<>> /\ m \in 1..m
        BY <1>types, <3>1, HistoryFacts, EmptySeq
      <4> QED
        BY <1>types, <4>1, HistoryFacts DEF Inv, HistoryInv, DocumentInv, HeadShowsLast
    <3> QED
      BY <2>3, <3>1
  <2>6. History' = Append(History, [turn |-> call[s].turn, content |-> call[s].content])
    <3> DEFINE g == [turn |-> call[s].turn, content |-> call[s].content]
    <3>1. /\ m \in Nat
          /\ Len(promoted') = m + 1
          /\ promoted'[m + 1] = k
          /\ \A i \in 1..m : promoted'[i] = promoted[i]
      BY <1>types, <2>2, <2>4
    <3>2. History' = [i \in 1..(m + 1) |->
                        [turn |-> generations[promoted'[i]].turn,
                         content |-> generations[promoted'[i]].content]]
      BY <2>4, <3>1 DEF History
    <3>3. Append(History, g) = [i \in 1..(m + 1) |-> IF i <= m THEN History[i] ELSE g]
      BY <1>types, <3>1, HistoryFacts
    <3>4. ASSUME NEW i \in 1..(m + 1)
          PROVE  [turn |-> generations[promoted'[i]].turn,
                  content |-> generations[promoted'[i]].content]
                   = IF i <= m THEN History[i] ELSE g
      <4>1. CASE i \in 1..m
        BY <3>1, <4>1 DEF History
      <4>2. CASE i = m + 1
        BY <2>3, <3>1, <4>2
      <4> QED
        BY <3>1, <4>1, <4>2
    <3> QED
      BY <3>2, <3>3, <3>4
  <2> QED
    BY <2>1, <2>3, <2>4, <2>5, <2>6, ChainPromotes
<1>5. ASSUME NEW s \in Sessions, InsertGeneration(s) PROVE UNCHANGED Chain!vars
  <2>1. /\ UNCHANGED <<head, promoted>>
        /\ \A i \in 1..Len(generations) : generations'[i] = generations[i]
    BY <1>5 DEF InsertGeneration, Inv, TypeInv, TypeOK
  <2>2. \A i \in 1..Len(promoted) : promoted[i] \in 1..Len(generations)
    BY <1>types
  <2> QED
    BY <2>1, <2>2, Stutters, ChainStutters
<1>6. ASSUME NEW s \in Sessions, MarkConflicted(s) \/ MarkCanonical(s)
      PROVE  UNCHANGED Chain!vars
  <2>1. PICK k \in 1..Len(generations) : k = call[s].gen
    BY <1>6 DEF MarkConflicted, MarkCanonical, MarkGeneration, Inv, TypeInv, CallsTyped
  <2>2. PICK state \in GenerationStates :
          generations' = [generations EXCEPT ![k].state = state]
    <3>1. {"CONFLICTED", "CANONICAL"} \subseteq GenerationStates
      BY DEF GenerationStates
    <3> QED
      BY <1>6, <2>1, <3>1 DEF MarkConflicted, MarkCanonical, MarkGeneration
  <2>3. \A i \in 1..Len(generations) :
          /\ generations'[i].turn = generations[i].turn
          /\ generations'[i].content = generations[i].content
    BY <1>types, <2>2, MarkFacts DEF TypeOK
  <2>4. UNCHANGED <<head, promoted>>
    BY <1>6 DEF MarkConflicted, MarkCanonical, MarkGeneration
  <2>5. \A i \in 1..Len(promoted) : promoted[i] \in 1..Len(generations)
    BY <1>types
  <2> QED
    BY <2>3, <2>4, <2>5, Stutters, ChainStutters
<1>7. ASSUME NEW s \in Sessions, Begin(s)
      PROVE  UNCHANGED <<head, generations, promoted>>
  BY <1>7 DEF Begin, BindTurn, BeginPromote, BeginRelease, documents
<1>8. ASSUME NEW s \in Sessions, Step(s)
      PROVE  Chain!Next \/ UNCHANGED Chain!vars
  <2>1. CASE \/ ReadHead(s) \/ ReadOwner(s) \/ Recheck(s) \/ ExpireGrant(s)
             \/ InsertGrant(s) \/ CancelGrant(s) \/ DenyTurn(s) \/ CheckHead(s)
             \/ ConsumeGrant(s) \/ CompleteTurn(s) \/ FreeGrant(s) \/ RetireTurn(s)
    BY <2>1, <1>1 DEF ReadHead, ReadOwner, Recheck, ExpireGrant, InsertGrant,
       CancelGrant, DenyTurn, CheckHead, ConsumeGrant, CompleteTurn, FreeGrant,
       RetireTurn, documents
  <2>2. CASE ClearHead(s)
    BY <2>2, <1>1, <1>2 DEF ClearHead
  <2>3. CASE FreeHead(s)
    BY <2>3, <1>1, <1>2 DEF FreeHead
  <2>4. CASE OwnHead(s)
    <3>1. ~Unchanged(s) => UNCHANGED <<head, generations, promoted>>
      BY <2>4 DEF OwnHead
    <3> QED
      BY <2>4, <3>1, <1>1, <1>3
  <2>5. CASE AdvanceHead(s)
    <3>1. ~Unchanged(s) => UNCHANGED <<head, generations, promoted>>
      BY <2>5 DEF AdvanceHead
    <3> QED
      BY <2>5, <3>1, <1>1, <1>4
  <2> QED
    BY <1>8, <2>1, <2>2, <2>3, <2>4, <2>5, <1>5, <1>6 DEF Step
<1>9. ASSUME NEW s \in Sessions, Die(s)
      PROVE  UNCHANGED <<head, generations, promoted>>
  BY <1>9 DEF Die, documents
<1>10. ASSUME NEW t \in Turns, TimePasses(t)
       PROVE  UNCHANGED <<head, generations, promoted>>
  BY <1>10 DEF TimePasses
<1>11. CASE UNCHANGED vars
  BY <1>11, <1>1 DEF vars
<1> QED
  BY <1>1, <1>7, <1>8, <1>9, <1>10, <1>11 DEF Next

\* The four documents implement one history with one holder: what the steps of
\* bind_turn, promote_contract_generation and release_contract_generation_grant
\* do to the head and to its generations, each step of GenerationChain or none.
THEOREM DocumentsImplementChain == Spec => ImplementsChain
<1>1. Init => Chain!Init
  BY DEF Init, FirstHead, Chain!Init
<1>2. Inv /\ [Next]_vars => [Chain!Next]_(Chain!vars)
  BY ChainStep
<1> QED
  BY HistoryInvariant, <1>1, <1>2, PTL DEF Spec, ImplementsChain, Chain!Spec

-----------------------------------------------------------------------------
(* What is left when all calls are over. *)

\* A turn that is being bound is known to its own call only.
Apart ==
  \A s, r \in Sessions :
    call[s].step \in Binding =>
      /\ call[r].head.active # call[s].turn
      /\ r # s => call[r].turn # call[s].turn

\* A turn holds the head once: a call that knows the holder knows the revision.
Once(s) ==
  head.active # None /\ call[s].head.active = head.active =>
    call[s].head.rev = head.rev

\* A call that releases the holder knows that it does.
Releaser(s) ==
  call[s].step = "free" /\ head.active = call[s].turn =>
    call[s].head.active = call[s].turn

\* The grant with which the head is taken is active.
Taker(s) == call[s].step = "own" => grant[call[s].turn].state = "ACTIVE"

\* A grant is consumed by the turn of a generation in the history.
Promoter(s) ==
  /\ call[s].step = "canonical" => generations[call[s].gen].turn = call[s].turn
  /\ call[s].step = "consume" => HasPromoted(call[s].turn)

Dead == \E s \in Sessions : call[s].step = "dead"

\* Somebody is about to mark the generation of the head, or died before.
LastMarked ==
  \/ head.id = 0
  \/ generations[head.id].state = "CANONICAL"
  \/ Dead
  \/ \E s \in Sessions : call[s].step = "canonical" /\ call[s].gen = head.id

\* Somebody is about to take the head from a grant that has ended, or died
\* before.
HolderActive ==
  \/ head.active = None
  \/ grant[head.active].state = "ACTIVE"
  \/ Dead
  \/ \E s \in Sessions :
       call[s].step \in {"clear", "unhand"} /\ call[s].head.rev = head.rev

CallRest(s) == Once(s) /\ Releaser(s) /\ Taker(s) /\ Promoter(s)

Rest ==
  /\ Apart
  /\ \A s \in Sessions : CallRest(s)
  /\ LastMarked
  /\ HolderActive

\* How a step of s changes its call ...
Moved(s) ==
  /\ OnlyCall(s)
  /\ call[s].step # "dead"
  /\ call'[s].head \in {call[s].head, head} \/ call'[s].head.active = None
  /\ call'[s].step = "free" => call'[s].head = head
  /\ \/ call'[s].turn = None /\ call'[s].step \notin Binding
     \/ /\ call'[s].turn = call[s].turn
        /\ call'[s].step \in Binding => call[s].step \in Binding
     \/ /\ call'[s].turn \in Turns
        /\ call'[s].step \notin Binding
        /\ Answered(call'[s].turn)
     \/ /\ call'[s].turn \in Turns
        /\ turn[call'[s].turn].state = "ABSENT"
        /\ call'[s].head.active = None

\* ... the head ...
HeadMoved(s) ==
  \/ head' = head
  \/ head'.active = None
  \/ /\ call[s].step \in Binding
     /\ head'.active = call[s].turn
     /\ call'[s].step = "idle"
     /\ call'[s].head.active = None

\* ... the grants, and the generations.
GrantsMoved(s) ==
  \A t \in Turns :
    t \notin {call[s].turn, call[s].head.active} =>
      grant'[t].state = grant[t].state

HistoryMoved ==
  /\ \A k \in 1..Len(generations) : generations'[k].turn = generations[k].turn
  /\ Len(promoted) <= Len(promoted')
  /\ \A i \in 1..Len(promoted) : promoted'[i] = promoted[i]

\* The holder and the turns of the calls are turns.
LEMMA TurnsOfAll ==
  ASSUME Inv
  PROVE  /\ head \in Heads
         /\ head.active \in Turns \cup {None}
         /\ head.rev \in Nat
         /\ call \in [Sessions -> Calls]
         /\ \A r \in Sessions :
              /\ call[r] \in Calls
              /\ call[r].turn \in Turns \cup {None}
              /\ call[r].head.active \in Turns \cup {None}
              /\ call[r].head.rev \in Nat
              /\ call[r].step \notin {"idle", "dead"} => call[r].turn \in Turns
BY DEF Inv, TypeInv, TypeOK, Heads, Calls, CallsTyped

LEMMA ApartStep ==
  ASSUME Inv, Apart, NEW s \in Sessions, Moved(s)
  PROVE  Apart'
<1>types. \A r \in Sessions :
            /\ call[r].step \in Binding => call[r].turn \in Turns
            /\ call[r].step \in Binding => head.active # call[r].turn
            /\ \A t \in Turns :
                 call[r].turn = t \/ call[r].head.active = t => turn[t].state # "ABSENT"
  BY TurnsOfAll DEF Binding, Inv, HistoryInv, SessionInv, BindingOK, TraceOK
<1> SUFFICES ASSUME NEW p \in Sessions, NEW r \in Sessions, call'[p].step \in Binding
             PROVE  /\ call'[r].head.active # call'[p].turn
                    /\ r # p => call'[r].turn # call'[p].turn
  BY DEF Apart
<1>1. CASE p # s
  <2>1. /\ call'[p] = call[p]
        /\ call[p].turn \in Turns
        /\ call[p].turn # None
    BY <1>1, <1>types, NoneAssumption DEF Moved, OnlyCall
  <2>2. CASE r # s
    BY <1>1, <2>1, <2>2 DEF Moved, OnlyCall, Apart
  <2>3. CASE r = s
    <3>1. call'[s].head.active # call[p].turn
      BY <1>types, <2>1 DEF Moved, Apart
    <3>2. call'[s].turn # call[p].turn
      BY <1>1, <1>types, <2>1 DEF Moved, Apart, Answered
    <3> QED
      BY <2>1, <2>3, <3>1, <3>2
  <2> QED
    BY <2>2, <2>3
<1>2. CASE p = s
  <2>1. CASE call'[s].turn = call[s].turn /\ call[s].step \in Binding
    <3>1. call[s].turn \in Turns /\ call[s].turn # None /\ head.active # call[s].turn
      BY <1>types, <2>1, NoneAssumption
    <3>2. call'[s].head.active # call[s].turn
      BY <2>1, <3>1 DEF Moved, Apart
    <3>3. r # s => /\ call'[r] = call[r]
                   /\ call[r].head.active # call[s].turn
                   /\ call[r].turn # call[s].turn
      BY <2>1 DEF Moved, OnlyCall, Apart
    <3> QED
      BY <1>2, <2>1, <3>2, <3>3
  <2>2. CASE /\ call'[s].turn \in Turns
             /\ turn[call'[s].turn].state = "ABSENT"
             /\ call'[s].head.active = None
    <3>1. r # s => /\ call'[r] = call[r]
                   /\ call[r].head.active # call'[s].turn
                   /\ call[r].turn # call'[s].turn
      BY <1>types, <2>2 DEF Moved, OnlyCall
    <3> QED
      BY <1>2, <2>2, <3>1, NoneAssumption
  <2> QED
    BY <1>2, <2>1, <2>2 DEF Moved
<1> QED
  BY <1>1, <1>2

LEMMA OnceStep ==
  ASSUME Inv, Rest, CallsTyped', NEW s \in Sessions, Moved(s), HeadMoved(s),
         NEW r \in Sessions
  PROVE  Once(r)' /\ Releaser(r)'
<1>old. Once(r) /\ Releaser(r)
  BY DEF Rest, CallRest
<1>1. CASE head' = head
  <2>1. CASE r # s
    BY <1>old, <1>1, <2>1 DEF Moved, OnlyCall, Once, Releaser
  <2>2. CASE r = s
    <3>1. Once(s)'
      BY <1>old, <1>1, <2>2 DEF Moved, Once
    <3>2. Releaser(s)'
      BY <1>1 DEF Moved, Releaser
    <3> QED
      BY <2>2, <3>1, <3>2
  <2> QED
    BY <2>1, <2>2
<1>2. CASE head'.active = None
  <2>1. call'[r].step = "free" => call'[r].turn \in Turns
    BY DEF CallsTyped
  <2> QED
    BY <1>2, <2>1, NoneAssumption DEF Once, Releaser
<1>3. CASE /\ call[s].step \in Binding
           /\ head'.active = call[s].turn
           /\ call'[s].step = "idle"
           /\ call'[s].head.active = None
  <2>1. call[s].turn \in Turns
    BY <1>3, TurnsOfAll DEF Binding
  <2>2. CASE r = s
    BY <1>3, <2>1, <2>2, NoneAssumption DEF Once, Releaser
  <2>3. CASE r # s
    <3>1. call[r].head.active # call[s].turn /\ call[r].turn # call[s].turn
      BY <1>3, <2>3 DEF Rest, Apart
    <3> QED
      BY <1>3, <2>3, <3>1 DEF Moved, OnlyCall, Once, Releaser
  <2> QED
    BY <2>2, <2>3
<1> QED
  BY <1>1, <1>2, <1>3 DEF HeadMoved

LEMMA PromotedKept ==
  ASSUME TypeOK, HistoryMoved, NEW t, HasPromoted(t)
  PROVE  HasPromoted(t)'
<1>1. PICK i \in 1..Len(promoted) : generations[promoted[i]].turn = t
  BY DEF HasPromoted
<1>2. promoted[i] \in 1..Len(generations)
  BY DEF TypeOK
<1>3. i \in 1..Len(promoted') \/ Len(promoted') \notin Int
  BY DEF HistoryMoved, TypeOK
<1>4. generations'[promoted'[i]].turn = t
  BY <1>1, <1>2 DEF HistoryMoved
<1> QED
  BY <1>3, <1>4 DEF HasPromoted

\* What the calls keep of grants and generations when s makes a step.
LEMMA OthersStep ==
  ASSUME Inv, Rest, TypeOK', NEW s \in Sessions, Moved(s), GrantsMoved(s), HistoryMoved,
         NEW r \in Sessions, r # s
  PROVE  Taker(r)' /\ Promoter(r)'
<1>c. call'[r] = call[r]
  BY DEF Moved, OnlyCall
<1>1. Taker(r)'
  <2>1. ASSUME call[r].step = "own" PROVE grant'[call[r].turn].state = "ACTIVE"
    <3>1. call[r].step \in Binding /\ call[r].turn \in Turns
      BY <2>1, TurnsOfAll DEF Binding
    <3>2. call[r].turn \notin {call[s].turn, call[s].head.active}
      BY <3>1 DEF Rest, Apart
    <3>3. grant[call[r].turn].state = "ACTIVE"
      BY <2>1 DEF Rest, CallRest, Taker
    <3> QED
      BY <3>1, <3>2, <3>3 DEF GrantsMoved
  <2> QED
    BY <1>c, <2>1 DEF Taker
<1>2. Promoter(r)'
  <2>1. Promoter(r)
    BY DEF Rest, CallRest
  <2>2. ASSUME call[r].step = "canonical"
        PROVE  generations'[call[r].gen].turn = call[r].turn
    <3>1. call[r].gen \in 1..Len(generations)
      BY <2>2 DEF Inv, TypeInv, CallsTyped
    <3> QED
      BY <2>1, <2>2, <3>1 DEF HistoryMoved, Promoter
  <2>3. ASSUME call[r].step = "consume" PROVE HasPromoted(call[r].turn)'
    <3>1. PICK t : t = call[r].turn
      OBVIOUS
    <3>2. HasPromoted(t)
      BY <2>1, <2>3, <3>1 DEF Promoter
    <3>3. HasPromoted(t)'
      BY <3>2, PromotedKept DEF Inv, TypeInv
    <3> QED
      BY <1>c, <3>1, <3>3 DEF HasPromoted
  <2> QED
    BY <1>c, <2>2, <2>3 DEF Promoter
<1> QED
  BY <1>1, <1>2

\* It is enough to look at the new step of the call, and at the head.
LEMMA RestWhole ==
  ASSUME Inv, Rest, TypeInv', NEW s \in Sessions, Moved(s), HeadMoved(s),
         GrantsMoved(s), HistoryMoved, Taker(s)', Promoter(s)',
         LastMarked', HolderActive'
  PROVE  Rest'
<1>1. Apart'
  BY ApartStep DEF Rest
<1>2. ASSUME NEW r \in Sessions PROVE CallRest(r)'
  <2>1. Once(r)' /\ Releaser(r)'
    BY OnceStep DEF TypeInv
  <2>2. Taker(r)' /\ Promoter(r)'
    <3>1. CASE r = s
      BY <3>1
    <3>2. CASE r # s
      BY <3>2, OthersStep DEF TypeInv
    <3> QED
      BY <3>1, <3>2
  <2> QED
    BY <2>1, <2>2 DEF CallRest
<1> QED
  BY <1>1, <1>2 DEF Rest

\* A call that is not about to mark a generation, and one that is not about to
\* take the head, leave that to whoever is.
LEMMA MarkLeft ==
  ASSUME Rest, NEW s \in Sessions, OnlyCall(s),
         call[s].step \notin {"dead", "canonical"},
         head'.id = head.id,
         head.id # 0 => generations'[head.id].state = generations[head.id].state
  PROVE  LastMarked'
<1>1. CASE head.id = 0 \/ generations[head.id].state = "CANONICAL"
  BY <1>1 DEF LastMarked
<1>2. CASE Dead
  BY <1>2 DEF LastMarked, Dead, OnlyCall
<1>3. CASE \E r \in Sessions : call[r].step = "canonical" /\ call[r].gen = head.id
  BY <1>3 DEF LastMarked, OnlyCall
<1> QED
  BY <1>1, <1>2, <1>3 DEF Rest, LastMarked

LEMMA HolderLeft ==
  ASSUME Rest, NEW s \in Sessions, OnlyCall(s), call[s].step # "dead",
         call[s].step \in {"clear", "unhand"} => call[s].head.rev # head.rev,
         head' = head,
         head.active # None => grant'[head.active].state = grant[head.active].state
  PROVE  HolderActive'
<1>1. CASE head.active = None \/ grant[head.active].state = "ACTIVE"
  BY <1>1 DEF HolderActive
<1>2. CASE Dead
  BY <1>2 DEF HolderActive, Dead, OnlyCall
<1>3. CASE \E r \in Sessions :
             call[r].step \in {"clear", "unhand"} /\ call[r].head.rev = head.rev
  BY <1>3 DEF HolderActive, OnlyCall
<1> QED
  BY <1>1, <1>2, <1>3 DEF Rest, HolderActive

\* The steps that a call can take to no place of which anything is said.
Silent == Steps \ {"own", "canonical", "consume", "free"}

LEMMA SilentStep ==
  ASSUME NEW s \in Sessions, call'[s].step \in Silent \cup {"free"}
  PROVE  Taker(s)' /\ Promoter(s)'
BY DEF Silent, Taker, Promoter

\* A step that only reads, or writes the turn.
LEMMA Reads ==
  ASSUME Inv, Rest, TypeInv', NEW s \in Sessions, Moved(s),
         UNCHANGED <<head, grant, generations, promoted>>,
         call'[s].step \in Silent \cup {"free"},
         call[s].step # "canonical",
         call[s].step \in {"clear", "unhand"} => call[s].head.rev # head.rev
  PROVE  Rest'
<1>1. HeadMoved(s) /\ GrantsMoved(s) /\ HistoryMoved
  BY DEF HeadMoved, GrantsMoved, HistoryMoved, Inv, TypeInv, TypeOK
<1>2. LastMarked'
  BY MarkLeft DEF Moved
<1>3. HolderActive'
  BY HolderLeft DEF Moved
<1> QED
  BY <1>1, <1>2, <1>3, SilentStep, RestWhole

LEMMA GoMoved ==
  ASSUME Inv, NEW s \in Sessions, NEW step \in Steps, step # "free", Go(s, step),
         call[s].step # "dead", step \in Binding => call[s].step \in Binding
  PROVE  Moved(s)
BY GoStep DEF Moved

LEMMA EndMoved ==
  ASSUME Inv, NEW s \in Sessions, End(s), call[s].step # "dead"
  PROVE  /\ Moved(s)
         /\ call'[s].step \in Silent
         /\ call'[s].step = "idle"
         /\ call'[s].head.active = None
BY EndStep DEF Moved, FirstHead, Binding, Silent, Steps

\* Steps of a call that only read, or write its turn.
LEMMA ReadSteps ==
  ASSUME Inv, Rest, TypeInv', NEW s \in Sessions,
         \/ ReadHead(s) \/ ReadOwner(s) \/ Recheck(s) \/ DenyTurn(s)
         \/ CheckHead(s) \/ CompleteTurn(s) \/ RetireTurn(s)
  PROVE  Rest'
<1> USE DEF At
<1>s. {"insert", "owner", "clear", "expire", "recheck", "deny", "generate"} \subseteq Silent \cap Steps
  BY DEF Silent, Steps, Binding, Promoting
<1>calls. call[s] \in Calls /\ call \in [Sessions -> Calls]
  BY TurnsOfAll
<1>1. CASE ReadHead(s)
  <2>1. PICK c : c = [call[s] EXCEPT !.head = head]
    OBVIOUS
  <2>2. PICK step \in {"insert", "owner"} :
          call' = [call EXCEPT ![s] = [c EXCEPT !.step = step]]
    BY <1>1, <2>1, Zenon DEF ReadHead
  <2>3. /\ OnlyCall(s)
        /\ call'[s].step = step
        /\ call'[s].turn = call[s].turn
        /\ call'[s].head = head
    BY <1>calls, <2>1, <2>2 DEF Calls, OnlyCall
  <2>4. Moved(s)
    BY <1>1, <2>3 DEF Moved, ReadHead, Binding
  <2> QED
    BY <1>1, <1>s, <2>3, <2>4, Reads DEF ReadHead, documents
<1>2. CASE ReadOwner(s)
  <2>1. PICK c : c = [call[s] EXCEPT !.seen = grant[call[s].head.active]]
    OBVIOUS
  <2>2. PICK step \in {"clear", "expire", "recheck"} :
          call' = [call EXCEPT ![s] = [c EXCEPT !.step = step]]
    BY <1>2, <2>1, Zenon DEF ReadOwner
  <2>3. /\ OnlyCall(s)
        /\ call'[s].step = step
        /\ call'[s].turn = call[s].turn
        /\ call'[s].head = call[s].head
    BY <1>calls, <2>1, <2>2 DEF Calls, OnlyCall
  <2>4. Moved(s)
    BY <1>2, <2>3 DEF Moved, ReadOwner, Binding
  <2> QED
    BY <1>2, <1>s, <2>3, <2>4, Reads DEF ReadOwner, documents
<1>3. CASE Recheck(s)
  <2>1. PICK step \in {"deny", "insert"} : Go(s, step)
    BY <1>3 DEF Recheck
  <2>2. Moved(s) /\ call'[s].step = step
    BY <1>3, <1>s, <2>1, GoMoved, GoStep DEF Recheck, Binding
  <2> QED
    BY <1>3, <1>s, <2>2, Reads DEF Recheck, documents
<1>4. CASE CheckHead(s)
  <2>1. CASE End(s)
    BY <1>4, <2>1, EndMoved, Reads DEF CheckHead, documents
  <2>2. CASE call' = [call EXCEPT ![s].head = head, ![s].step = "generate"]
    <3>1. PICK c : c = [call[s] EXCEPT !.head = head]
      OBVIOUS
    <3>2. call' = [call EXCEPT ![s] = [c EXCEPT !.step = "generate"]]
      BY <2>2, <3>1, Zenon
    <3>3. /\ OnlyCall(s)
          /\ call'[s].step = "generate"
          /\ call'[s].turn = call[s].turn
          /\ call'[s].head = head
      BY <1>calls, <3>1, <3>2 DEF Calls, OnlyCall
    <3>4. Moved(s)
      BY <1>4, <3>3 DEF Moved, CheckHead, Binding
    <3> QED
      BY <1>4, <1>s, <3>3, <3>4, Reads DEF CheckHead, documents
  <2> QED
    BY <1>4, <2>1, <2>2 DEF CheckHead
<1>5. CASE DenyTurn(s) \/ CompleteTurn(s) \/ RetireTurn(s)
  <2>1. /\ End(s)
        /\ call[s].step \in {"deny", "complete", "retire"}
        /\ UNCHANGED <<head, grant, generations, promoted>>
    BY <1>5 DEF DenyTurn, CompleteTurn, RetireTurn
  <2> QED
    BY <2>1, EndMoved, Reads
<1> QED
  BY <1>1, <1>2, <1>3, <1>4, <1>5

\* A call begins.
LEMMA BeginRests ==
  ASSUME Inv, Rest, TypeInv', NEW s \in Sessions, Begin(s)
  PROVE  Rest'
<1> USE DEF At
<1>s. {"head", "check"} \subseteq Silent
  BY DEF Silent, Steps, Binding, Promoting
<1>calls. call \in [Sessions -> Calls]
  BY TurnsOfAll
<1>1. ASSUME NEW t \in Turns, BindTurn(s, t) PROVE Rest'
  <2>1. /\ OnlyCall(s)
        /\ call'[s].step = "head"
        /\ call'[s].turn = t
        /\ call'[s].head.active = None
    BY <1>1, <1>calls DEF BindTurn, NoCall, FirstHead, OnlyCall
  <2>2. Moved(s)
    BY <1>1, <2>1 DEF Moved, BindTurn
  <2> QED
    BY <1>1, <1>s, <2>1, <2>2, Reads DEF BindTurn
<1>2. ASSUME NEW t \in Turns, NEW c \in Contents, BeginPromote(s, t, c) PROVE Rest'
  <2>1. /\ OnlyCall(s)
        /\ call'[s].step = "check"
        /\ call'[s].turn = t
        /\ call'[s].head.active = None
    BY <1>2, <1>calls DEF BeginPromote, NoCall, FirstHead, OnlyCall
  <2>2. Moved(s)
    BY <1>2, <2>1 DEF Moved, BeginPromote, Binding
  <2> QED
    BY <1>2, <1>s, <2>1, <2>2, Reads DEF BeginPromote, documents
<1>3. ASSUME NEW t \in Turns, BeginRelease(s, t) PROVE Rest'
  <2>1. /\ OnlyCall(s)
        /\ call'[s].step = "free"
        /\ call'[s].turn = t
        /\ call'[s].head = head
    BY <1>3, <1>calls DEF BeginRelease, NoCall, OnlyCall
  <2>2. Moved(s)
    BY <1>3, <2>1 DEF Moved, BeginRelease, Binding
  <2> QED
    BY <1>3, <2>1, <2>2, Reads DEF BeginRelease, documents
<1> QED
  BY <1>1, <1>2, <1>3 DEF Begin

\* The state of one grant is written: that of the turn, or of the holder that
\* the call has read.
LEMMA WritesGrant ==
  ASSUME Inv, NEW t \in Turns, NEW s \in Sessions,
         t \in {call[s].turn, call[s].head.active},
         NEW state \in GrantStates, grant' = GrantWith(t, state)
  PROVE  GrantsMoved(s) /\ \A u \in Turns : u # t => grant'[u] = grant[u]
BY GrantFacts DEF GrantsMoved, Inv, TypeInv, TypeOK

\* The grants that bind_turn and promote_contract_generation close are not the
\* holder's, or the call is about to take the head from it.
LEMMA GrantRests ==
  ASSUME Inv, Rest, TypeInv', NEW s \in Sessions,
         ExpireGrant(s) \/ CancelGrant(s) \/ ConsumeGrant(s) \/ FreeGrant(s)
  PROVE  Rest'
<1> USE DEF At
<1>s. {"clear", "deny", "complete", "unhand", "retire"} \subseteq Silent \cap (Steps \ {"free"})
  BY DEF Silent, Steps, Binding, Promoting, Releasing
<1>h. head.active \in Turns \cup {None}
  BY TurnsOfAll
<1>k. /\ UNCHANGED <<head, generations, promoted>>
      /\ call[s].step \in {"expire", "cancel", "consume", "free"}
      /\ HeadMoved(s)
      /\ HistoryMoved
  BY DEF ExpireGrant, CancelGrant, ConsumeGrant, FreeGrant, HeadMoved, HistoryMoved,
     Inv, TypeInv, TypeOK
\* A grant that is not the holder's.
<1>0. ASSUME NEW t \in Turns, t \in {call[s].turn, call[s].head.active},
             NEW state \in GrantStates, grant' = GrantWith(t, state),
             head.active # t, Moved(s), call'[s].step \in Silent
      PROVE  Rest'
  <2>1. /\ GrantsMoved(s)
        /\ \A u \in Turns : u # t => grant'[u] = grant[u]
    BY <1>0, WritesGrant
  <2>2. LastMarked'
    BY <1>k, <1>0, MarkLeft DEF Moved
  <2>3. HolderActive'
    <3>1. head.active # None => grant'[head.active].state = grant[head.active].state
      BY <1>h, <1>0, <2>1
    <3> QED
      BY <1>k, <1>0, <3>1, HolderLeft DEF Moved
  <2>4. Taker(s)' /\ Promoter(s)'
    BY <1>0, SilentStep
  <2> QED
    BY <1>k, <1>0, <2>1, <2>2, <2>3, <2>4, RestWhole
\* The holder's, from which the call is about to take the head.
<1>1. ASSUME NEW t \in Turns, t \in {call[s].turn, call[s].head.active},
             NEW state \in GrantStates, grant' = GrantWith(t, state),
             head.active = t, call[s].head.active = t,
             NEW step \in {"clear", "unhand"}, Go(s, step),
             step \in Binding => call[s].step \in Binding
      PROVE  Rest'
  <2>1. GrantsMoved(s)
    BY <1>1, WritesGrant
  <2>2. /\ Moved(s)
        /\ call'[s].step = step
        /\ call'[s].head = call[s].head
        /\ step \in Silent
    BY <1>s, <1>k, <1>1, GoMoved, GoStep
  <2>3. LastMarked'
    BY <1>k, <2>2, MarkLeft DEF Moved
  <2>4. call[s].head.rev = head.rev
    BY <1>1, NoneAssumption DEF Rest, CallRest, Once
  <2>5. HolderActive'
    BY <1>k, <1>1, <2>2, <2>4 DEF HolderActive
  <2>6. Taker(s)' /\ Promoter(s)'
    BY <2>2, SilentStep
  <2> QED
    BY <1>k, <2>1, <2>2, <2>3, <2>5, <2>6, RestWhole
<1>2. CASE \/ (ExpireGrant(s) /\ ~GrantUnchanged(s, call[s].head.active))
         \/ (ConsumeGrant(s) /\ UNCHANGED grant)
         \/ (FreeGrant(s) /\ ~GrantUnchanged(s, call[s].turn))
  <2>0. UNCHANGED grant
    BY <1>2 DEF ExpireGrant, FreeGrant
  <2>1. Moved(s) /\ call'[s].step \in Silent
    <3>1. CASE End(s)
      BY <1>k, <3>1, EndMoved
    <3>2. CASE ~End(s)
      <4>1. PICK step \in {"deny", "complete"} :
              Go(s, step) /\ (step \in Binding => call[s].step \in Binding)
        BY <1>2, <3>2 DEF ExpireGrant, ConsumeGrant, FreeGrant, Binding
      <4> QED
        BY <1>s, <1>k, <4>1, GoMoved, GoStep
    <3> QED
      BY <3>1, <3>2
  <2> QED
    BY <1>k, <2>0, <2>1, Reads
<1>3. CASE ExpireGrant(s) /\ GrantUnchanged(s, call[s].head.active)
  <2>1. PICK t \in Turns : t = call[s].head.active
    BY <1>3, TurnsOfAll DEF ExpireGrant, Inv, TypeInv, CallsTyped
  <2>2. /\ grant' = GrantWith(t, "EXPIRED")
        /\ Go(s, "clear")
        /\ call[s].step \in Binding
    BY <1>3, <2>1 DEF ExpireGrant, Binding
  <2>3. "EXPIRED" \in GrantStates
    BY DEF GrantStates
  <2>4. Moved(s) /\ call'[s].step = "clear"
    BY <1>s, <1>k, <2>2, GoMoved, GoStep
  <2>5. CASE head.active = t
    BY <1>1, <2>1, <2>2, <2>3, <2>5
  <2>6. CASE head.active # t
    BY <1>0, <1>s, <2>1, <2>2, <2>3, <2>4, <2>6
  <2> QED
    BY <2>5, <2>6
<1>4. CASE CancelGrant(s)
  <2>1. PICK t \in Turns : t = call[s].turn
    BY <1>4, TurnsOfAll DEF CancelGrant
  <2>2. /\ grant' = GrantWith(t, "CANCELLED")
        /\ Go(s, "deny")
        /\ call[s].step \in Binding
    BY <1>4, <2>1 DEF CancelGrant, Binding
  <2>3. "CANCELLED" \in GrantStates
    BY DEF GrantStates
  <2>4. Moved(s) /\ call'[s].step = "deny"
    BY <1>s, <1>k, <2>2, GoMoved, GoStep
  <2>5. head.active # t
    BY <2>1, <2>2 DEF Inv, HistoryInv, SessionInv, BindingOK
  <2> QED
    BY <1>0, <1>s, <2>1, <2>2, <2>3, <2>4, <2>5
<1>5. CASE ConsumeGrant(s) /\ grant' = GrantWith(call[s].turn, "CONSUMED")
  <2>1. PICK t \in Turns : t = call[s].turn
    BY <1>5, TurnsOfAll DEF ConsumeGrant
  <2>2. /\ grant' = GrantWith(t, "CONSUMED")
        /\ Go(s, "complete")
        /\ "complete" \notin Binding
    BY <1>5, <2>1 DEF ConsumeGrant, Binding
  <2>3. "CONSUMED" \in GrantStates
    BY DEF GrantStates
  <2>4. Moved(s) /\ call'[s].step = "complete"
    BY <1>s, <1>k, <2>2, GoMoved, GoStep
  <2>5. head.active # t
    <3>1. HasPromoted(t)
      BY <1>5, <2>1 DEF ConsumeGrant, Rest, CallRest, Promoter
    <3>2. head.active # None => ~HasPromoted(head.active)
      BY DEF Inv, HistoryInv, DocumentInv, HolderOK
    <3> QED
      BY <3>1, <3>2, NoneAssumption
  <2> QED
    BY <1>0, <1>s, <2>1, <2>2, <2>3, <2>4, <2>5
<1>6. CASE FreeGrant(s) /\ GrantUnchanged(s, call[s].turn)
  <2>1. PICK t \in Turns : t = call[s].turn
    BY <1>6, TurnsOfAll DEF FreeGrant
  <2>2. PICK step \in {"unhand", "retire"} :
          /\ grant' = GrantWith(t, "RELEASED")
          /\ Go(s, step)
          /\ step = IF call[s].head.active = t THEN "unhand" ELSE "retire"
          /\ step \notin Binding
    BY <1>6, <2>1 DEF FreeGrant, Binding
  <2>3. "RELEASED" \in GrantStates
    BY DEF GrantStates
  <2>4. Moved(s) /\ call'[s].step = step
    BY <1>s, <1>k, <2>2, GoMoved, GoStep
  <2>5. CASE head.active = t
    <3>1. call[s].head.active = t
      BY <1>6, <2>1, <2>5 DEF FreeGrant, Rest, CallRest, Releaser
    <3> QED
      BY <1>1, <2>1, <2>2, <2>3, <2>5, <3>1
  <2>6. CASE head.active # t
    BY <1>0, <1>s, <2>1, <2>2, <2>3, <2>4, <2>6
  <2> QED
    BY <2>5, <2>6
<1> QED
  <2>1. ConsumeGrant(s) => \/ grant' = GrantWith(call[s].turn, "CONSUMED")
                           \/ UNCHANGED grant
    BY DEF ConsumeGrant
  <2> QED
    BY <1>2, <1>3, <1>4, <1>5, <1>6, <2>1

\* The grant with which the head is to be taken.
LEMMA InsertRests ==
  ASSUME Inv, Rest, TypeInv', NEW s \in Sessions, InsertGrant(s)
  PROVE  Rest'
<1> USE DEF At
<1>on. call[s].step = "insert" /\ call[s].step \in Binding
  BY DEF InsertGrant, Binding
<1>t. PICK t \in Turns : t = call[s].turn
  BY <1>on, TurnsOfAll
<1>g. PICK g : g = [NoGrant EXCEPT !.state = "ACTIVE",
                                   !.base = call[s].head.number,
                                   !.content = call[s].head.content]
  OBVIOUS
<1>1. grant' = [grant EXCEPT ![t] = g]
  BY <1>t, <1>g, Zenon DEF InsertGrant
<1>2. /\ grant'[t].state = "ACTIVE"
      /\ \A u \in Turns : u # t => grant'[u] = grant[u]
  BY <1>1, <1>g DEF NoGrant, Inv, TypeInv, TypeOK
<1>3. UNCHANGED <<head, turn, generations, promoted>>
  BY DEF InsertGrant
<1>4. Go(s, "own") /\ "own" \in Steps /\ "own" \in Binding
  BY DEF InsertGrant, Steps, Binding
<1>5. /\ Moved(s)
      /\ call'[s].step = "own"
      /\ call'[s].turn = t
  BY <1>on, <1>t, <1>4, GoMoved, GoStep
<1>6. HeadMoved(s) /\ GrantsMoved(s) /\ HistoryMoved
  BY <1>t, <1>2, <1>3 DEF HeadMoved, GrantsMoved, HistoryMoved, Inv, TypeInv, TypeOK
<1>7. Taker(s)' /\ Promoter(s)'
  BY <1>2, <1>5 DEF Taker, Promoter
<1>8. LastMarked'
  BY <1>on, <1>3, <1>5, MarkLeft DEF Moved
<1>9. HolderActive'
  <2>1. head.active # t /\ head.active \in Turns \cup {None}
    BY <1>on, <1>t, TurnsOfAll DEF Inv, HistoryInv, SessionInv, BindingOK
  <2>2. head.active # None => grant'[head.active].state = grant[head.active].state
    BY <1>2, <2>1
  <2> QED
    BY <1>on, <1>3, <1>5, <2>2, HolderLeft DEF Moved
<1> QED
  BY <1>5, <1>6, <1>7, <1>8, <1>9, RestWhole

\* The head changes hands, or the call loses the race for it.
LEMMA HandRests ==
  ASSUME Inv, Rest, TypeInv', NEW s \in Sessions,
         ClearHead(s) \/ OwnHead(s) \/ FreeHead(s)
  PROVE  Rest'
<1> USE DEF At
<1>s. {"insert", "deny", "cancel", "retire"} \subseteq Silent \cap (Steps \ {"free"})
  BY DEF Silent, Steps, Binding, Releasing
<1>calls. call[s] \in Calls /\ call \in [Sessions -> Calls] /\ head \in Heads
  BY TurnsOfAll
<1>k. /\ UNCHANGED <<grant, generations, promoted>>
      /\ call[s].step \in {"clear", "own", "unhand"}
      /\ GrantsMoved(s)
      /\ HistoryMoved
  BY DEF ClearHead, OwnHead, FreeHead, GrantsMoved, HistoryMoved, Inv, TypeInv, TypeOK
\* The head is written.
<1>0. ASSUME Moved(s), HeadMoved(s), call'[s].step \in Silent, head'.id = head.id,
             head'.active # None => grant[head'.active].state = "ACTIVE"
      PROVE  Rest'
  <2>1. LastMarked'
    BY <1>k, <1>0, MarkLeft DEF Moved
  <2>2. HolderActive'
    BY <1>k, <1>0 DEF HolderActive
  <2>3. Taker(s)' /\ Promoter(s)'
    BY <1>0, SilentStep
  <2> QED
    BY <1>k, <1>0, <2>1, <2>2, <2>3, RestWhole
<1>1. CASE ~Unchanged(s)
  <2>1. UNCHANGED head /\ call[s].head.rev # head.rev
    BY <1>1 DEF ClearHead, OwnHead, FreeHead, Unchanged
  <2>2. Moved(s) /\ call'[s].step \in Silent
    <3>1. CASE End(s)
      BY <1>k, <3>1, EndMoved
    <3>2. CASE ~End(s)
      <4>1. PICK step \in {"deny", "cancel"} :
              Go(s, step) /\ (step \in Binding => call[s].step \in Binding)
        BY <1>1, <3>2 DEF ClearHead, OwnHead, FreeHead, Binding
      <4> QED
        BY <1>s, <1>k, <4>1, GoMoved, GoStep
    <3> QED
      BY <3>1, <3>2
  <2> QED
    BY <1>k, <2>1, <2>2, Reads
<1>2. CASE ClearHead(s) /\ Unchanged(s)
  <2>1. PICK h : h = HeadOwnedBy(None)
    OBVIOUS
  <2>2. h.active = None /\ h.id = head.id /\ h \in Heads
    BY <1>calls, <2>1, HandFacts
  <2>3. PICK c : c = [call[s] EXCEPT !.head = h]
    OBVIOUS
  <2>4. /\ head' = h
        /\ call' = [call EXCEPT ![s] = [c EXCEPT !.step = "insert"]]
    BY <1>2, <2>1, <2>3, Zenon DEF ClearHead
  <2>5. /\ OnlyCall(s)
        /\ call'[s].step = "insert"
        /\ call'[s].turn = call[s].turn
        /\ call'[s].head = h
    BY <1>calls, <2>2, <2>3, <2>4 DEF Calls, OnlyCall
  <2>6. Moved(s)
    BY <1>2, <2>2, <2>5 DEF Moved, ClearHead, Binding
  <2>7. HeadMoved(s)
    BY <2>2, <2>4 DEF HeadMoved
  <2> QED
    BY <1>0, <1>s, <2>2, <2>4, <2>5, <2>6, <2>7
<1>3. CASE OwnHead(s) /\ Unchanged(s)
  <2>1. PICK t \in Turns : t = call[s].turn
    BY <1>3, TurnsOfAll DEF OwnHead
  <2>2. head'.active = t /\ head'.id = head.id
    BY <1>calls, <1>3, <2>1, HandFacts DEF OwnHead
  <2>3. End(s) /\ call[s].step \in Binding
    BY <1>3 DEF OwnHead, Binding
  <2>4. /\ Moved(s)
        /\ call'[s].step \in Silent
        /\ call'[s].step = "idle"
        /\ call'[s].head.active = None
    BY <1>k, <2>3, EndMoved
  <2>5. HeadMoved(s)
    BY <2>1, <2>2, <2>3, <2>4 DEF HeadMoved
  <2>6. grant[t].state = "ACTIVE"
    BY <1>3, <2>1 DEF OwnHead, Rest, CallRest, Taker
  <2> QED
    BY <1>0, <2>2, <2>4, <2>5, <2>6
<1>4. CASE FreeHead(s) /\ Unchanged(s)
  <2>1. head'.active = None /\ head'.id = head.id
    BY <1>calls, <1>4, HandFacts DEF FreeHead
  <2>2. Moved(s) /\ call'[s].step \in Silent
    BY <1>s, <1>k, <1>4, GoMoved, GoStep DEF FreeHead, Binding
  <2>3. HeadMoved(s)
    BY <2>1 DEF HeadMoved
  <2> QED
    BY <1>0, <2>1, <2>2, <2>3
<1> QED
  BY <1>1, <1>2, <1>3, <1>4

\* A generation that is not in the history is inserted.
LEMMA GenerationRests ==
  ASSUME Inv, Rest, TypeInv', NEW s \in Sessions, InsertGeneration(s)
  PROVE  Rest'
<1> USE DEF At
<1>calls. call[s] \in Calls /\ call \in [Sessions -> Calls]
  BY TurnsOfAll
<1>types. generations \in Seq(GenerationDocs) /\ promoted \in Seq(1..Len(generations))
  BY DEF Inv, TypeInv, TypeOK
<1>1. /\ call[s].step = "generate"
      /\ UNCHANGED <<head, grant, turn, promoted>>
      /\ \A k \in 1..Len(generations) : generations'[k] = generations[k]
  BY <1>types DEF InsertGeneration
<1>2. PICK c : c = [call[s] EXCEPT !.gen = Len(generations) + 1]
  OBVIOUS
<1>3. call' = [call EXCEPT ![s] = [c EXCEPT !.step = "advance"]]
  BY <1>2, Zenon DEF InsertGeneration
<1>4. /\ OnlyCall(s)
      /\ call'[s].step = "advance"
      /\ call'[s].turn = call[s].turn
      /\ call'[s].head = call[s].head
  <2>1. Len(generations) + 1 \in Nat
    BY <1>types
  <2>2. /\ c \in Calls
        /\ c.turn = call[s].turn
        /\ c.head = call[s].head
    BY <1>calls, <1>2, <2>1 DEF Calls
  <2> QED
    BY <1>calls, <1>3, <2>2 DEF Calls, OnlyCall
<1>5. Moved(s)
  BY <1>1, <1>4 DEF Moved, Binding
<1>6. HeadMoved(s) /\ GrantsMoved(s) /\ HistoryMoved
  BY <1>1, <1>types DEF HeadMoved, GrantsMoved, HistoryMoved
<1>7. "advance" \in Silent
  BY DEF Silent, Steps, Promoting
<1>8. LastMarked'
  <2>1. head.id # 0 => head.id \in 1..Len(generations)
    BY <1>types DEF Inv, HistoryInv, DocumentInv, LinearHistory
  <2> QED
    BY <1>1, <1>4, <2>1, MarkLeft
<1>9. HolderActive'
  BY <1>1, <1>4, HolderLeft
<1> QED
  BY <1>4, <1>5, <1>6, <1>7, <1>8, <1>9, SilentStep, RestWhole

\* The call that advances the head is going to mark the generation.
LEMMA AdvanceRests ==
  ASSUME Inv, Rest, TypeInv', NEW s \in Sessions, AdvanceHead(s)
  PROVE  Rest'
<1> USE DEF At
<1>types. /\ generations \in Seq(GenerationDocs)
          /\ promoted \in Seq(1..Len(generations))
  BY DEF Inv, TypeInv, TypeOK
<1>on. /\ call[s].step = "advance"
       /\ UNCHANGED <<grant, turn, generations>>
  BY DEF AdvanceHead
<1>1. CASE ~Unchanged(s)
  <2>1. Go(s, "conflict") /\ UNCHANGED <<head, promoted>>
    BY <1>1 DEF AdvanceHead
  <2>2. "conflict" \in Silent \cap (Steps \ {"free"}) /\ "conflict" \notin Binding
    BY DEF Silent, Steps, Promoting, Binding
  <2>3. Moved(s) /\ call'[s].step = "conflict"
    BY <1>on, <2>1, <2>2, GoMoved, GoStep
  <2> QED
    BY <1>on, <2>1, <2>2, <2>3, Reads
<1>2. CASE Unchanged(s)
  <2>1. /\ Go(s, "canonical")
        /\ head'.active = None
        /\ head'.id = call[s].gen
        /\ promoted' = Append(promoted, call[s].gen)
    BY <1>2 DEF AdvanceHead
  <2>2. /\ "canonical" \in Steps
        /\ "canonical" # "free"
        /\ "canonical" \notin Binding
    BY DEF Steps, Promoting, Binding
  <2>3. /\ Moved(s)
        /\ call'[s].step = "canonical"
        /\ call'[s].turn = call[s].turn
        /\ call'[s].gen = call[s].gen
    BY <1>on, <2>1, <2>2, GoMoved, GoStep
  <2>4. call[s].gen \in 1..Len(generations)
    BY <1>on DEF Inv, TypeInv, CallsTyped
  <2>5. HeadMoved(s) /\ GrantsMoved(s)
    BY <1>on, <2>1 DEF HeadMoved, GrantsMoved
  <2>6. HistoryMoved
    BY <1>types, <1>on, <2>1, <2>4 DEF HistoryMoved
  <2>7. Taker(s)' /\ Promoter(s)'
    <3>1. generations[call[s].gen].turn = call[s].turn
      BY <1>on DEF Inv, HistoryInv, SessionInv, PromotionOK
    <3> QED
      BY <1>on, <2>3, <3>1 DEF Taker, Promoter
  <2>8. LastMarked' /\ HolderActive'
    BY <2>1, <2>3 DEF LastMarked, HolderActive
  <2> QED
    BY <2>3, <2>5, <2>6, <2>7, <2>8, RestWhole
<1> QED
  BY <1>1, <1>2

\* The generation that is marked CANONICAL is the head's, or the head's is
\* left to the others; the one marked CONFLICTED is not.
LEMMA MarkRests ==
  ASSUME Inv, Rest, TypeInv', NEW s \in Sessions, MarkConflicted(s) \/ MarkCanonical(s)
  PROVE  Rest'
<1> USE DEF At
<1>types. /\ generations \in Seq(GenerationDocs)
          /\ promoted \in Seq(1..Len(generations))
  BY DEF Inv, TypeInv, TypeOK
<1>on. /\ call[s].step \in {"conflict", "canonical"}
       /\ UNCHANGED <<head, grant, turn, promoted>>
  BY DEF MarkConflicted, MarkCanonical, MarkGeneration
<1>k. PICK k \in 1..Len(generations) : k = call[s].gen
  BY <1>on DEF Inv, TypeInv, CallsTyped
<1>1. PICK state \in GenerationStates :
        generations' = [generations EXCEPT ![k].state = state]
  <2>1. {"CONFLICTED", "CANONICAL"} \subseteq GenerationStates
    BY DEF GenerationStates
  <2> QED
    BY <1>k, <2>1 DEF MarkConflicted, MarkCanonical, MarkGeneration
<1>2. \A i \in 1..Len(generations) :
        /\ generations'[i].turn = generations[i].turn
        /\ generations'[i].state = IF i = k THEN state ELSE generations[i].state
  BY <1>types, <1>1, MarkFacts
<1>3. HeadMoved(s) /\ GrantsMoved(s) /\ HistoryMoved
  BY <1>types, <1>on, <1>2 DEF HeadMoved, GrantsMoved, HistoryMoved
<1>4. head.id # 0 => /\ head.id \in 1..Len(generations)
                     /\ Canonical(head.id)
  BY <1>types DEF Inv, HistoryInv, DocumentInv, LinearHistory, Canonical
<1>5. Canonical(k) <=> call[s].step = "canonical"
  BY <1>on, <1>k DEF Inv, HistoryInv, SessionInv, GenerationOK, Owning
<1>6. CASE MarkConflicted(s)
  <2>1. End(s) /\ call[s].step = "conflict"
    BY <1>6 DEF MarkConflicted, MarkGeneration
  <2>2. Moved(s) /\ call'[s].step \in Silent
    BY <2>1, EndMoved
  <2>3. LastMarked'
    <3>1. head.id # 0 => head.id # k
      BY <1>4, <1>5, <2>1
    <3> QED
      BY <1>on, <1>2, <1>4, <2>1, <2>2, <3>1, MarkLeft DEF Moved
  <2>4. HolderActive'
    BY <1>on, <2>1, <2>2, HolderLeft DEF Moved
  <2> QED
    BY <1>3, <2>2, <2>3, <2>4, SilentStep, RestWhole
<1>7. CASE MarkCanonical(s)
  <2>1. /\ Go(s, "consume")
        /\ call[s].step = "canonical"
        /\ generations' = [generations EXCEPT ![k].state = "CANONICAL"]
    BY <1>k, <1>7 DEF MarkCanonical, MarkGeneration
  <2>2. /\ "consume" \in Steps
        /\ "consume" # "free"
        /\ "consume" \notin Binding
    BY DEF Steps, Promoting, Binding
  <2>3. /\ Moved(s)
        /\ call'[s].step = "consume"
        /\ call'[s].turn = call[s].turn
    BY <2>1, <2>2, GoMoved, GoStep
  <2>4. \A i \in 1..Len(generations) :
          generations'[i].state = IF i = k THEN "CANONICAL" ELSE generations[i].state
    <3>1. "CANONICAL" \in GenerationStates
      BY DEF GenerationStates
    <3> QED
      BY <1>types, <2>1, <3>1, MarkFacts
  <2>5. Taker(s)' /\ Promoter(s)'
    <3>1. PICK t : t = call[s].turn
      OBVIOUS
    <3>2. generations[k].turn = t
      BY <1>k, <2>1, <3>1 DEF Rest, CallRest, Promoter
    <3>3. HasPromoted(t)
      BY <1>5, <2>1, <3>2 DEF Canonical, HasPromoted
    <3>4. HasPromoted(t)'
      BY <1>3, <3>3, PromotedKept DEF Inv, TypeInv
    <3>5. HasPromoted(call[s].turn)'
      BY <2>3, <3>1, <3>4 DEF HasPromoted
    <3> QED
      BY <2>3, <3>5 DEF Taker, Promoter
  <2>6. LastMarked'
    <3>1. CASE head.id = 0
      BY <1>on, <3>1 DEF LastMarked
    <3>2. CASE head.id # 0 /\ head.id = k
      BY <1>on, <1>4, <2>4, <3>2 DEF LastMarked
    <3>3. CASE head.id # 0 /\ head.id # k
      <4>1. generations'[head.id].state = generations[head.id].state
        BY <1>4, <2>4, <3>3
      <4>2. CASE generations[head.id].state = "CANONICAL"
        BY <1>on, <4>1, <4>2 DEF LastMarked
      <4>3. CASE Dead
        BY <2>1, <2>3, <4>3 DEF LastMarked, Dead, Moved, OnlyCall
      <4>4. CASE \E r \in Sessions : call[r].step = "canonical" /\ call[r].gen = head.id
        BY <1>on, <1>k, <2>3, <3>3, <4>4 DEF LastMarked, Moved, OnlyCall
      <4> QED
        BY <3>3, <4>2, <4>3, <4>4 DEF Rest, LastMarked
    <3> QED
      BY <3>1, <3>2, <3>3
  <2>7. HolderActive'
    BY <1>on, <2>1, <2>3, HolderLeft DEF Moved
  <2> QED
    BY <1>3, <2>3, <2>5, <2>6, <2>7, RestWhole
<1> QED
  BY <1>6, <1>7

\* A client that dies explains whatever it leaves behind.
LEMMA DeathRests ==
  ASSUME Inv, Rest, TypeInv', NEW s \in Sessions, Die(s)
  PROVE  Rest'
<1>1. /\ OnlyCall(s)
      /\ call'[s].step = "dead"
      /\ call'[s].turn = None
      /\ call'[s].head.active = None
  BY TurnsOfAll DEF Die, NoCall, FirstHead, OnlyCall
<1>2. Moved(s)
  BY <1>1 DEF Moved, Die, Binding
<1>3. HeadMoved(s) /\ GrantsMoved(s) /\ HistoryMoved
  BY DEF HeadMoved, GrantsMoved, HistoryMoved, Die, documents, Inv, TypeInv, TypeOK
<1>4. Taker(s)' /\ Promoter(s)'
  BY <1>1 DEF Taker, Promoter
<1>5. LastMarked' /\ HolderActive'
  BY <1>1 DEF LastMarked, HolderActive, Dead
<1> QED
  BY <1>2, <1>3, <1>4, <1>5, RestWhole

\* Steps that are no call's.
LEMMA NobodyRests ==
  ASSUME Inv, Rest, UNCHANGED <<head, generations, promoted, call>>,
         \A t \in Turns : grant'[t].state = grant[t].state
  PROVE  Rest'
<1>1. Apart'
  BY DEF Rest, Apart
<1>2. ASSUME NEW r \in Sessions PROVE CallRest(r)'
  <2>1. CallRest(r)
    BY DEF Rest
  <2>2. Once(r)' /\ Releaser(r)'
    BY <2>1 DEF CallRest, Once, Releaser
  <2>3. Taker(r)'
    BY <2>1, TurnsOfAll DEF CallRest, Taker
  <2>4. Promoter(r)'
    BY <2>1 DEF CallRest, Promoter, HasPromoted
  <2> QED
    BY <2>2, <2>3, <2>4 DEF CallRest
<1>3. LastMarked'
  BY DEF Rest, LastMarked, Dead
<1>4. HolderActive'
  BY TurnsOfAll DEF Rest, HolderActive, Dead
<1> QED
  BY <1>1, <1>2, <1>3, <1>4 DEF Rest

LEMMA RestInit == Init => Rest
<1> SUFFICES ASSUME Init PROVE Rest
  OBVIOUS
<1>1. \A s \in Sessions : call[s].step = "idle"
  BY DEF Init, NoCall
<1>2. head.id = 0 /\ head.active = None
  BY DEF Init, FirstHead
<1>3. Apart
  BY <1>1 DEF Apart, Binding
<1>4. ASSUME NEW s \in Sessions PROVE CallRest(s)
  BY <1>1, <1>2 DEF CallRest, Once, Releaser, Taker, Promoter
<1>5. LastMarked /\ HolderActive
  BY <1>2 DEF LastMarked, HolderActive
<1> QED
  BY <1>3, <1>4, <1>5 DEF Rest

LEMMA RestStep == Inv /\ Rest /\ [Next]_vars => Rest'
<1> SUFFICES ASSUME Inv, Rest, [Next]_vars PROVE Rest'
  OBVIOUS
<1>t. TypeInv'
  BY TypeStep DEF Inv
<1>1. ASSUME NEW s \in Sessions, Begin(s) PROVE Rest'
  BY <1>t, <1>1, BeginRests
<1>2. ASSUME NEW s \in Sessions, Step(s) PROVE Rest'
  <2>1. \/ ReadHead(s) \/ ReadOwner(s) \/ Recheck(s) \/ DenyTurn(s)
        \/ CheckHead(s) \/ CompleteTurn(s) \/ RetireTurn(s)
        => Rest'
    BY <1>t, ReadSteps
  <2>2. ExpireGrant(s) \/ CancelGrant(s) \/ ConsumeGrant(s) \/ FreeGrant(s) => Rest'
    BY <1>t, GrantRests
  <2>3. InsertGrant(s) => Rest'
    BY <1>t, InsertRests
  <2>4. ClearHead(s) \/ OwnHead(s) \/ FreeHead(s) => Rest'
    BY <1>t, HandRests
  <2>5. InsertGeneration(s) => Rest'
    BY <1>t, GenerationRests
  <2>6. AdvanceHead(s) => Rest'
    BY <1>t, AdvanceRests
  <2>7. MarkConflicted(s) \/ MarkCanonical(s) => Rest'
    BY <1>t, MarkRests
  <2> QED
    BY <1>2, <2>1, <2>2, <2>3, <2>4, <2>5, <2>6, <2>7 DEF Step
<1>3. ASSUME NEW s \in Sessions, Die(s) PROVE Rest'
  BY <1>t, <1>3, DeathRests
<1>4. ASSUME NEW t \in Turns, TimePasses(t) PROVE Rest'
  <2>1. grant[t] \in Grants /\ grant \in [Turns -> Grants]
    BY DEF Inv, TypeInv, TypeOK
  <2>2. PICK g : g = [grant[t] EXCEPT !.late = TRUE]
    OBVIOUS
  <2>3. g.state = grant[t].state
    BY <2>1, <2>2 DEF Grants
  <2>4. grant' = [grant EXCEPT ![t] = g]
    BY <1>4, <2>2, Zenon DEF TimePasses
  <2>5. \A u \in Turns : grant'[u].state = grant[u].state
    BY <2>1, <2>3, <2>4
  <2> QED
    BY <1>4, <2>5, NobodyRests DEF TimePasses
<1>5. CASE UNCHANGED vars
  BY <1>5, NobodyRests DEF vars
<1> QED
  BY <1>1, <1>2, <1>3, <1>4, <1>5 DEF Next

\* When no client has died and all calls are over, the generation of the head
\* is marked and a grant that was released or has expired does not keep the
\* head from the next turn (promote_contract_generation,
\* release_contract_generation_grant, _acquire_generation_grant).
THEOREM ContractSettles == Spec => []SettledAtRest
<1>1. Rest => SettledAtRest
  BY DEF Rest, LastMarked, HolderActive, Dead, SettledAtRest, Quiet, At
<1>2. Spec => []Rest
  BY RestInit, RestStep, HistoryInvariant, PTL DEF Spec
<1> QED
  BY <1>1, <1>2, PTL

==============================================================================
