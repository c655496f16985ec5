------------------------ MODULE MaterializedViewsProofs ------------------------
(***************************************************************************)
(* Proofs about MaterializedViews, for any number of sessions, Slices,     *)
(* effects, plans and contracts, any bound on calls, and any set of        *)
(* sessions that die.                                                      *)
(*                                                                         *)
(* A call is what it has still to do.  The steps of every script follow    *)
(* one another in one order, so that the next step tells what the call has *)
(* read and written; a call that runs alone finds it unchanged.            *)
(***************************************************************************)
EXTENDS MaterializedViews, TLAPS

-----------------------------------------------------------------------------
(* Scripts. *)

\* Which step comes next in a script, and with which a script may end.
Follows(a, b) ==
  \/ a = "materialise" /\ b = "fetchList"
  \/ a = "fetchList" /\ b = "storeList"
  \/ a = "storeList" /\ b = "summarise"
  \/ a = "summarise" /\ b = "fetchFamily"
  \/ a = "fetchFamily" /\ b = "storeFamily"
  \/ a = "storeFamily" /\ b = "collect"
  \/ a = "fetchView" /\ b = "storeView"
  \/ a = "append" /\ b = "build"
  \/ a = "build" /\ b = "find"
  \/ a = "close" /\ b = "summarise"
  \/ a \in {"collect", "insertView", "storeView"} /\ b \in {"append", "build"}
  \/ a \in {"find", "insertWork", "saveWork"} /\ b \in {"build", "summarise", "close"}

Ends == {"collect", "insertView", "storeView", "find", "insertWork", "saveWork"}

Linked(q) == \A i \in 1..(Len(q) - 1) : Follows(q[i], q[i + 1])

Proper(q) == Linked(q) /\ (q # <<>> => q[Len(q)] \in Ends)

Owes(q, step) == \E i \in 1..Len(q) : q[i] = step

LEMMA ConcatFacts ==
  ASSUME NEW p \in Seq(Steps), NEW q \in Seq(Steps), p # <<>>, Linked(p), Linked(q),
         q # <<>> => Follows(p[Len(p)], q[1])
  PROVE  /\ p \o q \in Seq(Steps) /\ p \o q # <<>>
         /\ Linked(p \o q)
         /\ (p \o q)[1] = p[1]
         /\ (p \o q)[Len(p \o q)] = IF q = <<>> THEN p[Len(p)] ELSE q[Len(q)]
         /\ \A step : Owes(p \o q, step) <=> Owes(p, step) \/ Owes(q, step)
<1>1. /\ p \o q \in Seq(Steps)
      /\ Len(p \o q) = Len(p) + Len(q)
      /\ \A i \in 1..(Len(p) + Len(q)) : (p \o q)[i] = IF i <= Len(p) THEN p[i] ELSE q[i - Len(p)]
  OBVIOUS
<1>2. Len(p) \in Nat /\ Len(q) \in Nat /\ Len(p) > 0 /\ (q # <<>> => Len(q) > 0) /\ (q = <<>> => Len(q) = 0)
  OBVIOUS
<1>3. p \o q # <<>> /\ (p \o q)[1] = p[1]
  BY <1>1, <1>2
<1>4. (p \o q)[Len(p \o q)] = IF q = <<>> THEN p[Len(p)] ELSE q[Len(q)]
  BY <1>1, <1>2
<1>5. ASSUME NEW i \in 1..(Len(p \o q) - 1)
      PROVE  Follows((p \o q)[i], (p \o q)[i + 1])
  <2>1. i \in 1..(Len(p) + Len(q)) /\ i + 1 \in 1..(Len(p) + Len(q))
    BY <1>1, <1>2
  <2>2. CASE i < Len(p)
    <3>1. (p \o q)[i] = p[i] /\ (p \o q)[i + 1] = p[i + 1] /\ i \in 1..(Len(p) - 1)
      BY <1>1, <1>2, <2>1, <2>2
    <3> QED
      BY <3>1 DEF Linked
  <2>3. CASE i = Len(p)
    <3>1. (p \o q)[i] = p[Len(p)] /\ (p \o q)[i + 1] = q[1] /\ q # <<>>
      BY <1>1, <1>2, <2>1, <2>3
    <3> QED
      BY <3>1
  <2>4. CASE i > Len(p)
    <3>a. i - Len(p) \in 1..(Len(q) - 1)
      BY <1>1, <1>2, <2>1, <2>4
    <3>1. PICK j \in 1..(Len(q) - 1) : j = i - Len(p)
      BY <3>a
    <3>2. (p \o q)[i] = q[j] /\ (p \o q)[i + 1] = q[j + 1]
      BY <1>1, <1>2, <2>1, <2>4, <3>1
    <3> QED
      BY <3>2 DEF Linked
  <2> QED
    BY <1>2, <2>1, <2>2, <2>3, <2>4
<1>6. ASSUME NEW step, Owes(p \o q, step) PROVE Owes(p, step) \/ Owes(q, step)
  <2>1. PICK i \in 1..(Len(p) + Len(q)) : (p \o q)[i] = step
    BY <1>1, <1>6 DEF Owes
  <2>2. CASE i <= Len(p)
    BY <1>1, <1>2, <2>1, <2>2 DEF Owes
  <2>3. CASE i > Len(p)
    <3>1. PICK j \in 1..Len(q) : j = i - Len(p)
      BY <1>2, <2>1, <2>3
    <3> QED
      BY <1>1, <1>2, <2>1, <2>3, <3>1 DEF Owes
  <2> QED
    BY <1>2, <2>1, <2>2, <2>3
<1>7. ASSUME NEW step, Owes(p, step) PROVE Owes(p \o q, step)
  <2>1. PICK i \in 1..Len(p) : p[i] = step
    BY <1>7 DEF Owes
  <2>2. i \in 1..(Len(p) + Len(q)) /\ (p \o q)[i] = step
    BY <1>1, <1>2, <2>1
  <2> QED
    BY <1>1, <2>2 DEF Owes
<1>8. ASSUME NEW step, Owes(q, step) PROVE Owes(p \o q, step)
  <2>1. PICK j \in 1..Len(q) : q[j] = step
    BY <1>8 DEF Owes
  <2>2. PICK i \in 1..(Len(p) + Len(q)) : i = Len(p) + j
    BY <1>2, <2>1
  <2>3. (p \o q)[i] = step
    BY <1>1, <1>2, <2>1, <2>2
  <2> QED
    BY <1>1, <2>2, <2>3 DEF Owes
<1> QED
  BY <1>1, <1>3, <1>4, <1>5, <1>6, <1>7, <1>8 DEF Linked

\* What is left of a script when its first step is done.
LEMMA TailFacts ==
  ASSUME NEW q \in Seq(Steps), Proper(q), q # <<>>
  PROVE  /\ Head(q) = q[1]
         /\ Tail(q) \in Seq(Steps) /\ Proper(Tail(q))
         /\ Tail(q) = <<>> => Head(q) \in Ends
         /\ Tail(q) # <<>> => Follows(Head(q), Head(Tail(q))) /\ Head(Tail(q)) = Tail(q)[1]
         /\ \A step : Owes(q, step) => step = Head(q) \/ Owes(Tail(q), step)
         /\ \A step : Owes(Tail(q), step) => Owes(q, step)
<1>1. /\ Tail(q) \in Seq(Steps) /\ Len(q) \in Nat /\ Len(q) > 0 /\ Len(Tail(q)) = Len(q) - 1
      /\ \A i \in 1..(Len(q) - 1) : Tail(q)[i] = q[i + 1]
      /\ Head(q) = q[1]
  OBVIOUS
<1>2. Linked(Tail(q))
  <2> SUFFICES ASSUME NEW i \in 1..(Len(Tail(q)) - 1) PROVE Follows(Tail(q)[i], Tail(q)[i + 1])
    BY DEF Linked
  <2>1. /\ i \in 1..(Len(q) - 1) /\ i + 1 \in 1..(Len(q) - 1)
    BY <1>1
  <2>2. Tail(q)[i] = q[i + 1] /\ Tail(q)[i + 1] = q[i + 1 + 1]
    BY <1>1, <2>1
  <2> QED
    BY <2>1, <2>2 DEF Proper, Linked
<1>3. Tail(q) = <<>> => Len(q) = 1
  BY <1>1
<1>4. Tail(q) # <<>> => Len(q) > 1 /\ Tail(q)[Len(Tail(q))] = q[Len(q)] /\ Head(Tail(q)) = Tail(q)[1] /\ Tail(q)[1] = q[2]
  BY <1>1
<1>5. Tail(q) # <<>> => Follows(q[1], q[2])
  BY <1>1, <1>4 DEF Proper, Linked
<1>6. ASSUME NEW step, Owes(q, step) PROVE step = Head(q) \/ Owes(Tail(q), step)
  <2>1. PICK i \in 1..Len(q) : q[i] = step
    BY <1>6 DEF Owes
  <2>2. CASE i = 1
    BY <1>1, <2>1, <2>2
  <2>3. CASE i # 1
    <3>1. PICK j \in 1..(Len(q) - 1) : i = j + 1
      BY <1>1, <2>1, <2>3
    <3> QED
      BY <1>1, <2>1, <3>1 DEF Owes
  <2> QED
    BY <2>2, <2>3
<1>7. ASSUME NEW step, Owes(Tail(q), step) PROVE Owes(q, step)
  <2>1. PICK i \in 1..(Len(q) - 1) : q[i + 1] = step
    BY <1>1, <1>7 DEF Owes
  <2> QED
    BY <1>1, <2>1 DEF Owes
<1> QED
  BY <1>1, <1>2, <1>3, <1>4, <1>5, <1>6, <1>7 DEF Proper

\* A script that is put before another one, which it may precede.
LEMMA PrefixFacts ==
  ASSUME NEW p \in Seq(Steps), NEW q \in Seq(Steps), p # <<>>, Linked(p), Proper(q),
         q = <<>> => p[Len(p)] \in Ends,
         q # <<>> => Follows(p[Len(p)], q[1])
  PROVE  /\ p \o q \in Seq(Steps) /\ p \o q # <<>> /\ Proper(p \o q)
         /\ Head(p \o q) = p[1]
         /\ \A step : Owes(p \o q, step) <=> Owes(p, step) \/ Owes(q, step)
<1>1. /\ p \o q \in Seq(Steps) /\ p \o q # <<>> /\ Linked(p \o q)
      /\ (p \o q)[1] = p[1]
      /\ (p \o q)[Len(p \o q)] = IF q = <<>> THEN p[Len(p)] ELSE q[Len(q)]
      /\ \A step : Owes(p \o q, step) <=> Owes(p, step) \/ Owes(q, step)
  BY ConcatFacts DEF Proper
<1>2. Head(p \o q) = (p \o q)[1]
  BY <1>1
<1> QED
  BY <1>1, <1>2 DEF Proper

LEMMA OneStep ==
  ASSUME NEW a \in Steps
  PROVE  /\ <<a>> \in Seq(Steps) /\ <<a>> # <<>> /\ Linked(<<a>>) /\ Len(<<a>>) = 1 /\ <<a>>[1] = a
         /\ \A step : Owes(<<a>>, step) <=> step = a
BY DEF Linked, Owes

\* The first steps of an operation on a list, or of a closure, lead to a projection.
LEMMA LeadsToSummary ==
  ASSUME NEW q \in Seq(Steps), Proper(q), q # <<>>,
         Head(q) \in {"materialise", "fetchList", "storeList", "summarise", "close"}
  PROVE  Owes(q, "summarise")
<1>1. Head(q) = q[1] /\ Len(q) \in Nat /\ Len(q) >= 1
  OBVIOUS
<1>2. \A i \in 1..Len(q) : i < Len(q) \/ q[i] \in Ends
  BY <1>1 DEF Proper
<1>3. \A i \in 1..Len(q) : i < Len(q) => Follows(q[i], q[i + 1]) /\ i + 1 \in 1..Len(q)
  BY <1>1 DEF Proper, Linked
<1>4. \A i \in 1..Len(q) : q[i] \in {"storeList", "close"} => Owes(q, "summarise")
  BY <1>2, <1>3 DEF Follows, Ends, Owes
<1>5. \A i \in 1..Len(q) : q[i] = "fetchList" => Owes(q, "summarise")
  BY <1>2, <1>3, <1>4 DEF Follows, Ends
<1>6. \A i \in 1..Len(q) : q[i] = "materialise" => Owes(q, "summarise")
  BY <1>2, <1>3, <1>5 DEF Follows, Ends
<1>7. q[1] = "summarise" => Owes(q, "summarise")
  BY <1>1 DEF Owes
<1> QED
  BY <1>1, <1>4, <1>5, <1>6, <1>7

\* A part of a script: its first and its last step, and all of them.
Part(q, a, z, all) ==
  /\ q \in Seq(Steps) /\ q # <<>> /\ Linked(q) /\ q[1] = a /\ q[Len(q)] = z
  /\ \A step : Owes(q, step) <=> step \in all

LEMMA JoinParts ==
  ASSUME NEW p, NEW a, NEW y, NEW P, Part(p, a, y, P),
         NEW q, NEW b, NEW z, NEW Q, Part(q, b, z, Q), Follows(y, b)
  PROVE  Part(p \o q, a, z, P \cup Q)
BY ConcatFacts DEF Part

LEMMA WholePart ==
  ASSUME NEW q, NEW a, NEW z, NEW P, Part(q, a, z, P), z \in Ends
  PROVE  q \in Seq(Steps) /\ Proper(q) /\ q # <<>> /\ Head(q) = a
BY DEF Part, Proper

LEMMA Parts ==
  /\ Part(<<"materialise">>, "materialise", "materialise", {"materialise"})
  /\ Part(<<"close">>, "close", "close", {"close"})
  /\ Part(Listing, "fetchList", "storeList", {"fetchList", "storeList"})
  /\ Part(Project, "summarise", "collect", {"summarise", "fetchFamily", "storeFamily", "collect"})
  /\ Part(Refresh, "build", "find", {"build", "find"})
  /\ Part(AppendEvent, "append", "find", {"append"} \cup {"build", "find"})
<1>1. "materialise" \in Steps /\ "close" \in Steps /\ "append" \in Steps
  BY DEF Steps
<1>2. \A a \in {"materialise", "close", "append"} : Part(<<a>>, a, a, {a})
  BY <1>1, OneStep DEF Part
<1>3. Part(Listing, "fetchList", "storeList", {"fetchList", "storeList"})
  <2>1. Listing \in Seq(Steps) /\ Len(Listing) = 2 /\ Listing[1] = "fetchList" /\ Listing[2] = "storeList"
    BY DEF Listing, Steps
  <2>2. \A i \in 1..2 : i = 1 \/ i = 2
    OBVIOUS
  <2> QED
    BY <2>1, <2>2 DEF Part, Linked, Owes, Follows
<1>4. Part(Project, "summarise", "collect", {"summarise", "fetchFamily", "storeFamily", "collect"})
  <2>1. /\ Project \in Seq(Steps) /\ Len(Project) = 4 /\ Project[1] = "summarise" /\ Project[2] = "fetchFamily"
        /\ Project[3] = "storeFamily" /\ Project[4] = "collect"
    BY DEF Project, Steps
  <2>2. \A i \in 1..4 : i = 1 \/ i = 2 \/ i = 3 \/ i = 4
    OBVIOUS
  <2> QED
    BY <2>1, <2>2 DEF Part, Linked, Owes, Follows
<1>5. Part(Refresh, "build", "find", {"build", "find"})
  <2>1. Refresh \in Seq(Steps) /\ Len(Refresh) = 2 /\ Refresh[1] = "build" /\ Refresh[2] = "find"
    BY DEF Refresh, Steps
  <2>2. \A i \in 1..2 : i = 1 \/ i = 2
    OBVIOUS
  <2> QED
    BY <2>1, <2>2 DEF Part, Linked, Owes, Follows
<1>6. Part(AppendEvent, "append", "find", {"append"} \cup {"build", "find"})
  <2>1. Follows("append", "build")
    BY DEF Follows
  <2>2. Part(<<"append">> \o Refresh, "append", "find", {"append"} \cup {"build", "find"})
    BY <1>2, <1>5, <2>1, JoinParts
  <2> QED
    BY <2>2 DEF AppendEvent
<1> QED
  BY <1>2, <1>3, <1>4, <1>5, <1>6

\* What a script of an operation is, before its first step.
Scripted(name, q) ==
  /\ q \in Seq(Steps) /\ Proper(q)
  /\ name \in Projecting => Owes(q, "summarise")
  /\ name \in Refreshing => Owes(q, "build")
  /\ Owes(q, "materialise") => name = "submit_plan"
  /\ Owes(q, "close") => name = "verify_slice"
  /\ q # <<>> => Head(q) \in {"materialise", "fetchList", "summarise", "append", "build"}

LEMMA MakesScript ==
  ASSUME NEW name, NEW q, NEW a, NEW z, NEW all, Part(q, a, z, all), z \in Ends,
         a \in {"materialise", "fetchList", "summarise", "append", "build"},
         name \in Projecting => "summarise" \in all,
         name \in Refreshing => "build" \in all,
         "materialise" \in all => name = "submit_plan",
         "close" \in all => name = "verify_slice"
  PROVE  Scripted(name, q)
<1>1. q \in Seq(Steps) /\ Proper(q) /\ q # <<>> /\ Head(q) = a
  BY WholePart
<1>2. \A step : Owes(q, step) <=> step \in all
  BY DEF Part
<1> QED
  BY <1>1, <1>2 DEF Scripted

LEMMA Scripts ==
  /\ Scripted("submit_plan", SubmitPlan) /\ Scripted("close_plan", ClosePlan)
  /\ Scripted("register_contract", RegisterContract) /\ Scripted("start_slice", StartSlice)
  /\ Scripted("claim_done", ClaimDone) /\ Scripted("validate_slice", ValidateSlice)
  /\ Scripted("verify_slice", VerifySlice) /\ Scripted("close_verified_slice", CloseVerified)
  /\ Scripted("accept_slice", AcceptSlice) /\ Scripted("checkpoint_work", Checkpoint)
  /\ \A name \in {"record_intent", "mark_dispatched", "reconcile"} : Scripted(name, EffectStep)
<1>0. /\ Follows("materialise", "fetchList") /\ Follows("storeList", "summarise") /\ Follows("collect", "build")
      /\ Follows("collect", "append") /\ Follows("find", "summarise") /\ Follows("find", "close")
      /\ Follows("close", "summarise") /\ Follows("find", "build")
      /\ "find" \in Ends /\ "collect" \in Ends
  BY DEF Follows, Ends
<1> DEFINE L == {"fetchList", "storeList"}
           P == {"summarise", "fetchFamily", "storeFamily", "collect"}
           R == {"build", "find"}
           A == {"append"} \cup {"build", "find"}
<1>1. Scripted("submit_plan", SubmitPlan)
  <2>1. Part(<<"materialise">> \o Listing, "materialise", "storeList", {"materialise"} \cup L)
    BY <1>0, Parts, JoinParts
  <2>2. Part(<<"materialise">> \o Listing \o Project, "materialise", "collect", {"materialise"} \cup L \cup P)
    BY <1>0, <2>1, Parts, JoinParts
  <2>3. Part(SubmitPlan, "materialise", "find", {"materialise"} \cup L \cup P \cup R)
    BY <1>0, <2>2, Parts, JoinParts DEF SubmitPlan
  <2> QED
    BY <1>0, <2>3, MakesScript
<1>2. Scripted("close_plan", ClosePlan)
  BY DEF ClosePlan, Scripted, Proper, Linked, Owes, Projecting, Refreshing
<1>3. Scripted("register_contract", RegisterContract)
  <2>1. Part(Listing \o Project, "fetchList", "collect", L \cup P)
    BY <1>0, Parts, JoinParts
  <2>2. Part(RegisterContract, "fetchList", "find", L \cup P \cup R)
    BY <1>0, <2>1, Parts, JoinParts DEF RegisterContract
  <2> QED
    BY <1>0, <2>2, MakesScript
<1>4. Scripted("start_slice", StartSlice)
  BY <1>0, Parts, MakesScript DEF StartSlice, Refreshing
<1>5. Part(Project \o AppendEvent, "summarise", "find", P \cup A)
  BY <1>0, Parts, JoinParts
<1>6. Part(AppendEvent \o Project, "append", "collect", A \cup P)
  BY <1>0, Parts, JoinParts
<1>7. \A name \in {"claim_done", "accept_slice"} : Scripted(name, Project \o AppendEvent)
  BY <1>0, <1>5, MakesScript
<1>8. \A name \in {"validate_slice", "close_verified_slice"} : Scripted(name, AppendEvent \o Project)
  BY <1>0, <1>6, MakesScript
<1>9. Scripted("verify_slice", VerifySlice)
  <2>1. Part(Project \o AppendEvent \o <<"close">>, "summarise", "close", P \cup A \cup {"close"})
    BY <1>0, <1>5, Parts, JoinParts
  <2>2. Part(Project \o AppendEvent \o <<"close">> \o Project, "summarise", "collect", P \cup A \cup {"close"} \cup P)
    BY <1>0, <2>1, Parts, JoinParts
  <2>3. Part(VerifySlice, "summarise", "find", P \cup A \cup {"close"} \cup P \cup R)
    BY <1>0, <2>2, Parts, JoinParts DEF VerifySlice
  <2> QED
    BY <1>0, <2>3, MakesScript
<1>10. Scripted("checkpoint_work", Checkpoint)
  BY <1>0, Parts, MakesScript DEF Checkpoint, Projecting
<1>11. ASSUME NEW name \in {"record_intent", "mark_dispatched", "reconcile"} PROVE Scripted(name, EffectStep)
  <2>1. Part(EffectStep, "append", "find", A \cup R)
    BY <1>0, Parts, JoinParts DEF EffectStep
  <2> QED
    BY <1>0, <2>1, MakesScript DEF Projecting
<1> QED
  BY <1>1, <1>2, <1>3, <1>4, <1>7, <1>8, <1>9, <1>10, <1>11 DEF ClaimDone, AcceptSlice, ValidateSlice, CloseVerified

-----------------------------------------------------------------------------
(* The invariant. *)

Projection == {"fetchFamily", "storeFamily", "collect", "insertView", "fetchView", "storeView"}
Saving == {"find", "insertWork", "saveWork"}

\* What a call has read when it comes to the step that writes it.
Held(s) ==
  /\ NextStep(s) \in Projection => call[s].sum \in Summaries
  /\ NextStep(s) = "storeList" => call[s].list \in Lists
  /\ NextStep(s) \in Saving => call[s].work \in WorkViews
  /\ Owes(call[s].todo, "materialise") => call[s].subject \in Plans
  /\ Owes(call[s].todo, "close") => call[s].subject \in Slices /\ slice[call[s].subject] # None
  /\ call[s].name = "register_contract" => call[s].subject \in Contracts

\* A list that can still be written holds all that is in the one it replaces.
ListOK(s) ==
  NextStep(s) = "storeList" /\ "family" \in fresh[s] =>
    IF call[s].name = "register_contract" THEN family.contract_ids \subseteq call[s].list.contracts
    ELSE family.slice_ids \subseteq call[s].list.slices

FamilyCurrent == family.execution = Execution /\ family.assurance = Assurance

\* What readers of the family are served is current.
Served ==
  /\ familyView # None
  /\ familyView.summary = Summary
  /\ familyView.effects = OpenEffects
  /\ FamilyCurrent

\* How far a projection that runs alone has come.
ProjectOK(s) ==
  /\ NextStep(s) \in Projection => call[s].sum = Summary
  /\ NextStep(s) = "storeFamily" => "family" \in fresh[s]
  /\ NextStep(s) \in {"collect", "insertView", "fetchView", "storeView"} => FamilyCurrent
  /\ NextStep(s) \in {"insertView", "fetchView", "storeView"} => call[s].open = OpenEffects
  /\ NextStep(s) = "insertView" => familyView = None
  /\ NextStep(s) = "storeView" => "familyView" \in fresh[s]
  /\ NextStep(s) \notin Projection /\ call[s].name \in Projecting =>
       Owes(call[s].todo, "summarise") \/ Served

\* How far a refresh that runs alone has come.
RefreshOK(s) ==
  /\ NextStep(s) \in Saving => call[s].work = WorkNow
  /\ NextStep(s) = "insertWork" => workView = None
  /\ NextStep(s) = "saveWork" => "workView" \in fresh[s]
  /\ NextStep(s) \notin Saving /\ call[s].name \in Refreshing =>
       Owes(call[s].todo, "build") \/ workView = WorkNow

OthersIdle(s) == \A t \in Sessions : t # s => Idle(t)

SessionOK(s) ==
  /\ Proper(call[s].todo)
  /\ Idle(s) => call[s].todo = <<>> /\ ~call[s].alone
  /\ Held(s)
  /\ ListOK(s)
  /\ call[s].alone => OthersIdle(s) /\ ProjectOK(s) /\ RefreshOK(s)

\* Nobody calls while the last answer stands.
AnswerOK == answered \in OperationNames => \A s \in Sessions : Idle(s)

Inv ==
  /\ TypeOK
  /\ \A s \in Sessions : SessionOK(s)
  /\ AnswerOK
  /\ LoneCallProjects
  /\ LoneCallRefreshes

-----------------------------------------------------------------------------
(* Types. *)

LEMMA NoneFacts ==
  /\ None \notin OperationNames /\ None \notin Steps
  /\ Projecting \subseteq OperationNames /\ Refreshing \subseteq OperationNames
  /\ "FAILED" \notin OperationNames
BY NoneAssumption DEF Projecting, Refreshing, OperationNames

LEMMA SummaryType ==
  ASSUME TypeOK
  PROVE  /\ Summary \in Summaries /\ WorkNow \in WorkViews /\ OpenEffects \in SUBSET Effects
         /\ Summary.execution = Execution /\ Summary.assurance = Assurance
         /\ Summary.warnings = family.warnings
<1>1. Execution \in {"PLANNED", "ACTIVE", "DONE_CLAIMED"}
  BY DEF Execution
<1>2. Assurance \in {"UNVERIFIED", "PARTIAL", "VERIFIED", "ACCEPTED"}
  BY DEF Assurance
<1>3. PendingClosure \in SUBSET Slices /\ PendingValidation \in SUBSET Slices
  BY DEF PendingClosure, PendingValidation, Present
<1>4. family.warnings \in SUBSET Warnings
  BY DEF TypeOK, Families
<1>5. OpenEffects \in SUBSET Effects /\ OpenPlans \in SUBSET Plans /\ events \in Nat
  BY DEF OpenEffects, OpenPlans, TypeOK
<1>6. Summary \in Summaries /\ Summary.execution = Execution /\ Summary.assurance = Assurance
      /\ Summary.warnings = family.warnings
  BY <1>1, <1>2, <1>3, <1>4 DEF Summary, Summaries
<1>7. WorkNow \in WorkViews
  BY <1>5 DEF WorkNow, WorkViews
<1> QED
  BY <1>5, <1>6, <1>7

LEMMA SummarySame ==
  /\ UNCHANGED slice => UNCHANGED <<Execution, Assurance, PendingClosure, PendingValidation>>
  /\ UNCHANGED slice /\ family'.warnings = family.warnings => UNCHANGED Summary
  /\ UNCHANGED effect => UNCHANGED OpenEffects
  /\ UNCHANGED <<effect, plan, events>> => UNCHANGED WorkNow
<1>1. UNCHANGED slice => UNCHANGED <<Execution, Assurance, PendingClosure, PendingValidation>>
  BY DEF Execution, Assurance, PendingClosure, PendingValidation, Present, Verified
<1>2. UNCHANGED effect => UNCHANGED OpenEffects
  BY DEF OpenEffects
<1>3. UNCHANGED plan => UNCHANGED OpenPlans
  BY DEF OpenPlans
<1>4. UNCHANGED slice /\ family'.warnings = family.warnings => UNCHANGED Summary
  BY <1>1 DEF Summary
<1>5. UNCHANGED <<effect, plan, events>> => UNCHANGED WorkNow
  BY <1>2, <1>3 DEF WorkNow
<1> QED
  BY <1>1, <1>2, <1>4, <1>5

LEMMA NoCallType ==
  /\ NoCall \in Calls /\ NoCall.name = None /\ NoCall.todo = <<>> /\ NoCall.alone = FALSE
BY DEF NoCall, Calls

\* A call that goes on is the same call with another rest.
SameCall(d, c) ==
  /\ d.name = c.name /\ d.subject = c.subject /\ d.adds = c.adds /\ d.tries = c.tries
  /\ d.list = c.list /\ d.sum = c.sum /\ d.open = c.open /\ d.work = c.work /\ d.alone = c.alone

LEMMA ThenFacts ==
  ASSUME call \in [Sessions -> Calls], NEW s \in Sessions, NEW steps \in Seq(Steps), call[s].todo # <<>>
  PROVE  /\ Then(s, steps) \in Calls
         /\ SameCall(Then(s, steps), call[s])
         /\ Then(s, steps).todo = steps \o Tail(call[s].todo)
<1>1. PICK c \in Calls : c = call[s]
  OBVIOUS
<1>2. PICK q \in Seq(Steps) : q = steps \o Tail(c.todo)
  <2>1. c.todo \in Seq(Steps) /\ c.todo # <<>>
    BY <1>1 DEF Calls
  <2>2. steps \o Tail(c.todo) \in Seq(Steps)
    BY <2>1
  <2> QED
    BY <2>2
<1>3. PICK d : d = [c EXCEPT !.todo = q]
  OBVIOUS
<1>4. d \in Calls /\ d.todo = q /\ SameCall(d, c)
  BY <1>3 DEF Calls, SameCall
<1>5. Then(s, steps) = d
  BY <1>1, <1>2, <1>3 DEF Then
<1> QED
  BY <1>1, <1>2, <1>3, <1>4, <1>5

\* A step of a call.
LEMMA DoFacts ==
  ASSUME Inv, NEW s \in Sessions, NEW step \in Steps, NEW d \in Calls, Do(s, step, d)
  PROVE  /\ ~Idle(s) /\ answered \notin OperationNames
         /\ call[s] \in Calls /\ call[s].todo \in Seq(Steps) /\ call[s].todo # <<>> /\ Head(call[s].todo) = step
         /\ NextStep(s) = step /\ Proper(call[s].todo)
         /\ call' \in [Sessions -> Calls] /\ call'[s] = d
         /\ \A t \in Sessions : t # s => call'[t] = call[t]
         /\ UNCHANGED <<calls, answered>>
         /\ NextStep(s)' = IF d.todo = <<>> THEN None ELSE Head(d.todo)
<1>1. call \in [Sessions -> Calls] /\ SessionOK(s)
  BY DEF Inv, TypeOK
<1>2. call[s] \in Calls /\ call[s].todo \in Seq(Steps)
  BY <1>1 DEF Calls
<1>3. NextStep(s) = step /\ step # None
  BY NoneFacts DEF Do
<1>4. call[s].todo # <<>> /\ Head(call[s].todo) = step
  BY <1>3 DEF NextStep
<1>5. ~Idle(s) /\ Proper(call[s].todo)
  BY <1>1, <1>4 DEF SessionOK
<1>6. answered \notin OperationNames
  BY <1>5 DEF Inv, AnswerOK
<1>7. /\ call' \in [Sessions -> Calls] /\ call'[s] = d
      /\ \A t \in Sessions : t # s => call'[t] = call[t]
      /\ UNCHANGED <<calls, answered>>
  BY <1>1 DEF Do
<1>8. NextStep(s)' = IF d.todo = <<>> THEN None ELSE Head(d.todo)
  BY <1>7 DEF NextStep
<1> QED
  BY <1>2, <1>3, <1>4, <1>5, <1>6, <1>7, <1>8

\* A step that goes on with what is left.
LEMMA GoesOn ==
  ASSUME Inv, NEW s \in Sessions, NEW step \in Steps, NEW d \in Calls, Do(s, step, d),
         d.todo = Tail(call[s].todo)
  PROVE  /\ Proper(call'[s].todo)
         /\ (NextStep(s)' = None /\ step \in Ends) \/ Follows(step, NextStep(s)')
         /\ \A other : Owes(call[s].todo, other) => other = step \/ Owes(call'[s].todo, other)
         /\ \A other : Owes(call'[s].todo, other) => Owes(call[s].todo, other)
<1>1. /\ call[s].todo \in Seq(Steps) /\ call[s].todo # <<>> /\ Head(call[s].todo) = step /\ Proper(call[s].todo)
      /\ call'[s] = d
      /\ NextStep(s)' = IF d.todo = <<>> THEN None ELSE Head(d.todo)
  BY DoFacts
<1>2. PICK q \in Seq(Steps) : q = call[s].todo
  BY <1>1
<1>3. /\ Proper(Tail(q))
      /\ Tail(q) = <<>> => Head(q) \in Ends
      /\ Tail(q) # <<>> => Follows(Head(q), Head(Tail(q)))
      /\ \A other : Owes(q, other) => other = Head(q) \/ Owes(Tail(q), other)
      /\ \A other : Owes(Tail(q), other) => Owes(q, other)
  BY <1>1, <1>2, TailFacts
<1> QED
  BY <1>1, <1>2, <1>3

LEMMA ThenNothing ==
  ASSUME call \in [Sessions -> Calls], NEW s \in Sessions, call[s].todo # <<>>
  PROVE  /\ Then(s, <<>>) \in Calls
         /\ SameCall(Then(s, <<>>), call[s])
         /\ Then(s, <<>>).todo = Tail(call[s].todo)
<1>1. <<>> \in Seq(Steps)
  OBVIOUS
<1>2. call[s].todo \in Seq(Steps)
  BY DEF Calls
<1>3. Tail(call[s].todo) \in Seq(Steps)
  BY <1>2
<1>4. <<>> \o Tail(call[s].todo) = Tail(call[s].todo)
  BY <1>3
<1> QED
  BY <1>1, <1>4, ThenFacts

LEMMA FetchedFacts ==
  ASSUME fresh \in [Sessions -> SUBSET Rows], NEW s \in Sessions, NEW row \in Rows, Fetched(s, row)
  PROVE  /\ fresh' \in [Sessions -> SUBSET Rows]
         /\ fresh'[s] = fresh[s] \cup {row}
         /\ \A t \in Sessions : t # s => fresh'[t] = fresh[t]
BY DEF Fetched

LEMMA WrittenFacts ==
  ASSUME fresh \in [Sessions -> SUBSET Rows], NEW row, Written(row)
  PROVE  /\ fresh' \in [Sessions -> SUBSET Rows]
         /\ \A t \in Sessions : fresh'[t] = fresh[t] \ {row}
BY DEF Written

-----------------------------------------------------------------------------
(* One session's step, and the others.                                      *)

Frame(s) ==
  /\ \A t \in Sessions :
       t # s => /\ call'[t] = call[t]
                /\ fresh'[t] \subseteq fresh[t]
                /\ \/ family'.slice_ids = family.slice_ids /\ family'.contract_ids = family.contract_ids
                   \/ "family" \notin fresh'[t]
  /\ \A x \in Slices : slice[x] # None => slice'[x] # None

LEMMA OthersOK ==
  ASSUME Inv, NEW s \in Sessions, ~Idle(s), Frame(s), NEW t \in Sessions, t # s
  PROVE  SessionOK(t)'
<1>1. SessionOK(t) /\ ~call[t].alone
  BY DEF Inv, SessionOK, OthersIdle
<1>2. call'[t] = call[t] /\ fresh'[t] \subseteq fresh[t]
  BY DEF Frame
<1>3. NextStep(t)' = NextStep(t) /\ (Idle(t)' <=> Idle(t))
  BY <1>2 DEF NextStep, Idle
<1>4. Held(t)'
  BY <1>1, <1>2, <1>3 DEF SessionOK, Held, Frame
<1>5. ListOK(t)'
  BY <1>1, <1>2, <1>3 DEF SessionOK, ListOK, Frame
<1> QED
  BY <1>1, <1>2, <1>3, <1>4, <1>5 DEF SessionOK

LEMMA StepInv ==
  ASSUME Inv, NEW s \in Sessions, ~Idle(s), TypeOK', Frame(s), SessionOK(s)', answered' \in {answered, "FAILED"}
  PROVE  Inv'
<1>1. answered \notin OperationNames
  BY DEF Inv, AnswerOK
<1>2. \A t \in Sessions : SessionOK(t)'
  BY OthersOK
<1>3. answered' \notin OperationNames /\ answered' \notin Projecting /\ answered' \notin Refreshing
  BY <1>1, NoneFacts
<1> QED
  BY <1>2, <1>3 DEF Inv, AnswerOK, LoneCallProjects, LoneCallRefreshes

\* Steps of no projection.
LEMMA ProjectQuiet ==
  ASSUME NEW s \in Sessions, ProjectOK(s), NextStep(s) \notin Projection, NextStep(s)' \notin Projection,
         call'[s].name = call[s].name,
         Owes(call[s].todo, "summarise") => Owes(call'[s].todo, "summarise"),
         Served => Served' \/ Owes(call'[s].todo, "summarise")
  PROVE  ProjectOK(s)'
BY DEF ProjectOK, Projection

LEMMA ServedSame ==
  ASSUME UNCHANGED <<slice, effect, family, familyView>>
  PROVE  Served => Served'
BY SummarySame DEF Served, FamilyCurrent

\* Steps of no refresh.
LEMMA RefreshQuiet ==
  ASSUME NEW s \in Sessions, RefreshOK(s), NextStep(s) \notin Saving, NextStep(s)' \notin Saving,
         call'[s].name = call[s].name,
         Owes(call[s].todo, "build") => Owes(call'[s].todo, "build"),
         UNCHANGED <<effect, plan, events, workView>>
  PROVE  RefreshOK(s)'
BY SummarySame DEF RefreshOK, Saving

\* The session that has made a step is all right when its call is.
LEMMA MakesOK ==
  ASSUME Inv, NEW s \in Sessions, ~Idle(s), Frame(s),
         call'[s].name = call[s].name, call'[s].alone = call[s].alone,
         Proper(call'[s].todo), Held(s)', ListOK(s)',
         call[s].alone => ProjectOK(s)' /\ RefreshOK(s)'
  PROVE  SessionOK(s)'
<1>1. ~Idle(s)'
  BY DEF Idle
<1>2. call[s].alone => OthersIdle(s)'
  BY DEF Inv, SessionOK, OthersIdle, Frame, Idle
<1> QED
  BY <1>1, <1>2 DEF SessionOK

\* Before a step.
LEMMA Before ==
  ASSUME Inv, NEW s \in Sessions, NEW step \in Steps, NEW new, Do(s, step, new)
  PROVE  /\ TypeOK /\ SessionOK(s) /\ ~Idle(s) /\ call \in [Sessions -> Calls]
         /\ call[s] \in Calls /\ call[s].todo \in Seq(Steps) /\ call[s].todo # <<>>
         /\ NextStep(s) = step /\ Proper(call[s].todo)
         /\ Owes(call[s].todo, step)
         /\ Then(s, <<>>) \in Calls /\ SameCall(Then(s, <<>>), call[s])
         /\ Then(s, <<>>).todo = Tail(call[s].todo)
<1>1. TypeOK /\ SessionOK(s) /\ call \in [Sessions -> Calls] /\ call[s] \in Calls /\ call[s].todo \in Seq(Steps)
  BY DEF Inv, TypeOK, Calls
<1>2. NextStep(s) = step /\ step # None
  BY NoneFacts DEF Do
<1>3. call[s].todo # <<>> /\ Head(call[s].todo) = step
  BY <1>2 DEF NextStep
<1>4. ~Idle(s) /\ Proper(call[s].todo)
  BY <1>1, <1>3 DEF SessionOK
<1>5. Owes(call[s].todo, step)
  BY <1>1, <1>3 DEF Owes
<1> QED
  BY <1>1, <1>2, <1>3, <1>4, <1>5, ThenNothing

\* After a step that goes on.
LEMMA After ==
  ASSUME Inv, NEW s \in Sessions, NEW step \in Steps, NEW d \in Calls, Do(s, step, d),
         d.todo = Tail(call[s].todo)
  PROVE  /\ call' \in [Sessions -> Calls] /\ call'[s] = d
         /\ \A t \in Sessions : t # s => call'[t] = call[t]
         /\ UNCHANGED <<calls, answered>>
         /\ Proper(call'[s].todo)
         /\ (NextStep(s)' = None /\ step \in Ends) \/ Follows(step, NextStep(s)')
         /\ \A other : Owes(call[s].todo, other) => other = step \/ Owes(call'[s].todo, other)
         /\ \A other : Owes(call'[s].todo, other) => Owes(call[s].todo, other)
BY DoFacts, GoesOn

LEMMA LeadsOn ==
  ASSUME NEW s \in Sessions, call' \in [Sessions -> Calls], Proper(call'[s].todo),
         NextStep(s)' \in {"materialise", "fetchList", "storeList", "summarise", "close"}
  PROVE  Owes(call'[s].todo, "summarise")
<1>1. PICK q \in Seq(Steps) : q = call'[s].todo
  BY DEF Calls
<1>2. NextStep(s)' = IF q = <<>> THEN None ELSE Head(q)
  BY <1>1 DEF NextStep
<1>3. q # <<>> /\ Head(q) \in {"materialise", "fetchList", "storeList", "summarise", "close"}
  BY <1>2, NoneFacts DEF Steps
<1> QED
  BY <1>1, <1>3, LeadsToSummary

LEMMA NextOwed ==
  ASSUME NEW s \in Sessions, call' \in [Sessions -> Calls], NextStep(s)' # None
  PROVE  Owes(call'[s].todo, NextStep(s)')
<1>1. PICK q \in Seq(Steps) : q = call'[s].todo
  BY DEF Calls
<1>2. NextStep(s)' = IF q = <<>> THEN None ELSE Head(q)
  BY <1>1 DEF NextStep
<1> QED
  BY <1>1, <1>2 DEF Owes

\* What every step keeps of a call.
Keeps(s) ==
  /\ call' \in [Sessions -> Calls]
  /\ \A t \in Sessions : t # s => call'[t] = call[t]
  /\ UNCHANGED <<calls, answered>>
  /\ call'[s].name = call[s].name /\ call'[s].alone = call[s].alone /\ call'[s].subject = call[s].subject
  /\ Proper(call'[s].todo)

\* A step that reads or writes, and leaves the rest of the script to be done.
LEMMA Moves ==
  ASSUME Inv, NEW s \in Sessions, NEW step \in Steps, NEW d \in Calls, Do(s, step, d),
         d.todo = Tail(call[s].todo), d.name = call[s].name, d.alone = call[s].alone, d.subject = call[s].subject
  PROVE  /\ Keeps(s) /\ call'[s] = d
         /\ (NextStep(s)' = None /\ step \in Ends) \/ Follows(step, NextStep(s)')
         /\ \A other : Owes(call[s].todo, other) => other = step \/ Owes(call'[s].todo, other)
         /\ \A other : Owes(call'[s].todo, other) => Owes(call[s].todo, other)
BY After DEF Keeps

\* A step after which the script may go on as it may after another one.
Replaces(z, step) == (step \in Ends => z \in Ends) /\ \A b : Follows(step, b) => Follows(z, b)

\* A step that is followed by others than those of the script.
Branch(s, step, d, a, all) ==
  /\ \E p, z : Part(p, a, z, all) /\ Replaces(z, step) /\ d.todo = p \o Tail(call[s].todo)
  /\ d.name = call[s].name /\ d.alone = call[s].alone /\ d.subject = call[s].subject

LEMMA Branches ==
  ASSUME Inv, NEW s \in Sessions, NEW step \in Steps, NEW d \in Calls, Do(s, step, d),
         NEW a, NEW all, Branch(s, step, d, a, all)
  PROVE  /\ Keeps(s) /\ call'[s] = d
         /\ NextStep(s)' = a
         /\ \A other : Owes(call[s].todo, other) => other = step \/ Owes(call'[s].todo, other)
         /\ \A other : Owes(call'[s].todo, other) => other \in all \/ Owes(call[s].todo, other)
<1>1. /\ call' \in [Sessions -> Calls] /\ call'[s] = d
      /\ \A t \in Sessions : t # s => call'[t] = call[t]
      /\ UNCHANGED <<calls, answered>>
      /\ NextStep(s)' = IF d.todo = <<>> THEN None ELSE Head(d.todo)
      /\ call[s].todo \in Seq(Steps) /\ call[s].todo # <<>> /\ Head(call[s].todo) = step /\ Proper(call[s].todo)
  BY DoFacts
<1>2. PICK o \in Seq(Steps) : o = call[s].todo
  BY <1>1
<1>3. /\ Tail(o) \in Seq(Steps) /\ Proper(Tail(o))
      /\ Tail(o) = <<>> => step \in Ends
      /\ Tail(o) # <<>> => Follows(step, Tail(o)[1])
      /\ \A other : Owes(o, other) => other = step \/ Owes(Tail(o), other)
      /\ \A other : Owes(Tail(o), other) => Owes(o, other)
  BY <1>1, <1>2, TailFacts
<1>4. PICK q \in Seq(Steps) : q = Tail(o)
  BY <1>3
<1>b. PICK p, z : Part(p, a, z, all) /\ Replaces(z, step) /\ d.todo = p \o Tail(call[s].todo)
  BY DEF Branch
<1>5. /\ p \in Seq(Steps) /\ p # <<>> /\ Linked(p) /\ p[1] = a /\ p[Len(p)] = z
      /\ \A other : Owes(p, other) <=> other \in all
  BY <1>b DEF Part
<1>6. /\ Proper(q)
      /\ q = <<>> => p[Len(p)] \in Ends
      /\ q # <<>> => Follows(p[Len(p)], q[1])
  BY <1>3, <1>4, <1>5, <1>b DEF Replaces
<1>7. /\ p \o q # <<>> /\ Proper(p \o q)
      /\ Head(p \o q) = p[1]
      /\ \A other : Owes(p \o q, other) <=> Owes(p, other) \/ Owes(q, other)
  BY <1>5, <1>6, PrefixFacts
<1>8. d.todo = p \o q
  BY <1>2, <1>4, <1>b
<1>9. Keeps(s)
  BY <1>1, <1>7, <1>8 DEF Keeps, Branch
<1> QED
  BY <1>1, <1>2, <1>3, <1>4, <1>5, <1>7, <1>8, <1>9

\* A session that keeps its call is all right.
LEMMA KeepsInv ==
  ASSUME Inv, NEW s \in Sessions, ~Idle(s), Keeps(s), TypeOK', Frame(s), Held(s)', ListOK(s)',
         call[s].alone => ProjectOK(s)' /\ RefreshOK(s)'
  PROVE  Inv'
<1>1. SessionOK(s)'
  BY MakesOK DEF Keeps
<1> QED
  BY <1>1, StepInv DEF Keeps

-----------------------------------------------------------------------------
(* Steps on the lists of the family. *)

LEMMA MaterialiseOK == ASSUME Inv, NEW s \in Sessions, Materialise(s) PROVE Inv'
<1>0. "materialise" \in Steps /\ \E new : Do(s, "materialise", new)
  BY DEF Materialise, Steps
<1>1. /\ TypeOK /\ SessionOK(s) /\ ~Idle(s) /\ NextStep(s) = "materialise" /\ Owes(call[s].todo, "materialise")
      /\ Then(s, <<>>) \in Calls /\ SameCall(Then(s, <<>>), call[s]) /\ Then(s, <<>>).todo = Tail(call[s].todo)
  BY <1>0, Before
<1>2. call[s].subject \in Plans
  BY <1>1 DEF SessionOK, Held
<1>3. PICK x \in Slices : x = Target[call[s].subject]
  BY <1>2, ModelAssumption
<1>4. PICK a \in SUBSET Slices : a = family.slice_ids \cup (IF slice[x] = None THEN {x} ELSE {})
  BY <1>1 DEF TypeOK, Families
<1>5. PICK b \in Calls : b = Then(s, <<>>)
  BY <1>1
<1>6. PICK d : d = [b EXCEPT !.adds = a]
  OBVIOUS
<1>7. /\ d \in Calls /\ d.todo = b.todo /\ d.name = b.name /\ d.subject = b.subject /\ d.alone = b.alone
  BY <1>6 DEF Calls
<1>8. Do(s, "materialise", d)
  BY <1>3, <1>4, <1>5, <1>6 DEF Materialise
<1>9. /\ Keeps(s) /\ call'[s] = d /\ NextStep(s)' = "fetchList"
      /\ \A other : Owes(call[s].todo, other) => other = "materialise" \/ Owes(call'[s].todo, other)
      /\ \A other : Owes(call'[s].todo, other) => Owes(call[s].todo, other)
  BY <1>0, <1>1, <1>5, <1>7, <1>8, Moves DEF Follows, Ends, SameCall
<1>10. slice' \in [Slices -> SliceDocs \cup {None}] /\ \A y \in Slices : slice[y] # None => slice'[y] # None
  <2>1. Planned \in SliceDocs
    BY DEF Planned, SliceDocs
  <2>2. slice' = slice \/ slice' = [slice EXCEPT ![x] = Planned]
    BY <1>3 DEF Materialise
  <2>3. slice \in [Slices -> SliceDocs \cup {None}]
    BY <1>1 DEF TypeOK
  <2> QED
    BY <2>1, <2>2, <2>3, NoneAssumption
<1>11. UNCHANGED <<effect, plan, contracts, events, family, familyView, workView, fresh>>
  BY DEF Materialise, rows
<1>12. TypeOK'
  BY <1>1, <1>9, <1>10, <1>11 DEF TypeOK, Keeps
<1>13. Frame(s)
  BY <1>9, <1>10, <1>11 DEF Frame, Keeps
<1>14. Held(s)'
  BY <1>1, <1>9, <1>10 DEF SessionOK, Held, Projection, Saving, Keeps
<1>15. ListOK(s)'
  BY <1>9 DEF ListOK
<1>16. Owes(call'[s].todo, "summarise")
  BY <1>9, LeadsOn DEF Keeps
<1>17. call[s].alone => ProjectOK(s)' /\ RefreshOK(s)'
  BY <1>1, <1>9, <1>11, <1>16, ProjectQuiet, RefreshQuiet DEF SessionOK, Projection, Saving, Keeps
<1> QED
  BY <1>1, <1>9, <1>12, <1>13, <1>14, <1>15, <1>17, KeepsInv

LEMMA ListedFacts ==
  ASSUME Inv, NEW s \in Sessions
  PROVE  /\ Listed(s) \in Lists
         /\ IF call[s].name = "register_contract" THEN family.contract_ids \subseteq Listed(s).contracts
            ELSE family.slice_ids \subseteq Listed(s).slices
<1>1. PICK c \in Calls : c = call[s]
  BY DEF Inv, TypeOK
<1>2. /\ family.slice_ids \in SUBSET Slices /\ family.contract_ids \in SUBSET Contracts
      /\ family.warnings \in SUBSET Warnings /\ c.adds \in SUBSET Slices
  BY <1>1 DEF Inv, TypeOK, Families, Calls
<1>3. c.name = "register_contract" => c.subject \in Contracts
  BY <1>1 DEF Inv, SessionOK, Held
<1>4. CASE c.name = "register_contract"
  <2>1. PICK w \in SUBSET Warnings :
          w = IF Collides(c.subject) THEN {"DECLARED_ID_COLLISION"} ELSE family.warnings
    BY <1>2 DEF Warnings
  <2>2. Listed(s) = [slices |-> {}, contracts |-> family.contract_ids \cup {c.subject}, warnings |-> w]
    BY <1>1, <1>4, <2>1 DEF Listed
  <2> QED
    BY <1>1, <1>2, <1>3, <1>4, <2>1, <2>2 DEF Lists
<1>5. CASE c.name # "register_contract"
  <2>1. Listed(s) = [slices |-> family.slice_ids \cup c.adds, contracts |-> {}, warnings |-> {}]
    BY <1>1, <1>5 DEF Listed
  <2> QED
    BY <1>1, <1>2, <1>5, <2>1 DEF Lists
<1> QED
  BY <1>4, <1>5

LEMMA FetchListOK == ASSUME Inv, NEW s \in Sessions, FetchList(s) PROVE Inv'
<1>0. "fetchList" \in Steps /\ "family" \in Rows /\ \E new : Do(s, "fetchList", new)
  BY DEF FetchList, Steps, Rows
<1>1. /\ TypeOK /\ SessionOK(s) /\ ~Idle(s) /\ NextStep(s) = "fetchList"
      /\ Then(s, <<>>) \in Calls /\ SameCall(Then(s, <<>>), call[s]) /\ Then(s, <<>>).todo = Tail(call[s].todo)
  BY <1>0, Before
<1>2. PICK l \in Lists : l = Listed(s)
  BY ListedFacts
<1>3. PICK b \in Calls : b = Then(s, <<>>)
  BY <1>1
<1>4. PICK d : d = [b EXCEPT !.list = l]
  OBVIOUS
<1>5. /\ d \in Calls /\ d.todo = b.todo /\ d.name = b.name /\ d.subject = b.subject /\ d.alone = b.alone /\ d.list = l
  BY <1>4 DEF Calls
<1>6. Do(s, "fetchList", d)
  BY <1>2, <1>3, <1>4 DEF FetchList
<1>7. /\ Keeps(s) /\ call'[s] = d /\ NextStep(s)' = "storeList"
      /\ \A other : Owes(call[s].todo, other) => other = "fetchList" \/ Owes(call'[s].todo, other)
      /\ \A other : Owes(call'[s].todo, other) => Owes(call[s].todo, other)
  BY <1>0, <1>1, <1>3, <1>5, <1>6, Moves DEF Follows, Ends, SameCall
<1>8. /\ fresh' \in [Sessions -> SUBSET Rows]
      /\ \A t \in Sessions : t # s => fresh'[t] = fresh[t]
  BY <1>0, <1>1, FetchedFacts DEF FetchList, TypeOK
<1>9. UNCHANGED <<slice, effect, plan, contracts, events, family, familyView, workView>>
  BY DEF FetchList, facts, rows
<1>10. TypeOK'
  BY <1>1, <1>7, <1>8, <1>9 DEF TypeOK, Keeps
<1>11. Frame(s)
  BY <1>7, <1>8, <1>9 DEF Frame, Keeps
<1>12. Held(s)'
  BY <1>1, <1>5, <1>7, <1>9 DEF SessionOK, Held, Projection, Saving, Keeps
<1>13. ListOK(s)'
  BY <1>2, <1>5, <1>7, <1>9, ListedFacts DEF ListOK, Keeps
<1>14. Owes(call'[s].todo, "summarise")
  BY <1>7, LeadsOn DEF Keeps
<1>15. call[s].alone => ProjectOK(s)' /\ RefreshOK(s)'
  BY <1>1, <1>7, <1>9, <1>14, ProjectQuiet, RefreshQuiet DEF SessionOK, Projection, Saving, Keeps
<1> QED
  BY <1>1, <1>7, <1>10, <1>11, <1>12, <1>13, <1>15, KeepsInv

\* A conflict: the loop starts again, or is given up.
LEMMA TryAgainFacts ==
  ASSUME Inv, NEW s \in Sessions, NEW step \in Steps, NEW loop \in Steps, Follows(loop, step),
         Do(s, step, TryAgain(s, loop))
  PROVE  /\ Keeps(s)
         /\ call'[s].sum = call[s].sum /\ call'[s].open = call[s].open /\ call'[s].work = call[s].work
         /\ \A other : Owes(call[s].todo, other) => other = step \/ Owes(call'[s].todo, other)
         /\ \A other : Owes(call'[s].todo, other) => other = loop \/ Owes(call[s].todo, other)
         /\ \/ NextStep(s)' = loop
            \/ NextStep(s)' = None /\ step \in Ends
            \/ Follows(step, NextStep(s)')
<1>1. /\ SessionOK(s) /\ call[s] \in Calls /\ call[s].todo \in Seq(Steps) /\ call[s].todo # <<>>
      /\ NextStep(s) = step /\ Proper(call[s].todo)
      /\ Then(s, <<>>) \in Calls /\ SameCall(Then(s, <<>>), call[s]) /\ Then(s, <<>>).todo = Tail(call[s].todo)
  BY Before
<1>2. CASE Retries(call[s])
  <2>1. PICK c \in Calls : c = call[s]
    BY <1>1
  <2>2. PICK p \in Seq(Steps) : p = <<loop>>
    BY OneStep
  <2>3. /\ p # <<>> /\ Linked(p) /\ Len(p) = 1 /\ p[1] = loop
        /\ \A other : Owes(p, other) <=> other = loop
    BY <2>2, OneStep
  <2>4. PICK q \in Seq(Steps) : q = c.todo
    BY <1>1, <2>1
  <2>5. q # <<>> /\ Proper(q) /\ q[1] = step
    BY <1>1, <2>1, <2>4 DEF NextStep
  <2>a. p \o q \in Seq(Steps)
    OBVIOUS
  <2>6. PICK r \in Seq(Steps) : r = p \o q
    BY <2>a
  <2>7. PICK n \in Nat : n = c.tries + 1
    BY DEF Calls
  <2>8. PICK d : d = [c EXCEPT !.todo = r, !.tries = n]
    OBVIOUS
  <2>9. /\ d \in Calls /\ d.todo = r /\ d.name = c.name /\ d.subject = c.subject /\ d.alone = c.alone
        /\ d.sum = c.sum /\ d.open = c.open /\ d.work = c.work
    BY <2>8 DEF Calls
  <2>10. TryAgain(s, loop) = d
    BY <1>2, <2>1, <2>2, <2>4, <2>6, <2>7, <2>8 DEF TryAgain
  <2>11. Do(s, step, d)
    BY <2>10
  <2>12. d.todo = p \o q /\ (q = <<>> => p[Len(p)] \in Ends) /\ (q # <<>> => Follows(p[Len(p)], q[1]))
    BY <2>3, <2>5, <2>6, <2>9
  <2>13. d.name = call[s].name /\ d.alone = call[s].alone /\ d.subject = call[s].subject
    BY <2>1, <2>9
  <2>14. /\ Keeps(s) /\ call'[s] = d /\ NextStep(s)' = p[1]
         /\ \A other : Owes(call'[s].todo, other) <=> Owes(p, other) \/ Owes(q, other)
    <3>1. /\ call' \in [Sessions -> Calls] /\ call'[s] = d
          /\ \A t \in Sessions : t # s => call'[t] = call[t]
          /\ UNCHANGED <<calls, answered>>
          /\ NextStep(s)' = IF d.todo = <<>> THEN None ELSE Head(d.todo)
      BY <2>9, <2>11, DoFacts
    <3>2. p # <<>> /\ Linked(p) /\ Proper(q)
      BY <2>3, <2>5
    <3>3. /\ p \o q # <<>> /\ Proper(p \o q)
          /\ Head(p \o q) = p[1]
          /\ \A other : Owes(p \o q, other) <=> Owes(p, other) \/ Owes(q, other)
      BY <2>12, <3>2, PrefixFacts
    <3> QED
      BY <2>12, <2>13, <3>1, <3>3 DEF Keeps
  <2> QED
    BY <2>1, <2>3, <2>4, <2>9, <2>14
<1>3. CASE ~Retries(call[s])
  <2>1. PICK b \in Calls : b = Then(s, <<>>)
    BY <1>1
  <2>2. PICK d : d = [b EXCEPT !.tries = 0, !.list = None]
    OBVIOUS
  <2>3. /\ d \in Calls /\ d.todo = b.todo /\ d.name = b.name /\ d.subject = b.subject /\ d.alone = b.alone
        /\ d.sum = b.sum /\ d.open = b.open /\ d.work = b.work
    BY <2>2 DEF Calls
  <2>4. Do(s, step, d)
    BY <1>3, <2>1, <2>2 DEF TryAgain
  <2>5. /\ d.todo = Tail(call[s].todo) /\ d.name = call[s].name /\ d.alone = call[s].alone
        /\ d.subject = call[s].subject
        /\ d.sum = call[s].sum /\ d.open = call[s].open /\ d.work = call[s].work
    BY <1>1, <2>1, <2>3 DEF SameCall
  <2>6. /\ Keeps(s) /\ call'[s] = d
        /\ (NextStep(s)' = None /\ step \in Ends) \/ Follows(step, NextStep(s)')
        /\ \A other : Owes(call[s].todo, other) => other = step \/ Owes(call'[s].todo, other)
        /\ \A other : Owes(call'[s].todo, other) => Owes(call[s].todo, other)
    BY <2>3, <2>4, <2>5, Moves
  <2> QED
    BY <2>5, <2>6
<1> QED
  BY <1>2, <1>3

LEMMA StoreListOK == ASSUME Inv, NEW s \in Sessions, StoreList(s) PROVE Inv'
<1>0. "storeList" \in Steps /\ "fetchList" \in Steps /\ "family" \in Rows /\ \E new : Do(s, "storeList", new)
  BY DEF StoreList, Steps, Rows
<1>1. /\ TypeOK /\ SessionOK(s) /\ ~Idle(s) /\ NextStep(s) = "storeList"
      /\ Then(s, <<>>) \in Calls /\ SameCall(Then(s, <<>>), call[s]) /\ Then(s, <<>>).todo = Tail(call[s].todo)
  BY <1>0, Before
<1>2. PICK l \in Lists : l = call[s].list
  BY <1>1 DEF SessionOK, Held
<1>3. UNCHANGED <<slice, effect, plan, contracts, events, familyView, workView>>
  BY DEF StoreList, facts, rows
<1>4. ASSUME Keeps(s), NextStep(s)' \in {"fetchList", "summarise"},
             \A other : Owes(call[s].todo, other) => other = "storeList" \/ Owes(call'[s].todo, other),
             \A other : Owes(call'[s].todo, other) => other = "fetchList" \/ Owes(call[s].todo, other),
             family' \in Families, fresh' \in [Sessions -> SUBSET Rows],
             \A t \in Sessions : fresh'[t] \subseteq fresh[t],
             \/ UNCHANGED family
             \/ \A t \in Sessions : "family" \notin fresh'[t]
      PROVE  Inv'
  <2>1. TypeOK'
    BY <1>1, <1>3, <1>4 DEF TypeOK, Keeps
  <2>2. Frame(s)
    BY <1>3, <1>4 DEF Frame, Keeps
  <2>3. Held(s)'
    BY <1>1, <1>3, <1>4 DEF SessionOK, Held, Projection, Saving, Keeps
  <2>4. ListOK(s)'
    BY <1>4 DEF ListOK
  <2>5. Owes(call'[s].todo, "summarise")
    BY <1>4, LeadsOn DEF Keeps
  <2>6. call[s].alone => ProjectOK(s)' /\ RefreshOK(s)'
    BY <1>1, <1>3, <1>4, <2>5, ProjectQuiet, RefreshQuiet DEF SessionOK, Projection, Saving, Keeps
  <2> QED
    BY <1>1, <1>4, <2>1, <2>2, <2>3, <2>4, <2>6, KeepsInv
<1>5. CASE Unwritten(s, "family")
  <2>1. PICK b \in Calls : b = Then(s, <<>>)
    BY <1>1
  <2>2. PICK d : d = [b EXCEPT !.tries = 0, !.list = None]
    OBVIOUS
  <2>3. /\ d \in Calls /\ d.todo = b.todo /\ d.name = b.name /\ d.subject = b.subject /\ d.alone = b.alone
    BY <2>2 DEF Calls
  <2>4. Do(s, "storeList", d)
    BY <1>5, <2>1, <2>2 DEF StoreList
  <2>5. /\ d.todo = Tail(call[s].todo) /\ d.name = call[s].name /\ d.alone = call[s].alone
        /\ d.subject = call[s].subject
    BY <1>1, <2>1, <2>3 DEF SameCall
  <2>6. /\ Keeps(s) /\ NextStep(s)' = "summarise"
        /\ \A other : Owes(call[s].todo, other) => other = "storeList" \/ Owes(call'[s].todo, other)
        /\ \A other : Owes(call'[s].todo, other) => Owes(call[s].todo, other)
    BY <1>0, <2>3, <2>4, <2>5, Moves DEF Follows, Ends
  <2>7. family' \in Families
    <3>1. PICK f \in Families : f = family
      BY <1>1 DEF TypeOK
    <3>2. \/ family' = [f EXCEPT !.contract_ids = l.contracts, !.warnings = l.warnings]
          \/ family' = [f EXCEPT !.slice_ids = l.slices]
      BY <1>2, <1>5, <3>1 DEF StoreList
    <3> QED
      BY <3>2 DEF Families, Lists
  <2>8. /\ fresh' \in [Sessions -> SUBSET Rows]
        /\ \A t \in Sessions : fresh'[t] = fresh[t] \ {"family"}
    BY <1>0, <1>1, <1>5, WrittenFacts DEF StoreList, TypeOK
  <2> QED
    BY <1>4, <2>6, <2>7, <2>8
<1>6. CASE ~Unwritten(s, "family")
  <2>1. Do(s, "storeList", TryAgain(s, "fetchList")) /\ UNCHANGED <<family, fresh>>
    BY <1>6 DEF StoreList, rows
  <2>2. Follows("fetchList", "storeList")
    BY DEF Follows
  <2>3. /\ Keeps(s)
        /\ \A other : Owes(call[s].todo, other) => other = "storeList" \/ Owes(call'[s].todo, other)
        /\ \A other : Owes(call'[s].todo, other) => other = "fetchList" \/ Owes(call[s].todo, other)
        /\ \/ NextStep(s)' = "fetchList"
           \/ NextStep(s)' = None /\ "storeList" \in Ends
           \/ Follows("storeList", NextStep(s)')
    BY <1>0, <2>1, <2>2, TryAgainFacts
  <2>4. NextStep(s)' \in {"fetchList", "summarise"}
    BY <2>3 DEF Ends, Follows
  <2> QED
    BY <1>1, <1>4, <2>1, <2>3, <2>4 DEF TypeOK
<1> QED
  BY <1>5, <1>6

-----------------------------------------------------------------------------
(* Steps of a projection. *)

LEMMA SummariseOK == ASSUME Inv, NEW s \in Sessions, Summarise(s) PROVE Inv'
<1>0. "summarise" \in Steps /\ \E new : Do(s, "summarise", new)
  BY DEF Summarise, Steps
<1>1. /\ TypeOK /\ SessionOK(s) /\ ~Idle(s) /\ NextStep(s) = "summarise"
      /\ Then(s, <<>>) \in Calls /\ SameCall(Then(s, <<>>), call[s]) /\ Then(s, <<>>).todo = Tail(call[s].todo)
  BY <1>0, Before
<1>2. PICK m \in Summaries : m = Summary
  BY <1>1, SummaryType
<1>3. PICK b \in Calls : b = Then(s, <<>>)
  BY <1>1
<1>4. PICK d : d = [b EXCEPT !.sum = m]
  OBVIOUS
<1>5. /\ d \in Calls /\ d.todo = b.todo /\ d.name = b.name /\ d.subject = b.subject /\ d.alone = b.alone /\ d.sum = m
  BY <1>4 DEF Calls
<1>6. Do(s, "summarise", d)
  BY <1>2, <1>3, <1>4 DEF Summarise
<1>7. /\ Keeps(s) /\ call'[s] = d /\ NextStep(s)' = "fetchFamily"
      /\ \A other : Owes(call[s].todo, other) => other = "summarise" \/ Owes(call'[s].todo, other)
      /\ \A other : Owes(call'[s].todo, other) => Owes(call[s].todo, other)
  BY <1>0, <1>1, <1>3, <1>5, <1>6, Moves DEF Follows, Ends, SameCall
<1>8. UNCHANGED <<slice, effect, plan, contracts, events, family, familyView, workView, fresh>>
  BY DEF Summarise, facts, rows
<1>9. TypeOK'
  BY <1>1, <1>7, <1>8 DEF TypeOK, Keeps
<1>10. Frame(s)
  BY <1>7, <1>8 DEF Frame, Keeps
<1>11. Held(s)'
  BY <1>1, <1>5, <1>7, <1>8 DEF SessionOK, Held, Projection, Saving, Keeps
<1>12. ListOK(s)'
  BY <1>7 DEF ListOK
<1>13. ProjectOK(s)'
  BY <1>2, <1>5, <1>7, <1>8, SummarySame DEF ProjectOK, Projection
<1>14. call[s].alone => RefreshOK(s)'
  BY <1>1, <1>7, <1>8, RefreshQuiet DEF SessionOK, Saving, Keeps
<1> QED
  BY <1>1, <1>7, <1>9, <1>10, <1>11, <1>12, <1>13, <1>14, KeepsInv

LEMMA FetchFamilyOK == ASSUME Inv, NEW s \in Sessions, FetchFamily(s) PROVE Inv'
<1>0. "fetchFamily" \in Steps /\ "family" \in Rows /\ \E new : Do(s, "fetchFamily", new)
  BY DEF FetchFamily, Steps, Rows
<1>1. /\ TypeOK /\ SessionOK(s) /\ ~Idle(s) /\ NextStep(s) = "fetchFamily"
      /\ Then(s, <<>>) \in Calls /\ SameCall(Then(s, <<>>), call[s]) /\ Then(s, <<>>).todo = Tail(call[s].todo)
  BY <1>0, Before
<1>2. PICK d \in Calls : d = Then(s, <<>>)
  BY <1>1
<1>3. Do(s, "fetchFamily", d)
  BY <1>2 DEF FetchFamily
<1>4. /\ Keeps(s) /\ call'[s] = d /\ NextStep(s)' = "storeFamily" /\ d.sum = call[s].sum
      /\ \A other : Owes(call[s].todo, other) => other = "fetchFamily" \/ Owes(call'[s].todo, other)
      /\ \A other : Owes(call'[s].todo, other) => Owes(call[s].todo, other)
  BY <1>0, <1>1, <1>2, <1>3, Moves DEF Follows, Ends, SameCall
<1>5. /\ fresh' \in [Sessions -> SUBSET Rows] /\ "family" \in fresh'[s]
      /\ \A t \in Sessions : t # s => fresh'[t] = fresh[t]
  BY <1>0, <1>1, FetchedFacts DEF FetchFamily, TypeOK
<1>6. UNCHANGED <<slice, effect, plan, contracts, events, family, familyView, workView>>
  BY DEF FetchFamily, facts, rows
<1>7. TypeOK'
  BY <1>1, <1>4, <1>5, <1>6 DEF TypeOK, Keeps
<1>8. Frame(s)
  BY <1>4, <1>5, <1>6 DEF Frame, Keeps
<1>9. Held(s)'
  BY <1>1, <1>4, <1>6 DEF SessionOK, Held, Projection, Saving, Keeps
<1>10. ListOK(s)'
  BY <1>4 DEF ListOK
<1>11. call[s].alone => ProjectOK(s)'
  BY <1>1, <1>4, <1>5, <1>6, SummarySame DEF SessionOK, ProjectOK, Projection
<1>12. call[s].alone => RefreshOK(s)'
  BY <1>1, <1>4, <1>6, RefreshQuiet DEF SessionOK, Saving, Keeps
<1> QED
  BY <1>1, <1>4, <1>7, <1>8, <1>9, <1>10, <1>11, <1>12, KeepsInv

LEMMA StoreFamilyOK == ASSUME Inv, NEW s \in Sessions, StoreFamily(s) PROVE Inv'
<1>0. "storeFamily" \in Steps /\ "fetchFamily" \in Steps /\ "family" \in Rows /\ \E new : Do(s, "storeFamily", new)
  BY DEF StoreFamily, Steps, Rows
<1>1. /\ TypeOK /\ SessionOK(s) /\ ~Idle(s) /\ NextStep(s) = "storeFamily"
      /\ Then(s, <<>>) \in Calls /\ SameCall(Then(s, <<>>), call[s]) /\ Then(s, <<>>).todo = Tail(call[s].todo)
  BY <1>0, Before
<1>2. PICK m \in Summaries : m = call[s].sum
  BY <1>1 DEF SessionOK, Held, Projection
<1>3. UNCHANGED <<slice, effect, plan, contracts, events, familyView, workView>>
  BY DEF StoreFamily, facts, rows
<1>4. ASSUME Keeps(s), NextStep(s)' \in {"fetchFamily", "collect"}, call'[s].sum = call[s].sum,
             \A other : Owes(call[s].todo, other) => other = "storeFamily" \/ Owes(call'[s].todo, other),
             \A other : Owes(call'[s].todo, other) => other = "fetchFamily" \/ Owes(call[s].todo, other),
             family' \in Families, fresh' \in [Sessions -> SUBSET Rows],
             \A t \in Sessions : fresh'[t] \subseteq fresh[t],
             family'.slice_ids = family.slice_ids, family'.contract_ids = family.contract_ids,
             call[s].alone => ProjectOK(s)'
      PROVE  Inv'
  <2>1. TypeOK'
    BY <1>1, <1>3, <1>4 DEF TypeOK, Keeps
  <2>2. Frame(s)
    BY <1>3, <1>4 DEF Frame, Keeps
  <2>3. Held(s)'
    BY <1>1, <1>3, <1>4 DEF SessionOK, Held, Projection, Saving, Keeps
  <2>4. ListOK(s)'
    BY <1>4 DEF ListOK
  <2>5. call[s].alone => RefreshOK(s)'
    BY <1>1, <1>3, <1>4, RefreshQuiet DEF SessionOK, Saving, Keeps
  <2> QED
    BY <1>1, <1>4, <2>1, <2>2, <2>3, <2>4, <2>5, KeepsInv
<1>5. CASE Unwritten(s, "family")
  <2>1. PICK b \in Calls : b = Then(s, <<>>)
    BY <1>1
  <2>2. PICK d : d = [b EXCEPT !.tries = 0]
    OBVIOUS
  <2>3. /\ d \in Calls /\ d.todo = b.todo /\ d.name = b.name /\ d.subject = b.subject /\ d.alone = b.alone
        /\ d.sum = b.sum
    BY <2>2 DEF Calls
  <2>4. Do(s, "storeFamily", d)
    BY <1>5, <2>1, <2>2 DEF StoreFamily
  <2>5. /\ d.todo = Tail(call[s].todo) /\ d.name = call[s].name /\ d.alone = call[s].alone
        /\ d.subject = call[s].subject /\ d.sum = call[s].sum
    BY <1>1, <2>1, <2>3 DEF SameCall
  <2>6. /\ Keeps(s) /\ call'[s] = d /\ NextStep(s)' = "collect"
        /\ \A other : Owes(call[s].todo, other) => other = "storeFamily" \/ Owes(call'[s].todo, other)
        /\ \A other : Owes(call'[s].todo, other) => Owes(call[s].todo, other)
    BY <1>0, <2>3, <2>4, <2>5, Moves DEF Follows, Ends
  <2>7. PICK f \in Families : f = family
    BY <1>1 DEF TypeOK
  <2>8. PICK g : g = [f EXCEPT !.execution = m.execution, !.assurance = m.assurance, !.warnings = m.warnings]
    OBVIOUS
  <2>9. /\ g \in Families /\ g.slice_ids = f.slice_ids /\ g.contract_ids = f.contract_ids
        /\ g.execution = m.execution /\ g.assurance = m.assurance /\ g.warnings = m.warnings
    BY <2>8 DEF Families, Summaries
  <2>10. family' = g
    BY <1>2, <1>5, <2>7, <2>8 DEF StoreFamily
  <2>11. /\ fresh' \in [Sessions -> SUBSET Rows]
         /\ \A t \in Sessions : fresh'[t] = fresh[t] \ {"family"}
    BY <1>0, <1>1, <1>5, WrittenFacts DEF StoreFamily, TypeOK
  <2>12. ASSUME call[s].alone PROVE ProjectOK(s)'
    <3>1. m = Summary
      BY <1>1, <1>2, <2>12 DEF SessionOK, ProjectOK, Projection
    <3>2. m.warnings = family.warnings /\ m.execution = Execution /\ m.assurance = Assurance
      BY <1>1, <3>1, SummaryType
    <3>3. UNCHANGED <<Summary, Execution, Assurance>>
      BY <1>3, <2>9, <2>10, <3>2, SummarySame
    <3>4. FamilyCurrent'
      BY <2>9, <2>10, <3>2, <3>3 DEF FamilyCurrent
    <3> QED
      BY <1>2, <2>5, <2>6, <3>1, <3>3, <3>4 DEF ProjectOK, Projection
  <2> QED
    BY <1>4, <2>5, <2>6, <2>7, <2>9, <2>10, <2>11, <2>12
<1>6. CASE ~Unwritten(s, "family")
  <2>1. Do(s, "storeFamily", TryAgain(s, "fetchFamily")) /\ UNCHANGED <<family, fresh>>
    BY <1>6 DEF StoreFamily, rows
  <2>2. Follows("fetchFamily", "storeFamily")
    BY DEF Follows
  <2>3. /\ Keeps(s) /\ call'[s].sum = call[s].sum
        /\ \A other : Owes(call[s].todo, other) => other = "storeFamily" \/ Owes(call'[s].todo, other)
        /\ \A other : Owes(call'[s].todo, other) => other = "fetchFamily" \/ Owes(call[s].todo, other)
        /\ \/ NextStep(s)' = "fetchFamily"
           \/ NextStep(s)' = None /\ "storeFamily" \in Ends
           \/ Follows("storeFamily", NextStep(s)')
    BY <1>0, <2>1, <2>2, TryAgainFacts
  <2>4. NextStep(s)' \in {"fetchFamily", "collect"}
    BY <2>3 DEF Ends, Follows
  <2>5. ~call[s].alone
    BY <1>1, <1>6 DEF SessionOK, ProjectOK, Unwritten
  <2> QED
    BY <1>1, <1>4, <2>1, <2>3, <2>4, <2>5 DEF TypeOK
<1> QED
  BY <1>5, <1>6

LEMMA CollectOK == ASSUME Inv, NEW s \in Sessions, Collect(s) PROVE Inv'
<1>0. "collect" \in Steps /\ \E new : Do(s, "collect", new)
  BY DEF Collect, Steps
<1>1. /\ TypeOK /\ SessionOK(s) /\ ~Idle(s) /\ NextStep(s) = "collect"
      /\ call \in [Sessions -> Calls] /\ call[s].todo # <<>>
  BY <1>0, Before
<1>2. PICK e \in SUBSET Effects : e = OpenEffects
  BY <1>1, SummaryType
<1>a. <<"insertView">> \in Seq(Steps) /\ <<"fetchView", "storeView">> \in Seq(Steps)
  BY DEF Steps
<1>3. PICK p \in Seq(Steps) : p = IF familyView = None THEN <<"insertView">> ELSE <<"fetchView", "storeView">>
  BY <1>a
<1>4. PICK a \in {"insertView", "fetchView"} : a = IF familyView = None THEN "insertView" ELSE "fetchView"
  OBVIOUS
<1>5. PICK z \in {"insertView", "storeView"} : z = IF familyView = None THEN "insertView" ELSE "storeView"
  OBVIOUS
<1>b. PICK all : all = {"insertView", "fetchView", "storeView"} \cap {x \in Steps : Owes(p, x)}
  OBVIOUS
<1>6. Part(p, a, z, all)
  <2>1. p # <<>> /\ p[1] = a /\ p[Len(p)] = z
    BY <1>3, <1>4, <1>5
  <2>2. Linked(p)
    <3>1. \A i \in 1..(Len(p) - 1) : i = 1 /\ p[i] = "fetchView" /\ p[i + 1] = "storeView"
      BY <1>3
    <3> QED
      BY <3>1 DEF Linked, Follows
  <2>3. \A i \in 1..Len(p) : p[i] \in {"insertView", "fetchView", "storeView"} /\ p[i] \in Steps
    BY <1>3 DEF Steps
  <2> QED
    BY <1>b, <2>1, <2>2, <2>3 DEF Part, Owes
<1>7. /\ Then(s, p) \in Calls /\ SameCall(Then(s, p), call[s]) /\ Then(s, p).todo = p \o Tail(call[s].todo)
  BY <1>1, ThenFacts
<1>8. PICK b \in Calls : b = Then(s, p)
  BY <1>7
<1>9. PICK d : d = [b EXCEPT !.open = e]
  OBVIOUS
<1>10. /\ d \in Calls /\ d.todo = b.todo /\ d.name = b.name /\ d.subject = b.subject /\ d.alone = b.alone
       /\ d.open = e /\ d.sum = b.sum
  BY <1>9 DEF Calls
<1>11. Do(s, "collect", d)
  BY <1>2, <1>3, <1>8, <1>9 DEF Collect
<1>12. /\ d.todo = p \o Tail(call[s].todo) /\ d.name = call[s].name /\ d.alone = call[s].alone
       /\ d.subject = call[s].subject /\ d.sum = call[s].sum
  BY <1>7, <1>8, <1>10 DEF SameCall
<1>13. Replaces(z, "collect")
  BY DEF Replaces, Ends, Follows
<1>14. /\ Keeps(s) /\ call'[s] = d /\ NextStep(s)' = a
       /\ \A other : Owes(call[s].todo, other) => other = "collect" \/ Owes(call'[s].todo, other)
       /\ \A other : Owes(call'[s].todo, other) =>
            other \in {"insertView", "fetchView", "storeView"} \/ Owes(call[s].todo, other)
  <2>1. /\ Keeps(s) /\ call'[s] = d /\ NextStep(s)' = a
        /\ \A other : Owes(call[s].todo, other) => other = "collect" \/ Owes(call'[s].todo, other)
        /\ \A other : Owes(call'[s].todo, other) => other \in all \/ Owes(call[s].todo, other)
    <3>1. Branch(s, "collect", d, a, all)
      BY <1>6, <1>12, <1>13 DEF Branch
    <3> QED
      BY <1>0, <1>10, <1>11, <3>1, Branches
  <2> QED
    BY <1>b, <2>1
<1>c. /\ Owes(call'[s].todo, "materialise") => Owes(call[s].todo, "materialise")
      /\ Owes(call'[s].todo, "close") => Owes(call[s].todo, "close")
  BY <1>14
<1>15. UNCHANGED <<slice, effect, plan, contracts, events, family, familyView, workView, fresh>>
  BY DEF Collect, facts, rows
<1>16. TypeOK'
  BY <1>1, <1>14, <1>15 DEF TypeOK, Keeps
<1>17. Frame(s)
  BY <1>14, <1>15 DEF Frame, Keeps
<1>18. Held(s)'
  BY <1>1, <1>12, <1>14, <1>15, <1>c DEF SessionOK, Held, Projection, Saving, Keeps
<1>19. ListOK(s)'
  BY <1>14 DEF ListOK
<1>20. UNCHANGED <<Summary, OpenEffects, FamilyCurrent>>
  BY <1>15, SummarySame DEF FamilyCurrent
<1>21. call[s].alone => ProjectOK(s)'
  BY <1>1, <1>2, <1>4, <1>10, <1>12, <1>14, <1>15, <1>20 DEF SessionOK, ProjectOK, Projection
<1>22. call[s].alone => RefreshOK(s)'
  BY <1>1, <1>14, <1>15, RefreshQuiet DEF SessionOK, Saving, Keeps
<1> QED
  BY <1>1, <1>14, <1>16, <1>17, <1>18, <1>19, <1>21, <1>22, KeepsInv

\* The end of a projection, and what is left to show of it.
LEMMA ForgetFacts ==
  ASSUME Inv, NEW s \in Sessions, NEW step \in {"insertView", "storeView"}, Do(s, step, Forget(s))
  PROVE  /\ Keeps(s) /\ NextStep(s)' \in {None, "append", "build"}
         /\ \A other : Owes(call[s].todo, other) => other = step \/ Owes(call'[s].todo, other)
         /\ \A other : Owes(call'[s].todo, other) => Owes(call[s].todo, other)
<1>0. step \in Steps
  BY DEF Steps
<1>1. Then(s, <<>>) \in Calls /\ SameCall(Then(s, <<>>), call[s]) /\ Then(s, <<>>).todo = Tail(call[s].todo)
  BY <1>0, Before
<1>2. PICK b \in Calls : b = Then(s, <<>>)
  BY <1>1
<1>3. PICK d : d = [b EXCEPT !.sum = None, !.open = {}, !.tries = 0]
  OBVIOUS
<1>4. d \in Calls /\ d.todo = b.todo /\ d.name = b.name /\ d.subject = b.subject /\ d.alone = b.alone
  BY <1>3 DEF Calls
<1>5. Do(s, step, d)
  BY <1>2, <1>3 DEF Forget
<1>6. d.todo = Tail(call[s].todo) /\ d.name = call[s].name /\ d.alone = call[s].alone /\ d.subject = call[s].subject
  BY <1>1, <1>2, <1>4 DEF SameCall
<1> QED
  BY <1>0, <1>4, <1>5, <1>6, Moves DEF Follows, Ends

LEMMA ViewOK ==
  ASSUME Inv, NEW s \in Sessions, NEW step \in {"insertView", "storeView"}, NextStep(s) = step, ~Idle(s),
         Keeps(s), NextStep(s)' \in {None, "append", "build"},
         \A other : Owes(call[s].todo, other) => other = step \/ Owes(call'[s].todo, other),
         \A other : Owes(call'[s].todo, other) => Owes(call[s].todo, other),
         UNCHANGED <<slice, effect, plan, contracts, events, family, workView>>,
         familyView' \in Views \cup {None}, fresh' \in [Sessions -> SUBSET Rows],
         \A t \in Sessions : fresh'[t] \subseteq fresh[t],
         call[s].alone => Served'
  PROVE  Inv'
<1>1. TypeOK /\ SessionOK(s)
  BY DEF Inv
<1>2. TypeOK'
  BY <1>1 DEF TypeOK, Keeps
<1>3. Frame(s)
  BY DEF Frame, Keeps
<1>a. NextStep(s)' \notin Projection \cup Saving \cup {"storeList"}
  BY NoneFacts DEF Projection, Saving, Steps
<1>4. Held(s)'
  BY <1>1, <1>a DEF SessionOK, Held, Keeps
<1>5. ListOK(s)'
  BY <1>a DEF ListOK
<1>6. call[s].alone => ProjectOK(s)'
  BY <1>a DEF ProjectOK, Projection
<1>7. call[s].alone => RefreshOK(s)'
  BY <1>1, <1>a, RefreshQuiet DEF SessionOK, Saving, Keeps
<1> QED
  BY <1>2, <1>3, <1>4, <1>5, <1>6, <1>7, KeepsInv

\* The view that is written is the one that readers should be served.
LEMMA ComputedFacts ==
  ASSUME Inv, NEW s \in Sessions, NextStep(s) \in {"insertView", "storeView"}
  PROVE  /\ Computed(s) \in Views
         /\ call[s].alone /\ UNCHANGED <<slice, effect, family>> /\ familyView' = Computed(s) => Served'
<1>1. TypeOK /\ SessionOK(s)
  BY DEF Inv
<1>2. PICK c \in Calls : c = call[s]
  BY <1>1 DEF TypeOK
<1>3. c.sum \in Summaries /\ c.open \in SUBSET Effects
  BY <1>1, <1>2 DEF SessionOK, Held, Projection, Calls
<1>4. PICK v \in Views : v = [summary |-> c.sum, effects |-> c.open]
  BY <1>3 DEF Views
<1>5. Computed(s) = v /\ v.summary = c.sum /\ v.effects = c.open
  BY <1>2, <1>4 DEF Computed
<1>6. ASSUME call[s].alone, UNCHANGED <<slice, effect, family>>, familyView' = Computed(s)
      PROVE  Served'
  <2>1. c.sum = Summary /\ c.open = OpenEffects /\ FamilyCurrent
    BY <1>1, <1>2, <1>6 DEF SessionOK, ProjectOK, Projection
  <2>2. UNCHANGED <<Summary, OpenEffects, FamilyCurrent>>
    BY <1>6, SummarySame DEF FamilyCurrent
  <2> QED
    BY <1>5, <1>6, <2>1, <2>2, NoneAssumption DEF Served
<1> QED
  BY <1>4, <1>5, <1>6

LEMMA InsertViewOK == ASSUME Inv, NEW s \in Sessions, InsertView(s) PROVE Inv'
<1>0. "insertView" \in Steps /\ Do(s, "insertView", Forget(s))
  BY DEF InsertView, Steps
<1>1. TypeOK /\ SessionOK(s) /\ ~Idle(s) /\ NextStep(s) = "insertView"
  BY <1>0, Before
<1>2. /\ Keeps(s) /\ NextStep(s)' \in {None, "append", "build"}
      /\ \A other : Owes(call[s].todo, other) => other = "insertView" \/ Owes(call'[s].todo, other)
      /\ \A other : Owes(call'[s].todo, other) => Owes(call[s].todo, other)
  BY <1>0, ForgetFacts
<1>3. UNCHANGED <<slice, effect, plan, contracts, events, family, workView, fresh>>
  BY DEF InsertView, facts
<1>4. familyView' = IF familyView = None THEN Computed(s) ELSE familyView
  BY DEF InsertView
<1>5. Computed(s) \in Views
  BY <1>1, ComputedFacts
<1>6. familyView' \in Views \cup {None} /\ fresh' \in [Sessions -> SUBSET Rows]
  BY <1>1, <1>3, <1>4, <1>5 DEF TypeOK
<1>7. ASSUME call[s].alone PROVE Served'
  <2>1. familyView' = Computed(s)
    BY <1>1, <1>4, <1>7 DEF SessionOK, ProjectOK
  <2> QED
    BY <1>1, <1>3, <1>7, <2>1, ComputedFacts
<1> QED
  BY <1>1, <1>2, <1>3, <1>6, <1>7, ViewOK

LEMMA FetchViewOK == ASSUME Inv, NEW s \in Sessions, FetchView(s) PROVE Inv'
<1>0. "fetchView" \in Steps /\ "familyView" \in Rows /\ \E new : Do(s, "fetchView", new)
  BY DEF FetchView, Steps, Rows
<1>1. /\ TypeOK /\ SessionOK(s) /\ ~Idle(s) /\ NextStep(s) = "fetchView"
      /\ Then(s, <<>>) \in Calls /\ SameCall(Then(s, <<>>), call[s]) /\ Then(s, <<>>).todo = Tail(call[s].todo)
  BY <1>0, Before
<1>2. PICK d \in Calls : d = Then(s, <<>>)
  BY <1>1
<1>3. Do(s, "fetchView", d)
  BY <1>2 DEF FetchView
<1>4. /\ Keeps(s) /\ call'[s] = d /\ NextStep(s)' = "storeView" /\ d.sum = call[s].sum /\ d.open = call[s].open
      /\ \A other : Owes(call[s].todo, other) => other = "fetchView" \/ Owes(call'[s].todo, other)
      /\ \A other : Owes(call'[s].todo, other) => Owes(call[s].todo, other)
  BY <1>0, <1>1, <1>2, <1>3, Moves DEF Follows, Ends, SameCall
<1>5. /\ fresh' \in [Sessions -> SUBSET Rows] /\ "familyView" \in fresh'[s]
      /\ \A t \in Sessions : t # s => fresh'[t] = fresh[t]
  BY <1>0, <1>1, FetchedFacts DEF FetchView, TypeOK
<1>6. UNCHANGED <<slice, effect, plan, contracts, events, family, familyView, workView>>
  BY DEF FetchView, facts, rows
<1>7. TypeOK'
  BY <1>1, <1>4, <1>5, <1>6 DEF TypeOK, Keeps
<1>8. Frame(s)
  BY <1>4, <1>5, <1>6 DEF Frame, Keeps
<1>9. Held(s)'
  BY <1>1, <1>4, <1>6 DEF SessionOK, Held, Projection, Saving, Keeps
<1>10. ListOK(s)'
  BY <1>4 DEF ListOK
<1>11. UNCHANGED <<Summary, OpenEffects, FamilyCurrent>>
  BY <1>6, SummarySame DEF FamilyCurrent
<1>12. call[s].alone => ProjectOK(s)'
  BY <1>1, <1>4, <1>5, <1>11 DEF SessionOK, ProjectOK, Projection
<1>13. call[s].alone => RefreshOK(s)'
  BY <1>1, <1>4, <1>6, RefreshQuiet DEF SessionOK, Saving, Keeps
<1> QED
  BY <1>1, <1>4, <1>7, <1>8, <1>9, <1>10, <1>12, <1>13, KeepsInv

LEMMA StoreViewOK == ASSUME Inv, NEW s \in Sessions, StoreView(s) PROVE Inv'
<1>0. "storeView" \in Steps /\ "fetchView" \in Steps /\ \E new : Do(s, "storeView", new)
  BY DEF StoreView, Steps
<1>1. TypeOK /\ SessionOK(s) /\ ~Idle(s) /\ NextStep(s) = "storeView"
  BY <1>0, Before
<1>2. UNCHANGED <<slice, effect, plan, contracts, events, family, workView>>
  BY DEF StoreView, facts, rows
<1>3. call[s].alone => Unwritten(s, "familyView")
  BY <1>1 DEF SessionOK, ProjectOK, Unwritten
<1>4. ASSUME Do(s, "storeView", Forget(s))
      PROVE  /\ Keeps(s) /\ NextStep(s)' \in {None, "append", "build"}
             /\ \A other : Owes(call[s].todo, other) => other = "storeView" \/ Owes(call'[s].todo, other)
             /\ \A other : Owes(call'[s].todo, other) => Owes(call[s].todo, other)
  BY <1>4, ForgetFacts
<1>5. CASE Unwritten(s, "familyView")
  <2>1. Do(s, "storeView", Forget(s)) /\ familyView' = Computed(s) /\ Written("familyView")
    BY <1>5 DEF StoreView
  <2>2. /\ fresh' \in [Sessions -> SUBSET Rows]
        /\ \A t \in Sessions : fresh'[t] = fresh[t] \ {"familyView"}
    BY <1>1, <2>1, WrittenFacts DEF TypeOK, Rows
  <2>3. familyView' \in Views /\ (call[s].alone => Served')
    BY <1>1, <1>2, <2>1, ComputedFacts
  <2> QED
    BY <1>1, <1>2, <1>4, <2>1, <2>2, <2>3, ViewOK
<1>6. CASE ~Unwritten(s, "familyView") /\ ~Retries(call[s])
  <2>1. Do(s, "storeView", Forget(s)) /\ UNCHANGED <<familyView, fresh>>
    BY <1>6 DEF StoreView, rows
  <2>2. familyView' \in Views \cup {None} /\ fresh' \in [Sessions -> SUBSET Rows]
    BY <1>1, <2>1 DEF TypeOK
  <2> QED
    BY <1>1, <1>2, <1>3, <1>4, <1>6, <2>1, <2>2, ViewOK
<1>7. CASE ~Unwritten(s, "familyView") /\ Retries(call[s])
  <2>1. Do(s, "storeView", TryAgain(s, "fetchView")) /\ UNCHANGED <<familyView, fresh>>
    BY <1>7 DEF StoreView, rows
  <2>2. Follows("fetchView", "storeView")
    BY DEF Follows
  <2>3. /\ Keeps(s) /\ call'[s].sum = call[s].sum
        /\ \A other : Owes(call[s].todo, other) => other = "storeView" \/ Owes(call'[s].todo, other)
        /\ \A other : Owes(call'[s].todo, other) => other = "fetchView" \/ Owes(call[s].todo, other)
        /\ \/ NextStep(s)' = "fetchView"
           \/ NextStep(s)' = None /\ "storeView" \in Ends
           \/ Follows("storeView", NextStep(s)')
    BY <1>0, <2>1, <2>2, TryAgainFacts
  <2>4. NextStep(s)' \in {"fetchView", None, "append", "build"}
    BY <2>3 DEF Follows
  <2>5. TypeOK'
    BY <1>1, <1>2, <2>1, <2>3 DEF TypeOK, Keeps
  <2>6. Frame(s)
    BY <1>2, <2>1, <2>3 DEF Frame, Keeps
  <2>7. /\ Owes(call'[s].todo, "materialise") => Owes(call[s].todo, "materialise")
        /\ Owes(call'[s].todo, "close") => Owes(call[s].todo, "close")
    BY <2>3
  <2>8. NextStep(s)' \notin Saving /\ NextStep(s)' # "storeList"
    BY <2>4, NoneFacts DEF Saving, Steps
  <2>9. Held(s)'
    BY <1>1, <1>2, <2>3, <2>7, <2>8 DEF SessionOK, Held, Projection, Keeps
  <2>10. ListOK(s)'
    BY <2>8 DEF ListOK
  <2> QED
    BY <1>1, <1>3, <1>7, <2>3, <2>5, <2>6, <2>9, <2>10, KeepsInv
<1> QED
  BY <1>5, <1>6, <1>7

-----------------------------------------------------------------------------
(* Steps of a refresh of the Work view, and the closure of a Slice. *)

LEMMA AppendStepOK == ASSUME Inv, NEW s \in Sessions, AppendStep(s) PROVE Inv'
<1>0. "append" \in Steps /\ \E new : Do(s, "append", new)
  BY DEF AppendStep, Steps
<1>1. /\ TypeOK /\ SessionOK(s) /\ ~Idle(s) /\ NextStep(s) = "append"
      /\ Then(s, <<>>) \in Calls /\ SameCall(Then(s, <<>>), call[s]) /\ Then(s, <<>>).todo = Tail(call[s].todo)
  BY <1>0, Before
<1>2. PICK d \in Calls : d = Then(s, <<>>)
  BY <1>1
<1>3. Do(s, "append", d)
  BY <1>2 DEF AppendStep
<1>4. /\ Keeps(s) /\ call'[s] = d /\ NextStep(s)' = "build"
      /\ \A other : Owes(call[s].todo, other) => other = "append" \/ Owes(call'[s].todo, other)
      /\ \A other : Owes(call'[s].todo, other) => Owes(call[s].todo, other)
  BY <1>0, <1>1, <1>2, <1>3, Moves DEF Follows, Ends, SameCall
<1>5. UNCHANGED <<slice, effect, plan, contracts, family, familyView, workView, fresh>> /\ events' = events + 1
  BY DEF AppendStep, rows
<1>6. TypeOK'
  BY <1>1, <1>4, <1>5 DEF TypeOK, Keeps
<1>7. Frame(s)
  BY <1>4, <1>5 DEF Frame, Keeps
<1>8. Held(s)'
  BY <1>1, <1>4, <1>5 DEF SessionOK, Held, Projection, Saving, Keeps
<1>9. ListOK(s)'
  BY <1>4 DEF ListOK
<1>10. call[s].alone => ProjectOK(s)'
  BY <1>1, <1>4, <1>5, ProjectQuiet, ServedSame DEF SessionOK, Projection, Keeps
<1>11. Owes(call'[s].todo, "build")
  BY <1>4, NextOwed, NoneFacts DEF Keeps, Steps
<1>12. RefreshOK(s)'
  BY <1>4, <1>11 DEF RefreshOK, Saving
<1> QED
  BY <1>1, <1>4, <1>6, <1>7, <1>8, <1>9, <1>10, <1>12, KeepsInv

LEMMA BuildOK == ASSUME Inv, NEW s \in Sessions, Build(s) PROVE Inv'
<1>0. "build" \in Steps /\ \E new : Do(s, "build", new)
  BY DEF Build, Steps
<1>1. /\ TypeOK /\ SessionOK(s) /\ ~Idle(s) /\ NextStep(s) = "build"
      /\ Then(s, <<>>) \in Calls /\ SameCall(Then(s, <<>>), call[s]) /\ Then(s, <<>>).todo = Tail(call[s].todo)
  BY <1>0, Before
<1>2. PICK w \in WorkViews : w = WorkNow
  BY <1>1, SummaryType
<1>3. PICK b \in Calls : b = Then(s, <<>>)
  BY <1>1
<1>4. PICK d : d = [b EXCEPT !.work = w]
  OBVIOUS
<1>5. /\ d \in Calls /\ d.todo = b.todo /\ d.name = b.name /\ d.subject = b.subject /\ d.alone = b.alone /\ d.work = w
  BY <1>4 DEF Calls
<1>6. Do(s, "build", d)
  BY <1>2, <1>3, <1>4 DEF Build
<1>7. /\ Keeps(s) /\ call'[s] = d /\ NextStep(s)' = "find"
      /\ \A other : Owes(call[s].todo, other) => other = "build" \/ Owes(call'[s].todo, other)
      /\ \A other : Owes(call'[s].todo, other) => Owes(call[s].todo, other)
  BY <1>0, <1>1, <1>3, <1>5, <1>6, Moves DEF Follows, Ends, SameCall
<1>8. UNCHANGED <<slice, effect, plan, contracts, events, family, familyView, workView, fresh>>
  BY DEF Build, facts, rows
<1>9. TypeOK'
  BY <1>1, <1>7, <1>8 DEF TypeOK, Keeps
<1>10. Frame(s)
  BY <1>7, <1>8 DEF Frame, Keeps
<1>11. Held(s)'
  BY <1>1, <1>5, <1>7, <1>8 DEF SessionOK, Held, Projection, Saving, Keeps
<1>12. ListOK(s)'
  BY <1>7 DEF ListOK
<1>13. call[s].alone => ProjectOK(s)'
  BY <1>1, <1>7, <1>8, ProjectQuiet, ServedSame DEF SessionOK, Projection, Keeps
<1>14. RefreshOK(s)'
  BY <1>2, <1>5, <1>7, <1>8, SummarySame DEF RefreshOK, Saving
<1> QED
  BY <1>1, <1>7, <1>9, <1>10, <1>11, <1>12, <1>13, <1>14, KeepsInv

LEMMA FindOK == ASSUME Inv, NEW s \in Sessions, Find(s) PROVE Inv'
<1>0. "find" \in Steps /\ "workView" \in Rows /\ \E new : Do(s, "find", new)
  BY DEF Find, Steps, Rows
<1>1. /\ TypeOK /\ SessionOK(s) /\ ~Idle(s) /\ NextStep(s) = "find"
      /\ call \in [Sessions -> Calls] /\ call[s].todo # <<>>
  BY <1>0, Before
<1>2. PICK a \in {"insertWork", "saveWork"} : a = IF workView = None THEN "insertWork" ELSE "saveWork"
  OBVIOUS
<1>3. <<a>> = IF workView = None THEN <<"insertWork">> ELSE <<"saveWork">>
  BY <1>2
<1>4. Part(<<a>>, a, a, {a}) /\ <<a>> \in Seq(Steps)
  <2>1. a \in Steps
    BY DEF Steps
  <2> QED
    BY <2>1, OneStep DEF Part
<1>5. /\ Then(s, <<a>>) \in Calls /\ SameCall(Then(s, <<a>>), call[s])
      /\ Then(s, <<a>>).todo = <<a>> \o Tail(call[s].todo)
  BY <1>1, <1>4, ThenFacts
<1>6. PICK d \in Calls : d = Then(s, <<a>>)
  BY <1>5
<1>7. Do(s, "find", d)
  BY <1>3, <1>6 DEF Find
<1>8. Replaces(a, "find")
  BY DEF Replaces, Ends, Follows
<1>9. Branch(s, "find", d, a, {a})
  BY <1>4, <1>5, <1>6, <1>8 DEF Branch, SameCall
<1>10. /\ Keeps(s) /\ call'[s] = d /\ NextStep(s)' = a
       /\ \A other : Owes(call[s].todo, other) => other = "find" \/ Owes(call'[s].todo, other)
       /\ \A other : Owes(call'[s].todo, other) => other \in {a} \/ Owes(call[s].todo, other)
  BY <1>0, <1>6, <1>7, <1>9, Branches
<1>11. d.work = call[s].work
  BY <1>5, <1>6 DEF SameCall
<1>12. /\ fresh' \in [Sessions -> SUBSET Rows] /\ "workView" \in fresh'[s]
       /\ \A t \in Sessions : t # s => fresh'[t] = fresh[t]
  BY <1>0, <1>1, FetchedFacts DEF Find, TypeOK
<1>13. UNCHANGED <<slice, effect, plan, contracts, events, family, familyView, workView>>
  BY DEF Find, facts, rows
<1>14. TypeOK'
  BY <1>1, <1>10, <1>12, <1>13 DEF TypeOK, Keeps
<1>15. Frame(s)
  BY <1>10, <1>12, <1>13 DEF Frame, Keeps
<1>16. /\ Owes(call'[s].todo, "materialise") => Owes(call[s].todo, "materialise")
       /\ Owes(call'[s].todo, "close") => Owes(call[s].todo, "close")
       /\ Owes(call[s].todo, "summarise") => Owes(call'[s].todo, "summarise")
  BY <1>10
<1>17. Held(s)'
  BY <1>1, <1>10, <1>11, <1>13, <1>16 DEF SessionOK, Held, Projection, Saving, Keeps
<1>18. ListOK(s)'
  BY <1>10 DEF ListOK
<1>19. call[s].alone => ProjectOK(s)'
  BY <1>1, <1>10, <1>13, <1>16, ProjectQuiet, ServedSame DEF SessionOK, Projection, Keeps
<1>20. call[s].alone => RefreshOK(s)'
  BY <1>1, <1>2, <1>10, <1>11, <1>12, <1>13, SummarySame DEF SessionOK, RefreshOK, Saving
<1> QED
  BY <1>1, <1>10, <1>14, <1>15, <1>17, <1>18, <1>19, <1>20, KeepsInv

\* A call that ends: its session has none.
LEMMA EndFacts ==
  ASSUME Inv, NEW s \in Sessions, call' = [call EXCEPT ![s] = NoCall], fresh' = [fresh EXCEPT ![s] = {}]
  PROVE  /\ call' \in [Sessions -> Calls] /\ call'[s] = NoCall
         /\ \A t \in Sessions : t # s => call'[t] = call[t]
         /\ fresh' \in [Sessions -> SUBSET Rows] /\ \A t \in Sessions : fresh'[t] \subseteq fresh[t]
         /\ Idle(s)' /\ Proper(call'[s].todo) /\ call'[s].todo = <<>> /\ ~call'[s].alone
         /\ Held(s)' /\ ListOK(s)'
<1>1. call \in [Sessions -> Calls] /\ fresh \in [Sessions -> SUBSET Rows]
  BY DEF Inv, TypeOK
<1>2. /\ call' \in [Sessions -> Calls] /\ call'[s] = NoCall
      /\ \A t \in Sessions : t # s => call'[t] = call[t]
      /\ fresh' \in [Sessions -> SUBSET Rows] /\ \A t \in Sessions : fresh'[t] \subseteq fresh[t]
  BY <1>1, NoCallType
<1>3. Idle(s)' /\ call'[s].todo = <<>> /\ ~call'[s].alone
  BY <1>2, NoCallType DEF Idle
<1>4. Proper(call'[s].todo) /\ \A step : ~Owes(call'[s].todo, step)
  BY <1>3 DEF Proper, Linked, Owes
<1>5. NextStep(s)' = None
  BY <1>3 DEF NextStep
<1>6. NextStep(s)' \notin Projection \cup Saving \cup {"storeList"} /\ call'[s].name # "register_contract"
  BY <1>2, <1>5, NoneFacts, NoCallType DEF Projection, Saving, Steps, OperationNames
<1>7. Held(s)' /\ ListOK(s)'
  BY <1>4, <1>6 DEF Held, ListOK
<1> QED
  BY <1>2, <1>3, <1>4, <1>7

LEMMA FailOK == ASSUME Inv, NEW s \in Sessions, ~Idle(s), Fail(s) PROVE Inv'
<1>1. /\ call' \in [Sessions -> Calls] /\ call'[s] = NoCall
      /\ \A t \in Sessions : t # s => call'[t] = call[t]
      /\ fresh' \in [Sessions -> SUBSET Rows] /\ \A t \in Sessions : fresh'[t] \subseteq fresh[t]
      /\ Idle(s)' /\ Proper(call'[s].todo) /\ call'[s].todo = <<>> /\ ~call'[s].alone
      /\ Held(s)' /\ ListOK(s)'
  BY EndFacts DEF Fail
<1>2. UNCHANGED <<slice, effect, plan, contracts, events, family, familyView, workView, calls>> /\ answered' = "FAILED"
  BY DEF Fail, facts, rows
<1>3. TypeOK'
  BY <1>1, <1>2 DEF Inv, TypeOK
<1>4. Frame(s)
  BY <1>1, <1>2 DEF Frame
<1>5. SessionOK(s)'
  BY <1>1 DEF SessionOK
<1> QED
  BY <1>2, <1>3, <1>4, <1>5, StepInv

\* The Work view is saved: it is what the call has built.
LEMMA SavedOK ==
  ASSUME Inv, NEW s \in Sessions, NEW step \in {"insertWork", "saveWork"},
         Do(s, step, [Then(s, <<>>) EXCEPT !.work = None]), workView' = call[s].work, Written("workView"),
         UNCHANGED <<facts, family, familyView>>
  PROVE  Inv'
<1>0. step \in Steps
  BY DEF Steps
<1>1. /\ TypeOK /\ SessionOK(s) /\ ~Idle(s) /\ NextStep(s) = step
      /\ Then(s, <<>>) \in Calls /\ SameCall(Then(s, <<>>), call[s]) /\ Then(s, <<>>).todo = Tail(call[s].todo)
  BY <1>0, Before
<1>2. PICK b \in Calls : b = Then(s, <<>>)
  BY <1>1
<1>3. PICK d : d = [b EXCEPT !.work = None]
  OBVIOUS
<1>4. d \in Calls /\ d.todo = b.todo /\ d.name = b.name /\ d.subject = b.subject /\ d.alone = b.alone
  BY <1>3 DEF Calls
<1>5. Do(s, step, d)
  BY <1>2, <1>3
<1>6. d.todo = Tail(call[s].todo) /\ d.name = call[s].name /\ d.alone = call[s].alone /\ d.subject = call[s].subject
  BY <1>1, <1>2, <1>4 DEF SameCall
<1>7. /\ Keeps(s) /\ (NextStep(s)' = None \/ Follows(step, NextStep(s)'))
      /\ \A other : Owes(call[s].todo, other) => other = step \/ Owes(call'[s].todo, other)
      /\ \A other : Owes(call'[s].todo, other) => Owes(call[s].todo, other)
  BY <1>0, <1>4, <1>5, <1>6, Moves
<1>8. NextStep(s)' \in {None, "build", "summarise", "close"}
  BY <1>7 DEF Follows
<1>9. NextStep(s)' \notin Projection \cup Saving \cup {"storeList"}
  BY <1>8, NoneFacts DEF Projection, Saving, Steps
<1>10. UNCHANGED <<slice, effect, plan, contracts, events, family, familyView>>
  BY DEF facts
<1>11. /\ fresh' \in [Sessions -> SUBSET Rows]
       /\ \A t \in Sessions : fresh'[t] = fresh[t] \ {"workView"}
  BY <1>1, WrittenFacts DEF TypeOK
<1>12. workView' \in WorkViews
  BY <1>1 DEF SessionOK, Held, Saving
<1>13. TypeOK'
  BY <1>1, <1>7, <1>10, <1>11, <1>12 DEF TypeOK, Keeps
<1>14. Frame(s)
  BY <1>7, <1>10, <1>11 DEF Frame, Keeps
<1>15. Held(s)'
  BY <1>1, <1>7, <1>9, <1>10 DEF SessionOK, Held, Keeps
<1>16. ListOK(s)'
  BY <1>9 DEF ListOK
<1>17. call[s].alone => ProjectOK(s)'
  BY <1>1, <1>7, <1>9, <1>10, ProjectQuiet, ServedSame DEF SessionOK, Projection, Keeps
<1>18. ASSUME call[s].alone PROVE RefreshOK(s)'
  <2>1. call[s].work = WorkNow
    BY <1>1, <1>18 DEF SessionOK, RefreshOK, Saving
  <2>2. (workView = WorkNow)'
    BY <1>10, <2>1, SummarySame
  <2> QED
    BY <1>9, <2>2 DEF RefreshOK, Saving
<1> QED
  BY <1>1, <1>7, <1>13, <1>14, <1>15, <1>16, <1>17, <1>18, KeepsInv

LEMMA SaveWorkOK == ASSUME Inv, NEW s \in Sessions, SaveWork(s) PROVE Inv'
<1>1. CASE Unwritten(s, "workView")
  BY <1>1, SavedOK DEF SaveWork
<1>2. CASE ~Unwritten(s, "workView")
  <2>1. NextStep(s) = "saveWork" /\ Fail(s)
    BY <1>2 DEF SaveWork
  <2>2. ~Idle(s)
    BY <2>1, NoneFacts DEF Inv, SessionOK, NextStep, Steps
  <2> QED
    BY <2>1, <2>2, FailOK
<1> QED
  BY <1>1, <1>2

LEMMA InsertWorkOK == ASSUME Inv, NEW s \in Sessions, InsertWork(s) PROVE Inv'
<1>1. CASE workView = None
  BY <1>1, SavedOK DEF InsertWork
<1>2. CASE workView # None
  <2>1. NextStep(s) = "insertWork" /\ Fail(s)
    BY <1>2 DEF InsertWork
  <2>2. ~Idle(s)
    BY <2>1, NoneFacts DEF Inv, SessionOK, NextStep, Steps
  <2> QED
    BY <2>1, <2>2, FailOK
<1> QED
  BY <1>1, <1>2

LEMMA CloseOK == ASSUME Inv, NEW s \in Sessions, Close(s) PROVE Inv'
<1>0. "close" \in Steps /\ \E new : Do(s, "close", new)
  BY DEF Close, Steps
<1>1. /\ TypeOK /\ SessionOK(s) /\ ~Idle(s) /\ NextStep(s) = "close" /\ Owes(call[s].todo, "close")
      /\ call \in [Sessions -> Calls] /\ call[s].todo \in Seq(Steps) /\ call[s].todo # <<>> /\ Proper(call[s].todo)
      /\ Then(s, <<>>) \in Calls /\ SameCall(Then(s, <<>>), call[s]) /\ Then(s, <<>>).todo = Tail(call[s].todo)
  BY <1>0, Before
<1>2. PICK x \in Slices : x = call[s].subject
  BY <1>1 DEF SessionOK, Held
<1>3. UNCHANGED <<effect, plan, contracts, events, family, familyView, workView, fresh>>
  BY DEF Close, rows
<1>4. /\ slice' \in [Slices -> SliceDocs \cup {None}]
      /\ \A y \in Slices : slice[y] # None => slice'[y] # None
  <2>1. slice \in [Slices -> SliceDocs \cup {None}] /\ slice[x] # None
    BY <1>1, <1>2 DEF TypeOK, SessionOK, Held
  <2>2. PICK c \in SliceDocs : c = slice[x]
    BY <2>1
  <2>3. PICK d : d = [c EXCEPT !.closed = TRUE]
    OBVIOUS
  <2>4. d \in SliceDocs
    BY <2>3 DEF SliceDocs
  <2>5. slice' = slice \/ slice' = [slice EXCEPT ![x].closed = TRUE]
    BY <1>2 DEF Close
  <2>6. slice' = slice \/ slice' = [slice EXCEPT ![x] = d]
    BY <2>1, <2>2, <2>3, <2>5
  <2> QED
    BY <2>1, <2>4, <2>6, NoneAssumption
<1>5. Owes(call[s].todo, "summarise")
  <2>1. Head(call[s].todo) = "close"
    BY <1>1 DEF NextStep
  <2>2. PICK q \in Seq(Steps) : q = call[s].todo
    BY <1>1
  <2> QED
    BY <1>1, <2>1, <2>2, LeadsToSummary
<1>6. ASSUME Keeps(s), NextStep(s)' \in {"append", "summarise"},
             \A other : Owes(call[s].todo, other) => other = "close" \/ Owes(call'[s].todo, other),
             \A other : Owes(call'[s].todo, other) => other \in {"append", "build", "find"} \/ Owes(call[s].todo, other)
      PROVE  Inv'
  <2>1. TypeOK'
    BY <1>1, <1>3, <1>4, <1>6 DEF TypeOK, Keeps
  <2>2. Frame(s)
    BY <1>3, <1>4, <1>6 DEF Frame, Keeps
  <2>3. /\ Owes(call'[s].todo, "materialise") => Owes(call[s].todo, "materialise")
        /\ Owes(call'[s].todo, "close") => Owes(call[s].todo, "close")
        /\ Owes(call'[s].todo, "summarise")
    BY <1>5, <1>6
  <2>4. Held(s)'
    BY <1>1, <1>4, <1>6, <2>3 DEF SessionOK, Held, Projection, Saving, Keeps
  <2>5. ListOK(s)'
    BY <1>6 DEF ListOK
  <2>6. ProjectOK(s)'
    BY <1>6, <2>3 DEF ProjectOK, Projection
  <2>7. call[s].alone => RefreshOK(s)'
    BY <1>1, <1>3, <1>6, RefreshQuiet DEF SessionOK, Saving, Keeps
  <2> QED
    BY <1>1, <1>6, <2>1, <2>2, <2>4, <2>5, <2>6, <2>7, KeepsInv
<1>7. CASE OpenEffects = {}
  <2>1. AppendEvent \in Seq(Steps) /\ Part(AppendEvent, "append", "find", {"append", "build", "find"})
    <3>1. Part(AppendEvent, "append", "find", {"append"} \cup {"build", "find"})
      BY Parts
    <3>2. {"append"} \cup {"build", "find"} = {"append", "build", "find"}
      OBVIOUS
    <3> QED
      BY <3>1, <3>2 DEF Part
  <2>2. /\ Then(s, AppendEvent) \in Calls /\ SameCall(Then(s, AppendEvent), call[s])
        /\ Then(s, AppendEvent).todo = AppendEvent \o Tail(call[s].todo)
    BY <1>1, <2>1, ThenFacts
  <2>3. PICK d \in Calls : d = Then(s, AppendEvent)
    BY <2>2
  <2>4. Do(s, "close", d)
    BY <1>7, <2>3 DEF Close
  <2>5. Replaces("find", "close")
    BY DEF Replaces, Ends, Follows
  <2>6. Branch(s, "close", d, "append", {"append", "build", "find"})
    BY <2>1, <2>2, <2>3, <2>5 DEF Branch, SameCall
  <2>7. /\ Keeps(s) /\ NextStep(s)' = "append"
        /\ \A other : Owes(call[s].todo, other) => other = "close" \/ Owes(call'[s].todo, other)
        /\ \A other : Owes(call'[s].todo, other) => other \in {"append", "build", "find"} \/ Owes(call[s].todo, other)
    BY <1>0, <2>3, <2>4, <2>6, Branches
  <2> QED
    BY <1>6, <2>7
<1>8. CASE OpenEffects # {}
  <2>1. PICK d \in Calls : d = Then(s, <<>>)
    BY <1>1
  <2>2. Do(s, "close", d)
    BY <1>8, <2>1 DEF Close
  <2>3. /\ Keeps(s) /\ NextStep(s)' = "summarise"
        /\ \A other : Owes(call[s].todo, other) => other = "close" \/ Owes(call'[s].todo, other)
        /\ \A other : Owes(call'[s].todo, other) => Owes(call[s].todo, other)
    BY <1>0, <1>1, <2>1, <2>2, Moves DEF Follows, Ends, SameCall
  <2> QED
    BY <1>6, <2>3
<1> QED
  BY <1>7, <1>8

-----------------------------------------------------------------------------
(* The answer, and the beginning of a call. *)

LEMMA AnswerStepOK == ASSUME Inv, NEW s \in Sessions, Answer(s) PROVE Inv'
<1>1. TypeOK /\ SessionOK(s) /\ ~Idle(s) /\ answered \notin OperationNames
  BY DEF Inv, AnswerOK, Answer
<1>2. /\ call' \in [Sessions -> Calls] /\ call'[s] = NoCall
      /\ \A t \in Sessions : t # s => call'[t] = call[t]
      /\ fresh' \in [Sessions -> SUBSET Rows] /\ \A t \in Sessions : fresh'[t] \subseteq fresh[t]
      /\ Idle(s)' /\ Proper(call'[s].todo) /\ call'[s].todo = <<>> /\ ~call'[s].alone
      /\ Held(s)' /\ ListOK(s)'
  BY EndFacts DEF Answer
<1>3. UNCHANGED <<slice, effect, plan, contracts, events, family, familyView, workView, calls>>
  BY DEF Answer, facts, rows
<1>4. PICK c \in Calls : c = call[s]
  BY <1>1 DEF TypeOK
<1>5. c.name \in OperationNames /\ c.todo = <<>> /\ answered' = IF c.alone THEN c.name ELSE answered
  BY <1>1, <1>4 DEF Answer, Idle, Calls
<1>6. TypeOK'
  BY <1>1, <1>2, <1>3, <1>5 DEF TypeOK
<1>7. Frame(s)
  BY <1>2, <1>3 DEF Frame
<1>8. \A t \in Sessions : SessionOK(t)'
  <2>1. SessionOK(s)'
    BY <1>2 DEF SessionOK
  <2> QED
    BY <1>1, <1>7, <2>1, OthersOK
<1>9. CASE ~c.alone
  <2>1. answered' = answered
    BY <1>5, <1>9
  <2> QED
    BY <1>1, <1>6, <1>8, <2>1, NoneFacts DEF Inv, AnswerOK, LoneCallProjects, LoneCallRefreshes
<1>10. CASE c.alone
  <2>1. OthersIdle(s) /\ ProjectOK(s) /\ RefreshOK(s) /\ answered' = c.name
    BY <1>1, <1>4, <1>5, <1>10 DEF SessionOK
  <2>2. \A t \in Sessions : Idle(t)'
    BY <1>2, <2>1 DEF OthersIdle, Idle
  <2>3. NextStep(s) \notin Projection \cup Saving
    BY <1>4, <1>5, NoneFacts DEF NextStep, Projection, Saving, Steps
  <2>4. \A step : ~Owes(call[s].todo, step)
    BY <1>4, <1>5 DEF Owes
  <2>5. c.name \in Projecting => Served
    BY <1>4, <2>1, <2>3, <2>4 DEF ProjectOK
  <2>6. c.name \in Refreshing => workView = WorkNow
    BY <1>4, <2>1, <2>3, <2>4 DEF RefreshOK
  <2>7. LoneCallProjects'
    <3>1. Served => Served'
      BY <1>3, ServedSame
    <3> QED
      BY <2>1, <2>5, <3>1 DEF LoneCallProjects, Served, FamilyCurrent
  <2>8. LoneCallRefreshes'
    BY <1>3, <2>1, <2>6, SummarySame DEF LoneCallRefreshes
  <2> QED
    BY <1>6, <1>8, <2>2, <2>7, <2>8 DEF Inv, AnswerOK
<1> QED
  BY <1>9, <1>10

\* A call begins with the script of its operation.
LEMMA BeginOK ==
  ASSUME Inv, NEW s \in Sessions, NEW name \in OperationNames, NEW subject \in Subjects \cup {None}, NEW script,
         Begin(s, name, subject, script), Scripted(name, script),
         slice' \in [Slices -> SliceDocs \cup {None}], \A x \in Slices : slice[x] # None => slice'[x] # None,
         effect' \in [Effects -> {"ABSENT", "OPEN", "SETTLED"}],
         plan' \in [Plans -> {"ABSENT", "OPEN", "CLOSED"}],
         contracts' \subseteq Contracts, events' \in Nat,
         name = "submit_plan" => subject \in Plans,
         name = "verify_slice" => subject \in Slices /\ slice'[subject] # None,
         name = "register_contract" => subject \in Contracts
  PROVE  Inv'
<1>1. TypeOK /\ call \in [Sessions -> Calls]
  BY DEF Inv, TypeOK
<1>2. UNCHANGED <<family, familyView, workView>>
  BY DEF Begin, rows
<1>3. PICK alone \in BOOLEAN : alone <=> \A t \in Sessions : Idle(t)
  OBVIOUS
<1>4. PICK d : d = [NoCall EXCEPT !.name = name, !.todo = script, !.subject = subject, !.alone = alone]
  OBVIOUS
<1>5. /\ d \in Calls /\ d.name = name /\ d.todo = script /\ d.subject = subject /\ (d.alone <=> alone)
  <2>1. script \in Seq(Steps)
    BY DEF Scripted
  <2> QED
    BY <1>4, <2>1 DEF NoCall, Calls
<1>6. call' = [t \in Sessions |-> IF t = s THEN d ELSE [call[t] EXCEPT !.alone = FALSE]]
  <2>1. (\A t \in Sessions : Idle(t)) = alone
    BY <1>3
  <2> QED
    BY <1>4, <2>1 DEF Begin
<1>7. ASSUME NEW t \in Sessions, t # s
      PROVE  /\ call'[t] \in Calls /\ ~call'[t].alone /\ call'[t].name = call[t].name
             /\ call'[t].todo = call[t].todo /\ call'[t].subject = call[t].subject
             /\ call'[t].sum = call[t].sum /\ call'[t].list = call[t].list /\ call'[t].work = call[t].work
  <2>1. PICK c \in Calls : c = call[t]
    BY <1>1
  <2>2. call'[t] = [c EXCEPT !.alone = FALSE]
    BY <1>6, <1>7, <2>1
  <2> QED
    BY <2>1, <2>2 DEF Calls
<1>8. call'[s] = d /\ call' \in [Sessions -> Calls]
  BY <1>5, <1>6, <1>7
<1>9. /\ fresh' \in [Sessions -> SUBSET Rows] /\ fresh'[s] = {}
      /\ \A t \in Sessions : t # s => fresh'[t] = fresh[t]
  BY <1>1 DEF Begin, TypeOK
<1>10. calls' \in [Sessions -> Nat] /\ answered' \in {None, "FAILED"}
  <2>1. /\ calls' = [calls EXCEPT ![s] = @ + 1]
        /\ answered' = IF answered = "FAILED" THEN answered ELSE None
    BY DEF Begin
  <2>2. calls \in [Sessions -> Nat]
    BY <1>1 DEF TypeOK
  <2> QED
    BY <2>1, <2>2
<1>11. TypeOK'
  BY <1>1, <1>2, <1>8, <1>9, <1>10 DEF TypeOK
<1>12. ASSUME NEW t \in Sessions, t # s PROVE SessionOK(t)'
  <2>1. SessionOK(t)
    BY DEF Inv
  <2>2. NextStep(t)' = NextStep(t) /\ (Idle(t)' <=> Idle(t))
    BY <1>7, <1>12 DEF NextStep, Idle
  <2>3. Held(t)'
    BY <1>7, <1>12, <2>1, <2>2 DEF SessionOK, Held
  <2>4. ListOK(t)'
    BY <1>2, <1>7, <1>9, <1>12, <2>1, <2>2 DEF SessionOK, ListOK
  <2> QED
    BY <1>7, <1>12, <2>1, <2>2, <2>3, <2>4 DEF SessionOK
<1>13. SessionOK(s)'
  <2>1. ~Idle(s)'
    BY <1>5, <1>8, NoneFacts DEF Idle
  <2>2. NextStep(s)' = IF script = <<>> THEN None ELSE Head(script)
    BY <1>5, <1>8 DEF NextStep
  <2>3. NextStep(s)' \notin Projection \cup Saving \cup {"storeList"}
    BY <2>2, NoneFacts DEF Scripted, Projection, Saving, Steps
  <2>4. /\ Proper(call'[s].todo)
        /\ name \in Projecting => Owes(call'[s].todo, "summarise")
        /\ name \in Refreshing => Owes(call'[s].todo, "build")
        /\ Owes(call'[s].todo, "materialise") => name = "submit_plan"
        /\ Owes(call'[s].todo, "close") => name = "verify_slice"
        /\ call'[s].name = name /\ call'[s].subject = subject
    BY <1>5, <1>8 DEF Scripted
  <2>5. Held(s)'
    BY <2>3, <2>4 DEF Held
  <2>6. ListOK(s)'
    BY <2>3 DEF ListOK
  <2>7. ProjectOK(s)'
    BY <2>3, <2>4 DEF ProjectOK, Projection
  <2>8. RefreshOK(s)'
    BY <2>3, <2>4 DEF RefreshOK, Saving
  <2>9. call'[s].alone => OthersIdle(s)'
    BY <1>3, <1>5, <1>7, <1>8 DEF OthersIdle, Idle
  <2> QED
    BY <2>1, <2>4, <2>5, <2>6, <2>7, <2>8, <2>9 DEF SessionOK
<1>14. answered' \notin OperationNames /\ answered' \notin Projecting /\ answered' \notin Refreshing
  BY <1>10, NoneFacts
<1> QED
  BY <1>11, <1>12, <1>13, <1>14 DEF Inv, AnswerOK, LoneCallProjects, LoneCallRefreshes

LEMMA CallOKs == ASSUME Inv, NEW s \in Sessions, Call(s) PROVE Inv'
<1>1. TypeOK
  BY DEF Inv
<1>2. /\ slice \in [Slices -> SliceDocs \cup {None}] /\ effect \in [Effects -> {"ABSENT", "OPEN", "SETTLED"}]
      /\ plan \in [Plans -> {"ABSENT", "OPEN", "CLOSED"}] /\ contracts \subseteq Contracts /\ events \in Nat
  BY <1>1 DEF TypeOK
<1>3. OperationNames = {"submit_plan", "close_plan", "register_contract", "start_slice", "claim_done",
                        "validate_slice", "verify_slice", "close_verified_slice", "accept_slice",
                        "record_intent", "mark_dispatched", "reconcile", "checkpoint_work"}
  BY DEF OperationNames
<1>4. CASE \E p \in Plans : BeginSubmitPlan(s, p) \/ BeginClosePlan(s, p)
  <2>1. PICK p \in Plans : BeginSubmitPlan(s, p) \/ BeginClosePlan(s, p)
    BY <1>4
  <2>2. plan' \in [Plans -> {"ABSENT", "OPEN", "CLOSED"}] /\ UNCHANGED <<slice, effect, contracts, events>>
    BY <1>2, <2>1 DEF BeginSubmitPlan, BeginClosePlan
  <2>3. p \in Subjects \cup {None}
    BY DEF Subjects
  <2>4. ASSUME Begin(s, "submit_plan", p, SubmitPlan) PROVE Inv'
    <3>1. "submit_plan" \in OperationNames /\ Scripted("submit_plan", SubmitPlan)
      BY <1>3, Scripts
    <3> QED
      BY <1>2, <2>2, <2>3, <2>4, <3>1, BeginOK
  <2>5. ASSUME Begin(s, "close_plan", p, ClosePlan) PROVE Inv'
    <3>1. "close_plan" \in OperationNames /\ Scripted("close_plan", ClosePlan)
      BY <1>3, Scripts
    <3> QED
      BY <1>2, <2>2, <2>3, <2>5, <3>1, BeginOK
  <2> QED
    BY <2>1, <2>4, <2>5 DEF BeginSubmitPlan, BeginClosePlan
<1>5. CASE \E c \in Contracts : BeginRegisterContract(s, c)
  <2>1. PICK c \in Contracts : BeginRegisterContract(s, c)
    BY <1>5
  <2>2. contracts' \subseteq Contracts /\ UNCHANGED <<slice, effect, plan, events>>
    BY <1>2, <2>1 DEF BeginRegisterContract
  <2>3. c \in Subjects \cup {None} /\ Begin(s, "register_contract", c, RegisterContract)
    BY <2>1 DEF Subjects, BeginRegisterContract
  <2>4. "register_contract" \in OperationNames /\ Scripted("register_contract", RegisterContract)
    BY <1>3, Scripts
  <2> QED
    BY <1>2, <2>2, <2>3, <2>4, BeginOK
<1>6. ASSUME NEW x \in Present, NEW name \in OperationNames, NEW doc, NEW script,
             WriteSlice(s, name, x, doc, script), doc \in SliceDocs, Scripted(name, script),
             name \notin {"submit_plan", "register_contract"}
      PROVE  Inv'
  <2>1. x \in Slices /\ x \in Subjects \cup {None}
    BY DEF Present, Subjects
  <2>2. /\ slice' = [slice EXCEPT ![x] = doc] /\ Begin(s, name, x, script)
        /\ UNCHANGED <<effect, plan, contracts, events>>
    BY <1>6 DEF WriteSlice
  <2>3. /\ slice' \in [Slices -> SliceDocs \cup {None}] /\ slice'[x] # None
        /\ \A y \in Slices : slice[y] # None => slice'[y] # None
    BY <1>2, <1>6, <2>1, <2>2, NoneAssumption
  <2> QED
    BY <1>2, <1>6, <2>1, <2>2, <2>3, BeginOK
<1>7. CASE \E x \in Slices :
             \/ BeginStartSlice(s, x) \/ BeginClaimDone(s, x) \/ BeginValidateSlice(s, x)
             \/ BeginVerifySlice(s, x) \/ BeginCloseVerified(s, x) \/ BeginAcceptSlice(s, x)
  <2>1. PICK x \in Slices :
           \/ BeginStartSlice(s, x) \/ BeginClaimDone(s, x) \/ BeginValidateSlice(s, x)
           \/ BeginVerifySlice(s, x) \/ BeginCloseVerified(s, x) \/ BeginAcceptSlice(s, x)
    BY <1>7
  <2>2. x \in Present
    BY <2>1 DEF BeginStartSlice, BeginClaimDone, BeginValidateSlice, BeginVerifySlice, BeginCloseVerified, BeginAcceptSlice
  <2>3. PICK c \in SliceDocs : c = slice[x]
    BY <1>2, <2>2 DEF Present
  <2>4. /\ [c EXCEPT !.execution = "ACTIVE"] \in SliceDocs
        /\ [c EXCEPT !.execution = "DONE_CLAIMED", !.validated = FALSE] \in SliceDocs
        /\ \A judgement \in BOOLEAN : [c EXCEPT !.validated = judgement, !.closed = FALSE] \in SliceDocs
        /\ [c EXCEPT !.assurance = "VERIFIED"] \in SliceDocs
        /\ [c EXCEPT !.closed = TRUE] \in SliceDocs
        /\ [c EXCEPT !.assurance = "ACCEPTED"] \in SliceDocs
    BY DEF SliceDocs
  <2>5. CASE BeginStartSlice(s, x)
    <3>1. WriteSlice(s, "start_slice", x, [c EXCEPT !.execution = "ACTIVE"], StartSlice)
      BY <2>3, <2>5 DEF BeginStartSlice
    <3> QED
      BY <1>3, <1>6, <2>2, <2>4, <3>1, Scripts
  <2>6. CASE BeginClaimDone(s, x)
    <3>1. WriteSlice(s, "claim_done", x, [c EXCEPT !.execution = "DONE_CLAIMED", !.validated = FALSE], ClaimDone)
      BY <2>3, <2>6 DEF BeginClaimDone
    <3> QED
      BY <1>3, <1>6, <2>2, <2>4, <3>1, Scripts
  <2>7. CASE BeginValidateSlice(s, x)
    <3>1. PICK judgement \in BOOLEAN :
            WriteSlice(s, "validate_slice", x, [c EXCEPT !.validated = judgement, !.closed = FALSE], ValidateSlice)
      BY <2>3, <2>7 DEF BeginValidateSlice
    <3>2. [c EXCEPT !.validated = judgement, !.closed = FALSE] \in SliceDocs
      BY <2>4
    <3> QED
      BY <1>3, <1>6, <2>2, <3>1, <3>2, Scripts
  <2>8. CASE BeginVerifySlice(s, x)
    <3>1. WriteSlice(s, "verify_slice", x, [c EXCEPT !.assurance = "VERIFIED"], VerifySlice)
      BY <2>3, <2>8 DEF BeginVerifySlice
    <3> QED
      BY <1>3, <1>6, <2>2, <2>4, <3>1, Scripts
  <2>9. CASE BeginCloseVerified(s, x)
    <3>1. WriteSlice(s, "close_verified_slice", x, [c EXCEPT !.closed = TRUE], CloseVerified)
      BY <2>3, <2>9 DEF BeginCloseVerified
    <3> QED
      BY <1>3, <1>6, <2>2, <2>4, <3>1, Scripts
  <2>10. CASE BeginAcceptSlice(s, x)
    <3>1. WriteSlice(s, "accept_slice", x, [c EXCEPT !.assurance = "ACCEPTED"], AcceptSlice)
      BY <2>3, <2>10 DEF BeginAcceptSlice
    <3> QED
      BY <1>3, <1>6, <2>2, <2>4, <3>1, Scripts
  <2> QED
    BY <2>1, <2>5, <2>6, <2>7, <2>8, <2>9, <2>10
<1>8. CASE \E e \in Effects : BeginRecordIntent(s, e) \/ BeginDispatch(s, e) \/ BeginReconcile(s, e)
  <2>1. PICK e \in Effects : BeginRecordIntent(s, e) \/ BeginDispatch(s, e) \/ BeginReconcile(s, e)
    BY <1>8
  <2>2. PICK name \in {"record_intent", "mark_dispatched", "reconcile"}, state \in {"OPEN", "SETTLED"} :
          WriteEffect(s, name, e, state)
    BY <2>1 DEF BeginRecordIntent, BeginDispatch, BeginReconcile
  <2>3. /\ effect' = [effect EXCEPT ![e] = state] /\ Begin(s, name, e, EffectStep)
        /\ UNCHANGED <<slice, plan, contracts, events>>
    BY <2>2 DEF WriteEffect
  <2>4. effect' \in [Effects -> {"ABSENT", "OPEN", "SETTLED"}]
    BY <1>2, <2>3
  <2>5. name \in OperationNames /\ Scripted(name, EffectStep) /\ e \in Subjects \cup {None}
    BY <1>3, Scripts DEF Subjects
  <2>6. name # "submit_plan" /\ name # "verify_slice" /\ name # "register_contract"
    OBVIOUS
  <2> QED
    BY <1>2, <2>3, <2>4, <2>5, <2>6, BeginOK
<1>9. CASE BeginCheckpoint(s)
  <2>1. Begin(s, "checkpoint_work", None, Checkpoint) /\ UNCHANGED <<slice, effect, plan, contracts, events>>
    BY <1>9 DEF BeginCheckpoint, facts
  <2>2. "checkpoint_work" \in OperationNames /\ Scripted("checkpoint_work", Checkpoint) /\ None \in Subjects \cup {None}
    BY <1>3, Scripts
  <2> QED
    BY <1>2, <2>1, <2>2, BeginOK
<1> QED
  BY <1>4, <1>5, <1>7, <1>8, <1>9 DEF Call

-----------------------------------------------------------------------------
(* The invariant holds. *)

LEMMA InitOK == Init => Inv
<1> SUFFICES ASSUME Init PROVE Inv
  OBVIOUS
<1>1. slice \in [Slices -> SliceDocs \cup {None}]
  <2>1. Planned \in SliceDocs
    BY DEF Planned, SliceDocs
  <2> QED
    BY <2>1 DEF Init
<1>2. workView \in WorkViews \cup {None}
  <2>1. OpenEffects \in SUBSET Effects /\ OpenPlans \in SUBSET Plans /\ events \in Nat
    BY DEF OpenEffects, OpenPlans, Init
  <2>2. WorkNow \in WorkViews
    BY <2>1 DEF WorkNow, WorkViews
  <2> QED
    BY <2>2 DEF Init
<1>3. family \in Families
  BY ModelAssumption DEF Init, Families
<1>4. TypeOK
  BY <1>1, <1>2, <1>3, NoCallType DEF Init, TypeOK
<1>5. ASSUME NEW s \in Sessions PROVE SessionOK(s)
  <2>1. call[s] = NoCall
    BY DEF Init
  <2>2. call[s].todo = <<>> /\ ~call[s].alone /\ call[s].name = None
    BY <2>1, NoCallType
  <2>3. NextStep(s) = None /\ Proper(call[s].todo) /\ \A step : ~Owes(call[s].todo, step)
    BY <2>2 DEF NextStep, Proper, Linked, Owes
  <2>4. NextStep(s) \notin Projection \cup Saving \cup {"storeList"} /\ call[s].name # "register_contract"
    BY <2>2, <2>3, NoneFacts DEF Projection, Saving, Steps, OperationNames
  <2>5. Held(s) /\ ListOK(s)
    BY <2>3, <2>4 DEF Held, ListOK
  <2> QED
    BY <2>2, <2>3, <2>5 DEF SessionOK
<1>6. answered \notin OperationNames /\ answered \notin Projecting /\ answered \notin Refreshing
  BY NoneFacts DEF Init
<1> QED
  BY <1>4, <1>5, <1>6 DEF Inv, AnswerOK, LoneCallProjects, LoneCallRefreshes

LEMMA StutterOK == ASSUME Inv, UNCHANGED vars PROVE Inv'
<1>1. /\ UNCHANGED <<slice, effect, plan, contracts, events, family, familyView, workView>>
      /\ UNCHANGED <<call, fresh, calls, answered>>
  BY DEF vars, facts, rows
<1>2. TypeOK'
  BY <1>1 DEF Inv, TypeOK
<1>3. UNCHANGED <<Summary, OpenEffects, FamilyCurrent, WorkNow>>
  BY <1>1, SummarySame DEF FamilyCurrent
<1>4. ASSUME NEW s \in Sessions PROVE SessionOK(s)'
  <2>1. SessionOK(s) /\ UNCHANGED <<NextStep(s), Idle(s), OthersIdle(s)>>
    BY <1>1 DEF Inv, NextStep, Idle, OthersIdle
  <2>2. Held(s)' /\ ListOK(s)'
    BY <1>1, <2>1 DEF SessionOK, Held, ListOK
  <2>3. call[s].alone => ProjectOK(s)'
    BY <1>1, <1>3, <2>1 DEF SessionOK, ProjectOK, Served
  <2>4. call[s].alone => RefreshOK(s)'
    BY <1>1, <1>3, <2>1 DEF SessionOK, RefreshOK
  <2> QED
    BY <1>1, <2>1, <2>2, <2>3, <2>4 DEF SessionOK
<1>5. AnswerOK'
  BY <1>1 DEF Inv, AnswerOK, Idle
<1>6. LoneCallProjects' /\ LoneCallRefreshes'
  BY <1>1, <1>3 DEF Inv, LoneCallProjects, LoneCallRefreshes, FamilyCurrent
<1> QED
  BY <1>2, <1>4, <1>5, <1>6 DEF Inv

LEMMA NextOK == ASSUME Inv, [Next]_vars PROVE Inv'
<1>1. CASE UNCHANGED vars
  BY <1>1, StutterOK
<1>2. ASSUME NEW s \in Sessions, Step(s) PROVE Inv'
  BY <1>2, MaterialiseOK, FetchListOK, StoreListOK, SummariseOK, FetchFamilyOK, StoreFamilyOK, CollectOK,
     InsertViewOK, FetchViewOK, StoreViewOK, AppendStepOK, BuildOK, FindOK, SaveWorkOK, InsertWorkOK,
     CloseOK, AnswerStepOK DEF Step
<1>3. ASSUME NEW s \in Sessions, Abort(s) PROVE Inv'
  BY <1>3, FailOK DEF Abort
<1> QED
  BY <1>1, <1>2, <1>3, CallOKs DEF Next

LEMMA Invariance == Spec => []Inv
<1>1. Init => Inv
  BY InitOK
<1>2. Inv /\ [Next]_vars => Inv'
  BY NextOK
<1> QED
  BY <1>1, <1>2, PTL DEF Spec

\* Type correctness.  A reader of a view finds a view, and a step of a call
\* finds what the steps before it have read.
THEOREM TypeCorrect == Spec => []TypeOK
<1>1. Inv => TypeOK
  BY DEF Inv
<1> QED
  BY <1>1, Invariance, PTL

\* A projecting operation that no other call overlaps leaves the family document
\* and the view that status() serves equal to what the Slices, the effects and
\* the warnings say, whatever the calls before it have left there
\* (_project_family).  What it needs is that the steps of every script that
\* writes something of the family end in a projection: Scripts.
THEOREM LoneCallProjectsHolds == Spec => []LoneCallProjects
<1>1. Inv => LoneCallProjects
  BY DEF Inv
<1> QED
  BY <1>1, Invariance, PTL

\* A refreshing operation that no other call overlaps leaves the Work view equal
\* to what the plans, the effects and the events say (_refresh_work_view).
THEOREM LoneCallRefreshesHolds == Spec => []LoneCallRefreshes
<1>1. Inv => LoneCallRefreshes
  BY DEF Inv
<1> QED
  BY <1>1, Invariance, PTL

\* No interleaving of registrations, plans and projections drops a Slice or a
\* contract from the lists of the family, whichever attempt of whichever loop
\* writes them (register_contract, _materialize_plan_slices, _project_family).
THEOREM ListsGrowHolds == Spec => ListsGrow
<1> DEFINE Grow == /\ family.slice_ids \subseteq family'.slice_ids
                   /\ family.contract_ids \subseteq family'.contract_ids
<1>1. ASSUME Inv, NEW s \in Sessions, StoreList(s) PROVE Grow
  <2>1. CASE ~Unwritten(s, "family")
    BY <1>1, <2>1 DEF StoreList, rows
  <2>2. CASE Unwritten(s, "family")
    <3>1. NextStep(s) = "storeList" /\ ListOK(s)
      BY <1>1, <2>2 DEF StoreList, Do, Inv, SessionOK
    <3>2. PICK f \in Families : f = family
      BY <1>1 DEF Inv, TypeOK
    <3>3. PICK l : l = call[s].list
      OBVIOUS
    <3>4. CASE call[s].name = "register_contract"
      <4>1. family' = [f EXCEPT !.contract_ids = l.contracts, !.warnings = l.warnings]
        BY <1>1, <2>2, <3>2, <3>3, <3>4 DEF StoreList
      <4>2. f.contract_ids \subseteq l.contracts
        BY <2>2, <3>1, <3>2, <3>3, <3>4 DEF ListOK, Unwritten
      <4> QED
        BY <3>2, <4>1, <4>2 DEF Families
    <3>5. CASE call[s].name # "register_contract"
      <4>1. family' = [f EXCEPT !.slice_ids = l.slices]
        BY <1>1, <2>2, <3>2, <3>3, <3>5 DEF StoreList
      <4>2. f.slice_ids \subseteq l.slices
        BY <2>2, <3>1, <3>2, <3>3, <3>5 DEF ListOK, Unwritten
      <4> QED
        BY <3>2, <4>1, <4>2 DEF Families
    <3> QED
      BY <3>4, <3>5
  <2> QED
    BY <2>1, <2>2
<1>2. ASSUME Inv, NEW s \in Sessions, StoreFamily(s) PROVE Grow
  <2>1. PICK f \in Families : f = family
    BY <1>2 DEF Inv, TypeOK
  <2>2. PICK m : m = call[s].sum
    OBVIOUS
  <2>3. \/ family' = f
        \/ family' = [f EXCEPT !.execution = m.execution, !.assurance = m.assurance, !.warnings = m.warnings]
    BY <1>2, <2>1, <2>2 DEF StoreFamily, rows
  <2> QED
    BY <2>1, <2>3 DEF Families
<1>3. ASSUME NEW s \in Sessions, Call(s) PROVE family' = family
  BY <1>3 DEF Call, BeginSubmitPlan, BeginClosePlan, BeginRegisterContract, BeginStartSlice, BeginClaimDone,
     BeginValidateSlice, BeginVerifySlice, BeginCloseVerified, BeginAcceptSlice, WriteSlice, BeginRecordIntent,
     BeginDispatch, BeginReconcile, WriteEffect, BeginCheckpoint, Begin, rows
<1>4. ASSUME NEW s \in Sessions,
             \/ Materialise(s) \/ FetchList(s) \/ Summarise(s) \/ FetchFamily(s) \/ Collect(s) \/ InsertView(s)
             \/ FetchView(s) \/ StoreView(s) \/ AppendStep(s) \/ Build(s) \/ Find(s) \/ SaveWork(s)
             \/ InsertWork(s) \/ Close(s) \/ Answer(s) \/ Abort(s)
      PROVE  family' = family
  BY <1>4 DEF Materialise, FetchList, Summarise, FetchFamily, Collect, InsertView, FetchView, StoreView, AppendStep,
     Build, Find, SaveWork, InsertWork, Close, Answer, Abort, Fail, rows
<1>5. Inv /\ [Next]_vars => [Grow]_vars
  BY <1>1, <1>2, <1>3, <1>4 DEF Next, Step
<1> QED
  BY <1>5, Invariance, PTL DEF Spec, ListsGrow
====
