---------------------------- MODULE RecordsProofs ----------------------------
(***************************************************************************)
(* Proofs about the three parts of MCRecords, for any number of sessions,  *)
(* rows, paths, roots and migrations.  A behaviour exercises one part, and *)
(* each part has an inductive invariant of its own.                        *)
(***************************************************************************)
EXTENDS MCRecords, FiniteSets, FiniteSetTheorems, TLAPS

-----------------------------------------------------------------------------
\* A set of numbers that is not empty has a least one: the intervals below its numbers are
\* ordered by inclusion, which is well-founded.
LEMMA LeastNumber ==
  ASSUME NEW S \in SUBSET Nat, S # {}
  PROVE  \E n \in S : \A m \in S : n <= m
<1> DEFINE T == {0..m - 1 : m \in S}
           R == StrictSubsetOrdering(Nat)
<1>1. T \subseteq FiniteSubsetsOf(Nat) /\ T # {}
  <2>1. ASSUME NEW m \in Nat PROVE IsFiniteSet(0..m-1) /\ 0..m-1 \in SUBSET Nat
    BY FS_Interval
  <2> QED
    BY <2>1 DEF FiniteSubsetsOf
<1>2. PICK x \in T : \A y \in T : <<y, x>> \notin R
  <2>1. IsWellFoundedOn(R, FiniteSubsetsOf(Nat))
    BY FS_StrictSubsetOrderingWellFounded
  <2> HIDE DEF T, R
  <2> QED
    BY <1>1, <2>1, WFMin, Zenon
<1>3. PICK n \in S : x = 0..n - 1
  OBVIOUS
<1>4. ASSUME NEW m \in S, m < n PROVE FALSE
  <2>1. 0..m-1 \in T
    OBVIOUS
  <2>2. 0..m-1 \subseteq 0..n-1 /\ 0..n-1 \subseteq Nat /\ m \in 0..n-1 /\ m \notin 0..m-1
    BY <1>4
  <2>3. <<0..m-1, 0..n-1>> \in R
    BY <2>2, Zenon DEF StrictSubsetOrdering
  <2> QED
    BY <1>2, <1>3, <2>1, <2>3
<1> QED
  BY <1>4

-----------------------------------------------------------------------------
(* TruthMaintenance: what evaluate computes. *)

\* The rows refer to rows before them.
Ordered(rs) == \A n \in 1..Len(rs) : rs[n].support \subseteq 1..n-1 /\ rs[n].contradicts \subseteq 1..n-1

\* The verdict on row n, given the states of the rows that it refers to.
Judged(rs, v, k, f, n) ==
    Truth!Verdict(rs[n], v, k, [m \in rs[n].support \cup rs[n].contradicts |-> f[m] = "SUPPORTED"])

\* Only the states of earlier rows count.
LEMMA JudgedOnEarlier ==
  ASSUME NEW rs, NEW v, NEW k, NEW f, NEW g, NEW n \in Nat,
         rs[n].support \subseteq 1..n-1, rs[n].contradicts \subseteq 1..n-1,
         \A m \in 1..n-1 : f[m] = g[m]
  PROVE  Judged(rs, v, k, f, n) = Judged(rs, v, k, g, n)
<1>1. [m \in rs[n].support \cup rs[n].contradicts |-> f[m] = "SUPPORTED"]
        = [m \in rs[n].support \cup rs[n].contradicts |-> g[m] = "SUPPORTED"]
  <2>1. \A m \in rs[n].support \cup rs[n].contradicts : f[m] = g[m]
    OBVIOUS
  <2> QED
    BY <2>1, Zenon
<1> QED
  BY <1>1, Zenon DEF Judged

\* There is a function as the recursion of evaluate demands, up to any row.
LEMMA JudgedSoFar ==
  ASSUME NEW rs, NEW v, NEW k, Ordered(rs), Len(rs) \in Nat, NEW n \in 0..Len(rs)
  PROVE  \E f : f = [m \in 1..n |-> Judged(rs, v, k, f, m)]
<1> DEFINE Bad == {m \in 0..Len(rs) : ~ \E f : f = [i \in 1..m |-> Judged(rs, v, k, f, i)]}
<1> SUFFICES ASSUME Bad # {} PROVE FALSE
  OBVIOUS
<1>1. PICK m \in Bad : \A i \in Bad : m <= i
  <2>1. Bad \in SUBSET Nat
    OBVIOUS
  <2> QED
    BY <2>1, LeastNumber
<1>2. m # 0
  <2>1. SUFFICES ASSUME m = 0 PROVE FALSE
    OBVIOUS
  <2> DEFINE e == [i \in 1..0 |-> 0]
  <2>2. e = [i \in 1..0 |-> Judged(rs, v, k, e, i)]
    OBVIOUS
  <2> QED
    BY <2>1, <2>2, Zenon
<1>3. m \in Nat /\ m \in 1..Len(rs) /\ m - 1 \in 0..Len(rs) /\ m - 1 \notin Bad
  <2>1. m \in 0..Len(rs)
    BY <1>1, Zenon
  <2>2. m \in Nat /\ m \in 1..Len(rs) /\ m - 1 \in 0..Len(rs) /\ ~ m <= m - 1
    BY <1>2, <2>1
  <2> QED
    BY <1>1, <2>2, Zenon
<1>4. PICK f : f = [i \in 1..m-1 |-> Judged(rs, v, k, f, i)]
  BY <1>3
<1> DEFINE g == [i \in 1..m |-> IF i = m THEN Judged(rs, v, k, f, m) ELSE f[i]]
<1>5. \A i \in 1..m-1 : g[i] = f[i]
  BY <1>3
<1>6. ASSUME NEW i \in 1..m PROVE g[i] = Judged(rs, v, k, g, i)
  <2>1. rs[i].support \subseteq 1..i-1 /\ rs[i].contradicts \subseteq 1..i-1 /\ i \in Nat
    BY <1>3 DEF Ordered
  <2>2. \A j \in 1..i-1 : f[j] = g[j]
    BY <1>3, <1>5
  <2>3. g[i] = Judged(rs, v, k, f, i)
    <3>1. CASE i = m
      BY <3>1
    <3>2. CASE i # m
      <4>1. i \in 1..m-1
        BY <1>3, <3>2
      <4>2. g[i] = f[i]
        BY <1>5, <4>1, Zenon
      <4>3. f[i] = Judged(rs, v, k, f, i)
        BY <1>4, <4>1, Zenon
      <4> QED
        BY <4>2, <4>3, Zenon
    <3> QED
      BY <3>1, <3>2
  <2> HIDE DEF g
  <2>4. Judged(rs, v, k, f, i) = Judged(rs, v, k, g, i)
    <3>1. rs[i].support \subseteq 1..i-1
      BY <2>1
    <3>2. rs[i].contradicts \subseteq 1..i-1
      BY <2>1
    <3>3. i \in Nat
      BY <2>1
    <3> QED
      BY <3>1, <3>2, <3>3, <2>2, JudgedOnEarlier
  <2> QED
    BY <2>3, <2>4, Zenon
<1>7. g = [i \in 1..m |-> Judged(rs, v, k, g, i)]
  <2> DEFINE h == [i \in 1..m |-> Judged(rs, v, k, g, i)]
  <2>1. \A i \in 1..m : g[i] = h[i]
    BY <1>6, Zenon
  <2>2. g = [i \in 1..m |-> g[i]] /\ h = [i \in 1..m |-> h[i]]
    OBVIOUS
  <2> HIDE DEF g, h
  <2>3. [i \in 1..m |-> g[i]] = [i \in 1..m |-> h[i]]
    BY <2>1, Zenon
  <2>4. g = h
    BY <2>2, <2>3, Zenon
  <2> QED
    BY <2>4 DEF h
<1> HIDE DEF g
<1>8. m \notin Bad
  BY <1>7, Zenon
<1> QED
  BY <1>1, <1>8, Zenon

\* evaluate is what its recursion demands.
LEMMA EvaluateIs ==
  ASSUME NEW rs, NEW v, NEW k, Ordered(rs), Len(rs) \in Nat, DOMAIN rs = 1..Len(rs), NEW n \in 1..Len(rs)
  PROVE  Truth!Evaluate(rs, v, k)[n] = Judged(rs, v, k, Truth!Evaluate(rs, v, k), n)
<1>1. Len(rs) \in 0..Len(rs)
  OBVIOUS
<1>2. \E f : f = [m \in 1..Len(rs) |-> Judged(rs, v, k, f, m)]
  BY <1>1, JudgedSoFar, Zenon
<1>3. \E f : f = [m \in DOMAIN rs |-> Judged(rs, v, k, f, m)]
  BY <1>2, Zenon
<1>4. Truth!Evaluate(rs, v, k) = [m \in DOMAIN rs |-> Judged(rs, v, k, Truth!Evaluate(rs, v, k), m)]
  BY <1>3 DEF Truth!Evaluate, Judged
<1>5. n \in DOMAIN rs
  BY Zenon
<1> QED
  BY <1>4, <1>5, Zenon

\* When evaluate says SUPPORTED of a row.
Stands(rs, v, k, n) ==
    /\ Truth!Known(rs[n], k) /\ v \in rs[n].valid /\ rs[n].life # "RETRACTED"
    /\ \A c \in rs[n].contradicts : Truth!Evaluate(rs, v, k)[c] # "SUPPORTED"
    /\ rs[n].evidence # "bad"
    /\ \A d \in rs[n].support : Truth!Evaluate(rs, v, k)[d] = "SUPPORTED"
    /\ Truth!Grounded(rs[n])

LEMMA SupportedIs ==
  ASSUME NEW rs, NEW v, NEW k, Ordered(rs), Len(rs) \in Nat, DOMAIN rs = 1..Len(rs), NEW n \in 1..Len(rs)
  PROVE  Truth!Evaluate(rs, v, k)[n] = "SUPPORTED" <=> Stands(rs, v, k, n)
<1> DEFINE e == Truth!Evaluate(rs, v, k)
           sup == [m \in rs[n].support \cup rs[n].contradicts |-> e[m] = "SUPPORTED"]
<1>1. e[n] = Truth!Verdict(rs[n], v, k, sup)
  <2>1. Truth!Evaluate(rs, v, k)[n] = Judged(rs, v, k, Truth!Evaluate(rs, v, k), n)
    BY EvaluateIs
  <2> QED
    BY <2>1, Zenon DEF Judged
<1>2. (\A c \in rs[n].contradicts : sup[c] <=> e[c] = "SUPPORTED") /\ (\A d \in rs[n].support : sup[d] <=> e[d] = "SUPPORTED")
  OBVIOUS
<1> DEFINE r == rs[n]
           out == ~Truth!Known(r, k) \/ v \notin r.valid \/ r.life = "RETRACTED"
           against == \E c \in r.contradicts : sup[c]
           undone == r.evidence = "bad" \/ \E d \in r.support : ~sup[d]
<1>3. Truth!Verdict(r, v, k, sup) = "SUPPORTED" <=> ~out /\ ~against /\ ~undone /\ Truth!Grounded(r)
  BY DEF Truth!Verdict
<1>4. against <=> \E c \in r.contradicts : e[c] = "SUPPORTED"
  BY <1>2, Zenon
<1>5. undone <=> (r.evidence = "bad" \/ \E d \in r.support : e[d] # "SUPPORTED")
  BY <1>2, Zenon
<1> HIDE DEF sup, against, undone, e
<1> QED
  BY <1>1, <1>3, <1>4, <1>5 DEF Stands, e

LEMMA TruthAtIs ==
  ASSUME NEW rs, NEW v, NEW k, Ordered(rs), Len(rs) \in Nat, DOMAIN rs = 1..Len(rs), NEW n \in 1..Len(rs)
  PROVE  n \in Truth!TruthAt(rs, v, k) <=> Stands(rs, v, k, n)
<1>1. n \in Truth!TruthAt(rs, v, k) <=> Truth!Evaluate(rs, v, k)[n] = "SUPPORTED"
  BY Zenon DEF Truth!TruthAt
<1> QED
  BY <1>1, SupportedIs, Zenon

\* What a row rests on, with one reference more followed.
Resting(rs, f, n) == {n} \cup UNION {f[d] : d \in rs[n].support}

LEMMA RestingSoFar ==
  ASSUME NEW rs, Ordered(rs), Len(rs) \in Nat, NEW n \in 0..Len(rs)
  PROVE  \E f : f = [m \in 1..n |-> Resting(rs, f, m)]
<1> DEFINE Bad == {m \in 0..Len(rs) : ~ \E f : f = [i \in 1..m |-> Resting(rs, f, i)]}
<1> SUFFICES ASSUME Bad # {} PROVE FALSE
  OBVIOUS
<1>1. PICK m \in Bad : \A i \in Bad : m <= i
  <2>1. Bad \in SUBSET Nat
    OBVIOUS
  <2> QED
    BY <2>1, LeastNumber
<1>2. m # 0
  <2>1. SUFFICES ASSUME m = 0 PROVE FALSE
    OBVIOUS
  <2> DEFINE e == [i \in 1..0 |-> 0]
  <2>2. e = [i \in 1..0 |-> Resting(rs, e, i)]
    OBVIOUS
  <2> QED
    BY <2>1, <2>2, Zenon
<1>3. m \in Nat /\ m \in 1..Len(rs) /\ m - 1 \in 0..Len(rs) /\ m - 1 \notin Bad
  <2>1. m \in 0..Len(rs)
    BY <1>1, Zenon
  <2>2. m \in Nat /\ m \in 1..Len(rs) /\ m - 1 \in 0..Len(rs) /\ ~ m <= m - 1
    BY <1>2, <2>1
  <2> QED
    BY <1>1, <2>2, Zenon
<1>4. PICK f : f = [i \in 1..m-1 |-> Resting(rs, f, i)]
  BY <1>3
<1> DEFINE g == [i \in 1..m |-> IF i = m THEN Resting(rs, f, m) ELSE f[i]]
<1>5. \A i \in 1..m-1 : g[i] = f[i]
  BY <1>3
<1>6. ASSUME NEW i \in 1..m PROVE g[i] = Resting(rs, g, i)
  <2>1. \A d \in rs[i].support : f[d] = g[d]
    <3>1. \A d \in rs[i].support : d \in 1..m-1
      BY <1>3 DEF Ordered
    <3> QED
      BY <3>1, <1>5, Zenon
  <2>2. g[i] = Resting(rs, f, i)
    <3>1. CASE i = m
      BY <3>1
    <3>2. CASE i # m
      <4>1. i \in 1..m-1
        BY <1>3, <3>2
      <4>2. g[i] = f[i]
        BY <1>5, <4>1, Zenon
      <4>3. f[i] = Resting(rs, f, i)
        BY <1>4, <4>1, Zenon
      <4> QED
        BY <4>2, <4>3, Zenon
    <3> QED
      BY <3>1, <3>2
  <2> HIDE DEF g
  <2>3. {f[d] : d \in rs[i].support} = {g[d] : d \in rs[i].support}
    BY <2>1
  <2> QED
    BY <2>2, <2>3, Zenon DEF Resting
<1>7. g = [i \in 1..m |-> Resting(rs, g, i)]
  <2> DEFINE h == [i \in 1..m |-> Resting(rs, g, i)]
  <2>1. \A i \in 1..m : g[i] = h[i]
    BY <1>6, Zenon
  <2>2. g = [i \in 1..m |-> g[i]] /\ h = [i \in 1..m |-> h[i]]
    OBVIOUS
  <2> HIDE DEF g, h
  <2>3. [i \in 1..m |-> g[i]] = [i \in 1..m |-> h[i]]
    BY <2>1, Zenon
  <2>4. g = h
    BY <2>2, <2>3, Zenon
  <2> QED
    BY <2>4 DEF h
<1> HIDE DEF g
<1>8. m \notin Bad
  BY <1>7, Zenon
<1> QED
  BY <1>1, <1>8, Zenon

\* The basis of a row is the row and the basis of each row that it names in support.
LEMMA BasisIs ==
  ASSUME NEW rs, Ordered(rs), Len(rs) \in Nat, DOMAIN rs = 1..Len(rs), NEW n \in 1..Len(rs)
  PROVE  Truth!Basis(rs, n) = {n} \cup UNION {Truth!Basis(rs, d) : d \in rs[n].support}
<1> DEFINE b == CHOOSE f : f = [m \in DOMAIN rs |-> Resting(rs, f, m)]
<1>1. Len(rs) \in 0..Len(rs)
  OBVIOUS
<1>2. \E f : f = [m \in 1..Len(rs) |-> Resting(rs, f, m)]
  BY <1>1, RestingSoFar, Zenon
<1>3. \E f : f = [m \in DOMAIN rs |-> Resting(rs, f, m)]
  BY <1>2, Zenon
<1>4. b = [m \in DOMAIN rs |-> Resting(rs, b, m)]
  BY <1>3, Zenon
<1>5. \A m : Truth!Basis(rs, m) = b[m]
  BY DEF Truth!Basis, Resting
<1>6. n \in DOMAIN rs
  BY Zenon
<1> HIDE DEF b
<1>7. b[n] = Resting(rs, b, n)
  BY <1>4, <1>6, Zenon
<1>8. {Truth!Basis(rs, d) : d \in rs[n].support} = {b[d] : d \in rs[n].support}
  BY <1>5
<1> QED
  BY <1>5, <1>7, <1>8, Zenon DEF Resting

\* A row is supported if and only if each row of its basis meets the condition Sound, when
\* a row is supported exactly if it meets the condition and so does each row it rests on.
LEMMA SupportedThroughBasis ==
  ASSUME NEW rs, Ordered(rs), Len(rs) \in Nat, DOMAIN rs = 1..Len(rs), NEW True, NEW Sound,
         \A n \in 1..Len(rs) : n \in True <=> n \in Sound /\ \A d \in rs[n].support : d \in True
  PROVE  \A n \in 1..Len(rs) : n \in True <=> \A m \in Truth!Basis(rs, n) : m \in Sound
<1> DEFINE Bad == {n \in 1..Len(rs) : ~ (n \in True <=> \A m \in Truth!Basis(rs, n) : m \in Sound)}
<1> SUFFICES ASSUME Bad # {} PROVE FALSE
  BY Zenon
<1>1. PICK n \in Bad : \A i \in Bad : n <= i
  <2>1. Bad \in SUBSET Nat
    OBVIOUS
  <2> QED
    BY <2>1, LeastNumber
<1>2. n \in 1..Len(rs)
  BY <1>1
<1>3. ASSUME NEW d \in rs[n].support
      PROVE  d \in True <=> \A m \in Truth!Basis(rs, d) : m \in Sound
  <2>1. d \in 1..Len(rs) /\ d < n
    BY <1>2 DEF Ordered
  <2>2. ~ n <= d
    BY <1>2, <2>1
  <2>3. d \notin Bad
    BY <1>1, <2>2, Zenon
  <2> QED
    BY <2>1, <2>3, Zenon
<1>4. Truth!Basis(rs, n) = {n} \cup UNION {Truth!Basis(rs, d) : d \in rs[n].support}
  BY <1>2, BasisIs
<1>5. (\A m \in Truth!Basis(rs, n) : m \in Sound)
        <=> n \in Sound /\ \A d \in rs[n].support : \A m \in Truth!Basis(rs, d) : m \in Sound
  BY <1>4, Zenon
<1>6. n \in True <=> n \in Sound /\ \A d \in rs[n].support : d \in True
  BY <1>2
<1>7. n \notin Bad
  BY <1>3, <1>5, <1>6, Zenon
<1> QED
  BY <1>1, <1>7, Zenon

\* As SupportRestsOnEvidence says, of any rows in order.
LEMMA RestsOnEvidence ==
  ASSUME NEW rs, Ordered(rs), Len(rs) \in Nat, DOMAIN rs = 1..Len(rs), NEW v, NEW k, NEW n \in 1..Len(rs),
         \A m \in 1..Len(rs) : rs[m].evidence \in Truth!Evidence
  PROVE  n \in Truth!TruthAt(rs, v, k) <=>
            \A m \in Truth!Basis(rs, n) :
                /\ Truth!Known(rs[m], k) /\ v \in rs[m].valid /\ rs[m].life # "RETRACTED"
                /\ rs[m].contradicts \cap Truth!TruthAt(rs, v, k) = {}
                /\ IF rs[m].support = {} THEN rs[m].evidence = "good" ELSE rs[m].evidence # "bad"
<1> DEFINE P(m) == /\ Truth!Known(rs[m], k) /\ v \in rs[m].valid /\ rs[m].life # "RETRACTED"
                   /\ rs[m].contradicts \cap Truth!TruthAt(rs, v, k) = {}
                   /\ IF rs[m].support = {} THEN rs[m].evidence = "good" ELSE rs[m].evidence # "bad"
           Sound == {m \in 1..Len(rs) : P(m)}
           True == Truth!TruthAt(rs, v, k)
<1>1. ASSUME NEW m \in 1..Len(rs)
      PROVE  m \in True <=> m \in Sound /\ \A d \in rs[m].support : d \in True
  <2>1. m \in True <=> Stands(rs, v, k, m)
    BY TruthAtIs
  <2>2. ASSUME NEW d \in 1..m-1 PROVE d \in True <=> Truth!Evaluate(rs, v, k)[d] = "SUPPORTED"
    <3>1. d \in DOMAIN rs
      OBVIOUS
    <3> QED
      BY <3>1, Zenon DEF Truth!TruthAt
  <2>3. rs[m].support \subseteq 1..m-1 /\ rs[m].contradicts \subseteq 1..m-1
    BY DEF Ordered
  <2>4. (\A d \in rs[m].support : Truth!Evaluate(rs, v, k)[d] = "SUPPORTED") <=> \A d \in rs[m].support : d \in True
    BY <2>2, <2>3, Zenon
  <2>5. (\A d \in rs[m].contradicts : Truth!Evaluate(rs, v, k)[d] # "SUPPORTED") <=> rs[m].contradicts \cap True = {}
    <3>1. \A d \in rs[m].contradicts : d \in True <=> Truth!Evaluate(rs, v, k)[d] = "SUPPORTED"
      BY <2>2, <2>3, Zenon
    <3> HIDE DEF True
    <3> QED
      BY <3>1
  <2>6. (rs[m].evidence # "bad" /\ Truth!Grounded(rs[m]))
          <=> IF rs[m].support = {} THEN rs[m].evidence = "good" ELSE rs[m].evidence # "bad"
    BY DEF Truth!Grounded, Truth!Evidence
  <2> HIDE DEF True
  <2>7. m \in Sound <=> P(m)
    OBVIOUS
  <2> QED
    BY <2>1, <2>4, <2>5, <2>6, <2>7 DEF Stands, True
<1> HIDE DEF True, Sound
<1>2. n \in True <=> \A m \in Truth!Basis(rs, n) : m \in Sound
  BY <1>1, SupportedThroughBasis, Zenon
<1>3. Truth!Basis(rs, n) \subseteq 1..Len(rs)
  <2> DEFINE Bad == {i \in 1..Len(rs) : ~ Truth!Basis(rs, i) \subseteq 1..Len(rs)}
  <2> SUFFICES ASSUME Bad # {} PROVE FALSE
    OBVIOUS
  <2>1. PICK i \in Bad : \A j \in Bad : i <= j
    <3>1. Bad \in SUBSET Nat
      OBVIOUS
    <3> QED
      BY <3>1, LeastNumber
  <2>2. Truth!Basis(rs, i) = {i} \cup UNION {Truth!Basis(rs, d) : d \in rs[i].support}
    BY <2>1, BasisIs
  <2>3. \A d \in rs[i].support : d \in 1..Len(rs) /\ ~ i <= d
    BY <2>1 DEF Ordered
  <2>4. \A d \in rs[i].support : Truth!Basis(rs, d) \subseteq 1..Len(rs)
    BY <2>1, <2>3, Zenon
  <2> QED
    BY <2>1, <2>2, <2>4
<1>4. \A m \in Truth!Basis(rs, n) : m \in Sound <=> P(m)
  BY <1>3, Zenon DEF Sound
<1> QED
  BY <1>2, <1>4 DEF True

\* Whether a retraction of row n concerns row m, with one reference more followed.
Leading(rs, n, f, m) == \E d \in rs[m].support : d = n \/ (rs[d].kt = Truth!Open /\ f[d])

LEMMA LeadingSoFar ==
  ASSUME NEW rs, Ordered(rs), Len(rs) \in Nat, NEW r, NEW n \in 0..Len(rs)
  PROVE  \E f : f = [m \in 1..n |-> Leading(rs, r, f, m)]
<1> DEFINE Bad == {m \in 0..Len(rs) : ~ \E f : f = [i \in 1..m |-> Leading(rs, r, f, i)]}
<1> SUFFICES ASSUME Bad # {} PROVE FALSE
  OBVIOUS
<1>1. PICK m \in Bad : \A i \in Bad : m <= i
  <2>1. Bad \in SUBSET Nat
    OBVIOUS
  <2> QED
    BY <2>1, LeastNumber
<1>2. m # 0
  <2>1. SUFFICES ASSUME m = 0 PROVE FALSE
    OBVIOUS
  <2> DEFINE e == [i \in 1..0 |-> 0]
  <2>2. e = [i \in 1..0 |-> Leading(rs, r, e, i)]
    OBVIOUS
  <2> QED
    BY <2>1, <2>2, Zenon
<1>3. m \in Nat /\ m \in 1..Len(rs) /\ m - 1 \in 0..Len(rs) /\ m - 1 \notin Bad
  <2>1. m \in 0..Len(rs)
    BY <1>1, Zenon
  <2>2. m \in Nat /\ m \in 1..Len(rs) /\ m - 1 \in 0..Len(rs) /\ ~ m <= m - 1
    BY <1>2, <2>1
  <2> QED
    BY <1>1, <2>2, Zenon
<1>4. PICK f : f = [i \in 1..m-1 |-> Leading(rs, r, f, i)]
  BY <1>3
<1> DEFINE g == [i \in 1..m |-> IF i = m THEN Leading(rs, r, f, m) ELSE f[i]]
<1>5. \A i \in 1..m-1 : g[i] = f[i]
  BY <1>3
<1>6. ASSUME NEW i \in 1..m PROVE g[i] = Leading(rs, r, g, i)
  <2>1. \A d \in rs[i].support : f[d] = g[d]
    <3>1. \A d \in rs[i].support : d \in 1..m-1
      BY <1>3 DEF Ordered
    <3> QED
      BY <3>1, <1>5, Zenon
  <2>2. g[i] = Leading(rs, r, f, i)
    <3>1. CASE i = m
      BY <3>1
    <3>2. CASE i # m
      <4>1. i \in 1..m-1
        BY <1>3, <3>2
      <4>2. g[i] = f[i]
        BY <1>5, <4>1, Zenon
      <4>3. f[i] = Leading(rs, r, f, i)
        BY <1>4, <4>1, Zenon
      <4> QED
        BY <4>2, <4>3, Zenon
    <3> QED
      BY <3>1, <3>2
  <2> HIDE DEF g
  <2>3. Leading(rs, r, f, i) = Leading(rs, r, g, i)
    BY <2>1, Zenon DEF Leading
  <2> QED
    BY <2>2, <2>3, Zenon
<1>7. g = [i \in 1..m |-> Leading(rs, r, g, i)]
  <2> DEFINE h == [i \in 1..m |-> Leading(rs, r, g, i)]
  <2>1. \A i \in 1..m : g[i] = h[i]
    BY <1>6, Zenon
  <2>2. g = [i \in 1..m |-> g[i]] /\ h = [i \in 1..m |-> h[i]]
    OBVIOUS
  <2> HIDE DEF g, h
  <2>3. [i \in 1..m |-> g[i]] = [i \in 1..m |-> h[i]]
    BY <2>1, Zenon
  <2>4. g = h
    BY <2>2, <2>3, Zenon
  <2> QED
    BY <2>4 DEF h
<1> HIDE DEF g
<1>8. m \notin Bad
  BY <1>7, Zenon
<1> QED
  BY <1>1, <1>8, Zenon

LEMMA ConcernedIs ==
  ASSUME NEW rs, Ordered(rs), Len(rs) \in Nat, DOMAIN rs = 1..Len(rs), NEW n, NEW m \in 1..Len(rs)
  PROVE  m \in Truth!Concerned(rs, n)
           <=> \E d \in rs[m].support : d = n \/ (rs[d].kt = Truth!Open /\ d \in Truth!Concerned(rs, n))
<1> DEFINE on == CHOOSE f : f = [i \in DOMAIN rs |-> Leading(rs, n, f, i)]
<1>1. Len(rs) \in 0..Len(rs)
  OBVIOUS
<1>2. \E f : f = [i \in 1..Len(rs) |-> Leading(rs, n, f, i)]
  BY <1>1, LeadingSoFar, Zenon
<1>3. \E f : f = [i \in DOMAIN rs |-> Leading(rs, n, f, i)]
  BY <1>2, Zenon
<1>4. on = [i \in DOMAIN rs |-> Leading(rs, n, on, i)]
  BY <1>3, Zenon
<1>5. Truth!Concerned(rs, n) = {i \in DOMAIN rs : on[i]}
  BY DEF Truth!Concerned, Leading
<1> HIDE DEF on
<1>6. \A i \in DOMAIN rs : on[i] <=> Leading(rs, n, on, i)
  BY <1>4, Zenon
<1>7. \A d \in rs[m].support : d \in DOMAIN rs
  BY DEF Ordered
<1> QED
  BY <1>5, <1>6, <1>7, Zenon DEF Leading

\* Rows as the evaluation sees them.
Alike(rs, qs, k) ==
    /\ Len(rs) <= Len(qs)
    /\ \A n \in 1..Len(rs) :
          /\ rs[n].valid = qs[n].valid /\ rs[n].support = qs[n].support
          /\ rs[n].contradicts = qs[n].contradicts /\ rs[n].evidence = qs[n].evidence
          /\ Truth!Known(rs[n], k) <=> Truth!Known(qs[n], k)
          /\ rs[n].life = "RETRACTED" <=> qs[n].life = "RETRACTED"

\* What is alike is evaluated alike.
LEMMA AlikeAnswers ==
  ASSUME NEW rs, NEW qs, NEW v, NEW k, Ordered(rs), Ordered(qs), Len(rs) \in Nat, Len(qs) \in Nat,
         DOMAIN rs = 1..Len(rs), DOMAIN qs = 1..Len(qs), Alike(rs, qs, k)
  PROVE  Truth!TruthAt(rs, v, k) \subseteq Truth!TruthAt(qs, v, k)
<1> DEFINE e == Truth!Evaluate(rs, v, k)
           g == Truth!Evaluate(qs, v, k)
           Bad == {n \in 1..Len(rs) : ~ (e[n] = "SUPPORTED" <=> g[n] = "SUPPORTED")}
<1> SUFFICES Bad = {}
  <2>1. \A n \in 1..Len(rs) : n \in 1..Len(qs)
    BY DEF Alike
  <2> QED
    BY <2>1, Zenon DEF Truth!TruthAt
<1> SUFFICES ASSUME Bad # {} PROVE FALSE
  OBVIOUS
<1>1. PICK n \in Bad : \A i \in Bad : n <= i
  <2>1. Bad \in SUBSET Nat
    OBVIOUS
  <2> QED
    BY <2>1, LeastNumber
<1>2. n \in 1..Len(rs) /\ n \in 1..Len(qs)
  BY <1>1 DEF Alike
<1>3. ASSUME NEW d \in rs[n].support \cup rs[n].contradicts
      PROVE  e[d] = "SUPPORTED" <=> g[d] = "SUPPORTED"
  <2>1. d \in 1..Len(rs) /\ ~ n <= d
    BY <1>2 DEF Ordered
  <2> QED
    BY <1>1, <2>1, Zenon
<1>4. (e[n] = "SUPPORTED" <=> Stands(rs, v, k, n)) /\ (g[n] = "SUPPORTED" <=> Stands(qs, v, k, n))
  BY <1>2, SupportedIs
<1>5. Stands(rs, v, k, n) <=> Stands(qs, v, k, n)
  <2>1. /\ rs[n].valid = qs[n].valid /\ rs[n].support = qs[n].support
        /\ rs[n].contradicts = qs[n].contradicts /\ rs[n].evidence = qs[n].evidence
        /\ Truth!Known(rs[n], k) <=> Truth!Known(qs[n], k)
        /\ rs[n].life = "RETRACTED" <=> qs[n].life = "RETRACTED"
    BY <1>2 DEF Alike
  <2>2. Truth!Grounded(rs[n]) <=> Truth!Grounded(qs[n])
    BY <2>1 DEF Truth!Grounded
  <2> QED
    BY <1>3, <2>1, <2>2, Zenon DEF Stands
<1> QED
  BY <1>1, <1>4, <1>5, Zenon

\* Rows in which none is opened again, and none refers to others than before.
Grown(rs, qs) ==
    /\ Len(rs) <= Len(qs)
    /\ \A n \in 1..Len(rs) : rs[n].support = qs[n].support /\ (qs[n].kt = Truth!Open => rs[n].kt = Truth!Open)

\* A retraction concerns no row afterwards that it did not concern before.
LEMMA ConcernShrinks ==
  ASSUME NEW rs, NEW qs, Ordered(rs), Ordered(qs), Len(rs) \in Nat, Len(qs) \in Nat,
         DOMAIN rs = 1..Len(rs), DOMAIN qs = 1..Len(qs), Grown(rs, qs), NEW r, NEW m \in 1..Len(rs),
         m \in Truth!Concerned(qs, r)
  PROVE  m \in Truth!Concerned(rs, r)
<1> DEFINE Bad == {i \in 1..Len(rs) : i \in Truth!Concerned(qs, r) /\ i \notin Truth!Concerned(rs, r)}
<1> SUFFICES ASSUME Bad # {} PROVE FALSE
  OBVIOUS
<1>1. PICK n \in Bad : \A i \in Bad : n <= i
  <2>1. Bad \in SUBSET Nat
    OBVIOUS
  <2> QED
    BY <2>1, LeastNumber
<1>2. n \in 1..Len(rs) /\ n \in 1..Len(qs)
  BY <1>1 DEF Grown
<1>3. PICK d \in qs[n].support : d = r \/ (qs[d].kt = Truth!Open /\ d \in Truth!Concerned(qs, r))
  BY <1>1, <1>2, ConcernedIs
<1>4. d \in rs[n].support /\ d \in 1..Len(rs) /\ ~ n <= d /\ (qs[d].kt = Truth!Open => rs[d].kt = Truth!Open)
  <2>1. d \in rs[n].support
    BY <1>2, <1>3, Zenon DEF Grown
  <2>2. d \in 1..Len(rs) /\ ~ n <= d
    BY <1>2, <2>1 DEF Ordered
  <2> QED
    BY <2>1, <2>2, Zenon DEF Grown
<1>5. d = r \/ (rs[d].kt = Truth!Open /\ d \in Truth!Concerned(rs, r))
  BY <1>1, <1>3, <1>4, Zenon
<1>6. n \in Truth!Concerned(rs, r)
  BY <1>2, <1>4, <1>5, ConcernedIs, Zenon
<1> QED
  BY <1>1, <1>6, Zenon

\* What a retraction concerns is not evaluated as supported from then on.
LEMMA ConcernedIsUnsupported ==
  ASSUME NEW rs, NEW v, NEW k, Ordered(rs), Len(rs) \in Nat, DOMAIN rs = 1..Len(rs),
         NEW r \in 1..Len(rs), rs[r].life = "RETRACTED", NEW m \in 1..Len(rs), m \in Truth!Concerned(rs, r)
  PROVE  Truth!Evaluate(rs, v, k)[m] # "SUPPORTED"
<1> DEFINE e == Truth!Evaluate(rs, v, k)
           Bad == {i \in 1..Len(rs) : i \in Truth!Concerned(rs, r) /\ e[i] = "SUPPORTED"}
<1> SUFFICES ASSUME Bad # {} PROVE FALSE
  OBVIOUS
<1>1. PICK n \in Bad : \A i \in Bad : n <= i
  <2>1. Bad \in SUBSET Nat
    OBVIOUS
  <2> QED
    BY <2>1, LeastNumber
<1>2. n \in 1..Len(rs) /\ Stands(rs, v, k, n)
  BY <1>1, SupportedIs
<1>3. PICK d \in rs[n].support : d = r \/ (rs[d].kt = Truth!Open /\ d \in Truth!Concerned(rs, r))
  BY <1>1, <1>2, ConcernedIs
<1>4. d \in 1..Len(rs) /\ ~ n <= d
  BY <1>2 DEF Ordered
<1>5. e[d] = "SUPPORTED"
  BY <1>2, Zenon DEF Stands
<1>6. d # r
  <2>1. ~ Stands(rs, v, k, r)
    BY Zenon DEF Stands
  <2> QED
    BY <1>5, <2>1, SupportedIs
<1> QED
  BY <1>1, <1>3, <1>4, <1>5, <1>6, Zenon

-----------------------------------------------------------------------------
(* TruthMaintenance: the inductive invariant. *)

Row == [kf : Truth!Moments, kt : Truth!Moments \cup {Truth!Open}, valid : SUBSET Truth!Moments,
        support : SUBSET Nat, contradicts : SUBSET Nat, evidence : Truth!Evidence,
        life : {"ACTIVE", "SUPERSEDED", "RETRACTED"}, state : Truth!SupportStates, rev : Nat]
Drafts == [valid : SUBSET Truth!Moments, evidence : Truth!Evidence, support : SUBSET Nat, contradicts : SUBSET Nat]
\* Rows that were found, with their revisions.
Found == UNION {[D -> Nat] : D \in SUBSET Nat}
Assertion == [pc : {"idle", "close", "insert", "evaluate", "store", "find", "mark"},
              op : {"record", "invalidate"}, root : Nat, rev : Nat, now : Truth!Moments, id : Nat,
              draft : Drafts \cup {<<>>}, result : Truth!SupportStates, queue : Seq(Nat), seen : SUBSET Nat,
              todo : Found]

TruthType == rows \in Seq(Row) /\ asserting \in [Sessions -> Assertion]

\* The rows refer to earlier ones, and what is retracted is closed.
RowsOK == Ordered(rows) /\ \A n \in 1..Len(rows) : rows[n].life = "RETRACTED" => rows[n].kt # Truth!Open

\* What a call works on is there; the row that it is going to close is open, if the row is
\* as it was read, and a row that it has closed, or propagates from, is closed.
CallOK(s) ==
    LET c == asserting[s]
        root == rows[c.root]
    IN /\ c.pc \in {"insert", "evaluate", "store"} => c.op = "record"
       /\ c.op = "record" /\ c.pc \in {"close", "insert"} =>
             c.draft \in Drafts /\ c.draft.support \subseteq 1..Len(rows) /\ c.draft.contradicts \subseteq 1..Len(rows)
       /\ c.pc \in {"evaluate", "store"} => c.id \in 1..Len(rows)
       /\ c.pc = "close" => c.root \in 1..Len(rows) /\ c.rev <= root.rev /\ (c.rev = root.rev => root.kt = Truth!Open)
       /\ c.pc \in {"insert", "evaluate", "store"} /\ c.root # 0 => c.root \in 1..Len(rows) /\ root.kt # Truth!Open
       /\ c.pc \in {"find", "mark"} => c.root \in 1..Len(rows) /\ root.kt # Truth!Open

\* The call is going to store that row m is supported.
Pending(s, m) == asserting[s].pc = "store" /\ asserting[s].id = m /\ asserting[s].result = "SUPPORTED"

\* Row m is not stored as supported, and no call is going to store it as supported.
Quiet(m) == rows[m].state # "SUPPORTED" /\ \A t \in Sessions : Pending(t, m) => rows[m].rev # 0

\* What a retraction of r concerns is quiet, of the rows after the first l.
QuietFrom(l, r) ==
    \A m \in 1..Len(rows) : m > l /\ m \in Truth!Concerned(rows, r) /\ rows[m].kt = Truth!Open => Quiet(m)

\* Of the first l rows, those that rest on a row which the walk is done with are found.
CaughtUpTo(l, c) ==
    \A m \in 1..Len(rows) : m <= l /\ rows[m].kt = Truth!Open =>
        \A d \in rows[m].support :
            d \in c.seen /\ (\A i \in 1..Len(c.queue) : c.queue[i] # d) => m \in c.seen \/ m \in DOMAIN c.todo

\* A walk: what it has marked stays unsupported, and there is a number of rows such that it
\* is going to find what is concerned of these, and the later ones are evaluated after the
\* retraction.
WalkOK(s) ==
    LET c == asserting[s] IN
    c.pc \in {"find", "mark"} =>
        /\ c.root \in c.seen /\ DOMAIN c.todo \subseteq 1..Len(rows)
        /\ c.pc = "find" => DOMAIN c.todo = {}
        /\ \A m \in c.seen : m # c.root => m \in 1..Len(rows) /\ rows[m].state # "SUPPORTED" /\ rows[m].rev # 0
        /\ rows[c.root].life = "RETRACTED" => \E l \in 0..Len(rows) : QuietFrom(l, c.root) /\ CaughtUpTo(l, c)

RetractedIsQuiet ==
    \A n \in 1..Len(rows) : rows[n].life = "RETRACTED" /\ n \notin outstanding => QuietFrom(0, n)

TruthInv == TruthType /\ RowsOK /\ (\A s \in Sessions : CallOK(s) /\ WalkOK(s)) /\ RetractedIsQuiet

\* What may happen to a row.
RowMoved(p, q) ==
    /\ q.kf = p.kf /\ q.valid = p.valid /\ q.support = p.support /\ q.contradicts = p.contradicts
    /\ q.evidence = p.evidence
    /\ q.kt # p.kt => p.kt = Truth!Open
    /\ p.life = "RETRACTED" => q.life = "RETRACTED"
    /\ q.life = "RETRACTED" /\ p.life # "RETRACTED" => p.kt = Truth!Open
    /\ p.rev <= q.rev /\ (q.rev = p.rev => q = p)

\* What may happen to the rows in a step.
Moved ==
    /\ rows' \in Seq(Row) /\ Len(rows) <= Len(rows')
    /\ RowsOK'
    /\ \A n \in 1..Len(rows) : RowMoved(rows[n], rows'[n])
    /\ \A n \in 1..Len(rows) : rows'[n].state = "SUPPORTED" =>
          rows[n].state = "SUPPORTED" \/ (rows[n].rev = 0 /\ \E t \in Sessions : Pending(t, n))
    /\ \A t \in Sessions, n \in 1..Len(rows) : Pending(t, n)' =>
          Pending(t, n) \/ \E v, k : Truth!Evaluate(rows, v, k)[n] = "SUPPORTED"
    /\ \A n \in 1..Len(rows') : n > Len(rows) =>
          rows'[n].state # "SUPPORTED" /\ rows'[n].life # "RETRACTED" /\ \A t \in Sessions : ~Pending(t, n)'

LEMMA SeqIs ==
  ASSUME NEW rs \in Seq(Row)
  PROVE  Len(rs) \in Nat /\ DOMAIN rs = 1..Len(rs) /\ \A n \in 1..Len(rs) : rs[n] \in Row
OBVIOUS

\* Quietness lasts.
LEMMA QuietStays ==
  ASSUME TruthType, RowsOK, Moved, NEW r \in 1..Len(rows), rows[r].life = "RETRACTED",
         NEW l \in Nat, QuietFrom(l, r)
  PROVE  QuietFrom(l, r)'
<1> SUFFICES ASSUME NEW m \in 1..Len(rows'), m > l, m \in Truth!Concerned(rows', r), rows'[m].kt = Truth!Open
             PROVE  Quiet(m)'
  BY DEF QuietFrom
<1>1. /\ Len(rows) \in Nat /\ DOMAIN rows = 1..Len(rows) /\ Len(rows') \in Nat /\ DOMAIN rows' = 1..Len(rows')
      /\ rows \in Seq(Row) /\ rows' \in Seq(Row) /\ Len(rows) <= Len(rows') /\ Ordered(rows) /\ Ordered(rows')
  BY SeqIs DEF TruthType, Moved, RowsOK
<1>2. CASE m > Len(rows)
  BY <1>2 DEF Moved, Quiet
<1>3. CASE ~ m > Len(rows)
  <2>1. m \in 1..Len(rows)
    BY <1>1, <1>3
  <2>2. RowMoved(rows[m], rows'[m]) /\ \A n \in 1..Len(rows) : RowMoved(rows[n], rows'[n])
    BY <2>1 DEF Moved
  <2>3. rows[m].kt = Truth!Open
    BY <2>2 DEF RowMoved
  <2>4. Grown(rows, rows')
    <3>1. ASSUME NEW n \in 1..Len(rows)
          PROVE  rows[n].support = rows'[n].support /\ (rows'[n].kt = Truth!Open => rows[n].kt = Truth!Open)
      BY <2>2 DEF RowMoved
    <3> QED
      BY <1>1, <3>1 DEF Grown
  <2>5. m \in Truth!Concerned(rows, r)
    BY <1>1, <2>1, <2>4, ConcernShrinks
  <2>6. Quiet(m)
    BY <2>1, <2>3, <2>5 DEF QuietFrom
  <2>7. rows'[m].state # "SUPPORTED"
    BY <2>1, <2>6 DEF Moved, Quiet
  <2>8. ASSUME NEW t \in Sessions, Pending(t, m)' PROVE rows'[m].rev # 0
    <3>1. Pending(t, m) \/ \E v, k : Truth!Evaluate(rows, v, k)[m] = "SUPPORTED"
      BY <2>1, <2>8 DEF Moved
    <3>2. Pending(t, m)
      <4> SUFFICES ASSUME NEW v, NEW k, Truth!Evaluate(rows, v, k)[m] = "SUPPORTED" PROVE FALSE
        BY <3>1
      <4> QED
        BY <1>1, <2>1, <2>5, ConcernedIsUnsupported
    <3>3. rows[m].rev # 0
      BY <2>6, <3>2 DEF Quiet
    <3>4. rows[m].rev \in Nat /\ rows'[m].rev \in Nat
      BY <1>1, <2>1, SeqIs DEF Row
    <3> QED
      BY <2>2, <3>3, <3>4 DEF RowMoved
  <2> QED
    BY <2>7, <2>8 DEF Quiet
<1> QED
  BY <1>2, <1>3

\* The invariant of a call that does not act lasts.
LEMMA OthersStay ==
  ASSUME TruthType, RowsOK, Moved, NEW t \in Sessions, asserting'[t] = asserting[t], CallOK(t), WalkOK(t)
  PROVE  CallOK(t)' /\ WalkOK(t)'
<1> DEFINE c == asserting[t]
<1>1. /\ Len(rows) \in Nat /\ Len(rows') \in Nat /\ Len(rows) <= Len(rows')
      /\ 1..Len(rows) \subseteq 1..Len(rows')
  BY SeqIs DEF TruthType, Moved
<1>2. ASSUME NEW n \in 1..Len(rows)
      PROVE  /\ rows[n].rev \in Nat /\ rows'[n].rev \in Nat /\ rows[n].rev <= rows'[n].rev
             /\ rows'[n].rev = rows[n].rev => rows'[n] = rows[n]
             /\ rows[n].kt # Truth!Open => rows'[n].kt # Truth!Open
             /\ rows[n].kt # Truth!Open /\ rows'[n].life = "RETRACTED" => rows[n].life = "RETRACTED"
             /\ rows'[n].support = rows[n].support
  <2>1. RowMoved(rows[n], rows'[n]) /\ n \in 1..Len(rows')
    BY <1>1 DEF Moved
  <2>2. rows[n] \in Row /\ rows'[n] \in Row
    BY <2>1, SeqIs DEF TruthType, Moved
  <2>3. rows[n].rev \in Nat /\ rows'[n].rev \in Nat
    BY <2>2 DEF Row
  <2> QED
    BY <2>1, <2>3 DEF RowMoved
<1>3. c \in Assertion
  BY DEF TruthType
<1>4. c.rev \in Nat
  BY <1>3 DEF Assertion
<1>5. CallOK(t)'
  <2>1. c.pc \in {"insert", "evaluate", "store"} => c.op = "record"
    BY DEF CallOK
  <2>2. c.op = "record" /\ c.pc \in {"close", "insert"} =>
             c.draft \in Drafts /\ c.draft.support \subseteq 1..Len(rows') /\ c.draft.contradicts \subseteq 1..Len(rows')
    BY <1>1 DEF CallOK
  <2>3. c.pc \in {"evaluate", "store"} => c.id \in 1..Len(rows')
    BY <1>1 DEF CallOK
  <2>4. c.pc = "close" => c.root \in 1..Len(rows') /\ c.rev <= rows'[c.root].rev
                             /\ (c.rev = rows'[c.root].rev => rows'[c.root].kt = Truth!Open)
    <3> SUFFICES ASSUME c.pc = "close"
                 PROVE  c.root \in 1..Len(rows') /\ c.rev <= rows'[c.root].rev
                          /\ (c.rev = rows'[c.root].rev => rows'[c.root].kt = Truth!Open)
      OBVIOUS
    <3>1. c.root \in 1..Len(rows) /\ c.rev <= rows[c.root].rev /\ (c.rev = rows[c.root].rev => rows[c.root].kt = Truth!Open)
      BY DEF CallOK
    <3> DEFINE r == c.root
    <3>2. /\ rows[r].rev \in Nat /\ rows'[r].rev \in Nat /\ rows[r].rev <= rows'[r].rev
          /\ rows'[r].rev = rows[r].rev => rows'[r] = rows[r]
      BY <1>2, <3>1, Zenon
    <3> QED
      BY <1>1, <1>4, <3>1, <3>2
  <2>5. c.pc \in {"insert", "evaluate", "store"} /\ c.root # 0 => c.root \in 1..Len(rows') /\ rows'[c.root].kt # Truth!Open
    BY <1>1, <1>2 DEF CallOK
  <2>6. c.pc \in {"find", "mark"} => c.root \in 1..Len(rows') /\ rows'[c.root].kt # Truth!Open
    BY <1>1, <1>2 DEF CallOK
  <2> QED
    BY <2>1, <2>2, <2>3, <2>4, <2>5, <2>6 DEF CallOK
<1>6. WalkOK(t)'
  <2> SUFFICES ASSUME c.pc \in {"find", "mark"}
               PROVE  /\ c.root \in c.seen /\ DOMAIN c.todo \subseteq 1..Len(rows')
                      /\ c.pc = "find" => DOMAIN c.todo = {}
                      /\ \A m \in c.seen : m # c.root => m \in 1..Len(rows') /\ rows'[m].state # "SUPPORTED" /\ rows'[m].rev # 0
                      /\ rows'[c.root].life = "RETRACTED" =>
                            \E l \in 0..Len(rows') : QuietFrom(l, c.root)' /\ CaughtUpTo(l, c)'
    BY DEF WalkOK
  <2>1. c.root \in c.seen /\ DOMAIN c.todo \subseteq 1..Len(rows') /\ (c.pc = "find" => DOMAIN c.todo = {})
    BY <1>1 DEF WalkOK
  <2>2. ASSUME NEW m \in c.seen, m # c.root
        PROVE  m \in 1..Len(rows') /\ rows'[m].state # "SUPPORTED" /\ rows'[m].rev # 0
    <3>1. m \in 1..Len(rows) /\ rows[m].state # "SUPPORTED" /\ rows[m].rev # 0
      BY <2>2 DEF WalkOK
    <3>2. rows'[m].state # "SUPPORTED"
      BY <3>1 DEF Moved
    <3> QED
      BY <1>1, <1>2, <3>1, <3>2
  <2>3. ASSUME rows'[c.root].life = "RETRACTED"
        PROVE  \E l \in 0..Len(rows') : QuietFrom(l, c.root)' /\ CaughtUpTo(l, c)'
    <3>1. c.root \in 1..Len(rows) /\ rows[c.root].kt # Truth!Open
      BY DEF CallOK
    <3>2. rows[c.root].life = "RETRACTED"
      BY <1>2, <2>3, <3>1
    <3>3. PICK l \in 0..Len(rows) : QuietFrom(l, c.root) /\ CaughtUpTo(l, c)
      BY <3>2 DEF WalkOK
    <3>4. l \in Nat /\ l \in 0..Len(rows')
      BY <1>1
    <3>5. QuietFrom(l, c.root)'
      BY <3>1, <3>2, <3>3, <3>4, QuietStays
    <3>6. CaughtUpTo(l, c)'
      <4> SUFFICES ASSUME NEW m \in 1..Len(rows'), m <= l, rows'[m].kt = Truth!Open, NEW d \in rows'[m].support,
                          d \in c.seen, \A i \in 1..Len(c.queue) : c.queue[i] # d
                   PROVE  m \in c.seen \/ m \in DOMAIN c.todo
        BY DEF CaughtUpTo
      <4>1. m \in 1..Len(rows)
        BY <1>1, <3>3
      <4>2. rows[m].kt = Truth!Open /\ d \in rows[m].support
        BY <1>2, <4>1
      <4> QED
        BY <3>3, <4>1, <4>2 DEF CaughtUpTo
    <3> QED
      BY <3>4, <3>5, <3>6
  <2> QED
    BY <2>1, <2>2, <2>3
<1> QED
  BY <1>5, <1>6

\* What has been retracted stays quiet, unless a walk from it ends or it is retracted now.
LEMMA RetractedStays ==
  ASSUME TruthType, RowsOK, Moved, RetractedIsQuiet,
         \A n \in 1..Len(rows) : rows'[n].life = "RETRACTED" /\ n \notin outstanding'
             => rows[n].life = "RETRACTED" /\ (n \notin outstanding \/ QuietFrom(0, n))
  PROVE  RetractedIsQuiet'
<1> SUFFICES ASSUME NEW n \in 1..Len(rows'), rows'[n].life = "RETRACTED", n \notin outstanding'
             PROVE  QuietFrom(0, n)'
  BY DEF RetractedIsQuiet
<1>1. n \in 1..Len(rows)
  <2>1. Len(rows) \in Nat /\ Len(rows') \in Nat /\ Len(rows) <= Len(rows')
    BY SeqIs DEF TruthType, Moved
  <2>2. ~ n > Len(rows)
    BY DEF Moved
  <2> QED
    BY <2>1, <2>2
<1>2. rows[n].life = "RETRACTED" /\ QuietFrom(0, n)
  BY <1>1 DEF RetractedIsQuiet
<1>3. 0 \in Nat
  OBVIOUS
<1> QED
  BY <1>1, <1>2, <1>3, QuietStays

-----------------------------------------------------------------------------
(* TruthMaintenance: the steps. *)

LEMMA IdleIs ==
  ASSUME RecordsAssumption
  PROVE  /\ Truth!Idle \in Assertion
         /\ Truth!Idle.pc = "idle" /\ Truth!Idle.op = "record" /\ Truth!Idle.root = 0 /\ Truth!Idle.todo = <<>>
<1>1. <<>> \in Found
  <2>1. <<>> \in [{} -> Nat]
    OBVIOUS
  <2> QED
    BY <2>1 DEF Found
<1>2. 0 \in Truth!Moments
  BY DEF RecordsAssumption, Truth!TruthAssumption, Truth!Moments
<1>3. <<>> \in Seq(Nat) /\ "UNSUPPORTED" \in Truth!SupportStates
  BY DEF Truth!SupportStates
<1> QED
  BY <1>1, <1>2, <1>3 DEF Assertion, Truth!Idle

\* A call comes to c.
LEMMA GotoIs ==
  ASSUME TruthType, NEW s \in Sessions, NEW c \in Assertion, Truth!Goto(s, c)
  PROVE  /\ asserting' \in [Sessions -> Assertion] /\ asserting'[s] = c
         /\ \A t \in Sessions \ {s} : asserting'[t] = asserting[t]
         /\ c.pc # "store" => \A t \in Sessions, n \in 1..Len(rows) : Pending(t, n)' => Pending(t, n)
<1>1. /\ asserting' \in [Sessions -> Assertion] /\ asserting'[s] = c
      /\ \A t \in Sessions \ {s} : asserting'[t] = asserting[t]
  BY Zenon DEF TruthType, Truth!Goto
<1> QED
  BY <1>1 DEF Pending

\* The invariant holds again if what the step does to the rows may happen to them and the
\* call that acts is in order.
LEMMA StepIsOK ==
  ASSUME TruthInv, Moved, NEW s \in Sessions, NEW c \in Assertion, Truth!Goto(s, c), CallOK(s)', WalkOK(s)',
         RetractedIsQuiet'
  PROVE  TruthInv'
<1>1. /\ asserting' \in [Sessions -> Assertion]
      /\ \A t \in Sessions \ {s} : asserting'[t] = asserting[t]
  BY GotoIs DEF TruthInv
<1>2. TruthType'
  BY <1>1 DEF TruthType, Moved
<1>3. RowsOK'
  BY DEF Moved
<1>4. ASSUME NEW t \in Sessions PROVE CallOK(t)' /\ WalkOK(t)'
  <2>1. CASE t = s
    BY <2>1
  <2>2. CASE t # s
    BY <1>1, <2>2, OthersStay DEF TruthInv
  <2> QED
    BY <2>1, <2>2
<1> QED
  BY <1>2, <1>3, <1>4 DEF TruthInv

\* A step that leaves the rows alone.
LEMMA StillMoves ==
  ASSUME TruthType, RowsOK, UNCHANGED rows,
         \A t \in Sessions, n \in 1..Len(rows) : Pending(t, n)' =>
            Pending(t, n) \/ \E v, k : Truth!Evaluate(rows, v, k)[n] = "SUPPORTED"
  PROVE  Moved
<1>1. rows' \in Seq(Row) /\ Len(rows) \in Nat /\ Len(rows') = Len(rows) /\ \A n \in 1..Len(rows) : rows[n] \in Row
  BY SeqIs DEF TruthType
<1>2. RowsOK'
  BY DEF RowsOK, Ordered
<1>3. ASSUME NEW n \in 1..Len(rows) PROVE RowMoved(rows[n], rows'[n])
  <2>1. rows[n].rev \in Nat
    BY <1>1 DEF Row
  <2> QED
    BY <2>1 DEF RowMoved
<1>4. ~ \E n \in 1..Len(rows') : n > Len(rows)
  BY <1>1
<1> QED
  BY <1>1, <1>2, <1>3, <1>4 DEF Moved

\* A step that leaves the rows alone and takes no call into a store.
LEMMA StillIsOK ==
  ASSUME TruthInv, UNCHANGED <<rows, outstanding>>, NEW s \in Sessions, NEW c \in Assertion, Truth!Goto(s, c),
         c.pc # "store", CallOK(s)', WalkOK(s)'
  PROVE  TruthInv'
<1>1. \A t \in Sessions, n \in 1..Len(rows) : Pending(t, n)' => Pending(t, n)
  BY GotoIs DEF TruthInv
<1>2. Moved
  BY <1>1, StillMoves DEF TruthInv
<1>3. RetractedIsQuiet'
  <2>1. \A n \in 1..Len(rows) : rows'[n].life = "RETRACTED" /\ n \notin outstanding'
             => rows[n].life = "RETRACTED" /\ (n \notin outstanding \/ QuietFrom(0, n))
    OBVIOUS
  <2> QED
    BY <1>2, <2>1, RetractedStays DEF TruthInv
<1> QED
  BY <1>2, <1>3, StepIsOK

\* A call ends, with an error or with its process.
LEMMA CallEnds ==
  ASSUME RecordsAssumption, TruthInv, UNCHANGED <<rows, outstanding>>, NEW s \in Sessions, Truth!Goto(s, Truth!Idle)
  PROVE  TruthInv'
<1>1. Truth!Idle \in Assertion /\ Truth!Idle.pc = "idle"
  BY IdleIs
<1>2. asserting'[s] = Truth!Idle
  BY <1>1, GotoIs DEF TruthInv
<1>3. CallOK(s)' /\ WalkOK(s)'
  BY <1>1, <1>2 DEF CallOK, WalkOK
<1> QED
  BY <1>1, <1>3, StillIsOK

\* A call that ends leaves the rows alone.
LEMMA EndMoves ==
  ASSUME RecordsAssumption, TruthInv, UNCHANGED rows, NEW s \in Sessions, Truth!Goto(s, Truth!Idle)
  PROVE  Moved
<1>1. Truth!Idle \in Assertion /\ Truth!Idle.pc = "idle"
  BY IdleIs
<1>2. \A t \in Sessions, n \in 1..Len(rows) : Pending(t, n)' => Pending(t, n)
  BY <1>1, GotoIs DEF TruthInv
<1> QED
  BY <1>2, StillMoves DEF TruthInv

\* A walk starts at a row that is closed, if at any.
LEMMA WalkBegins ==
  ASSUME RecordsAssumption, rows' \in Seq(Row), NEW s \in Sessions, NEW c \in Assertion,
         asserting'[s] = Truth!Propagate(c),
         c.root = 0 \/ (c.root \in 1..Len(rows') /\ rows'[c.root].kt # Truth!Open)
  PROVE  Truth!Propagate(c) \in Assertion /\ Truth!Propagate(c).pc # "store" /\ CallOK(s)' /\ WalkOK(s)'
<1>1. CASE c.root = 0
  <2>1. Truth!Propagate(c) = Truth!Idle
    BY <1>1 DEF Truth!Propagate
  <2>2. Truth!Idle \in Assertion /\ Truth!Idle.pc = "idle"
    BY IdleIs
  <2> QED
    BY <2>1, <2>2 DEF CallOK, WalkOK
<1>2. CASE c.root # 0
  <2> DEFINE p == Truth!Propagate(c)
  <2>1. p = [Truth!Idle EXCEPT !.pc = "find", !.op = c.op, !.root = c.root, !.queue = <<c.root>>, !.seen = {c.root}]
    BY <1>2 DEF Truth!Propagate
  <2>2. Truth!Idle \in Assertion /\ Truth!Idle.todo = <<>>
    BY IdleIs
  <2>3. c.root \in Nat /\ c.op \in {"record", "invalidate"} /\ <<c.root>> \in Seq(Nat)
    BY DEF Assertion
  <2>4. p.pc = "find" /\ p.root = c.root /\ p.queue = <<c.root>> /\ p.seen = {c.root} /\ p.todo = <<>>
    BY <2>1, <2>2 DEF Assertion
  <2>5. p \in Assertion
    <3>1. ASSUME NEW i \in Assertion, NEW op \in {"record", "invalidate"}, NEW r \in Nat,
                 NEW queue \in Seq(Nat), NEW seen \in SUBSET Nat
          PROVE  [i EXCEPT !.pc = "find", !.op = op, !.root = r, !.queue = queue, !.seen = seen] \in Assertion
      BY DEF Assertion
    <3>2. {c.root} \in SUBSET Nat
      BY <2>3
    <3> HIDE DEF p
    <3>3. c.op \in {"record", "invalidate"}
      BY <2>3
    <3>4. <<c.root>> \in Seq(Nat)
      BY <2>3
    <3>5. [Truth!Idle EXCEPT !.pc = "find", !.op = c.op, !.root = c.root, !.queue = <<c.root>>, !.seen = {c.root}] \in Assertion
      BY <2>2, <2>3, <3>1, <3>2, <3>3, <3>4
    <3> QED
      BY <2>1, <3>5, Zenon
  <2> HIDE DEF p
  <2>6. asserting'[s] = p
    BY DEF p
  <2>7. CallOK(s)'
    BY <1>2, <2>4, <2>6 DEF CallOK
  <2>8. DOMAIN p.todo = {}
    BY <2>4
  <2>9. Len(rows') \in Nat /\ Len(rows') \in 0..Len(rows')
    BY SeqIs
  <2>10. QuietFrom(Len(rows), p.root)'
    BY <2>9 DEF QuietFrom
  <2>11. CaughtUpTo(Len(rows), asserting[s])'
    <3>1. p.queue[1] = p.root /\ 1 \in 1..Len(p.queue)
      BY <2>4
    <3>2. \A d : ~ (d \in p.seen /\ (\A i \in 1..Len(p.queue) : p.queue[i] # d))
      BY <2>4, <3>1
    <3> QED
      BY <2>6, <3>2 DEF CaughtUpTo
  <2>12. WalkOK(s)'
    <3>1. p.root \in p.seen /\ DOMAIN p.todo \subseteq 1..Len(rows') /\ (p.pc = "find" => DOMAIN p.todo = {})
      BY <2>4, <2>8
    <3>2. \A m \in p.seen : m = p.root
      BY <2>4
    <3>3. \E l \in 0..Len(rows') : QuietFrom(l, p.root)' /\ CaughtUpTo(l, p)'
      BY <2>6, <2>9, <2>10, <2>11, Zenon
    <3> QED
      BY <2>6, <3>1, <3>2, <3>3 DEF WalkOK
  <2> QED
    BY <2>4, <2>5, <2>7, <2>12 DEF p
<1> QED
  BY <1>1, <1>2

\* What writing one row with the compare-and-set may do to it.
LEMMA PutMoves ==
  ASSUME TruthType, RowsOK, NEW id \in 1..Len(rows), NEW row \in Row, Truth!Put(id, row),
         row.kf = rows[id].kf, row.valid = rows[id].valid, row.support = rows[id].support,
         row.contradicts = rows[id].contradicts, row.evidence = rows[id].evidence, row.rev = rows[id].rev,
         row.kt # rows[id].kt => rows[id].kt = Truth!Open,
         rows[id].life = "RETRACTED" => row.life = "RETRACTED",
         row.life = "RETRACTED" => row.kt # Truth!Open,
         row.life = "RETRACTED" /\ rows[id].life # "RETRACTED" => rows[id].kt = Truth!Open,
         row.state = "SUPPORTED" => rows[id].state = "SUPPORTED" \/ (rows[id].rev = 0 /\ \E t \in Sessions : Pending(t, id)),
         \A t \in Sessions, n \in 1..Len(rows) : Pending(t, n)' => Pending(t, n)
  PROVE  /\ Moved /\ Len(rows') = Len(rows)
         /\ rows'[id].kt = row.kt /\ rows'[id].state = row.state /\ rows'[id].rev = row.rev + 1
         /\ rows'[id].life = row.life /\ \A n \in 1..Len(rows) : n # id => rows'[n] = rows[n]
<1> DEFINE q == [row EXCEPT !.rev = row.rev + 1]
<1>1. Len(rows) \in Nat /\ DOMAIN rows = 1..Len(rows) /\ \A n \in 1..Len(rows) : rows[n] \in Row
  BY SeqIs DEF TruthType
<1>2. row.rev \in Nat /\ row.rev + 1 \in Nat
  BY DEF Row
<1>3. q \in Row
  BY <1>2 DEF Row
<1>4. /\ q.kf = row.kf /\ q.valid = row.valid /\ q.support = row.support /\ q.contradicts = row.contradicts
      /\ q.evidence = row.evidence /\ q.kt = row.kt /\ q.life = row.life /\ q.state = row.state
      /\ q.rev = row.rev + 1
  BY DEF Row
<1>5. rows' = [rows EXCEPT ![id] = q]
  BY DEF Truth!Put
<1> HIDE DEF q
<1>6. rows' \in Seq(Row) /\ Len(rows') = Len(rows) /\ rows'[id] = q /\ \A n \in 1..Len(rows) : n # id => rows'[n] = rows[n]
  BY <1>1, <1>3, <1>5 DEF TruthType
<1>7. RowsOK'
  <2>1. ASSUME NEW n \in 1..Len(rows')
        PROVE  /\ rows'[n].support \subseteq 1..n-1 /\ rows'[n].contradicts \subseteq 1..n-1
               /\ rows'[n].life = "RETRACTED" => rows'[n].kt # Truth!Open
    <3>1. CASE n = id
      BY <1>4, <1>6, <3>1 DEF RowsOK, Ordered
    <3>2. CASE n # id
      BY <1>6, <3>2 DEF RowsOK, Ordered
    <3> QED
      BY <3>1, <3>2
  <2> QED
    BY <2>1 DEF RowsOK, Ordered
<1>8. ASSUME NEW n \in 1..Len(rows) PROVE RowMoved(rows[n], rows'[n])
  <2>1. CASE n = id
    BY <1>2, <1>4, <1>6, <2>1 DEF RowMoved
  <2>2. CASE n # id
    <3>1. rows[n].rev \in Nat
      BY <1>1 DEF Row
    <3> QED
      BY <1>6, <2>2, <3>1 DEF RowMoved
  <2> QED
    BY <2>1, <2>2
<1>9. ASSUME NEW n \in 1..Len(rows), rows'[n].state = "SUPPORTED"
      PROVE  rows[n].state = "SUPPORTED" \/ (rows[n].rev = 0 /\ \E t \in Sessions : Pending(t, n))
  <2>1. CASE n = id
    BY <1>4, <1>6, <1>9, <2>1
  <2>2. CASE n # id
    BY <1>6, <1>9, <2>2
  <2> QED
    BY <2>1, <2>2
<1>10. ~ \E n \in 1..Len(rows') : n > Len(rows)
  BY <1>1, <1>6
<1>11. Len(rows) <= Len(rows')
  BY <1>1, <1>6
<1>12. Moved
  BY <1>6, <1>7, <1>8, <1>9, <1>10, <1>11 DEF Moved
<1> QED
  BY <1>4, <1>6, <1>12

\* What BeginRecord is given.
LEMMA InputsAre ==
  ASSUME RecordsAssumption, NEW n \in 0..MaxRows, NEW d \in Inputs(n)
  PROVE  d \in Drafts /\ d.support \subseteq 1..n /\ d.contradicts \subseteq 1..n
<1>1. d \in [valid : (SUBSET Truth!Moments) \ {{}}, evidence : Truth!Evidence,
             support : SUBSET (1..n), contradicts : SUBSET (1..n)]
  BY DEF RecordsAssumption, Truth!TruthAssumption
<1>2. 1..n \subseteq Nat
  OBVIOUS
<1> QED
  BY <1>1, <1>2 DEF Drafts

LEMMA CountingInParts ==
  /\ \A S : Truth!Cardinality(S) = Cardinality(S) /\ Files!Cardinality(S) = Cardinality(S)
  /\ \A S : (Truth!IsFiniteSet(S) <=> IsFiniteSet(S)) /\ (Files!IsFiniteSet(S) <=> IsFiniteSet(S))
BY DEF Truth!Cardinality, Files!Cardinality, Cardinality, Truth!IsFiniteSet, Files!IsFiniteSet, IsFiniteSet

\* A call begins only while there is room for its row.
LEMMA RoomForRow ==
  ASSUME RecordsAssumption, TruthType, Len(rows) + Truth!Recording < MaxRows
  PROVE  Len(rows) \in 0..MaxRows
<1> DEFINE S == {s \in Sessions : asserting[s].op = "record" /\ asserting[s].pc \in {"close", "insert"}}
<1>1. IsFiniteSet(S)
  <2>1. IsFiniteSet(Sessions)
    BY CountingInParts DEF RecordsAssumption, Truth!TruthAssumption
  <2>2. S \subseteq Sessions
    OBVIOUS
  <2> QED
    BY <2>1, <2>2, FS_Subset
<1>2. Cardinality(S) \in Nat
  BY <1>1, FS_CardinalityType
<1>3. Truth!Recording \in Nat
  BY <1>2, CountingInParts, Zenon DEF Truth!Recording
<1>4. Len(rows) \in Nat /\ MaxRows \in Nat
  BY SeqIs DEF TruthType, RecordsAssumption, Truth!TruthAssumption
<1> QED
  BY <1>3, <1>4

LEMMA BeginRecordOK ==
  ASSUME RecordsAssumption, TruthInv, NEW s \in Sessions, Truth!BeginRecord(s)
  PROVE  TruthInv'
<1> PICK now \in Truth!Moments, d \in Inputs(Len(rows)), old \in {0} \cup DOMAIN rows :
      Truth!Goto(s, IF Truth!Closes(old)
                    THEN [[Truth!Idle EXCEPT !.now = now, !.draft = d] EXCEPT !.pc = "close", !.root = old, !.rev = rows[old].rev]
                    ELSE [[Truth!Idle EXCEPT !.now = now, !.draft = d] EXCEPT !.pc = "insert"])
  BY Zenon DEF Truth!BeginRecord
<1>1. UNCHANGED <<rows, outstanding>>
  BY DEF Truth!BeginRecord, Truth!Begin
<1>2. Len(rows) \in 0..MaxRows
  BY RoomForRow DEF Truth!BeginRecord, TruthInv
<1>3. d \in Drafts /\ d.support \subseteq 1..Len(rows) /\ d.contradicts \subseteq 1..Len(rows)
  BY <1>2, InputsAre
<1>4. Len(rows) \in Nat /\ DOMAIN rows = 1..Len(rows) /\ \A n \in 1..Len(rows) : rows[n] \in Row
  BY SeqIs DEF TruthInv, TruthType
<1>5. PICK i \in Assertion : i = Truth!Idle
  BY IdleIs
<1>6. i.pc = "idle" /\ i.op = "record" /\ i.root = 0
  BY <1>5, IdleIs
<1> DEFINE c == [i EXCEPT !.now = now, !.draft = d]
<1>7. c \in Assertion /\ c.op = "record" /\ c.root = 0 /\ c.draft = d
  BY <1>3, <1>6 DEF Assertion
<1>8. CASE Truth!Closes(old)
  <2>1. old \in 1..Len(rows) /\ old \in Nat /\ rows[old].kt = Truth!Open
    BY <1>4, <1>8 DEF Truth!Closes
  <2>2. rows[old].rev \in Nat
    BY <1>4, <2>1 DEF Row
  <2> DEFINE p == [c EXCEPT !.pc = "close", !.root = old, !.rev = rows[old].rev]
  <2>3. p \in Assertion /\ p.pc = "close" /\ p.root = old /\ p.rev = rows[old].rev /\ p.op = "record" /\ p.draft = d
    <3> HIDE DEF c
    <3> QED
      BY <1>7, <2>1, <2>2 DEF Assertion
  <2>4. Truth!Goto(s, p)
    BY <1>5, <1>8
  <2> HIDE DEF p
  <2>5. asserting'[s] = p
    BY <2>3, <2>4, GotoIs DEF TruthInv
  <2>6. CallOK(s)'
    BY <1>1, <1>3, <2>1, <2>2, <2>3, <2>5 DEF CallOK
  <2>7. WalkOK(s)'
    BY <2>3, <2>5 DEF WalkOK
  <2> QED
    BY <1>1, <2>3, <2>4, <2>6, <2>7, StillIsOK
<1>9. CASE ~Truth!Closes(old)
  <2> DEFINE p == [c EXCEPT !.pc = "insert"]
  <2>3. p \in Assertion /\ p.pc = "insert" /\ p.root = 0 /\ p.op = "record" /\ p.draft = d
    <3> HIDE DEF c
    <3> QED
      BY <1>7 DEF Assertion
  <2>4. Truth!Goto(s, p)
    BY <1>5, <1>9
  <2> HIDE DEF p
  <2>5. asserting'[s] = p
    BY <2>3, <2>4, GotoIs DEF TruthInv
  <2>6. CallOK(s)'
    BY <1>1, <1>3, <2>3, <2>5 DEF CallOK
  <2>7. WalkOK(s)'
    BY <2>3, <2>5 DEF WalkOK
  <2> QED
    BY <1>1, <2>3, <2>4, <2>6, <2>7, StillIsOK
<1> QED
  BY <1>8, <1>9

LEMMA CloseSupersededOK ==
  ASSUME RecordsAssumption, TruthInv, NEW s \in Sessions, Truth!CloseSuperseded(s)
  PROVE  TruthInv' /\ Moved
<1> DEFINE c == asserting[s]
<1>1. c \in Assertion /\ c.pc = "close" /\ c.op = "record"
  BY DEF Truth!CloseSuperseded, TruthInv, TruthType
<1>2. /\ c.root \in 1..Len(rows) /\ (c.rev = rows[c.root].rev => rows[c.root].kt = Truth!Open)
      /\ c.draft \in Drafts /\ c.draft.support \subseteq 1..Len(rows) /\ c.draft.contradicts \subseteq 1..Len(rows)
  BY <1>1 DEF TruthInv, CallOK
<1>3. CASE Truth!Conflict(s, c.root, c.rev)
  BY <1>3, CallEnds, EndMoves DEF Truth!Conflict
<1>4. CASE /\ Truth!Matches(c.root, c.rev)
           /\ Truth!Put(c.root, Truth!Superseded(rows[c.root], c.now))
           /\ outstanding' = outstanding \cup {c.root}
           /\ Truth!Goto(s, [c EXCEPT !.pc = "insert"])
  <2>1. rows[c.root].kt = Truth!Open /\ c.rev = rows[c.root].rev
    BY <1>2, <1>4 DEF Truth!Matches
  <2>2. PICK p \in Assertion : p = [c EXCEPT !.pc = "insert"]
    BY <1>1 DEF Assertion
  <2>3. p.pc = "insert" /\ p.op = "record" /\ p.root = c.root /\ p.draft = c.draft
    BY <1>1, <2>2 DEF Assertion
  <2>4. Truth!Goto(s, p)
    BY <1>4, <2>2
  <2>5. asserting'[s] = p /\ \A t \in Sessions, n \in 1..Len(rows) : Pending(t, n)' => Pending(t, n)
    BY <2>3, <2>4, GotoIs DEF TruthInv
  <2>6. PICK r \in Row : r = rows[c.root]
    BY <1>2, SeqIs DEF TruthInv, TruthType
  <2>7. c.now \in Truth!Moments /\ Truth!Open \notin Truth!Moments
    BY <1>1 DEF Assertion, RecordsAssumption, Truth!TruthAssumption, Truth!Open, Truth!Moments
  <2>8. PICK q \in Row : q = Truth!Superseded(r, c.now)
    BY <2>6, <2>7 DEF Row, Truth!Superseded
  <2>9. /\ q.kf = r.kf /\ q.valid = r.valid /\ q.support = r.support /\ q.contradicts = r.contradicts
        /\ q.evidence = r.evidence /\ q.rev = r.rev /\ q.state = r.state
        /\ q.kt # Truth!Open /\ q.life = "SUPERSEDED"
    BY <2>6, <2>7, <2>8 DEF Row, Truth!Superseded
  <2>10. r.life # "RETRACTED"
    BY <1>2, <2>1, <2>6 DEF TruthInv, RowsOK
  <2>11. Truth!Put(c.root, q)
    BY <1>4, <2>6, <2>8
  <2>12. /\ Moved /\ Len(rows') = Len(rows) /\ rows'[c.root].kt = q.kt /\ rows'[c.root].life = q.life
         /\ \A n \in 1..Len(rows) : n # c.root => rows'[n] = rows[n]
    BY <1>2, <2>1, <2>5, <2>6, <2>9, <2>10, <2>11, PutMoves DEF TruthInv
  <2>13. CallOK(s)'
    BY <1>2, <2>3, <2>5, <2>9, <2>12 DEF CallOK
  <2>14. WalkOK(s)'
    BY <2>3, <2>5 DEF WalkOK
  <2>15. RetractedIsQuiet'
    <3>1. \A n \in 1..Len(rows) : rows'[n].life = "RETRACTED" /\ n \notin outstanding'
             => rows[n].life = "RETRACTED" /\ (n \notin outstanding \/ QuietFrom(0, n))
      BY <1>4, <2>9, <2>12
    <3> QED
      BY <2>12, <3>1, RetractedStays DEF TruthInv
  <2> QED
    BY <2>4, <2>12, <2>13, <2>14, <2>15, StepIsOK
<1> QED
  BY <1>3, <1>4 DEF Truth!CloseSuperseded

LEMMA InsertAssertionOK ==
  ASSUME RecordsAssumption, TruthInv, NEW s \in Sessions, Truth!InsertAssertion(s)
  PROVE  TruthInv' /\ Moved
<1> DEFINE c == asserting[s]
           d == c.draft
           r == [kf |-> c.now, kt |-> Truth!Open, valid |-> d.valid, support |-> d.support,
                 contradicts |-> d.contradicts, evidence |-> d.evidence,
                 life |-> "ACTIVE", state |-> "REVALIDATION_REQUIRED", rev |-> 0]
<1>1. c \in Assertion /\ c.pc = "insert" /\ c.op = "record"
  BY DEF Truth!InsertAssertion, TruthInv, TruthType, CallOK
<1>2. /\ d \in Drafts /\ d.support \subseteq 1..Len(rows) /\ d.contradicts \subseteq 1..Len(rows)
      /\ c.root # 0 => c.root \in 1..Len(rows) /\ rows[c.root].kt # Truth!Open
  BY <1>1 DEF TruthInv, CallOK
<1>3. Len(rows) \in Nat /\ DOMAIN rows = 1..Len(rows) /\ \A n \in 1..Len(rows) : rows[n] \in Row
  BY SeqIs DEF TruthInv, TruthType
<1>4. r \in Row
  <2>1. c.now \in Truth!Moments
    BY <1>1 DEF Assertion
  <2> HIDE DEF c
  <2> QED
    BY <1>2, <2>1 DEF Row, Drafts, Truth!SupportStates
<1>5. /\ r.support = d.support /\ r.contradicts = d.contradicts /\ r.life = "ACTIVE"
      /\ r.state = "REVALIDATION_REQUIRED"
  OBVIOUS
<1>6. rows' = Append(rows, r) /\ Truth!Goto(s, [c EXCEPT !.pc = "evaluate", !.id = Len(rows) + 1])
  BY DEF Truth!InsertAssertion
<1>7. UNCHANGED outstanding
  BY DEF Truth!InsertAssertion
<1> HIDE DEF r
<1>8. /\ rows' \in Seq(Row) /\ Len(rows') = Len(rows) + 1 /\ rows'[Len(rows) + 1] = r
      /\ \A n \in 1..Len(rows) : rows'[n] = rows[n]
  BY <1>3, <1>4, <1>6 DEF TruthInv, TruthType
<1>9. PICK p \in Assertion : p = [c EXCEPT !.pc = "evaluate", !.id = Len(rows) + 1]
  <2>1. Len(rows) + 1 \in Nat
    BY <1>3
  <2> HIDE DEF c
  <2>2. \A i \in Nat : [c EXCEPT !.pc = "evaluate", !.id = i] \in Assertion
    BY <1>1 DEF Assertion
  <2> QED
    BY <2>1, <2>2
<1>10. p.pc = "evaluate" /\ p.op = "record" /\ p.root = c.root /\ p.id = Len(rows) + 1
  BY <1>1, <1>9 DEF Assertion
<1>11. Truth!Goto(s, p)
  BY <1>6, <1>9
<1>12. /\ asserting'[s] = p /\ \A t \in Sessions \ {s} : asserting'[t] = asserting[t]
       /\ \A t \in Sessions, n \in 1..Len(rows) : Pending(t, n)' => Pending(t, n)
  BY <1>10, <1>11, GotoIs DEF TruthInv
<1>13. Moved
  <2>1. RowsOK'
    <3>1. ASSUME NEW n \in 1..Len(rows')
          PROVE  /\ rows'[n].support \subseteq 1..n-1 /\ rows'[n].contradicts \subseteq 1..n-1
                 /\ rows'[n].life = "RETRACTED" => rows'[n].kt # Truth!Open
      <4>1. CASE n = Len(rows) + 1
        BY <1>2, <1>3, <1>5, <1>8, <4>1
      <4>2. CASE n # Len(rows) + 1
        <5>1. n \in 1..Len(rows)
          BY <1>3, <1>8, <4>2
        <5> QED
          BY <1>8, <5>1 DEF TruthInv, RowsOK, Ordered
      <4> QED
        BY <4>1, <4>2
    <3> QED
      BY <3>1 DEF RowsOK, Ordered
  <2>2. ASSUME NEW n \in 1..Len(rows) PROVE RowMoved(rows[n], rows'[n])
    <3>1. rows[n].rev \in Nat
      BY <1>3 DEF Row
    <3> QED
      BY <1>8, <3>1 DEF RowMoved
  <2>3. ASSUME NEW n \in 1..Len(rows'), n > Len(rows)
        PROVE  rows'[n].state # "SUPPORTED" /\ rows'[n].life # "RETRACTED" /\ \A t \in Sessions : ~Pending(t, n)'
    <3>1. n = Len(rows) + 1
      BY <1>3, <1>8, <2>3
    <3>2. ASSUME NEW t \in Sessions, asserting'[t].pc = "store", asserting'[t].id = n PROVE FALSE
      <4>1. t # s
        BY <1>10, <1>12, <3>2
      <4>2. asserting[t].pc = "store" /\ asserting[t].id = n
        BY <1>12, <3>2, <4>1
      <4>3. n \in 1..Len(rows)
        BY <4>2 DEF TruthInv, CallOK
      <4> QED
        BY <1>3, <3>1, <4>3
    <3> QED
      BY <1>5, <1>8, <3>1, <3>2 DEF Pending
  <2>4. Len(rows) <= Len(rows')
    BY <1>3, <1>8
  <2>5. \A n \in 1..Len(rows) : rows'[n].state = "SUPPORTED" => rows[n].state = "SUPPORTED"
    BY <1>8
  <2> QED
    BY <1>8, <1>12, <2>1, <2>2, <2>3, <2>4, <2>5 DEF Moved
<1>14. CallOK(s)'
  <2>1. p.id \in 1..Len(rows')
    BY <1>3, <1>8, <1>10
  <2>2. p.root # 0 => p.root \in 1..Len(rows') /\ rows'[p.root].kt # Truth!Open
    BY <1>2, <1>3, <1>8, <1>10
  <2> QED
    BY <1>10, <1>12, <2>1, <2>2 DEF CallOK
<1>15. WalkOK(s)'
  BY <1>10, <1>12 DEF WalkOK
<1>16. RetractedIsQuiet'
  <2>1. \A n \in 1..Len(rows) : rows'[n].life = "RETRACTED" /\ n \notin outstanding'
             => rows[n].life = "RETRACTED" /\ (n \notin outstanding \/ QuietFrom(0, n))
    BY <1>7, <1>8
  <2> QED
    BY <1>13, <2>1, RetractedStays DEF TruthInv
<1> QED
  BY <1>11, <1>13, <1>14, <1>15, <1>16, StepIsOK

LEMMA VerdictIsState ==
  ASSUME NEW r, NEW v, NEW k, NEW f
  PROVE  Truth!Verdict(r, v, k, f) \in Truth!SupportStates
BY DEF Truth!Verdict, Truth!SupportStates

LEMMA EvaluateNewOK ==
  ASSUME RecordsAssumption, TruthInv, NEW s \in Sessions, Truth!EvaluateNew(s)
  PROVE  TruthInv' /\ Moved
<1> DEFINE c == asserting[s]
           v == IF rows[c.id].valid = Truth!Moments THEN c.now ELSE Truth!Min(rows[c.id].valid)
           e == Truth!Evaluate(rows, v, c.now)
<1>1. c \in Assertion /\ c.pc = "evaluate"
  BY DEF Truth!EvaluateNew, TruthInv, TruthType
<1>2. c.id \in 1..Len(rows) /\ c.op = "record" /\ (c.root # 0 => c.root \in 1..Len(rows) /\ rows[c.root].kt # Truth!Open)
  BY <1>1 DEF TruthInv, CallOK
<1>3. Len(rows) \in Nat /\ DOMAIN rows = 1..Len(rows)
  BY SeqIs DEF TruthInv, TruthType
<1>4. e[c.id] \in Truth!SupportStates
  <2>1. e[c.id] = Judged(rows, v, c.now, e, c.id)
    <3>1. Ordered(rows)
      BY DEF TruthInv, RowsOK
    <3> QED
      BY <1>2, <1>3, <3>1, EvaluateIs
  <2> QED
    BY <2>1, VerdictIsState DEF Judged
<1>5. Truth!Goto(s, [c EXCEPT !.pc = "store", !.result = e[c.id]])
  BY DEF Truth!EvaluateNew
<1>6. UNCHANGED <<rows, outstanding>>
  BY DEF Truth!EvaluateNew
<1> HIDE DEF e
<1>7. PICK p \in Assertion : p = [c EXCEPT !.pc = "store", !.result = e[c.id]]
  BY <1>1, <1>4 DEF Assertion
<1>8. p.pc = "store" /\ p.op = "record" /\ p.root = c.root /\ p.id = c.id /\ p.result = e[c.id]
  BY <1>1, <1>2, <1>7 DEF Assertion
<1>9. Truth!Goto(s, p)
  BY <1>5, <1>7
<1>10. asserting'[s] = p /\ \A t \in Sessions \ {s} : asserting'[t] = asserting[t]
  BY <1>9, GotoIs DEF TruthInv
<1>11. Moved
  <2>1. ASSUME NEW t \in Sessions, NEW n \in 1..Len(rows), Pending(t, n)'
        PROVE  Pending(t, n) \/ \E u, k : Truth!Evaluate(rows, u, k)[n] = "SUPPORTED"
    <3>1. CASE t = s
      <4>1. Truth!Evaluate(rows, v, c.now)[n] = "SUPPORTED"
        BY <1>8, <1>10, <2>1, <3>1 DEF Pending, e
      <4> QED
        BY <4>1, Zenon
    <3>2. CASE t # s
      BY <1>10, <2>1, <3>2 DEF Pending
    <3> QED
      BY <3>1, <3>2
  <2> QED
    BY <1>6, <2>1, StillMoves DEF TruthInv
<1>12. CallOK(s)'
  BY <1>2, <1>6, <1>8, <1>10 DEF CallOK
<1>13. WalkOK(s)'
  BY <1>8, <1>10 DEF WalkOK
<1>14. RetractedIsQuiet'
  <2>1. \A n \in 1..Len(rows) : rows'[n].life = "RETRACTED" /\ n \notin outstanding'
             => rows[n].life = "RETRACTED" /\ (n \notin outstanding \/ QuietFrom(0, n))
    BY <1>6
  <2> QED
    BY <1>11, <2>1, RetractedStays DEF TruthInv
<1> QED
  BY <1>9, <1>11, <1>12, <1>13, <1>14, StepIsOK

LEMMA StoreEvaluationOK ==
  ASSUME RecordsAssumption, TruthInv, NEW s \in Sessions, Truth!StoreEvaluation(s)
  PROVE  TruthInv' /\ Moved
<1> DEFINE c == asserting[s]
<1>1. c \in Assertion /\ c.pc = "store"
  BY DEF Truth!StoreEvaluation, TruthInv, TruthType
<1>2. c.id \in 1..Len(rows) /\ (c.root # 0 => c.root \in 1..Len(rows) /\ rows[c.root].kt # Truth!Open)
  BY <1>1 DEF TruthInv, CallOK
<1>3. CASE Truth!Conflict(s, c.id, Truth!StoreRevision(c))
  BY <1>3, CallEnds, EndMoves DEF Truth!Conflict
<1>4. CASE /\ Truth!Matches(c.id, Truth!StoreRevision(c))
           /\ Truth!Put(c.id, [rows[c.id] EXCEPT !.state = c.result])
           /\ Truth!Goto(s, Truth!Propagate(c))
           /\ UNCHANGED <<begun, outstanding>>
  <2>1. rows[c.id].rev = 0
    BY <1>4 DEF Truth!Matches, Truth!StoreRevision
  <2>2. PICK r \in Row : r = rows[c.id]
    BY <1>2, SeqIs DEF TruthInv, TruthType
  <2>3. c.result \in Truth!SupportStates
    BY <1>1 DEF Assertion
  <2>4. PICK q \in Row : q = [r EXCEPT !.state = c.result]
    BY <2>3 DEF Row
  <2>5. /\ q.kf = r.kf /\ q.valid = r.valid /\ q.support = r.support /\ q.contradicts = r.contradicts
        /\ q.evidence = r.evidence /\ q.rev = r.rev /\ q.kt = r.kt /\ q.life = r.life /\ q.state = c.result
    BY <2>2, <2>4 DEF Row
  <2>6. Truth!Put(c.id, q)
    BY <1>4, <2>2, <2>4
  <2>7. rows' \in Seq(Row)
    <3>1. Truth!Put(c.id, q) => rows' = [rows EXCEPT ![c.id] = [q EXCEPT !.rev = q.rev + 1]]
      BY DEF Truth!Put
    <3>2. [q EXCEPT !.rev = q.rev + 1] \in Row
      <4>1. q.rev + 1 \in Nat
        BY DEF Row
      <4> QED
        BY <4>1 DEF Row
    <3> QED
      BY <1>2, <2>6, <3>1, <3>2 DEF TruthInv, TruthType
  <2>8. \A n \in 1..Len(rows) : rows'[n].kt = rows[n].kt
    <3>1. [q EXCEPT !.rev = q.rev + 1].kt = q.kt
      BY DEF Row
    <3> QED
      BY <1>2, <2>2, <2>5, <2>6, <3>1 DEF Truth!Put, TruthInv, TruthType
  <2>9. Len(rows') = Len(rows)
    BY <1>2, <2>6 DEF Truth!Put, TruthInv, TruthType
  <2>10. asserting'[s] = Truth!Propagate(c)
    BY <1>4 DEF Truth!Goto, TruthInv, TruthType
  <2>11. Truth!Propagate(c) \in Assertion /\ Truth!Propagate(c).pc # "store" /\ CallOK(s)' /\ WalkOK(s)'
    <3>1. c.root = 0 \/ (c.root \in 1..Len(rows') /\ rows'[c.root].kt # Truth!Open)
      BY <1>2, <2>8, <2>9
    <3> QED
      BY <1>1, <2>7, <2>10, <3>1, WalkBegins
  <2>12. \A t \in Sessions, n \in 1..Len(rows) : Pending(t, n)' => Pending(t, n)
    BY <1>4, <2>11, GotoIs DEF TruthInv
  <2>13. q.state = "SUPPORTED" => rows[c.id].state = "SUPPORTED" \/ (rows[c.id].rev = 0 /\ \E t \in Sessions : Pending(t, c.id))
    BY <1>1, <2>1, <2>5 DEF Pending
  <2>14. r.life = "RETRACTED" => r.kt # Truth!Open
    BY <1>2, <2>2 DEF TruthInv, RowsOK
  <2>15. Moved /\ rows'[c.id].life = q.life /\ \A n \in 1..Len(rows) : n # c.id => rows'[n] = rows[n]
    BY <1>2, <2>2, <2>5, <2>6, <2>12, <2>13, <2>14, PutMoves DEF TruthInv
  <2>16. RetractedIsQuiet'
    <3>1. \A n \in 1..Len(rows) : rows'[n].life = "RETRACTED" /\ n \notin outstanding'
             => rows[n].life = "RETRACTED" /\ (n \notin outstanding \/ QuietFrom(0, n))
      BY <1>4, <2>2, <2>5, <2>15
    <3> QED
      BY <2>15, <3>1, RetractedStays DEF TruthInv
  <2> QED
    BY <1>4, <2>11, <2>15, <2>16, StepIsOK
<1> QED
  BY <1>3, <1>4 DEF Truth!StoreEvaluation

LEMMA BeginInvalidateOK ==
  ASSUME RecordsAssumption, TruthInv, NEW s \in Sessions, Truth!BeginInvalidate(s)
  PROVE  TruthInv'
<1> PICK id \in DOMAIN rows, now \in Truth!Moments :
      Truth!Goto(s, IF rows[id].kt = Truth!Open
                    THEN [[Truth!Idle EXCEPT !.op = "invalidate", !.root = id, !.rev = rows[id].rev, !.now = now] EXCEPT !.pc = "close"]
                    ELSE Truth!Propagate([Truth!Idle EXCEPT !.op = "invalidate", !.root = id, !.rev = rows[id].rev, !.now = now]))
  BY Zenon DEF Truth!BeginInvalidate
<1>1. UNCHANGED <<rows, outstanding>>
  BY DEF Truth!BeginInvalidate, Truth!Begin
<1>2. id \in 1..Len(rows) /\ id \in Nat /\ rows[id].rev \in Nat /\ rows \in Seq(Row)
  <2>1. id \in 1..Len(rows) /\ rows[id] \in Row
    BY SeqIs DEF TruthInv, TruthType
  <2> QED
    BY <2>1 DEF Row, TruthInv, TruthType
<1>3. PICK i \in Assertion : i = Truth!Idle
  BY IdleIs
<1>4. i.pc = "idle"
  BY <1>3, IdleIs
<1>5. PICK c \in Assertion : c = [i EXCEPT !.op = "invalidate", !.root = id, !.rev = rows[id].rev, !.now = now]
  BY <1>2 DEF Assertion
<1>6. c.op = "invalidate" /\ c.root = id /\ c.rev = rows[id].rev
  BY <1>2, <1>5 DEF Assertion
<1>7. CASE rows[id].kt = Truth!Open
  <2>1. PICK p \in Assertion : p = [c EXCEPT !.pc = "close"]
    BY DEF Assertion
  <2>2. p.pc = "close" /\ p.op = "invalidate" /\ p.root = id /\ p.rev = rows[id].rev
    BY <1>6, <2>1 DEF Assertion
  <2>3. Truth!Goto(s, p)
    BY <1>3, <1>5, <1>7, <2>1
  <2>4. asserting'[s] = p
    BY <2>3, GotoIs DEF TruthInv
  <2>5. CallOK(s)'
    BY <1>1, <1>2, <1>7, <2>2, <2>4 DEF CallOK
  <2>6. WalkOK(s)'
    BY <2>2, <2>4 DEF WalkOK
  <2> QED
    BY <1>1, <2>2, <2>3, <2>5, <2>6, StillIsOK
<1>8. CASE rows[id].kt # Truth!Open
  <2>1. Truth!Goto(s, Truth!Propagate(c))
    BY <1>3, <1>5, <1>8
  <2>2. asserting'[s] = Truth!Propagate(c)
    BY <2>1 DEF Truth!Goto, TruthInv, TruthType
  <2>3. c.root \in 1..Len(rows') /\ rows'[c.root].kt # Truth!Open /\ rows' \in Seq(Row)
    BY <1>1, <1>2, <1>6, <1>8
  <2>4. Truth!Propagate(c) \in Assertion /\ Truth!Propagate(c).pc # "store" /\ CallOK(s)' /\ WalkOK(s)'
    BY <2>2, <2>3, WalkBegins
  <2> QED
    BY <1>1, <2>1, <2>4, StillIsOK
<1> QED
  BY <1>7, <1>8

LEMMA CloseRetractedOK ==
  ASSUME RecordsAssumption, TruthInv, NEW s \in Sessions, Truth!CloseRetracted(s)
  PROVE  TruthInv' /\ Moved
<1> DEFINE c == asserting[s]
<1>1. c \in Assertion /\ c.pc = "close"
  BY DEF Truth!CloseRetracted, TruthInv, TruthType
<1>2. c.root \in 1..Len(rows) /\ (c.rev = rows[c.root].rev => rows[c.root].kt = Truth!Open)
  BY <1>1 DEF TruthInv, CallOK
<1>3. CASE Truth!Conflict(s, c.root, c.rev)
  BY <1>3, CallEnds, EndMoves DEF Truth!Conflict
<1>4. CASE /\ Truth!Matches(c.root, c.rev)
           /\ Truth!Put(c.root, Truth!Retracted(rows[c.root], c.now))
           /\ outstanding' = outstanding \cup {c.root}
           /\ Truth!Goto(s, Truth!Propagate(c))
  <2>1. rows[c.root].kt = Truth!Open
    BY <1>2, <1>4 DEF Truth!Matches
  <2>2. PICK r \in Row : r = rows[c.root]
    BY <1>2, SeqIs DEF TruthInv, TruthType
  <2>3. c.now \in Truth!Moments /\ Truth!Open \notin Truth!Moments /\ "UNSUPPORTED" \in Truth!SupportStates
    BY <1>1 DEF Assertion, RecordsAssumption, Truth!TruthAssumption, Truth!Open, Truth!Moments, Truth!SupportStates
  <2>4. PICK q \in Row : q = Truth!Retracted(r, c.now)
    BY <2>3 DEF Row, Truth!Retracted
  <2>5. /\ q.kf = r.kf /\ q.valid = r.valid /\ q.support = r.support /\ q.contradicts = r.contradicts
        /\ q.evidence = r.evidence /\ q.rev = r.rev /\ q.state = "UNSUPPORTED"
        /\ q.kt # Truth!Open /\ q.life = "RETRACTED"
    BY <2>3, <2>4 DEF Row, Truth!Retracted
  <2>6. Truth!Put(c.root, q)
    BY <1>4, <2>2, <2>4
  <2> DEFINE w == [q EXCEPT !.rev = q.rev + 1]
  <2>7. w \in Row /\ w.kt = q.kt
    <3>1. q.rev + 1 \in Nat
      BY DEF Row
    <3> QED
      BY <3>1 DEF Row
  <2>8. rows' = [rows EXCEPT ![c.root] = w]
    BY <2>6 DEF Truth!Put
  <2> HIDE DEF w
  <2>9. rows' \in Seq(Row) /\ Len(rows') = Len(rows) /\ rows'[c.root] = w
    BY <1>2, <2>7, <2>8 DEF TruthInv, TruthType
  <2>10. asserting'[s] = Truth!Propagate(c)
    BY <1>4 DEF Truth!Goto, TruthInv, TruthType
  <2>11. Truth!Propagate(c) \in Assertion /\ Truth!Propagate(c).pc # "store" /\ CallOK(s)' /\ WalkOK(s)'
    <3>1. c.root \in 1..Len(rows') /\ rows'[c.root].kt # Truth!Open
      BY <1>2, <2>5, <2>7, <2>9
    <3> QED
      BY <1>1, <2>9, <2>10, <3>1, WalkBegins
  <2>12. \A t \in Sessions, n \in 1..Len(rows) : Pending(t, n)' => Pending(t, n)
    BY <1>4, <2>11, GotoIs DEF TruthInv
  <2>13. Moved /\ \A n \in 1..Len(rows) : n # c.root => rows'[n] = rows[n]
    BY <1>2, <2>1, <2>2, <2>5, <2>6, <2>12, PutMoves DEF TruthInv
  <2>14. RetractedIsQuiet'
    <3>1. \A n \in 1..Len(rows) : rows'[n].life = "RETRACTED" /\ n \notin outstanding'
             => rows[n].life = "RETRACTED" /\ (n \notin outstanding \/ QuietFrom(0, n))
      BY <1>4, <2>13
    <3> QED
      BY <2>13, <3>1, RetractedStays DEF TruthInv
  <2> QED
    BY <1>4, <2>11, <2>13, <2>14, StepIsOK
<1> QED
  BY <1>3, <1>4 DEF Truth!CloseRetracted

\* A walk goes on: it is in order again if its next state is.
LEMMA WalkGoesOn ==
  ASSUME NEW s \in Sessions, NEW c \in Assertion, asserting'[s] = c, c.pc \in {"find", "mark"},
         c.root \in 1..Len(rows'), rows'[c.root].kt # Truth!Open,
         c.root \in c.seen, DOMAIN c.todo \subseteq 1..Len(rows'), c.pc = "find" => DOMAIN c.todo = {},
         \A m \in c.seen : m # c.root => m \in 1..Len(rows') /\ rows'[m].state # "SUPPORTED" /\ rows'[m].rev # 0,
         rows'[c.root].life = "RETRACTED" => \E l \in 0..Len(rows') : QuietFrom(l, c.root)' /\ CaughtUpTo(l, c)'
  PROVE  CallOK(s)' /\ WalkOK(s)'
<1>1. CallOK(s)'
  BY DEF CallOK
<1>2. WalkOK(s)'
  BY DEF WalkOK
<1> QED
  BY <1>1, <1>2

LEMMA FindDependentsOK ==
  ASSUME RecordsAssumption, TruthInv, NEW s \in Sessions, Truth!FindDependents(s)
  PROVE  TruthInv'
<1> DEFINE c == asserting[s]
           next == Truth!Dependents(Head(c.queue), c.seen)
           todo == [n \in next |-> rows[n].rev]
<1>1. c \in Assertion /\ c.pc = "find" /\ c.queue # <<>> /\ c.queue \in Seq(Nat) /\ c.seen \in SUBSET Nat
  BY DEF Truth!FindDependents, TruthInv, TruthType, Assertion
<1>2. UNCHANGED <<rows, outstanding>> /\ Truth!Goto(s, [c EXCEPT !.pc = "mark", !.todo = todo, !.queue = Tail(c.queue)])
  BY DEF Truth!FindDependents
<1>3. Len(rows) \in Nat /\ DOMAIN rows = 1..Len(rows) /\ \A n \in 1..Len(rows) : rows[n] \in Row
  BY SeqIs DEF TruthInv, TruthType
<1>4. next \subseteq 1..Len(rows)
  BY <1>3 DEF Truth!Dependents
<1>5. todo \in Found
  <2>1. \A n \in next : rows[n].rev \in Nat
    BY <1>3, <1>4 DEF Row
  <2>2. todo \in [next -> Nat] /\ next \in SUBSET Nat
    BY <1>4, <2>1
  <2> QED
    BY <2>2, Zenon DEF Found
<1>6. DOMAIN todo = next
  OBVIOUS
<1>7. Tail(c.queue) \in Seq(Nat)
  BY <1>1
<1> HIDE DEF todo
<1>8. PICK p \in Assertion : p = [c EXCEPT !.pc = "mark", !.todo = todo, !.queue = Tail(c.queue)]
  <2> HIDE DEF c
  <2>1. ASSUME NEW q \in Seq(Nat), NEW f \in Found
        PROVE  [c EXCEPT !.pc = "mark", !.todo = f, !.queue = q] \in Assertion
    BY <1>1 DEF Assertion
  <2> QED
    BY <1>5, <1>7, <2>1
<1>9. p.pc = "mark" /\ p.todo = todo /\ p.queue = Tail(c.queue) /\ p.root = c.root /\ p.seen = c.seen
  BY <1>1, <1>8 DEF Assertion
<1>10. Truth!Goto(s, p)
  BY <1>2, <1>8
<1>11. asserting'[s] = p
  BY <1>10, GotoIs DEF TruthInv
<1>12. c.root \in 1..Len(rows) /\ rows[c.root].kt # Truth!Open
  BY <1>1 DEF TruthInv, CallOK
<1>13. /\ c.root \in c.seen /\ DOMAIN c.todo = {}
       /\ \A m \in c.seen : m # c.root => m \in 1..Len(rows) /\ rows[m].state # "SUPPORTED" /\ rows[m].rev # 0
       /\ rows[c.root].life = "RETRACTED" => \E l \in 0..Len(rows) : QuietFrom(l, c.root) /\ CaughtUpTo(l, c)
  BY <1>1 DEF TruthInv, WalkOK
<1>14. Moved
  <2>1. \A t \in Sessions, n \in 1..Len(rows) : Pending(t, n)' => Pending(t, n)
    BY <1>9, <1>10, GotoIs DEF TruthInv
  <2> QED
    BY <1>2, <2>1, StillMoves DEF TruthInv
<1>15. ASSUME rows'[p.root].life = "RETRACTED"
       PROVE  \E l \in 0..Len(rows') : QuietFrom(l, p.root)' /\ CaughtUpTo(l, p)'
  <2>1. PICK l \in 0..Len(rows) : QuietFrom(l, c.root) /\ CaughtUpTo(l, c)
    BY <1>2, <1>9, <1>13, <1>15
  <2>2. QuietFrom(l, p.root)'
    <3>1. l \in Nat /\ rows[c.root].life = "RETRACTED"
      BY <1>2, <1>3, <1>9, <1>15
    <3>2. PICK r \in 1..Len(rows) : r = c.root
      BY <1>12
    <3>3. QuietFrom(l, r)'
      BY <1>14, <2>1, <3>1, <3>2, QuietStays DEF TruthInv
    <3> QED
      BY <1>9, <3>2, <3>3
  <2>3. ASSUME NEW m \in 1..Len(rows), m <= l, rows[m].kt = Truth!Open, NEW d \in rows[m].support,
               d \in p.seen, \A i \in 1..Len(p.queue) : p.queue[i] # d
        PROVE  m \in p.seen \/ m \in DOMAIN p.todo
    <3>1. CASE d = Head(c.queue)
      <4>1. m \in c.seen \/ m \in next
        BY <1>3, <2>3, <3>1 DEF Truth!Dependents
      <4> QED
        BY <1>6, <1>9, <4>1
    <3>2. CASE d # Head(c.queue)
      <4>1. ASSUME NEW i \in 1..Len(c.queue) PROVE c.queue[i] # d
        <5>1. CASE i = 1
          BY <1>1, <3>2, <5>1
        <5>2. CASE i # 1
          <6>1. i - 1 \in 1..Len(p.queue) /\ p.queue[i - 1] = c.queue[i]
            BY <1>1, <1>9, <5>2
          <6> QED
            BY <2>3, <6>1
        <5> QED
          BY <5>1, <5>2
      <4>2. m \in c.seen \/ m \in DOMAIN c.todo
        BY <1>9, <2>1, <2>3, <4>1 DEF CaughtUpTo
      <4> QED
        BY <1>9, <1>13, <4>2
    <3> QED
      BY <3>1, <3>2
  <2>4. CaughtUpTo(l, p)'
    BY <1>2, <2>3 DEF CaughtUpTo
  <2> QED
    BY <1>2, <2>2, <2>4
<1>16. CallOK(s)' /\ WalkOK(s)'
  <2>1. DOMAIN p.todo \subseteq 1..Len(rows')
    BY <1>2, <1>4, <1>6, <1>9
  <2>2. p.root \in 1..Len(rows') /\ rows'[p.root].kt # Truth!Open /\ p.root \in p.seen /\ p.pc # "find" /\ p.pc \in {"find", "mark"}
    BY <1>2, <1>9, <1>12, <1>13
  <2>3. \A m \in p.seen : m # p.root => m \in 1..Len(rows') /\ rows'[m].state # "SUPPORTED" /\ rows'[m].rev # 0
    BY <1>2, <1>9, <1>13
  <2> QED
    BY <1>11, <1>15, <2>1, <2>2, <2>3, WalkGoesOn
<1> QED
  BY <1>2, <1>9, <1>10, <1>16, StillIsOK

LEMMA LeastOf ==
  ASSUME NEW S \in SUBSET Nat, S # {}
  PROVE  Truth!Min(S) \in S
<1>1. \E n \in S : \A m \in S : n <= m
  BY LeastNumber
<1> QED
  BY <1>1 DEF Truth!Min

LEMMA MarkDependentOK ==
  ASSUME RecordsAssumption, TruthInv, NEW s \in Sessions, Truth!MarkDependent(s)
  PROVE  TruthInv' /\ Moved
<1> DEFINE c == asserting[s]
           n == Truth!Min(DOMAIN c.todo)
           todo == [m \in DOMAIN c.todo \ {n} |-> c.todo[m]]
<1>1. c \in Assertion /\ c.pc = "mark" /\ DOMAIN c.todo # {} /\ c.queue \in Seq(Nat) /\ c.seen \in SUBSET Nat /\ c.todo \in Found
  BY DEF Truth!MarkDependent, TruthInv, TruthType, Assertion
<1>2. c.root \in 1..Len(rows) /\ rows[c.root].kt # Truth!Open
  BY <1>1 DEF TruthInv, CallOK
<1>3. /\ c.root \in c.seen /\ DOMAIN c.todo \subseteq 1..Len(rows)
      /\ \A m \in c.seen : m # c.root => m \in 1..Len(rows) /\ rows[m].state # "SUPPORTED" /\ rows[m].rev # 0
      /\ rows[c.root].life = "RETRACTED" => \E l \in 0..Len(rows) : QuietFrom(l, c.root) /\ CaughtUpTo(l, c)
  BY <1>1 DEF TruthInv, WalkOK
<1>4. n \in DOMAIN c.todo /\ n \in 1..Len(rows) /\ n \in Nat
  <2>1. DOMAIN c.todo \in SUBSET Nat
    BY <1>3
  <2> QED
    BY <1>1, <1>3, <2>1, LeastOf
<1> HIDE DEF n
<1>5. CASE Truth!Conflict(s, n, c.todo[n])
  BY <1>5, CallEnds, EndMoves DEF Truth!Conflict
<1>6. CASE /\ Truth!Matches(n, c.todo[n])
           /\ Truth!Put(n, [rows[n] EXCEPT !.state = "REVALIDATION_REQUIRED"])
           /\ Truth!Goto(s, [c EXCEPT !.todo = todo, !.seen = c.seen \cup {n}, !.queue = Append(c.queue, n)])
           /\ UNCHANGED <<begun, outstanding>>
  <2>1. todo \in Found /\ DOMAIN todo = DOMAIN c.todo \ {n}
    <3>1. PICK D \in SUBSET Nat : c.todo \in [D -> Nat]
      BY <1>1 DEF Found
    <3>2. todo \in [D \ {n} -> Nat] /\ D \ {n} \in SUBSET Nat
      BY <3>1
    <3> QED
      BY <3>2, Zenon DEF Found
  <2> HIDE DEF todo
  <2>2. Append(c.queue, n) \in Seq(Nat) /\ c.seen \cup {n} \in SUBSET Nat
    BY <1>1, <1>4
  <2>3. PICK p \in Assertion : p = [c EXCEPT !.todo = todo, !.seen = c.seen \cup {n}, !.queue = Append(c.queue, n)]
    <3> DEFINE seen == c.seen \cup {n}
               queue == Append(c.queue, n)
    <3>1. seen \in SUBSET Nat /\ queue \in Seq(Nat)
      BY <2>2
    <3> HIDE DEF c, seen, queue
    <3>2. [c EXCEPT !.todo = todo, !.seen = seen, !.queue = queue] \in Assertion
      BY <1>1, <2>1, <3>1 DEF Assertion
    <3> QED
      BY <3>2 DEF seen, queue
  <2>4. p.pc = "mark" /\ p.todo = todo /\ p.queue = Append(c.queue, n) /\ p.root = c.root /\ p.seen = c.seen \cup {n}
    BY <1>1, <2>3 DEF Assertion
  <2>5. Truth!Goto(s, p)
    BY <1>6, <2>3
  <2>6. asserting'[s] = p /\ \A t \in Sessions, m \in 1..Len(rows) : Pending(t, m)' => Pending(t, m)
    BY <2>4, <2>5, GotoIs DEF TruthInv
  <2>7. PICK r \in Row : r = rows[n]
    BY <1>4, SeqIs DEF TruthInv, TruthType
  <2>8. PICK q \in Row : q = [r EXCEPT !.state = "REVALIDATION_REQUIRED"]
    BY DEF Row, Truth!SupportStates
  <2>9. /\ q.kf = r.kf /\ q.valid = r.valid /\ q.support = r.support /\ q.contradicts = r.contradicts
        /\ q.evidence = r.evidence /\ q.rev = r.rev /\ q.kt = r.kt /\ q.life = r.life
        /\ q.state = "REVALIDATION_REQUIRED" /\ q.rev \in Nat
    BY <2>8 DEF Row
  <2>10. Truth!Put(n, q)
    BY <1>6, <2>7, <2>8
  <2>11. r.life = "RETRACTED" => r.kt # Truth!Open
    BY <1>4, <2>7 DEF TruthInv, RowsOK
  <2>12. /\ Moved /\ Len(rows') = Len(rows) /\ rows'[n].kt = q.kt /\ rows'[n].life = q.life
         /\ rows'[n].state = q.state /\ rows'[n].rev = q.rev + 1
         /\ \A m \in 1..Len(rows) : m # n => rows'[m] = rows[m]
    BY <1>4, <2>6, <2>7, <2>9, <2>10, <2>11, PutMoves DEF TruthInv
  <2>13. \A m \in 1..Len(rows) : rows'[m].kt = rows[m].kt /\ rows'[m].life = rows[m].life /\ rows'[m].support = rows[m].support
    <3>1. \A m \in 1..Len(rows) : rows'[m].support = rows[m].support
      BY <2>12 DEF Moved, RowMoved
    <3> QED
      BY <2>7, <2>9, <2>12, <3>1
  <2>14. ASSUME rows'[p.root].life = "RETRACTED"
         PROVE  \E l \in 0..Len(rows') : QuietFrom(l, p.root)' /\ CaughtUpTo(l, p)'
    <3>1. rows[c.root].life = "RETRACTED"
      BY <1>2, <2>4, <2>13, <2>14
    <3>2. PICK l \in 0..Len(rows) : QuietFrom(l, c.root) /\ CaughtUpTo(l, c)
      BY <1>3, <3>1
    <3>3. QuietFrom(l, p.root)'
      <4>1. l \in Nat
        BY <1>2
      <4>2. PICK i \in 1..Len(rows) : i = c.root
        BY <1>2
      <4>3. QuietFrom(l, i)'
        BY <2>12, <3>1, <3>2, <4>1, <4>2, QuietStays DEF TruthInv
      <4> QED
        BY <2>4, <4>2, <4>3
    <3>4. ASSUME NEW m \in 1..Len(rows'), m <= l, rows'[m].kt = Truth!Open, NEW d \in rows'[m].support,
                 d \in p.seen, \A i \in 1..Len(p.queue) : p.queue[i] # d
          PROVE  m \in p.seen \/ m \in DOMAIN p.todo
      <4>1. m \in 1..Len(rows) /\ rows[m].kt = Truth!Open /\ d \in rows[m].support
        BY <2>12, <2>13, <3>4
      <4>2. Len(p.queue) = Len(c.queue) + 1 /\ p.queue[Len(c.queue) + 1] = n /\ Len(c.queue) \in Nat
               /\ \A i \in 1..Len(c.queue) : p.queue[i] = c.queue[i]
        BY <1>1, <1>4, <2>4
      <4>3. Len(c.queue) + 1 \in 1..Len(p.queue) /\ \A i \in 1..Len(c.queue) : i \in 1..Len(p.queue)
        BY <4>2
      <4>4. d # n /\ d \in c.seen /\ \A i \in 1..Len(c.queue) : c.queue[i] # d
        BY <2>4, <3>4, <4>2, <4>3
      <4>5. m \in c.seen \/ m \in DOMAIN c.todo
        BY <3>2, <3>4, <4>1, <4>4 DEF CaughtUpTo
      <4> QED
        BY <2>1, <2>4, <4>5
    <3>5. CaughtUpTo(l, p)'
      BY <3>4 DEF CaughtUpTo
    <3> QED
      BY <2>12, <3>3, <3>5
  <2>15. CallOK(s)' /\ WalkOK(s)'
    <3>1. DOMAIN p.todo \subseteq 1..Len(rows')
      BY <1>3, <2>1, <2>4, <2>12
    <3>2. p.root \in 1..Len(rows') /\ rows'[p.root].kt # Truth!Open /\ p.root \in p.seen /\ p.pc # "find" /\ p.pc \in {"find", "mark"}
      BY <1>2, <1>3, <2>4, <2>12, <2>13
    <3>3. ASSUME NEW m \in p.seen, m # p.root
          PROVE  m \in 1..Len(rows') /\ rows'[m].state # "SUPPORTED" /\ rows'[m].rev # 0
      <4>1. CASE m = n
        BY <1>4, <2>9, <2>12, <4>1
      <4>2. CASE m # n
        BY <1>3, <2>4, <2>12, <3>3, <4>2
      <4> QED
        BY <4>1, <4>2
    <3> QED
      BY <2>6, <2>14, <3>1, <3>2, <3>3, WalkGoesOn
  <2>16. RetractedIsQuiet'
    <3>1. \A m \in 1..Len(rows) : rows'[m].life = "RETRACTED" /\ m \notin outstanding'
             => rows[m].life = "RETRACTED" /\ (m \notin outstanding \/ QuietFrom(0, m))
      BY <1>6, <2>13
    <3> QED
      BY <2>12, <3>1, RetractedStays DEF TruthInv
  <2> QED
    BY <2>5, <2>12, <2>15, <2>16, StepIsOK
<1> QED
  BY <1>5, <1>6 DEF Truth!MarkDependent, n

LEMMA NextLevelOK ==
  ASSUME RecordsAssumption, TruthInv, NEW s \in Sessions, Truth!NextLevel(s)
  PROVE  TruthInv'
<1> DEFINE c == asserting[s]
<1>1. c \in Assertion /\ c.pc = "mark" /\ DOMAIN c.todo = {}
  BY DEF Truth!NextLevel, TruthInv, TruthType
<1>2. UNCHANGED <<rows, outstanding>> /\ Truth!Goto(s, [c EXCEPT !.pc = "find", !.todo = <<>>])
  BY DEF Truth!NextLevel
<1>3. <<>> \in Found
  BY IdleIs DEF Assertion
<1>4. PICK p \in Assertion : p = [c EXCEPT !.pc = "find", !.todo = <<>>]
  BY <1>1, <1>3 DEF Assertion
<1>5. p.pc = "find" /\ p.todo = <<>> /\ p.queue = c.queue /\ p.root = c.root /\ p.seen = c.seen
  BY <1>1, <1>4 DEF Assertion
<1>6. DOMAIN p.todo = {}
  BY <1>5
<1>7. Truth!Goto(s, p)
  BY <1>2, <1>4
<1>8. asserting'[s] = p
  BY <1>7, GotoIs DEF TruthInv
<1>9. PICK r \in 1..Len(rows) : r = c.root /\ rows[r].kt # Truth!Open
  BY <1>1 DEF TruthInv, CallOK
<1>10. /\ r \in c.seen
       /\ \A m \in c.seen : m # r => m \in 1..Len(rows) /\ rows[m].state # "SUPPORTED" /\ rows[m].rev # 0
       /\ rows[r].life = "RETRACTED" => \E l \in 0..Len(rows) : QuietFrom(l, r) /\ CaughtUpTo(l, c)
  BY <1>1, <1>9 DEF TruthInv, WalkOK
<1>11. Moved
  <2>1. \A t \in Sessions, n \in 1..Len(rows) : Pending(t, n)' => Pending(t, n)
    BY <1>5, <1>7, GotoIs DEF TruthInv
  <2> QED
    BY <1>2, <2>1, StillMoves DEF TruthInv
<1>12. ASSUME rows'[p.root].life = "RETRACTED"
       PROVE  \E l \in 0..Len(rows') : QuietFrom(l, p.root)' /\ CaughtUpTo(l, p)'
  <2>1. PICK l \in 0..Len(rows) : QuietFrom(l, r) /\ CaughtUpTo(l, c)
    BY <1>2, <1>5, <1>9, <1>10, <1>12
  <2>2. QuietFrom(l, r)'
    <3>1. l \in Nat /\ rows[r].life = "RETRACTED"
      BY <1>2, <1>5, <1>9, <1>12
    <3> QED
      BY <1>11, <2>1, <3>1, QuietStays DEF TruthInv
  <2>3. CaughtUpTo(l, p)'
    BY <1>1, <1>2, <1>5, <1>6, <2>1 DEF CaughtUpTo
  <2> QED
    BY <1>2, <1>5, <1>9, <2>1, <2>2, <2>3
<1>13. CallOK(s)' /\ WalkOK(s)'
  <2>1. p.root \in 1..Len(rows') /\ rows'[p.root].kt # Truth!Open /\ p.root \in p.seen /\ p.pc \in {"find", "mark"}
    BY <1>2, <1>5, <1>9, <1>10
  <2>2. \A m \in p.seen : m # p.root => m \in 1..Len(rows') /\ rows'[m].state # "SUPPORTED" /\ rows'[m].rev # 0
    BY <1>2, <1>5, <1>9, <1>10
  <2>3. DOMAIN p.todo \subseteq 1..Len(rows')
    BY <1>6
  <2> QED
    BY <1>6, <1>8, <1>12, <2>1, <2>2, <2>3, WalkGoesOn
<1> QED
  BY <1>2, <1>5, <1>7, <1>13, StillIsOK

\* A walk that has nothing left to do has seen what the retraction concerns, of the rows
\* that it had to catch.
LEMMA WalkHasSeen ==
  ASSUME TruthType, RowsOK, NEW c, NEW r \in 1..Len(rows), r \in c.seen, NEW l \in Nat, CaughtUpTo(l, c),
         c.queue = <<>>, DOMAIN c.todo = {}
  PROVE  \A m \in 1..Len(rows) : m <= l /\ rows[m].kt = Truth!Open /\ m \in Truth!Concerned(rows, r) => m \in c.seen
<1> DEFINE Bad == {m \in 1..Len(rows) : m <= l /\ rows[m].kt = Truth!Open /\ m \in Truth!Concerned(rows, r) /\ m \notin c.seen}
<1> SUFFICES ASSUME Bad # {} PROVE FALSE
  OBVIOUS
<1>1. PICK n \in Bad : \A i \in Bad : n <= i
  <2>1. Bad \in SUBSET Nat
    OBVIOUS
  <2> QED
    BY <2>1, LeastNumber
<1>2. Len(rows) \in Nat /\ DOMAIN rows = 1..Len(rows) /\ Ordered(rows) /\ n \in 1..Len(rows)
  BY <1>1, SeqIs DEF TruthType, RowsOK
<1>3. PICK d \in rows[n].support : d = r \/ (rows[d].kt = Truth!Open /\ d \in Truth!Concerned(rows, r))
  <2>1. n \in Truth!Concerned(rows, r)
    BY <1>1
  <2> QED
    BY <1>2, <2>1, ConcernedIs, Zenon
<1>4. d \in 1..Len(rows) /\ d <= l /\ ~ n <= d
  BY <1>1, <1>2 DEF Ordered
<1>5. d \in c.seen
  BY <1>1, <1>3, <1>4, Zenon
<1>6. ~ \E i \in 1..Len(c.queue) : c.queue[i] = d
  OBVIOUS
<1>7. n \in c.seen
  BY <1>1, <1>2, <1>5, <1>6 DEF CaughtUpTo
<1> QED
  BY <1>1, <1>7

LEMMA EndPropagationOK ==
  ASSUME RecordsAssumption, TruthInv, NEW s \in Sessions, Truth!EndPropagation(s)
  PROVE  TruthInv'
<1> DEFINE c == asserting[s]
<1>1. c.pc = "find" /\ c.queue = <<>> /\ UNCHANGED rows /\ outstanding' = outstanding \ {c.root} /\ Truth!Goto(s, Truth!Idle)
  BY DEF Truth!EndPropagation
<1>2. Truth!Idle \in Assertion /\ Truth!Idle.pc = "idle"
  BY IdleIs
<1>3. asserting'[s] = Truth!Idle
  BY <1>1, <1>2, GotoIs DEF TruthInv
<1>4. CallOK(s)' /\ WalkOK(s)'
  BY <1>2, <1>3 DEF CallOK, WalkOK
<1>5. Moved
  BY <1>1, EndMoves
<1>6. PICK r \in 1..Len(rows) : r = c.root /\ rows[r].kt # Truth!Open
  BY <1>1 DEF TruthInv, CallOK
<1>7. /\ r \in c.seen /\ DOMAIN c.todo = {}
      /\ \A m \in c.seen : m # r => m \in 1..Len(rows) /\ rows[m].state # "SUPPORTED" /\ rows[m].rev # 0
      /\ rows[r].life = "RETRACTED" => \E l \in 0..Len(rows) : QuietFrom(l, r) /\ CaughtUpTo(l, c)
  BY <1>1, <1>6 DEF TruthInv, WalkOK
<1>8. ASSUME rows[r].life = "RETRACTED" PROVE QuietFrom(0, r)
  <2>1. PICK l \in 0..Len(rows) : QuietFrom(l, r) /\ CaughtUpTo(l, c)
    BY <1>7, <1>8
  <2>2. l \in Nat
    BY <2>1
  <2>3. \A m \in 1..Len(rows) : m <= l /\ rows[m].kt = Truth!Open /\ m \in Truth!Concerned(rows, r) => m \in c.seen
    BY <1>1, <1>7, <2>1, <2>2, WalkHasSeen DEF TruthInv
  <2> SUFFICES ASSUME NEW m \in 1..Len(rows), m \in Truth!Concerned(rows, r), rows[m].kt = Truth!Open PROVE Quiet(m)
    BY DEF QuietFrom
  <2>4. CASE m <= l
    <3>1. m \in c.seen /\ m # r
      BY <1>6, <2>3, <2>4
    <3> QED
      BY <1>7, <3>1 DEF Quiet
  <2>5. CASE ~ m <= l
    BY <2>1, <2>2, <2>5 DEF QuietFrom
  <2> QED
    BY <2>4, <2>5
<1>9. RetractedIsQuiet'
  <2>1. ASSUME NEW n \in 1..Len(rows), rows'[n].life = "RETRACTED", n \notin outstanding'
        PROVE  rows[n].life = "RETRACTED" /\ (n \notin outstanding \/ QuietFrom(0, n))
    <3>1. CASE n = r
      BY <1>1, <1>8, <2>1, <3>1
    <3>2. CASE n # r
      BY <1>1, <1>6, <2>1, <3>2
    <3> QED
      BY <3>1, <3>2
  <2> QED
    BY <1>5, <2>1, RetractedStays DEF TruthInv
<1> QED
  BY <1>1, <1>2, <1>4, <1>5, <1>9, StepIsOK

-----------------------------------------------------------------------------
(* TruthMaintenance: the theorems. *)

LEMMA TruthStarts ==
  ASSUME RecordsAssumption, Truth!Init
  PROVE  TruthInv
<1>1. rows \in Histories /\ asserting = [s \in Sessions |-> Truth!Idle] /\ outstanding = {}
  BY DEF Truth!Init
<1>2. rows \in Seq(Truth!Rows)
  BY <1>1 DEF RecordsAssumption, Truth!TruthAssumption
<1>3. Truth!Rows \subseteq Row
  BY DEF Truth!Rows, Row, Truth!Ids, RecordsAssumption, Truth!TruthAssumption
<1>4. rows \in Seq(Row) /\ Len(rows) \in Nat /\ DOMAIN rows = 1..Len(rows)
  BY <1>2, <1>3
<1>5. \A n \in 1..Len(rows) : /\ rows[n].support \cup rows[n].contradicts \subseteq 1..n - 1
                               /\ rows[n].life = (IF rows[n].kt = Truth!Open THEN "ACTIVE" ELSE "SUPERSEDED")
  BY <1>1, <1>4, Zenon DEF RecordsAssumption, Truth!TruthAssumption
<1>6. RowsOK
  <2>1. \A n \in 1..Len(rows) : rows[n].support \subseteq 1..n-1 /\ rows[n].contradicts \subseteq 1..n-1
    BY <1>5
  <2>2. \A n \in 1..Len(rows) : rows[n].life # "RETRACTED"
    BY <1>5
  <2> QED
    BY <2>1, <2>2 DEF RowsOK, Ordered
<1>7. TruthType
  BY <1>1, <1>4, IdleIs DEF TruthType
<1>8. ASSUME NEW s \in Sessions PROVE CallOK(s) /\ WalkOK(s)
  <2>1. asserting[s].pc = "idle"
    BY <1>1, IdleIs
  <2> QED
    BY <2>1 DEF CallOK, WalkOK
<1>9. RetractedIsQuiet
  BY <1>5 DEF RetractedIsQuiet
<1> QED
  BY <1>6, <1>7, <1>8, <1>9 DEF TruthInv

\* A step keeps the invariant, and only five actions write rows.
LEMMA TruthSteps ==
  ASSUME RecordsAssumption, TruthInv, Truth!Next
  PROVE  TruthInv' /\ (rows' # rows => Moved)
<1> PICK s \in Sessions : Truth!BeginRecord(s) \/ Truth!BeginInvalidate(s) \/ Truth!Step(s) \/ Truth!Crash(s)
  BY Zenon DEF Truth!Next
<1>1. CASE Truth!Crash(s)
  BY <1>1, CallEnds DEF Truth!Crash
<1>2. CASE Truth!BeginRecord(s) \/ Truth!BeginInvalidate(s)
  <2>1. UNCHANGED rows
    BY <1>2 DEF Truth!BeginRecord, Truth!BeginInvalidate, Truth!Begin
  <2> QED
    BY <1>2, <2>1, BeginRecordOK, BeginInvalidateOK, Zenon
<1>3. CASE Truth!CloseSuperseded(s) \/ Truth!InsertAssertion(s) \/ Truth!EvaluateNew(s) \/ Truth!StoreEvaluation(s)
             \/ Truth!CloseRetracted(s) \/ Truth!MarkDependent(s)
  BY <1>3, CloseSupersededOK, InsertAssertionOK, EvaluateNewOK, StoreEvaluationOK, CloseRetractedOK, MarkDependentOK, Zenon
<1>4. CASE Truth!FindDependents(s) \/ Truth!NextLevel(s) \/ Truth!EndPropagation(s)
  <2>1. UNCHANGED rows
    BY <1>4 DEF Truth!FindDependents, Truth!NextLevel, Truth!EndPropagation
  <2> QED
    BY <1>4, <2>1, FindDependentsOK, NextLevelOK, EndPropagationOK, Zenon
<1> QED
  BY <1>1, <1>2, <1>3, <1>4, Zenon DEF Truth!Step

LEMMA TruthStutters ==
  ASSUME TruthInv, UNCHANGED assertions
  PROVE  TruthInv'
<1>1. rows' = rows /\ asserting' = asserting /\ outstanding' = outstanding
  BY DEF assertions
<1>2. TruthType' /\ RowsOK'
  BY <1>1 DEF TruthInv, TruthType, RowsOK, Ordered
<1>3. \A m : Quiet(m)' <=> Quiet(m)
  BY <1>1 DEF Quiet, Pending
<1>4. \A l, r : QuietFrom(l, r)' <=> QuietFrom(l, r)
  BY <1>1, <1>3 DEF QuietFrom
<1>5. \A l, c : CaughtUpTo(l, c)' <=> CaughtUpTo(l, c)
  BY <1>1 DEF CaughtUpTo
<1>6. ASSUME NEW s \in Sessions PROVE CallOK(s)' /\ WalkOK(s)'
  <2>1. CallOK(s)'
    BY <1>1 DEF TruthInv, CallOK
  <2>2. WalkOK(s)'
    <3>1. WalkOK(s)
      BY DEF TruthInv
    <3> QED
      BY <1>1, <1>4, <1>5, <3>1, Zenon DEF WalkOK
  <2> QED
    BY <2>1, <2>2
<1>7. RetractedIsQuiet'
  BY <1>1, <1>4 DEF TruthInv, RetractedIsQuiet
<1> QED
  BY <1>2, <1>6, <1>7 DEF TruthInv

LEMMA TruthHolds == Spec => []TruthInv
<1> USE RecordsAssumption
<1>1. Init => TruthInv
  BY TruthStarts DEF Init
<1>2. TruthInv /\ [Next]_<<part, assertions, inventory, schema>> => TruthInv'
  <2> SUFFICES ASSUME TruthInv, [Next]_<<part, assertions, inventory, schema>> PROVE TruthInv'
    OBVIOUS
  <2>1. UNCHANGED assertions \/ Truth!Next
    BY DEF Next
  <2> QED
    BY <2>1, TruthSteps, TruthStutters
<1> QED
  BY <1>1, <1>2, PTL DEF Spec

\* What a caller reads as supported has evidence at the end of everything that it rests on,
\* and nothing of that is unknown, outdated, retracted, refuted or contradicted
\* (TruthMaintenance.evaluate), for any number of rows, whatever each refers to.
THEOREM SupportRests == Spec => []SupportRestsOnEvidence
<1>1. TruthInv => SupportRestsOnEvidence
  <2> SUFFICES ASSUME TruthInv PROVE Truth!SupportRestsOnEvidence
    BY DEF SupportRestsOnEvidence
  <2>1. Ordered(rows) /\ Len(rows) \in Nat /\ DOMAIN rows = 1..Len(rows)
    BY SeqIs DEF TruthInv, TruthType, RowsOK
  <2>2. \A m \in 1..Len(rows) : rows[m].evidence \in Truth!Evidence
    BY SeqIs DEF TruthInv, TruthType, Row
  <2>3. ASSUME NEW v, NEW k, NEW n \in 1..Len(rows)
        PROVE  n \in Truth!TruthAt(rows, v, k) <=>
                 \A m \in Truth!Basis(rows, n) :
                    /\ Truth!Known(rows[m], k) /\ v \in rows[m].valid /\ rows[m].life # "RETRACTED"
                    /\ rows[m].contradicts \cap Truth!TruthAt(rows, v, k) = {}
                    /\ IF rows[m].support = {} THEN rows[m].evidence = "good" ELSE rows[m].evidence # "bad"
    BY <2>1, <2>2, RestsOnEvidence
  <2> QED
    BY <2>1, <2>3 DEF Truth!SupportRestsOnEvidence
<1> QED
  BY <1>1, TruthHolds, PTL

\* A retraction reaches every current conclusion that rests on what was retracted, however
\* the calls interleave, or its walk is outstanding (invalidate, _propagate_revalidation).
\* The walk catches the rows that were there when it began; the rows that are inserted
\* later are evaluated after the retraction, and a result of before is not stored over a
\* mark, since the store expects the revision of the insert.
THEOREM RetractionsReach == Spec => []RetractionReaches
<1>1. TruthInv => RetractionReaches
  <2> SUFFICES ASSUME TruthInv PROVE Truth!RetractionReaches
    BY DEF RetractionReaches
  <2>1. DOMAIN rows = 1..Len(rows) /\ Len(rows) \in Nat /\ Ordered(rows)
    BY SeqIs DEF TruthInv, TruthType, RowsOK
  <2> SUFFICES ASSUME NEW n \in 1..Len(rows), rows[n].life = "RETRACTED", n \notin outstanding,
                      NEW m \in Truth!Concerned(rows, n), rows[m].kt = Truth!Open
               PROVE  rows[m].state # "SUPPORTED"
    BY <2>1 DEF Truth!RetractionReaches
  <2>2. QuietFrom(0, n)
    BY DEF TruthInv, RetractedIsQuiet
  <2>3. m \in 1..Len(rows) /\ m > 0
    <3>1. m \in DOMAIN rows
      BY Zenon DEF Truth!Concerned
    <3> QED
      BY <2>1, <3>1
  <2> QED
    BY <2>2, <2>3 DEF QuietFrom, Quiet
<1> QED
  BY <1>1, TruthHolds, PTL

\* A correction leaves the answers about earlier moments alone (record_assertion): what it
\* closes was open, and a row that is not known yet, or not known any more, is neither
\* before nor after the correction.
THEOREM HistoryIsKept == Spec => HistoryMovesForward
<1> USE RecordsAssumption
<1>1. TruthInv /\ [Next]_<<part, assertions, inventory, schema>> => [Truth!LeavesEarlierAnswers]_(Truth!vars)
  <2> SUFFICES ASSUME TruthInv, [Next]_<<part, assertions, inventory, schema>>, rows' # rows,
                      \A n \in DOMAIN rows : rows'[n].life = "RETRACTED" => rows[n].life = "RETRACTED"
               PROVE  LET closed == {n \in DOMAIN rows : rows'[n].kt # rows[n].kt}
                          before == {k \in Truth!Moments : \A n \in closed : k < rows'[n].kt}
                      IN  /\ \A n \in closed : rows[n].kt = Truth!Open
                          /\ \A k \in before, v \in Truth!Moments :
                                Truth!TruthAt(rows, v, k) \subseteq Truth!TruthAt(rows', v, k)
    BY DEF Truth!vars, Truth!LeavesEarlierAnswers
  <2>1. Truth!Next
    BY DEF Next, assertions
  <2>2. Moved
    BY <2>1, TruthSteps
  <2>3. /\ Len(rows) \in Nat /\ DOMAIN rows = 1..Len(rows) /\ Len(rows') \in Nat /\ DOMAIN rows' = 1..Len(rows')
        /\ Ordered(rows) /\ Ordered(rows') /\ Len(rows) <= Len(rows')
    BY <2>2, SeqIs DEF TruthInv, TruthType, Moved, RowsOK
  <2>4. ASSUME NEW n \in DOMAIN rows PROVE RowMoved(rows[n], rows'[n])
    BY <2>2, <2>3 DEF Moved
  <2>5. ASSUME NEW k \in Truth!Moments, \A n \in {i \in DOMAIN rows : rows'[i].kt # rows[i].kt} : k < rows'[n].kt,
               NEW v \in Truth!Moments
        PROVE  Truth!TruthAt(rows, v, k) \subseteq Truth!TruthAt(rows', v, k)
    <3>1. ASSUME NEW n \in 1..Len(rows)
          PROVE  Truth!Known(rows[n], k) <=> Truth!Known(rows'[n], k)
      <4>1. rows'[n].kf = rows[n].kf /\ (rows'[n].kt # rows[n].kt => rows[n].kt = Truth!Open /\ k < rows'[n].kt)
        BY <2>3, <2>4, <2>5 DEF RowMoved
      <4>2. k < Truth!Open
        BY DEF Truth!Moments, Truth!Open, RecordsAssumption, Truth!TruthAssumption
      <4> QED
        BY <4>1, <4>2 DEF Truth!Known
    <3>2. Alike(rows, rows', k)
      BY <2>3, <2>4, <3>1 DEF Alike, RowMoved
    <3> QED
      BY <2>3, <3>2, AlikeAnswers
  <2>6. \A n \in DOMAIN rows : rows'[n].kt # rows[n].kt => rows[n].kt = Truth!Open
    BY <2>4 DEF RowMoved
  <2> QED
    BY <2>5, <2>6
<1> QED
  BY <1>1, TruthHolds, PTL DEF Spec, HistoryMovesForward, Truth!HistoryMovesForward

-----------------------------------------------------------------------------
(* FilesystemInventory. *)

Entries == [root : Roots \cup {"none"}, hash : Nat, present : BOOLEAN, rev : Nat]
Scan == [pc : {"walk", "files", "missing"}, root : Roots, limit : Limits, previous : [Paths -> Entries],
         todo : SUBSET Paths, seen : SUBSET Paths, complete : BOOLEAN, missed : SUBSET Paths, lone : BOOLEAN]

FilesType ==
    /\ disk \in [Paths -> Nat] /\ entries \in [Paths -> Entries]
    /\ scanning \in [Scanners -> {Files!Idle} \cup Scan] /\ exact \subseteq Roots

\* What is present was written for a root that it is below.
RowsBelow == \A p \in Paths : entries[p].present => entries[p].root \in Roots /\ p \in Under[entries[p].root]

\* What a scan has not come across could not be seen at some moment of it.
ScanOK(c) ==
    /\ \A p \in Paths : c.previous[p].present => p \in Under[c.root]
    /\ c.todo \subseteq Under[c.root]
    /\ Paths \ Files!Visible \subseteq c.missed
    /\ c.pc = "walk" => c.seen = {}
    /\ c.pc = "files" /\ c.complete => Under[c.root] \subseteq c.todo \cup c.seen \cup c.missed
    /\ c.pc = "missing" => c.todo \subseteq c.missed
    /\ c.pc = "missing" /\ c.complete => Under[c.root] \subseteq c.seen \cup c.missed

\* The row that the scan knows of p is the one that is stored.
Known(c, p) == c.previous[p] = IF entries[p].root = c.root THEN entries[p] ELSE Files!NoRow
\* The row of p is as the disk is.
Fresh(p) == entries[p].present /\ entries[p].hash = disk[p] /\ disk[p] # 0

\* A scan beside which nothing happened knows what is stored, and what it has done is as
\* the disk is.
LoneOK(c) ==
    /\ c.missed \cap Files!Visible = {}
    /\ c.pc = "walk" => \A p \in Paths : Known(c, p)
    /\ c.pc \in {"files", "missing"} => c.todo \cap c.seen = {} /\ \A p \in c.seen : Fresh(p)
    /\ c.pc = "files" => c.todo \subseteq Files!Visible /\ \A p \in Paths \ c.seen : Known(c, p)
    /\ c.pc = "missing" /\ c.complete =>
          \A p \in Paths \ c.seen : entries[p].root = c.root /\ entries[p].present => p \in c.todo
    /\ c.pc = "missing" => \A p \in c.todo : entries[p] = c.previous[p]

ScansOK ==
    \A s \in Scanners : scanning[s] # Files!Idle =>
        /\ ScanOK(scanning[s])
        /\ scanning[s].lone => LoneOK(scanning[s]) /\ \A t \in Scanners : t # s => scanning[t] = Files!Idle

\* The row of p tells what is on the disk; without a row there is nothing there.
Tells(p) == IF entries[p] = Files!NoRow THEN disk[p] = 0
            ELSE (entries[p].present <=> disk[p] # 0) /\ (entries[p].present => entries[p].hash = disk[p])

ExactTells == \A r \in exact : \A p \in Under[r] \ unlisted : Tells(p)

FilesInv == FilesType /\ RowsBelow /\ ScansOK /\ ExactTells

LEMMA ScanIs ==
  ASSUME FilesType, NEW s \in Scanners, scanning[s] # Files!Idle
  PROVE  scanning[s] \in Scan
BY DEF FilesType

LEMMA NoScanIsIdle == ASSUME NEW c \in Scan PROVE c # Files!Idle
<1>1. c.pc # "idle"
  BY DEF Scan
<1>2. Files!Idle.pc = "idle"
  BY DEF Files!Idle
<1> QED
  BY <1>1, <1>2

LEMMA VisibleIs == \A p \in Paths : p \in Files!Visible <=> disk[p] # 0 /\ p \notin unlisted
BY DEF Files!Visible, Files!Absent

\* A change of the disk: every scan learns of it, and none is alone any more.
LEMMA DisturbOK ==
  ASSUME RecordsAssumption, FilesInv, NEW p \in Paths, Files!Disturb(p), UNCHANGED entries,
         disk' \in [Paths -> Nat], \A i \in Paths : i # p => disk'[i] = disk[i],
         \A i \in Paths : i # p => (i \in unlisted' <=> i \in unlisted)
  PROVE  FilesInv'
<1>1. \A s \in Scanners : scanning'[s] = IF scanning[s] = Files!Idle THEN Files!Idle
                           ELSE [scanning[s] EXCEPT !.lone = FALSE, !.missed = scanning[s].missed \cup {p}]
  BY DEF Files!Disturb
<1>2. exact' = {r \in exact : p \notin Under[r]}
  BY DEF Files!Disturb
<1>3. ASSUME NEW s \in Scanners, scanning[s] # Files!Idle
      PROVE  scanning'[s] \in Scan /\ ~scanning'[s].lone /\ ScanOK(scanning[s])'
  <2>1. PICK c \in Scan : c = scanning[s]
    BY <1>3, ScanIs DEF FilesInv
  <2>2. PICK d \in Scan : d = [c EXCEPT !.lone = FALSE, !.missed = c.missed \cup {p}]
    BY DEF Scan
  <2>3. scanning'[s] = d
    BY <1>1, <1>3, <2>1, <2>2
  <2>4. /\ d.pc = c.pc /\ d.root = c.root /\ d.previous = c.previous /\ d.todo = c.todo /\ d.seen = c.seen
        /\ d.missed = c.missed \cup {p} /\ ~d.lone
    BY <2>2 DEF Scan
  <2>5. d.complete <=> c.complete
    BY <2>2 DEF Scan
  <2>6. ScanOK(c)
    BY <1>3, <2>1 DEF FilesInv, ScansOK
  <2>7. Paths \ Files!Visible' \subseteq d.missed
    <3>1. \A i \in Paths : i # p => (i \in Files!Visible' <=> i \in Files!Visible)
      BY DEF Files!Visible
    <3> QED
      BY <2>4, <2>6, <3>1 DEF ScanOK
  <2>8. ScanOK(d)'
    BY <2>4, <2>5, <2>6, <2>7 DEF ScanOK
  <2> QED
    BY <2>3, <2>4, <2>8
<1>4. FilesType'
  <2>1. \A s \in Scanners : scanning'[s] \in {Files!Idle} \cup Scan
    BY <1>1, <1>3
  <2>2. scanning' = [s \in Scanners |-> scanning'[s]]
    BY DEF Files!Disturb
  <2> QED
    BY <1>2, <2>1, <2>2 DEF FilesInv, FilesType
<1>5. RowsBelow'
  BY DEF FilesInv, RowsBelow
<1>6. ScansOK'
  BY <1>1, <1>3 DEF ScansOK
<1>7. ExactTells'
  <2> SUFFICES ASSUME NEW r \in exact', NEW i \in Under[r], i \notin unlisted' PROVE Tells(i)'
    BY DEF ExactTells
  <2>1. r \in exact /\ i # p /\ i \in Paths
    BY <1>2 DEF FilesInv, FilesType, RecordsAssumption, Files!InventoryAssumption
  <2>2. Tells(i)
    BY <2>1 DEF FilesInv, ExactTells
  <2> QED
    BY <2>1, <2>2 DEF Tells
<1> QED
  BY <1>4, <1>5, <1>6, <1>7 DEF FilesInv

\* A step of one scan: the others do not notice it, and if it is alone it stays alone.
LEMMA ScanStepOK ==
  ASSUME FilesInv, UNCHANGED <<disk, unlisted>>, entries' \in [Paths -> Entries], RowsBelow',
         NEW s \in Scanners, scanning[s] # Files!Idle, NEW c \in {Files!Idle} \cup Scan, Files!Goto(s, c),
         c # Files!Idle => ScanOK(c),
         c # Files!Idle /\ c.lone => scanning[s].lone /\ LoneOK(c)',
         exact' \subseteq Roots, ExactTells'
  PROVE  FilesInv'
<1>1. /\ scanning' \in [Scanners -> {Files!Idle} \cup Scan] /\ scanning'[s] = c
      /\ \A t \in Scanners : t # s => scanning'[t] = scanning[t]
  BY Zenon DEF Files!Goto, FilesInv, FilesType
<1>2. FilesType'
  BY <1>1 DEF FilesInv, FilesType
<1>3. Files!Visible' = Files!Visible
  BY DEF Files!Visible
<1>4. \A d : ScanOK(d)' <=> ScanOK(d)
  BY <1>3 DEF ScanOK
<1>5. ASSUME NEW t \in Scanners, scanning'[t] # Files!Idle
      PROVE  /\ ScanOK(scanning[t])'
             /\ scanning'[t].lone => LoneOK(scanning[t])' /\ \A u \in Scanners : u # t => scanning'[u] = Files!Idle
  <2>1. CASE t = s
    <3>1. ScanOK(c)'
      BY <1>1, <1>4, <1>5, <2>1
    <3>2. c.lone => LoneOK(c)' /\ \A u \in Scanners : u # s => scanning[u] = Files!Idle
      BY <1>1, <1>5, <2>1 DEF FilesInv, ScansOK
    <3> QED
      BY <1>1, <2>1, <3>1, <3>2
  <2>2. CASE t # s
    <3>1. scanning'[t] = scanning[t]
      BY <1>1, <2>2
    <3>2. ScanOK(scanning[t]) /\ ~scanning[t].lone
      BY <1>5, <2>2, <3>1 DEF FilesInv, ScansOK
    <3> QED
      BY <1>4, <3>1, <3>2
  <2> QED
    BY <2>1, <2>2
<1>6. ScansOK'
  BY <1>5 DEF ScansOK
<1> QED
  BY <1>2, <1>6 DEF FilesInv

\* A step of one scan that writes nothing.
LEMMA QuietStepOK ==
  ASSUME FilesInv, UNCHANGED <<disk, unlisted, entries, exact>>,
         NEW s \in Scanners, scanning[s] # Files!Idle, NEW c \in {Files!Idle} \cup Scan, Files!Goto(s, c),
         c # Files!Idle => ScanOK(c),
         c # Files!Idle /\ c.lone => scanning[s].lone /\ LoneOK(c)
  PROVE  FilesInv'
<1>1. entries' \in [Paths -> Entries] /\ RowsBelow' /\ exact' \subseteq Roots /\ ExactTells'
  BY DEF FilesInv, FilesType, RowsBelow, ExactTells, Tells
<1>2. LoneOK(c)' <=> LoneOK(c)
  BY DEF LoneOK, Files!Visible, Known, Fresh
<1>3. UNCHANGED <<disk, unlisted>>
  OBVIOUS
<1>4. c # Files!Idle /\ c.lone => scanning[s].lone /\ LoneOK(c)'
  BY <1>2
<1> QED
  BY <1>1, <1>3, <1>4, ScanStepOK

LEMMA FilesStart ==
  ASSUME RecordsAssumption, Files!Init
  PROVE  FilesInv
<1>1. disk \in [Paths -> Nat]
  <2>1. disk \in Disks
    BY DEF Files!Init
  <2>2. Disks \subseteq [Paths -> {0} \cup Contents] /\ Contents \subseteq Nat \ {0}
    BY DEF RecordsAssumption, Files!InventoryAssumption
  <2>3. disk \in [Paths -> {0} \cup Contents]
    BY <2>1, <2>2
  <2>4. {0} \cup Contents \subseteq Nat
    BY <2>2
  <2>5. disk = [p \in Paths |-> disk[p]] /\ \A p \in Paths : disk[p] \in {0} \cup Contents
    BY <2>3
  <2>6. \A p \in Paths : disk[p] \in Nat
    BY <2>4, <2>5, Zenon
  <2> QED
    BY <2>5, <2>6, Zenon
<1>2. Files!NoRow \in Entries
  BY DEF Files!NoRow, Files!Absent, Entries
<1>3. /\ entries = [p \in Paths |-> Files!NoRow] /\ scanning = [s \in Scanners |-> Files!Idle] /\ exact = {}
  BY DEF Files!Init
<1>4. FilesType
  BY <1>1, <1>2, <1>3 DEF FilesType
<1>5. RowsBelow
  BY <1>3 DEF RowsBelow, Files!NoRow
<1>6. ScansOK /\ ExactTells
  BY <1>3 DEF ScansOK, ExactTells
<1> QED
  BY <1>4, <1>5, <1>6 DEF FilesInv

LEMMA ChangeOK ==
  ASSUME RecordsAssumption, FilesInv, NEW p \in Paths, Files!Change(p)
  PROVE  FilesInv'
<1>1. Files!Disturb(p) /\ UNCHANGED <<entries, unlisted>>
  BY DEF Files!Change
<1>2. PICK c \in {0} \cup Contents : disk' = [disk EXCEPT ![p] = c]
  BY DEF Files!Change, Files!Absent
<1>3. c \in Nat
  BY DEF RecordsAssumption, Files!InventoryAssumption
<1>4. disk' \in [Paths -> Nat] /\ \A i \in Paths : i # p => disk'[i] = disk[i]
  BY <1>2, <1>3 DEF FilesInv, FilesType
<1> QED
  BY <1>1, <1>4, DisturbOK

LEMMA UnlistOK ==
  ASSUME RecordsAssumption, FilesInv, NEW p \in Paths, Files!Unlist(p)
  PROVE  FilesInv'
<1>1. Files!Disturb(p) /\ UNCHANGED <<entries, disk>> /\ unlisted' = unlisted \cup {p}
  BY DEF Files!Unlist
<1>2. disk' \in [Paths -> Nat] /\ \A i \in Paths : i # p => disk'[i] = disk[i]
  BY <1>1 DEF FilesInv, FilesType
<1>3. \A i \in Paths : i # p => (i \in unlisted' <=> i \in unlisted)
  BY <1>1
<1> QED
  BY <1>1, <1>2, <1>3, DisturbOK

\* What a new scan reads of the rows.
LEMMA PreviousIs ==
  ASSUME FilesInv, NEW r \in Roots
  PROVE  /\ Files!Previous(r) \in [Paths -> Entries]
         /\ \A p \in Paths : /\ Files!Previous(r)[p] = IF entries[p].root = r THEN entries[p] ELSE Files!NoRow
                             /\ Files!Previous(r)[p].present => p \in Under[r]
<1>1. Files!NoRow \in Entries /\ ~Files!NoRow.present
  BY DEF Files!NoRow, Files!Absent, Entries
<1>2. Files!Previous(r) = [p \in Paths |-> IF entries[p].root = r THEN entries[p] ELSE Files!NoRow]
  BY DEF Files!Previous
<1>3. \A p \in Paths : Files!Previous(r)[p] = IF entries[p].root = r THEN entries[p] ELSE Files!NoRow
  BY <1>2
<1>4. \A p \in Paths : Files!Previous(r)[p] \in Entries
  BY <1>1, <1>3 DEF FilesInv, FilesType
<1> QED
  BY <1>1, <1>2, <1>3, <1>4 DEF FilesInv, RowsBelow

LEMMA BeginRootOK ==
  ASSUME RecordsAssumption, FilesInv, NEW s \in Scanners, NEW r \in Roots, NEW limit \in Limits,
         Files!BeginRoot(s, r, limit)
  PROVE  FilesInv'
<1> DEFINE gone  == {p \in Paths : p \notin Files!Visible}
           alone == \A t \in Scanners : scanning[t] = Files!Idle
           new   == [pc |-> "walk", root |-> r, limit |-> limit, previous |-> Files!Previous(r),
                     todo |-> {}, seen |-> {}, complete |-> TRUE, missed |-> gone, lone |-> alone]
<1>1. UNCHANGED <<disk, unlisted, entries, exact>>
  BY DEF Files!BeginRoot
<1>2. scanning' = [o \in Scanners |-> IF o = s THEN new ELSE IF scanning[o] = Files!Idle THEN Files!Idle
                                       ELSE [scanning[o] EXCEPT !.lone = FALSE]]
  BY DEF Files!BeginRoot
<1>3. scanning'[s] = new
  BY <1>2
<1>4. \A t \in Scanners : t # s => scanning'[t] = IF scanning[t] = Files!Idle THEN Files!Idle
                                                  ELSE [scanning[t] EXCEPT !.lone = FALSE]
  BY <1>2
<1>5. /\ new.pc = "walk" /\ new.root = r /\ new.previous = Files!Previous(r) /\ new.todo = {} /\ new.seen = {}
      /\ new.missed = gone /\ (new.lone <=> alone)
  OBVIOUS
<1>6. new \in Scan
  <2>1. alone \in BOOLEAN /\ gone \in SUBSET Paths /\ Files!Previous(r) \in [Paths -> Entries]
    BY PreviousIs
  <2> HIDE DEF alone, gone
  <2> QED
    BY <2>1 DEF Scan
<1>7. Files!Visible' = Files!Visible
  BY <1>1 DEF Files!Visible
<1>8. PICK c \in Scan : c = new
  BY <1>6
<1>9. /\ c.pc = "walk" /\ c.root = r /\ c.previous = Files!Previous(r) /\ c.todo = {} /\ c.seen = {}
      /\ c.missed = gone /\ (c.lone <=> alone) /\ scanning'[s] = c
  BY <1>3, <1>5, <1>8
<1> HIDE DEF new
<1>10. ScanOK(c)'
  BY <1>7, <1>9, PreviousIs DEF ScanOK
<1>11. c.lone => LoneOK(c)' /\ \A t \in Scanners : t # s => scanning'[t] = Files!Idle
  <2> SUFFICES ASSUME c.lone PROVE LoneOK(c)' /\ \A t \in Scanners : t # s => scanning'[t] = Files!Idle
    OBVIOUS
  <2>1. \A p \in Paths : Known(c, p)'
    BY <1>1, <1>9, PreviousIs DEF Known
  <2>2. LoneOK(c)'
    BY <1>7, <1>9, <2>1 DEF LoneOK
  <2> QED
    BY <1>4, <1>9, <2>2
<1>12. ASSUME NEW t \in Scanners, t # s, scanning[t] # Files!Idle
       PROVE  scanning'[t] \in Scan /\ ~scanning'[t].lone /\ ScanOK(scanning[t])'
  <2>1. PICK b \in Scan : b = scanning[t]
    BY <1>12, ScanIs DEF FilesInv
  <2>2. PICK d \in Scan : d = [b EXCEPT !.lone = FALSE]
    BY DEF Scan
  <2>3. scanning'[t] = d
    BY <1>4, <1>12, <2>1, <2>2
  <2>4. /\ d.pc = b.pc /\ d.root = b.root /\ d.previous = b.previous /\ d.todo = b.todo /\ d.seen = b.seen
        /\ d.missed = b.missed /\ ~d.lone
    BY <2>2 DEF Scan
  <2>5. d.complete <=> b.complete
    BY <2>2 DEF Scan
  <2>6. ScanOK(b)
    BY <1>12, <2>1 DEF FilesInv, ScansOK
  <2>7. ScanOK(d)'
    BY <1>7, <2>4, <2>5, <2>6 DEF ScanOK
  <2> QED
    BY <2>3, <2>4, <2>7
<1>13. FilesType'
  <2>1. \A t \in Scanners : scanning'[t] \in {Files!Idle} \cup Scan
    BY <1>4, <1>9, <1>12
  <2>2. scanning' = [t \in Scanners |-> scanning'[t]]
    BY <1>2
  <2> QED
    BY <1>1, <2>1, <2>2 DEF FilesInv, FilesType
<1>14. ScansOK'
  <2> SUFFICES ASSUME NEW t \in Scanners, scanning'[t] # Files!Idle
               PROVE  /\ ScanOK(scanning[t])'
                      /\ scanning'[t].lone =>
                           LoneOK(scanning[t])' /\ \A u \in Scanners : u # t => scanning'[u] = Files!Idle
    BY DEF ScansOK
  <2>1. CASE t = s
    BY <1>9, <1>10, <1>11, <2>1
  <2>2. CASE t # s
    BY <1>4, <1>12, <2>2
  <2> QED
    BY <2>1, <2>2
<1>15. RowsBelow' /\ ExactTells'
  BY <1>1 DEF FilesInv, RowsBelow, ExactTells, Tells
<1> QED
  BY <1>13, <1>14, <1>15 DEF FilesInv

\* The candidates of a walk; if its coverage is complete they are all that is there.
LEMMA WalkFilesOK ==
  ASSUME RecordsAssumption, FilesInv, NEW s \in Scanners, Files!Walk(s)
  PROVE  FilesInv'
<1>1. scanning[s] # Files!Idle /\ scanning[s].pc = "walk"
  BY DEF Files!Walk, Files!Idle
<1>2. PICK c \in Scan : c = scanning[s]
  BY <1>1, ScanIs DEF FilesInv
<1> DEFINE there == (Under[c.root] \ Deep) \cap Files!Visible
<1>3. /\ c.root \in Roots /\ c.limit \in Limits /\ c.limit \in Nat /\ Under[c.root] \subseteq Paths
  BY DEF Scan, RecordsAssumption, Files!InventoryAssumption
<1>4. PICK found \in IF Files!Cardinality(there) <= c.limit THEN {there} ELSE Files!kSubset(c.limit, there) :
        Files!Goto(s, [c EXCEPT !.pc = "files", !.todo = found,
                                !.complete = Files!Covers(c.root, found, c.limit)])
  BY <1>2 DEF Files!Walk
<1>5. found \subseteq there
  BY <1>4 DEF Files!kSubset
<1>6. Files!Covers(c.root, found, c.limit) => found = there /\ Under[c.root] \cap Deep \cap Files!Visible = {}
  <2>1. CASE Files!Cardinality(there) <= c.limit
    BY <1>4, <2>1 DEF Files!Covers
  <2>2. CASE ~(Files!Cardinality(there) <= c.limit)
    <3>1. Files!Cardinality(found) = c.limit
      BY <1>4, <2>2 DEF Files!kSubset
    <3> QED
      BY <1>3, <3>1 DEF Files!Covers
  <2> QED
    BY <2>1, <2>2
<1> HIDE DEF there
<1>7. Files!Covers(c.root, found, c.limit) \in BOOLEAN
  BY DEF Files!Covers
<1>8. found \in SUBSET Paths
  BY <1>3, <1>5 DEF there
<1>9. PICK d \in Scan : d = [c EXCEPT !.pc = "files", !.todo = found,
                                      !.complete = Files!Covers(c.root, found, c.limit)]
  BY <1>7, <1>8 DEF Scan
<1>10. /\ d.pc = "files" /\ d.todo = found /\ (d.complete <=> Files!Covers(c.root, found, c.limit))
       /\ d.root = c.root /\ d.previous = c.previous /\ d.seen = c.seen /\ d.missed = c.missed
       /\ (d.lone <=> c.lone)
  BY <1>7, <1>9 DEF Scan
<1>11. ScanOK(c) /\ (c.lone => LoneOK(c)) /\ c.pc = "walk" /\ c.seen = {}
  BY <1>1, <1>2 DEF FilesInv, ScansOK, ScanOK
<1>12. ScanOK(d)
  <2>1. d.complete => Under[d.root] \subseteq d.todo \cup d.seen \cup d.missed
    BY <1>3, <1>6, <1>10, <1>11 DEF ScanOK, there
  <2>2. d.todo \subseteq Under[d.root]
    BY <1>5, <1>10 DEF there
  <2> QED
    BY <1>10, <1>11, <2>1, <2>2 DEF ScanOK
<1>13. d.lone => LoneOK(d)
  BY <1>5, <1>8, <1>10, <1>11 DEF LoneOK, there, Known
<1>14. Files!Goto(s, d) /\ d # Files!Idle
  BY <1>4, <1>9, NoScanIsIdle
<1>15. UNCHANGED <<disk, unlisted, entries, exact>>
  BY DEF Files!Walk
<1>16. d # Files!Idle => ScanOK(d)
  BY <1>12
<1>17. d # Files!Idle /\ d.lone => scanning[s].lone /\ LoneOK(d)
  BY <1>2, <1>10, <1>13
<1>18. d \in {Files!Idle} \cup Scan
  OBVIOUS
<1> QED
  BY <1>1, <1>14, <1>15, <1>16, <1>17, <1>18, QuietStepOK

\* A scan that is done with a candidate, which it has seen or which has gone.
LEMMA TakenIs ==
  ASSUME RecordsAssumption, FilesInv, NEW s \in Scanners, scanning[s].pc = "files",
         NEW p \in scanning[s].todo, NEW seen \in SUBSET {p}
  PROVE  /\ scanning[s] \in Scan /\ scanning[s] # Files!Idle /\ p \in Paths /\ p \in Under[scanning[s].root]
         /\ Files!Taken(s, p, seen) \in Scan
         /\ Files!Taken(s, p, seen).pc = "files"
         /\ Files!Taken(s, p, seen).root = scanning[s].root
         /\ Files!Taken(s, p, seen).previous = scanning[s].previous
         /\ Files!Taken(s, p, seen).todo = scanning[s].todo \ {p}
         /\ Files!Taken(s, p, seen).seen = scanning[s].seen \cup seen
         /\ Files!Taken(s, p, seen).missed = scanning[s].missed
         /\ (Files!Taken(s, p, seen).lone <=> scanning[s].lone)
         /\ seen = {p} \/ p \notin Files!Visible => ScanOK(Files!Taken(s, p, seen))
<1>1. scanning[s] # Files!Idle
  BY DEF Files!Idle
<1>2. PICK c \in Scan : c = scanning[s]
  BY <1>1, ScanIs DEF FilesInv
<1>3. ScanOK(c) /\ c.pc = "files" /\ p \in c.todo /\ c.todo \subseteq Paths /\ c.seen \subseteq Paths
  BY <1>1, <1>2 DEF FilesInv, ScansOK, Scan
<1>4. c.todo \ {p} \in SUBSET Paths /\ c.seen \cup seen \in SUBSET Paths
  BY <1>3
<1>5. PICK d \in Scan : d = [c EXCEPT !.todo = c.todo \ {p}, !.seen = c.seen \cup seen]
  BY <1>4 DEF Scan
<1>6. Files!Taken(s, p, seen) = d
  BY <1>2, <1>5 DEF Files!Taken
<1>7. /\ d.pc = c.pc /\ d.root = c.root /\ d.previous = c.previous /\ d.todo = c.todo \ {p}
      /\ d.seen = c.seen \cup seen /\ d.missed = c.missed
  BY <1>5 DEF Scan
<1>8. (d.lone <=> c.lone) /\ (d.complete <=> c.complete)
  BY <1>5 DEF Scan
<1>9. ASSUME seen = {p} \/ p \notin Files!Visible PROVE ScanOK(d)
  <2>1. p \in d.seen \cup d.missed
    BY <1>3, <1>7, <1>9 DEF ScanOK
  <2> QED
    BY <1>3, <1>7, <1>8, <2>1 DEF ScanOK
<1>10. p \in Paths /\ p \in Under[c.root]
  BY <1>3 DEF ScanOK
<1> QED
  BY <1>1, <1>2, <1>3, <1>6, <1>7, <1>8, <1>9, <1>10

LEMMA TakenAlone ==
  ASSUME RecordsAssumption, FilesInv, NEW s \in Scanners, scanning[s].pc = "files",
         NEW p \in scanning[s].todo, scanning[s].lone,
         UNCHANGED <<disk, unlisted>>, \A q \in Paths : q # p => entries'[q] = entries[q], Fresh(p)',
         NEW d, d = Files!Taken(s, p, {p})
  PROVE  LoneOK(d)'
<1>1. {p} \in SUBSET {p}
  OBVIOUS
<1>2. PICK c \in Scan : c = scanning[s] /\ c # Files!Idle /\ p \in c.todo /\ c.lone /\ c.pc = "files"
  BY <1>1, TakenIs
<1>3. /\ d.pc = "files" /\ d.root = c.root /\ d.previous = c.previous /\ d.todo = c.todo \ {p}
      /\ d.seen = c.seen \cup {p} /\ d.missed = c.missed /\ c.seen \subseteq Paths
  BY <1>1, <1>2, TakenIs DEF Scan
<1>4. LoneOK(c)
  BY <1>2 DEF FilesInv, ScansOK
<1>5. Files!Visible' = Files!Visible
  BY DEF Files!Visible
<1>6. \A q \in d.seen : Fresh(q)'
  <2> SUFFICES ASSUME NEW q \in d.seen PROVE Fresh(q)'
    OBVIOUS
  <2>1. CASE q = p
    BY <2>1
  <2>2. CASE q # p
    <3>1. Fresh(q) /\ q \in Paths
      BY <1>2, <1>3, <1>4, <2>2 DEF LoneOK
    <3> QED
      BY <2>2, <3>1 DEF Fresh
  <2> QED
    BY <2>1, <2>2
<1>7. \A q \in Paths \ d.seen : Known(d, q)'
  <2> SUFFICES ASSUME NEW q \in Paths \ d.seen PROVE Known(d, q)'
    OBVIOUS
  <2>1. Known(c, q) /\ q # p
    BY <1>2, <1>3, <1>4 DEF LoneOK
  <2> QED
    BY <1>3, <2>1 DEF Known
<1> QED
  BY <1>2, <1>3, <1>4, <1>5, <1>6, <1>7 DEF LoneOK

LEMMA SkipOK ==
  ASSUME RecordsAssumption, FilesInv, NEW s \in Scanners, scanning[s].pc = "files", NEW p \in scanning[s].todo,
         UNCHANGED <<disk, unlisted>>, Files!Skip(s, p)
  PROVE  FilesInv'
<1>1. PICK seen \in {{}, {p}} : Files!Goto(s, Files!Taken(s, p, seen))
  BY DEF Files!Skip
<1>2. seen \in SUBSET {p}
  BY <1>1
<1>3. p \notin Files!Visible /\ UNCHANGED <<entries, exact>>
  BY DEF Files!Skip, Files!Visible
<1>4. PICK d \in Scan : d = Files!Taken(s, p, seen)
  BY <1>2, TakenIs
<1>5. ScanOK(d) /\ (d.lone <=> scanning[s].lone) /\ scanning[s] # Files!Idle
  BY <1>2, <1>3, <1>4, TakenIs
<1>6. ~d.lone
  BY <1>3, <1>5 DEF FilesInv, ScansOK, LoneOK
<1>7. Files!Goto(s, d)
  BY <1>1, <1>4
<1>8. d \in {Files!Idle} \cup Scan /\ UNCHANGED <<disk, unlisted, entries, exact>>
  BY <1>3
<1>9. d # Files!Idle => ScanOK(d)
  BY <1>5
<1>10. d # Files!Idle /\ d.lone => scanning[s].lone /\ LoneOK(d)
  BY <1>6
<1>11. scanning[s] # Files!Idle
  BY <1>5
<1> QED
  BY <1>7, <1>8, <1>9, <1>10, <1>11, QuietStepOK

LEMMA KeepOK ==
  ASSUME RecordsAssumption, FilesInv, NEW s \in Scanners, scanning[s].pc = "files", NEW p \in scanning[s].todo,
         UNCHANGED <<disk, unlisted>>, Files!Keep(s, p)
  PROVE  FilesInv'
<1>1. {p} \in SUBSET {p}
  OBVIOUS
<1>2. PICK d \in Scan : d = Files!Taken(s, p, {p})
  BY <1>1, TakenIs
<1>3. ScanOK(d) /\ (d.lone <=> scanning[s].lone) /\ scanning[s] # Files!Idle /\ p \in Paths
  BY <1>1, <1>2, TakenIs
<1>4. Files!Goto(s, d) /\ UNCHANGED <<entries, exact>>
  BY <1>2 DEF Files!Keep
<1>5. ASSUME scanning[s].lone PROVE LoneOK(d)'
  <2>1. LoneOK(scanning[s]) /\ p \in Paths \ scanning[s].seen
    BY <1>3, <1>5 DEF FilesInv, ScansOK, LoneOK
  <2>2. Known(scanning[s], p)
    BY <2>1 DEF LoneOK
  <2>3. scanning[s].previous[p].present /\ scanning[s].previous[p].hash = disk[p] /\ disk[p] # 0
    BY DEF Files!Keep, Files!Same, Files!Absent
  <2>4. ~Files!NoRow.present
    BY DEF Files!NoRow
  <2>5. Fresh(p)
    BY <2>2, <2>3, <2>4 DEF Known, Fresh
  <2>6. Fresh(p)' /\ \A q \in Paths : q # p => entries'[q] = entries[q]
    BY <1>4, <2>5 DEF Fresh
  <2> QED
    BY <1>2, <1>5, <2>6, TakenAlone
<1>6. LoneOK(d)' <=> LoneOK(d)
  BY <1>4 DEF LoneOK, Files!Visible, Known, Fresh
<1>7. d \in {Files!Idle} \cup Scan /\ UNCHANGED <<disk, unlisted, entries, exact>> /\ scanning[s] # Files!Idle
  BY <1>3, <1>4
<1>8. d # Files!Idle => ScanOK(d)
  BY <1>3
<1>9. d # Files!Idle /\ d.lone => scanning[s].lone /\ LoneOK(d)
  BY <1>3, <1>5, <1>6
<1> QED
  BY <1>4, <1>7, <1>8, <1>9, QuietStepOK

LEMMA PersistOK ==
  ASSUME RecordsAssumption, FilesInv, NEW s \in Scanners, scanning[s].pc = "files", NEW p \in scanning[s].todo,
         UNCHANGED <<disk, unlisted>>, Files!Persist(s, p)
  PROVE  FilesInv'
<1>1. {p} \in SUBSET {p}
  OBVIOUS
<1>2. PICK d \in Scan : d = Files!Taken(s, p, {p})
  BY <1>1, TakenIs
<1>3. /\ ScanOK(d) /\ (d.lone <=> scanning[s].lone) /\ scanning[s] # Files!Idle /\ p \in Paths
      /\ p \in Under[scanning[s].root] /\ scanning[s] \in Scan
  BY <1>1, <1>2, TakenIs
<1>4. PICK row : row = Files!Entry(s, p)
  OBVIOUS
<1>5. row \in Entries /\ row.present /\ row.hash = disk[p] /\ row.root = scanning[s].root
  <2>1. scanning[s].root \in Roots
    BY <1>3 DEF Scan
  <2>2. disk[p] \in Nat /\ entries[p].rev + 1 \in Nat
    BY <1>3 DEF FilesInv, FilesType, Entries
  <2> QED
    BY <1>4, <2>1, <2>2 DEF Files!Entry, Entries
<1>6. entries' = [entries EXCEPT ![p] = row]
  BY <1>4 DEF Files!Persist
<1>7. /\ entries' \in [Paths -> Entries] /\ entries'[p] = row
      /\ \A q \in Paths : q # p => entries'[q] = entries[q]
  BY <1>3, <1>5, <1>6, Zenon DEF FilesInv, FilesType
<1>8. Files!Goto(s, d) /\ exact' = {r \in exact : p \notin Under[r]} /\ disk[p] # 0
  BY <1>2 DEF Files!Persist, Files!Persisted, Files!Absent
<1>9. RowsBelow'
  BY <1>3, <1>5, <1>7 DEF FilesInv, RowsBelow, Scan
<1>10. ExactTells'
  BY <1>7, <1>8 DEF FilesInv, FilesType, ExactTells, Tells, RecordsAssumption, Files!InventoryAssumption
<1>11. exact' \subseteq Roots
  BY <1>8 DEF FilesInv, FilesType
<1>12. Fresh(p)'
  BY <1>5, <1>7, <1>8 DEF Fresh
<1>13. d # Files!Idle /\ d.lone => scanning[s].lone /\ LoneOK(d)'
  BY <1>2, <1>3, <1>7, <1>12, TakenAlone
<1>14. d \in {Files!Idle} \cup Scan /\ scanning[s] # Files!Idle /\ UNCHANGED <<disk, unlisted>>
  BY <1>3
<1>15. d # Files!Idle => ScanOK(d)
  BY <1>3
<1> QED
  BY <1>7, <1>8, <1>9, <1>10, <1>11, <1>13, <1>14, <1>15, ScanStepOK

\* A scan that ends, in whatever way.
LEMMA EndsOK ==
  ASSUME FilesInv, NEW s \in Scanners, scanning[s] # Files!Idle,
         UNCHANGED <<disk, unlisted, entries, exact>>, Files!Goto(s, Files!Idle)
  PROVE  FilesInv'
<1>1. Files!Idle \in {Files!Idle} \cup Scan
  OBVIOUS
<1> QED
  BY <1>1, QuietStepOK

LEMMA DuplicateOK ==
  ASSUME RecordsAssumption, FilesInv, NEW s \in Scanners, scanning[s].pc = "files", NEW p \in scanning[s].todo,
         UNCHANGED <<disk, unlisted>>, Files!Duplicate(s, p)
  PROVE  FilesInv'
<1>1. UNCHANGED <<disk, unlisted, entries, exact>>
  BY DEF Files!Duplicate
<1>2. CASE Files!Goto(s, Files!Idle)
  <2>1. scanning[s] # Files!Idle
    BY DEF Files!Idle
  <2> QED
    BY <1>1, <1>2, <2>1, EndsOK
<1>3. CASE Files!Goto(s, [Files!Taken(s, p, {p}) EXCEPT !.lone = FALSE])
  <2>1. {p} \in SUBSET {p}
    OBVIOUS
  <2>2. PICK c \in Scan : c = Files!Taken(s, p, {p})
    BY <2>1, TakenIs
  <2>3. ScanOK(c) /\ scanning[s] # Files!Idle
    BY <2>1, <2>2, TakenIs
  <2>4. PICK d \in Scan : d = [c EXCEPT !.lone = FALSE]
    BY DEF Scan
  <2>5. /\ d.pc = c.pc /\ d.root = c.root /\ d.previous = c.previous /\ d.todo = c.todo /\ d.seen = c.seen
        /\ d.missed = c.missed /\ ~d.lone
    BY <2>4 DEF Scan
  <2>6. d.complete <=> c.complete
    BY <2>4 DEF Scan
  <2>7. ScanOK(d)
    BY <2>3, <2>5, <2>6 DEF ScanOK
  <2>8. Files!Goto(s, d) /\ d \in {Files!Idle} \cup Scan
    BY <1>3, <2>2, <2>4
  <2>9. d # Files!Idle => ScanOK(d)
    BY <2>7
  <2>10. d # Files!Idle /\ d.lone => scanning[s].lone /\ LoneOK(d)
    BY <2>5
  <2>11. scanning[s] # Files!Idle
    BY <2>3
  <2> QED
    BY <1>1, <2>8, <2>9, <2>10, <2>11, QuietStepOK
<1> QED
  BY <1>2, <1>3 DEF Files!Duplicate

LEMMA TakeFileOK ==
  ASSUME RecordsAssumption, FilesInv, NEW s \in Scanners, Files!TakeFile(s)
  PROVE  FilesInv'
<1>1. scanning[s].pc = "files" /\ UNCHANGED <<disk, unlisted>>
  BY DEF Files!TakeFile
<1>2. PICK p \in scanning[s].todo : \/ Files!Skip(s, p) \/ Files!Keep(s, p) \/ Files!Persist(s, p)
                                    \/ Files!Duplicate(s, p) \/ Files!Conflict(s, p)
  BY DEF Files!TakeFile
<1>3. CASE Files!Skip(s, p)
  BY <1>1, <1>3, SkipOK
<1>4. CASE Files!Keep(s, p)
  BY <1>1, <1>4, KeepOK
<1>5. CASE Files!Persist(s, p)
  BY <1>1, <1>5, PersistOK
<1>6. CASE Files!Duplicate(s, p)
  BY <1>1, <1>6, DuplicateOK
<1>7. CASE Files!Conflict(s, p)
  <2>1. scanning[s] # Files!Idle
    BY <1>1 DEF Files!Idle
  <2>2. Files!Goto(s, Files!Idle) /\ UNCHANGED <<disk, unlisted, entries, exact>>
    BY <1>1, <1>7 DEF Files!Conflict
  <2> QED
    BY <2>1, <2>2, EndsOK
<1> QED
  BY <1>2, <1>3, <1>4, <1>5, <1>6, <1>7

LEMMA AfterFilesOK ==
  ASSUME RecordsAssumption, FilesInv, NEW s \in Scanners, Files!AfterFiles(s)
  PROVE  FilesInv'
<1>1. scanning[s] # Files!Idle /\ scanning[s].pc = "files" /\ scanning[s].todo = {}
  BY DEF Files!AfterFiles, Files!Idle
<1>2. PICK c \in Scan : c = scanning[s]
  BY <1>1, ScanIs DEF FilesInv
<1>3. ScanOK(c) /\ (c.lone => LoneOK(c))
  BY <1>1, <1>2 DEF FilesInv, ScansOK
<1>4. PICK left \in SUBSET Paths : left = IF c.complete THEN Files!Missing(c) ELSE {}
  BY DEF Files!Missing
<1>5. PICK d \in Scan : d = [c EXCEPT !.pc = "missing", !.todo = left]
  BY DEF Scan
<1>6. Files!Goto(s, d) /\ UNCHANGED <<disk, unlisted, entries, exact>>
  BY <1>2, <1>4, <1>5 DEF Files!AfterFiles
<1>7. /\ d.pc = "missing" /\ d.root = c.root /\ d.previous = c.previous /\ d.todo = left
      /\ d.seen = c.seen /\ d.missed = c.missed
  BY <1>5 DEF Scan
<1>8. (d.lone <=> c.lone) /\ (d.complete <=> c.complete)
  BY <1>5 DEF Scan
<1>9. c.complete => Under[c.root] \subseteq c.seen \cup c.missed
  BY <1>1, <1>2, <1>3 DEF ScanOK
<1>10. \A p \in left : c.complete /\ c.previous[p].present /\ p \notin c.seen /\ p \in Under[c.root]
  BY <1>3, <1>4 DEF Files!Missing, ScanOK
<1>11. ScanOK(d)
  <2>1. d.todo \subseteq Under[d.root] /\ d.todo \subseteq d.missed
    BY <1>7, <1>9, <1>10
  <2> QED
    BY <1>3, <1>7, <1>8, <1>9, <2>1 DEF ScanOK
<1>12. ASSUME c.lone PROVE LoneOK(d)
  <2>1. \A p \in Paths \ c.seen : Known(c, p)
    BY <1>1, <1>2, <1>3, <1>12 DEF LoneOK
  <2>2. ~Files!NoRow.present
    BY DEF Files!NoRow
  <2>3. \A p \in d.todo : entries[p] = d.previous[p]
    BY <1>7, <1>10, <2>1, <2>2 DEF Known
  <2>4. ASSUME d.complete, NEW p \in Paths \ d.seen, entries[p].root = d.root, entries[p].present
        PROVE  p \in d.todo
    <3>1. c.previous[p] = entries[p] /\ p \notin c.seen
      BY <1>7, <2>1, <2>4 DEF Known
    <3> QED
      BY <1>4, <1>7, <1>8, <2>4, <3>1 DEF Files!Missing
  <2>5. d.todo \cap d.seen = {}
    BY <1>7, <1>10
  <2>6. /\ c.missed \cap Files!Visible = {} /\ \A p \in c.seen : Fresh(p)
    BY <1>1, <1>2, <1>3, <1>12 DEF LoneOK
  <2> QED
    BY <1>7, <2>3, <2>4, <2>5, <2>6 DEF LoneOK
<1>13. d \in {Files!Idle} \cup Scan
  OBVIOUS
<1>14. d # Files!Idle => ScanOK(d)
  BY <1>11
<1>15. d # Files!Idle /\ d.lone => scanning[s].lone /\ LoneOK(d)
  BY <1>2, <1>8, <1>12
<1>16. scanning[s] # Files!Idle
  BY <1>1
<1> QED
  BY <1>6, <1>13, <1>14, <1>15, <1>16, QuietStepOK

LEMMA MarkMissingOK ==
  ASSUME RecordsAssumption, FilesInv, NEW s \in Scanners, Files!MarkMissing(s)
  PROVE  FilesInv'
<1>1. scanning[s] # Files!Idle /\ scanning[s].pc = "missing"
  BY DEF Files!MarkMissing, Files!Idle
<1>2. PICK c \in Scan : c = scanning[s]
  BY <1>1, ScanIs DEF FilesInv
<1>3. ScanOK(c) /\ (c.lone => LoneOK(c)) /\ UNCHANGED <<disk, unlisted>>
  BY <1>1, <1>2 DEF FilesInv, ScansOK, Files!MarkMissing
<1>4. PICK p \in c.todo :
        IF Files!Current(c.previous[p], p)
        THEN /\ entries' = [entries EXCEPT ![p] = [c.previous[p] EXCEPT !.present = FALSE,
                                                                        !.rev = c.previous[p].rev + 1]]
             /\ Files!Goto(s, [c EXCEPT !.todo = c.todo \ {p}])
             /\ Files!Persisted(s, p)
        ELSE Files!Goto(s, Files!Idle) /\ UNCHANGED <<entries, exact>>
  BY <1>2 DEF Files!MarkMissing
<1>5. p \in Paths
  BY <1>4 DEF Scan
<1>6. CASE ~Files!Current(c.previous[p], p)
  BY <1>1, <1>3, <1>4, <1>6, EndsOK
<1>7. CASE Files!Current(c.previous[p], p)
  <2>1. PICK old \in Entries : old = c.previous[p]
    BY <1>5 DEF Scan
  <2>2. PICK row \in Entries : row = [old EXCEPT !.present = FALSE, !.rev = old.rev + 1]
    <3>1. old.rev + 1 \in Nat
      BY DEF Entries
    <3>2. \A n \in Nat : [old EXCEPT !.present = FALSE, !.rev = n] \in Entries
      BY DEF Entries
    <3> QED
      BY <3>1, <3>2
  <2>3. ~row.present
    BY <2>2 DEF Entries
  <2>4. entries' = [entries EXCEPT ![p] = row]
    BY <1>4, <1>7, <2>1, <2>2
  <2>5. /\ entries' \in [Paths -> Entries] /\ entries'[p] = row
        /\ \A q \in Paths : q # p => entries'[q] = entries[q]
    BY <1>5, <2>4, Zenon DEF FilesInv, FilesType
  <2>6. PICK d \in Scan : d = [c EXCEPT !.todo = c.todo \ {p}]
    BY DEF Scan
  <2>7. /\ d.pc = c.pc /\ d.root = c.root /\ d.previous = c.previous /\ d.todo = c.todo \ {p}
        /\ d.seen = c.seen /\ d.missed = c.missed
    BY <2>6 DEF Scan
  <2>8. (d.lone <=> c.lone) /\ (d.complete <=> c.complete)
    BY <2>6 DEF Scan
  <2>9. Files!Goto(s, d) /\ exact' = {r \in exact : p \notin Under[r]}
    BY <1>4, <1>7, <2>6 DEF Files!Persisted
  <2>10. RowsBelow'
    BY <2>3, <2>5 DEF FilesInv, RowsBelow
  <2>11. exact' \subseteq Roots /\ ExactTells'
    BY <1>3, <2>5, <2>9 DEF FilesInv, FilesType, ExactTells, Tells, RecordsAssumption, Files!InventoryAssumption
  <2>12. ScanOK(d)
    BY <1>1, <1>2, <1>3, <2>7, <2>8 DEF ScanOK
  <2>13. ASSUME c.lone PROVE LoneOK(d)'
    <3>1. LoneOK(c) /\ c.pc = "missing" /\ c.seen \subseteq Paths /\ c.todo \subseteq Paths
      BY <1>1, <1>2, <1>3, <2>13 DEF Scan
    <3>2. Files!Visible' = Files!Visible
      BY <1>3 DEF Files!Visible
    <3>3. \A q \in d.seen : Fresh(q)'
      BY <1>3, <2>5, <2>7, <3>1 DEF LoneOK, Fresh
    <3>4. \A q \in d.todo : entries'[q] = d.previous[q]
      BY <2>5, <2>7, <3>1 DEF LoneOK
    <3>5. d.complete => \A q \in Paths \ d.seen : entries'[q].root = d.root /\ entries'[q].present => q \in d.todo
      BY <2>3, <2>5, <2>7, <2>8, <3>1 DEF LoneOK
    <3> QED
      BY <2>7, <3>1, <3>2, <3>3, <3>4, <3>5 DEF LoneOK
  <2>14. d # Files!Idle => ScanOK(d)
    BY <2>12
  <2>15. d # Files!Idle /\ d.lone => scanning[s].lone /\ LoneOK(d)'
    BY <1>2, <2>8, <2>13
  <2>16. d \in {Files!Idle} \cup Scan /\ scanning[s] # Files!Idle
    BY <1>1
  <2> QED
    BY <1>3, <2>5, <2>9, <2>10, <2>11, <2>14, <2>15, <2>16, ScanStepOK
<1> QED
  BY <1>6, <1>7

\* The end of a scan that was alone, covered its root and owns the rows below it.
LEMMA EndRootOK ==
  ASSUME RecordsAssumption, FilesInv, NEW s \in Scanners, Files!EndRoot(s)
  PROVE  FilesInv'
<1>1. scanning[s] # Files!Idle /\ scanning[s].pc = "missing" /\ scanning[s].todo = {}
  BY DEF Files!EndRoot, Files!Idle
<1>2. PICK c \in Scan : c = scanning[s]
  BY <1>1, ScanIs DEF FilesInv
<1>3. ScanOK(c) /\ (c.lone => LoneOK(c)) /\ UNCHANGED <<disk, unlisted, entries>> /\ c.root \in Roots
  BY <1>1, <1>2 DEF FilesInv, ScansOK, Files!EndRoot, Scan
<1>4. exact' = IF c.lone /\ c.complete /\ Files!Owns(c.root) THEN exact \cup {c.root} ELSE exact
  BY <1>2 DEF Files!EndRoot
<1>5. ASSUME c.lone, c.complete, Files!Owns(c.root), NEW p \in Under[c.root] \ unlisted
      PROVE  Tells(p)
  <2>1. p \in Paths
    BY <1>3 DEF RecordsAssumption, Files!InventoryAssumption
  <2>2. CASE p \in c.seen
    <3>1. Fresh(p) /\ ~Files!NoRow.present
      BY <1>1, <1>2, <1>3, <1>5, <2>2 DEF LoneOK, Files!NoRow
    <3> QED
      BY <3>1 DEF Fresh, Tells
  <2>3. CASE p \notin c.seen
    <3>1. p \in c.missed
      BY <1>1, <1>2, <1>3, <1>5, <2>3 DEF ScanOK
    <3>2. disk[p] = 0
      BY <1>3, <1>5, <2>1, <3>1, VisibleIs DEF LoneOK
    <3>3. entries[p].root = c.root => ~entries[p].present
      BY <1>1, <1>2, <1>3, <1>5, <2>1, <2>3 DEF LoneOK
    <3>4. entries[p] = Files!NoRow \/ entries[p].root = c.root
      BY <1>5 DEF Files!Owns
    <3> QED
      BY <3>2, <3>3, <3>4 DEF Tells
  <2> QED
    BY <2>2, <2>3
<1>6. exact' \subseteq Roots
  BY <1>3, <1>4 DEF FilesInv, FilesType
<1>7. ExactTells'
  <2> SUFFICES ASSUME NEW r \in exact', NEW p \in Under[r] \ unlisted' PROVE Tells(p)'
    BY DEF ExactTells
  <2>1. p \in Under[r] \ unlisted
    BY <1>3
  <2>2. Tells(p)
    BY <1>4, <1>5, <2>1 DEF FilesInv, ExactTells
  <2> QED
    BY <1>3, <2>2 DEF Tells
<1>8. entries' \in [Paths -> Entries] /\ RowsBelow'
  BY <1>3 DEF FilesInv, FilesType, RowsBelow
<1>9. Files!Goto(s, Files!Idle) /\ Files!Idle \in {Files!Idle} \cup Scan
  BY DEF Files!EndRoot
<1>10. UNCHANGED <<disk, unlisted>> /\ scanning[s] # Files!Idle
  BY <1>1, <1>3
<1> QED
  BY <1>6, <1>7, <1>8, <1>9, <1>10, ScanStepOK

LEMMA FilesStutter ==
  ASSUME FilesInv, UNCHANGED <<disk, unlisted, entries, scanning, exact>>
  PROVE  FilesInv'
<1>1. FilesType' /\ RowsBelow' /\ ExactTells'
  BY DEF FilesInv, FilesType, RowsBelow, ExactTells, Tells
<1>2. ScansOK'
  BY DEF FilesInv, ScansOK, ScanOK, LoneOK, Files!Visible, Known, Fresh
<1> QED
  BY <1>1, <1>2 DEF FilesInv

LEMMA FilesStep ==
  ASSUME RecordsAssumption, FilesInv, Files!Next
  PROVE  FilesInv'
<1>1. ASSUME NEW p \in Paths, Files!Change(p) \/ Files!Unlist(p) PROVE FilesInv'
  BY <1>1, ChangeOK, UnlistOK
<1>2. ASSUME NEW s \in Scanners, NEW r \in Roots, NEW limit \in Limits, Files!BeginRoot(s, r, limit)
      PROVE  FilesInv'
  BY <1>2, BeginRootOK
<1>3. ASSUME NEW s \in Scanners, Files!Walk(s) \/ Files!TakeFile(s) \/ Files!AfterFiles(s)
      PROVE  FilesInv'
  BY <1>3, WalkFilesOK, TakeFileOK, AfterFilesOK
<1>4. ASSUME NEW s \in Scanners, Files!MarkMissing(s) \/ Files!EndRoot(s)
      PROVE  FilesInv'
  BY <1>4, MarkMissingOK, EndRootOK
<1>5. ASSUME NEW s \in Scanners, Files!Crash(s) PROVE FilesInv'
  <2>1. scanning[s] # Files!Idle /\ Files!Goto(s, Files!Idle) /\ UNCHANGED <<disk, unlisted, entries, exact>>
    BY <1>5 DEF Files!Crash
  <2> QED
    BY <2>1, EndsOK
<1>6. CASE Files!Bind
  <2>1. UNCHANGED <<disk, unlisted, entries, scanning, exact>>
    BY <1>6 DEF Files!Bind
  <2> QED
    BY <2>1, FilesStutter
<1> QED
  BY <1>1, <1>2, <1>3, <1>4, <1>5, <1>6 DEF Files!Next

LEMMA FilesHolds == Spec => []FilesInv
<1> USE RecordsAssumption
<1>1. Init => FilesInv
  BY FilesStart DEF Init
<1>2. FilesInv /\ [Next]_<<part, assertions, inventory, schema>> => FilesInv'
  <2> SUFFICES ASSUME FilesInv, [Next]_<<part, assertions, inventory, schema>> PROVE FilesInv'
    OBVIOUS
  <2>1. CASE Files!Next
    BY <2>1, FilesStep
  <2>2. CASE UNCHANGED inventory
    <3>1. UNCHANGED <<disk, unlisted, entries, scanning, exact>>
      BY <2>2 DEF inventory
    <3> QED
      BY <3>1, FilesStutter
  <2> QED
    BY <2>1, <2>2 DEF Next
<1> QED
  BY <1>1, <1>2, PTL DEF Spec

-----------------------------------------------------------------------------
\* The status of a bound file on an index that tells what is on the disk.
LEMMA StatusAnswers ==
  ASSUME NEW p, NEW b, Tells(p)
  PROVE  \/ Files!Status(p, b, FALSE) = Files!Status(p, b, TRUE)
         \/ Files!Status(p, b, FALSE) = "UNKNOWN" /\ Files!Status(p, b, TRUE) = "STALE"
BY DEF Tells, Files!Status, Files!Absent

LEMMA LiveStatusIs == ASSUME NEW p, NEW b PROVE Files!Status(p, b, TRUE) \in {"STALE", "MATCH"}
BY DEF Files!Status

LEMMA FreshnessAnswers ==
  ASSUME NEW b, \A p \in Paths : b[p] # 0 => Tells(p)
  PROVE  \/ Files!Freshness(b, FALSE) = Files!Freshness(b, TRUE)
         \/ Files!Freshness(b, FALSE) = "UNKNOWN" /\ Files!Freshness(b, TRUE) = "STALE"
<1> DEFINE bound == {q \in Paths : b[q] # Files!Absent}
           index == {Files!Status(p, b[p], FALSE) : p \in bound}
           live  == {Files!Status(p, b[p], TRUE) : p \in bound}
<1>1. \A p \in bound : \/ Files!Status(p, b[p], FALSE) = Files!Status(p, b[p], TRUE)
                       \/ Files!Status(p, b[p], FALSE) = "UNKNOWN" /\ Files!Status(p, b[p], TRUE) = "STALE"
  BY StatusAnswers DEF Files!Absent
<1>2. \A p \in bound : Files!Status(p, b[p], TRUE) \in {"STALE", "MATCH"}
  BY LiveStatusIs
<1>3. index = {} <=> live = {}
  OBVIOUS
<1>4. "STALE" \in index => "STALE" \in live
  BY <1>1
<1>5. "UNKNOWN" \in index => "STALE" \in live
  BY <1>1, <1>2
<1>6. "STALE" \in live => "STALE" \in index \/ "UNKNOWN" \in index
  BY <1>1
<1>7. "UNKNOWN" \notin live
  BY <1>2
<1>8. /\ Files!Freshness(b, FALSE) = IF index = {} THEN "UNBOUND" ELSE IF "STALE" \in index THEN "STALE"
                                     ELSE IF "UNKNOWN" \in index THEN "UNKNOWN" ELSE "REUSABLE"
      /\ Files!Freshness(b, TRUE) = IF live = {} THEN "UNBOUND" ELSE IF "STALE" \in live THEN "STALE"
                                    ELSE IF "UNKNOWN" \in live THEN "UNKNOWN" ELSE "REUSABLE"
  BY DEF Files!Freshness
<1> HIDE DEF index, live
<1>9. CASE index = {}
  BY <1>3, <1>8, <1>9
<1>10. CASE "STALE" \in index
  <2>1. index # {} /\ live # {} /\ "STALE" \in live
    BY <1>3, <1>4, <1>10
  <2>2. Files!Freshness(b, FALSE) = "STALE"
    BY <1>8, <1>10, <2>1
  <2>3. Files!Freshness(b, TRUE) = "STALE"
    BY <1>8, <2>1
  <2> QED
    BY <2>2, <2>3
<1>11. CASE "STALE" \notin index /\ "UNKNOWN" \in index
  BY <1>3, <1>5, <1>8, <1>11
<1>12. CASE index # {} /\ "STALE" \notin index /\ "UNKNOWN" \notin index
  BY <1>3, <1>6, <1>7, <1>8, <1>12
<1> QED
  BY <1>9, <1>10, <1>11, <1>12

\* The index of a root that a lone complete scan covered answers about evidence bound to
\* files of that root as the disk does, for any paths, roots and scans (evidence_freshness
\* without the live check): the rows below the root tell what is on the disk.
THEOREM IndexAnswers == Spec => []IndexAnswersForDisk
<1> USE RecordsAssumption
<1>1. FilesInv => IndexAnswersForDisk
  <2> SUFFICES ASSUME FilesInv, NEW r \in exact, {p \in Paths : binding[p] # 0} \subseteq Under[r] \ unlisted
               PROVE  \/ Files!Freshness(binding, FALSE) = Files!Freshness(binding, TRUE)
                      \/ Files!Freshness(binding, FALSE) = "UNKNOWN" /\ Files!Freshness(binding, TRUE) = "STALE"
    BY DEF IndexAnswersForDisk, Files!IndexAnswersForDisk, Files!Absent
  <2>1. \A p \in Paths : binding[p] # 0 => Tells(p)
    BY DEF FilesInv, ExactTells
  <2> QED
    BY <2>1, FreshnessAnswers
<1> QED
  BY <1>1, FilesHolds, PTL

\* What marks a row as missing is a scan during which the file could not be seen: a limit of
\* the walk, another root or another scan never does (_scan_root), because a scan's list of
\* missing files stays within what it has missed.
THEOREM MarkedWereMissing == Spec => MissingWasMissing
<1> USE RecordsAssumption
<1>1. ASSUME FilesInv, Files!Next PROVE Files!OnlyMissedAreMarked
  <2> SUFFICES ASSUME NEW p \in Paths, entries[p].present, ~entries'[p].present
               PROVE  \E s \in Scanners : scanning[s] # Files!Idle /\ p \in scanning[s].missed
    BY DEF Files!OnlyMissedAreMarked
  <2>1. entries' # entries
    OBVIOUS
  <2>2. PICK s \in Scanners : Files!TakeFile(s) \/ Files!MarkMissing(s)
    BY <1>1, <2>1 DEF Files!Next, Files!Change, Files!Unlist, Files!BeginRoot, Files!Walk, Files!AfterFiles,
       Files!EndRoot, Files!Crash, Files!Bind
  <2>3. CASE Files!TakeFile(s)
    <3>1. PICK q \in scanning[s].todo : Files!Persist(s, q)
      BY <2>1, <2>3 DEF Files!TakeFile, Files!Skip, Files!Keep, Files!Duplicate, Files!Conflict
    <3>2. entries' = [entries EXCEPT ![q] = Files!Entry(s, q)] /\ Files!Entry(s, q).present
      BY <3>1 DEF Files!Persist, Files!Entry
    <3> QED
      BY <1>1, <3>2 DEF FilesInv, FilesType
  <2>4. CASE Files!MarkMissing(s)
    <3>1. scanning[s] # Files!Idle /\ scanning[s].pc = "missing"
      BY <2>4 DEF Files!MarkMissing, Files!Idle
    <3>2. PICK c : c = scanning[s]
      OBVIOUS
    <3>3. PICK q \in c.todo : \E row : entries' = [entries EXCEPT ![q] = row]
      BY <2>1, <2>4, <3>2 DEF Files!MarkMissing
    <3>4. q = p
      BY <1>1, <3>3 DEF FilesInv, FilesType
    <3>5. ScanOK(c)
      BY <1>1, <3>1, <3>2 DEF FilesInv, ScansOK
    <3> QED
      BY <3>1, <3>2, <3>3, <3>4, <3>5 DEF ScanOK
  <2> QED
    BY <2>2, <2>3, <2>4
<1>2. ASSUME FilesInv, [Next]_<<part, assertions, inventory, schema>>
      PROVE  [Files!OnlyMissedAreMarked]_Files!vars
  <2>1. CASE Files!Next
    BY <1>1, <1>2, <2>1
  <2>2. CASE UNCHANGED inventory
    BY <2>2 DEF inventory, Files!vars
  <2> QED
    BY <1>2, <2>1, <2>2 DEF Next
<1> QED
  BY <1>2, FilesHolds, PTL DEF Spec, MissingWasMissing, Files!MissingWasMissing

-----------------------------------------------------------------------------
(* SchemaMigration. *)

Fields == {"version", "execution", "assurance", "rev", "plan", "proof", "validation", "closure", "closer"}
Executions == {"PLANNED", "ACTIVE", "BLOCKED", "DONE_CLAIMED"}

IsDoc(d) ==
    /\ d = [f \in Fields |-> d[f]]
    /\ d["version"] \in 1..6 /\ d["rev"] \in Nat /\ d["execution"] \in Executions
    /\ d["assurance"] \in {"UNVERIFIED", "VERIFIED", "ACCEPTED"}
    /\ d["plan"] \in {Schema!Missing, "none", "bound"}
    /\ d["proof"] \in {Schema!Missing, "none", "given"}
    /\ d["validation"] \in {Schema!Missing, "NOT_STARTED", "PENDING", "VALIDATED", "REWORK_REQUIRED"}
    /\ d["closure"] \in {Schema!Missing, "OPEN", "CLOSED"}
    /\ d["closer"] \in {Schema!Missing, "none", "verifier", "accepter", "closer"}

\* The judgement and the closure are derived as long as nobody has written them.
Derived(d) == d["validation"] = Schema!Missing

\* They are written together, and never from a Slice that is assured but was not claimed.
DocOK(d) ==
    /\ IsDoc(d)
    /\ Derived(d) <=> d["closure"] = Schema!Missing
    /\ Derived(d) <=> d["closer"] = Schema!Missing
    /\ Derived(d) => d["version"] < 6
    /\ Derived(d) /\ d["assurance"] # "UNVERIFIED" => d["execution"] = "DONE_CLAIMED"
    /\ d["execution"] = "DONE_CLAIMED" => d["plan"] # "bound"

\* Documents that differ in their revisions only.
SameButRevision(d, e) == \A f \in Fields \ {"rev"} : d[f] = e[f]

\* What an upgrade makes of each field.
IsUpgrade(u, d) ==
    /\ u["version"] = 6 /\ u["execution"] = d["execution"] /\ u["assurance"] = d["assurance"] /\ u["rev"] = d["rev"]
    /\ u["plan"] = IF d["version"] < 2 /\ d["plan"] = Schema!Missing THEN "none" ELSE d["plan"]
    /\ u["proof"] = IF d["version"] < 4 /\ d["proof"] = Schema!Missing THEN "none" ELSE d["proof"]
    /\ u["validation"] = IF d["version"] < 6 /\ d["validation"] = Schema!Missing
                         THEN Schema!ValidationOf(d) ELSE d["validation"]
    /\ u["closure"] = IF d["version"] < 6 /\ d["closure"] = Schema!Missing
                      THEN Schema!ClosureOf(d) ELSE d["closure"]
    /\ u["closer"] = IF d["version"] < 6 /\ d["closer"] = Schema!Missing
                     THEN Schema!CloserOf(d) ELSE d["closer"]

LEMMA UpgradedIs ==
  ASSUME NEW d, IsDoc(d)
  PROVE  /\ Schema!Upgraded(d) = [f \in Fields |-> Schema!Upgraded(d)[f]]
         /\ IsUpgrade(Schema!Upgraded(d), d)
<1>1. DOMAIN d = Fields /\ d = [f \in Fields |-> d[f]]
  BY Zenon DEF IsDoc
<1> DEFINE u == Schema!Upgraded(d)
<1>2. u = [f \in Fields |-> u[f]]
  BY <1>1 DEF Schema!Upgraded, Fields
<1>3. u["version"] = 6 /\ u["execution"] = d["execution"] /\ u["assurance"] = d["assurance"] /\ u["rev"] = d["rev"]
  BY <1>1 DEF Schema!Upgraded, Fields, Schema!Latest
<1>4. u["plan"] = IF d["version"] < 2 /\ d["plan"] = Schema!Missing THEN "none" ELSE d["plan"]
  BY <1>1 DEF Schema!Upgraded, Fields, Schema!Defaulted
<1>5. u["proof"] = IF d["version"] < 4 /\ d["proof"] = Schema!Missing THEN "none" ELSE d["proof"]
  BY <1>1 DEF Schema!Upgraded, Fields, Schema!Defaulted
<1>6. u["validation"] = IF d["version"] < 6 /\ d["validation"] = Schema!Missing
                              THEN Schema!ValidationOf(d) ELSE d["validation"]
  BY <1>1 DEF Schema!Upgraded, Fields, Schema!Defaulted
<1>7. u["closure"] = IF d["version"] < 6 /\ d["closure"] = Schema!Missing
                           THEN Schema!ClosureOf(d) ELSE d["closure"]
  BY <1>1 DEF Schema!Upgraded, Fields, Schema!Defaulted
<1>8. u["closer"] = IF d["version"] < 6 /\ d["closer"] = Schema!Missing
                           THEN Schema!CloserOf(d) ELSE d["closer"]
  BY <1>1 DEF Schema!Upgraded, Fields, Schema!Defaulted
<1> HIDE DEF u
<1>9. IsUpgrade(u, d)
  BY <1>3, <1>4, <1>5, <1>6, <1>7, <1>8, Zenon DEF IsUpgrade
<1> QED
  BY <1>2, <1>9, Zenon DEF u

\* A field after a patch.
LEMMA PatchedIs ==
  ASSUME NEW d, d = [f \in Fields |-> d[f]], NEW p
  PROVE  /\ Schema!Patched(d, p) = [f \in Fields |-> Schema!Patched(d, p)[f]]
         /\ Schema!Patched(d, p)["rev"] = d["rev"] + 1
         /\ \A f \in Fields \ {"rev"} : Schema!Patched(d, p)[f] = IF f \in DOMAIN p THEN p[f] ELSE d[f]
<1>1. DOMAIN d = Fields /\ "rev" \in Fields
  BY Zenon DEF Fields
<1>2. Schema!Patched(d, p) = [f \in Fields |-> IF f = "rev" THEN d["rev"] + 1 ELSE IF f \in DOMAIN p THEN p[f] ELSE d[f]]
  BY <1>1 DEF Schema!Patched
<1> QED
  BY <1>1, <1>2, Zenon

LEMMA DerivedValues ==
  ASSUME NEW d
  PROVE  /\ Schema!ValidationOf(d) \in {"NOT_STARTED", "PENDING", "VALIDATED"}
         /\ Schema!ClosureOf(d) \in {"OPEN", "CLOSED"}
         /\ Schema!CloserOf(d) \in {"none", "verifier", "accepter"}
BY DEF Schema!ValidationOf, Schema!ClosureOf, Schema!CloserOf

LEMMA UpgradeKeeps ==
  ASSUME NEW d, DocOK(d)
  PROVE  DocOK(Schema!Upgraded(d)) /\ ~Derived(Schema!Upgraded(d))
<1> DEFINE u == Schema!Upgraded(d)
<1>1. IsDoc(d)
  BY DEF DocOK
<1>2. u = [f \in Fields |-> u[f]] /\ IsUpgrade(u, d)
  BY <1>1, UpgradedIs
<1> HIDE DEF u
<1>3. IsDoc(u)
  BY <1>1, <1>2, DerivedValues DEF IsDoc, IsUpgrade, Schema!Missing
<1>4. ~Derived(u) /\ u["closure"] # Schema!Missing /\ u["closer"] # Schema!Missing
  BY <1>2, DerivedValues DEF DocOK, Derived, IsUpgrade, Schema!Missing
<1>5. u["execution"] = "DONE_CLAIMED" => u["plan"] # "bound"
  BY <1>2 DEF DocOK, IsUpgrade, Schema!Missing
<1> QED
  BY <1>3, <1>4, <1>5 DEF DocOK, u

\* What the patches of the operations have in common.
IsPatch(p) ==
    /\ DOMAIN p \subseteq Fields \ {"version", "rev"}
    /\ "execution" \in DOMAIN p => p["execution"] \in Executions
    /\ "assurance" \in DOMAIN p => p["assurance"] \in {"VERIFIED", "ACCEPTED"}
    /\ "plan" \in DOMAIN p => p["plan"] \in {"none", "bound"}
    /\ "proof" \in DOMAIN p => p["proof"] \in {"none", "given"}
    /\ "validation" \in DOMAIN p => p["validation"] \in {"NOT_STARTED", "PENDING", "VALIDATED", "REWORK_REQUIRED"}
    /\ "closure" \in DOMAIN p => p["closure"] \in {"OPEN", "CLOSED"}
    /\ "closer" \in DOMAIN p => p["closer"] \in {"none", "closer"}

\* The fields of a document after a patch.
IsPatched(q, d, p) ==
    /\ q["version"] = d["version"]
    /\ q["execution"] = IF "execution" \in DOMAIN p THEN p["execution"] ELSE d["execution"]
    /\ q["assurance"] = IF "assurance" \in DOMAIN p THEN p["assurance"] ELSE d["assurance"]
    /\ q["plan"] = IF "plan" \in DOMAIN p THEN p["plan"] ELSE d["plan"]
    /\ q["proof"] = IF "proof" \in DOMAIN p THEN p["proof"] ELSE d["proof"]
    /\ q["validation"] = IF "validation" \in DOMAIN p THEN p["validation"] ELSE d["validation"]
    /\ q["closure"] = IF "closure" \in DOMAIN p THEN p["closure"] ELSE d["closure"]
    /\ q["closer"] = IF "closer" \in DOMAIN p THEN p["closer"] ELSE d["closer"]

LEMMA PatchedFields ==
  ASSUME NEW d, d = [f \in Fields |-> d[f]], NEW p, IsPatch(p)
  PROVE  IsPatched(Schema!Patched(d, p), d, p)
<1> DEFINE q == Schema!Patched(d, p)
<1>1. \A f \in Fields \ {"rev"} : q[f] = IF f \in DOMAIN p THEN p[f] ELSE d[f]
  BY PatchedIs
<1> HIDE DEF q
<1>2. "version" \notin DOMAIN p
  BY DEF IsPatch
<1>3. IsPatched(q, d, p)
  BY <1>1, <1>2 DEF IsPatched, Fields
<1> QED
  BY <1>3 DEF q

\* The patch keeps together what is written together, and does not bind a claimed Slice.
Fits(p, d) ==
    /\ \/ {"validation", "closure", "closer"} \subseteq DOMAIN p
       \/ {"validation", "closure", "closer"} \cap DOMAIN p = {}
       \/ ~Derived(d)
    /\ LET q == Schema!Patched(d, p)
       IN /\ Derived(q) /\ q["assurance"] # "UNVERIFIED" => q["execution"] = "DONE_CLAIMED"
          /\ q["execution"] = "DONE_CLAIMED" => q["plan"] # "bound"

LEMMA PatchKeeps ==
  ASSUME NEW d, DocOK(d), NEW p, IsPatch(p), Fits(p, d)
  PROVE  DocOK(Schema!Patched(d, p))
<1> DEFINE q == Schema!Patched(d, p)
<1>1. IsDoc(d) /\ d = [f \in Fields |-> d[f]] /\ d["rev"] \in Nat
  BY DEF DocOK, IsDoc
<1>2. q = [f \in Fields |-> q[f]] /\ q["rev"] = d["rev"] + 1
  BY <1>1, PatchedIs
<1>3. IsPatched(q, d, p)
  BY <1>1, PatchedFields
<1>4. /\ Derived(q) /\ q["assurance"] # "UNVERIFIED" => q["execution"] = "DONE_CLAIMED"
      /\ q["execution"] = "DONE_CLAIMED" => q["plan"] # "bound"
  BY DEF Fits
<1>5. \/ {"validation", "closure", "closer"} \subseteq DOMAIN p
      \/ {"validation", "closure", "closer"} \cap DOMAIN p = {}
      \/ ~Derived(d)
  BY DEF Fits
<1> HIDE DEF q
<1>6. q["rev"] \in Nat
  BY <1>1, <1>2
<1>7. IsDoc(q)
  BY <1>1, <1>2, <1>3, <1>6 DEF IsDoc, IsPatched, IsPatch
<1>8. /\ Derived(q) <=> q["closure"] = Schema!Missing
      /\ Derived(q) <=> q["closer"] = Schema!Missing
      /\ Derived(q) => Derived(d)
  BY <1>3, <1>5 DEF IsPatched, IsPatch, DocOK, Derived, Schema!Missing
<1>9. Derived(q) => q["version"] < 6
  BY <1>3, <1>8 DEF IsPatched, DocOK
<1> QED
  BY <1>4, <1>7, <1>8, <1>9 DEF DocOK, q

\* A patch that names the judgement and the closure, or is applied to a document where they
\* were written, or leaves alone what they are derived from, commutes with the upgrade.
LEMMA PatchCommutes ==
  ASSUME NEW d, DocOK(d), NEW p, IsPatch(p), Fits(p, d),
         \/ {"validation", "closure", "closer"} \subseteq DOMAIN p
         \/ ~Derived(d)
         \/ LET q == Schema!Patched(d, p)
            IN /\ Schema!ValidationOf(q) = Schema!ValidationOf(d)
               /\ Schema!ClosureOf(q) = Schema!ClosureOf(d)
               /\ Schema!CloserOf(q) = Schema!CloserOf(d)
  PROVE  SameButRevision(Schema!Upgraded(Schema!Patched(d, p)), Schema!Patched(Schema!Upgraded(d), p))
<1> DEFINE u == Schema!Upgraded(d)
           q == Schema!Patched(d, p)
           uq == Schema!Upgraded(q)
           qu == Schema!Patched(u, p)
<1>1. IsDoc(d) /\ d = [f \in Fields |-> d[f]]
  BY DEF DocOK, IsDoc
<1>2. DocOK(q) /\ IsDoc(q)
  BY PatchKeeps DEF DocOK
<1>3. IsPatched(q, d, p)
  BY <1>1, PatchedFields
<1>4. u = [f \in Fields |-> u[f]] /\ IsUpgrade(u, d)
  BY <1>1, UpgradedIs
<1>5. IsUpgrade(uq, q)
  BY <1>2, UpgradedIs
<1>6. IsPatched(qu, u, p)
  BY <1>4, PatchedFields
<1> HIDE DEF u, q, uq, qu
<1>7. uq["version"] = qu["version"] /\ uq["execution"] = qu["execution"] /\ uq["assurance"] = qu["assurance"]
  BY <1>3, <1>4, <1>5, <1>6 DEF IsUpgrade, IsPatched
<1>8. uq["plan"] = qu["plan"] /\ uq["proof"] = qu["proof"]
  BY <1>3, <1>4, <1>5, <1>6 DEF IsUpgrade, IsPatched, IsPatch, Schema!Missing
<1>9. \/ {"validation", "closure", "closer"} \subseteq DOMAIN p
      \/ ~Derived(d)
      \/ /\ Schema!ValidationOf(q) = Schema!ValidationOf(d)
         /\ Schema!ClosureOf(q) = Schema!ClosureOf(d)
         /\ Schema!CloserOf(q) = Schema!CloserOf(d)
  BY DEF q
<1>10. uq["validation"] = qu["validation"]
  BY <1>3, <1>4, <1>5, <1>6, <1>9 DEF IsUpgrade, IsPatched, IsPatch, Derived, Schema!Missing
<1>11. d["closure"] = Schema!Missing <=> Derived(d)
  BY DEF DocOK
<1>12. d["closer"] = Schema!Missing <=> Derived(d)
  BY DEF DocOK
<1>13. uq["closure"] = qu["closure"]
  BY <1>3, <1>4, <1>5, <1>6, <1>9, <1>11 DEF IsUpgrade, IsPatched, IsPatch, Schema!Missing
<1>14. uq["closer"] = qu["closer"]
  BY <1>3, <1>4, <1>5, <1>6, <1>9, <1>12 DEF IsUpgrade, IsPatched, IsPatch, Schema!Missing
<1>15. SameButRevision(uq, qu)
  BY <1>7, <1>8, <1>10, <1>13, <1>14 DEF SameButRevision, Fields
<1> QED
  BY <1>15 DEF u, q, uq, qu

-----------------------------------------------------------------------------
(* What a reader gets, and what it would have got. *)

\* Of such a Slice nothing can be changed but that it is accepted.
Sealed(u) ==
    /\ u["execution"] = "DONE_CLAIMED" /\ u["plan"] # "bound" /\ u["assurance"] # "UNVERIFIED"
    /\ u["validation"] = "VALIDATED" /\ u["closure"] = "CLOSED"

Late(u, e) ==
    /\ Sealed(u) /\ u["assurance"] = "ACCEPTED"
    /\ u["closer"] = "accepter" /\ e["closer"] = "verifier"
    /\ \A f \in Fields \ {"rev", "closer"} : u[f] = e[f]

Unjudged(u, e) ==
    /\ Sealed(u)
    /\ e["validation"] = "PENDING" /\ e["closure"] = "OPEN"
    /\ \A f \in Fields \ {"rev", "validation", "closure", "closer"} : u[f] = e[f]

Related(u, e, b) == SameButRevision(u, e) \/ Late(u, e) \/ (b /\ Unjudged(u, e))

\* Where the judgement and the closure are written nothing comes apart any more.
Settled(d, e) == ~Derived(d) /\ SameButRevision(Schema!Upgraded(d), e)

\* A judgement that a call has found was derived from the assurance, or was written.
LookOK(look, d) == look.work /\ look.validation = "VALIDATED" => d["assurance"] # "UNVERIFIED" \/ ~Derived(d)

\* A patch of an operation, or of the rest of a verification, commutes with the upgrade in
\* all cases but two.
LEMMA OperationShape ==
  ASSUME NEW d, DocOK(d), NEW look, LookOK(look, d), NEW p,
         \/ p \in Schema!Patches(Schema!Upgraded(d), look)
         \/ p \in {Schema!Close, Schema!Reopen} /\ ~Derived(d)
  PROVE  /\ IsPatch(p) /\ Fits(p, d)
         /\ \/ SameButRevision(Schema!Upgraded(Schema!Patched(d, p)), Schema!Patched(Schema!Upgraded(d), p))
            \/ /\ p = Schema!Verify /\ Derived(d) /\ ~look.work
               /\ d["execution"] = "DONE_CLAIMED" /\ d["assurance"] = "UNVERIFIED"
            \/ p = Schema!Accept /\ Derived(d) /\ d["assurance"] = "VERIFIED"
<1> DEFINE u == Schema!Upgraded(d)
           q == Schema!Patched(d, p)
<1>1. IsDoc(d) /\ d = [f \in Fields |-> d[f]]
  BY DEF DocOK, IsDoc
<1>2. IsUpgrade(u, d)
  BY <1>1, UpgradedIs
<1>3. \/ p = Schema!Start
      \/ p = Schema!Claim
      \/ p = Schema!Progress /\ u["plan"] = "bound"
      \/ (p = Schema!Judge("VALIDATED") \/ p = Schema!Judge("REWORK_REQUIRED")) /\ u["execution"] = "DONE_CLAIMED"
      \/ /\ p = Schema!Verify /\ u["execution"] = "DONE_CLAIMED" /\ u["assurance"] = "UNVERIFIED"
         /\ look.work => look.validation = "VALIDATED"
      \/ p = Schema!Close /\ ~Derived(d)
      \/ p = Schema!Reopen /\ ~Derived(d)
      \/ p = Schema!Accept /\ u["assurance"] = "VERIFIED"
  <2>1. CASE p \in Schema!Patches(u, look)
    <3>1. p = Schema!Close /\ u["assurance"] # "UNVERIFIED" /\ u["closure"] = "OPEN" => ~Derived(d)
      BY <1>2 DEF IsUpgrade, DocOK, Derived, Schema!ClosureOf, Schema!AlreadyAssured, IsDoc
    <3> QED
      BY <2>1, <3>1, Zenon DEF Schema!Patches
  <2>2. CASE p \in {Schema!Close, Schema!Reopen} /\ ~Derived(d)
    BY <2>2
  <2> QED
    BY <2>1, <2>2
<1>4. IsPatch(p) => IsPatched(q, d, p)
  BY <1>1, PatchedFields
<1>5. IsPatch(p) /\ Fits(p, d) /\ ({"validation", "closure", "closer"} \subseteq DOMAIN p \/ ~Derived(d))
        => SameButRevision(Schema!Upgraded(q), Schema!Patched(u, p))
  BY PatchCommutes
<1> HIDE DEF u, q
<1>6. CASE p = Schema!Start
  <2>1. DOMAIN p = {"execution", "plan", "validation", "closure", "closer"} /\ p["execution"] = "ACTIVE" /\ p["plan"] = "bound"
        /\ p["validation"] = "NOT_STARTED" /\ p["closure"] = "OPEN" /\ p["closer"] = "none"
    BY <1>6 DEF Schema!Start
  <2>2. IsPatch(p)
    BY <2>1 DEF IsPatch, Fields, Executions
  <2>3. Fits(p, d)
    BY <1>4, <2>1, <2>2 DEF Fits, IsPatched, Derived, Schema!Missing, q
  <2> QED
    BY <1>5, <2>1, <2>2, <2>3 DEF u, q
<1>7. CASE p = Schema!Claim
  <2>1. DOMAIN p = {"execution", "plan", "validation", "closure", "closer"} /\ p["execution"] = "DONE_CLAIMED" /\ p["plan"] = "none"
        /\ p["validation"] = "PENDING" /\ p["closure"] = "OPEN" /\ p["closer"] = "none"
    BY <1>7 DEF Schema!Claim
  <2>2. IsPatch(p)
    BY <2>1 DEF IsPatch, Fields, Executions
  <2>3. Fits(p, d)
    BY <1>4, <2>1, <2>2 DEF Fits, IsPatched, Derived, Schema!Missing, q
  <2> QED
    BY <1>5, <2>1, <2>2, <2>3 DEF u, q
<1>8. CASE p = Schema!Progress /\ u["plan"] = "bound"
  <2>1. DOMAIN p = {"execution"} /\ p["execution"] = "BLOCKED"
    BY <1>8 DEF Schema!Progress
  <2>2. IsPatch(p)
    BY <2>1 DEF IsPatch, Fields, Executions
  <2>3. /\ q["execution"] = "BLOCKED" /\ q["assurance"] = d["assurance"] /\ d["plan"] = "bound"
        /\ Derived(q) <=> Derived(d)
    BY <1>2, <1>4, <1>8, <2>1, <2>2 DEF IsPatched, IsUpgrade, Derived
  <2>4. d["execution"] # "DONE_CLAIMED" /\ (Derived(d) => d["assurance"] = "UNVERIFIED")
    BY <2>3 DEF DocOK
  <2>5. Fits(p, d)
    BY <2>1, <2>3, <2>4 DEF Fits, q
  <2>6. CASE ~Derived(d)
    BY <1>5, <2>2, <2>5, <2>6 DEF u, q
  <2>7. CASE Derived(d)
    <3>1. /\ Schema!ValidationOf(q) = Schema!ValidationOf(d) /\ Schema!ClosureOf(q) = Schema!ClosureOf(d)
          /\ Schema!CloserOf(q) = Schema!CloserOf(d)
      BY <2>3, <2>4, <2>7 DEF Schema!ValidationOf, Schema!ClosureOf, Schema!CloserOf, Schema!AlreadyAssured
    <3> QED
      BY <2>2, <2>5, <3>1, PatchCommutes DEF q
  <2> QED
    BY <2>6, <2>7
<1>9. CASE (p = Schema!Judge("VALIDATED") \/ p = Schema!Judge("REWORK_REQUIRED")) /\ u["execution"] = "DONE_CLAIMED"
  <2>1. DOMAIN p = {"validation", "closure", "closer"} /\ p["validation"] \in {"VALIDATED", "REWORK_REQUIRED"}
        /\ p["closure"] = "OPEN" /\ p["closer"] = "none"
    BY <1>9 DEF Schema!Judge
  <2>2. IsPatch(p)
    BY <2>1 DEF IsPatch, Fields, Executions
  <2>3. Fits(p, d)
    BY <1>2, <1>4, <1>9, <2>1, <2>2 DEF Fits, IsPatched, IsUpgrade, DocOK, Derived, Schema!Missing, q
  <2> QED
    BY <1>5, <2>1, <2>2, <2>3 DEF u, q
<1>10. CASE /\ p = Schema!Verify /\ u["execution"] = "DONE_CLAIMED" /\ u["assurance"] = "UNVERIFIED"
            /\ look.work => look.validation = "VALIDATED"
  <2>1. DOMAIN p = {"assurance", "proof"} /\ p["assurance"] = "VERIFIED" /\ p["proof"] = "given"
    BY <1>10 DEF Schema!Verify
  <2>2. IsPatch(p)
    BY <2>1 DEF IsPatch, Fields, Executions
  <2>3. d["execution"] = "DONE_CLAIMED" /\ d["assurance"] = "UNVERIFIED"
    BY <1>2, <1>10 DEF IsUpgrade
  <2>4. Fits(p, d)
    BY <1>4, <2>1, <2>2, <2>3 DEF Fits, IsPatched, DocOK, q
  <2>5. Derived(d) => ~look.work
    BY <1>10, <2>3 DEF LookOK
  <2> QED
    BY <1>5, <1>10, <2>2, <2>3, <2>4, <2>5 DEF u, q
<1>11. CASE p = Schema!Close /\ ~Derived(d)
  <2>1. DOMAIN p = {"closure", "closer"} /\ p["closure"] = "CLOSED" /\ p["closer"] = "closer"
    BY <1>11 DEF Schema!Close
  <2>2. IsPatch(p)
    BY <2>1 DEF IsPatch, Fields, Executions
  <2>3. Fits(p, d)
    BY <1>4, <1>11, <2>1, <2>2 DEF Fits, IsPatched, DocOK, Derived, q
  <2> QED
    BY <1>5, <1>11, <2>2, <2>3 DEF u, q
<1>12. CASE p = Schema!Reopen /\ ~Derived(d)
  <2>1. DOMAIN p = {"closure", "closer"} /\ p["closure"] = "OPEN" /\ p["closer"] = "none"
    BY <1>12 DEF Schema!Reopen
  <2>2. IsPatch(p)
    BY <2>1 DEF IsPatch, Fields, Executions
  <2>3. Fits(p, d)
    BY <1>4, <1>12, <2>1, <2>2 DEF Fits, IsPatched, DocOK, Derived, q
  <2> QED
    BY <1>5, <1>12, <2>2, <2>3 DEF u, q
<1>13. CASE p = Schema!Accept /\ u["assurance"] = "VERIFIED"
  <2>1. DOMAIN p = {"assurance"} /\ p["assurance"] = "ACCEPTED"
    BY <1>13 DEF Schema!Accept
  <2>2. IsPatch(p)
    BY <2>1 DEF IsPatch, Fields, Executions
  <2>3. d["assurance"] = "VERIFIED"
    BY <1>2, <1>13 DEF IsUpgrade
  <2>4. Fits(p, d)
    BY <1>4, <2>1, <2>2, <2>3 DEF Fits, IsPatched, DocOK, Derived, q
  <2> QED
    BY <1>5, <1>13, <2>2, <2>3, <2>4 DEF u, q
<1> QED
  BY <1>3, <1>6, <1>7, <1>8, <1>9, <1>10, <1>11, <1>12, <1>13

\* What is the same but for the revision is so after a patch.
LEMMA PatchSame ==
  ASSUME NEW u, u = [f \in Fields |-> u[f]], NEW e, e = [f \in Fields |-> e[f]], NEW p, SameButRevision(u, e)
  PROVE  SameButRevision(Schema!Patched(u, p), Schema!Patched(e, p))
<1>1. \A f \in Fields \ {"rev"} : Schema!Patched(u, p)[f] = IF f \in DOMAIN p THEN p[f] ELSE u[f]
  BY PatchedIs
<1>2. \A f \in Fields \ {"rev"} : Schema!Patched(e, p)[f] = IF f \in DOMAIN p THEN p[f] ELSE e[f]
  BY PatchedIs
<1> QED
  BY <1>1, <1>2, Zenon DEF SameButRevision

\* Nothing but an acceptance is written to a sealed Slice.
LEMMA SealedStays ==
  ASSUME NEW u, Sealed(u), NEW look, NEW p \in Schema!Patches(u, look)
  PROVE  p = Schema!Accept /\ u["assurance"] = "VERIFIED"
BY DEF Schema!Patches, Sealed

LEMMA OperationRelates ==
  ASSUME NEW d, DocOK(d), NEW look, LookOK(look, d), NEW p, NEW e, e = [f \in Fields |-> e[f]], NEW b,
         Related(Schema!Upgraded(d), e, b),
         \/ p \in Schema!Patches(Schema!Upgraded(d), look)
         \/ p \in {Schema!Close, Schema!Reopen} /\ Settled(d, e)
  PROVE  /\ DocOK(Schema!Patched(d, p))
         /\ Related(Schema!Upgraded(Schema!Patched(d, p)), Schema!Patched(e, p), b \/ (p = Schema!Verify /\ ~look.work))
         /\ Settled(d, e) \/ (p = Schema!Verify /\ look.work) => Settled(Schema!Patched(d, p), Schema!Patched(e, p))
         /\ d["assurance"] # "UNVERIFIED" => Schema!Patched(d, p)["assurance"] # "UNVERIFIED"
         /\ ~Derived(d) => ~Derived(Schema!Patched(d, p))
<1> DEFINE u == Schema!Upgraded(d)
           q == Schema!Patched(d, p)
           uq == Schema!Upgraded(q)
           qu == Schema!Patched(u, p)
           qe == Schema!Patched(e, p)
<1>1. /\ IsPatch(p) /\ Fits(p, d)
      /\ \/ SameButRevision(uq, qu)
         \/ /\ p = Schema!Verify /\ Derived(d) /\ ~look.work
            /\ d["execution"] = "DONE_CLAIMED" /\ d["assurance"] = "UNVERIFIED"
         \/ p = Schema!Accept /\ Derived(d) /\ d["assurance"] = "VERIFIED"
  <2>1. \/ p \in Schema!Patches(Schema!Upgraded(d), look)
        \/ p \in {Schema!Close, Schema!Reopen} /\ ~Derived(d)
    BY DEF Settled
  <2> QED
    BY <2>1, OperationShape
<1>2. IsDoc(d) /\ d = [f \in Fields |-> d[f]]
  BY DEF DocOK, IsDoc
<1>3. u = [f \in Fields |-> u[f]] /\ IsUpgrade(u, d)
  BY <1>2, UpgradedIs
<1>4. DocOK(q) /\ IsDoc(q)
  BY <1>1, PatchKeeps DEF DocOK
<1>5. IsPatched(q, d, p)
  BY <1>1, <1>2, PatchedFields
<1>6. IsUpgrade(uq, q)
  BY <1>4, UpgradedIs
<1>7. IsPatched(qe, e, p)
  BY <1>1, PatchedFields
<1>8. SameButRevision(u, e) => SameButRevision(qu, qe)
  BY <1>3, PatchSame
<1>9. p \in Schema!Patches(u, look) \/ (SameButRevision(u, e) /\ ~Derived(d))
  BY DEF Settled
<1>10. Sealed(u) /\ p \in Schema!Patches(u, look) => p = Schema!Accept /\ u["assurance"] = "VERIFIED"
  BY SealedStays
<1>11. d["execution"] = "DONE_CLAIMED" => d["plan"] # "bound"
  BY DEF DocOK
<1>12. /\ d["closure"] = Schema!Missing <=> Derived(d)
       /\ d["closer"] = Schema!Missing <=> Derived(d)
       /\ Derived(d) => d["version"] < 6
       /\ Derived(d) /\ d["assurance"] # "UNVERIFIED" => d["execution"] = "DONE_CLAIMED"
  BY DEF DocOK
<1>13. Related(u, e, b)
  OBVIOUS
<1>14. Settled(d, e) <=> ~Derived(d) /\ SameButRevision(u, e)
  BY DEF Settled
<1>15. Settled(q, qe) <=> ~Derived(q) /\ SameButRevision(uq, qe)
  BY DEF Settled
<1> HIDE DEF u, q, uq, qu, qe
<1>16. d["assurance"] # "UNVERIFIED" => q["assurance"] # "UNVERIFIED"
  BY <1>1, <1>5 DEF IsPatch, IsPatched
<1>17. ~Derived(d) => ~Derived(q)
  BY <1>1, <1>5 DEF IsPatch, IsPatched, Derived, Schema!Missing
<1>18. SameButRevision(uq, qu) /\ SameButRevision(u, e) => SameButRevision(uq, qe)
  BY <1>8, Zenon DEF SameButRevision
\* The verification from which the judgement and the closure are derived.
<1>19. ASSUME p = Schema!Verify, Derived(d), d["execution"] = "DONE_CLAIMED", d["assurance"] = "UNVERIFIED",
              SameButRevision(u, e)
       PROVE  Unjudged(uq, qe)
  <2>1. DOMAIN p = {"assurance", "proof"} /\ p["assurance"] = "VERIFIED" /\ p["proof"] = "given"
    BY <1>19 DEF Schema!Verify
  <2>2. /\ q["execution"] = "DONE_CLAIMED" /\ q["assurance"] = "VERIFIED" /\ q["plan"] = d["plan"] /\ q["proof"] = "given"
        /\ q["version"] = d["version"] /\ q["validation"] = Schema!Missing /\ q["closure"] = Schema!Missing
    BY <1>5, <1>12, <1>19, <2>1 DEF IsPatched, Derived
  <2>3. Schema!ValidationOf(q) = "VALIDATED" /\ Schema!ClosureOf(q) = "CLOSED"
    BY <2>2 DEF Schema!ValidationOf, Schema!ClosureOf, Schema!AlreadyAssured
  <2>4. Schema!ValidationOf(d) = "PENDING" /\ Schema!ClosureOf(d) = "OPEN"
    BY <1>19 DEF Schema!ValidationOf, Schema!ClosureOf, Schema!AlreadyAssured
  <2>5. d["version"] < 6 /\ d["validation"] = Schema!Missing /\ d["closure"] = Schema!Missing
    BY <1>12, <1>19 DEF Derived
  <2>6. u["validation"] = "PENDING" /\ u["closure"] = "OPEN"
    BY <1>3, <2>4, <2>5 DEF IsUpgrade
  <2>7. Sealed(uq)
    BY <1>6, <1>11, <1>19, <2>2, <2>3, <2>5 DEF IsUpgrade, Sealed
  <2>8. /\ e["version"] = u["version"] /\ e["execution"] = u["execution"] /\ e["plan"] = u["plan"]
        /\ e["validation"] = "PENDING" /\ e["closure"] = "OPEN"
    BY <1>19, <2>6 DEF SameButRevision, Fields
  <2>9. /\ qe["version"] = uq["version"] /\ qe["execution"] = uq["execution"] /\ qe["assurance"] = uq["assurance"]
        /\ qe["plan"] = uq["plan"] /\ qe["proof"] = uq["proof"]
        /\ qe["validation"] = "PENDING" /\ qe["closure"] = "OPEN"
    BY <1>3, <1>6, <1>7, <1>19, <2>1, <2>2, <2>8 DEF IsUpgrade, IsPatched, Schema!Missing
  <2> QED
    BY <2>7, <2>9 DEF Unjudged, Fields
\* The acceptance from which the closer is derived.
<1>20. ASSUME p = Schema!Accept, Derived(d), d["assurance"] = "VERIFIED", SameButRevision(u, e)
       PROVE  Late(uq, qe)
  <2>1. DOMAIN p = {"assurance"} /\ p["assurance"] = "ACCEPTED"
    BY <1>20 DEF Schema!Accept
  <2>2. /\ q["execution"] = "DONE_CLAIMED" /\ q["assurance"] = "ACCEPTED" /\ q["plan"] = d["plan"] /\ q["proof"] = d["proof"]
        /\ q["version"] = d["version"] /\ q["validation"] = Schema!Missing /\ q["closure"] = Schema!Missing
        /\ q["closer"] = Schema!Missing
    BY <1>5, <1>12, <1>20, <2>1 DEF IsPatched, Derived
  <2>3. Schema!ValidationOf(q) = "VALIDATED" /\ Schema!ClosureOf(q) = "CLOSED" /\ Schema!CloserOf(q) = "accepter"
    BY <2>2 DEF Schema!ValidationOf, Schema!ClosureOf, Schema!CloserOf, Schema!AlreadyAssured
  <2>4. Schema!ValidationOf(d) = "VALIDATED" /\ Schema!ClosureOf(d) = "CLOSED" /\ Schema!CloserOf(d) = "verifier"
    BY <1>20 DEF Schema!ValidationOf, Schema!ClosureOf, Schema!CloserOf, Schema!AlreadyAssured
  <2>5. /\ d["version"] < 6 /\ d["validation"] = Schema!Missing /\ d["closure"] = Schema!Missing
        /\ d["closer"] = Schema!Missing /\ d["execution"] = "DONE_CLAIMED"
    BY <1>12, <1>20 DEF Derived
  <2>6. u["validation"] = "VALIDATED" /\ u["closure"] = "CLOSED" /\ u["closer"] = "verifier"
    BY <1>3, <2>4, <2>5 DEF IsUpgrade
  <2>7. Sealed(uq) /\ uq["assurance"] = "ACCEPTED" /\ uq["closer"] = "accepter"
    BY <1>6, <1>11, <2>2, <2>3, <2>5 DEF IsUpgrade, Sealed
  <2>8. /\ e["version"] = u["version"] /\ e["execution"] = u["execution"] /\ e["plan"] = u["plan"] /\ e["proof"] = u["proof"]
        /\ e["validation"] = "VALIDATED" /\ e["closure"] = "CLOSED" /\ e["closer"] = "verifier"
    BY <1>20, <2>6 DEF SameButRevision, Fields
  <2>9. /\ qe["version"] = uq["version"] /\ qe["execution"] = uq["execution"] /\ qe["assurance"] = uq["assurance"]
        /\ qe["plan"] = uq["plan"] /\ qe["proof"] = uq["proof"]
        /\ qe["validation"] = "VALIDATED" /\ qe["closure"] = "CLOSED" /\ qe["closer"] = "verifier"
    BY <1>3, <1>6, <1>7, <2>1, <2>2, <2>5, <2>8 DEF IsUpgrade, IsPatched, Schema!Missing
  <2> QED
    BY <2>7, <2>9 DEF Late, Sealed, Fields
\* What has come apart is accepted.
<1>21. ASSUME Unjudged(u, e), p = Schema!Accept, u["assurance"] = "VERIFIED"
       PROVE  Unjudged(uq, qe)
  <2>1. DOMAIN p = {"assurance"} /\ p["assurance"] = "ACCEPTED"
    BY <1>21 DEF Schema!Accept
  <2>2. /\ q["execution"] = d["execution"] /\ q["assurance"] = "ACCEPTED" /\ q["plan"] = d["plan"] /\ q["proof"] = d["proof"]
        /\ q["version"] = d["version"] /\ q["validation"] = d["validation"] /\ q["closure"] = d["closure"]
    BY <1>5, <2>1 DEF IsPatched
  <2>3. Schema!ValidationOf(q) = "VALIDATED" /\ Schema!ClosureOf(q) = "CLOSED"
    BY <2>2 DEF Schema!ValidationOf, Schema!ClosureOf, Schema!AlreadyAssured
  <2>4. /\ uq["version"] = u["version"] /\ uq["execution"] = u["execution"] /\ uq["assurance"] = "ACCEPTED"
        /\ uq["plan"] = u["plan"] /\ uq["proof"] = u["proof"]
    BY <1>3, <1>6, <2>2 DEF IsUpgrade
  <2>5. u["validation"] = "VALIDATED" /\ u["closure"] = "CLOSED"
    BY <1>21 DEF Unjudged, Sealed
  <2>6. uq["validation"] = "VALIDATED" /\ uq["closure"] = "CLOSED"
    BY <1>3, <1>6, <2>2, <2>3, <2>5 DEF IsUpgrade
  <2>7. Sealed(uq)
    BY <1>21, <2>4, <2>6 DEF Unjudged, Sealed
  <2>8. /\ e["version"] = u["version"] /\ e["execution"] = u["execution"] /\ e["plan"] = u["plan"] /\ e["proof"] = u["proof"]
        /\ e["validation"] = "PENDING" /\ e["closure"] = "OPEN"
    BY <1>21 DEF Unjudged, Fields
  <2>9. /\ qe["version"] = uq["version"] /\ qe["execution"] = uq["execution"] /\ qe["assurance"] = uq["assurance"]
        /\ qe["plan"] = uq["plan"] /\ qe["proof"] = uq["proof"]
        /\ qe["validation"] = "PENDING" /\ qe["closure"] = "OPEN"
    BY <1>7, <2>1, <2>4, <2>8 DEF IsPatched
  <2> QED
    BY <2>7, <2>9 DEF Unjudged, Fields
<1>22. Late(u, e) => ~SameButRevision(u, e) /\ Sealed(u) /\ u["assurance"] = "ACCEPTED"
  BY DEF Late, SameButRevision, Fields
<1>23. Unjudged(u, e) => ~SameButRevision(u, e) /\ Sealed(u)
  BY DEF Unjudged, Sealed, SameButRevision, Fields
<1>24. Related(uq, qe, b \/ (p = Schema!Verify /\ ~look.work))
  <2>1. CASE SameButRevision(u, e)
    BY <1>1, <1>18, <1>19, <1>20, <2>1 DEF Related
  <2>2. CASE Late(u, e)
    BY <1>9, <1>10, <1>22, <2>2
  <2>3. CASE b /\ Unjudged(u, e)
    BY <1>9, <1>10, <1>21, <1>23, <2>3 DEF Related
  <2> QED
    BY <1>13, <2>1, <2>2, <2>3 DEF Related
<1>25. ASSUME ~Derived(d), SameButRevision(u, e)
       PROVE  ~Derived(q) /\ SameButRevision(uq, qe)
  BY <1>1, <1>17, <1>18, <1>25
<1>26. p = Schema!Verify /\ look.work => ~Derived(d) /\ SameButRevision(u, e)
  <2> SUFFICES ASSUME p = Schema!Verify, look.work PROVE ~Derived(d) /\ SameButRevision(u, e)
    OBVIOUS
  <2>1. p \notin {Schema!Close, Schema!Reopen, Schema!Accept}
    <3>1. DOMAIN Schema!Verify = {"assurance", "proof"} /\ DOMAIN Schema!Close = {"closure", "closer"}
          /\ DOMAIN Schema!Reopen = {"closure", "closer"} /\ DOMAIN Schema!Accept = {"assurance"}
      BY DEF Schema!Verify, Schema!Close, Schema!Reopen, Schema!Accept
    <3> QED
      BY <3>1
  <2>2. p \in Schema!Patches(u, look)
    BY <2>1 DEF u
  <2>3. u["assurance"] = "UNVERIFIED" /\ look.validation = "VALIDATED"
    <3>1. /\ Schema!Verify # Schema!Start /\ Schema!Verify # Schema!Claim /\ Schema!Verify # Schema!Progress
          /\ \A v : Schema!Verify # Schema!Judge(v)
      <4>1. DOMAIN Schema!Verify = {"assurance", "proof"} /\ "execution" \in DOMAIN Schema!Start
            /\ "execution" \in DOMAIN Schema!Claim /\ "execution" \in DOMAIN Schema!Progress
            /\ \A v : "closure" \in DOMAIN Schema!Judge(v)
        BY DEF Schema!Verify, Schema!Start, Schema!Claim, Schema!Progress, Schema!Judge
      <4> QED
        BY <4>1
    <3> QED
      BY <2>1, <2>2, <3>1, Zenon DEF Schema!Patches
  <2>4. ~Derived(d)
    BY <1>3, <2>3 DEF LookOK, IsUpgrade
  <2>5. SameButRevision(u, e)
    BY <1>13, <1>22, <1>23, <2>3 DEF Related, Sealed
  <2> QED
    BY <2>4, <2>5
<1>27. Settled(d, e) \/ (p = Schema!Verify /\ look.work) => Settled(q, qe)
  BY <1>14, <1>15, <1>25, <1>26
<1> QED
  BY <1>4, <1>16, <1>17, <1>24, <1>27 DEF q, uq, qe

\* A document that is upgraded is not changed by an upgrade.
LEMMA UpgradeTwice ==
  ASSUME NEW d, DocOK(d), d["version"] = 6
  PROVE  SameButRevision(Schema!Upgraded(d), d) /\ Schema!Upgraded(d)["rev"] = d["rev"]
<1> DEFINE u == Schema!Upgraded(d)
<1>1. IsUpgrade(u, d)
  BY UpgradedIs DEF DocOK
<1> HIDE DEF u
<1>2. /\ u["plan"] = d["plan"] /\ u["proof"] = d["proof"] /\ u["validation"] = d["validation"]
      /\ u["closure"] = d["closure"] /\ u["closer"] = d["closer"]
  BY <1>1 DEF IsUpgrade
<1> QED
  BY <1>1, <1>2 DEF SameButRevision, IsUpgrade, Fields, u

LEMMA SameDocOK ==
  ASSUME NEW d, DocOK(d), NEW e, e = [f \in Fields |-> e[f]], e["rev"] \in Nat, SameButRevision(d, e)
  PROVE  DocOK(e)
<1>1. /\ e["version"] = d["version"] /\ e["execution"] = d["execution"] /\ e["assurance"] = d["assurance"]
      /\ e["plan"] = d["plan"] /\ e["proof"] = d["proof"] /\ e["validation"] = d["validation"]
      /\ e["closure"] = d["closure"] /\ e["closer"] = d["closer"]
  BY DEF SameButRevision, Fields
<1>2. IsDoc(e)
  BY <1>1 DEF DocOK, IsDoc
<1> QED
  BY <1>1, <1>2 DEF DocOK, Derived

\* What is related stays so if what a reader gets is the same.
LEMMA RelatedSame ==
  ASSUME NEW u, NEW v, NEW e, NEW b, SameButRevision(u, v), Related(u, e, b)
  PROVE  Related(v, e, b) /\ (SameButRevision(u, e) => SameButRevision(v, e))
<1>1. \A f \in Fields \ {"rev"} : v[f] = u[f]
  BY DEF SameButRevision
<1>2. Sealed(u) => Sealed(v)
  BY <1>1 DEF Sealed, Fields
<1>3. SameButRevision(u, e) => SameButRevision(v, e)
  BY <1>1, Zenon DEF SameButRevision
<1>4. v["assurance"] = u["assurance"] /\ v["closer"] = u["closer"]
  BY <1>1 DEF Fields
<1>5. Late(u, e) => Late(v, e)
  BY <1>1, <1>2, <1>4 DEF Late
<1>6. Unjudged(u, e) => Unjudged(v, e)
  BY <1>1, <1>2 DEF Unjudged
<1> QED
  BY <1>3, <1>5, <1>6 DEF Related

\* What an operation, and a migration, has read is what is stored, as long as the revision
\* is the same.
ReadOK(w, d, e) ==
    /\ LookOK(w.look, d)
    /\ w.pc = "verified" => Settled(d, e)
    /\ w.pc = "write" =>
          /\ w.rev \in Nat /\ w.rev <= d["rev"]
          /\ w.rev = d["rev"] => \/ w.patch \in Schema!Patches(Schema!Upgraded(d), w.look)
                                 \/ w.patch \in {Schema!Close, Schema!Reopen} /\ Settled(d, e)

ScannedOK(g, d) ==
    /\ g.doc["rev"] \in Nat /\ g.doc["rev"] <= d["rev"]
    /\ g.doc["rev"] = d["rev"] => g.doc = Schema!Upgraded(d)

SchemaInv ==
    /\ DocOK(stored)
    /\ eager = [f \in Fields |-> eager[f]] /\ Related(Schema!Upgraded(stored), eager, bypassed)
    /\ writing = [s \in Writers |-> writing[s]] /\ migrating = [m \in Migrators |-> migrating[m]]
    /\ \A s \in Writers : writing[s] # Schema!Idle => ReadOK(writing[s], stored, eager)
    /\ \A m \in Migrators : migrating[m] # Schema!Idle => ScannedOK(migrating[m], stored)

LEMMA SchemaStarts ==
  ASSUME Schema!Init
  PROVE  SchemaInv
<1>1. PICK v \in 1..5, e \in {"PLANNED", "ACTIVE", "DONE_CLAIMED"}, a \in {"UNVERIFIED", "VERIFIED", "ACCEPTED"} :
        stored = Schema!Written(v, e, a) /\ (a # "UNVERIFIED" => e = "DONE_CLAIMED")
  BY DEF Schema!Init, Schema!Latest
<1>2. DocOK(stored)
  <2>1. /\ stored["version"] = v /\ stored["execution"] = e /\ stored["assurance"] = a /\ stored["rev"] = 0
        /\ stored["plan"] = (IF v < 2 THEN Schema!Missing ELSE IF e = "ACTIVE" THEN "bound" ELSE "none")
        /\ stored["proof"] = (IF v < 4 THEN Schema!Missing ELSE IF a = "UNVERIFIED" THEN "none" ELSE "given")
        /\ stored["validation"] = Schema!Missing /\ stored["closure"] = Schema!Missing /\ stored["closer"] = Schema!Missing
    BY <1>1 DEF Schema!Written
  <2>2. stored = [f \in Fields |-> stored[f]]
    BY <1>1 DEF Schema!Written, Fields
  <2>3. IsDoc(stored)
    BY <2>1, <2>2 DEF IsDoc, Executions
  <2> QED
    BY <1>1, <2>1, <2>3 DEF DocOK, Derived, Schema!Missing
<1>3. eager = Schema!Upgraded(stored) /\ eager = [f \in Fields |-> eager[f]]
  <2>1. IsDoc(stored)
    BY <1>2 DEF DocOK
  <2>2. eager = Schema!Upgraded(stored)
    BY DEF Schema!Init
  <2> QED
    BY <2>1, <2>2, UpgradedIs
<1> QED
  BY <1>2, <1>3 DEF SchemaInv, Schema!Init, Related, SameButRevision

\* A session or a migration that goes on, or ends, while the document stays as it is.
LEMMA ReaderKeeps ==
  ASSUME SchemaInv, UNCHANGED <<stored, eager, bypassed>>,
         writing' = [s \in Writers |-> writing'[s]], migrating' = [m \in Migrators |-> migrating'[m]],
         \A s \in Writers : writing'[s] = writing[s] \/ writing'[s] = Schema!Idle \/ ReadOK(writing'[s], stored, eager),
         \A m \in Migrators : migrating'[m] = migrating[m] \/ migrating'[m] = Schema!Idle \/ ScannedOK(migrating'[m], stored)
  PROVE  SchemaInv'
<1>1. ASSUME NEW s \in Writers, writing'[s] # Schema!Idle
      PROVE  ReadOK(writing'[s], stored', eager')
  <2>1. ReadOK(writing'[s], stored, eager)
    BY <1>1 DEF SchemaInv
  <2> QED
    BY <2>1 DEF ReadOK
<1>2. ASSUME NEW m \in Migrators, migrating'[m] # Schema!Idle
      PROVE  ScannedOK(migrating'[m], stored')
  <2>1. ScannedOK(migrating'[m], stored)
    BY <1>2 DEF SchemaInv
  <2> QED
    BY <2>1 DEF ScannedOK
<1> QED
  BY <1>1, <1>2 DEF SchemaInv

\* After a write of the Slice nobody has read it as it is, and what was settled is so.
LEMMA WriteKeeps ==
  ASSUME SchemaInv, DocOK(stored'), stored'["rev"] = stored["rev"] + 1,
         eager' = [f \in Fields |-> eager'[f]], Related(Schema!Upgraded(stored'), eager', bypassed'),
         Settled(stored, eager) => Settled(stored', eager'),
         stored["assurance"] # "UNVERIFIED" => stored'["assurance"] # "UNVERIFIED",
         ~Derived(stored) => ~Derived(stored'),
         writing' = [s \in Writers |-> writing'[s]], migrating' = [m \in Migrators |-> migrating'[m]],
         \A s \in Writers : \/ writing'[s] = writing[s] \/ writing'[s] = Schema!Idle
                            \/ /\ writing'[s].pc = "verified" /\ Settled(stored', eager')
                               /\ LookOK(writing'[s].look, stored),
         \A m \in Migrators : migrating'[m] = migrating[m] \/ migrating'[m] = Schema!Idle
  PROVE  SchemaInv'
<1>1. stored["rev"] \in Nat
  BY DEF SchemaInv, DocOK, IsDoc
<1>2. ASSUME NEW s \in Writers, writing'[s] # Schema!Idle
      PROVE  ReadOK(writing'[s], stored', eager')
  <2>1. CASE writing'[s] = writing[s]
    <3>1. PICK w : w = writing[s]
      OBVIOUS
    <3>2. ReadOK(w, stored, eager) /\ writing'[s] = w
      BY <1>2, <2>1, <3>1 DEF SchemaInv
    <3>3. LookOK(w.look, stored')
      BY <3>2 DEF ReadOK, LookOK
    <3>4. w.pc = "verified" => Settled(stored', eager')
      BY <3>2 DEF ReadOK
    <3>5. w.pc = "write" => w.rev \in Nat /\ w.rev <= stored'["rev"] /\ w.rev # stored'["rev"]
      <4>1. w.pc = "write" => w.rev \in Nat /\ w.rev <= stored["rev"]
        BY <3>2 DEF ReadOK
      <4> QED
        BY <1>1, <4>1
    <3> QED
      BY <3>2, <3>3, <3>4, <3>5 DEF ReadOK
  <2>2. CASE writing'[s].pc = "verified" /\ Settled(stored', eager') /\ LookOK(writing'[s].look, stored)
    BY <2>2 DEF ReadOK, LookOK
  <2> QED
    BY <1>2, <2>1, <2>2
<1>3. ASSUME NEW m \in Migrators, migrating'[m] # Schema!Idle
      PROVE  ScannedOK(migrating'[m], stored')
  <2>1. migrating'[m] = migrating[m] /\ migrating[m].doc["rev"] \in Nat /\ migrating[m].doc["rev"] <= stored["rev"]
    BY <1>3 DEF SchemaInv, ScannedOK
  <2> QED
    BY <1>1, <2>1 DEF ScannedOK
<1> QED
  BY <1>2, <1>3 DEF SchemaInv

\* What the store makes of a patch: what it stores, or its upgrade.
LEMMA UpdateKeeps ==
  ASSUME SchemaInv, NEW p, DocOK(Schema!Patched(stored, p)), Schema!Update(p)
  PROVE  /\ DocOK(stored') /\ stored'["rev"] = stored["rev"] + 1
         /\ SameButRevision(Schema!Upgraded(Schema!Patched(stored, p)), Schema!Upgraded(stored'))
         /\ stored'["assurance"] = Schema!Patched(stored, p)["assurance"]
         /\ Derived(stored') => Derived(Schema!Patched(stored, p))
<1> DEFINE q == Schema!Patched(stored, p)
           u == Schema!Upgraded(q)
<1>1. q["rev"] = stored["rev"] + 1
  BY PatchedIs DEF SchemaInv, DocOK, IsDoc
<1>2. CASE stored' = q
  BY <1>1, <1>2 DEF SameButRevision
<1>3. CASE stored' = u
  <2>1. IsUpgrade(u, q)
    BY UpgradedIs DEF DocOK
  <2>2. u["version"] = 6 /\ u["rev"] = q["rev"] /\ u["assurance"] = q["assurance"]
    BY <2>1 DEF IsUpgrade
  <2>3. DocOK(u) /\ ~Derived(u)
    BY UpgradeKeeps
  <2>4. SameButRevision(u, Schema!Upgraded(u))
    <3>1. SameButRevision(Schema!Upgraded(u), u)
      BY <2>2, <2>3, UpgradeTwice
    <3> HIDE DEF u
    <3> QED
      BY <3>1, Zenon DEF SameButRevision
  <2> QED
    BY <1>1, <1>3, <2>2, <2>3, <2>4, Zenon
<1> QED
  BY <1>2, <1>3, Zenon DEF Schema!Update

\* A session's record is replaced.
LEMMA WritingSet ==
  ASSUME SchemaInv, NEW s \in Writers, NEW w, writing' = [writing EXCEPT ![s] = w]
  PROVE  /\ writing' = [x \in Writers |-> writing'[x]] /\ writing'[s] = w
         /\ \A x \in Writers \ {s} : writing'[x] = writing[x]
<1>1. writing = [x \in Writers |-> writing[x]]
  BY DEF SchemaInv
<1> QED
  BY <1>1, Zenon

LEMMA LookUpSchemaOK ==
  ASSUME SchemaInv, NEW s \in Writers, Schema!LookUp(s)
  PROVE  SchemaInv'
<1> DEFINE w == [pc |-> "read", look |-> Schema!Looked]
<1>1. UNCHANGED <<stored, migrating, eager, bypassed>> /\ writing' = [writing EXCEPT ![s] = w]
  BY DEF Schema!LookUp
<1>2. w.pc = "read" /\ w.look = Schema!Looked
  OBVIOUS
<1>3. LookOK(Schema!Looked, stored)
  <2>1. IsUpgrade(Schema!Upgraded(stored), stored)
    BY UpgradedIs DEF SchemaInv, DocOK
  <2>2. Schema!Looked.validation = Schema!Upgraded(stored)["validation"]
    BY DEF Schema!Looked
  <2>3. Schema!ValidationOf(stored) = "VALIDATED" => stored["assurance"] # "UNVERIFIED"
    BY DEF Schema!ValidationOf, Schema!AlreadyAssured
  <2> QED
    BY <2>1, <2>2, <2>3 DEF LookOK, IsUpgrade, Derived, Schema!Missing
<1> HIDE DEF w
<1>4. ReadOK(w, stored, eager)
  BY <1>2, <1>3 DEF ReadOK
<1>5. migrating' = [m \in Migrators |-> migrating'[m]]
  BY <1>1 DEF SchemaInv
<1> QED
  BY <1>1, <1>4, <1>5, WritingSet, ReaderKeeps

LEMMA ReadSchemaOK ==
  ASSUME SchemaInv, NEW s \in Writers, Schema!Read(s)
  PROVE  SchemaInv'
<1>1. UNCHANGED <<stored, migrating, eager, bypassed>> /\ ReadOK(writing[s], stored, eager)
  BY DEF Schema!Read, SchemaInv
<1>2. PICK look : look = writing[s].look
  OBVIOUS
<1>3. PICK p \in Schema!Patches(Schema!Upgraded(stored), look) :
        writing' = [writing EXCEPT ![s] = [pc |-> "write", look |-> look, patch |-> p, rev |-> stored.rev]]
  BY <1>2 DEF Schema!Read
<1> DEFINE w == [pc |-> "write", look |-> look, patch |-> p, rev |-> stored.rev]
<1>4. w.pc = "write" /\ w.look = look /\ w.patch = p /\ w.rev = stored["rev"] /\ stored["rev"] \in Nat
  BY DEF SchemaInv, DocOK, IsDoc
<1>5. writing' = [writing EXCEPT ![s] = w]
  BY <1>3
<1> HIDE DEF w
<1>6. ReadOK(w, stored, eager)
  BY <1>1, <1>2, <1>4 DEF ReadOK
<1>7. migrating' = [m \in Migrators |-> migrating'[m]]
  BY <1>1 DEF SchemaInv
<1> QED
  BY <1>1, <1>5, <1>6, <1>7, WritingSet, ReaderKeeps

LEMMA FinishSchemaOK ==
  ASSUME SchemaInv, NEW s \in Writers, Schema!Finish(s)
  PROVE  SchemaInv'
<1>1. UNCHANGED <<stored, migrating, eager, bypassed>> /\ ReadOK(writing[s], stored, eager) /\ writing[s].pc = "verified"
  BY DEF Schema!Finish, SchemaInv
<1>2. migrating' = [m \in Migrators |-> migrating'[m]]
  BY <1>1 DEF SchemaInv
<1>3. ASSUME NEW p \in {Schema!Close, Schema!Reopen},
             writing' = [writing EXCEPT ![s] =
                 [pc |-> "write", look |-> writing[s].look, patch |-> p, rev |-> stored.rev]]
      PROVE  SchemaInv'
  <2> DEFINE w == [pc |-> "write", look |-> writing[s].look, patch |-> p, rev |-> stored.rev]
  <2>1. w.pc = "write" /\ w.look = writing[s].look /\ w.patch = p /\ w.rev = stored["rev"] /\ stored["rev"] \in Nat
    BY DEF SchemaInv, DocOK, IsDoc
  <2>2. writing' = [writing EXCEPT ![s] = w]
    BY <1>3
  <2> HIDE DEF w
  <2>3. ReadOK(w, stored, eager)
    BY <1>1, <2>1 DEF ReadOK
  <2> QED
    BY <1>1, <1>2, <2>2, <2>3, WritingSet, ReaderKeeps
<1>4. ASSUME writing' = [writing EXCEPT ![s] = Schema!Idle]
      PROVE  SchemaInv'
  BY <1>1, <1>2, <1>4, WritingSet, ReaderKeeps
<1> QED
  BY <1>3, <1>4 DEF Schema!Finish

LEMMA WriteSchemaOK ==
  ASSUME SchemaInv, NEW s \in Writers, Schema!Write(s)
  PROVE  SchemaInv'
<1>1. PICK p : p = writing[s].patch
  OBVIOUS
<1>2. PICK look : look = writing[s].look
  OBVIOUS
<1>3. writing[s].pc = "write" /\ ReadOK(writing[s], stored, eager) /\ migrating' = migrating
  BY DEF Schema!Write, SchemaInv
<1>4. migrating' = [m \in Migrators |-> migrating'[m]]
  BY <1>3 DEF SchemaInv
<1>5. CASE Schema!Unchanged(writing[s].rev)
  <2>1. /\ Schema!Update(p) /\ eager' = Schema!Patched(eager, p)
        /\ bypassed' = (bypassed \/ (p = Schema!Verify /\ ~look.work))
        /\ writing' = [writing EXCEPT ![s] =
               IF p = Schema!Verify /\ look.work THEN [pc |-> "verified", look |-> look] ELSE Schema!Idle]
    BY <1>1, <1>2, <1>5 DEF Schema!Write
  <2>2. /\ LookOK(look, stored)
        /\ \/ p \in Schema!Patches(Schema!Upgraded(stored), look)
           \/ p \in {Schema!Close, Schema!Reopen} /\ Settled(stored, eager)
    BY <1>1, <1>2, <1>3, <1>5 DEF ReadOK, Schema!Unchanged
  <2>3. DocOK(stored) /\ eager = [f \in Fields |-> eager[f]] /\ Related(Schema!Upgraded(stored), eager, bypassed)
    BY DEF SchemaInv
  <2> DEFINE q == Schema!Patched(stored, p)
  <2>4. /\ DocOK(q)
        /\ Related(Schema!Upgraded(q), eager', bypassed')
        /\ Settled(stored, eager) \/ (p = Schema!Verify /\ look.work) => Settled(q, eager')
        /\ stored["assurance"] # "UNVERIFIED" => q["assurance"] # "UNVERIFIED"
        /\ ~Derived(stored) => ~Derived(q)
    <3>1. /\ DocOK(q)
          /\ Related(Schema!Upgraded(q), Schema!Patched(eager, p), bypassed \/ (p = Schema!Verify /\ ~look.work))
          /\ Settled(stored, eager) \/ (p = Schema!Verify /\ look.work) => Settled(q, Schema!Patched(eager, p))
          /\ stored["assurance"] # "UNVERIFIED" => q["assurance"] # "UNVERIFIED"
          /\ ~Derived(stored) => ~Derived(q)
      BY <2>2, <2>3, OperationRelates
    <3> HIDE DEF q
    <3> QED
      BY <2>1, <3>1, Zenon
  <2>5. /\ DocOK(stored') /\ stored'["rev"] = stored["rev"] + 1
        /\ SameButRevision(Schema!Upgraded(q), Schema!Upgraded(stored'))
        /\ stored'["assurance"] = q["assurance"]
        /\ Derived(stored') => Derived(q)
    BY <2>1, <2>4, UpdateKeeps
  <2>6. eager' = [f \in Fields |-> eager'[f]]
    BY <2>1, <2>3, PatchedIs
  <2> HIDE DEF q
  <2>7. /\ Related(Schema!Upgraded(stored'), eager', bypassed')
        /\ SameButRevision(Schema!Upgraded(q), eager') => SameButRevision(Schema!Upgraded(stored'), eager')
    BY <2>4, <2>5, RelatedSame
  <2>8. Settled(stored, eager) \/ (p = Schema!Verify /\ look.work) => Settled(stored', eager')
    BY <2>4, <2>5, <2>7 DEF Settled
  <2>9. PICK w : w = IF p = Schema!Verify /\ look.work THEN [pc |-> "verified", look |-> look] ELSE Schema!Idle
    OBVIOUS
  <2>10. writing' = [writing EXCEPT ![s] = w]
    BY <2>1, <2>9, Zenon
  <2>11. w = Schema!Idle \/ (w.pc = "verified" /\ Settled(stored', eager') /\ LookOK(w.look, stored))
    <3>1. CASE p = Schema!Verify /\ look.work
      <4>1. w = [pc |-> "verified", look |-> look]
        BY <2>9, <3>1
      <4>2. w.pc = "verified" /\ w.look = look
        BY <4>1
      <4> QED
        BY <2>2, <2>8, <3>1, <4>2
    <3>2. CASE ~(p = Schema!Verify /\ look.work)
      BY <2>9, <3>2
    <3> QED
      BY <3>1, <3>2
  <2>12. \A x \in Writers : \/ writing'[x] = writing[x] \/ writing'[x] = Schema!Idle
                            \/ /\ writing'[x].pc = "verified" /\ Settled(stored', eager')
                               /\ LookOK(writing'[x].look, stored)
    BY <2>10, <2>11, WritingSet
  <2>13. writing' = [x \in Writers |-> writing'[x]]
    BY <2>10, WritingSet
  <2>14. /\ stored["assurance"] # "UNVERIFIED" => stored'["assurance"] # "UNVERIFIED"
         /\ ~Derived(stored) => ~Derived(stored')
         /\ Settled(stored, eager) => Settled(stored', eager')
         /\ \A m \in Migrators : migrating'[m] = migrating[m] \/ migrating'[m] = Schema!Idle
    BY <1>3, <2>4, <2>5, <2>8
  <2> QED
    BY <1>4, <2>5, <2>6, <2>7, <2>12, <2>13, <2>14, WriteKeeps
<1>6. CASE ~Schema!Unchanged(writing[s].rev)
  <2>1. UNCHANGED <<stored, eager, bypassed>> /\ writing' = [writing EXCEPT ![s] = Schema!Idle]
    BY <1>6 DEF Schema!Write
  <2> QED
    BY <1>3, <1>4, <2>1, WritingSet, ReaderKeeps
<1> QED
  BY <1>5, <1>6

LEMMA ScanSchemaOK ==
  ASSUME SchemaInv, NEW m \in Migrators, Schema!Scan(m)
  PROVE  SchemaInv'
<1> DEFINE u == Schema!Upgraded(stored)
           g == [pc |-> "persist", doc |-> u]
<1>1. UNCHANGED <<stored, writing, eager, bypassed>> /\ migrating' = [migrating EXCEPT ![m] = g]
  BY DEF Schema!Scan
<1>2. g.doc = u
  OBVIOUS
<1>3. u["rev"] = stored["rev"] /\ stored["rev"] \in Nat
  BY UpgradedIs DEF SchemaInv, DocOK, IsDoc, IsUpgrade
<1> HIDE DEF g
<1>4. ScannedOK(g, stored)
  BY <1>2, <1>3 DEF ScannedOK
<1>5. migrating = [x \in Migrators |-> migrating[x]] /\ writing' = [s \in Writers |-> writing'[s]]
  BY <1>1 DEF SchemaInv
<1>6. /\ migrating' = [x \in Migrators |-> migrating'[x]] /\ migrating'[m] = g
      /\ \A x \in Migrators \ {m} : migrating'[x] = migrating[x]
  BY <1>1, <1>5, Zenon
<1> QED
  BY <1>1, <1>4, <1>5, <1>6, ReaderKeeps

LEMMA PersistSchemaOK ==
  ASSUME SchemaInv, NEW m \in Migrators, Schema!Persist(m)
  PROVE  SchemaInv'
<1> DEFINE p == migrating[m].doc
           q == Schema!Patched(stored, p)
           u == Schema!Upgraded(stored)
<1>1. /\ migrating[m] # Schema!Idle /\ migrating' = [migrating EXCEPT ![m] = Schema!Idle]
      /\ writing' = writing /\ eager' = eager /\ bypassed' = bypassed
  BY DEF Schema!Persist
<1>2. writing = [x \in Writers |-> writing[x]] /\ migrating = [x \in Migrators |-> migrating[x]]
  BY DEF SchemaInv
<1>3. migrating' = [x \in Migrators |-> migrating'[x]] /\ \A x \in Migrators : migrating'[x] = migrating[x] \/ migrating'[x] = Schema!Idle
  BY <1>1, <1>2, Zenon
<1>4. CASE Schema!Unchanged(migrating[m].doc.rev) /\ Schema!Update(p)
  <2>1. p = u
    BY <1>1, <1>4 DEF SchemaInv, ScannedOK, Schema!Unchanged
  <2>2. /\ IsDoc(stored) /\ stored = [f \in Fields |-> stored[f]] /\ stored["rev"] \in Nat
        /\ DocOK(u) /\ ~Derived(u) /\ u = [f \in Fields |-> u[f]] /\ IsUpgrade(u, stored)
    BY UpgradeKeeps, UpgradedIs DEF SchemaInv, DocOK, IsDoc
  <2>3. u["version"] = 6 /\ u["assurance"] = stored["assurance"]
    BY <2>2 DEF IsUpgrade
  <2>4. /\ q = [f \in Fields |-> q[f]] /\ q["rev"] = stored["rev"] + 1
        /\ \A f \in Fields \ {"rev"} : q[f] = IF f \in DOMAIN p THEN p[f] ELSE stored[f]
    BY <2>2, PatchedIs
  <2>5. Related(u, eager, bypassed) /\ eager = [f \in Fields |-> eager[f]]
    BY DEF SchemaInv
  <2>6. Settled(stored, eager) <=> ~Derived(stored) /\ SameButRevision(u, eager)
    BY DEF Settled
  <2> HIDE DEF q, u, p
  <2>7. DOMAIN p = Fields
    BY <2>1, <2>2, Zenon
  <2>8. SameButRevision(u, q)
    BY <2>1, <2>4, <2>7, Zenon DEF SameButRevision
  <2>9. q["rev"] \in Nat
    BY <2>2, <2>4
  <2>10. DocOK(q)
    BY <2>2, <2>4, <2>8, <2>9, SameDocOK
  <2>11. q["version"] = 6 /\ q["assurance"] = stored["assurance"] /\ ~Derived(q)
    BY <2>2, <2>3, <2>8 DEF SameButRevision, Fields, Derived
  <2>12. SameButRevision(Schema!Upgraded(q), q)
    BY <2>10, <2>11, UpgradeTwice
  <2>13. /\ DocOK(stored') /\ stored'["rev"] = stored["rev"] + 1
         /\ SameButRevision(Schema!Upgraded(q), Schema!Upgraded(stored'))
         /\ stored'["assurance"] = q["assurance"]
         /\ Derived(stored') => Derived(q)
    BY <1>4, <2>10, UpdateKeeps DEF q
  <2>14. SameButRevision(u, Schema!Upgraded(stored'))
    BY <2>8, <2>12, <2>13, Zenon DEF SameButRevision
  <2>15. /\ Related(Schema!Upgraded(stored'), eager, bypassed)
         /\ SameButRevision(u, eager) => SameButRevision(Schema!Upgraded(stored'), eager)
    BY <2>5, <2>14, RelatedSame
  <2>16. Settled(stored, eager) => Settled(stored', eager')
    BY <1>1, <2>6, <2>11, <2>13, <2>15 DEF Settled
  <2>17. /\ eager' = [f \in Fields |-> eager'[f]] /\ Related(Schema!Upgraded(stored'), eager', bypassed')
         /\ stored["assurance"] # "UNVERIFIED" => stored'["assurance"] # "UNVERIFIED"
         /\ ~Derived(stored) => ~Derived(stored')
         /\ writing' = [s \in Writers |-> writing'[s]] /\ \A s \in Writers : writing'[s] = writing[s]
    BY <1>1, <1>2, <2>5, <2>11, <2>13, <2>15
  <2> QED
    BY <1>3, <2>13, <2>16, <2>17, WriteKeeps
<1>5. CASE UNCHANGED stored
  <2>1. UNCHANGED <<stored, eager, bypassed>> /\ writing' = [s \in Writers |-> writing'[s]]
        /\ \A s \in Writers : writing'[s] = writing[s]
    BY <1>1, <1>2, <1>5
  <2> QED
    BY <1>3, <2>1, ReaderKeeps
<1> QED
  BY <1>4, <1>5 DEF Schema!Persist

LEMMA SchemaUnchanged ==
  ASSUME SchemaInv, UNCHANGED <<stored, writing, migrating, eager, bypassed>>
  PROVE  SchemaInv'
<1>1. writing' = [s \in Writers |-> writing'[s]] /\ migrating' = [m \in Migrators |-> migrating'[m]]
  BY DEF SchemaInv
<1> QED
  BY <1>1, ReaderKeeps

LEMMA SchemaHolds == Spec => []SchemaInv
<1>1. Init => SchemaInv
  BY SchemaStarts DEF Init
<1>2. SchemaInv /\ [Next]_<<part, assertions, inventory, schema>> => SchemaInv'
  <2> SUFFICES ASSUME SchemaInv, [Next]_<<part, assertions, inventory, schema>> PROVE SchemaInv'
    OBVIOUS
  <2>1. UNCHANGED schema \/ Schema!Next
    BY DEF Next
  <2>2. CASE UNCHANGED schema
    BY <2>2, SchemaUnchanged DEF schema
  <2>3. CASE Schema!Next
    <3>1. CASE Schema!Admit
      BY <3>1, SchemaUnchanged DEF Schema!Admit
    <3> QED
      BY <2>3, <3>1, LookUpSchemaOK, ReadSchemaOK, FinishSchemaOK, WriteSchemaOK, ScanSchemaOK, PersistSchemaOK,
         Zenon DEF Schema!Next
  <2> QED
    BY <2>1, <2>2, <2>3
<1> QED
  BY <1>1, <1>2, PTL DEF Spec

\* In which cases it can be told when a document was migrated, in either store, for any
\* operations and migrations (upgrade_document, migrate_schema, update): every patch of an
\* operation commutes with the upgrade, but for the verification of a call that found no
\* WorkIdentity and for the acceptance, as long as nobody has written the judgement; after
\* these two nothing but an acceptance follows.  What was read for a patch is what is stored
\* when it is written.
THEOREM MigrationShowsInTwoCases == Spec => []UpgradeIsInvisible
<1>1. SchemaInv => UpgradeIsInvisible
  <2> SUFFICES ASSUME SchemaInv PROVE Schema!UpgradeIsInvisible
    BY DEF UpgradeIsInvisible
  <2> DEFINE u == Schema!Upgraded(stored)
             differing == {f \in Fields \ {"rev"} : u[f] # eager[f]}
  <2>1. DOMAIN stored = Fields
    <3>1. stored = [f \in Fields |-> stored[f]]
      BY DEF SchemaInv, DocOK, IsDoc
    <3> QED
      BY <3>1, Zenon
  <2>2. Schema!Differing = differing
    BY <2>1 DEF Schema!Differing, Schema!Seen
  <2>3. Related(u, eager, bypassed)
    BY DEF SchemaInv
  <2>4. Schema!Seen = u
    BY DEF Schema!Seen
  <2> HIDE DEF u
  <2>5. CASE SameButRevision(u, eager)
    BY <2>2, <2>5 DEF SameButRevision, Schema!UpgradeIsInvisible
  <2>6. CASE Late(u, eager)
    <3>1. differing = {"closer"}
      BY <2>6 DEF Late, Fields
    <3> QED
      BY <2>2, <2>4, <2>6, <3>1 DEF Late, Schema!ClosedByAcceptance, Schema!UpgradeIsInvisible
  <2>7. CASE bypassed /\ Unjudged(u, eager)
    <3>1. differing \subseteq {"validation", "closure", "closer"}
      BY <2>7 DEF Unjudged
    <3>2. eager["assurance"] # "UNVERIFIED" /\ u["validation"] = "VALIDATED" /\ u["closure"] = "CLOSED"
      BY <2>7 DEF Unjudged, Sealed, Fields
    <3>3. eager["validation"] = "PENDING" /\ eager["closure"] = "OPEN"
      BY <2>7 DEF Unjudged
    <3> HIDE DEF differing
    <3> QED
      BY <2>2, <2>4, <2>7, <3>1, <3>2, <3>3 DEF Schema!JudgedByVerification, Schema!UpgradeIsInvisible
  <2> QED
    BY <2>3, <2>5, <2>6, <2>7 DEF Related
<1> QED
  BY <1>1, SchemaHolds, PTL
=============================================================================
