----------------------------- MODULE FoldLemmas -----------------------------
(***************************************************************************)
(* Lemmas about the operators that the specifications take from the        *)
(* community modules and that are defined by recursion: FlattenSeq,        *)
(* MapThenSumSet and Max.                                                  *)
(***************************************************************************)
EXTENDS Naturals, Sequences, FiniteSets, SequencesExt, FiniteSetsExt,
        SequenceTheorems, FiniteSetTheorems, WellFoundedInduction, TLAPS

-----------------------------------------------------------------------------
(* Induction.                                                              *)

(* Induction over the naturals, with the set of those for which a formula  *)
(* holds in the place of the formula.                                      *)
LEMMA SetInduction ==
  ASSUME NEW T, 0 \in T, \A n \in Nat : n \in T => n + 1 \in T
  PROVE  Nat \subseteq T
<1> SUFFICES ASSUME Nat \ T # {} PROVE FALSE
  OBVIOUS
<1> DEFINE R == OpToRel(<, Nat)
<1>1. IsWellFoundedOn(R, Nat)
  BY NatLessThanWellFounded
<1>2. Nat \ T \subseteq Nat
  OBVIOUS
<1>3. \A y \in Nat, z \in Nat : y < z => <<y, z>> \in R
  BY DEF OpToRel
<1> HIDE DEF R
<1>4. \E x \in Nat \ T : \A y \in Nat \ T : ~ (<<y, x>> \in R)
  BY <1>1, <1>2, WFMin
<1>5. PICK x \in Nat \ T : \A y \in Nat \ T : ~ (<<y, x>> \in R)
  BY <1>4
<1>6. x - 1 \in Nat /\ x - 1 < x /\ (x - 1) + 1 = x
  BY <1>5
<1>7. x - 1 \notin T
  BY <1>5, <1>6
<1> QED
  BY <1>3, <1>5, <1>6, <1>7

(* The equation of the recursive function inside FlattenSeq has a solution. *)
Flattens(f, seqs, n) ==
  f = [i \in 1..n |-> IF i = 1 THEN seqs[i] ELSE f[i - 1] \o seqs[i]]

LEMMA FlattenExists ==
  ASSUME NEW seqs, NEW n \in Nat
  PROVE  \E f : Flattens(f, seqs, n)
<1> DEFINE T == {m \in Nat : \E f : Flattens(f, seqs, m)}
<1>1. 0 \in T
  <2>1. Flattens(<<>>, seqs, 0)
    BY DEF Flattens
  <2> QED
    BY <2>1
<1>2. ASSUME NEW m \in Nat, m \in T PROVE m + 1 \in T
  <2>1. PICK f : Flattens(f, seqs, m)
    BY <1>2
  <2> DEFINE g == [i \in 1..(m + 1) |-> IF i = 1 THEN seqs[i] ELSE f[i - 1] \o seqs[i]]
  <2>2. \A i \in 1..m : g[i] = f[i]
    <3>1. \A i \in 1..m : f[i] = IF i = 1 THEN seqs[i] ELSE f[i - 1] \o seqs[i]
      BY <2>1, ZenonT(20) DEF Flattens
    <3>2. \A i \in 1..(m + 1) : g[i] = IF i = 1 THEN seqs[i] ELSE f[i - 1] \o seqs[i]
      OBVIOUS
    <3> HIDE DEF g
    <3> QED
      BY <3>1, <3>2
  <2>3. \A i \in 1..(m + 1) : i # 1 => i - 1 \in 1..m
    OBVIOUS
  <2>4. g = [i \in 1..(m + 1) |-> IF i = 1 THEN seqs[i] ELSE g[i - 1] \o seqs[i]]
    BY <2>2, <2>3
  <2>5. Flattens(g, seqs, m + 1)
    BY <2>4 DEF Flattens
  <2> HIDE DEF g
  <2> QED
    BY <2>5
<1> HIDE DEF T
<1>3. n \in T
  BY <1>1, <1>2, SetInduction
<1> QED
  BY <1>3 DEF T

LEMMA FlattenIsLast ==
  ASSUME NEW seqs, Len(seqs) \in Nat, Len(seqs) # 0
  PROVE  \E f : Flattens(f, seqs, Len(seqs)) /\ FlattenSeq(seqs) = f[Len(seqs)]
<1> DEFINE n == Len(seqs)
           f == CHOOSE f : f = [i \in 1..n |-> IF i = 1 THEN seqs[i] ELSE f[i - 1] \o seqs[i]]
<1>1. \E h : Flattens(h, seqs, n)
  BY FlattenExists
<1>2. f = [i \in 1..n |-> IF i = 1 THEN seqs[i] ELSE f[i - 1] \o seqs[i]]
  BY <1>1 DEF Flattens
<1>3. FlattenSeq(seqs) = f[n]
  BY DEF FlattenSeq
<1> HIDE DEF f
<1> QED
  BY <1>2, <1>3 DEF Flattens

(* FlattenSeq concatenates: its range is the union of the ranges, and what  *)
(* comes from an earlier sequence stands before what comes from a later one. *)
Before(s, u, v) == \E k, l \in DOMAIN s : k < l /\ s[k] = u /\ s[l] = v
Keeps(seqs, n, s) ==
  /\ \A i \in 1..n : ToSet(seqs[i]) \subseteq ToSet(s)
  /\ \A i, j \in 1..n : i < j =>
       \A u \in ToSet(seqs[i]), v \in ToSet(seqs[j]) : Before(s, u, v)

LEMMA ConcatFacts ==
  ASSUME NEW S, NEW p \in Seq(S), NEW e \in Seq(S)
  PROVE  /\ p \o e \in Seq(S)
         /\ Len(p) \in Nat /\ DOMAIN p = 1..Len(p) /\ \A l \in DOMAIN e : l \in Nat \ {0}
         /\ \A k \in DOMAIN p : k \in DOMAIN (p \o e) /\ (p \o e)[k] = p[k]
         /\ \A l \in DOMAIN e : Len(p) + l \in DOMAIN (p \o e) /\ (p \o e)[Len(p) + l] = e[l]
<1>1. /\ Len(p) \in Nat /\ Len(e) \in Nat /\ DOMAIN p = 1..Len(p) /\ DOMAIN e = 1..Len(e)
  BY LenProperties
<1>2. p \o e \in Seq(S) /\ Len(p \o e) = Len(p) + Len(e)
      /\ \A k \in 1..(Len(p) + Len(e)) : (p \o e)[k] = IF k <= Len(p) THEN p[k] ELSE e[k - Len(p)]
  BY ConcatProperties
<1>3. PICK s : s = p \o e
  OBVIOUS
<1>4. DOMAIN s = 1..(Len(p) + Len(e))
  BY <1>2, <1>3, LenProperties
<1>5. \A k \in DOMAIN p : k \in DOMAIN s /\ s[k] = p[k]
  BY <1>1, <1>2, <1>3, <1>4
<1>6. \A l \in DOMAIN e : Len(p) + l \in DOMAIN s /\ s[Len(p) + l] = e[l]
  <2> TAKE l \in DOMAIN e
  <2>1. l \in 1..Len(e) /\ Len(p) + l \in 1..(Len(p) + Len(e)) /\ ~(Len(p) + l <= Len(p))
        /\ (Len(p) + l) - Len(p) = l
    BY <1>1
  <2> QED
    BY <1>2, <1>3, <1>4, <2>1
<1> QED
  BY <1>1, <1>2, <1>3, <1>5, <1>6

LEMMA KeepsConcat ==
  ASSUME NEW S, NEW seqs, NEW m \in Nat, NEW p \in Seq(S), NEW e \in Seq(S),
         Keeps(seqs, m, p), e = seqs[m + 1]
  PROVE  Keeps(seqs, m + 1, p \o e)
<1>1. PICK s : s = p \o e
  OBVIOUS
<1>2. /\ \A k \in DOMAIN p : k \in DOMAIN s /\ s[k] = p[k]
      /\ \A l \in DOMAIN e : Len(p) + l \in DOMAIN s /\ s[Len(p) + l] = e[l]
      /\ \A k \in DOMAIN p, l \in DOMAIN e : k < Len(p) + l
  BY <1>1, ConcatFacts, SMTT(30)
<1>3. ToSet(p) \subseteq ToSet(s) /\ ToSet(e) \subseteq ToSet(s)
  BY <1>2 DEF ToSet
<1>4. \A i \in 1..(m + 1) : i \in 1..m \/ i = m + 1
  OBVIOUS
<1>5. ASSUME NEW i \in 1..(m + 1) PROVE ToSet(seqs[i]) \subseteq ToSet(s)
  BY <1>3, <1>4 DEF Keeps
<1>6. ASSUME NEW i \in 1..(m + 1), NEW j \in 1..(m + 1), i < j,
             NEW u \in ToSet(seqs[i]), NEW v \in ToSet(seqs[j])
      PROVE  Before(s, u, v)
  <2>1. i \in 1..m
    BY <1>6
  <2>2. CASE j = m + 1
    <3>1. u \in ToSet(p) /\ v \in ToSet(e)
      BY <2>1, <2>2 DEF Keeps
    <3>2. PICK k \in DOMAIN p, l \in DOMAIN e : p[k] = u /\ e[l] = v
      BY <3>1 DEF ToSet
    <3> QED
      BY <1>2, <3>2 DEF Before
  <2>3. CASE j \in 1..m
    <3>1. Before(p, u, v)
      BY <1>6, <2>1, <2>3 DEF Keeps
    <3> QED
      BY <1>2, <3>1 DEF Before
  <2> QED
    BY <1>4, <2>2, <2>3
<1> QED
  BY <1>1, <1>5, <1>6 DEF Keeps

LEMMA FlattenFacts ==
  ASSUME NEW S, NEW n \in Nat, NEW seqs \in [1..n -> Seq(S)]
  PROVE  FlattenSeq(seqs) \in Seq(S) /\ Keeps(seqs, n, FlattenSeq(seqs))
<1>1. Len(seqs) = n /\ seqs \in Seq(Seq(S))
  OBVIOUS
<1>2. CASE n = 0
  <2>1. FlattenSeq(seqs) = seqs
    BY <1>1, <1>2 DEF FlattenSeq
  <2>2. seqs \in Seq(S)
    BY <1>2
  <2> QED
    BY <1>2, <2>1, <2>2 DEF Keeps
<1>3. CASE n # 0
  <2>1. PICK f : Flattens(f, seqs, n) /\ FlattenSeq(seqs) = f[n]
    BY <1>1, <1>3, FlattenIsLast
  <2>2. \A i \in 1..n : f[i] = IF i = 1 THEN seqs[i] ELSE f[i - 1] \o seqs[i]
    BY <2>1, ZenonT(20) DEF Flattens
  <2> DEFINE T == {m \in Nat : m \in 1..n => f[m] \in Seq(S) /\ Keeps(seqs, m, f[m])}
  <2>3. 0 \in T
    OBVIOUS
  <2>4. ASSUME NEW m \in Nat, m \in T PROVE m + 1 \in T
    <3> SUFFICES ASSUME m + 1 \in 1..n PROVE f[m + 1] \in Seq(S) /\ Keeps(seqs, m + 1, f[m + 1])
      OBVIOUS
    <3>1. CASE m = 0
      <4>1. f[1] = seqs[1] /\ seqs[1] \in Seq(S)
        BY <2>2, <3>1
      <4> QED
        BY <3>1, <4>1 DEF Keeps
    <3>2. CASE m # 0
      <4>1. m \in 1..n /\ (m + 1) - 1 = m /\ m + 1 # 1
        BY <3>2
      <4>2. f[m + 1] = f[m] \o seqs[m + 1] /\ seqs[m + 1] \in Seq(S)
        BY <2>2, <4>1
      <4>3. f[m] \in Seq(S) /\ Keeps(seqs, m, f[m])
        BY <2>4, <4>1
      <4>4. Keeps(seqs, m + 1, f[m] \o seqs[m + 1])
        BY <4>2, <4>3, KeepsConcat
      <4>5. f[m] \o seqs[m + 1] \in Seq(S)
        BY <4>2, <4>3, ConcatFacts
      <4> QED
        BY <4>2, <4>4, <4>5
    <3> QED
      BY <3>1, <3>2
  <2> HIDE DEF T
  <2>5. n \in T
    BY <2>3, <2>4, SetInduction
  <2>6. f[n] \in Seq(S) /\ Keeps(seqs, n, f[n])
    BY <1>3, <2>5 DEF T
  <2> QED
    BY <2>1, <2>6
<1> QED
  BY <1>2, <1>3

LEMMA MaxFacts ==
  ASSUME NEW n \in Nat, NEW I \in SUBSET (1..n), n \in I
  PROVE  Max(I) = n
<1>1. \A x \in I : n >= x
  OBVIOUS
<1>2. Max(I) \in I /\ \A x \in I : Max(I) >= x
  BY <1>1 DEF Max
<1>3. PICK x : x = Max(I)
  OBVIOUS
<1>4. x \in 1..n /\ x >= n
  BY <1>2, <1>3
<1>5. x = n
  BY <1>4
<1> QED
  BY <1>3, <1>5

LEMMA TailHolds ==
  ASSUME NEW S, NEW q \in Seq(S), NEW u, NEW v, Before(q, u, v)
  PROVE  /\ q # <<>> /\ v \in ToSet(Tail(q))
         /\ u \in ToSet(Tail(q)) \/ u = Head(q)
<1>1. PICK k \in DOMAIN q, l \in DOMAIN q : k < l /\ q[k] = u /\ q[l] = v
  BY DEF Before
<1>2. DOMAIN q = 1..Len(q) /\ Len(q) \in Nat
  BY LenProperties
<1>3. q # <<>>
  BY <1>1, <1>2
<1>4. /\ Head(q) = q[1] /\ Tail(q) \in Seq(S) /\ Len(Tail(q)) = Len(q) - 1
      /\ \A i \in 1..Len(Tail(q)) : Tail(q)[i] = q[i + 1]
  BY <1>3, HeadTailProperties
<1>5. DOMAIN Tail(q) = 1..Len(Tail(q))
  BY <1>4, LenProperties
<1>6. \A i \in DOMAIN q : i # 1 => q[i] \in ToSet(Tail(q))
  <2> TAKE i \in DOMAIN q
  <2> SUFFICES ASSUME i # 1 PROVE q[i] \in ToSet(Tail(q))
    OBVIOUS
  <2>1. i - 1 \in 1..Len(Tail(q)) /\ (i - 1) + 1 = i
    BY <1>2, <1>4
  <2>2. Tail(q)[i - 1] = q[i]
    BY <1>4, <2>1
  <2> QED
    BY <1>5, <2>1, <2>2 DEF ToSet
<1>7. l # 1
  BY <1>1, <1>2
<1> QED
  BY <1>1, <1>3, <1>4, <1>6, <1>7

-----------------------------------------------------------------------------
(* Sums over finite sets.                                                  *)

(* Taking one element out of a finite set leaves one fewer. *)
LEMMA OneLess ==
  ASSUME NEW u, IsFiniteSet(u), NEW n \in Nat, Cardinality(u) = n + 1, NEW x \in u
  PROVE  IsFiniteSet(u \ {x}) /\ Cardinality(u \ {x}) = n
<1>1. IsFiniteSet(u \ {x}) /\ Cardinality(u \ {x}) = Cardinality(u) - 1
  BY FS_RemoveElement
<1>2. \A k : k = n + 1 => k - 1 = n
  OBVIOUS
<1> QED
  BY <1>1, <1>2

(* The equation of the recursive function inside MapThenSumSet. *)
Some(s) == CHOOSE x \in s : TRUE
Sums(g, f, S) ==
  g = [s \in SUBSET S |-> IF s = {} THEN 0 ELSE f[Some(s)] + g[s \ {Some(s)}]]

SumOf(f, S) == (CHOOSE g : Sums(g, f, S))[S]

LEMMA SomeIsIn ==
  ASSUME NEW s, s # {}
  PROVE  Some(s) \in s
BY DEF Some

LEMMA SumsAgree ==
  ASSUME NEW f, NEW S, NEW g, NEW R, NEW h, Sums(g, f, S), Sums(h, f, R),
         NEW s, IsFiniteSet(s), s \subseteq S, s \subseteq R
  PROVE  g[s] = h[s]
<1> DEFINE T == {n \in Nat : \A u \in SUBSET (S \cap R) : IsFiniteSet(u) /\ Cardinality(u) = n => g[u] = h[u]}
<1>1. /\ \A u \in SUBSET S : g[u] = IF u = {} THEN 0 ELSE f[Some(u)] + g[u \ {Some(u)}]
      /\ \A u \in SUBSET R : h[u] = IF u = {} THEN 0 ELSE f[Some(u)] + h[u \ {Some(u)}]
  BY ZenonT(20) DEF Sums
<1>2. 0 \in T
  <2> SUFFICES ASSUME NEW u \in SUBSET (S \cap R), IsFiniteSet(u), Cardinality(u) = 0 PROVE g[u] = h[u]
    OBVIOUS
  <2>1. u = {}
    BY FS_EmptySet
  <2> QED
    BY <1>1, <2>1
<1>3. ASSUME NEW n \in Nat, n \in T PROVE n + 1 \in T
  <2> SUFFICES ASSUME NEW u \in SUBSET (S \cap R), IsFiniteSet(u), Cardinality(u) = n + 1 PROVE g[u] = h[u]
    OBVIOUS
  <2>1. u # {}
    BY FS_EmptySet
  <2>2. PICK x \in u : x = Some(u)
    BY <2>1, SomeIsIn
  <2>3. IsFiniteSet(u \ {x}) /\ Cardinality(u \ {x}) = n
    BY <2>2, OneLess
  <2>4. g[u \ {x}] = h[u \ {x}]
    BY <1>3, <2>3
  <2> QED
    BY <1>1, <2>1, <2>2, <2>4
<1> HIDE DEF T
<1>4. Cardinality(s) \in T
  BY <1>2, <1>3, SetInduction, FS_CardinalityType
<1> QED
  BY <1>4 DEF T

LEMMA SumsExists ==
  ASSUME NEW f, NEW R, IsFiniteSet(R)
  PROVE  \E g : Sums(g, f, R)
<1> DEFINE T == {n \in Nat : \A S : IsFiniteSet(S) /\ Cardinality(S) <= n => \E g : Sums(g, f, S)}
<1>1. 0 \in T
  <2> SUFFICES ASSUME NEW S, IsFiniteSet(S), Cardinality(S) <= 0 PROVE \E g : Sums(g, f, S)
    OBVIOUS
  <2>1. S = {}
    BY FS_EmptySet, FS_CardinalityType
  <2> DEFINE g == [s \in SUBSET S |-> 0]
  <2>2. \A s \in SUBSET S : s = {}
    BY <2>1
  <2>3. Sums(g, f, S)
    BY <2>2 DEF Sums
  <2> QED
    BY <2>3
<1>2. ASSUME NEW n \in Nat, n \in T PROVE n + 1 \in T
  <2> SUFFICES ASSUME NEW S, IsFiniteSet(S), Cardinality(S) <= n + 1 PROVE \E g : Sums(g, f, S)
    OBVIOUS
  <2>1. ASSUME NEW s \in SUBSET S, s # S
        PROVE  /\ IsFiniteSet(s)
               /\ Sums(CHOOSE g : Sums(g, f, s), f, s)
    <3>1. IsFiniteSet(s) /\ Cardinality(s) <= Cardinality(S) /\ Cardinality(s) # Cardinality(S)
      BY <2>1, FS_Subset
    <3>2. Cardinality(s) <= n
      <4>1. Cardinality(s) \in Nat /\ Cardinality(S) \in Nat
        BY <3>1, FS_CardinalityType
      <4>2. \A i \in Nat, j \in Nat : i <= j /\ i # j /\ j <= n + 1 => i <= n
        OBVIOUS
      <4> QED
        BY <3>1, <4>1, <4>2
    <3>3. \E g : Sums(g, f, s)
      BY <1>2, <3>1, <3>2
    <3> QED
      BY <3>1, <3>3
  <2>2. ASSUME NEW s \in SUBSET S, s # S, s # {}
        PROVE  SumOf(f, s) = f[Some(s)] + SumOf(f, s \ {Some(s)})
    <3>1. Some(s) \in s
      BY <2>2, SomeIsIn
    <3>2. PICK u : u = s \ {Some(s)}
      OBVIOUS
    <3>3. u \in SUBSET S /\ u # S /\ u \subseteq s /\ u \in SUBSET s
      BY <3>1, <3>2
    <3>4. PICK g : g = CHOOSE k : Sums(k, f, s)
      OBVIOUS
    <3>5. PICK h : h = CHOOSE k : Sums(k, f, u)
      OBVIOUS
    <3>6. Sums(g, f, s) /\ Sums(h, f, u) /\ IsFiniteSet(u)
      BY <2>1, <2>2, <3>3, <3>4, <3>5
    <3>7. g[u] = h[u]
      BY <3>3, <3>6, SumsAgree
    <3>8. \A t \in SUBSET s : g[t] = IF t = {} THEN 0 ELSE f[Some(t)] + g[t \ {Some(t)}]
      BY <3>6, ZenonT(20) DEF Sums
    <3>9. g[s] = f[Some(s)] + g[u]
      BY <2>2, <3>2, <3>8
    <3> QED
      BY <3>2, <3>4, <3>5, <3>7, <3>9 DEF SumOf
  <2>3. SumOf(f, {}) = 0 \/ S = {}
    <3> SUFFICES ASSUME S # {} PROVE SumOf(f, {}) = 0
      OBVIOUS
    <3>1. PICK g : g = CHOOSE k : Sums(k, f, {})
      OBVIOUS
    <3>2. Sums(g, f, {})
      BY <2>1, <3>1
    <3>3. \A t \in SUBSET {} : g[t] = IF t = {} THEN 0 ELSE f[Some(t)] + g[t \ {Some(t)}]
      BY <3>2, ZenonT(20) DEF Sums
    <3> QED
      BY <3>1, <3>3 DEF SumOf
  <2> DEFINE g == [s \in SUBSET S |-> IF s = {} THEN 0
                                      ELSE IF s = S THEN f[Some(s)] + SumOf(f, s \ {Some(s)})
                                      ELSE SumOf(f, s)]
  <2>4. ASSUME NEW s \in SUBSET S
        PROVE  g[s] = IF s = {} THEN 0 ELSE f[Some(s)] + g[s \ {Some(s)}]
    <3>1. CASE s = {}
      BY <3>1
    <3>2. CASE s # {}
      <4>1. Some(s) \in s
        BY <3>2, SomeIsIn
      <4>2. PICK u : u = s \ {Some(s)}
        OBVIOUS
      <4>3. u \in SUBSET S /\ u # S
        BY <4>1, <4>2
      <4>4. g[u] = SumOf(f, u)
        BY <2>3, <4>3
      <4>5. g[s] = f[Some(s)] + SumOf(f, u)
        BY <2>2, <3>2, <4>2
      <4> QED
        BY <3>2, <4>2, <4>4, <4>5
    <3> QED
      BY <3>1, <3>2
  <2>5. g = [s \in SUBSET S |-> g[s]]
    OBVIOUS
  <2> HIDE DEF g
  <2>6. g = [s \in SUBSET S |-> IF s = {} THEN 0 ELSE f[Some(s)] + g[s \ {Some(s)}]]
    BY <2>4, <2>5
  <2>7. Sums(g, f, S)
    BY <2>6 DEF Sums
  <2> QED
    BY <2>7
<1> HIDE DEF T
<1>3. Cardinality(R) \in T
  BY <1>1, <1>2, SetInduction, FS_CardinalityType
<1>4. Cardinality(R) <= Cardinality(R)
  BY FS_CardinalityType
<1> QED
  BY <1>3, <1>4 DEF T

(* The sum that any solution holds for a set is the sum over that set. *)
LEMMA SumOfIs ==
  ASSUME NEW f, NEW S, IsFiniteSet(S), NEW g, Sums(g, f, S), NEW s \in SUBSET S
  PROVE  g[s] = SumOf(f, s)
<1>1. IsFiniteSet(s)
  BY FS_Subset
<1>2. PICK h : h = CHOOSE k : Sums(k, f, s)
  OBVIOUS
<1>3. Sums(h, f, s)
  BY <1>1, <1>2, SumsExists
<1>4. g[s] = h[s]
  BY <1>1, <1>3, SumsAgree
<1> QED
  BY <1>2, <1>4 DEF SumOf

LEMMA SumOfChosen ==
  ASSUME NEW f, NEW S, IsFiniteSet(S)
  PROVE  /\ S = {} => SumOf(f, S) = 0
         /\ S # {} => SumOf(f, S) = f[Some(S)] + SumOf(f, S \ {Some(S)})
<1>1. PICK g : Sums(g, f, S)
  BY SumsExists
<1>2. \A t \in SUBSET S : g[t] = IF t = {} THEN 0 ELSE f[Some(t)] + g[t \ {Some(t)}]
  BY <1>1, ZenonT(20) DEF Sums
<1>3. \A t \in SUBSET S : g[t] = SumOf(f, t)
  BY <1>1, SumOfIs
<1>4. S \in SUBSET S /\ S \ {Some(S)} \in SUBSET S
  OBVIOUS
<1> QED
  BY <1>2, <1>3, <1>4

LEMMA SumOfType ==
  ASSUME NEW f, NEW S, IsFiniteSet(S), \A x \in S : f[x] \in Nat
  PROVE  SumOf(f, S) \in Nat
<1> DEFINE T == {n \in Nat : \A u \in SUBSET S : IsFiniteSet(u) /\ Cardinality(u) = n => SumOf(f, u) \in Nat}
<1>1. 0 \in T
  <2> SUFFICES ASSUME NEW u \in SUBSET S, IsFiniteSet(u), Cardinality(u) = 0 PROVE SumOf(f, u) \in Nat
    OBVIOUS
  <2>1. u = {}
    BY FS_EmptySet
  <2>2. SumOf(f, u) = 0
    BY <2>1, SumOfChosen
  <2> QED
    BY <2>2
<1>2. ASSUME NEW n \in Nat, n \in T PROVE n + 1 \in T
  <2> SUFFICES ASSUME NEW u \in SUBSET S, IsFiniteSet(u), Cardinality(u) = n + 1 PROVE SumOf(f, u) \in Nat
    OBVIOUS
  <2>1. u # {}
    BY FS_EmptySet
  <2>2. PICK x \in u : x = Some(u)
    BY <2>1, SomeIsIn
  <2>3. IsFiniteSet(u \ {x}) /\ Cardinality(u \ {x}) = n
    BY <2>2, OneLess
  <2>4. SumOf(f, u \ {x}) \in Nat /\ f[x] \in Nat
    BY <1>2, <2>3
  <2> QED
    BY <2>1, <2>2, <2>4, SumOfChosen
<1> HIDE DEF T
<1>3. Cardinality(S) \in T
  BY <1>1, <1>2, SetInduction, FS_CardinalityType
<1> QED
  BY <1>3 DEF T

(* The sum does not depend on the order in which elements are chosen. *)
LEMMA SumOfSplit ==
  ASSUME NEW f, NEW S, IsFiniteSet(S), \A x \in S : f[x] \in Nat, NEW y \in S
  PROVE  SumOf(f, S) = f[y] + SumOf(f, S \ {y})
<1> DEFINE T == {n \in Nat : \A u \in SUBSET S : IsFiniteSet(u) /\ Cardinality(u) = n =>
                   \A x \in u : SumOf(f, u) = f[x] + SumOf(f, u \ {x})}
<1>1. 0 \in T
  BY FS_EmptySet
<1>2. ASSUME NEW n \in Nat, n \in T PROVE n + 1 \in T
  <2> SUFFICES ASSUME NEW u \in SUBSET S, IsFiniteSet(u), Cardinality(u) = n + 1, NEW x \in u
               PROVE  SumOf(f, u) = f[x] + SumOf(f, u \ {x})
    OBVIOUS
  <2>1. PICK c \in u : c = Some(u)
    BY SomeIsIn
  <2>2. SumOf(f, u) = f[c] + SumOf(f, u \ {c})
    BY <2>1, SumOfChosen
  <2>3. CASE c = x
    BY <2>2, <2>3
  <2>4. CASE c # x
    <3>1. /\ IsFiniteSet(u \ {c}) /\ Cardinality(u \ {c}) = n
          /\ IsFiniteSet(u \ {x}) /\ Cardinality(u \ {x}) = n
      BY OneLess
    <3>2. SumOf(f, u \ {c}) = f[x] + SumOf(f, (u \ {c}) \ {x})
      BY <1>2, <2>4, <3>1
    <3>3. SumOf(f, u \ {x}) = f[c] + SumOf(f, (u \ {x}) \ {c})
      BY <1>2, <2>4, <3>1
    <3>4. (u \ {c}) \ {x} = (u \ {x}) \ {c}
      OBVIOUS
    <3>5. PICK m : m = SumOf(f, (u \ {x}) \ {c})
      OBVIOUS
    <3>6. m \in Nat /\ f[x] \in Nat /\ f[c] \in Nat
      <4>1. IsFiniteSet((u \ {x}) \ {c})
        BY <3>1, FS_RemoveElement, FS_Subset
      <4> QED
        BY <3>5, <4>1, SumOfType
    <3>7. /\ SumOf(f, u) = f[c] + (f[x] + m)
          /\ f[x] + SumOf(f, u \ {x}) = f[x] + (f[c] + m)
      BY <2>2, <3>2, <3>3, <3>4, <3>5
    <3>8. \A i \in Nat, j \in Nat, k \in Nat : i + (j + k) = j + (i + k)
      OBVIOUS
    <3> QED
      BY <3>6, <3>7, <3>8
  <2> QED
    BY <2>3, <2>4
<1> HIDE DEF T
<1>3. Cardinality(S) \in T
  BY <1>1, <1>2, SetInduction, FS_CardinalityType
<1> QED
  BY <1>3 DEF T

(* It depends on what is added only. *)
LEMMA SumOfSame ==
  ASSUME NEW f, NEW g, NEW S, IsFiniteSet(S), \A x \in S : f[x] = g[x]
  PROVE  SumOf(f, S) = SumOf(g, S)
<1> DEFINE T == {n \in Nat : \A u \in SUBSET S : IsFiniteSet(u) /\ Cardinality(u) = n =>
                   SumOf(f, u) = SumOf(g, u)}
<1>1. 0 \in T
  <2> SUFFICES ASSUME NEW u \in SUBSET S, IsFiniteSet(u), Cardinality(u) = 0 PROVE SumOf(f, u) = SumOf(g, u)
    OBVIOUS
  <2>1. u = {}
    BY FS_EmptySet
  <2>2. SumOf(f, u) = 0 /\ SumOf(g, u) = 0
    BY <2>1, SumOfChosen
  <2> QED
    BY <2>2
<1>2. ASSUME NEW n \in Nat, n \in T PROVE n + 1 \in T
  <2> SUFFICES ASSUME NEW u \in SUBSET S, IsFiniteSet(u), Cardinality(u) = n + 1
               PROVE  SumOf(f, u) = SumOf(g, u)
    OBVIOUS
  <2>1. u # {}
    BY FS_EmptySet
  <2>2. PICK x \in u : x = Some(u)
    BY <2>1, SomeIsIn
  <2>3. IsFiniteSet(u \ {x}) /\ Cardinality(u \ {x}) = n
    BY <2>2, OneLess
  <2>4. SumOf(f, u \ {x}) = SumOf(g, u \ {x}) /\ f[x] = g[x]
    BY <1>2, <2>3
  <2>5. SumOf(f, u) = f[x] + SumOf(f, u \ {x}) /\ SumOf(g, u) = g[x] + SumOf(g, u \ {x})
    BY <2>1, <2>2, SumOfChosen
  <2> QED
    BY <2>4, <2>5
<1> HIDE DEF T
<1>3. Cardinality(S) \in T
  BY <1>1, <1>2, SetInduction, FS_CardinalityType
<1> QED
  BY <1>3 DEF T

(* The greatest of a finite set of numbers. *)
LEMMA MaxIsGreatest ==
  ASSUME NEW S \in SUBSET Nat, IsFiniteSet(S), S # {}
  PROVE  Max(S) \in S /\ \A x \in S : x <= Max(S)
<1> DEFINE T == {n \in Nat : \A u \in SUBSET S : IsFiniteSet(u) /\ Cardinality(u) = n + 1 =>
                   \E m \in u : \A x \in u : m >= x}
<1>1. 0 \in T
  <2> SUFFICES ASSUME NEW u \in SUBSET S, IsFiniteSet(u), Cardinality(u) = 1
               PROVE  \E m \in u : \A x \in u : m >= x
    OBVIOUS
  <2>1. PICK m : u = {m}
    BY FS_Singleton
  <2>2. m \in Nat
    BY <2>1
  <2> QED
    BY <2>1, <2>2
<1>2. ASSUME NEW n \in Nat, n \in T PROVE n + 1 \in T
  <2> SUFFICES ASSUME NEW u \in SUBSET S, IsFiniteSet(u), Cardinality(u) = (n + 1) + 1
               PROVE  \E m \in u : \A x \in u : m >= x
    OBVIOUS
  <2>1. u # {}
    BY FS_EmptySet
  <2>2. PICK c \in u : TRUE
    BY <2>1
  <2>3. IsFiniteSet(u \ {c}) /\ Cardinality(u \ {c}) = n + 1
    BY <2>2, OneLess
  <2>4. PICK m \in u \ {c} : \A x \in u \ {c} : m >= x
    BY <1>2, <2>3
  <2>5. m \in Nat /\ c \in Nat /\ \A x \in u : x \in Nat
    OBVIOUS
  <2>6. CASE m >= c
    BY <2>4, <2>5, <2>6
  <2>7. CASE c > m
    <3>1. \A x \in u : c >= x
      BY <2>4, <2>5, <2>7
    <3> QED
      BY <3>1
  <2> QED
    BY <2>5, <2>6, <2>7
<1> HIDE DEF T
<1>3. Cardinality(S) \in Nat /\ Cardinality(S) # 0
  BY FS_CardinalityType, FS_EmptySet
<1>4. Cardinality(S) - 1 \in Nat /\ Cardinality(S) = (Cardinality(S) - 1) + 1
  BY <1>3
<1>5. Cardinality(S) - 1 \in T
  BY <1>1, <1>2, <1>4, SetInduction
<1>6. \E m \in S : \A x \in S : m >= x
  BY <1>4, <1>5 DEF T
<1>7. Max(S) \in S /\ \A x \in S : Max(S) >= x
  BY <1>6 DEF Max
<1>8. \A x, y \in Nat : x >= y => y <= x
  OBVIOUS
<1> QED
  BY <1>7, <1>8

=============================================================================
