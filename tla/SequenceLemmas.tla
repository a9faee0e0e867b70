--------------------------- MODULE SequenceLemmas ---------------------------
(***************************************************************************)
(* What the proofs need of the natural numbers, of FlattenSeq, the         *)
(* concatenation of a sequence of sequences with which a save puts the new *)
(* paragraphs of a document together (WizardSave), of the extremes of sets *)
(* of offsets, and of the slices into which an offset divides a sequence   *)
(* (EditAlignment, TextChunks).  Induction is by least counterexample, on  *)
(* a set, from the well-foundedness of < on Nat.                           *)
(***************************************************************************)
EXTENDS SequencesExt, FiniteSetTheorems, TLAPS

\* Every set of naturals has a least element: the form in which the other
\* proofs do their induction (positions of a sequence, ages in a queue).
LEMMA LeastNatural ==
  ASSUME NEW T \in SUBSET Nat, T # {}
  PROVE  \E n \in T : \A m \in T : n <= m
<1> DEFINE R == {ss \in Nat \X Nat : ss[1] < ss[2]}
<1>1. IsWellFoundedOn(R, Nat)
  BY NatLessThanWellFounded, Zenon DEF OpToRel
<1> HIDE DEF R
<1>2. PICK n \in T : \A m \in T : ~ (<<m, n>> \in R)
  BY <1>1, WFMin
<1>3. \A m \in T : ~ (m < n)
  BY <1>2 DEF R
<1> QED
  BY <1>3

---------------------------------------------------------------------------
(* FlattenSeq, prefix by prefix *)

\* f[i] is the concatenation of the first i of the sequences ss, i <= n.
Flattens(f, ss, n) ==
    \A i \in 1..n : f[i] = IF i = 1 THEN ss[i] ELSE f[i-1] \o ss[i]

\* The prefixes can be concatenated, however many there are.
LEMMA FlattensExists ==
  ASSUME NEW ss, NEW k \in Nat
  PROVE  \E f : Flattens(f, ss, k)
<1> DEFINE Bad == {n \in Nat : ~ \E f : Flattens(f, ss, n)}
<1>1. SUFFICES ASSUME Bad # {} PROVE FALSE
  OBVIOUS
<1>2. PICK n \in Bad : \A m \in Bad : n <= m
  BY <1>1, LeastNatural
<1>3. n # 0
  BY <1>2 DEF Flattens
<1>4. PICK f : Flattens(f, ss, n-1)
  BY <1>2, <1>3
<1> DEFINE g == [i \in 1..n |->
                    IF i = n THEN (IF n = 1 THEN ss[n] ELSE f[n-1] \o ss[n])
                             ELSE f[i]]
<1>5. Flattens(g, ss, n)
  BY <1>2, <1>3, <1>4 DEF Flattens
<1> QED
  BY <1>2, <1>5

\* FlattenSeq is the last of those prefixes.
LEMMA FlattenUnfolds ==
  ASSUME NEW ss, Len(ss) \in Nat \ {0}
  PROVE  \E f : Flattens(f, ss, Len(ss)) /\ FlattenSeq(ss) = f[Len(ss)]
<1> DEFINE Def(g) == [i \in 1..Len(ss) |->
                         IF i = 1 THEN ss[i] ELSE g[i-1] \o ss[i]]
           f == CHOOSE g : g = Def(g)
<1>1. PICK g : Flattens(g, ss, Len(ss))
  BY FlattensExists
<1> DEFINE h == [i \in 1..Len(ss) |-> g[i]]
<1>2. h = Def(h)
  <2>1. \A i \in 1..Len(ss) : h[i] = IF i = 1 THEN ss[i] ELSE h[i-1] \o ss[i]
    BY <1>1 DEF Flattens
  <2> QED
    BY <2>1
<1>3. f = Def(f)
  <2> HIDE DEF h
  <2> QED
    BY <1>2, Zenon
<1>4. FlattenSeq(ss) = f[Len(ss)]
  BY Zenon DEF FlattenSeq
<1> HIDE DEF f
<1>5. Flattens(f, ss, Len(ss))
  BY <1>3 DEF Flattens
<1> QED
  BY <1>4, <1>5

\* The elements of s, as a relation the provers can use without Range.
Occurs(s, x) == \E i \in 1..Len(s) : s[i] = x

\* Range, of a sequence.
LEMMA RangeOccurs ==
  ASSUME NEW S, NEW s \in Seq(S)
  PROVE  \A x : x \in Range(s) <=> Occurs(s, x)
BY DEF Range, Occurs

\* What a concatenation holds.
LEMMA ConcatOccurs ==
  ASSUME NEW S, NEW s \in Seq(S), NEW t \in Seq(S)
  PROVE  /\ s \o t \in Seq(S)
         /\ \A x : Occurs(s \o t, x) <=> Occurs(s, x) \/ Occurs(t, x)
<1>1. s \o t \in Seq(S) /\ Len(s \o t) = Len(s) + Len(t)
  OBVIOUS
<1>2. \A i \in 1..Len(s) : i \in 1..Len(s \o t) /\ (s \o t)[i] = s[i]
  OBVIOUS
<1>3. \A i \in 1..Len(t) : Len(s) + i \in 1..Len(s \o t) /\ (s \o t)[Len(s) + i] = t[i]
  OBVIOUS
<1>4. \A i \in 1..Len(s \o t) :
         \/ i \in 1..Len(s) /\ (s \o t)[i] = s[i]
         \/ i - Len(s) \in 1..Len(t) /\ (s \o t)[i] = t[i - Len(s)]
  OBVIOUS
<1> QED
  BY <1>1, <1>2, <1>3, <1>4 DEF Occurs

\* Each prefix is a sequence, of exactly the elements of its parts.
LEMMA FlattensOccurs ==
  ASSUME NEW S, NEW ss \in Seq(Seq(S)), NEW f, Flattens(f, ss, Len(ss)),
         NEW k \in 1..Len(ss)
  PROVE  /\ f[k] \in Seq(S)
         /\ \A x : Occurs(f[k], x) <=> \E i \in 1..k : Occurs(ss[i], x)
<1> DEFINE Good(n) == /\ f[n] \in Seq(S)
                      /\ \A x : Occurs(f[n], x) <=> \E i \in 1..n : Occurs(ss[i], x)
           Bad == {n \in 1..Len(ss) : ~ Good(n)}
<1>1. Len(ss) \in Nat /\ \A i \in 1..Len(ss) : ss[i] \in Seq(S)
  OBVIOUS
<1>2. Good(1)
  <2>1. 1 \in 1..Len(ss) /\ 1..1 = {1}
    BY <1>1
  <2>2. f[1] = ss[1]
    BY <2>1 DEF Flattens
  <2> QED
    BY <1>1, <2>1, <2>2
<1>3. ASSUME NEW n \in 1..Len(ss), n # 1, Good(n-1)
      PROVE  Good(n)
  <2>1. f[n] = f[n-1] \o ss[n] /\ ss[n] \in Seq(S)
    BY <1>1, <1>3 DEF Flattens
  <2>2. f[n] \in Seq(S) /\ \A x : Occurs(f[n], x) <=> Occurs(f[n-1], x) \/ Occurs(ss[n], x)
    BY <1>3, <2>1, ConcatOccurs
  <2>3. 1..n = 1..(n-1) \cup {n}
    BY <1>1, <1>3
  <2> QED
    BY <1>3, <2>2, <2>3
<1> HIDE DEF Good
<1>4. SUFFICES ASSUME Bad # {} PROVE FALSE
  BY DEF Good
<1>5. Bad \in SUBSET Nat
  BY <1>1
<1>6. PICK n \in Bad : \A m \in Bad : n <= m
  BY <1>4, <1>5, LeastNatural
<1>7. n # 1 /\ n \in 1..Len(ss) /\ n - 1 \in 1..Len(ss) /\ ~ (n <= n - 1)
  BY <1>1, <1>2, <1>6
<1>8. Good(n-1)
  BY <1>6, <1>7
<1> QED
  BY <1>3, <1>6, <1>7, <1>8

\* FlattenSeq loses and invents nothing.
LEMMA FlattenElements ==
  ASSUME NEW S, NEW ss \in Seq(Seq(S))
  PROVE  /\ FlattenSeq(ss) \in Seq(S)
         /\ \A x : x \in Range(FlattenSeq(ss))
                      <=> \E i \in DOMAIN ss : x \in Range(ss[i])
<1>1. CASE Len(ss) = 0
  BY <1>1 DEF FlattenSeq, Range
<1>2. CASE Len(ss) # 0
  <2>1. PICK f : Flattens(f, ss, Len(ss)) /\ FlattenSeq(ss) = f[Len(ss)]
    BY <1>2, FlattenUnfolds
  <2>0. Len(ss) \in 1..Len(ss) /\ DOMAIN ss = 1..Len(ss)
    BY <1>2
  <2>2. /\ f[Len(ss)] \in Seq(S)
        /\ \A x : Occurs(f[Len(ss)], x) <=> \E i \in 1..Len(ss) : Occurs(ss[i], x)
    BY <2>0, <2>1, FlattensOccurs
  <2>3. \A i \in 1..Len(ss) : ss[i] \in Seq(S)
    OBVIOUS
  <2>4. \A i \in 1..Len(ss) : \A x : x \in Range(ss[i]) <=> Occurs(ss[i], x)
    BY <2>3, RangeOccurs
  <2>5. \A x : x \in Range(FlattenSeq(ss)) <=> Occurs(FlattenSeq(ss), x)
    BY <2>1, <2>2, RangeOccurs
  <2> QED
    BY <2>0, <2>1, <2>2, <2>4, <2>5
<1> QED
  BY <1>1, <1>2
---------------------------------------------------------------------------
(* A flattened sequence without duplicates *)

\* x occurs at two positions of s.
Twice(s, x) == \E i, j \in 1..Len(s) : i # j /\ s[i] = x /\ s[j] = x

\* What a concatenation holds twice.
LEMMA ConcatTwice ==
  ASSUME NEW S, NEW s \in Seq(S), NEW t \in Seq(S), NEW x,
         Twice(s, x) \/ (Occurs(s, x) /\ Occurs(t, x))
  PROVE  Twice(s \o t, x)
<1>1. \A i \in 1..Len(s) : i \in 1..Len(s \o t) /\ (s \o t)[i] = s[i]
  OBVIOUS
<1>2. \A i \in 1..Len(t) : Len(s) + i \in 1..Len(s \o t) /\ (s \o t)[Len(s) + i] = t[i]
  OBVIOUS
<1>3. CASE Twice(s, x)
  BY <1>1, <1>3 DEF Twice
<1>4. CASE Occurs(s, x) /\ Occurs(t, x)
  <2>1. PICK i \in 1..Len(s) : s[i] = x
    BY <1>4 DEF Occurs
  <2>2. PICK j \in 1..Len(t) : t[j] = x
    BY <1>4 DEF Occurs
  <2>3. i # Len(s) + j
    OBVIOUS
  <2> QED
    BY <1>1, <1>2, <2>1, <2>2, <2>3 DEF Twice
<1> QED
  BY <1>3, <1>4

\* What two of the parts hold, every prefix with both holds twice.
LEMMA FlattensTwice ==
  ASSUME NEW S, NEW ss \in Seq(Seq(S)), NEW f, Flattens(f, ss, Len(ss)),
         NEW p \in 1..Len(ss), NEW q \in 1..Len(ss), p < q,
         NEW x, Occurs(ss[p], x), Occurs(ss[q], x),
         NEW k \in q..Len(ss)
  PROVE  Twice(f[k], x)
<1> DEFINE Bad == {n \in q..Len(ss) : ~ Twice(f[n], x)}
<1>1. Len(ss) \in Nat /\ \A i \in 1..Len(ss) : ss[i] \in Seq(S)
  OBVIOUS
<1>2. SUFFICES ASSUME Bad # {} PROVE FALSE
  OBVIOUS
<1>3. Bad \in SUBSET Nat
  BY <1>1
<1>4. PICK n \in Bad : \A m \in Bad : n <= m
  BY <1>2, <1>3, LeastNatural
<1>5. n \in 1..Len(ss) /\ n - 1 \in 1..Len(ss) /\ n # 1 /\ q <= n
  BY <1>1, <1>4
<1>6. f[n] = f[n-1] \o ss[n] /\ ss[n] \in Seq(S) /\ f[n-1] \in Seq(S)
  BY <1>1, <1>5, FlattensOccurs DEF Flattens
<1>7. Twice(f[n-1], x) \/ (Occurs(f[n-1], x) /\ Occurs(ss[n], x))
  <2>1. CASE n = q
    <3>1. p \in 1..(n-1)
      BY <1>1, <2>1
    <3> QED
      BY <1>5, <2>1, <3>1, FlattensOccurs
  <2>2. CASE n # q
    <3>1. n - 1 \in q..Len(ss) /\ ~ (n <= n - 1)
      BY <1>1, <1>5, <2>2
    <3> QED
      BY <1>4, <3>1
  <2> QED
    BY <2>1, <2>2
<1>8. Twice(f[n], x)
  BY SMTT(30), <1>6, <1>7, ConcatTwice
<1> QED
  BY <1>4, <1>8

\* A sequence with as many elements as positions has no element twice.
LEMMA NoneTwice ==
  ASSUME NEW S, NEW s \in Seq(S), Cardinality(Range(s)) = Len(s), NEW x
  PROVE  ~ Twice(s, x)
<1>1. Len(s) \in Nat /\ DOMAIN s = 1..Len(s)
  OBVIOUS
<1>2. IsFiniteSet(1..Len(s)) /\ Cardinality(1..Len(s)) = Len(s)
  <2>1. \A n \in Nat : IsFiniteSet(1..n) /\ Cardinality(1..n) = n
    <3>1. TAKE n \in Nat
    <3>2. 1 \in Int /\ n \in Int
      OBVIOUS
    <3>3. IsFiniteSet(1..n) /\ Cardinality(1..n) = IF 1 > n THEN 0 ELSE n - 1 + 1
      BY <3>2, FS_Interval, Zenon
    <3> QED
      BY <3>3
  <2> QED
    BY <1>1, <2>1
<1>3. s \in Surjection(1..Len(s), Range(s))
  <2>1. s \in [1..Len(s) -> Range(s)]
    <3>1. s = [i \in 1..Len(s) |-> s[i]]
      OBVIOUS
    <3>2. \A i \in 1..Len(s) : s[i] \in Range(s)
      BY <1>1 DEF Range
    <3> QED
      BY <3>1, <3>2
  <2>2. \A t \in Range(s) : \E i \in 1..Len(s) : s[i] = t
    BY <1>1 DEF Range
  <2> QED
    BY <2>1, <2>2 DEF Surjection
<1>4. s \in Injection(1..Len(s), Range(s))
  BY <1>2, <1>3, FS_SurjSameCardinalityImpliesInj
<1> QED
  BY <1>4 DEF Injection, IsInjective, Twice

\* The parts of such a flattened sequence are disjoint.
LEMMA FlattenDistinct ==
  ASSUME NEW S, NEW ss \in Seq(Seq(S)),
         Cardinality(Range(FlattenSeq(ss))) = Len(FlattenSeq(ss)),
         NEW p \in DOMAIN ss, NEW q \in DOMAIN ss,
         NEW x, x \in Range(ss[p]), x \in Range(ss[q])
  PROVE  p = q
<1>1. Len(ss) \in Nat \ {0} /\ DOMAIN ss = 1..Len(ss) /\ Len(ss) \in 1..Len(ss)
  OBVIOUS
<1>2. PICK f : Flattens(f, ss, Len(ss)) /\ FlattenSeq(ss) = f[Len(ss)]
  BY <1>1, FlattenUnfolds
<1>3. FlattenSeq(ss) \in Seq(S)
  BY FlattenElements
<1>4. ~ Twice(f[Len(ss)], x)
  BY <1>2, <1>3, NoneTwice
<1>5. ss[p] \in Seq(S) /\ ss[q] \in Seq(S)
  OBVIOUS
<1>6. Occurs(ss[p], x) /\ Occurs(ss[q], x)
  BY <1>5, RangeOccurs
<1>7. \A a, b \in 1..Len(ss) :
         a < b /\ Occurs(ss[a], x) /\ Occurs(ss[b], x) => Twice(f[Len(ss)], x)
  <2>1. TAKE a \in 1..Len(ss), b \in 1..Len(ss)
  <2>2. Len(ss) \in b..Len(ss)
    BY <1>1
  <2> QED
    BY <1>2, <2>2, FlattensTwice
<1> QED
  BY <1>1, <1>4, <1>6, <1>7
---------------------------------------------------------------------------
(* Bounds of sets of offsets, and slices of sequences *)

\* What Append makes, position by position.
LEMMA Appended ==
  ASSUME NEW S, NEW s \in Seq(S), NEW x \in S
  PROVE  /\ Append(s, x) \in Seq(S) /\ Append(s, x) # <<>> /\ Len(s) \in Nat
         /\ Len(Append(s, x)) = Len(s) + 1
         /\ DOMAIN s = 1..Len(s) /\ DOMAIN Append(s, x) = 1..(Len(s) + 1)
         /\ \A n \in 1..Len(s) : Append(s, x)[n] = s[n]
         /\ Append(s, x)[Len(s) + 1] = x
OBVIOUS

\* The least and the greatest of offsets that are within bounds.
LEMMA Extremes ==
  ASSUME NEW S, NEW n \in Nat, S \subseteq 0..n, S # {}
  PROVE  /\ Min(S) \in S /\ \A x \in S : Min(S) <= x
         /\ Max(S) \in S /\ \A x \in S : x <= Max(S)
<1>1. \E m \in S : \A x \in S : m <= x
  BY LeastNatural
<1>2. \E m \in S : \A x \in S : x <= m
  <2> DEFINE T == {n - x : x \in S}
  <2>1. T \in SUBSET Nat /\ T # {}
    <3>1. \A x \in S : n - x \in Nat
      OBVIOUS
    <3> QED
      BY <3>1
  <2>2. PICK t \in T : \A y \in T : t <= y
    BY <2>1, LeastNatural
  <2>3. PICK m \in S : t = n - m
    BY <2>2
  <2>4. ASSUME NEW x \in S PROVE x <= m
    <3>1. n - x \in T
      OBVIOUS
    <3>2. t <= n - x
      BY <2>2, <3>1
    <3> QED
      BY <2>3, <3>2
  <2> QED
    BY <2>3, <2>4
<1> QED
  BY <1>1, <1>2 DEF Min, Max

\* A slice of a sequence: its length and its elements.
LEMMA Slice ==
  ASSUME NEW S, NEW s \in Seq(S), NEW a \in Nat, NEW b \in Nat, NEW c \in Nat,
         a <= b, b <= Len(s), c = a + 1
  PROVE  /\ SubSeq(s, c, b) \in Seq(S) /\ Len(SubSeq(s, c, b)) = b - a
         /\ \A i \in 1..(b - a) : SubSeq(s, c, b)[i] = s[a + i]
<1>1. PICK l \in Nat : l = Len(s) /\ \A i \in 1..l : s[i] \in S
  OBVIOUS
<1>2. PICK m \in Nat : m = b - a
  OBVIOUS
<1>3. PICK x : x = SubSeq(s, c, b)
  OBVIOUS
<1>4. x = [i \in 1..m |-> s[a + i]]
  <2>1. x = [i \in 1..(b - c + 1) |-> s[i + c - 1]]
    BY <1>3 DEF SubSeq
  <2>2. b - c + 1 = m /\ \A i \in 1..m : i + c - 1 = a + i
    BY <1>2
  <2> QED
    BY <2>1, <2>2
<1>5. \A i \in 1..m : a + i \in 1..l
  BY <1>1, <1>2
<1>6. x \in Seq(S) /\ Len(x) = m /\ \A i \in 1..m : x[i] = s[a + i]
  BY <1>1, <1>2, <1>4, <1>5
<1> QED
  BY <1>2, <1>3, <1>6

\* Two slices put together.
LEMMA Slices ==
  ASSUME NEW S, NEW s \in Seq(S), NEW a \in Nat, NEW b \in Nat, a <= b, b <= Len(s)
  PROVE  SubSeq(s, 1, a) \o SubSeq(s, a + 1, b) = SubSeq(s, 1, b)
<1>1. PICK x, y, z : x = SubSeq(s, a + 1, b) /\ y = SubSeq(s, 1, a) /\ z = SubSeq(s, 1, b)
  OBVIOUS
<1>2. x \in Seq(S) /\ Len(x) = b - a /\ \A i \in 1..(b - a) : x[i] = s[a + i]
  <2>1. a + 1 \in Nat
    OBVIOUS
  <2> QED
    BY <1>1, <2>1, Slice
<1>3. y \in Seq(S) /\ Len(y) = a /\ \A i \in 1..a : y[i] = s[i]
  <2>1. 0 \in Nat /\ 1 \in Nat /\ 1 = 0 + 1 /\ 0 <= a /\ a <= Len(s)
    OBVIOUS
  <2>2. y \in Seq(S) /\ Len(y) = a - 0 /\ \A i \in 1..(a - 0) : y[i] = s[0 + i]
    BY <1>1, <2>1, Slice
  <2> QED
    BY <2>2
<1>4. z \in Seq(S) /\ Len(z) = b /\ \A i \in 1..b : z[i] = s[i]
  <2>1. 0 \in Nat /\ 1 \in Nat /\ 1 = 0 + 1 /\ 0 <= b
    OBVIOUS
  <2>2. z \in Seq(S) /\ Len(z) = b - 0 /\ \A i \in 1..(b - 0) : z[i] = s[0 + i]
    BY <1>1, <2>1, Slice
  <2> QED
    BY <2>2
<1>5. PICK w : w = y \o x
  OBVIOUS
<1>6. w \in Seq(S) /\ Len(w) = Len(y) + Len(x)
      /\ \A i \in 1..(Len(y) + Len(x)) : w[i] = IF i <= Len(y) THEN y[i] ELSE x[i - Len(y)]
  <2>1. y \in Seq(S) /\ x \in Seq(S)
    BY <1>2, <1>3
  <2> QED
    BY <1>5, <2>1
<1>7. Len(w) = b /\ \A i \in 1..b : w[i] = IF i <= a THEN y[i] ELSE x[i - a]
  <2>1. Len(y) = a /\ Len(x) = b - a /\ Len(y) + Len(x) = b
    BY <1>2, <1>3
  <2> QED
    BY <1>6, <2>1
<1>8. ASSUME NEW i \in 1..b PROVE w[i] = z[i]
  <2>1. CASE i <= a
    <3>1. i \in 1..a
      BY <2>1
    <3> QED
      BY <1>3, <1>4, <1>7, <2>1, <3>1
  <2>2. CASE i > a
    <3>1. i - a \in 1..(b - a) /\ a + (i - a) = i /\ ~ (i <= a)
      BY <2>2
    <3>2. x[i - a] = s[i]
      BY <1>2, <3>1
    <3> QED
      BY <1>4, <1>7, <3>1, <3>2
  <2> QED
    BY <2>1, <2>2
<1>9. w = z
  BY <1>4, <1>6, <1>7, <1>8
<1> QED
  BY <1>1, <1>5, <1>9

\* Slices of a sequence that follow one another are the sequence.
LEMMA FlattenSlices ==
  ASSUME NEW S, NEW s \in Seq(S), NEW ss, Len(ss) \in Nat \ {0}, NEW at,
         \A p \in 0..Len(ss) : at[p] \in Nat /\ at[p] <= Len(s),
         at[0] = 0, at[Len(ss)] = Len(s),
         \A p \in 1..Len(ss) : at[p - 1] <= at[p] /\ ss[p] = SubSeq(s, at[p - 1] + 1, at[p])
  PROVE  FlattenSeq(ss) = s
<1>1. PICK f : Flattens(f, ss, Len(ss)) /\ FlattenSeq(ss) = f[Len(ss)]
  BY FlattenUnfolds
<1>2. PICK m \in Nat \ {0} : m = Len(ss)
  OBVIOUS
<1> DEFINE Bad == {n \in 1..m : f[n] # SubSeq(s, 1, at[n])}
<1>3. Bad = {}
  <2>1. SUFFICES ASSUME Bad # {} PROVE FALSE
    OBVIOUS
  <2>2. Bad \in SUBSET Nat
    BY <1>2
  <2>3. PICK n \in Bad : \A k \in Bad : n <= k
    BY <2>1, <2>2, LeastNatural
  <2>4. n \in 1..m /\ f[n] # SubSeq(s, 1, at[n])
    OBVIOUS
  <2>5. f[n] = IF n = 1 THEN ss[n] ELSE f[n-1] \o ss[n]
    BY <1>1, <1>2, <2>4 DEF Flattens
  <2>6. PICK a \in Nat, b \in Nat : a = at[n - 1] /\ b = at[n] /\ a <= b /\ b <= Len(s)
    <3>1. n \in 0..m /\ n - 1 \in 0..m
      BY <1>2, <2>4
    <3> QED
      BY <1>2, <2>4, <3>1
  <2>7. ss[n] = SubSeq(s, a + 1, b)
    BY <1>2, <2>4, <2>6
  <2>8. CASE n = 1
    <3>1. a = 0 /\ a + 1 = 1
      BY <2>6, <2>8
    <3> QED
      BY <2>4, <2>5, <2>6, <2>7, <2>8, <3>1
  <2>9. CASE n # 1
    <3>1. n - 1 \in 1..m /\ n - 1 < n
      BY <1>2, <2>4, <2>9
    <3>2. n - 1 \notin Bad
      BY <2>3, <2>4, <3>1
    <3>3. f[n - 1] = SubSeq(s, 1, a)
      BY <2>6, <3>1, <3>2
    <3>4. SubSeq(s, 1, a) \o SubSeq(s, a + 1, b) = SubSeq(s, 1, b)
      BY <2>6, Slices
    <3> QED
      BY <2>4, <2>5, <2>6, <2>7, <2>9, <3>3, <3>4
  <2> QED
    BY <2>8, <2>9
<1>4. f[m] = SubSeq(s, 1, Len(s))
  <2>1. m \in 1..m
    BY <1>2
  <2> QED
    BY <1>2, <1>3, <2>1
<1>5. SubSeq(s, 1, Len(s)) = s
  OBVIOUS
<1> QED
  BY <1>1, <1>2, <1>4, <1>5

---------------------------------------------------------------------------
(* Recursion over the natural numbers, and finite sets of them *)

\* What holds at 0, and at each number with its predecessor, holds at all of them.
LEMMA Upward ==
  ASSUME NEW N \in Nat, NEW G, 0 \in G, \A n \in 1..N : n - 1 \in G => n \in G
  PROVE  \A n \in 0..N : n \in G
<1> DEFINE T == {n \in 0..N : n \notin G}
<1>1. SUFFICES ASSUME T # {} PROVE FALSE
  OBVIOUS
<1>2. PICK n \in T : \A m \in T : n <= m
  <2>1. T \in SUBSET Nat
    OBVIOUS
  <2> QED
    BY <1>1, <2>1, LeastNatural
<1>3. n \in 1..N /\ n - 1 \in 0..N /\ n - 1 \notin T
  BY <1>2
<1> QED
  BY <1>2, <1>3

\* A recursion from base, whose n-th step leads from T[n - 1] into T[n], and a solution.
StepsInto(next, T, base, N) ==
    base \in T[0] /\ \A n \in 1..N : \A x \in T[n - 1] : next[n][x] \in T[n]
Solves(g, next, T, base, N) ==
    /\ g[0] = base /\ \A n \in 0..N : g[n] \in T[n]
    /\ \A n \in 1..N : g[n] = next[n][g[n - 1]]

\* There is one, however long the recursion is.
LEMMA Iterates ==
  ASSUME NEW N \in Nat, NEW T, NEW base, NEW next, StepsInto(next, T, base, N)
  PROVE  \E g : Solves(g, next, T, base, N)
<1> DEFINE G == {m \in Nat : \E g : Solves(g, next, T, base, m)}
<1>1. 0 \in G
  <2> DEFINE g == [n \in 0..0 |-> base]
  <2>1. Solves(g, next, T, base, 0)
    BY DEF Solves, StepsInto
  <2> QED
    BY <2>1
<1>2. ASSUME NEW m \in 1..N, m - 1 \in G PROVE m \in G
  <2> USE DEF Solves, StepsInto
  <2>1. PICK g : Solves(g, next, T, base, m - 1)
    BY <1>2
  <2> DEFINE h == [n \in 0..m |-> IF n = m THEN next[m][g[m - 1]] ELSE g[n]]
  <2>2. \A n \in 0..m : n # m => n \in 0..(m - 1) /\ h[n] = g[n]
    OBVIOUS
  <2>3. h[m] = next[m][g[m - 1]] /\ m - 1 \in 0..(m - 1) /\ 0 \in 0..m /\ m # 0 /\ m \in Nat
    OBVIOUS
  <2> HIDE DEF h
  <2>4. g[m - 1] \in T[m - 1] /\ h[m] \in T[m]
    BY <2>1, <2>3
  <2>5. \A n \in 1..m : n - 1 \in 0..m /\ n - 1 # m /\ n \in 0..m /\ (n # m => n \in 1..(m - 1))
    OBVIOUS
  <2>6. h[0] = base /\ \A n \in 0..m : h[n] \in T[n]
    BY <2>1, <2>2, <2>3, <2>4
  <2>7. \A n \in 1..m : h[n] = next[n][h[n - 1]]
    BY <2>1, <2>2, <2>3, <2>5
  <2> QED
    BY <2>3, <2>6, <2>7
<1>3. \A n \in 0..N : n \in G
  <2> HIDE DEF G
  <2> QED
    BY <1>1, <1>2, Upward
<1> QED
  BY <1>3

\* The extremes of a bounded set of integers.
LEMMA IntegerExtremes ==
  ASSUME NEW a \in Int, NEW b \in Int, NEW S, S \subseteq a..b, S # {}
  PROVE  /\ Min(S) \in S /\ \A x \in S : Min(S) <= x
         /\ Max(S) \in S /\ \A x \in S : x <= Max(S)
<1>1. \E m \in S : \A x \in S : m <= x
  <2> DEFINE T == {x - a : x \in S}
  <2>1. T \in SUBSET Nat /\ T # {}
    <3>1. \A x \in S : x - a \in Nat
      OBVIOUS
    <3> QED
      BY <3>1
  <2>2. PICK t \in T : \A y \in T : t <= y
    BY <2>1, LeastNatural
  <2>3. PICK m \in S : t = m - a
    BY <2>2
  <2>4. ASSUME NEW x \in S PROVE m <= x
    <3>1. x - a \in T
      OBVIOUS
    <3>2. t <= x - a
      BY <2>2, <3>1
    <3> QED
      BY <2>3, <3>2
  <2> QED
    BY <2>3, <2>4
<1>2. \E m \in S : \A x \in S : x <= m
  <2> DEFINE T == {b - x : x \in S}
  <2>1. T \in SUBSET Nat /\ T # {}
    <3>1. \A x \in S : b - x \in Nat
      OBVIOUS
    <3> QED
      BY <3>1
  <2>2. PICK t \in T : \A y \in T : t <= y
    BY <2>1, LeastNatural
  <2>3. PICK m \in S : t = b - m
    BY <2>2
  <2>4. ASSUME NEW x \in S PROVE x <= m
    <3>1. b - x \in T
      OBVIOUS
    <3>2. t <= b - x
      BY <2>2, <3>1
    <3> QED
      BY <2>3, <3>2
  <2> QED
    BY <2>3, <2>4
<1>3. Min(S) = CHOOSE x \in S : \A y \in S : x <= y
  BY Zenon DEF Min
<1>4. Max(S) = CHOOSE x \in S : \A y \in S : x >= y
  BY Zenon DEF Max
<1>5. \A x, y \in S : x <= y <=> y >= x
  OBVIOUS
<1>6. \E m \in S : \A x \in S : m >= x
  BY <1>2, <1>5
<1>7. Min(S) \in S /\ \A x \in S : Min(S) <= x
  BY <1>1, <1>3, Zenon
<1>8. Max(S) \in S /\ \A x \in S : Max(S) >= x
  BY <1>4, <1>6, Zenon
<1> QED
  BY <1>5, <1>7, <1>8

\* As many values as places, when no two places have the same.
LEMMA DistinctCount ==
  ASSUME NEW n \in Nat, NEW f, \A p, q \in 1..n : f[p] = f[q] => p = q,
         NEW S, \A x : x \in S <=> \E p \in 1..n : x = f[p]
  PROVE  Cardinality(S) = n
<1> DEFINE g == [p \in 1..n |-> f[p]]
<1>1. g \in Surjection(1..n, S)
  <2>1. g \in [1..n -> S]
    OBVIOUS
  <2>2. \A v \in S : \E p \in 1..n : g[p] = v
    OBVIOUS
  <2> QED
    BY <2>1, <2>2, Zenon DEF Surjection
<1>2. g \in Injection(1..n, S)
  <2>1. g \in [1..n -> S]
    OBVIOUS
  <2>2. \A p, q \in 1..n : g[p] = g[q] => p = q
    OBVIOUS
  <2> QED
    BY <2>1, <2>2, Zenon DEF Injection, IsInjective
<1>3. IsFiniteSet(1..n) /\ Cardinality(1..n) = n
  BY FS_Interval
<1> HIDE DEF g
<1>4. Cardinality(S) = Cardinality(1..n)
  BY <1>1, <1>2, <1>3, FS_Surjection
<1> QED
  BY <1>3, <1>4

\* Different places, one for each number up to n.
Places(at, n) ==
    (\A p \in 1..n : at[p] \in 1..n) /\ \A p, q \in 1..n : at[p] = at[q] => p = q

\* n different numbers of 1..n are all of them.
LEMMA PlacesFilled ==
  ASSUME NEW n \in Nat, NEW at, Places(at, n)
  PROVE  \A i \in 1..n : \E p \in 1..n : at[p] = i
<1> DEFINE g == [p \in 1..n |-> at[p]]
<1>1. g \in Injection(1..n, 1..n)
  <2>1. g \in [1..n -> 1..n]
    BY DEF Places
  <2>2. \A p, q \in 1..n : g[p] = g[q] => p = q
    BY DEF Places
  <2> QED
    BY <2>1, <2>2, Zenon DEF Injection, IsInjective
<1>2. IsFiniteSet(1..n)
  BY FS_Interval
<1>3. \A p \in 1..n : g[p] = at[p]
  OBVIOUS
<1> HIDE DEF g
<1>4. g \in Surjection(1..n, 1..n)
  BY <1>1, <1>2, FS_Injection
<1>5. \A i \in 1..n : \E p \in 1..n : g[p] = i
  BY <1>4, Zenon DEF Surjection
<1> QED
  BY <1>3, <1>5
=============================================================================
