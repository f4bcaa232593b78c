---------------------------- MODULE DataLemmas ----------------------------
(***************************************************************************)
(* Facts about data of any size that the other proofs need.                *)
(***************************************************************************)
EXTENDS Naturals, Sequences, SequencesExt, FiniteSetTheorems, TLAPS

\* Induction, for a set of naturals: if the set had a gap, stepping by one
\* would map its part up to the gap into that part without 0, which is smaller.
LEMMA SetInduction ==
  ASSUME NEW S, 0 \in S, \A n \in Nat : n \in S => n + 1 \in S
  PROVE  \A n \in Nat : n \in S
  <1> SUFFICES ASSUME NEW n \in Nat, n \notin S PROVE FALSE
    OBVIOUS
  <1> DEFINE A == S \cap (0 .. n)
             B == A \ {0}
             f == [a \in A |-> a + 1]
  <1>1. IsFiniteSet(A) /\ Cardinality(A) \in Nat
    <2>1. IsFiniteSet(0 .. n)
      BY FS_Interval
    <2> QED
      BY <2>1, FS_Subset, FS_CardinalityType
  <1>2. 0 \in A
    OBVIOUS
  <1>3. f \in [A -> B]
    <2> SUFFICES ASSUME NEW a \in A PROVE a + 1 \in B
      OBVIOUS
    <2>1. a \in Nat /\ a \in S /\ a <= n /\ a # n
      OBVIOUS
    <2>2. a + 1 \in S
      BY <2>1
    <2> QED
      BY <2>1, <2>2
  <1>4. \A x, y \in A : f[x] = f[y] => x = y
    OBVIOUS
  <1>5. IsFiniteSet(B) /\ Cardinality(B) = Cardinality(A) - 1
    <2> HIDE DEF A
    <2> QED
      BY <1>1, <1>2, FS_RemoveElement
  <1>6. Cardinality(B) < Cardinality(A) /\ Cardinality(B) \in Nat
    <2> HIDE DEF A, B
    <2> QED
      BY <1>1, <1>5, FS_CardinalityType
  <1>7. \E x, y \in A : x # y /\ f[x] = f[y]
    <2> HIDE DEF A, B, f
    <2> QED
      BY <1>1, <1>3, <1>5, <1>6, FS_PigeonHole
  <1> QED
    BY <1>4, <1>7

\* The largest of a set that has the last position.
LEMMA MaxIsLast ==
  ASSUME NEW n \in Nat, NEW s \in SUBSET (1 .. n), n \in s
  PROVE  Max(s) = n
  <1>1. n \in s /\ \A y \in s : n >= y
    OBVIOUS
  <1>2. \A x \in s : (\A y \in s : x >= y) => x = n
    <2> SUFFICES ASSUME NEW x \in s, \A y \in s : x >= y PROVE x = n
      OBVIOUS
    <2>1. x \in 1 .. n /\ x >= n
      OBVIOUS
    <2> QED
      BY <2>1
  <1> QED
    BY <1>1, <1>2 DEF Max

\* A set of positions has a last one and a first one.
LEMMA LastPosition ==
  ASSUME NEW n \in Nat, NEW s \in SUBSET (1 .. n), s # {}
  PROVE  Max(s) \in s /\ \A y \in s : y <= Max(s)
  <1> DEFINE S == {m \in Nat : \A I \in SUBSET (1 .. m) : I # {} => \E x \in I : \A y \in I : x >= y}
  <1>1. 0 \in S
    <2>1. \A I \in SUBSET (1 .. 0) : I = {}
      OBVIOUS
    <2> QED
      BY <2>1
  <1>2. ASSUME NEW m \in Nat, m \in S PROVE m + 1 \in S
    <2> SUFFICES ASSUME NEW I \in SUBSET (1 .. m + 1), I # {} PROVE \E x \in I : \A y \in I : x >= y
      OBVIOUS
    <2>1. CASE m + 1 \in I
      BY <2>1
    <2>2. CASE m + 1 \notin I
      <3>1. I \in SUBSET (1 .. m)
        BY <2>2
      <3> QED
        BY <1>2, <3>1
    <2> QED
      BY <2>1, <2>2
  <1>3. \A m \in Nat : m \in S
    <2> HIDE DEF S
    <2> QED
      BY <1>1, <1>2, SetInduction
  <1>4. PICK x \in s : \A y \in s : x >= y
    BY <1>3
  <1>5. Max(s) \in s /\ \A y \in s : Max(s) >= y
    BY <1>4 DEF Max
  <1> QED
    BY <1>5

LEMMA FirstPosition ==
  ASSUME NEW n \in Nat, NEW s \in SUBSET (1 .. n), s # {}
  PROVE  Min(s) \in s /\ \A y \in s : Min(s) <= y
  <1> DEFINE S == {m \in Nat : \A I \in SUBSET (1 .. m) : I # {} => \E x \in I : \A y \in I : x =< y}
  <1>1. 0 \in S
    <2>1. \A I \in SUBSET (1 .. 0) : I = {}
      OBVIOUS
    <2> QED
      BY <2>1
  <1>2. ASSUME NEW m \in Nat, m \in S PROVE m + 1 \in S
    <2> SUFFICES ASSUME NEW I \in SUBSET (1 .. m + 1), I # {} PROVE \E x \in I : \A y \in I : x =< y
      OBVIOUS
    <2> DEFINE J == I \ {m + 1}
    <2>1. J \in SUBSET (1 .. m)
      OBVIOUS
    <2>2. CASE J = {}
      <3>1. I = {m + 1}
        BY <2>2
      <3> QED
        BY <3>1
    <2>3. CASE J # {}
      <3>1. PICK x \in J : \A y \in J : x =< y
        BY <1>2, <2>1, <2>3
      <3>2. x \in I /\ x =< m + 1
        BY <2>1
      <3> QED
        BY <3>1, <3>2
    <2> QED
      BY <2>2, <2>3
  <1>3. \A m \in Nat : m \in S
    <2> HIDE DEF S
    <2> QED
      BY <1>1, <1>2, SetInduction
  <1>4. PICK x \in s : \A y \in s : x =< y
    BY <1>3
  <1>5. Min(s) \in s /\ \A y \in s : Min(s) =< y
    BY <1>4 DEF Min
  <1> QED
    BY <1>5

\* g[i] joins the first i of the sequences b.
Joins(g, b, E, m) ==
    /\ g \in [1 .. m -> Seq(E)]
    /\ \A i \in 1 .. m : g[i] = IF i = 1 THEN b[i] ELSE g[i - 1] \o b[i]

\* Joining sequences one after the other is well defined: for every m there is
\* the function of the first m of them (by induction on m).
LEMMA JoinExists ==
  ASSUME NEW E, NEW b, NEW n \in Nat \ {0}, b \in [1 .. n -> Seq(E)]
  PROVE  \E g : Joins(g, b, E, n)
  <1> DEFINE S == {m \in Nat : m <= n => \E g : Joins(g, b, E, m)}
  <1>1. 0 \in S
    <2>1. Joins([i \in 1 .. 0 |-> b[i]], b, E, 0)
      BY DEF Joins
    <2> QED
      BY <2>1
  <1>2. ASSUME NEW m \in Nat, m \in S PROVE m + 1 \in S
    <2> SUFFICES ASSUME m + 1 <= n PROVE \E g : Joins(g, b, E, m + 1)
      OBVIOUS
    <2>1. PICK g : Joins(g, b, E, m)
      BY <1>2
    <2> DEFINE h == [i \in 1 .. m + 1 |-> IF i <= m THEN g[i] ELSE IF m = 0 THEN b[1] ELSE g[m] \o b[m + 1]]
    <2>2. \A i \in 1 .. m + 1 : h[i] \in Seq(E)
      <3> SUFFICES ASSUME NEW i \in 1 .. m + 1 PROVE h[i] \in Seq(E)
        OBVIOUS
      <3>1. CASE i <= m
        BY <2>1, <3>1 DEF Joins
      <3>2. CASE ~(i <= m) /\ m = 0
        BY <3>2
      <3>3. CASE ~(i <= m) /\ m # 0
        <4>1. g[m] \in Seq(E) /\ b[m + 1] \in Seq(E)
          BY <2>1, <3>3 DEF Joins
        <4>2. g[m] \o b[m + 1] \in Seq(E)
          BY <4>1
        <4> QED
          BY <3>3, <4>2
      <3> QED
        BY <3>1, <3>2, <3>3
    <2>3. \A i \in 1 .. m + 1 : h[i] = IF i = 1 THEN b[i] ELSE h[i - 1] \o b[i]
      <3> SUFFICES ASSUME NEW i \in 1 .. m + 1
                   PROVE  h[i] = IF i = 1 THEN b[i] ELSE h[i - 1] \o b[i]
        OBVIOUS
      <3>1. CASE i <= m
        <4>1. h[i] = g[i] /\ (i # 1 => h[i - 1] = g[i - 1])
          BY <3>1
        <4>2. g[i] = IF i = 1 THEN b[i] ELSE g[i - 1] \o b[i]
          <5>1. \A k \in 1 .. m : g[k] = IF k = 1 THEN b[k] ELSE g[k - 1] \o b[k]
            BY <2>1 DEF Joins
          <5>2. i \in 1 .. m
            BY <3>1
          <5> QED
            BY <5>1, <5>2
        <4> HIDE DEF h
        <4> QED
          BY <4>1, <4>2
      <3>2. CASE ~(i <= m)
        <4>1. i = m + 1
          BY <3>2
        <4> QED
          BY <4>1
      <3> QED
        BY <3>1, <3>2
    <2>4. Joins(h, b, E, m + 1)
      <3>1. h \in [1 .. m + 1 -> Seq(E)]
        BY <2>2 DEF Joins
      <3> HIDE DEF h
      <3> QED
        BY <2>3, <3>1 DEF Joins
    <2> QED
      BY <2>4
  <1>3. \A m \in Nat : m \in S
    <2> HIDE DEF S
    <2> QED
      BY <1>1, <1>2, SetInduction
  <1> QED
    BY <1>3

\* The same without a case.
Joined(g, b, E, n) ==
    /\ g \in [1 .. n -> Seq(E)]
    /\ g[1] = b[1] /\ \A i \in 1 .. n - 1 : g[i + 1] = g[i] \o b[i + 1]

\* What FlattenSeq does, as equations.
LEMMA FlattenEquations ==
  ASSUME NEW E, NEW b, NEW n \in Nat \ {0}, b \in [1 .. n -> Seq(E)]
  PROVE  \E g : Joined(g, b, E, n) /\ FlattenSeq(b) = g[n]
  <1> DEFINE R(g) == g = [i \in 1 .. Len(b) |-> IF i = 1 THEN b[i] ELSE g[i - 1] \o b[i]]
             c == CHOOSE g : R(g)
  <1>1. Len(b) = n
    OBVIOUS
  <1>2. PICK h : Joins(h, b, E, n)
    BY JoinExists
  <1>3. R(h)
    BY <1>1, <1>2 DEF Joins
  <1>4. R(c)
    <2> HIDE DEF R
    <2> QED
      BY <1>3
  <1>5. FlattenSeq(b) = c[n]
    BY <1>1 DEF FlattenSeq
  <1>6. \A i \in 1 .. n : c[i] = IF i = 1 THEN b[i] ELSE c[i - 1] \o b[i]
    <2> HIDE DEF c
    <2> QED
      BY <1>1, <1>4
  <1>7. c \in [1 .. n -> Seq(E)]
    <2> DEFINE S == {i \in Nat : i + 1 \in 1 .. n => c[i + 1] \in Seq(E)}
    <2> HIDE DEF c
    <2>1. 0 \in S
      BY <1>6
    <2>2. ASSUME NEW i \in Nat, i \in S PROVE i + 1 \in S
      <3> SUFFICES ASSUME i + 2 \in 1 .. n PROVE c[i + 2] \in Seq(E)
        OBVIOUS
      <3>1. c[i + 1] \in Seq(E) /\ b[i + 2] \in Seq(E)
        BY <2>2
      <3>2. c[i + 2] = IF i + 2 = 1 THEN b[i + 2] ELSE c[(i + 2) - 1] \o b[i + 2]
        BY <1>6
      <3>3. i + 2 # 1 /\ (i + 2) - 1 = i + 1
        OBVIOUS
      <3> QED
        BY <3>1, <3>2, <3>3
    <2>3. \A i \in Nat : i \in S
      <3> HIDE DEF S
      <3> QED
        BY <2>1, <2>2, SetInduction
    <2>4. \A i \in 1 .. n : c[i] \in Seq(E)
      <3> SUFFICES ASSUME NEW i \in 1 .. n PROVE c[i] \in Seq(E)
        OBVIOUS
      <3>1. i - 1 \in S /\ (i - 1) + 1 = i
        <4>1. i - 1 \in Nat /\ (i - 1) + 1 = i
          OBVIOUS
        <4> HIDE DEF S
        <4> QED
          BY <2>3, <4>1
      <3> QED
        BY <3>1
    <2> QED
      BY <1>1, <1>4, <2>4
  <1>8. c[1] = b[1]
    <2> HIDE DEF c
    <2> QED
      BY <1>6
  <1>9. ASSUME NEW i \in 1 .. n - 1 PROVE c[i + 1] = c[i] \o b[i + 1]
    <2> HIDE DEF c
    <2>1. c[i + 1] = IF i + 1 = 1 THEN b[i + 1] ELSE c[(i + 1) - 1] \o b[i + 1]
      BY <1>6
    <2>2. i + 1 # 1 /\ (i + 1) - 1 = i
      OBVIOUS
    <2> QED
      BY <2>1, <2>2
  <1>10. Joined(c, b, E, n)
    <2> HIDE DEF c
    <2> QED
      BY <1>7, <1>8, <1>9 DEF Joined
  <1> QED
    BY <1>5, <1>10
=============================================================================
