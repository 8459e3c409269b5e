------------------------------ MODULE Counting ------------------------------
(***************************************************************************)
(* Facts about sets of naturals that the proofs of several families share: *)
(* least and greatest members, the numbering and the ranking of a finite   *)
(* set, and how often members of a set occur in a sequence.                *)
(***************************************************************************)
EXTENDS Integers, Sequences, FiniteSets, FiniteSetTheorems, WellFoundedInduction, TLAPS

\* A set of naturals that is not empty has a least member.
LEMMA Least ==
    ASSUME NEW S \in SUBSET Nat, S # {}
    PROVE  \E x \in S : \A y \in S : x <= y
<1>1. PICK x \in S : \A y \in S : ~ (<<y, x>> \in OpToRel(<, Nat))
  BY NatLessThanWellFounded, WFMin
<1>2. \A y \in S : ~(y < x)
  BY <1>1 DEF OpToRel
<1> QED BY <1>2

-----------------------------------------------------------------------------
(* The members of a finite set of naturals in their order.                 *)

Below(S, p) == {q \in S : q < p}

\* Counting the smaller members numbers a finite set from 0, with no gap.
LEMMA Numbering ==
    ASSUME NEW S \in SUBSET Nat, IsFiniteSet(S)
    PROVE  \A i \in 1..Cardinality(S) :
               \E p \in S : Cardinality(Below(S, p)) = i - 1
<1> DEFINE C == Cardinality(S)
           f == [p \in S |-> Cardinality(Below(S, p))]
           T == 0..(C - 1)
<1>0. \A x \in S : x \in Nat
  OBVIOUS
<1>1. C \in Nat
  BY FS_CardinalityType
<1>2. \A p \in S : IsFiniteSet(Below(S, p)) /\ f[p] \in Nat /\ f[p] < C
  <2> TAKE p \in S
  <2>1. Below(S, p) \in SUBSET S /\ p \notin Below(S, p)
    BY DEF Below
  <2>2. /\ IsFiniteSet(Below(S, p)) /\ f[p] <= C
        /\ f[p] = C => S = Below(S, p)
    BY <2>1, FS_Subset
  <2>3. f[p] \in Nat
    BY <2>2, FS_CardinalityType
  <2> QED BY <1>1, <2>1, <2>2, <2>3
<1>3. ASSUME NEW p \in S, NEW q \in S, p < q
      PROVE  f[p] < f[q]
  <2>1. Below(S, p) \in SUBSET Below(S, q)
    <3>1. ASSUME NEW x \in S, x < p PROVE x < q
      <4>1. x \in Nat /\ p \in Nat /\ q \in Nat
        BY <1>0
      <4> QED BY <1>3, <3>1, <4>1
    <3> QED BY <3>1 DEF Below
  <2>2. p \in Below(S, q) /\ p \notin Below(S, p)
    BY <1>3 DEF Below
  <2>3. IsFiniteSet(Below(S, q)) /\ f[p] \in Nat /\ f[q] \in Nat
    BY <1>2
  <2>4. f[p] <= f[q] /\ (f[p] = f[q] => Below(S, q) = Below(S, p))
    BY <2>1, <2>3, FS_Subset
  <2> QED BY <2>2, <2>3, <2>4
<1>4. f \in Injection(S, T)
  <2>1. f \in [S -> T]
    BY <1>1, <1>2
  <2>2. \A p, q \in S : f[p] = f[q] => p = q
    <3> SUFFICES ASSUME NEW p \in S, NEW q \in S, f[p] = f[q], p # q
                 PROVE  FALSE
      OBVIOUS
    <3>1. p < q \/ q < p
      OBVIOUS
    <3>2. f[p] \in Nat /\ f[q] \in Nat
      BY <1>2
    <3> QED BY <1>3, <3>1, <3>2
  <2> QED BY <2>1, <2>2 DEF Injection, IsInjective
<1>5. IsFiniteSet(T) /\ Cardinality(T) = C
  <2>1. 0 \in Int /\ C - 1 \in Int
    BY <1>1
  <2>2. /\ IsFiniteSet(T)
        /\ Cardinality(T) = IF 0 > C - 1 THEN 0 ELSE (C - 1) - 0 + 1
    BY <2>1, FS_Interval
  <2> QED BY <1>1, <2>2
<1>6. f \in Surjection(S, T)
  BY <1>4, <1>5, FS_Injection
<1>7. \A j \in T : \E p \in S : f[p] = j
  BY <1>6 DEF Surjection
<1> QED
  <2> TAKE i \in 1..C
  <2>1. i - 1 \in T
    BY <1>1
  <2> QED BY <1>7, <2>1

\* A finite set of naturals that is not empty has a greatest member.
LEMMA Greatest ==
    ASSUME NEW S \in SUBSET Nat, IsFiniteSet(S), S # {}
    PROVE  \E x \in S : \A y \in S : y <= x
<1>1. Cardinality(S) \in Nat /\ Cardinality(S) # 0
  BY FS_CardinalityType, FS_EmptySet
<1>2. PICK p \in S : Cardinality(Below(S, p)) = Cardinality(S) - 1
  BY <1>1, Numbering
<1>3. Below(S, p) \in SUBSET (S \ {p})
  BY DEF Below
<1>4. IsFiniteSet(S \ {p}) /\ Cardinality(S \ {p}) = Cardinality(S) - 1
  BY FS_RemoveElement
<1>5. Below(S, p) = S \ {p}
  BY <1>2, <1>3, <1>4, FS_Subset
<1>6. \A j \in S : j <= p
  BY <1>5 DEF Below
<1> QED BY <1>6

\* A strict order on a finite set that is not empty has a topmost member.
LEMMA Topmost ==
    ASSUME NEW S, IsFiniteSet(S), S # {}, NEW R,
           \A x \in S : <<x, x>> \notin R,
           \A x, y, z \in S : <<x, y>> \in R /\ <<y, z>> \in R => <<x, z>> \in R
    PROVE  \E x \in S : \A y \in S : <<x, y>> \notin R
<1> DEFINE Over == [x \in S |-> {y \in S : <<x, y>> \in R}]
           N == {k \in Nat : \E x \in S : k = Cardinality(Over[x])}
<1>1. ASSUME NEW x \in S
      PROVE  Over[x] \in SUBSET S /\ IsFiniteSet(Over[x]) /\ Cardinality(Over[x]) \in Nat
  <2>1. Over[x] \in SUBSET S
    OBVIOUS
  <2> HIDE DEF Over
  <2>2. IsFiniteSet(Over[x])
    BY <2>1, FS_Subset
  <2> QED BY <2>1, <2>2, FS_CardinalityType
<1>2. \A x, y \in S : y \in Over[x] <=> <<x, y>> \in R
  OBVIOUS
<1> HIDE DEF Over
<1>3. N \in SUBSET Nat /\ N # {}
  BY <1>1
<1>4. PICK k \in N : \A l \in N : k <= l
  <2> HIDE DEF N
  <2> QED BY <1>3, Least
<1>5. PICK x \in S : k = Cardinality(Over[x])
  OBVIOUS
<1>6. ASSUME NEW y \in S, <<x, y>> \in R PROVE FALSE
  <2>1. Over[y] \in SUBSET Over[x] /\ y \in Over[x] /\ y \notin Over[y]
    BY <1>1, <1>2, <1>6
  <2>2. Cardinality(Over[x]) <= Cardinality(Over[y])
    BY <1>1, <1>4, <1>5
  <2>3. /\ Cardinality(Over[y]) <= Cardinality(Over[x])
        /\ Cardinality(Over[y]) = Cardinality(Over[x]) => Over[x] = Over[y]
    BY <1>1, <2>1, FS_Subset
  <2>4. Cardinality(Over[x]) \in Nat /\ Cardinality(Over[y]) \in Nat
    BY <1>1
  <2> QED BY <2>1, <2>2, <2>3, <2>4
<1> QED BY <1>6

\* The set that a strict total order lists before x.
Ahead(S, R, x) == {y \in S : <<y, x>> \in R}

\* A strict total order on a finite set lists its members one by one: counting
\* those ahead of each numbers them from 1, each once.
LEMMA Ranking ==
    ASSUME NEW S, IsFiniteSet(S), NEW R,
           \A x \in S : <<x, x>> \notin R,
           \A x, y, z \in S : <<x, y>> \in R /\ <<y, z>> \in R => <<x, z>> \in R,
           \A x, y \in S : x # y => <<x, y>> \in R \/ <<y, x>> \in R
    PROVE  [x \in S |-> Cardinality(Ahead(S, R, x)) + 1]
               \in Bijection(S, 1..Cardinality(S))
<1> DEFINE C == Cardinality(S)
           T == 1..C
           f == [x \in S |-> Cardinality(Ahead(S, R, x)) + 1]
<1>1. C \in Nat
  BY FS_CardinalityType
<1>2. ASSUME NEW x \in S
      PROVE  IsFiniteSet(Ahead(S, R, x)) /\ f[x] \in Nat /\ f[x] \in T
  <2>1. Ahead(S, R, x) \in SUBSET S /\ x \notin Ahead(S, R, x)
    BY DEF Ahead
  <2>2. /\ IsFiniteSet(Ahead(S, R, x)) /\ Cardinality(Ahead(S, R, x)) <= C
        /\ C = Cardinality(Ahead(S, R, x)) => S = Ahead(S, R, x)
    BY <2>1, FS_Subset
  <2>3. Cardinality(Ahead(S, R, x)) \in Nat
    BY <2>2, FS_CardinalityType
  <2> QED BY <1>1, <2>1, <2>2, <2>3
<1>3. ASSUME NEW x \in S, NEW y \in S, <<x, y>> \in R
      PROVE  f[x] < f[y]
  <2>1. Ahead(S, R, x) \in SUBSET Ahead(S, R, y)
    BY <1>3 DEF Ahead
  <2>2. x \in Ahead(S, R, y) /\ x \notin Ahead(S, R, x)
    BY <1>3 DEF Ahead
  <2>3. IsFiniteSet(Ahead(S, R, x)) /\ IsFiniteSet(Ahead(S, R, y))
    BY <1>2
  <2>4. /\ Cardinality(Ahead(S, R, x)) \in Nat /\ Cardinality(Ahead(S, R, y)) \in Nat
        /\ Cardinality(Ahead(S, R, x)) <= Cardinality(Ahead(S, R, y))
        /\ Cardinality(Ahead(S, R, y)) = Cardinality(Ahead(S, R, x))
              => Ahead(S, R, y) = Ahead(S, R, x)
    BY <2>1, <2>3, FS_Subset, FS_CardinalityType
  <2> QED BY <2>2, <2>4
<1>4. f \in Injection(S, T)
  <2>1. f \in [S -> T]
    BY <1>2
  <2>2. \A x, y \in S : f[x] = f[y] => x = y
    <3> SUFFICES ASSUME NEW x \in S, NEW y \in S, f[x] = f[y], x # y
                 PROVE  FALSE
      OBVIOUS
    <3>1. <<x, y>> \in R \/ <<y, x>> \in R
      OBVIOUS
    <3>2. f[x] \in Nat /\ f[y] \in Nat
      BY <1>2
    <3> QED BY <1>3, <3>1, <3>2
  <2> QED BY <2>1, <2>2 DEF Injection, IsInjective
<1>5. IsFiniteSet(T) /\ Cardinality(T) = C
  <2>1. IsFiniteSet(1..C) /\ Cardinality(1..C) = IF 1 > C THEN 0 ELSE C - 1 + 1
    BY <1>1, FS_Interval
  <2> QED BY <1>1, <2>1
<1>6. f \in Surjection(S, T)
  BY <1>4, <1>5, FS_Injection
<1> QED BY <1>4, <1>6 DEF Bijection

-----------------------------------------------------------------------------
(* Where the values of a set occur in a sequence.                          *)

Occurs(s, V) == {i \in DOMAIN s : s[i] \in V}

LEMMA AppendLength ==
    ASSUME NEW T, NEW s \in Seq(T), NEW u \in Seq(T)
    PROVE  Len(s \o u) = Len(s) + Len(u) /\ DOMAIN (s \o u) = 1..(Len(s) + Len(u))
OBVIOUS

LEMMA OccursFinite ==
    ASSUME NEW T, NEW s \in Seq(T), NEW V
    PROVE  IsFiniteSet(Occurs(s, V)) /\ Cardinality(Occurs(s, V)) \in Nat
<1>1. IsFiniteSet(1..Len(s)) /\ DOMAIN s = 1..Len(s)
  BY FS_Interval
<1>2. Occurs(s, V) \in SUBSET (1..Len(s))
  BY <1>1 DEF Occurs
<1> QED BY <1>1, <1>2, FS_Subset, FS_CardinalityType

\* Appending adds up the occurrences.
LEMMA OccursAppend ==
    ASSUME NEW T, NEW s \in Seq(T), NEW u \in Seq(T), NEW V
    PROVE  Cardinality(Occurs(s \o u, V))
              = Cardinality(Occurs(s, V)) + Cardinality(Occurs(u, V))
<1> DEFINE A == Occurs(s, V)
           B == Occurs(u, V)
           moved == {i \in DOMAIN (s \o u) : i > Len(s) /\ i - Len(s) \in B}
           f == [i \in B |-> i + Len(s)]
<1>1. /\ Len(s) \in Nat /\ Len(u) \in Nat /\ DOMAIN s = 1..Len(s)
      /\ DOMAIN u = 1..Len(u) /\ DOMAIN (s \o u) = 1..(Len(s) + Len(u))
  OBVIOUS
<1>2. /\ \A i \in 1..Len(s) : (s \o u)[i] = s[i]
      /\ \A i \in 1..Len(u) : (s \o u)[i + Len(s)] = u[i]
  OBVIOUS
<1>3. Occurs(s \o u, V) = A \cup moved /\ A \cap moved = {}
  <2>1. ASSUME NEW i \in DOMAIN (s \o u), i <= Len(s)
        PROVE  (i \in Occurs(s \o u, V)) <=> i \in A
    BY <1>1, <1>2, <2>1 DEF Occurs
  <2>2. ASSUME NEW i \in DOMAIN (s \o u), i > Len(s)
        PROVE  (i \in Occurs(s \o u, V)) <=> i \in moved
    <3> DEFINE j == i - Len(s)
    <3>1. j \in 1..Len(u) /\ i = j + Len(s)
      BY <1>1, <2>2
    <3>2. (s \o u)[i] = u[j]
      BY <1>2, <3>1
    <3> QED BY <1>1, <2>2, <3>1, <3>2 DEF Occurs
  <2>3. /\ Occurs(s \o u, V) \subseteq DOMAIN (s \o u)
        /\ moved \subseteq {i \in DOMAIN (s \o u) : i > Len(s)}
        /\ A \subseteq {i \in DOMAIN (s \o u) : i <= Len(s)}
    BY <1>1 DEF Occurs
  <2> HIDE DEF A, B, moved
  <2>4. \A i \in DOMAIN (s \o u) : i <= Len(s) \/ i > Len(s)
    BY <1>1
  <2>5. A \cap moved = {}
    BY <1>1, <2>3
  <2> QED BY <2>1, <2>2, <2>3, <2>4, <2>5
<1>4. f \in Bijection(B, moved)
  <2>1. \A i \in B : i \in 1..Len(u)
    BY <1>1 DEF Occurs
  <2>2. \A i \in B : f[i] \in moved
    BY <1>1, <2>1
  <2>3. \A i, j \in B : f[i] = f[j] => i = j
    BY <1>1, <2>1
  <2>4. \A k \in moved : k - Len(s) \in B /\ f[k - Len(s)] = k
    BY <1>1
  <2> HIDE DEF A, B, moved
  <2>5. f \in [B -> moved]
    BY <2>2
  <2> QED BY <2>3, <2>4, <2>5 DEF Bijection, Injection, IsInjective, Surjection
<1>5. /\ IsFiniteSet(A) /\ Cardinality(A) \in Nat
      /\ IsFiniteSet(B) /\ Cardinality(B) \in Nat
  BY OccursFinite
<1> HIDE DEF A, B, moved, f
<1>6. IsFiniteSet(moved) /\ Cardinality(moved) = Cardinality(B)
  <2>1. ExistsBijection(B, moved)
    BY <1>4 DEF ExistsBijection
  <2> QED BY <1>5, <2>1, FS_Bijection
<1>7. Cardinality(A \cup moved) = Cardinality(A) + Cardinality(moved)
  <2>1. Cardinality(A \cup moved)
           = Cardinality(A) + Cardinality(moved) - Cardinality(A \cap moved)
    BY <1>5, <1>6, FS_Union
  <2>2. Cardinality(A \cap moved) = 0
    BY <1>3, FS_EmptySet
  <2> QED BY <1>5, <1>6, <2>1, <2>2
<1> QED BY <1>3, <1>6, <1>7 DEF A, B

\* A sequence that lists a finite set, each member once, has as many occurrences
\* as there are members whose places are occurrences.
LEMMA OccursListed ==
    ASSUME NEW S, IsFiniteSet(S), NEW s, NEW g \in Bijection(DOMAIN s, S),
           NEW V, NEW B \in SUBSET S,
           \A i \in DOMAIN s : s[i] \in V <=> g[i] \in B
    PROVE  Cardinality(Occurs(s, V)) = Cardinality(B)
<1> DEFINE A == Occurs(s, V)
           f == [i \in A |-> g[i]]
<1>1. /\ g \in [DOMAIN s -> S]
      /\ \A i, j \in DOMAIN s : g[i] = g[j] => i = j
      /\ \A x \in S : \E i \in DOMAIN s : g[i] = x
  BY DEF Bijection, Injection, IsInjective, Surjection
<1>2. f \in Bijection(A, B)
  <2>1. A \subseteq DOMAIN s /\ \A i \in DOMAIN s : i \in A <=> g[i] \in B
    BY DEF Occurs
  <2>2. \A i \in A : f[i] \in B
    BY <1>1, <2>1
  <2>3. \A i, j \in A : f[i] = f[j] => i = j
    BY <1>1, <2>1
  <2>4. \A x \in B : \E i \in A : f[i] = x
    BY <1>1, <2>1
  <2> HIDE DEF A
  <2>5. f \in [A -> B]
    BY <2>2
  <2> QED BY <2>3, <2>4, <2>5 DEF Bijection, Injection, IsInjective, Surjection
<1> HIDE DEF A, f
<1>3. f \in Injection(A, B) /\ f \in Surjection(A, B)
  BY <1>2 DEF Bijection
<1>4. IsFiniteSet(B)
  BY FS_Subset
<1>5. Cardinality(B) = Cardinality(A)
  BY <1>3, <1>4, FS_Injection
<1> QED BY <1>5 DEF A

\* The occurrences up to a point of a sequence do not see what is appended.
LEMMA OccursEarly ==
    ASSUME NEW T, NEW s \in Seq(T), NEW u \in Seq(T), NEW V,
           NEW n \in Nat, n <= Len(s)
    PROVE  {i \in Occurs(s \o u, V) : i <= n} = {i \in Occurs(s, V) : i <= n}
<1>1. /\ DOMAIN s = 1..Len(s) /\ DOMAIN (s \o u) = 1..(Len(s) + Len(u))
      /\ Len(s) \in Nat /\ Len(u) \in Nat
      /\ \A i \in 1..Len(s) : (s \o u)[i] = s[i]
  OBVIOUS
<1> QED BY <1>1 DEF Occurs
=============================================================================
