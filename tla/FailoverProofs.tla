--------------------------- MODULE FailoverProofs ---------------------------
(***************************************************************************)
(* For any two regions, any writes and any schedule: every variable keeps  *)
(* its shape, only a proven death promotes, clocks are unique, no version  *)
(* is forgotten, what was written for a client stays with a majority, and  *)
(* two entries that never died hold the same once no relay is on its way.  *)
(* Notices track the deaths as long as no cut comes before what the last   *)
(* one held has landed, and so for up to three flips of the link.          *)
(***************************************************************************)
EXTENDS FailoverProperties, Counting, SequenceTheorems

-----------------------------------------------------------------------------
(* The order of versions.                                                  *)

LEMMA DominatesReflexive ==
    ASSUME NEW a \in Clock PROVE dominates(a, a)
BY DEF dominates, Clock

LEMMA DominatesTransitive ==
    ASSUME NEW a \in Clock, NEW b \in Clock, NEW c \in Clock,
           dominates(a, b), dominates(b, c)
    PROVE  dominates(a, c)
<1> SUFFICES ASSUME NEW n \in Nodes PROVE a[n] >= c[n]
  BY DEF dominates
<1>1. a[n] >= b[n] /\ b[n] >= c[n]
  BY DEF dominates
<1>2. a[n] \in Nat /\ b[n] \in Nat /\ c[n] \in Nat
  BY DEF Clock
<1> QED BY <1>1, <1>2

\* What coalesce drops is dominated by something it keeps.
LEMMA CoalesceCovers ==
    ASSUME NEW S \in SUBSET Version, IsFiniteSet(S)
    PROVE  /\ coalesce(S) \in SUBSET S /\ IsFiniteSet(coalesce(S))
           /\ \A a \in S : \E b \in coalesce(S) : dominates(b.clock, a.clock)
<1>1. coalesce(S) \in SUBSET S
  BY DEF coalesce
<1>2. IsFiniteSet(coalesce(S))
  BY <1>1, FS_Subset
<1>3. ASSUME NEW a \in S PROVE \E b \in coalesce(S) : dominates(b.clock, a.clock)
  <2> DEFINE U == {b \in S : dominates(b.clock, a.clock)}
             R == {p \in S \X S : before(p[1].clock, p[2].clock)}
  <2>1. \A v \in S : v.clock \in Clock
    BY DEF Version
  <2>2. a \in U /\ IsFiniteSet(U)
    BY <2>1, DominatesReflexive, FS_Subset
  <2>3. ASSUME NEW x \in S, NEW y \in S, NEW z \in S,
               before(x.clock, y.clock), before(y.clock, z.clock)
        PROVE  before(x.clock, z.clock)
    <3>1. /\ dominates(y.clock, x.clock) /\ ~dominates(x.clock, y.clock)
          /\ dominates(z.clock, y.clock)
      BY <2>3 DEF before
    <3>2. dominates(z.clock, x.clock)
      BY <2>1, <3>1, DominatesTransitive
    <3>3. dominates(x.clock, z.clock) => dominates(x.clock, y.clock)
      BY <2>1, <3>1, DominatesTransitive
    <3> QED BY <3>1, <3>2, <3>3 DEF before
  <2>4. \A x, y \in S : <<x, y>> \in R <=> before(x.clock, y.clock)
    OBVIOUS
  <2>5. \A x \in U : <<x, x>> \notin R
    BY <2>4 DEF before
  <2>6. \A x, y, z \in U : <<x, y>> \in R /\ <<y, z>> \in R => <<x, z>> \in R
    BY <2>3, <2>4
  <2>7. PICK b \in U : \A c \in U : <<b, c>> \notin R
    <3> HIDE DEF U, R
    <3> QED BY <2>2, <2>5, <2>6, Topmost
  <2>8. ASSUME NEW c \in S, before(b.clock, c.clock) PROVE FALSE
    <3>1. dominates(c.clock, b.clock)
      BY <2>8 DEF before
    <3>2. c \in U
      BY <2>1, <3>1, DominatesTransitive
    <3> QED BY <2>4, <2>7, <2>8, <3>2
  <2> QED BY <2>7, <2>8 DEF coalesce
<1> QED BY <1>1, <1>2, <1>3

\* An arriving version is absorbed and none that was held is lost.
LEMMA AbsorbCovers ==
    ASSUME NEW S \in SUBSET Version, IsFiniteSet(S),
           NEW T \in SUBSET Version, IsFiniteSet(T)
    PROVE  /\ absorb(S, T) \in SUBSET (S \cup T) /\ IsFiniteSet(absorb(S, T))
           /\ \A a \in S \cup T : \E b \in absorb(S, T) : dominates(b.clock, a.clock)
<1>1. S \cup T \in SUBSET Version /\ IsFiniteSet(S \cup T)
  BY FS_Union
<1> QED BY <1>1, CoalesceCovers DEF absorb

\* Max of a finite set of naturals and 0.
LEMMA MaxCount ==
    ASSUME NEW S \in SUBSET Nat, IsFiniteSet(S)
    PROVE  /\ Max({0} \cup S) \in {0} \cup S
           /\ \A x \in S : x <= Max({0} \cup S)
<1>1. {0} \cup S = S \cup {0} /\ IsFiniteSet(S \cup {0})
  BY FS_AddElement
<1>2. \E x \in {0} \cup S : \A y \in {0} \cup S : y <= x
  BY <1>1, Greatest
<1>3. \E x \in {0} \cup S : \A y \in {0} \cup S : x >= y
  BY <1>2
<1>4. /\ Max({0} \cup S) \in {0} \cup S
      /\ \A y \in {0} \cup S : Max({0} \cup S) >= y
  BY <1>3 DEF Max
<1> DEFINE m == Max({0} \cup S)
<1>5. m \in {0} \cup S /\ \A y \in S : m >= y
  BY <1>4
<1> HIDE DEF m
<1>6. m \in Nat
  BY <1>5
<1>7. \A y \in S : y <= m
  BY <1>5, <1>6
<1> QED BY <1>5, <1>7 DEF m

\* The clock of a new write passes every clock held, at the writer strictly,
\* and counts no node further than some version held does.
LEMMA MergedClock ==
    ASSUME NEW S \in SUBSET Version, IsFiniteSet(S), NEW n \in Nodes
    PROVE  LET c == merged_clock(S, n) IN
           /\ c \in Clock /\ c[n] > 0
           /\ \A v \in S : dominates(c, v.clock) /\ c[n] > v.clock[n]
           /\ \A p \in Nodes \ {n} : c[p] > 0 => \E v \in S : v.clock[p] >= c[p]
<1> DEFINE K == coalesce(S)
           At(p) == {v.clock[p] : v \in K}
           top == [p \in Nodes |-> Max({0} \cup At(p))]
           c == merged_clock(S, n)
<1>1. K \in SUBSET S /\ IsFiniteSet(K)
      /\ \A a \in S : \E b \in K : dominates(b.clock, a.clock)
  BY CoalesceCovers
<1>2. ASSUME NEW p \in Nodes
      PROVE  /\ top[p] \in Nat
             /\ \A v \in K : v.clock[p] <= top[p]
             /\ top[p] > 0 => \E v \in K : v.clock[p] = top[p]
  <2>1. \A v \in K : v.clock[p] \in Nat
    BY <1>1 DEF Version, Clock
  <2>2. At(p) \in SUBSET Nat
    BY <2>1
  <2>3. IsFiniteSet(At(p))
    <3> DEFINE f == [v \in K |-> v.clock[p]]
    <3>1. {f[v] : v \in K} = At(p)
      OBVIOUS
    <3>2. f \in [K -> At(p)] /\ \A x \in At(p) : \E v \in K : f[v] = x
      OBVIOUS
    <3> HIDE DEF f, K
    <3>3. f \in Surjection(K, At(p))
      BY <3>2 DEF Surjection
    <3> QED BY <1>1, <3>3, FS_Surjection
  <2>4. /\ Max({0} \cup At(p)) \in {0} \cup At(p)
        /\ \A x \in At(p) : x <= Max({0} \cup At(p))
    <3> HIDE DEF At
    <3> QED BY <2>2, <2>3, MaxCount
  <2>5. top[p] = Max({0} \cup At(p))
    OBVIOUS
  <2> HIDE DEF K, top
  <2>6. top[p] = 0 \/ \E v \in K : v.clock[p] = top[p]
    BY <2>4, <2>5
  <2>7. top[p] \in Nat
    BY <2>1, <2>6
  <2>8. ASSUME NEW v \in K PROVE v.clock[p] <= top[p]
    <3>1. v.clock[p] \in At(p)
      OBVIOUS
    <3> QED BY <2>4, <2>5, <3>1
  <2> QED BY <2>6, <2>7, <2>8
<1>3. c = [top EXCEPT ![n] = @ + 1]
  <2>1. c = bump(top, n)
    BY Zenon DEF merged_clock
  <2> QED BY <2>1 DEF bump
<1> HIDE DEF top, K
<1>4. top \in Clock
  <2>1. top = [p \in Nodes |-> top[p]]
    BY DEF top
  <2> QED BY <1>2, <2>1 DEF Clock
<1>5. c \in Clock /\ c[n] = top[n] + 1 /\ \A p \in Nodes \ {n} : c[p] = top[p]
  BY <1>3, <1>4 DEF Clock
<1>6. \A v \in S : v.clock \in Clock /\ \A p \in Nodes : v.clock[p] \in Nat
  BY DEF Version, Clock
<1> HIDE DEF c
<1>7. ASSUME NEW v \in S PROVE dominates(c, v.clock) /\ c[n] > v.clock[n]
  <2>1. PICK b \in K : dominates(b.clock, v.clock)
    BY <1>1
  <2>2. ASSUME NEW p \in Nodes PROVE v.clock[p] <= top[p]
    <3>1. b.clock[p] >= v.clock[p] /\ b.clock[p] <= top[p]
      BY <1>2, <2>1 DEF dominates
    <3> QED BY <1>1, <1>2, <1>6, <3>1
  <2>3. \A p \in Nodes : c[p] >= v.clock[p]
    BY <1>2, <1>5, <1>6, <2>2
  <2>4. c[n] > v.clock[n]
    BY <1>2, <1>5, <1>6, <2>2
  <2> QED BY <2>3, <2>4 DEF dominates
<1>8. ASSUME NEW p \in Nodes \ {n}, c[p] > 0
      PROVE  \E v \in S : v.clock[p] >= c[p]
  <2>1. PICK v \in K : v.clock[p] = top[p]
    BY <1>2, <1>5, <1>8
  <2> QED BY <1>1, <1>2, <1>5, <2>1
<1>9. c[n] > 0
  BY <1>2, <1>5
<1> QED BY <1>5, <1>7, <1>8, <1>9 DEF c

-----------------------------------------------------------------------------
(* The fleet, and the version that coalesce sorts last.                    *)

LEMMA FleetSeq ==
    /\ Fleet \in Seq(Nodes) /\ Len(Fleet) \in Nat /\ DOMAIN Fleet = 1..Len(Fleet)
    /\ Nodes = Range(East) \cup Range(West)
    /\ \A n \in Nodes : \E i \in 1..Len(Fleet) : Fleet[i] = n
    /\ \A i \in 1..Len(Fleet) : Fleet[i] \in Nodes
<1> DEFINE R == Range(East) \cup Range(West)
<1>1. East \in Seq(R) /\ West \in Seq(R)
  BY FleetAssumption, SeqMonotonic
<1>2. /\ Fleet \in Seq(R) /\ Len(Fleet) = Len(East) + Len(West)
      /\ \A i \in 1..(Len(East) + Len(West)) :
            Fleet[i] = IF i <= Len(East) THEN East[i] ELSE West[i - Len(East)]
  BY <1>1, ConcatProperties DEF Fleet
<1>3. /\ Len(East) \in Nat /\ DOMAIN East = 1..Len(East)
      /\ Len(West) \in Nat /\ DOMAIN West = 1..Len(West)
      /\ Len(Fleet) \in Nat /\ DOMAIN Fleet = 1..Len(Fleet)
  BY <1>1, <1>2, LenProperties
<1>4. Nodes \subseteq R
  BY <1>2, <1>3, ElementOfSeq DEF Nodes, Range
<1>5. ASSUME NEW n \in Range(East) PROVE n \in Nodes
  <2>1. PICK i \in 1..Len(East) : East[i] = n
    BY <1>3 DEF Range
  <2>2. Fleet[i] = n /\ i \in 1..Len(Fleet)
    BY <1>2, <1>3, <2>1
  <2> QED BY <1>3, <2>2 DEF Nodes, Range
<1>6. ASSUME NEW n \in Range(West) PROVE n \in Nodes
  <2>1. PICK i \in 1..Len(West) : West[i] = n
    BY <1>3 DEF Range
  <2>2. Fleet[Len(East) + i] = n /\ Len(East) + i \in 1..Len(Fleet)
    BY <1>2, <1>3, <2>1
  <2> QED BY <1>3, <2>2 DEF Nodes, Range
<1>7. Nodes = R
  BY <1>4, <1>5, <1>6
<1> QED BY <1>2, <1>3, <1>7 DEF Nodes, Range

\* Two clocks that differ are sorted one way or the other.
LEMMA SortsTotal ==
    ASSUME NEW a \in Clock, NEW b \in Clock, a # b
    PROVE  SortsAfter(a, b) \/ SortsAfter(b, a)
<1> DEFINE D == {i \in 1..Len(Fleet) : a[Fleet[i]] # b[Fleet[i]]}
<1>1. \E n \in Nodes : a[n] # b[n]
  BY DEF Clock
<1>2. D \in SUBSET Nat /\ D # {}
  BY <1>1, FleetSeq
<1>3. PICK i \in D : \A j \in D : i <= j
  BY <1>2, Least
<1>4. \A j \in 1..(i - 1) : a[Fleet[j]] = b[Fleet[j]]
  BY <1>3, FleetSeq
<1>5. a[Fleet[i]] \in Nat /\ b[Fleet[i]] \in Nat
  BY FleetSeq DEF Clock
<1>6. i \in 1..Len(Fleet) /\ a[Fleet[i]] # b[Fleet[i]]
  OBVIOUS
<1> QED BY <1>4, <1>5, <1>6 DEF SortsAfter

LEMMA SortsTransitive ==
    ASSUME NEW a \in Clock, NEW b \in Clock, NEW c \in Clock,
           SortsAfter(a, b), SortsAfter(b, c)
    PROVE  SortsAfter(a, c)
<1>0. Len(Fleet) \in Nat
  BY FleetSeq
<1>1. PICK i \in 1..Len(Fleet) :
        /\ \A j \in 1..(i - 1) : a[Fleet[j]] = b[Fleet[j]]
        /\ a[Fleet[i]] # b[Fleet[i]]
        /\ a[Fleet[i]] = 0 \/ (b[Fleet[i]] > 0 /\ a[Fleet[i]] > b[Fleet[i]])
  BY DEF SortsAfter
<1>2. PICK k \in 1..Len(Fleet) :
        /\ \A j \in 1..(k - 1) : b[Fleet[j]] = c[Fleet[j]]
        /\ b[Fleet[k]] # c[Fleet[k]]
        /\ b[Fleet[k]] = 0 \/ (c[Fleet[k]] > 0 /\ b[Fleet[k]] > c[Fleet[k]])
  BY DEF SortsAfter
<1>3. \A j \in 1..Len(Fleet) :
        a[Fleet[j]] \in Nat /\ b[Fleet[j]] \in Nat /\ c[Fleet[j]] \in Nat
  BY FleetSeq DEF Clock
<1>4. CASE i < k
  <2>1. b[Fleet[i]] = c[Fleet[i]]
    BY <1>0, <1>2, <1>4
  <2>2. \A j \in 1..(i - 1) : a[Fleet[j]] = c[Fleet[j]]
    BY <1>0, <1>1, <1>2, <1>4
  <2> QED BY <1>1, <2>1, <2>2 DEF SortsAfter
<1>5. CASE k < i
  <2>1. a[Fleet[k]] = b[Fleet[k]]
    BY <1>0, <1>1, <1>5
  <2>2. \A j \in 1..(k - 1) : a[Fleet[j]] = c[Fleet[j]]
    BY <1>0, <1>1, <1>2, <1>5
  <2> QED BY <1>2, <2>1, <2>2 DEF SortsAfter
<1>6. CASE i = k
  <2>1. \A j \in 1..(i - 1) : a[Fleet[j]] = c[Fleet[j]]
    BY <1>1, <1>2, <1>6
  <2>2. /\ a[Fleet[i]] # c[Fleet[i]]
        /\ a[Fleet[i]] = 0 \/ (c[Fleet[i]] > 0 /\ a[Fleet[i]] > c[Fleet[i]])
    BY <1>1, <1>2, <1>3, <1>6
  <2> QED BY <2>1, <2>2 DEF SortsAfter
<1> QED BY <1>4, <1>5, <1>6, FleetSeq

\* Of versions with clocks of their own one is last.
LEMMA LastHeld ==
    ASSUME NEW S \in SUBSET Version, IsFiniteSet(S), S # {},
           \A u, v \in S : u.clock = v.clock => u = v
    PROVE  last(S) \in S
<1> DEFINE R == {p \in S \X S : SortsAfter(p[2].clock, p[1].clock)}
<1>1. \A v \in S : v.clock \in Clock
  BY DEF Version
<1>2. \A x, y \in S : <<x, y>> \in R <=> SortsAfter(y.clock, x.clock)
  OBVIOUS
<1>3. \A x \in S : <<x, x>> \notin R
  BY <1>2 DEF SortsAfter
<1>4. \A x, y, z \in S : <<x, y>> \in R /\ <<y, z>> \in R => <<x, z>> \in R
  BY <1>1, <1>2, SortsTransitive
<1>5. PICK v \in S : \A u \in S : <<v, u>> \notin R
  <2> HIDE DEF R
  <2> QED BY <1>3, <1>4, Topmost
<1>6. ASSUME NEW u \in S \ {v} PROVE SortsAfter(v.clock, u.clock)
  <2>1. u.clock # v.clock /\ ~SortsAfter(u.clock, v.clock)
    BY <1>2, <1>5
  <2>2. u.clock \in Clock /\ v.clock \in Clock
    BY <1>1
  <2> QED BY <2>1, <2>2, SortsTotal
<1> QED BY <1>6 DEF last

-----------------------------------------------------------------------------
(* Regions, queues and images.                                             *)

LEMMA RegionFacts ==
    /\ \A r \in Regions :
          /\ r \in Seq(Nodes) /\ Len(r) \in Nat /\ Len(r) > 0 /\ DOMAIN r = 1..Len(r)
          /\ Range(r) \subseteq Nodes /\ IsFiniteSet(Range(r))
          /\ other(r) \in Regions
    /\ \A n \in Nodes :
          /\ region_of(n) \in Regions
          /\ \A x \in Nodes : x \in Range(region_of(n)) <=> region_of(x) = region_of(n)
    /\ \A n \in Nodes : region_of(n) = West <=> n \in Range(West)
<1>1. East \in Seq(Nodes) /\ West \in Seq(Nodes)
  <2>1. Range(East) \subseteq Nodes /\ Range(West) \subseteq Nodes
    BY FleetSeq
  <2> QED BY <2>1, FleetAssumption, SeqMonotonic
<1>2. ASSUME NEW r \in Regions
      PROVE  /\ r \in Seq(Nodes) /\ Len(r) \in Nat /\ Len(r) > 0 /\ DOMAIN r = 1..Len(r)
             /\ Range(r) \subseteq Nodes /\ IsFiniteSet(Range(r))
             /\ other(r) \in Regions
  <2>1. r \in Seq(Nodes) /\ r # <<>>
    BY <1>1, FleetAssumption DEF Regions
  <2>2. Len(r) \in Nat /\ Len(r) > 0 /\ DOMAIN r = 1..Len(r) /\ r \in [1..Len(r) -> Nodes]
    BY <2>1, LenProperties, EmptySeq
  <2>3. Range(r) \subseteq Nodes
    BY <2>2 DEF Range
  <2>4. r \in Surjection(1..Len(r), Range(r))
    BY <2>2 DEF Surjection, Range
  <2>5. IsFiniteSet(1..Len(r))
    BY <2>2, FS_Interval
  <2>6. IsFiniteSet(Range(r))
    BY <2>4, <2>5, FS_Surjection
  <2>7. other(r) \in Regions
    BY DEF other, Regions
  <2> QED BY <2>1, <2>2, <2>3, <2>6, <2>7
<1>3. East # West
  <2>1. East[1] \in Range(East)
    BY <1>2 DEF Range, Regions
  <2> QED BY <2>1, FleetAssumption
<1>4. \A n \in Nodes : n \in Range(East) \/ n \in Range(West)
  BY FleetSeq
<1>5. \A n \in Range(East) : n \notin Range(West)
  BY FleetAssumption
<1>6. \A n \in Nodes : /\ region_of(n) \in Regions
                       /\ region_of(n) = West <=> n \in Range(West)
                       /\ region_of(n) = East <=> n \in Range(East)
  BY <1>3, <1>4, <1>5 DEF region_of, Regions
<1>7. \A n, x \in Nodes : x \in Range(region_of(n)) <=> region_of(x) = region_of(n)
  BY <1>6 DEF Regions
<1> QED BY <1>2, <1>6, <1>7

\* The first member of a region in a set is a member of both.
LEMMA FirstMember ==
    ASSUME NEW r \in Regions, NEW ids, ids \cap Range(r) # {}
    PROVE  first(r, ids) \in ids \cap Range(r)
<1> DEFINE D == {i \in 1..Len(r) : r[i] \in ids}
<1>1. Len(r) \in Nat /\ DOMAIN r = 1..Len(r)
  BY RegionFacts
<1>2. D \in SUBSET Nat /\ D # {}
  BY <1>1 DEF Range
<1>3. PICK i \in D : \A j \in D : i <= j
  BY <1>2, Least
<1>4. \A j \in 1..(i - 1) : r[j] \notin ids
  BY <1>1, <1>3
<1>5. \E k \in DOMAIN r : r[k] \in ids /\ \A j \in 1..(k - 1) : r[j] \notin ids
  BY <1>1, <1>4
<1> QED BY <1>5 DEF first, Range

\* The k-th smallest member of a finite set of naturals.
LEMMA Placed ==
    ASSUME NEW I \in SUBSET Nat, IsFiniteSet(I), NEW k \in 1..Cardinality(I)
    PROVE  \E i \in I : Cardinality({j \in I : j <= i}) = k
<1>1. PICK i \in I : Cardinality(Below(I, i)) = k - 1
  BY Numbering
<1>2. {j \in I : j <= i} = Below(I, i) \cup {i}
  <2>1. \A j \in I : j <= i <=> (j < i \/ j = i)
    OBVIOUS
  <2> QED BY <2>1 DEF Below
<1>3. IsFiniteSet(Below(I, i)) /\ i \notin Below(I, i)
  <2>1. Below(I, i) \in SUBSET I /\ i \notin Below(I, i)
    BY DEF Below
  <2> QED BY <2>1, FS_Subset
<1>4. Cardinality(I) \in Nat
  BY FS_CardinalityType
<1>5. Cardinality(Below(I, i) \cup {i}) = Cardinality(Below(I, i)) + 1
  BY <1>3, FS_AddElement
<1>6. Cardinality(Below(I, i)) + 1 = k
  BY <1>1, <1>4
<1>7. Cardinality({j \in I : j <= i}) = k
  BY <1>2, <1>5, <1>6, Zenon
<1> QED BY <1>7, Zenon

\* What remains of a queue is made of what was in it, released.
LEMMA RemainingIs ==
    ASSUME NEW notes \in Seq(Word), NEW I \in SUBSET DOMAIN notes
    PROVE  /\ Remaining(notes, I) \in Seq(Word)
           /\ DOMAIN Remaining(notes, I) = 1..Cardinality(I)
           /\ \A k \in DOMAIN Remaining(notes, I) :
                 \E i \in I : Remaining(notes, I)[k] = Released(notes[i])
           /\ I = {} => Remaining(notes, I) = <<>>
<1> DEFINE place(k) == CHOOSE i \in I : Cardinality({j \in I : j <= i}) = k
           R == Remaining(notes, I)
           C == Cardinality(I)
<1>1. /\ I \in SUBSET Nat /\ IsFiniteSet(I) /\ C \in Nat
      /\ \A i \in I : notes[i] \in Word
  <2>1. Len(notes) \in Nat /\ DOMAIN notes = 1..Len(notes)
    BY LenProperties
  <2>2. IsFiniteSet(1..Len(notes))
    BY <2>1, FS_Interval
  <2>3. IsFiniteSet(I)
    BY <2>1, <2>2, FS_Subset
  <2> QED BY <2>1, <2>3, FS_CardinalityType, ElementOfSeq
<1>2. \A k \in 1..C : place(k) \in I
  BY <1>1, Placed
<1>3. R = [k \in 1..C |-> Released(notes[place(k)])]
  BY DEF Remaining
<1> HIDE DEF place
<1>4. \A m \in Word : Released(m) \in Word
  BY DEF Released, Word
<1>5. R \in [1..C -> Word]
  BY <1>1, <1>2, <1>3, <1>4
<1> HIDE DEF R, C
<1>6. R \in Seq(Word)
  <2>1. [1..C -> Word] \in {[1..k -> Word] : k \in Nat}
    BY <1>1
  <2>2. R \in UNION {[1..k -> Word] : k \in Nat}
    BY <1>5, <2>1
  <2> QED BY <2>2, SeqDef
<1>7. \A k \in DOMAIN R : \E i \in I : R[k] = Released(notes[i])
  BY <1>2, <1>3
<1>8. I = {} => R = <<>>
  <2>1. I = {} => C = 0
    BY FS_EmptySet DEF C
  <2>2. DOMAIN R = 1..C
    BY <1>5
  <2>3. Len(R) \in Nat /\ DOMAIN R = 1..Len(R)
    BY <1>6, LenProperties
  <2>4. C = 0 => Len(R) = 0
    BY <2>2, <2>3
  <2> QED BY <1>6, <2>1, <2>4, EmptySeq
<1>9. DOMAIN R = 1..C
  BY <1>5
<1> QED BY <1>6, <1>7, <1>8, <1>9 DEF R, C

\* The image of a finite set is finite.
LEMMA FiniteImage ==
    ASSUME NEW S, IsFiniteSet(S), NEW f, DOMAIN f = S
    PROVE  IsFiniteSet({f[x] : x \in S})
<1> DEFINE T == {f[x] : x \in S}
           g == [x \in S |-> f[x]]
<1>1. g \in [S -> T] /\ \A y \in T : \E x \in S : g[x] = y
  OBVIOUS
<1>2. g \in Surjection(S, T)
  BY <1>1 DEF Surjection
<1> HIDE DEF g, T
<1>3. IsFiniteSet(T)
  BY <1>2, FS_Surjection
<1> QED BY <1>3 DEF T

-----------------------------------------------------------------------------
(* The inductive invariant.                                                *)

(* What is held and what is on the link is finite.                         *)
Finite ==
    /\ \A n \in Nodes : IsFiniteSet(store[n])
    /\ IsFiniteSet(cross)

(* Whoever is down, believed dead or reported dead did die.                *)
DeathsHappened ==
    /\ down \subseteq died
    /\ \A n \in Nodes : notices[n] \subseteq died
    /\ \A n, x \in Nodes : \A i \in DOMAIN watch[n][x] :
           watch[n][x][i].kind = "dead" => x \in died

(* Notices inside a region land in the tick that sends them, so a node     *)
(* knows, or is just being told, of every peer that is down, and one that  *)
(* never died believes no other peer dead.                                 *)
PeersKnown ==
    \A n, x \in Nodes : region_of(n) = region_of(x) =>
        /\ \A i \in DOMAIN watch[n][x] : watch[n][x][i].due = "now"
        /\ phase # "events" => watch[n][x] = <<>>
        /\ n \notin down /\ x \in down => Believes(n, x)
        /\ n \notin died /\ x \notin down => ~Believes(n, x)

(* A node holds every count of its own that any clock has.                 *)
OwnCounts ==
    \A u \in Versions, n \in Nodes :
        u.clock[n] > 0 => \E v \in store[n] : v.clock[n] >= u.clock[n]

(* A node that answered a write holds a version.                           *)
AnsweredHolds == \A n \in Nodes : ledger[n] # {} => store[n] # {}

IInv ==
    /\ TypeOK /\ Finite
    /\ DeathsHappened /\ PromotionProven
    /\ PeersKnown /\ WrittenHeldByMajority
    /\ OwnCounts /\ ClocksUnique /\ AnsweredHolds

(* No step loses a version a node holds.                                   *)
Grows ==
    \A n \in Nodes :
        /\ store'[n] \subseteq Version /\ IsFiniteSet(store'[n])
        /\ \A v \in store[n] : \E u \in store'[n] : dominates(u.clock, v.clock)

LEMMA SameStore ==
    ASSUME TypeOK, Finite, store' = store PROVE Grows
<1> SUFFICES ASSUME NEW n \in Nodes, NEW v \in store[n]
             PROVE  \E u \in store'[n] : dominates(u.clock, v.clock)
  BY DEF Grows, TypeOK, Finite
<1>1. v.clock \in Clock
  BY DEF TypeOK, Version
<1> QED BY <1>1, DominatesReflexive

-----------------------------------------------------------------------------
(* What each step does to the stores and the link.                         *)

\* A version goes out: nothing is forgotten, and who is asked holds it.
LEMMA WireStep ==
    ASSUME TypeOK, Finite, NEW n \in Nodes, NEW version \in Version,
           NEW held \in SUBSET Version, IsFiniteSet(held),
           \A v \in store[n] : \E u \in held : dominates(u.clock, v.clock),
           Wire(n, held, version)
    PROVE  /\ Grows
           /\ cross' \subseteq Relay /\ IsFiniteSet(cross')
           /\ \A m \in cross' : m \in cross \/ m.version = version
           /\ store'[n] = held
           /\ \A p \in Nodes : store'[p] \subseteq store[p] \cup held \cup {version}
           /\ \A p \in peers_of(n) : p \notin notices[n] /\ p \notin down =>
                 \E u \in store'[p] : dominates(u.clock, version.clock)
<1> DEFINE synced == {p \in peers_of(n) : p \notin notices[n] /\ p \notin down}
           entry == other(region_of(n))[1]
           relay == [due |-> Due(n, entry), from |-> n, to |-> entry, version |-> version]
<1>1. /\ store' = [p \in Nodes |->
                      CASE p = n -> held
                        [] p \in synced -> absorb(store[p], {version})
                        [] OTHER -> store[p]]
      /\ cross' = IF entry \in down THEN cross ELSE cross \cup {relay}
  BY DEF Wire
<1>2. entry \in Nodes
  <2>1. other(region_of(n)) \in Regions
    BY RegionFacts
  <2>2. other(region_of(n)) \in Seq(Nodes) /\ 1 \in 1..Len(other(region_of(n)))
    BY <2>1, RegionFacts
  <2> QED BY <2>2, ElementOfSeq
<1>3. relay \in Relay
  BY <1>2 DEF Relay, Due
<1>4. cross \subseteq Relay /\ IsFiniteSet(cross \cup {relay}) /\ IsFiniteSet(cross)
  BY FS_AddElement DEF TypeOK, Finite
<1>5. relay.version = version
  OBVIOUS
<1> HIDE DEF relay, entry
<1>6. /\ cross' \subseteq Relay /\ IsFiniteSet(cross')
      /\ \A m \in cross' : m \in cross \/ m.version = version
  BY <1>1, <1>3, <1>4, <1>5
<1>7. n \notin synced /\ synced \subseteq Nodes
  BY RegionFacts DEF peers_of
<1>8. ASSUME NEW p \in Nodes
      PROVE  /\ store[p] \in SUBSET Version /\ IsFiniteSet(store[p])
             /\ \A v \in store[p] : dominates(v.clock, v.clock)
  BY DominatesReflexive DEF TypeOK, Finite, Version
<1>9. {version} \in SUBSET Version /\ IsFiniteSet({version})
  BY FS_Singleton
<1>10. ASSUME NEW p \in synced
       PROVE  /\ store'[p] \subseteq Version /\ IsFiniteSet(store'[p])
              /\ store'[p] \subseteq store[p] \cup {version}
              /\ \A v \in store[p] : \E u \in store'[p] : dominates(u.clock, v.clock)
              /\ \E u \in store'[p] : dominates(u.clock, version.clock)
  <2>1. store'[p] = absorb(store[p], {version})
    BY <1>1, <1>7
  <2>2. p \in Nodes
    BY <1>7
  <2>3. /\ store'[p] \in SUBSET (store[p] \cup {version}) /\ IsFiniteSet(store'[p])
        /\ \A a \in store[p] \cup {version} : \E b \in store'[p] :
              dominates(b.clock, a.clock)
    <3>1. store[p] \in SUBSET Version /\ IsFiniteSet(store[p])
      BY <1>8, <2>2
    <3> DEFINE T == {version}
    <3>2. T \in SUBSET Version /\ IsFiniteSet(T) /\ store'[p] = absorb(store[p], T)
      BY <1>9, <2>1
    <3> HIDE DEF T
    <3>3. /\ store'[p] \in SUBSET (store[p] \cup T) /\ IsFiniteSet(store'[p])
          /\ \A a \in store[p] \cup T : \E b \in store'[p] : dominates(b.clock, a.clock)
      BY <3>1, <3>2, AbsorbCovers
    <3> QED BY <3>3 DEF T
  <2>4. store'[p] \subseteq Version
    BY <1>8, <1>9, <2>2, <2>3
  <2> QED BY <2>3, <2>4
<1> HIDE DEF synced
<1>11. store'[n] = held
  BY <1>1, <1>7
<1>12. \A p \in Nodes \ synced : p # n => store'[p] = store[p]
  BY <1>1, <1>7
<1>13. Grows
  BY <1>8, <1>10, <1>11, <1>12 DEF Grows
<1>14. \A p \in Nodes : store'[p] \subseteq store[p] \cup held \cup {version}
  BY <1>10, <1>11, <1>12
<1> QED BY <1>6, <1>10, <1>11, <1>13, <1>14 DEF synced

\* A proposal carries the candidate's store to those that adopt it.
LEMMA ProposeStep ==
    ASSUME TypeOK, Finite, NEW n \in Nodes, Propose(n)
    PROVE  /\ Grows
           /\ \A p \in Nodes : store'[p] \subseteq store[p] \cup store[n]
<1>1. \A p \in Nodes : store'[p] = IF p \in Adopters(n)
                                   THEN absorb(store[p], store[n]) ELSE store[p]
  BY DEF Propose
<1>2. ASSUME NEW p \in Nodes
      PROVE  /\ store[p] \in SUBSET Version /\ IsFiniteSet(store[p])
             /\ \A v \in store[p] : dominates(v.clock, v.clock)
  BY DominatesReflexive DEF TypeOK, Finite, Version
<1>3. ASSUME NEW p \in Nodes, p \in Adopters(n)
      PROVE  /\ store'[p] \subseteq store[p] \cup store[n] /\ IsFiniteSet(store'[p])
             /\ \A v \in store[p] : \E u \in store'[p] : dominates(u.clock, v.clock)
  <2>1. store'[p] = absorb(store[p], store[n])
    BY <1>1, <1>3
  <2> QED BY <1>2, <2>1, AbsorbCovers
<1>4. \A p \in Nodes : p \notin Adopters(n) => store'[p] = store[p]
  BY <1>1
<1> QED BY <1>2, <1>3, <1>4 DEF Grows

\* A tick's deliveries lose no version, of a store or of the link.
LEMMA DeliverStep ==
    ASSUME TypeOK, Finite, DeliverDue
    PROVE  /\ Grows
           /\ cross' \subseteq Relay /\ IsFiniteSet(cross')
           /\ \A m \in cross' : \E r \in cross : m.version = r.version
           /\ \A n \in Nodes :
                 store'[n] \subseteq store[n] \cup {m.version : m \in cross}
<1>1. cross \subseteq Relay /\ IsFiniteSet(cross)
  BY DEF TypeOK, Finite
<1>2. ASSUME NEW n \in Nodes
      PROVE  /\ store'[n] \subseteq Version /\ IsFiniteSet(store'[n])
             /\ store'[n] \subseteq store[n] \cup {m.version : m \in cross}
             /\ \A v \in store[n] : \E u \in store'[n] : dominates(u.clock, v.clock)
  <2> DEFINE A == Arriving(n)
             f == [m \in A |-> m.version]
             T == {m.version : m \in A}
  <2>1. A \in SUBSET cross /\ IsFiniteSet(A)
    <3>1. A \in SUBSET cross
      BY DEF Arriving
    <3> QED BY <1>1, <3>1, FS_Subset
  <2>2. T = {f[m] : m \in A}
    OBVIOUS
  <2>3. IsFiniteSet(T)
    <3>1. DOMAIN f = A
      OBVIOUS
    <3> HIDE DEF f, A, T
    <3> QED BY <2>1, <2>2, <3>1, FiniteImage
  <2>4. T \in SUBSET Version /\ T \subseteq {m.version : m \in cross}
    BY <1>1, <2>1 DEF Relay
  <2>5. store'[n] = absorb(store[n], T)
    BY DEF DeliverDue
  <2>6. store[n] \in SUBSET Version /\ IsFiniteSet(store[n])
    BY DEF TypeOK, Finite
  <2> HIDE DEF T
  <2>7. /\ absorb(store[n], T) \in SUBSET (store[n] \cup T)
        /\ IsFiniteSet(absorb(store[n], T))
        /\ \A a \in store[n] \cup T : \E b \in absorb(store[n], T) :
              dominates(b.clock, a.clock)
    BY <2>3, <2>4, <2>6, AbsorbCovers
  <2> QED BY <2>4, <2>5, <2>6, <2>7
<1>3. Grows
  BY <1>2 DEF Grows
<1> DEFINE Q == {r \in cross : /\ r.from \notin down /\ r.to \notin down
                               /\ ~(r.due = "now" /\ link_up)}
           g == [m \in Q |-> IF m.due = "now" THEN [m EXCEPT !.due = "held"]
                             ELSE Released(m)]
<1>4. cross' = {g[m] : m \in Q} /\ DOMAIN g = Q
  BY DEF DeliverDue, StillCross
<1>5. Q \in SUBSET cross /\ IsFiniteSet(Q)
  <2>1. Q \in SUBSET cross
    OBVIOUS
  <2> HIDE DEF Q
  <2> QED BY <1>1, <2>1, FS_Subset
<1>6. \A m \in Q : g[m] \in Relay /\ g[m].version = m.version
  BY <1>1 DEF Relay, Released
<1> HIDE DEF Q, g
<1>7. IsFiniteSet(cross')
  BY <1>4, <1>5, FiniteImage
<1>8. cross' \subseteq Relay /\ \A m \in cross' : \E r \in cross : m.version = r.version
  BY <1>4, <1>5, <1>6
<1> QED BY <1>2, <1>3, <1>7, <1>8

LEMMA EndTickCross ==
    ASSUME TypeOK, Finite, EndTick
    PROVE  /\ cross' \subseteq Relay /\ IsFiniteSet(cross')
           /\ \A m \in cross' : \E r \in cross : m.version = r.version
<1> DEFINE g == [m \in cross |-> Arrived(m)]
<1>1. cross \subseteq Relay /\ IsFiniteSet(cross)
  BY DEF TypeOK, Finite
<1>2. cross' = {g[m] : m \in cross} /\ DOMAIN g = cross
  BY DEF EndTick
<1>3. \A m \in cross : g[m] \in Relay /\ g[m].version = m.version
  BY <1>1 DEF Relay, Arrived
<1> HIDE DEF g
<1>4. IsFiniteSet(cross')
  BY <1>1, <1>2, FiniteImage
<1> QED BY <1>2, <1>3, <1>4

-----------------------------------------------------------------------------
(* Where a version is, and what a client's request does.                   *)

LEMMA VersionsAre ==
    /\ \A v : v \in Versions <=> \/ \E n \in Nodes : v \in store[n]
                                 \/ \E w \in written : v = w.version
                                 \/ \E m \in cross : v = m.version
    /\ \A v : v \in Versions' <=> \/ \E n \in Nodes : v \in store'[n]
                                  \/ \E w \in written' : v = w.version
                                  \/ \E m \in cross' : v = m.version
<1>1. ASSUME NEW v
      PROVE  v \in Versions <=> \/ \E n \in Nodes : v \in store[n]
                                \/ \E w \in written : v = w.version
                                \/ \E m \in cross : v = m.version
  BY DEF Versions
<1>2. ASSUME NEW v
      PROVE  v \in Versions' <=> \/ \E n \in Nodes : v \in store'[n]
                                 \/ \E w \in written' : v = w.version
                                 \/ \E m \in cross' : v = m.version
  BY DEF Versions
<1> QED BY <1>1, <1>2

LEMMA VersionsTyped ==
    ASSUME TypeOK
    PROVE  /\ Versions \subseteq Version
           /\ \A v \in Version : v.clock \in Clock /\ \A n \in Nodes : v.clock[n] \in Nat
<1>1. /\ \A n \in Nodes : store[n] \subseteq Version
      /\ \A w \in written : w.version \in Version
      /\ \A m \in cross : m.version \in Version
  BY DEF TypeOK, Relay
<1>2. Versions \subseteq Version
  BY <1>1, VersionsAre
<1> QED BY <1>2 DEF Version, Clock

\* The node that serves a request is up.
LEMMA ServingUp ==
    ASSUME NEW home \in Regions, NEW n \in Serving(home)
    PROVE  n \in Nodes \ down
<1>1. \A r \in Regions : live(r) # {} => first(r, live(r)) \in Nodes \ down
  <2> TAKE r \in Regions
  <2> HAVE live(r) # {}
  <2>1. live(r) \cap Range(r) = live(r) /\ live(r) \subseteq Nodes \ down
    BY RegionFacts DEF live
  <2> QED BY <2>1, FirstMember
<1>2. other(home) \in Regions
  BY RegionFacts
<1>3. \E n0 \in Regions : n = first(n0, live(n0)) /\ live(n0) # {}
  <2>1. live(home) # {} => n = first(home, live(home))
    BY DEF Serving
  <2>2. ASSUME live(home) = {}
        PROVE  region_promoted(other(home)) /\ n = first(other(home), live(other(home)))
    BY <2>2 DEF Serving
  <2>3. region_promoted(other(home)) => live(other(home)) # {}
    BY DEF region_promoted
  <2> QED BY <1>2, <2>1, <2>2, <2>3
<1> QED BY <1>1, <1>3

LEMMA ArriveCases ==
    ASSUME NEW home \in Regions, NEW request, Arrive(home, request)
    PROVE  \/ UNCHANGED <<node, cross, written>>
           \/ \E n \in Nodes \ down :
                /\ quorum_ok(n, notices[n]) /\ request \in Writes
                /\ Apply(n, request) \/ Replay(n, request)
                /\ UNCHANGED <<epoch, promoted, notices, votes>>
<1>1. \/ UNCHANGED <<node, cross, written>>
      \/ \E n \in Serving(home) :
           /\ quorum_ok(n, notices[n]) /\ request \in Writes
           /\ Apply(n, request) \/ Replay(n, request)
           /\ UNCHANGED <<epoch, promoted, notices, votes>>
  BY Zenon DEF Arrive
<1> QED BY <1>1, ServingUp

\* An answered write: the version that goes out is a new winner, or one the
\* node holds already.
LEMMA AnswerStep ==
    ASSUME IInv, NEW n \in Nodes, NEW w \in Writes, Apply(n, w) \/ Replay(n, w)
    PROVE  \E version \in Version :
             /\ Grows /\ cross' \subseteq Relay /\ IsFiniteSet(cross')
             /\ \A p \in {n} \cup {q \in peers_of(n) : q \notin notices[n] /\ q \notin down} :
                   \E u \in store'[p] : dominates(u.clock, version.clock)
             /\ Versions' \subseteq Versions \cup {version}
             /\ store'[n] # {}
             /\ \/ version \in Versions /\ UNCHANGED <<written, ledger>>
                \/ /\ version = winner(store[n], n, w) /\ version \in store'[n]
                   /\ written' = written \cup {[by |-> n, version |-> version]}
                   /\ ledger' = [ledger EXCEPT ![n] = @ \cup {w}]
<1> USE DEF IInv
<1>1. /\ store[n] \in SUBSET Version /\ IsFiniteSet(store[n])
      /\ \A v \in Version : dominates(v.clock, v.clock)
  BY DominatesReflexive, VersionsTyped DEF TypeOK, Finite
<1>2. CASE Apply(n, w)
  <2> DEFINE c == merged_clock(store[n], n)
             version == winner(store[n], n, w)
             held == {version}
  <2>1. version = [value |-> w, clock |-> c]
    BY DEF winner
  <2> HIDE DEF version, c
  <2>2. c \in Clock /\ \A v \in store[n] : dominates(c, v.clock)
    BY <1>1, MergedClock DEF c
  <2>3. version \in Version /\ version.clock = c
    BY <2>1, <2>2 DEF Version
  <2>4. /\ Wire(n, held, version)
        /\ written' = written \cup {[by |-> n, version |-> version]}
        /\ ledger' = [ledger EXCEPT ![n] = @ \cup {w}]
    BY <1>2 DEF Apply, version
  <2>5. held \in SUBSET Version /\ IsFiniteSet(held) /\ version \in held
        /\ \A v \in store[n] : \E u \in held : dominates(u.clock, v.clock)
    BY <2>2, <2>3, FS_Singleton
  <2>6. /\ Grows /\ cross' \subseteq Relay /\ IsFiniteSet(cross')
        /\ \A m \in cross' : m \in cross \/ m.version = version
        /\ store'[n] = held
        /\ \A p \in Nodes : store'[p] \subseteq store[p] \cup held \cup {version}
        /\ \A p \in peers_of(n) : p \notin notices[n] /\ p \notin down =>
              \E u \in store'[p] : dominates(u.clock, version.clock)
    <3> HIDE DEF held
    <3> QED BY <2>3, <2>4, <2>5, WireStep
  <2>7. version \in store'[n] /\ store'[n] # {}
    BY <2>6
  <2>8. \E u \in store'[n] : dominates(u.clock, version.clock)
    BY <1>1, <2>3, <2>7
  <2>9. Versions' \subseteq Versions \cup {version}
    BY <2>4, <2>6, VersionsAre
  <2> QED BY <2>3, <2>4, <2>6, <2>7, <2>8, <2>9 DEF version
<1>3. CASE Replay(n, w)
  <2> DEFINE version == last(store[n])
  <2>1. Wire(n, store[n], version) /\ w \in ledger[n] /\ UNCHANGED <<ledger, written>>
    BY <1>3 DEF Replay
  <2>2. store[n] # {}
    BY <2>1 DEF AnsweredHolds
  <2>3. \A u, v \in store[n] : u.clock = v.clock => u = v
    BY VersionsAre DEF ClocksUnique
  <2>4. version \in store[n]
    BY <1>1, <2>2, <2>3, LastHeld
  <2> HIDE DEF version
  <2>5. version \in Version /\ \A v \in store[n] : \E u \in store[n] : dominates(u.clock, v.clock)
    BY <1>1, <2>4
  <2>6. /\ Grows /\ cross' \subseteq Relay /\ IsFiniteSet(cross')
        /\ \A m \in cross' : m \in cross \/ m.version = version
        /\ store'[n] = store[n]
        /\ \A p \in Nodes : store'[p] \subseteq store[p] \cup store[n] \cup {version}
        /\ \A p \in peers_of(n) : p \notin notices[n] /\ p \notin down =>
              \E u \in store'[p] : dominates(u.clock, version.clock)
    BY <1>1, <2>1, <2>5, WireStep
  <2>7. version \in Versions /\ \E u \in store'[n] : dominates(u.clock, version.clock)
    BY <1>1, <2>4, <2>5, <2>6, VersionsAre
  <2>8. Versions' \subseteq Versions \cup {version}
    BY <2>1, <2>6, VersionsAre
  <2> QED BY <2>1, <2>2, <2>5, <2>6, <2>7, <2>8
<1> QED BY <1>2, <1>3

-----------------------------------------------------------------------------
(* Every variable keeps its shape.                                         *)

LEMMA NoticeTyped ==
    ASSUME NEW to \in Nodes, NEW kind \in {"dead", "alive"}, NEW subject \in Nodes
    PROVE  Notice(to, kind, subject) \in Word
BY DEF Notice, Due, Word

\* A notice told is the last of its queue; every other queue stays.
LEMMA ToldIs ==
    ASSUME TypeOK, NEW kind \in {"dead", "alive"}, NEW s \in Nodes
    PROVE  /\ Told(kind, s) \in [Nodes -> [Nodes -> Seq(Word)]]
           /\ \A n, x \in Nodes :
                 Told(kind, s)[n][x] =
                    IF x = s /\ n # s /\ n \notin down
                    THEN Append(watch[n][x], Notice(n, kind, x)) ELSE watch[n][x]
<1>1. \A n, x \in Nodes :
        Told(kind, s)[n][x] =
           IF x = s /\ n # s /\ n \notin down
           THEN Append(watch[n][x], Notice(n, kind, x)) ELSE watch[n][x]
  BY DEF Told
<1>2. ASSUME NEW n \in Nodes, NEW x \in Nodes
      PROVE  (IF x = s /\ n # s /\ n \notin down
              THEN Append(watch[n][x], Notice(n, kind, x)) ELSE watch[n][x]) \in Seq(Word)
  <2>1. watch[n][x] \in Seq(Word)
    BY DEF TypeOK
  <2> QED BY <2>1, NoticeTyped, AppendProperties
<1>3. Told(kind, s) \in [Nodes -> [Nodes -> Seq(Word)]]
  BY <1>2 DEF Told
<1> QED BY <1>1, <1>3

LEMMA CatchUpIs ==
    ASSUME TypeOK, NEW s \in Nodes
    PROVE  /\ CatchUp(s) \in [Nodes -> [Nodes -> Seq(Word)]]
           /\ \A n, x \in Nodes :
                 CatchUp(s)[n][x] =
                    IF n = s /\ x # s /\ x \in down
                    THEN Append(watch[n][x], Notice(n, "dead", x))
                    ELSE Told("alive", s)[n][x]
<1>1. \A n, x \in Nodes :
        CatchUp(s)[n][x] = IF n = s /\ x # s /\ x \in down
                           THEN Append(watch[n][x], Notice(n, "dead", x))
                           ELSE Told("alive", s)[n][x]
  BY DEF CatchUp
<1>2. ASSUME NEW n \in Nodes, NEW x \in Nodes
      PROVE  (IF n = s /\ x # s /\ x \in down
              THEN Append(watch[n][x], Notice(n, "dead", x))
              ELSE Told("alive", s)[n][x]) \in Seq(Word)
  <2>1. watch[n][x] \in Seq(Word)
    BY DEF TypeOK
  <2>2. Told("alive", s) \in [Nodes -> [Nodes -> Seq(Word)]]
    BY ToldIs
  <2>3. Told("alive", s)[n][x] \in Seq(Word)
    BY <2>2
  <2> QED BY <2>1, <2>3, NoticeTyped, AppendProperties
<1>3. CatchUp(s) \in [Nodes -> [Nodes -> Seq(Word)]]
  BY <1>2 DEF CatchUp
<1> QED BY <1>1, <1>3

LEMMA ArrivedTyped ==
    ASSUME NEW s \in Seq(Word)
    PROVE  [i \in DOMAIN s |-> Arrived(s[i])] \in Seq(Word)
<1>1. \A m \in Word : Arrived(m) \in Word
  BY DEF Arrived, Word
<1>2. Len(s) \in Nat /\ DOMAIN s = 1..Len(s) /\ \A i \in DOMAIN s : s[i] \in Word
  BY LenProperties, ElementOfSeq
<1> DEFINE f == [i \in DOMAIN s |-> Arrived(s[i])]
<1>3. f \in [1..Len(s) -> Word]
  BY <1>1, <1>2
<1> HIDE DEF f
<1>4. [1..Len(s) -> Word] \in {[1..k -> Word] : k \in Nat}
  BY <1>2
<1>5. f \in UNION {[1..k -> Word] : k \in Nat}
  BY <1>3, <1>4
<1> QED BY <1>5, SeqDef DEF f

LEMMA RemoveAtTyped ==
    ASSUME NEW S, NEW s \in Seq(S), NEW i \in DOMAIN s
    PROVE  RemoveAt(s, i) \in Seq(S)
<1>1. Len(s) \in Nat /\ i \in 1..Len(s) /\ \A j \in 1..Len(s) : s[j] \in S
  BY LenProperties, ElementOfSeq
<1>2. SubSeq(s, 1, i - 1) \in Seq(S)
  <2>1. \A j \in 1..(i - 1) : s[j] \in S
    BY <1>1
  <2>2. 1 \in Int /\ i - 1 \in Int
    BY <1>1
  <2> QED BY <2>1, <2>2, SubSeqProperties
<1>3. SubSeq(s, i + 1, Len(s)) \in Seq(S)
  <2>1. \A j \in (i + 1)..Len(s) : s[j] \in S
    BY <1>1
  <2>2. i + 1 \in Int /\ Len(s) \in Int
    BY <1>1
  <2> QED BY <2>1, <2>2, SubSeqProperties
<1> QED BY <1>2, <1>3, ConcatProperties DEF RemoveAt

\* The part of the shape a client's request touches.
LEMMA ArriveTyped ==
    ASSUME IInv, NEW home \in Regions, NEW request \in Requests, Arrive(home, request)
    PROVE  /\ Grows /\ Finite'
           /\ \A n \in Nodes : store'[n] \subseteq Version
           /\ ledger' \in [Nodes -> SUBSET Writes]
           /\ cross' \subseteq Relay
           /\ \A w \in written' : w.by \in Nodes /\ w.version \in Version
           /\ UNCHANGED <<epoch, promoted, notices, votes>>
<1> USE DEF IInv
<1>1. CASE UNCHANGED <<node, cross, written>>
  <2>1. UNCHANGED <<epoch, promoted, store, ledger, notices, votes, cross, written>>
    BY <1>1 DEF node
  <2> QED BY <2>1, SameStore DEF TypeOK, Finite
<1>2. ASSUME NEW n \in Nodes \ down, request \in Writes,
             Apply(n, request) \/ Replay(n, request),
             UNCHANGED <<epoch, promoted, notices, votes>>
      PROVE  /\ Grows /\ Finite'
             /\ \A p \in Nodes : store'[p] \subseteq Version
             /\ ledger' \in [Nodes -> SUBSET Writes]
             /\ cross' \subseteq Relay
             /\ \A w \in written' : w.by \in Nodes /\ w.version \in Version
  <2>1. PICK version \in Version :
          /\ Grows /\ cross' \subseteq Relay /\ IsFiniteSet(cross')
          /\ \/ UNCHANGED <<written, ledger>>
             \/ /\ written' = written \cup {[by |-> n, version |-> version]}
                /\ ledger' = [ledger EXCEPT ![n] = @ \cup {request}]
    BY <1>2, AnswerStep
  <2>2. Finite' /\ \A p \in Nodes : store'[p] \subseteq Version
    BY <2>1 DEF Grows, Finite
  <2>3. ledger' \in [Nodes -> SUBSET Writes]
    <3>1. ledger \in [Nodes -> SUBSET Writes]
      BY DEF TypeOK
    <3>2. ledger[n] \cup {request} \in SUBSET Writes
      BY <1>2, <3>1
    <3>3. ledger' = ledger \/ ledger' = [ledger EXCEPT ![n] = @ \cup {request}]
      BY <2>1
    <3> QED BY <3>1, <3>2, <3>3
  <2>4. \A w \in written' : w.by \in Nodes /\ w.version \in Version
    <3> DEFINE new == [by |-> n, version |-> version]
    <3>1. new.by \in Nodes /\ new.version \in Version
      OBVIOUS
    <3> HIDE DEF new
    <3>2. \A w \in written : w.by \in Nodes /\ w.version \in Version
      BY DEF TypeOK
    <3>3. written' = written \/ written' = written \cup {new}
      BY <2>1 DEF new
    <3> QED BY <3>1, <3>2, <3>3
  <2> QED BY <2>1, <2>2, <2>3, <2>4
<1> QED BY <1>1, <1>2, ArriveCases

LEMMA RedirectArrives ==
    ASSUME TypeOK, Redirected
    PROVE  \E home \in Regions, request \in Requests : Arrive(home, request)
<1>1. PICK i \in DOMAIN inject : Arrive(other(Home[inject[i]]), inject[i])
  BY DEF Redirected
<1>2. inject[i] \in Requests
  <2>1. inject \in Seq(Requests)
    BY DEF TypeOK
  <2> QED BY <2>1, LenProperties, ElementOfSeq
<1>3. other(Home[inject[i]]) \in Regions
  BY <1>2, ScheduleAssumption, RegionFacts DEF Requests
<1> QED BY <1>1, <1>2, <1>3

LEMMA SpendTyped ==
    ASSUME TypeOK, NEW what \in {"kill", "revive", "flip", "call"}, Spend(what)
    PROVE  left' \in [{"kill", "revive", "flip", "call"} -> Nat]
BY DEF Spend, TypeOK

LEMMA Initial == Init => IInv
<1> SUFFICES ASSUME Init PROVE IInv
  OBVIOUS
<1>1. \A n \in Nodes : /\ store[n] = {} /\ notices[n] = {} /\ ledger[n] = {}
                       /\ promoted[n] = FALSE
                       /\ \A x \in Nodes : watch[n][x] = <<>>
  BY DEF Init
<1>2. TypeOK
  <2>1. epoch \in [Nodes -> {INITIAL_EPOCH, INITIAL_EPOCH + 1}]
    BY DEF Init
  <2>2. /\ promoted \in [Nodes -> BOOLEAN] /\ ledger \in [Nodes -> SUBSET Writes]
        /\ notices \in [Nodes -> SUBSET Nodes] /\ votes \in [Nodes -> SUBSET Nodes]
        /\ watch \in [Nodes -> [Nodes -> Seq(Word)]] /\ inject \in Seq(Requests)
    <3>1. <<>> \in Seq(Word) /\ <<>> \in Seq(Requests)
      BY EmptySeq
    <3> QED BY <3>1 DEF Init
  <2>3. turn \in 1..(Len(West) + 1)
    <3>1. Len(West) \in Nat
      BY RegionFacts DEF Regions
    <3> QED BY <3>1 DEF Init
  <2>4. left \in [{"kill", "revive", "flip", "call"} -> Nat]
    BY ScheduleAssumption DEF Init
  <2> QED BY <1>1, <2>1, <2>2, <2>3, <2>4 DEF Init, TypeOK
<1>3. Finite
  BY <1>1, FS_EmptySet DEF Init, Finite
<1>4. DeathsHappened /\ PromotionProven /\ AnsweredHolds
  <2>1. \A n, x \in Nodes : DOMAIN watch[n][x] = {}
    <3>1. DOMAIN <<>> = {}
      OBVIOUS
    <3> QED BY <1>1, <3>1
  <2> QED BY <1>1, <2>1 DEF Init, DeathsHappened, PromotionProven, AnsweredHolds
<1>5. PeersKnown
  BY <1>1 DEF Init, PeersKnown, Believes, Landing
<1>6. \A v : v \notin Versions
  BY <1>1, VersionsAre DEF Init
<1>7. OwnCounts /\ ClocksUnique /\ WrittenHeldByMajority
  BY <1>6 DEF Init, OwnCounts, ClocksUnique, WrittenHeldByMajority
<1> QED BY <1>2, <1>3, <1>4, <1>5, <1>7 DEF IInv

LEMMA TypeStep ==
    ASSUME IInv, [Next]_vars PROVE TypeOK' /\ Finite' /\ Grows
<1> USE DEF IInv
<1>1. ASSUME NEW n \in Nodes, Kill(n) PROVE TypeOK' /\ Finite' /\ Grows
  <2>1. store' = store /\ Grows
    BY <1>1, SameStore DEF Kill, node
  <2>2. watch' \in [Nodes -> [Nodes -> Seq(Word)]]
    BY <1>1, ToldIs DEF Kill
  <2>3. left' \in [{"kill", "revive", "flip", "call"} -> Nat]
    BY <1>1, SpendTyped DEF Kill
  <2>4. cross' \in SUBSET cross
    BY <1>1 DEF Kill
  <2>5. Finite'
    BY <2>1, <2>4, FS_Subset DEF Finite
  <2>6. down' \subseteq Nodes /\ died' \subseteq Nodes
    BY <1>1 DEF Kill, TypeOK
  <2> QED BY <1>1, <2>1, <2>2, <2>3, <2>4, <2>5, <2>6 DEF TypeOK, Kill, node, clock
<1>2. ASSUME NEW n \in Nodes, Revive(n) PROVE TypeOK' /\ Finite' /\ Grows
  <2>1. store' = store /\ cross' = cross /\ Grows
    BY <1>2, SameStore DEF Revive, node
  <2>2. watch' \in [Nodes -> [Nodes -> Seq(Word)]]
    BY <1>2, CatchUpIs DEF Revive
  <2>3. left' \in [{"kill", "revive", "flip", "call"} -> Nat]
    BY <1>2, SpendTyped DEF Revive
  <2>4. down' \subseteq Nodes
    BY <1>2 DEF Revive, TypeOK
  <2> QED BY <1>2, <2>1, <2>2, <2>3, <2>4 DEF TypeOK, Finite, Revive, node, clock, history
<1>3. CASE Cut \/ Heal
  <2>1. UNCHANGED <<node, down, clock, traffic, history>> /\ link_up' \in BOOLEAN /\ Spend("flip")
    BY <1>3 DEF Cut, Heal
  <2>2. left' \in [{"kill", "revive", "flip", "call"} -> Nat]
    BY <2>1, SpendTyped
  <2>3. Grows
    BY <2>1, SameStore DEF node
  <2> QED BY <2>1, <2>2, <2>3 DEF TypeOK, Finite, node, clock, traffic, history
<1>4. CASE DeliverDue
  <2>1. Grows /\ cross' \subseteq Relay /\ IsFiniteSet(cross')
    BY <1>4, DeliverStep
  <2>2. watch' \in [Nodes -> [Nodes -> Seq(Word)]]
    <3>1. ASSUME NEW n \in Nodes, NEW x \in Nodes PROVE StillWatch(n, x) \in Seq(Word)
      <4>1. watch[n][x] \in Seq(Word)
        BY DEF TypeOK
      <4> QED BY <4>1, RemainingIs DEF StillWatch
    <3> QED BY <1>4, <3>1 DEF DeliverDue
  <2>3. notices' \in [Nodes -> SUBSET Nodes]
    BY <1>4 DEF DeliverDue
  <2>4. Finite' /\ \A n \in Nodes : store'[n] \subseteq Version
    BY <2>1 DEF Finite, Grows
  <2> QED BY <1>4, <2>1, <2>2, <2>3, <2>4 DEF TypeOK, DeliverDue, history
<1>5. CASE TickNode
  <2>1. PICK i \in turn..Len(West) : Proposes(West[i]) /\ Propose(West[i]) /\ turn' = i + 1
    BY <1>5 DEF TickNode
  <2>2. Len(West) \in Nat /\ turn \in Nat /\ i \in 1..Len(West)
    <3>1. Len(West) \in Nat
      BY RegionFacts DEF Regions
    <3> QED BY <3>1 DEF TypeOK
  <2>3. West[i] \in Nodes
    <3>1. West \in Seq(Nodes)
      BY RegionFacts DEF Regions
    <3> QED BY <2>2, <3>1, ElementOfSeq
  <2> DEFINE n == West[i]
  <2> HIDE DEF n
  <2>4. n \in Nodes /\ Propose(n) /\ epoch[n] = INITIAL_EPOCH
    BY <2>1, <2>3 DEF n, Proposes, Candidate
  <2>5. turn' \in 1..(Len(West) + 1)
    BY <2>1, <2>2
  <2>6. Grows
    BY <2>4, ProposeStep
  <2>7. epoch' \in [Nodes -> {INITIAL_EPOCH, INITIAL_EPOCH + 1}]
    BY <2>4 DEF TypeOK, Propose
  <2>8. Counted(n, Adopters(n)) \subseteq Nodes
    <3>1. Adopters(n) \subseteq Range(West)
      <4>1. region_of(n) = West
        BY <2>1 DEF n, Proposes, Candidate
      <4> QED BY <4>1 DEF Adopters, peers_of
    <3>2. Adopters(n) # {} => first(West, Adopters(n)) \in Nodes
      BY <3>1, FirstMember, RegionFacts DEF Regions
    <3> QED BY <2>4, <3>2 DEF Counted
  <2>9. votes' \in [Nodes -> SUBSET Nodes] /\ promoted' \in [Nodes -> BOOLEAN]
    BY <2>4, <2>8 DEF TypeOK, Propose
  <2>10. \A p \in Nodes : store'[p] \subseteq Version /\ IsFiniteSet(store'[p])
    BY <2>6 DEF Grows
  <2> QED BY <1>5, <2>5, <2>6, <2>7, <2>9, <2>10 DEF TypeOK, Finite, TickNode, traffic, history
<1>6. CASE TicksDone
  <2>1. turn' \in 1..(Len(West) + 1)
    <3>1. Len(West) \in Nat
      BY RegionFacts DEF Regions
    <3> QED BY <1>6, <3>1 DEF TicksDone
  <2>2. Grows
    BY <1>6, SameStore DEF TicksDone, node
  <2> QED BY <1>6, <2>1, <2>2 DEF TypeOK, Finite, TicksDone, node, traffic, history
<1>7. CASE Redirected
  <2>1. PICK i \in DOMAIN inject : /\ Arrive(other(Home[inject[i]]), inject[i])
                                   /\ inject' = RemoveAt(inject, i)
    BY <1>7 DEF Redirected
  <2>2. inject \in Seq(Requests) /\ inject[i] \in Requests
    <3>1. inject \in Seq(Requests)
      BY DEF TypeOK
    <3> QED BY <3>1, LenProperties, ElementOfSeq
  <2>3. inject' \in Seq(Requests)
    BY <2>1, <2>2, RemoveAtTyped
  <2>4. other(Home[inject[i]]) \in Regions
    BY <2>2, ScheduleAssumption, RegionFacts DEF Requests
  <2>5. /\ Grows /\ Finite' /\ \A n \in Nodes : store'[n] \subseteq Version
        /\ ledger' \in [Nodes -> SUBSET Writes] /\ cross' \subseteq Relay
        /\ \A w \in written' : w.by \in Nodes /\ w.version \in Version
        /\ UNCHANGED <<epoch, promoted, notices, votes>>
    BY <2>1, <2>2, <2>4, ArriveTyped
  <2> QED BY <1>7, <2>3, <2>5 DEF TypeOK, Redirected, clock
<1>8. ASSUME NEW request \in Requests, Client(request) PROVE TypeOK' /\ Finite' /\ Grows
  <2>1. Home[request] \in Regions
    BY ScheduleAssumption DEF Requests
  <2>2. inject' \in Seq(Requests)
    <3>1. inject \in Seq(Requests)
      BY DEF TypeOK
    <3>2. Append(inject, request) \in Seq(Requests)
      BY <3>1, AppendProperties
    <3> QED BY <1>8, <3>1, <3>2 DEF Client
  <2>3. left' \in [{"kill", "revive", "flip", "call"} -> Nat]
    BY <1>8, SpendTyped DEF Client
  <2>4. /\ Grows /\ Finite' /\ \A n \in Nodes : store'[n] \subseteq Version
        /\ ledger' \in [Nodes -> SUBSET Writes] /\ cross' \subseteq Relay
        /\ \A w \in written' : w.by \in Nodes /\ w.version \in Version
        /\ UNCHANGED <<epoch, promoted, notices, votes>>
    BY <1>8, <2>1, ArriveTyped DEF Client
  <2> QED BY <1>8, <2>2, <2>3, <2>4 DEF TypeOK, Client, clock
<1>9. CASE EndTick
  <2>1. cross' \subseteq Relay /\ IsFiniteSet(cross')
    BY <1>9, EndTickCross
  <2>2. store' = store /\ Grows
    BY <1>9, SameStore DEF EndTick, node
  <2>3. watch' \in [Nodes -> [Nodes -> Seq(Word)]]
    <3>1. ASSUME NEW n \in Nodes, NEW x \in Nodes
          PROVE  [i \in DOMAIN watch[n][x] |-> Arrived(watch[n][x][i])] \in Seq(Word)
      <4>1. watch[n][x] \in Seq(Word)
        BY DEF TypeOK
      <4> QED BY <4>1, ArrivedTyped
    <3> QED BY <1>9, <3>1 DEF EndTick
  <2>4. even' \in BOOLEAN /\ phase' \in {"events", "redirects", "clients"}
    BY <1>9 DEF EndTick
  <2> QED BY <1>9, <2>1, <2>2, <2>3, <2>4 DEF TypeOK, Finite, EndTick, node, history
<1>10. CASE UNCHANGED vars
  <2>1. Grows
    BY <1>10, SameStore DEF vars, node
  <2> QED BY <1>10, <2>1 DEF TypeOK, Finite, vars, node, clock, traffic, history
<1> QED BY <1>1, <1>2, <1>3, <1>4, <1>5, <1>6, <1>7, <1>8, <1>9, <1>10 DEF Next

-----------------------------------------------------------------------------
(* What holds of the stores goes on to hold.                               *)

\* What a node covered it covers, and a count it held it holds.
LEMMA GrowsKeeps ==
    ASSUME TypeOK, Grows, NEW n \in Nodes
    PROVE  /\ \A v \in Version : covers(n, v) => covers(n, v)'
           /\ \A p \in Nodes, v \in store[n] :
                 \E u \in store'[n] : u.clock[p] >= v.clock[p]
           /\ store[n] # {} => store'[n] # {}
<1>1. /\ store[n] \subseteq Version /\ store'[n] \subseteq Version
      /\ \A v \in store[n] : \E u \in store'[n] : dominates(u.clock, v.clock)
  BY DEF TypeOK, Grows
<1>2. ASSUME NEW v \in Version, covers(n, v) PROVE covers(n, v)'
  <2>1. PICK u \in store[n] : dominates(u.clock, v.clock)
    BY <1>2 DEF covers
  <2>2. PICK t \in store'[n] : dominates(t.clock, u.clock)
    BY <1>1
  <2>3. t.clock \in Clock /\ u.clock \in Clock /\ v.clock \in Clock
    BY <1>1, <2>1, <2>2 DEF Version
  <2>4. dominates(t.clock, v.clock)
    BY <2>1, <2>2, <2>3, DominatesTransitive
  <2> QED BY <2>4 DEF covers
<1>3. \A p \in Nodes, v \in store[n] : \E u \in store'[n] : u.clock[p] >= v.clock[p]
  BY <1>1 DEF dominates
<1> QED BY <1>1, <1>2, <1>3

LEMMA HeldStays ==
    ASSUME TypeOK, Grows, WrittenHeldByMajority, NEW w \in written
    PROVE  LET holders == {n \in Range(region_of(w.by)) : covers(n, w.version)'}
           IN Cardinality(holders) >= majority(Len(region_of(w.by)))
<1> DEFINE R == Range(region_of(w.by))
           H == {n \in R : covers(n, w.version)}
           G == {n \in R : covers(n, w.version)'}
<1>1. w.by \in Nodes /\ w.version \in Version
  BY DEF TypeOK
<1>2. IsFiniteSet(R) /\ R \subseteq Nodes /\ Len(region_of(w.by)) \in Nat
  BY <1>1, RegionFacts
<1>3. Cardinality(H) >= majority(Len(region_of(w.by)))
  BY DEF WrittenHeldByMajority
<1>4. H \in SUBSET G /\ G \in SUBSET R
  BY <1>1, <1>2, GrowsKeeps
<1> HIDE DEF H, G, R
<1>5. IsFiniteSet(G) /\ IsFiniteSet(H)
  BY <1>2, <1>4, FS_Subset
<1>6. Cardinality(H) <= Cardinality(G)
  BY <1>4, <1>5, FS_Subset
<1>7. Cardinality(H) \in Nat /\ Cardinality(G) \in Nat
  BY <1>5, FS_CardinalityType
<1>8. Cardinality(G) >= majority(Len(region_of(w.by)))
  BY <1>2, <1>3, <1>6, <1>7 DEF majority
<1> QED BY <1>8 DEF G, R

\* A step that writes nothing and answers nothing.
LEMMA NothingNew ==
    ASSUME IInv, Grows, Versions' \subseteq Versions, UNCHANGED <<written, ledger>>
    PROVE  WrittenHeldByMajority' /\ OwnCounts' /\ ClocksUnique' /\ AnsweredHolds'
<1> USE DEF IInv
<1>1. WrittenHeldByMajority'
  BY HeldStays DEF WrittenHeldByMajority
<1>2. ClocksUnique'
  BY DEF ClocksUnique
<1>3. AnsweredHolds'
  BY GrowsKeeps DEF AnsweredHolds
<1>4. OwnCounts'
  <2> SUFFICES ASSUME NEW u \in Versions, NEW n \in Nodes, u.clock[n] > 0
               PROVE  \E v \in store'[n] : v.clock[n] >= u.clock[n]
    BY DEF OwnCounts
  <2>1. PICK v \in store[n] : v.clock[n] >= u.clock[n]
    BY DEF OwnCounts
  <2>2. PICK t \in store'[n] : t.clock[n] >= v.clock[n]
    BY <2>1, GrowsKeeps
  <2>3. u.clock[n] \in Nat /\ v.clock[n] \in Nat /\ t.clock[n] \in Nat
    BY <2>1, <2>2, VersionsTyped DEF Grows, TypeOK
  <2> QED BY <2>1, <2>2, <2>3
<1> QED BY <1>1, <1>2, <1>3, <1>4

\* Once deliveries are over, a peer not believed dead is up.
LEMMA PeersUp ==
    ASSUME IInv, phase # "events", NEW n \in Nodes \ down,
           NEW x \in peers_of(n), x \notin notices[n]
    PROVE  x \notin down
<1>1. x \in Nodes /\ region_of(x) = region_of(n)
  BY RegionFacts DEF peers_of
<1>2. watch[n][x] = <<>> /\ (x \in down => Believes(n, x))
  BY <1>1 DEF IInv, PeersKnown
<1>3. Landing(n, x) = {}
  BY <1>2 DEF Landing
<1> QED BY <1>2, <1>3 DEF Believes

\* A node that answered a write, or answers it again.
LEMMA AnswerKeeps ==
    ASSUME IInv, phase # "events", NEW n \in Nodes \ down, NEW w \in Writes,
           quorum_ok(n, notices[n]), Apply(n, w) \/ Replay(n, w)
    PROVE  WrittenHeldByMajority' /\ OwnCounts' /\ ClocksUnique' /\ AnsweredHolds'
<1> USE DEF IInv
<1>1. PICK version \in Version :
        /\ Grows
        /\ \A p \in {n} \cup {q \in peers_of(n) : q \notin notices[n] /\ q \notin down} :
              \E u \in store'[p] : dominates(u.clock, version.clock)
        /\ Versions' \subseteq Versions \cup {version}
        /\ store'[n] # {}
        /\ \/ version \in Versions /\ UNCHANGED <<written, ledger>>
           \/ /\ version = winner(store[n], n, w) /\ version \in store'[n]
              /\ written' = written \cup {[by |-> n, version |-> version]}
              /\ ledger' = [ledger EXCEPT ![n] = @ \cup {w}]
  BY AnswerStep
<1>2. CASE version \in Versions /\ UNCHANGED <<written, ledger>>
  <2>1. Versions' \subseteq Versions
    BY <1>1, <1>2
  <2> QED BY <1>1, <1>2, <2>1, NothingNew
<1>3. CASE /\ version = winner(store[n], n, w) /\ version \in store'[n]
           /\ written' = written \cup {[by |-> n, version |-> version]}
           /\ ledger' = [ledger EXCEPT ![n] = @ \cup {w}]
  <2> DEFINE c == merged_clock(store[n], n)
  <2>1. version.clock = c
    BY <1>3 DEF winner
  <2> HIDE DEF c
  <2>2. /\ c \in Clock /\ c[n] > 0
        /\ \A v \in store[n] : c[n] > v.clock[n]
        /\ \A p \in Nodes \ {n} : c[p] > 0 => \E v \in store[n] : v.clock[p] >= c[p]
    BY MergedClock DEF c, TypeOK, Finite
  <2>3. \A p \in Nodes : c[p] \in Nat
    BY <2>2 DEF Clock
  <2>4. ASSUME NEW u \in Versions PROVE c # u.clock
    <3>1. u.clock[n] \in Nat
      BY VersionsTyped
    <3>2. CASE u.clock[n] > 0
      <4>1. PICK v \in store[n] : v.clock[n] >= u.clock[n]
        BY <3>2 DEF OwnCounts
      <4>2. v.clock[n] \in Nat
        BY <4>1, VersionsTyped DEF TypeOK
      <4> QED BY <2>2, <2>3, <3>1, <4>1, <4>2
    <3> QED BY <2>2, <3>1, <3>2
  <2>5. ClocksUnique'
    BY <1>1, <2>1, <2>4 DEF ClocksUnique
  <2>6. AnsweredHolds'
    <3>1. \A p \in Nodes \ {n} : ledger'[p] = ledger[p]
      BY <1>3 DEF TypeOK
    <3> QED BY <1>1, <3>1, GrowsKeeps DEF AnsweredHolds
  <2>7. ASSUME NEW u \in Versions, NEW p \in Nodes, u.clock[p] > 0
        PROVE  \E v \in store'[p] : v.clock[p] >= u.clock[p]
    <3>1. PICK v \in store[p] : v.clock[p] >= u.clock[p]
      BY <2>7 DEF OwnCounts
    <3>2. PICK t \in store'[p] : t.clock[p] >= v.clock[p]
      BY <1>1, <3>1, GrowsKeeps
    <3>3. u.clock[p] \in Nat /\ v.clock[p] \in Nat /\ t.clock[p] \in Nat
      BY <1>1, <3>1, <3>2, VersionsTyped DEF Grows, TypeOK
    <3> QED BY <3>1, <3>2, <3>3
  <2>8. ASSUME NEW p \in Nodes, c[p] > 0
        PROVE  \E v \in store'[p] : v.clock[p] >= c[p]
    <3>1. CASE p = n
      BY <1>3, <2>1, <2>3, <3>1
    <3>2. CASE p # n
      <4>1. PICK v \in store[n] : v.clock[p] >= c[p]
        BY <2>2, <2>8, <3>2
      <4>2. v \in Versions /\ v.clock[p] \in Nat
        BY <4>1, VersionsAre, VersionsTyped
      <4>3. PICK t \in store'[p] : t.clock[p] >= v.clock[p]
        BY <2>3, <2>7, <2>8, <4>1, <4>2
      <4>4. t.clock[p] \in Nat
        BY <1>1, <4>3, VersionsTyped DEF Grows
      <4> QED BY <2>3, <4>1, <4>2, <4>3, <4>4
    <3> QED BY <3>1, <3>2
  <2>9. OwnCounts'
    BY <1>1, <2>1, <2>7, <2>8 DEF OwnCounts
  <2>10. LET holders == {p \in Range(region_of(n)) : covers(p, version)'}
         IN Cardinality(holders) >= majority(Len(region_of(n)))
    <3> DEFINE R == Range(region_of(n))
               A == alive(n, notices[n])
               H == {p \in R : covers(p, version)'}
    <3>1. IsFiniteSet(R) /\ R \subseteq Nodes /\ Len(region_of(n)) \in Nat
      BY RegionFacts
    <3>2. A \in SUBSET H /\ H \in SUBSET R
      <4>1. ASSUME NEW p \in A PROVE covers(p, version)'
        <5>1. p = n \/ (p \in peers_of(n) /\ p \notin notices[n])
          BY <4>1 DEF alive, peers_of
        <5>2. p \in peers_of(n) /\ p \notin notices[n] => p \notin down
          BY PeersUp
        <5>3. \E u \in store'[p] : dominates(u.clock, version.clock)
          BY <1>1, <5>1, <5>2
        <5> QED BY <5>3 DEF covers
      <4> QED BY <4>1 DEF alive
    <3>3. 2 * Cardinality(A) > Len(region_of(n))
      BY DEF quorum_ok, ackable
    <3> HIDE DEF A, H, R
    <3>4. IsFiniteSet(H) /\ IsFiniteSet(A)
      BY <3>1, <3>2, FS_Subset
    <3>5. Cardinality(A) <= Cardinality(H)
      BY <3>2, <3>4, FS_Subset
    <3>6. Cardinality(A) \in Nat /\ Cardinality(H) \in Nat
      BY <3>4, FS_CardinalityType
    <3>7. Cardinality(H) >= majority(Len(region_of(n)))
      BY <3>1, <3>3, <3>5, <3>6 DEF majority
    <3> QED BY <3>7 DEF H, R
  <2>11. WrittenHeldByMajority'
    <3> SUFFICES ASSUME NEW x \in written'
                 PROVE  LET holders == {p \in Range(region_of(x.by)) : covers(p, x.version)'}
                        IN Cardinality(holders) >= majority(Len(region_of(x.by)))
      BY DEF WrittenHeldByMajority
    <3>1. CASE x \in written
      BY <1>1, <3>1, HeldStays
    <3>2. CASE x = [by |-> n, version |-> version]
      <4>1. x.by = n /\ x.version = version
        BY <3>2
      <4> QED BY <2>10, <4>1
    <3> QED BY <1>3, <3>1, <3>2
  <2> QED BY <2>5, <2>6, <2>9, <2>11
<1> QED BY <1>1, <1>2, <1>3

LEMMA ArriveKeeps ==
    ASSUME IInv, phase # "events", NEW home \in Regions, NEW request \in Requests,
           Arrive(home, request)
    PROVE  WrittenHeldByMajority' /\ OwnCounts' /\ ClocksUnique' /\ AnsweredHolds'
<1>1. CASE UNCHANGED <<node, cross, written>>
  <2>1. UNCHANGED <<store, cross, written, ledger>>
    BY <1>1 DEF node
  <2>2. Grows /\ Versions' = Versions
    BY <2>1, SameStore DEF IInv, Versions
  <2> QED BY <2>1, <2>2, NothingNew
<1>2. ASSUME NEW n \in Nodes \ down, quorum_ok(n, notices[n]), request \in Writes,
             Apply(n, request) \/ Replay(n, request)
      PROVE  WrittenHeldByMajority' /\ OwnCounts' /\ ClocksUnique' /\ AnsweredHolds'
  BY <1>2, AnswerKeeps
<1> QED BY <1>1, <1>2, ArriveCases

LEMMA StoreStep ==
    ASSUME IInv, [Next]_vars
    PROVE  WrittenHeldByMajority' /\ OwnCounts' /\ ClocksUnique' /\ AnsweredHolds'
<1> USE DEF IInv
<1>0. Grows
  BY TypeStep
<1>1. ASSUME UNCHANGED <<store, written, ledger>>,
             \A m \in cross' : \E r \in cross : m.version = r.version
      PROVE  WrittenHeldByMajority' /\ OwnCounts' /\ ClocksUnique' /\ AnsweredHolds'
  <2>1. Versions' \subseteq Versions
    BY <1>1, VersionsAre
  <2> QED BY <1>0, <1>1, <2>1, NothingNew
<1>2. ASSUME NEW n \in Nodes, Kill(n) \/ Revive(n)
      PROVE  WrittenHeldByMajority' /\ OwnCounts' /\ ClocksUnique' /\ AnsweredHolds'
  <2>1. UNCHANGED <<store, written, ledger>> /\ cross' \subseteq cross
    BY <1>2 DEF Kill, Revive, node, history
  <2> QED BY <1>1, <2>1
<1>3. CASE Cut \/ Heal \/ TicksDone \/ UNCHANGED vars
  <2>1. UNCHANGED <<store, written, ledger, cross>>
    BY <1>3 DEF Cut, Heal, TicksDone, vars, node, traffic, history
  <2> QED BY <1>1, <2>1
<1>4. CASE EndTick
  <2>1. UNCHANGED <<store, written, ledger>>
    BY <1>4 DEF EndTick, node, history
  <2> QED BY <1>1, <1>4, <2>1, EndTickCross
<1>5. CASE DeliverDue
  <2>1. UNCHANGED <<written, ledger>>
    BY <1>5 DEF DeliverDue, history
  <2>2. /\ \A m \in cross' : \E r \in cross : m.version = r.version
        /\ \A n \in Nodes : store'[n] \subseteq store[n] \cup {m.version : m \in cross}
    BY <1>5, DeliverStep
  <2>3. Versions' \subseteq Versions
    BY <2>1, <2>2, VersionsAre
  <2> QED BY <1>0, <2>1, <2>3, NothingNew
<1>6. CASE TickNode
  <2>1. PICK i \in turn..Len(West) : Proposes(West[i]) /\ Propose(West[i])
    BY <1>6 DEF TickNode
  <2>2. West[i] \in Nodes
    <3>1. West \in Seq(Nodes) /\ Len(West) \in Nat
      BY RegionFacts DEF Regions
    <3>2. i \in 1..Len(West)
      BY <3>1 DEF TypeOK
    <3> QED BY <3>1, <3>2, ElementOfSeq
  <2>3. UNCHANGED <<written, ledger, cross>>
    BY <1>6 DEF TickNode, traffic, history
  <2> DEFINE n == West[i]
  <2> HIDE DEF n
  <2>4. n \in Nodes /\ Propose(n)
    BY <2>1, <2>2 DEF n
  <2>5. \A p \in Nodes : store'[p] \subseteq store[p] \cup store[n]
    BY <2>4, ProposeStep
  <2>6. Versions' \subseteq Versions
    BY <2>3, <2>4, <2>5, VersionsAre
  <2> QED BY <1>0, <2>3, <2>6, NothingNew
<1>7. CASE Redirected
  <2>1. PICK home \in Regions, request \in Requests : Arrive(home, request)
    BY <1>7, RedirectArrives
  <2>2. phase # "events"
    BY <1>7 DEF Redirected
  <2> QED BY <2>1, <2>2, ArriveKeeps
<1>8. ASSUME NEW request \in Requests, Client(request)
      PROVE  WrittenHeldByMajority' /\ OwnCounts' /\ ClocksUnique' /\ AnsweredHolds'
  <2>1. Home[request] \in Regions
    BY ScheduleAssumption DEF Requests
  <2>2. phase # "events" /\ Arrive(Home[request], request)
    BY <1>8 DEF Client
  <2> QED BY <2>1, <2>2, ArriveKeeps
<1> QED BY <1>2, <1>3, <1>4, <1>5, <1>6, <1>7, <1>8 DEF Next

-----------------------------------------------------------------------------
(* Deaths, and what the nodes are told of them.                            *)

\* A notice of a queue that grew by one: an old one, or the new one.
LEMMA AppendedIs ==
    ASSUME NEW s \in Seq(Word), NEW e \in Word
    PROVE  /\ DOMAIN Append(s, e) = 1..(Len(s) + 1) /\ Len(s) \in Nat
           /\ DOMAIN s = 1..Len(s)
           /\ \A i \in DOMAIN s : Append(s, e)[i] = s[i]
           /\ Append(s, e)[Len(s) + 1] = e
           /\ \A i \in DOMAIN Append(s, e) :
                 Append(s, e)[i] = e \/ (i \in DOMAIN s /\ Append(s, e)[i] = s[i])
<1>1. /\ Append(s, e) \in Seq(Word) /\ Len(Append(s, e)) = Len(s) + 1
      /\ \A i \in 1..Len(s) : Append(s, e)[i] = s[i]
      /\ Append(s, e)[Len(s) + 1] = e
  BY AppendProperties
<1>2. Len(s) \in Nat /\ DOMAIN s = 1..Len(s)
  BY LenProperties
<1>3. DOMAIN Append(s, e) = 1..(Len(s) + 1)
  BY <1>1, LenProperties
<1> QED BY <1>1, <1>2, <1>3

\* The last notice to land is one that lands.
LEMMA LastLanding ==
    ASSUME TypeOK, NEW n \in Nodes, NEW x \in Nodes, Landing(n, x) # {}
    PROVE  /\ Max(Landing(n, x)) \in Landing(n, x)
           /\ \A i \in Landing(n, x) : i <= Max(Landing(n, x))
<1> DEFINE L == Landing(n, x)
<1>1. watch[n][x] \in Seq(Word)
  BY DEF TypeOK
<1>2. Len(watch[n][x]) \in Nat /\ DOMAIN watch[n][x] = 1..Len(watch[n][x])
  BY <1>1, LenProperties
<1>3. L \in SUBSET (1..Len(watch[n][x]))
  BY <1>2 DEF Landing
<1>4. IsFiniteSet(1..Len(watch[n][x]))
  BY <1>2, FS_Interval
<1> HIDE DEF L
<1>5. IsFiniteSet(L) /\ L \in SUBSET Nat
  <2>1. IsFiniteSet(L)
    BY <1>3, <1>4, FS_Subset
  <2>2. L \in SUBSET Nat
    BY <1>2, <1>3
  <2> QED BY <2>1, <2>2
<1>6. PICK m \in L : \A i \in L : i <= m
  BY <1>5, Greatest DEF L
<1>7. \E k \in L : \A i \in L : k >= i
  BY <1>6
<1>8. Max(L) \in L /\ \A i \in L : Max(L) >= i
  BY <1>7 DEF Max
<1>9. \A i \in L : i <= Max(L)
  BY <1>5, <1>8
<1> QED BY <1>8, <1>9 DEF L

LEMMA DeathsStep ==
    ASSUME IInv, [Next]_vars PROVE DeathsHappened'
<1> USE DEF IInv
<1>0. \A n, x \in Nodes : watch[n][x] \in Seq(Word)
  BY DEF TypeOK
<1>1. ASSUME UNCHANGED <<notices, down, died>>,
             \A n, x \in Nodes : \A i \in DOMAIN watch'[n][x] :
                watch'[n][x][i].kind = "dead" => x \in died
      PROVE  DeathsHappened'
  BY <1>1 DEF DeathsHappened
<1>2. ASSUME NEW s \in Nodes, Kill(s) PROVE DeathsHappened'
  <2>1. died' = died \cup {s} /\ down' = down \cup {s} /\ notices' = notices
    BY <1>2 DEF Kill, node
  <2>2. ASSUME NEW n \in Nodes, NEW x \in Nodes, NEW i \in DOMAIN watch'[n][x],
               watch'[n][x][i].kind = "dead"
        PROVE  x \in died'
    <3>1. watch'[n][x] = IF x = s /\ n # s /\ n \notin down
                         THEN Append(watch[n][x], Notice(n, "dead", x)) ELSE watch[n][x]
      BY <1>2, ToldIs DEF Kill
    <3>2. x = s \/ watch'[n][x] = watch[n][x]
      BY <3>1
    <3> QED BY <2>1, <2>2, <3>2 DEF DeathsHappened
  <2> QED BY <2>1, <2>2 DEF DeathsHappened
<1>3. ASSUME NEW s \in Nodes, Revive(s) PROVE DeathsHappened'
  <2>1. died' = died /\ down' \subseteq down /\ notices' = notices
    BY <1>3 DEF Revive, node, history
  <2>2. ASSUME NEW n \in Nodes, NEW x \in Nodes, NEW i \in DOMAIN watch'[n][x],
               watch'[n][x][i].kind = "dead"
        PROVE  x \in died
    <3>1. watch'[n][x] = IF n = s /\ x # s /\ x \in down
                         THEN Append(watch[n][x], Notice(n, "dead", x))
                         ELSE IF x = s /\ n # s /\ n \notin down
                              THEN Append(watch[n][x], Notice(n, "alive", x))
                              ELSE watch[n][x]
      <4>1. watch' = CatchUp(s)
        BY <1>3 DEF Revive
      <4>2. CatchUp(s)[n][x] = IF n = s /\ x # s /\ x \in down
                               THEN Append(watch[n][x], Notice(n, "dead", x))
                               ELSE Told("alive", s)[n][x]
        BY CatchUpIs
      <4>3. Told("alive", s)[n][x] = IF x = s /\ n # s /\ n \notin down
                                     THEN Append(watch[n][x], Notice(n, "alive", x))
                                     ELSE watch[n][x]
        BY ToldIs
      <4> QED BY <4>1, <4>2, <4>3
    <3>2. CASE x \in down
      BY <3>2 DEF DeathsHappened
    <3>3. CASE watch'[n][x] = watch[n][x]
      BY <2>2, <3>3 DEF DeathsHappened
    <3>4. CASE watch'[n][x] = Append(watch[n][x], Notice(n, "alive", x))
      <4>1. Notice(n, "alive", x) \in Word /\ Notice(n, "alive", x).kind = "alive"
        BY NoticeTyped DEF Notice
      <4>2. i \in DOMAIN watch[n][x] /\ watch'[n][x][i] = watch[n][x][i]
        BY <1>0, <2>2, <3>4, <4>1, AppendedIs
      <4> QED BY <2>2, <4>2 DEF DeathsHappened
    <3> QED BY <3>1, <3>2, <3>3, <3>4
  <2> QED BY <2>1, <2>2 DEF DeathsHappened
<1>4. CASE DeliverDue
  <2>1. UNCHANGED <<down, died>>
    BY <1>4 DEF DeliverDue, history
  <2>2. ASSUME NEW n \in Nodes, NEW x \in notices'[n] PROVE x \in died
    <3>1. x \in Nodes /\ Believes(n, x)
      BY <1>4 DEF DeliverDue
    <3>2. CASE n \in down \/ Landing(n, x) = {}
      BY <3>1, <3>2 DEF Believes, DeathsHappened
    <3>3. CASE ~(n \in down \/ Landing(n, x) = {})
      <4>1. watch[n][x][Max(Landing(n, x))].kind = "dead"
        BY <3>1, <3>3 DEF Believes
      <4>2. Max(Landing(n, x)) \in DOMAIN watch[n][x]
        BY <3>1, <3>3, LastLanding DEF Landing
      <4> QED BY <3>1, <4>1, <4>2 DEF DeathsHappened
    <3> QED BY <3>2, <3>3
  <2>3. ASSUME NEW n \in Nodes, NEW x \in Nodes, NEW i \in DOMAIN watch'[n][x],
               watch'[n][x][i].kind = "dead"
        PROVE  x \in died
    <3> DEFINE I == DOMAIN watch[n][x] \ Landing(n, x)
    <3>1. watch'[n][x] = Remaining(watch[n][x], I)
      BY <1>4 DEF DeliverDue, StillWatch
    <3>2. I \in SUBSET DOMAIN watch[n][x]
      OBVIOUS
    <3> HIDE DEF I
    <3>3. PICK j \in I : watch'[n][x][i] = Released(watch[n][x][j])
      BY <1>0, <2>3, <3>1, <3>2, RemainingIs
    <3>4. watch[n][x][j] \in Word
      BY <1>0, <3>2, LenProperties, ElementOfSeq
    <3>5. watch[n][x][j].kind = "dead"
      BY <2>3, <3>3, <3>4 DEF Released, Word
    <3> QED BY <3>2, <3>5 DEF DeathsHappened
  <2> QED BY <2>1, <2>2, <2>3 DEF DeathsHappened
<1>5. CASE EndTick
  <2>1. UNCHANGED <<notices, down, died>>
    BY <1>5 DEF EndTick, node, history
  <2>2. ASSUME NEW n \in Nodes, NEW x \in Nodes, NEW i \in DOMAIN watch'[n][x],
               watch'[n][x][i].kind = "dead"
        PROVE  x \in died
    <3>1. /\ i \in DOMAIN watch[n][x]
          /\ watch'[n][x][i] = Arrived(watch[n][x][i])
      BY <1>5, <2>2 DEF EndTick
    <3>2. watch[n][x][i] \in Word
      <4>1. watch[n][x] \in Seq(Word)
        BY <1>0
      <4> QED BY <3>1, <4>1, LenProperties, ElementOfSeq
    <3>3. watch[n][x][i].kind = "dead"
      BY <2>2, <3>1, <3>2 DEF Arrived, Word
    <3> QED BY <3>1, <3>3 DEF DeathsHappened
  <2> QED BY <1>1, <2>1, <2>2
<1>6. ASSUME UNCHANGED <<notices, down, died, watch>> PROVE DeathsHappened'
  BY <1>6 DEF DeathsHappened
<1>7. CASE Cut \/ Heal \/ TickNode \/ TicksDone \/ UNCHANGED vars
  BY <1>6, <1>7 DEF Cut, Heal, TickNode, TicksDone, vars, node, traffic, history
<1>8. ASSUME NEW home \in Regions, NEW request \in Requests, Arrive(home, request)
      PROVE  notices' = notices
  BY <1>8, ArriveTyped
<1>9. CASE Redirected
  <2>1. PICK home \in Regions, request \in Requests : Arrive(home, request)
    BY <1>9, RedirectArrives
  <2> QED BY <1>6, <1>8, <1>9, <2>1 DEF Redirected
<1>10. ASSUME NEW request \in Requests, Client(request) PROVE DeathsHappened'
  <2>1. Home[request] \in Regions
    BY ScheduleAssumption DEF Requests
  <2> QED BY <1>6, <1>8, <1>10, <2>1 DEF Client
<1> QED BY <1>2, <1>3, <1>4, <1>5, <1>7, <1>9, <1>10 DEF Next

LEMMA PromotionStep ==
    ASSUME IInv, [Next]_vars PROVE PromotionProven'
<1> USE DEF IInv
<1>0. /\ IsFiniteSet(Range(East)) /\ Len(East) \in Nat
      /\ Range(West) \subseteq Nodes
      /\ \A n \in Nodes : region_of(n) = West <=> n \in Range(West)
  BY RegionFacts DEF Regions
\* Deaths add up.
<1>1. ASSUME NEW S, NEW T, S \subseteq T,
             Cardinality(S \cap Range(East)) >= majority(Len(East))
      PROVE  Cardinality(T \cap Range(East)) >= majority(Len(East))
  <2> DEFINE A == S \cap Range(East)
             B == T \cap Range(East)
  <2>1. A \in SUBSET B /\ B \in SUBSET Range(East)
    BY <1>1
  <2>2. Cardinality(A) >= majority(Len(East))
    BY <1>1
  <2> HIDE DEF A, B
  <2>3. IsFiniteSet(B) /\ IsFiniteSet(A)
    BY <1>0, <2>1, FS_Subset
  <2>4. Cardinality(A) <= Cardinality(B)
    BY <2>1, <2>3, FS_Subset
  <2>5. Cardinality(A) \in Nat /\ Cardinality(B) \in Nat
    BY <2>3, FS_CardinalityType
  <2>6. Cardinality(B) >= majority(Len(East))
    BY <1>0, <2>2, <2>4, <2>5 DEF majority
  <2> QED BY <2>6 DEF B
<1>2. ASSUME UNCHANGED <<epoch, promoted, votes>>, died \subseteq died'
      PROVE  PromotionProven'
  BY <1>1, <1>2 DEF PromotionProven
<1>3. CASE TickNode
  <2>1. PICK i \in turn..Len(West) : Proposes(West[i]) /\ Propose(West[i])
    BY <1>3 DEF TickNode
  <2>2. West[i] \in Nodes
    <3>1. West \in Seq(Nodes) /\ Len(West) \in Nat
      BY RegionFacts DEF Regions
    <3>2. i \in 1..Len(West)
      BY <3>1 DEF TypeOK
    <3> QED BY <3>1, <3>2, ElementOfSeq
  <2> DEFINE n == West[i]
             adopters == Adopters(n)
  <2> HIDE DEF n
  <2>3. /\ n \in Nodes /\ Propose(n)
        /\ epoch[n] = INITIAL_EPOCH /\ region_of(n) = West /\ primary_gone(notices[n])
    BY <2>1, <2>2 DEF n, Proposes, Candidate
  <2>4. died' = died
    BY <1>3 DEF TickNode, history
  <2>5. adopters \subseteq Range(West) /\ n \in Range(West)
    BY <1>0, <2>3 DEF Adopters, peers_of
  <2>6. Counted(n, adopters) \subseteq Range(West)
    <3>1. adopters # {} => first(West, adopters) \in Range(West)
      <4> HIDE DEF adopters
      <4> QED BY <2>5, FirstMember DEF Regions
    <3> QED BY <2>5, <3>1 DEF Counted
  <2>7. Cardinality(died \cap Range(East)) >= majority(Len(East))
    <3>1. notices[n] \subseteq died
      BY <2>3 DEF DeathsHappened
    <3> QED BY <1>1, <2>3, <3>1 DEF primary_gone
  <2> HIDE DEF adopters
  <2>8. /\ votes' = [votes EXCEPT ![n] = Counted(n, adopters)]
        /\ epoch' = [epoch EXCEPT ![n] = IF adopters = {} THEN @ ELSE @ + 1]
        /\ promoted' = [promoted EXCEPT ![n] =
              adopters # {} /\ Cardinality(Counted(n, adopters)) >= majority(Len(West))]
    BY <2>3 DEF Propose, adopters
  <2>9. ASSUME promoted'[n]
        PROVE  /\ epoch'[n] > INITIAL_EPOCH /\ votes'[n] \subseteq Range(West)
               /\ Cardinality(votes'[n]) >= majority(Len(West))
    <3>1. promoted'[n] = (adopters # {} /\ Cardinality(Counted(n, adopters)) >= majority(Len(West)))
      BY <2>3, <2>8, Zenon DEF TypeOK
    <3>2. adopters # {} /\ Cardinality(Counted(n, adopters)) >= majority(Len(West))
      BY <2>9, <3>1, Zenon
    <3>3. votes'[n] = Counted(n, adopters)
      BY <2>3, <2>8 DEF TypeOK
    <3>4. epoch'[n] = INITIAL_EPOCH + 1
      BY <2>3, <2>8, <3>2 DEF TypeOK
    <3> QED BY <2>6, <3>2, <3>3, <3>4 DEF INITIAL_EPOCH
  <2>10. ASSUME NEW p \in Nodes, p # n
         PROVE  promoted'[p] = promoted[p] /\ epoch'[p] = epoch[p] /\ votes'[p] = votes[p]
    <3>1. promoted'[p] = promoted[p]
      BY <2>8, <2>10, Zenon DEF TypeOK
    <3> QED BY <2>8, <2>10, <3>1 DEF TypeOK
  <2>11. ASSUME NEW p \in Nodes, promoted'[p]
         PROVE  /\ p \in Range(West) /\ epoch'[p] > INITIAL_EPOCH
                /\ votes'[p] \subseteq Range(West)
                /\ Cardinality(votes'[p]) >= majority(Len(West))
    <3>1. CASE p = n
      BY <2>5, <2>9, <2>11, <3>1
    <3>2. CASE p # n
      BY <2>10, <2>11, <3>2 DEF PromotionProven
    <3> QED BY <3>1, <3>2
  <2> QED BY <2>4, <2>7, <2>11 DEF PromotionProven
<1>4. ASSUME NEW n \in Nodes, Kill(n) \/ Revive(n) PROVE PromotionProven'
  <2>1. UNCHANGED <<epoch, promoted, votes>> /\ died \subseteq died'
    BY <1>4 DEF Kill, Revive, node, history
  <2> QED BY <1>2, <2>1
<1>5. CASE Cut \/ Heal \/ DeliverDue \/ TicksDone \/ EndTick \/ UNCHANGED vars
  <2>1. UNCHANGED <<epoch, promoted, votes, died>>
    BY <1>5 DEF Cut, Heal, DeliverDue, TicksDone, EndTick, vars, node, history
  <2> QED BY <1>2, <2>1
<1>6. CASE Redirected
  <2>1. PICK home \in Regions, request \in Requests : Arrive(home, request)
    BY <1>6, RedirectArrives
  <2>2. UNCHANGED <<epoch, promoted, votes>>
    BY <2>1, ArriveTyped
  <2> QED BY <1>2, <1>6, <2>2 DEF Redirected
<1>7. ASSUME NEW request \in Requests, Client(request) PROVE PromotionProven'
  <2>1. Home[request] \in Regions
    BY ScheduleAssumption DEF Requests
  <2>2. UNCHANGED <<epoch, promoted, votes>>
    BY <1>7, <2>1, ArriveTyped DEF Client
  <2> QED BY <1>2, <1>7, <2>2 DEF Client
<1> QED BY <1>3, <1>4, <1>5, <1>6, <1>7 DEF Next

-----------------------------------------------------------------------------
(* Inside a region the deaths are known.                                   *)

(* What PeersKnown says of one hearer and one subject.                     *)
Known(n, x) ==
    /\ \A i \in DOMAIN watch[n][x] : watch[n][x][i].due = "now"
    /\ phase # "events" => watch[n][x] = <<>>
    /\ n \notin down /\ x \in down => Believes(n, x)
    /\ n \notin died /\ x \notin down => ~Believes(n, x)

\* A queue that no notice was added to says what it said.
LEMMA SameQueue ==
    ASSUME NEW n \in Nodes, NEW x \in Nodes, Known(n, x),
           watch'[n][x] = watch[n][x], notices' = notices, phase' = phase,
           n \notin down' /\ x \in down' => n \notin down /\ x \in down,
           n \notin died' /\ x \notin down' =>
              n \notin died /\ x \notin down /\ n \notin down /\ n \notin down'
    PROVE  Known(n, x)'
<1>1. Landing(n, x)' = Landing(n, x)
  BY DEF Landing
<1>2. n \notin down' /\ n \notin down => Believes(n, x)' = Believes(n, x)
  BY <1>1 DEF Believes
<1>3. n \notin down' /\ x \in down' => Believes(n, x)'
  BY <1>2 DEF Known
<1>4. n \notin died' /\ x \notin down' => ~Believes(n, x)'
  BY <1>2 DEF Known
<1> QED BY <1>3, <1>4 DEF Known

\* A notice inside a region is added for the tick it is sent in.
LEMMA QueueGrew ==
    ASSUME TypeOK, NEW n \in Nodes, NEW x \in Nodes, Known(n, x), phase = "events",
           phase' = "events", NEW kind \in {"dead", "alive"},
           region_of(n) = region_of(x),
           watch'[n][x] = Append(watch[n][x], Notice(n, kind, x)),
           n \notin down' /\ x \in down' => kind = "dead",
           n \notin died' /\ x \notin down' => n \notin down' /\ kind = "alive"
    PROVE  Known(n, x)'
<1> DEFINE e == Notice(n, kind, x)
           s == watch[n][x]
<1>1. e \in Word /\ e.due = "now" /\ e.kind = kind
  BY NoticeTyped DEF Notice, Due
<1>2. s \in Seq(Word)
  BY DEF TypeOK
<1> HIDE DEF e, s
<1>3. watch'[n][x] = Append(s, e)
  BY DEF e, s
<1>4. \A i \in DOMAIN watch'[n][x] : watch'[n][x][i].due = "now"
  <2> TAKE i \in DOMAIN watch'[n][x]
  <2>1. watch'[n][x][i] = e \/ (i \in DOMAIN s /\ watch'[n][x][i] = s[i])
    BY <1>1, <1>2, <1>3, AppendedIs
  <2> QED BY <1>1, <2>1 DEF Known, s
<1>5. ASSUME n \notin down' PROVE Believes(n, x)' <=> kind = "dead"
  <2> DEFINE k == Len(s) + 1
             L == Landing(n, x)'
  <2>1. Len(s) \in Nat /\ DOMAIN watch'[n][x] = 1..k /\ watch'[n][x][k] = e
    BY <1>1, <1>2, <1>3, AppendedIs
  <2>2. k \in L /\ L \subseteq 1..k
    BY <1>1, <2>1 DEF Landing
  <2> HIDE DEF k, L
  <2>3. k \in Nat /\ \A i \in L : i \in Nat /\ i <= k
    BY <2>1, <2>2 DEF k
  <2>4. \E m \in L : \A i \in L : m >= i
    BY <2>2, <2>3
  <2>5. Max(L) \in L /\ \A i \in L : Max(L) >= i
    BY <2>4 DEF Max
  <2>6. Max(L) = k
    <3> DEFINE m == Max(L)
    <3>1. m \in L /\ m >= k
      BY <2>2, <2>5
    <3> HIDE DEF m
    <3>2. m = k
      BY <2>3, <3>1
    <3> QED BY <3>2 DEF m
  <2>7. L # {} /\ watch'[n][x][Max(L)].kind = kind
    BY <1>1, <2>1, <2>2, <2>6
  <2> QED BY <1>5, <2>7 DEF Believes, L
<1>6. n \notin died' /\ x \notin down' => ~Believes(n, x)'
  BY <1>5
<1> QED BY <1>4, <1>5, <1>6 DEF Known

LEMMA PeersStep ==
    ASSUME IInv, [Next]_vars PROVE PeersKnown'
<1> USE DEF IInv
<1> SUFFICES ASSUME NEW n \in Nodes, NEW x \in Nodes, region_of(n) = region_of(x)
             PROVE  Known(n, x)'
  BY DEF PeersKnown, Known
<1>0. Known(n, x)
  BY DEF PeersKnown, Known
<1> down \subseteq died
  BY DEF DeathsHappened
<1>1. ASSUME NEW s \in Nodes, Kill(s) PROVE Known(n, x)'
  <2>1. /\ phase = "events" /\ phase' = "events" /\ notices' = notices
        /\ down' = down \cup {s} /\ died' = died \cup {s} /\ watch' = Told("dead", s)
    BY <1>1 DEF Kill, node, clock
  <2>2. Told("dead", s)[n][x] = IF x = s /\ n # s /\ n \notin down
                                THEN Append(watch[n][x], Notice(n, "dead", x))
                                ELSE watch[n][x]
    BY ToldIs
  <2>3. CASE x = s /\ n # s /\ n \notin down
    <3>1. x \in down' /\ watch'[n][x] = Append(watch[n][x], Notice(n, "dead", x))
      BY <2>1, <2>2, <2>3
    <3> QED BY <1>0, <2>1, <3>1, QueueGrew
  <2>4. CASE ~(x = s /\ n # s /\ n \notin down)
    <3>1. n \notin down' /\ x \in down' => n \notin down /\ x \in down
      BY <2>1, <2>4
    <3>2. n \notin died' /\ x \notin down' =>
             n \notin died /\ x \notin down /\ n \notin down /\ n \notin down'
      BY <2>1
    <3>3. watch'[n][x] = watch[n][x]
      BY <2>1, <2>2, <2>4
    <3> QED BY <1>0, <2>1, <3>1, <3>2, <3>3, SameQueue
  <2> QED BY <2>3, <2>4
<1>2. ASSUME NEW s \in Nodes, Revive(s) PROVE Known(n, x)'
  <2>1. /\ phase = "events" /\ phase' = "events" /\ notices' = notices
        /\ down' = down \ {s} /\ died' = died /\ s \in down /\ watch' = CatchUp(s)
    BY <1>2 DEF Revive, node, clock, history
  <2>2. CatchUp(s)[n][x] = IF n = s /\ x # s /\ x \in down
                           THEN Append(watch[n][x], Notice(n, "dead", x))
                           ELSE Told("alive", s)[n][x]
    BY CatchUpIs
  <2>3. Told("alive", s)[n][x] = IF x = s /\ n # s /\ n \notin down
                                 THEN Append(watch[n][x], Notice(n, "alive", x))
                                 ELSE watch[n][x]
    BY ToldIs
  <2>4. CASE n = s /\ x # s /\ x \in down
    <3>1. n \in died' /\ watch'[n][x] = Append(watch[n][x], Notice(n, "dead", x))
      BY <2>1, <2>2, <2>4
    <3> QED BY <1>0, <2>1, <3>1, QueueGrew
  <2>5. CASE x = s /\ n # s /\ n \notin down
    <3>1. x \notin down' /\ watch'[n][x] = Append(watch[n][x], Notice(n, "alive", x))
      BY <2>1, <2>2, <2>3, <2>5
    <3>2. n \notin died' => n \notin down'
      BY <2>1
    <3> QED BY <1>0, <2>1, <3>1, <3>2, QueueGrew
  <2>6. CASE ~(n = s /\ x # s /\ x \in down) /\ ~(x = s /\ n # s /\ n \notin down)
    <3>1. n \notin down' /\ x \in down' => n \notin down /\ x \in down
      BY <2>1, <2>6
    <3>2. watch'[n][x] = watch[n][x]
      BY <2>1, <2>2, <2>3, <2>6
    <3>3. n \notin died' /\ x \notin down' =>
             n \notin died /\ x \notin down /\ n \notin down /\ n \notin down'
      BY <2>1, <2>6
    <3> QED BY <1>0, <2>1, <3>1, <3>2, <3>3, SameQueue
  <2> QED BY <2>4, <2>5, <2>6
<1>3. CASE DeliverDue
  <2>1. watch[n][x] \in Seq(Word)
    BY DEF TypeOK
  <2>2. Landing(n, x) = DOMAIN watch[n][x]
    BY <1>0 DEF Known, Landing
  <2>3. watch'[n][x] = <<>>
    <3>1. watch'[n][x] = Remaining(watch[n][x], {})
      BY <1>3, <2>2 DEF DeliverDue, StillWatch
    <3> QED BY <2>1, <3>1, RemainingIs
  <2>4. Landing(n, x)' = {}
    BY <2>3 DEF Landing
  <2>5. n \notin down /\ x \in down => x \in notices'[n]
    BY <1>0, <1>3 DEF Known, DeliverDue
  <2>6. n \notin died /\ x \notin down => x \notin notices'[n]
    BY <1>0, <1>3 DEF Known, DeliverDue
  <2>7. UNCHANGED <<down, died>>
    BY <1>3 DEF DeliverDue, history
  <2> QED BY <1>3, <2>3, <2>4, <2>5, <2>6, <2>7 DEF Known, Believes, DeliverDue
<1>4. CASE EndTick
  <2>1. watch[n][x] = <<>> /\ notices' = notices /\ down' = down /\ died' = died
    BY <1>0, <1>4 DEF Known, EndTick, node, history
  <2>2. DOMAIN watch'[n][x] = {}
    BY <1>4, <2>1 DEF EndTick
  <2>3. Landing(n, x)' = {} /\ Landing(n, x) = {}
    BY <2>1, <2>2 DEF Landing
  <2> QED BY <1>0, <1>4, <2>1, <2>2, <2>3 DEF Known, Believes, EndTick
<1>5. ASSUME UNCHANGED <<watch, notices, down, died, phase>> PROVE Known(n, x)'
  BY <1>0, <1>5, SameQueue
<1>6. CASE TicksDone
  <2>1. /\ watch[n][x] = <<>> /\ UNCHANGED <<watch, notices, down, died>>
        /\ phase # "events" /\ phase' # "events"
    BY <1>0, <1>6 DEF Known, TicksDone, node, traffic, history
  <2>2. Landing(n, x)' = Landing(n, x)
    BY <2>1 DEF Landing
  <2> QED BY <1>0, <2>1, <2>2 DEF Known, Believes
<1>7. CASE Cut \/ Heal \/ TickNode \/ UNCHANGED vars
  BY <1>5, <1>7 DEF Cut, Heal, TickNode, vars, node, traffic, clock, history
<1>8. CASE Redirected
  <2>1. PICK home \in Regions, request \in Requests : Arrive(home, request)
    BY <1>8, RedirectArrives
  <2>2. notices' = notices
    BY <2>1, ArriveTyped
  <2> QED BY <1>5, <1>8, <2>2 DEF Redirected, clock
<1>9. ASSUME NEW request \in Requests, Client(request) PROVE Known(n, x)'
  <2>1. Home[request] \in Regions
    BY ScheduleAssumption DEF Requests
  <2>2. notices' = notices
    BY <1>9, <2>1, ArriveTyped DEF Client
  <2> QED BY <1>5, <1>9, <2>2 DEF Client, clock
<1> QED BY <1>1, <1>2, <1>3, <1>4, <1>6, <1>7, <1>8, <1>9 DEF Next

-----------------------------------------------------------------------------
(* The theorems.                                                           *)

LEMMA Inductive == IInv /\ [Next]_vars => IInv'
<1> SUFFICES ASSUME IInv, [Next]_vars PROVE IInv'
  OBVIOUS
<1>1. TypeOK' /\ Finite'
  BY TypeStep
<1>2. WrittenHeldByMajority' /\ OwnCounts' /\ ClocksUnique' /\ AnsweredHolds'
  BY StoreStep
<1>3. DeathsHappened' /\ PromotionProven' /\ PeersKnown'
  BY DeathsStep, PromotionStep, PeersStep
<1> QED BY <1>1, <1>2, <1>3 DEF IInv

LEMMA Invariant == Spec => []IInv
BY Initial, Inductive, PTL DEF Spec

\* Whatever the schedule, every variable of the fabric and its nodes keeps
\* its shape.
THEOREM TypeCorrect == Spec => []TypeOK
<1>1. IInv => TypeOK
  BY DEF IInv
<1> QED BY Invariant, <1>1, PTL

\* stage_07.py promotes a node only on the votes of a majority of the west,
\* after a majority of the primary died: no cut of the link does it.
THEOREM OnlyProvenPromotes == Spec => []PromotionProven
<1>1. IInv => PromotionProven
  BY DEF IInv
<1> QED BY Invariant, <1>1, PTL

\* The clocks stage_08.py makes tell any two versions apart, wherever in
\* the fleet they were written and whatever their writers had seen.
THEOREM ClocksTellApart == Spec => []ClocksUnique
<1>1. IInv => ClocksUnique
  BY DEF IInv
<1> QED BY Invariant, <1>1, PTL

\* What quorum_ok let a node write stays covered in a majority of its
\* region, through kills, revivals and cuts.
THEOREM WritesStayHeld == Spec => []WrittenHeldByMajority
<1>1. IInv => WrittenHeldByMajority
  BY DEF IInv
<1> QED BY Invariant, <1>1, PTL

(* Inside a region nothing is delayed: once a tick's deliveries are over,  *)
(* a node that never died knows exactly which of its peers are down, so    *)
(* its quorum gate counts right, whatever the link does.                   *)
PeersTrackDeaths ==
    phase # "events" =>
        \A n \in Nodes \ died :
            notices[n] \cap Range(region_of(n)) = down \cap Range(region_of(n))

\* What a node that never died believes of its own region is true as soon
\* as a tick's deliveries are over, so quorum_ok counts right.
THEOREM PeersAreKnown == Spec => []PeersTrackDeaths
<1>1. IInv => PeersTrackDeaths
  <2> SUFFICES ASSUME IInv, phase # "events", NEW n \in Nodes \ died,
                      NEW x \in Range(region_of(n))
               PROVE  x \in notices[n] <=> x \in down
    BY DEF PeersTrackDeaths
  <2>1. x \in Nodes /\ region_of(n) = region_of(x)
    BY RegionFacts
  <2>2. watch[n][x] = <<>> /\ (x \in down <=> Believes(n, x))
    BY <2>1 DEF IInv, PeersKnown, DeathsHappened
  <2>3. Landing(n, x) = {}
    BY <2>2 DEF Landing
  <2> QED BY <2>2, <2>3 DEF Believes
<1> QED BY Invariant, <1>1, PTL

\* No step of the fabric loses a version, an epoch or a promotion.
THEOREM NothingIsForgotten == Spec => NothingForgotten
<1> DEFINE Step == \A n \in Nodes :
                      /\ \A v \in store[n] : \E u \in store'[n] : dominates(u.clock, v.clock)
                      /\ epoch'[n] >= epoch[n]
                      /\ promoted[n] => promoted'[n]
<1>1. IInv /\ [Next]_vars => [Step]_vars
  <2> SUFFICES ASSUME IInv, [Next]_vars PROVE Step
    OBVIOUS
  <2>1. Grows /\ TypeOK
    BY TypeStep DEF IInv
  <2>2. CASE TickNode
    <3>1. PICK i \in turn..Len(West) : Proposes(West[i]) /\ Propose(West[i])
      BY <2>2 DEF TickNode
    <3> DEFINE p == West[i]
    <3> HIDE DEF p
    <3>2. ~promoted[p] /\ epoch[p] = INITIAL_EPOCH
      BY <3>1 DEF p, Proposes, Candidate
    <3>3. /\ epoch' = [epoch EXCEPT ![p] = IF Adopters(p) = {} THEN @ ELSE @ + 1]
          /\ promoted' = [promoted EXCEPT ![p] =
                Adopters(p) # {} /\ Cardinality(Counted(p, Adopters(p))) >= majority(Len(West))]
      BY <3>1 DEF p, Propose
    <3>4. ASSUME NEW n \in Nodes
          PROVE  epoch'[n] >= epoch[n] /\ (promoted[n] => promoted'[n])
      <4>1. epoch[n] \in Nat
        <5>1. epoch \in [Nodes -> {INITIAL_EPOCH, INITIAL_EPOCH + 1}]
          BY <2>1 DEF TypeOK
        <5> QED BY <5>1 DEF INITIAL_EPOCH
      <4>2. epoch'[n] = epoch[n] \/ epoch'[n] = epoch[n] + 1
        <5> DEFINE to == IF Adopters(p) = {} THEN epoch[p] ELSE epoch[p] + 1
        <5>1. epoch' = [epoch EXCEPT ![p] = to]
          BY <3>3
        <5>2. to = epoch[p] \/ to = epoch[p] + 1
          OBVIOUS
        <5> HIDE DEF to
        <5> QED BY <2>1, <5>1, <5>2 DEF TypeOK
      <4>3. n # p => promoted'[n] = promoted[n]
        BY <2>1, <3>3, Zenon DEF TypeOK
      <4>4. promoted[n] => promoted'[n]
        BY <3>2, <4>3
      <4> QED BY <4>1, <4>2, <4>4
    <3>5. \A n \in Nodes : \A v \in store[n] :
            \E s \in store'[n] : dominates(s.clock, v.clock)
      BY <2>1 DEF Grows
    <3> QED BY <3>4, <3>5
  <2>3. ASSUME UNCHANGED <<epoch, promoted>> PROVE Step
    <3>1. ASSUME NEW n \in Nodes PROVE epoch'[n] >= epoch[n]
      <4>1. epoch \in [Nodes -> {INITIAL_EPOCH, INITIAL_EPOCH + 1}] /\ epoch' = epoch
        BY <2>1, <2>3 DEF TypeOK
      <4> QED BY <4>1 DEF INITIAL_EPOCH
    <3>2. \A n \in Nodes : promoted[n] => promoted'[n]
      BY <2>3
    <3>3. \A n \in Nodes : \A v \in store[n] :
            \E s \in store'[n] : dominates(s.clock, v.clock)
      BY <2>1 DEF Grows
    <3> QED BY <3>1, <3>2, <3>3
  <2>4. ASSUME NEW n \in Nodes, Kill(n) \/ Revive(n) PROVE Step
    <3>1. UNCHANGED <<epoch, promoted>>
      BY <2>4 DEF Kill, Revive, node
    <3> QED BY <2>3, <3>1
  <2>5. CASE Cut \/ Heal \/ DeliverDue \/ TicksDone \/ EndTick \/ UNCHANGED vars
    <3>1. UNCHANGED <<epoch, promoted>>
      BY <2>5 DEF Cut, Heal, DeliverDue, TicksDone, EndTick, vars, node
    <3> QED BY <2>3, <3>1
  <2>6. ASSUME NEW home \in Regions, NEW request \in Requests, Arrive(home, request)
        PROVE  Step
    <3>1. UNCHANGED <<epoch, promoted>>
      BY <2>6, ArriveTyped
    <3> QED BY <2>3, <3>1
  <2>7. CASE Redirected
    BY <2>1, <2>6, <2>7, RedirectArrives
  <2>8. ASSUME NEW request \in Requests, Client(request) PROVE Step
    <3>1. Home[request] \in Regions
      BY ScheduleAssumption DEF Requests
    <3> QED BY <2>6, <2>8, <3>1 DEF Client
  <2> QED BY <2>2, <2>4, <2>5, <2>7, <2>8 DEF Next
<1> QED BY Invariant, <1>1, PTL DEF Spec, NothingForgotten

-----------------------------------------------------------------------------
(* The two entries, while neither of them ever died.                       *)

Entries == {East[1], West[1]}
Far(n) == other(region_of(n))[1]

(* A relay goes from one entry to the other, and its sender still holds    *)
(* what it carries.                                                        *)
RelaysBetween ==
    \A m \in cross :
        m.from \in Entries /\ m.to = Far(m.from) /\ covers(m.from, m.version)

(* What one entry holds, the other covers, or a relay brings it.           *)
Crossing ==
    \A n \in Entries : \A v \in store[n] :
        \/ covers(Far(n), v)
        \/ \E m \in cross : m.from = n /\ dominates(m.version.clock, v.clock)

(* No west node runs ahead of its entry: a proposal, which carries the     *)
(* store of the node that makes it, brings the entry nothing new.          *)
PeersFollow == \A n \in Range(West) : \A v \in store[n] : covers(West[1], v)

(* An entry holds no version that another of its versions passes.          *)
Siblings == \A n \in Entries : \A u, v \in store[n] : ~before(u.clock, v.clock)

Linked == RelaysBetween /\ Crossing /\ PeersFollow /\ Siblings

EInv == Entries \cap died = {} => Linked

SameRelay(m, r) == m.from = r.from /\ m.to = r.to /\ m.version = r.version

LEMMA EntryFacts ==
    /\ East[1] \in Range(East) /\ West[1] \in Range(West)
    /\ Entries \subseteq Nodes
    /\ Far(East[1]) = West[1] /\ Far(West[1]) = East[1]
    /\ region_of(East[1]) = East /\ region_of(West[1]) = West
    /\ East # West /\ \A n \in Entries : Far(n) \in Entries /\ Far(n) # n
<1>1. ASSUME NEW r \in Regions PROVE r[1] \in Range(r) /\ Range(r) \subseteq Nodes
  <2>1. 1 \in DOMAIN r /\ Range(r) \subseteq Nodes
    BY RegionFacts
  <2> QED BY <2>1 DEF Range
<1>2. East[1] \in Range(East) /\ West[1] \in Range(West) /\ Entries \subseteq Nodes
  BY <1>1 DEF Regions, Entries
<1>3. East[1] \notin Range(West) /\ West[1] \notin Range(East)
  BY <1>2, FleetAssumption
<1>4. East # West /\ East[1] # West[1]
  BY <1>2, <1>3
<1>5. region_of(East[1]) = East /\ region_of(West[1]) = West
  BY <1>2, <1>3 DEF region_of
<1>6. other(East) = West /\ other(West) = East
  BY <1>4 DEF other
<1>7. Far(East[1]) = West[1] /\ Far(West[1]) = East[1]
  BY <1>5, <1>6 DEF Far
<1> QED BY <1>2, <1>4, <1>5, <1>7 DEF Entries

\* While both entries are up, every request is served by one of them.
LEMMA EntryServes ==
    ASSUME Entries \cap down = {}, NEW home \in Regions, NEW n \in Serving(home)
    PROVE  n \in Entries
<1>1. home[1] \in Entries /\ home[1] \in Range(home)
  BY EntryFacts DEF Regions, Entries
<1>2. home[1] \in live(home)
  BY <1>1 DEF live
<1>3. n = first(home, live(home))
  BY <1>2 DEF Serving
<1> DEFINE Leads(i) == home[i] \in live(home) /\ \A j \in 1..(i - 1) : home[j] \notin live(home)
<1>4. Len(home) \in Nat /\ Len(home) > 0 /\ DOMAIN home = 1..Len(home)
  BY RegionFacts
<1>5. 1 \in DOMAIN home /\ Leads(1)
  BY <1>2, <1>4
<1>6. \A i \in DOMAIN home : Leads(i) => i = 1
  BY <1>2, <1>4
<1>7. (CHOOSE i \in DOMAIN home : Leads(i)) = 1
  BY <1>5, <1>6
<1>8. n = home[1]
  BY <1>3, <1>7 DEF first
<1> QED BY <1>1, <1>8

\* What coalesce keeps are siblings.
LEMMA CoalesceSiblings ==
    ASSUME NEW S PROVE \A u, v \in coalesce(S) : ~before(u.clock, v.clock)
BY DEF coalesce

LEMMA CoversUp ==
    ASSUME NEW n, NEW u \in Version, NEW v \in Version,
           store[n] \subseteq Version, covers(n, u), dominates(u.clock, v.clock)
    PROVE  covers(n, v)
<1>1. PICK t \in store[n] : dominates(t.clock, u.clock)
  BY DEF covers
<1>2. t.clock \in Clock /\ u.clock \in Clock /\ v.clock \in Clock
  BY DEF Version
<1>3. dominates(t.clock, v.clock)
  BY <1>1, <1>2, DominatesTransitive
<1> QED BY <1>1, <1>3 DEF covers

\* What a step has to do to keep the entries linked.
LEMMA LinkKept ==
    ASSUME TypeOK, Grows, Linked,
           \A m \in cross' : \/ \E r \in cross : SameRelay(m, r)
                             \/ /\ m.from \in Entries /\ m.to = Far(m.from)
                                /\ covers(m.from, m.version)',
           \A r \in cross : \/ \E m \in cross' : SameRelay(m, r)
                            \/ covers(r.to, r.version)',
           \A n \in Entries : \A v \in store'[n] :
              \/ covers(n, v) \/ covers(Far(n), v)'
              \/ \E m \in cross' : m.from = n /\ dominates(m.version.clock, v.clock),
           \A n \in Range(West) : \A v \in store'[n] :
              \/ covers(West[1], v)' \/ \E p \in Range(West) : v \in store[p],
           Siblings'
    PROVE  Linked'
<1> USE DEF Linked
<1>1. ASSUME NEW n \in Nodes
      PROVE  /\ store[n] \subseteq Version /\ store'[n] \subseteq Version
             /\ \A v \in Version : covers(n, v) => covers(n, v)'
  BY GrowsKeeps DEF TypeOK, Grows
<1>2. \A m \in cross : m.version \in Version /\ m.to \in Nodes
  BY DEF TypeOK, Relay
<1>3. Entries \subseteq Nodes /\ \A n \in Entries : Far(n) \in Entries
  BY EntryFacts
<1>4. Range(West) \subseteq Nodes
  BY RegionFacts DEF Regions
<1>5. RelaysBetween'
  <2> SUFFICES ASSUME NEW m \in cross'
               PROVE  m.from \in Entries /\ m.to = Far(m.from) /\ covers(m.from, m.version)'
    BY DEF RelaysBetween
  <2>1. CASE \E r \in cross : SameRelay(m, r)
    <3>1. PICK r \in cross : SameRelay(m, r)
      BY <2>1
    <3>2. r.from \in Entries /\ r.to = Far(r.from) /\ covers(r.from, r.version)
      BY DEF RelaysBetween
    <3>3. covers(r.from, r.version)'
      BY <1>1, <1>2, <1>3, <3>2
    <3> QED BY <3>1, <3>2, <3>3 DEF SameRelay
  <2> QED BY <2>1
<1>6. Crossing'
  <2> SUFFICES ASSUME NEW n \in Entries, NEW v \in store'[n]
               PROVE  \/ covers(Far(n), v)'
                      \/ \E m \in cross' : m.from = n /\ dominates(m.version.clock, v.clock)
    BY DEF Crossing
  <2>1. v \in Version
    BY <1>1, <1>3
  <2>2. ASSUME covers(n, v)
        PROVE  \/ covers(Far(n), v)'
               \/ \E m \in cross' : m.from = n /\ dominates(m.version.clock, v.clock)
    <3>1. PICK u \in store[n] : dominates(u.clock, v.clock)
      BY <2>2 DEF covers
    <3>2. u \in Version
      BY <1>1, <1>3, <3>1
    <3>3. ASSUME covers(Far(n), u) PROVE covers(Far(n), v)'
      <4>1. store[Far(n)] \subseteq Version
        BY <1>1, <1>3
      <4>2. covers(Far(n), v)
        BY <2>1, <3>1, <3>2, <3>3, <4>1, CoversUp
      <4> QED BY <1>1, <1>3, <2>1, <4>2
    <3>4. ASSUME NEW r \in cross, r.from = n, dominates(r.version.clock, u.clock)
          PROVE  \/ covers(Far(n), v)'
                 \/ \E m \in cross' : m.from = n /\ dominates(m.version.clock, v.clock)
      <4>1. r.version \in Version /\ r.to = Far(n)
        BY <1>2, <3>4 DEF RelaysBetween
      <4>2. dominates(r.version.clock, v.clock)
        <5>1. r.version.clock \in Clock /\ u.clock \in Clock /\ v.clock \in Clock
          BY <2>1, <3>2, <4>1 DEF Version
        <5> QED BY <3>1, <3>4, <5>1, DominatesTransitive
      <4>3. CASE \E m \in cross' : SameRelay(m, r)
        BY <3>4, <4>2, <4>3 DEF SameRelay
      <4>4. ASSUME covers(r.to, r.version)' PROVE covers(Far(n), v)'
        <5>1. PICK t \in store'[Far(n)] : dominates(t.clock, r.version.clock)
          BY <4>1, <4>4 DEF covers
        <5>2. /\ t.clock \in Clock /\ r.version.clock \in Clock /\ v.clock \in Clock
          <6>1. t \in Version
            BY <1>1, <1>3, <5>1
          <6> QED BY <2>1, <4>1, <6>1 DEF Version
        <5>3. dominates(t.clock, v.clock)
          BY <4>2, <5>1, <5>2, DominatesTransitive
        <5> QED BY <5>3 DEF covers
      <4> QED BY <4>3, <4>4
    <3> QED BY <3>3, <3>4 DEF Crossing
  <2> QED BY <2>2
<1>7. PeersFollow'
  <2> SUFFICES ASSUME NEW n \in Range(West), NEW v \in store'[n]
               PROVE  covers(West[1], v)'
    BY DEF PeersFollow
  <2>1. v \in Version
    BY <1>1, <1>4
  <2>2. ASSUME NEW p \in Range(West), v \in store[p] PROVE covers(West[1], v)'
    <3>1. covers(West[1], v)
      BY <2>2 DEF PeersFollow
    <3> QED BY <1>1, <1>3, <2>1, <3>1 DEF Entries
  <2> QED BY <2>2
<1> QED BY <1>5, <1>6, <1>7

\* A step that touches no store, and drops no relay.
LEMMA StoresStay ==
    ASSUME TypeOK, Finite, Linked, store' = store,
           \A m \in cross' : \E r \in cross : SameRelay(m, r),
           \A r \in cross : \E m \in cross' : SameRelay(m, r)
    PROVE  Linked'
<1>1. Grows
  BY SameStore
<1>2. \A n \in Entries : \A v \in store'[n] : covers(n, v)
  <2> SUFFICES ASSUME NEW n \in Entries, NEW v \in store[n] PROVE covers(n, v)
    OBVIOUS
  <2>1. v.clock \in Clock
    BY EntryFacts DEF TypeOK, Version
  <2> QED BY <2>1, DominatesReflexive DEF covers
<1>3. \A n \in Range(West) : \A v \in store'[n] : \E p \in Range(West) : v \in store[p]
  OBVIOUS
<1>4. Siblings'
  BY DEF Linked, Siblings
<1> QED BY <1>1, <1>2, <1>3, <1>4, LinkKept

\* A version goes out from an entry, over the link too.
LEMMA WireLinks ==
    ASSUME TypeOK, Finite, Linked, Entries \cap down = {},
           NEW n \in Entries, NEW version \in Version,
           NEW held \in SUBSET Version, IsFiniteSet(held), version \in held,
           held \subseteq store[n] \cup {version},
           \A v \in store[n] : \E u \in held : dominates(u.clock, v.clock),
           \A u, v \in held : ~before(u.clock, v.clock),
           Wire(n, held, version)
    PROVE  Linked'
<1> DEFINE synced == {p \in peers_of(n) : p \notin notices[n] /\ p \notin down}
           entry == other(region_of(n))[1]
           relay == [due |-> Due(n, entry), from |-> n, to |-> entry, version |-> version]
<1>1. /\ store' = [p \in Nodes |->
                      CASE p = n -> held
                        [] p \in synced -> absorb(store[p], {version})
                        [] OTHER -> store[p]]
      /\ cross' = IF entry \in down THEN cross ELSE cross \cup {relay}
  BY DEF Wire
<1>2. n \in Nodes /\ entry = Far(n) /\ Far(n) \in Entries \ {n}
  BY EntryFacts DEF Far
<1>3. cross' = cross \cup {relay}
  BY <1>1, <1>2
<1>4. relay.from = n /\ relay.to = Far(n) /\ relay.version = version
  BY <1>2
<1> HIDE DEF relay, entry
<1>5. Grows /\ store'[n] = held
      /\ \A p \in Nodes : store'[p] \subseteq store[p] \cup held \cup {version}
  BY <1>2, WireStep
<1>6. \A p \in Nodes : region_of(p) # region_of(n) => store'[p] = store[p]
  <2> SUFFICES ASSUME NEW p \in Nodes, region_of(p) # region_of(n)
               PROVE  store'[p] = store[p]
    OBVIOUS
  <2>1. p # n /\ p \notin synced
    BY <1>2, RegionFacts DEF peers_of
  <2> HIDE DEF synced
  <2> QED BY <1>1, <2>1
<1>7. store'[Far(n)] = store[Far(n)]
  BY <1>2, <1>6, EntryFacts DEF Entries
<1>8. \A v \in Version : dominates(v.clock, v.clock)
  BY DominatesReflexive DEF Version
<1>9. covers(n, version)'
  BY <1>5, <1>8 DEF covers
<1>10. \A q \in Nodes : \A v \in store[q] : covers(q, v)
  BY <1>8 DEF covers, TypeOK
<1> HIDE DEF synced
<1>11. \A m \in cross' : \/ \E r \in cross : SameRelay(m, r)
                         \/ /\ m.from \in Entries /\ m.to = Far(m.from)
                            /\ covers(m.from, m.version)'
  BY <1>3, <1>4, <1>9 DEF SameRelay
<1>12. \A r \in cross : \E m \in cross' : SameRelay(m, r)
  BY <1>3 DEF SameRelay
<1>13. ASSUME NEW q \in Entries, NEW v \in store'[q]
       PROVE  covers(q, v) \/ \E m \in cross' : m.from = q /\ dominates(m.version.clock, v.clock)
  <2>1. q = n \/ q = Far(n)
    BY EntryFacts DEF Entries
  <2>2. CASE q = n
    <3>1. v \in store[n] \/ v = version
      BY <1>5, <2>2
    <3>2. v = version => relay \in cross' /\ relay.from = q /\ dominates(relay.version.clock, v.clock)
      BY <1>3, <1>4, <1>8, <2>2
    <3> QED BY <1>2, <1>10, <2>2, <3>1, <3>2
  <2>3. CASE q = Far(n)
    BY <1>2, <1>7, <1>10, <2>3, EntryFacts
  <2> QED BY <2>1, <2>2, <2>3
<1>14. ASSUME NEW q \in Range(West), NEW v \in store'[q]
       PROVE  covers(West[1], v)' \/ \E p \in Range(West) : v \in store[p]
  <2>1. q \in Nodes /\ region_of(q) = West
    BY RegionFacts DEF Regions
  <2>2. CASE n = West[1]
    <3>1. v \in store[q] \/ v \in store[n] \/ v = version
      BY <1>5, <2>1
    <3> QED BY <1>9, <2>2, <3>1, EntryFacts
  <2>3. CASE n = East[1]
    <3>1. store'[q] = store[q]
      BY <1>6, <2>1, <2>3, EntryFacts
    <3> QED BY <3>1
  <2> QED BY <2>2, <2>3 DEF Entries
<1>15. Siblings'
  <2>1. \A u, v \in store'[n] : ~before(u.clock, v.clock)
    BY <1>5
  <2>2. \A u, v \in store'[Far(n)] : ~before(u.clock, v.clock)
    BY <1>2, <1>7 DEF Linked, Siblings
  <2>3. \A q \in Entries : q = n \/ q = Far(n)
    BY EntryFacts DEF Entries
  <2> QED BY <2>1, <2>2, <2>3 DEF Siblings
<1> QED BY <1>5, <1>11, <1>12, <1>13, <1>14, <1>15, LinkKept

\* A request that a client sends, or that is sent on.
LEMMA ArriveLinks ==
    ASSUME IInv, Linked, Entries \cap died = {},
           NEW home \in Regions, NEW request \in Requests, Arrive(home, request)
    PROVE  Linked'
<1> USE DEF IInv
<1>1. CASE UNCHANGED <<node, cross, written>>
  <2>1. store' = store /\ cross' = cross
    BY <1>1 DEF node
  <2> QED BY <2>1, StoresStay DEF SameRelay
<1>2. ASSUME NEW n \in Serving(home), request \in Writes,
             Apply(n, request) \/ Replay(n, request)
      PROVE  Linked'
  <2>1. Entries \cap down = {}
    BY DEF DeathsHappened
  <2>2. n \in Entries /\ n \in Nodes
    BY <2>1, EntryServes, EntryFacts
  <2>3. /\ store[n] \in SUBSET Version /\ IsFiniteSet(store[n])
        /\ \A v \in Version : dominates(v.clock, v.clock)
    BY <2>2, DominatesReflexive, VersionsTyped DEF TypeOK, Finite
  <2>4. CASE Apply(n, request)
    <3> DEFINE c == merged_clock(store[n], n)
               version == winner(store[n], n, request)
               held == {version}
    <3>1. version = [value |-> request, clock |-> c]
      BY DEF winner
    <3>2. Wire(n, held, version)
      BY <2>4 DEF Apply
    <3> HIDE DEF version, c
    <3>3. c \in Clock /\ \A v \in store[n] : dominates(c, v.clock)
      BY <2>2, <2>3, MergedClock DEF c
    <3>4. version \in Version /\ version.clock = c
      BY <1>2, <3>1, <3>3 DEF Version
    <3>5. /\ held \in SUBSET Version /\ IsFiniteSet(held) /\ version \in held
          /\ held \subseteq store[n] \cup {version}
          /\ \A v \in store[n] : \E u \in held : dominates(u.clock, v.clock)
          /\ \A u, v \in held : ~before(u.clock, v.clock)
      BY <3>3, <3>4, FS_Singleton DEF before
    <3> HIDE DEF held
    <3> QED BY <2>1, <2>2, <3>2, <3>4, <3>5, WireLinks
  <2>5. CASE Replay(n, request)
    <3> DEFINE version == last(store[n])
    <3>1. Wire(n, store[n], version) /\ request \in ledger[n]
      BY <2>5 DEF Replay
    <3>2. store[n] # {}
      BY <2>2, <3>1 DEF AnsweredHolds
    <3>3. \A u, v \in store[n] : u.clock = v.clock => u = v
      BY <2>2, VersionsAre DEF ClocksUnique
    <3>4. version \in store[n]
      BY <2>3, <3>2, <3>3, LastHeld
    <3> HIDE DEF version
    <3>5. \A v \in store[n] : \E u \in store[n] : dominates(u.clock, v.clock)
      BY <2>3
    <3>6. \A u, v \in store[n] : ~before(u.clock, v.clock)
      BY <2>2 DEF Linked, Siblings
    <3>7. version \in Version
      BY <2>3, <3>4
    <3> QED BY <2>1, <2>2, <2>3, <3>1, <3>4, <3>5, <3>6, <3>7, WireLinks
  <2> QED BY <1>2, <2>4, <2>5
<1>3. \/ UNCHANGED <<node, cross, written>>
      \/ \E n \in Serving(home) : request \in Writes /\ (Apply(n, request) \/ Replay(n, request))
  BY Zenon DEF Arrive
<1> QED BY <1>1, <1>2, <1>3

\* A tick's deliveries: what reaches one entry comes from the other, and
\* what does not land stays on its way.
LEMMA DeliverLinks ==
    ASSUME TypeOK, Finite, Linked, Entries \cap down = {}, DeliverDue
    PROVE  Linked'
<1>1. Grows
  BY DeliverStep
<1>2. ASSUME NEW r \in cross
      PROVE  /\ r.from \in Entries /\ r.to = Far(r.from) /\ r.from = Far(r.to)
             /\ r.to \in Entries /\ r.from \notin down /\ r.to \notin down
             /\ r.version \in Version /\ covers(r.from, r.version)
  <2>1. r.from \in Entries /\ r.to = Far(r.from) /\ covers(r.from, r.version)
    BY DEF Linked, RelaysBetween
  <2>2. r.to \in Entries /\ r.from = Far(r.to)
    BY <2>1, EntryFacts DEF Entries
  <2> QED BY <2>1, <2>2 DEF TypeOK, Relay
<1>3. ASSUME NEW n \in Nodes
      PROVE  LET T == {m.version : m \in Arriving(n)} IN
             /\ store'[n] = absorb(store[n], T)
             /\ store'[n] \subseteq store[n] \cup T
             /\ \A v \in T : \E u \in store'[n] : dominates(u.clock, v.clock)
  <2> DEFINE A == Arriving(n)
             f == [m \in A |-> m.version]
             T == {m.version : m \in A}
  <2>1. A \in SUBSET cross /\ IsFiniteSet(A)
    <3>1. A \in SUBSET cross
      BY DEF Arriving
    <3> QED BY <3>1, FS_Subset DEF Finite
  <2>2. T = {f[m] : m \in A}
    OBVIOUS
  <2>3. IsFiniteSet(T)
    <3>1. DOMAIN f = A
      OBVIOUS
    <3> HIDE DEF f, A, T
    <3> QED BY <2>1, <2>2, <3>1, FiniteImage
  <2>4. T \in SUBSET Version
    BY <1>2, <2>1
  <2>5. store'[n] = absorb(store[n], T)
    BY DEF DeliverDue
  <2>6. store[n] \in SUBSET Version /\ IsFiniteSet(store[n])
    BY DEF TypeOK, Finite
  <2> HIDE DEF T
  <2>7. /\ store'[n] \in SUBSET (store[n] \cup T)
        /\ \A a \in store[n] \cup T : \E b \in store'[n] : dominates(b.clock, a.clock)
    BY <2>3, <2>4, <2>5, <2>6, AbsorbCovers
  <2> QED BY <2>5, <2>7 DEF T
<1>4. \A m \in cross' : \E r \in cross : SameRelay(m, r)
  BY DEF DeliverDue, StillCross, SameRelay, Released, TypeOK, Relay
<1>5. ASSUME NEW r \in cross
      PROVE  (\E m \in cross' : SameRelay(m, r)) \/ covers(r.to, r.version)'
  <2>1. CASE r.due = "now" /\ link_up
    <3>1. r \in Arriving(r.to) /\ r.to \in Nodes
      BY <1>2, <2>1, EntryFacts DEF Arriving
    <3>2. \E u \in store'[r.to] : dominates(u.clock, r.version.clock)
      BY <1>3, <3>1
    <3> QED BY <3>2 DEF covers
  <2>2. CASE ~(r.due = "now" /\ link_up)
    <3> DEFINE m == IF r.due = "now" THEN [r EXCEPT !.due = "held"] ELSE Released(r)
    <3>1. m \in cross'
      BY <1>2, <2>2 DEF DeliverDue, StillCross
    <3>2. SameRelay(m, r)
      BY DEF SameRelay, Released, TypeOK, Relay
    <3> QED BY <3>1, <3>2
  <2> QED BY <2>1, <2>2
<1>6. ASSUME NEW n \in Nodes, NEW v \in store'[n], v \notin store[n]
      PROVE  n \in Entries /\ covers(Far(n), v)'
  <2>1. PICK r \in Arriving(n) : v = r.version
    BY <1>3, <1>6
  <2>2. r \in cross /\ r.to = n
    BY DEF Arriving
  <2>3. n \in Entries /\ Far(n) \in Nodes /\ v \in Version /\ covers(Far(n), v)
    BY <1>2, <2>1, <2>2, EntryFacts
  <2> QED BY <1>1, <2>3, GrowsKeeps
<1>7. \A n \in Nodes : \A v \in store'[n] : dominates(v.clock, v.clock)
  BY <1>1, DominatesReflexive DEF Grows, Version
<1>8. \A n \in Nodes : \A v \in store[n] : covers(n, v)
  BY DominatesReflexive DEF TypeOK, Version, covers
<1>9. \A n \in Entries : \A v \in store'[n] : covers(n, v) \/ covers(Far(n), v)'
  BY <1>6, <1>8, EntryFacts
<1>10. ASSUME NEW n \in Range(West), NEW v \in store'[n]
       PROVE  covers(West[1], v)' \/ \E p \in Range(West) : v \in store[p]
  <2>1. n \in Nodes /\ East[1] \notin Range(West)
    <3>1. Range(West) \subseteq Nodes
      BY RegionFacts DEF Regions
    <3> QED BY <3>1, EntryFacts, FleetAssumption
  <2>2. v \notin store[n] => n = West[1]
    BY <1>6, <2>1 DEF Entries
  <2>3. n = West[1] => covers(West[1], v)'
    BY <1>7, <2>1 DEF covers
  <2> QED BY <2>2, <2>3
<1>11. Siblings'
  <2> SUFFICES ASSUME NEW n \in Entries
               PROVE  \A u, v \in store'[n] : ~before(u.clock, v.clock)
    BY DEF Siblings
  <2> DEFINE T == {m.version : m \in Arriving(n)}
  <2>1. store'[n] = absorb(store[n], T)
    BY <1>3, EntryFacts
  <2> HIDE DEF T
  <2>2. store'[n] = coalesce(store[n] \cup T)
    BY <2>1 DEF absorb
  <2> QED BY <2>2, CoalesceSiblings
<1> QED BY <1>1, <1>4, <1>5, <1>9, <1>10, <1>11, LinkKept

\* A proposal carries nothing to the entry that it does not cover.
LEMMA ProposeLinks ==
    ASSUME TypeOK, Finite, Linked, NEW n \in Range(West), Propose(n), cross' = cross
    PROVE  Linked'
<1>1. n \in Nodes /\ region_of(n) = West
  BY RegionFacts DEF Regions
<1>2. Grows /\ \A p \in Nodes : store'[p] \subseteq store[p] \cup store[n]
  BY <1>1, ProposeStep
<1>3. \A p \in Nodes : store'[p] = IF p \in Adopters(n)
                                   THEN absorb(store[p], store[n]) ELSE store[p]
  BY DEF Propose
<1>4. store'[East[1]] = store[East[1]]
  <2>1. East[1] \in Nodes /\ region_of(East[1]) # West
    BY EntryFacts DEF Entries
  <2>2. East[1] \notin Adopters(n)
    BY <1>1, <2>1, RegionFacts DEF Adopters, peers_of
  <2> QED BY <1>3, <2>1, <2>2
<1>5. \A q \in Nodes : \A v \in store[q] : covers(q, v)
  BY DominatesReflexive DEF TypeOK, Version, covers
<1>6. \A q \in Entries : \A v \in store'[q] : covers(q, v)
  <2>1. \A v \in store'[West[1]] : covers(West[1], v)
    BY <1>2, <1>5, EntryFacts DEF Entries, Linked, PeersFollow
  <2> QED BY <1>4, <1>5, <2>1, EntryFacts DEF Entries
<1>7. \A q \in Range(West) : \A v \in store'[q] : \E p \in Range(West) : v \in store[p]
  <2>1. Range(West) \subseteq Nodes
    BY RegionFacts DEF Regions
  <2> QED BY <1>2, <2>1
<1>8. Siblings'
  <2>1. \A q \in Entries : store'[q] = absorb(store[q], store[n]) \/ store'[q] = store[q]
    BY <1>3, EntryFacts
  <2>2. \A q \in Entries : \A u, v \in store'[q] : ~before(u.clock, v.clock)
    BY <2>1, CoalesceSiblings DEF absorb, Linked, Siblings
  <2> QED BY <2>2 DEF Siblings
<1> QED BY <1>2, <1>6, <1>7, <1>8, LinkKept DEF SameRelay

\* No step breaks the link between two entries that never died.
LEMMA EntriesStep ==
    ASSUME IInv, EInv, [Next]_vars PROVE EInv'
<1> SUFFICES ASSUME Entries \cap died' = {} PROVE Linked'
  BY DEF EInv, Entries
<1> USE DEF IInv
<1>1. died \subseteq died'
  BY DEF Next, Kill, Revive, Cut, Heal, DeliverDue, TickNode, TicksDone, Redirected,
         Client, EndTick, vars, history
<1>2. Entries \cap died = {} /\ Linked
  BY <1>1 DEF EInv
<1>3. Entries \cap down = {}
  BY <1>2 DEF DeathsHappened
<1>4. ASSUME store' = store, cross' = cross PROVE Linked'
  BY <1>2, <1>4, StoresStay DEF SameRelay
<1>5. ASSUME NEW n \in Nodes, Kill(n) PROVE Linked'
  <2>1. n \notin Entries /\ store' = store /\ cross' = {m \in cross : m.from # n}
    BY <1>5 DEF Kill, node
  <2>2. cross' = cross
    BY <1>2, <2>1 DEF Linked, RelaysBetween
  <2> QED BY <1>4, <2>1, <2>2
<1>6. ASSUME NEW n \in Nodes, Revive(n) PROVE Linked'
  BY <1>4, <1>6 DEF Revive, node
<1>7. CASE Cut \/ Heal \/ TicksDone \/ UNCHANGED vars
  <2>1. store' = store /\ cross' = cross
    BY <1>7 DEF Cut, Heal, TicksDone, vars, node, traffic
  <2> QED BY <1>4, <2>1
<1>8. CASE EndTick
  <2>1. store' = store /\ cross' = {Arrived(m) : m \in cross}
    BY <1>8 DEF EndTick, node
  <2>2. \A m \in cross : SameRelay(Arrived(m), m)
    BY DEF SameRelay, Arrived, TypeOK, Relay
  <2> QED BY <1>2, <2>1, <2>2, StoresStay
<1>9. CASE DeliverDue
  BY <1>2, <1>3, <1>9, DeliverLinks
<1>10. CASE TickNode
  <2>1. PICK i \in turn..Len(West) : Propose(West[i])
    BY <1>10 DEF TickNode
  <2>2. West[i] \in Range(West)
    <3>1. i \in DOMAIN West
      BY RegionFacts DEF Regions, TypeOK
    <3> QED BY <3>1 DEF Range
  <2>3. cross' = cross
    BY <1>10 DEF TickNode, traffic
  <2> QED BY <1>2, <2>1, <2>2, <2>3, ProposeLinks
<1>11. CASE Redirected
  <2>1. PICK home \in Regions, request \in Requests : Arrive(home, request)
    BY <1>11, RedirectArrives
  <2> QED BY <1>2, <2>1, ArriveLinks
<1>12. ASSUME NEW request \in Requests, Client(request) PROVE Linked'
  <2>1. Home[request] \in Regions
    BY ScheduleAssumption DEF Requests
  <2> QED BY <1>2, <1>12, <2>1, ArriveLinks DEF Client
<1> QED BY <1>5, <1>6, <1>7, <1>8, <1>9, <1>10, <1>11, <1>12 DEF Next

\* Two sets of siblings that cover each other are the same.
LEMMA LinkedAgree ==
    ASSUME IInv, Linked, cross = {} PROVE store[East[1]] = store[West[1]]
<1>1. ASSUME NEW n \in Entries, NEW v \in store[n] PROVE v \in store[Far(n)]
  <2>1. Far(n) \in Entries /\ n \in Nodes /\ Far(n) \in Nodes /\ Far(Far(n)) = n
    BY EntryFacts DEF Entries
  <2>2. PICK u \in store[Far(n)] : dominates(u.clock, v.clock)
    BY <1>1 DEF Linked, Crossing, covers
  <2>3. PICK t \in store[n] : dominates(t.clock, u.clock)
    BY <2>1, <2>2 DEF Linked, Crossing, covers
  <2>4. t.clock \in Clock /\ u.clock \in Clock /\ v.clock \in Clock
    BY <1>1, <2>1, <2>2, <2>3 DEF IInv, TypeOK, Version
  <2>5. dominates(v.clock, t.clock)
    <3>1. ~before(v.clock, t.clock)
      BY <1>1, <2>3 DEF Linked, Siblings
    <3>2. dominates(t.clock, v.clock)
      BY <2>2, <2>3, <2>4, DominatesTransitive
    <3> QED BY <3>1, <3>2 DEF before
  <2>6. dominates(v.clock, u.clock)
    BY <2>3, <2>4, <2>5, DominatesTransitive
  <2>7. u.clock = v.clock
    <3>1. ASSUME NEW p \in Nodes PROVE u.clock[p] = v.clock[p]
      <4>1. u.clock[p] \in Nat /\ v.clock[p] \in Nat
        BY <2>4 DEF Clock
      <4>2. u.clock[p] >= v.clock[p] /\ v.clock[p] >= u.clock[p]
        BY <2>2, <2>6 DEF dominates
      <4> QED BY <4>1, <4>2
    <3> QED BY <2>4, <3>1 DEF Clock
  <2>8. u \in Versions /\ v \in Versions
    BY <1>1, <2>1, <2>2, VersionsAre
  <2>9. u = v
    BY <2>7, <2>8 DEF IInv, ClocksUnique
  <2> QED BY <2>2, <2>9
<1>2. store[East[1]] \subseteq store[West[1]]
  BY <1>1, EntryFacts DEF Entries
<1>3. store[West[1]] \subseteq store[East[1]]
  BY <1>1, EntryFacts DEF Entries
<1> QED BY <1>2, <1>3

\* The relays of stage_10.py's _wire bring two entries that never died to the same siblings,
\* however the link was cut and whoever else died: whenever no relay is on
\* its way, they hold the same.
THEOREM EntriesAgree == Spec => []EntriesConverge
<1>1. Init => EInv
  <2> SUFFICES ASSUME Init PROVE Linked
    BY DEF EInv
  <2>1. cross = {} /\ \A n \in Nodes : store[n] = {}
    BY DEF Init
  <2>2. Entries \subseteq Nodes /\ Range(West) \subseteq Nodes
    BY EntryFacts, RegionFacts DEF Regions
  <2> QED BY <2>1, <2>2 DEF Linked, RelaysBetween, Crossing, PeersFollow, Siblings
<1>2. IInv /\ EInv /\ [Next]_vars => EInv'
  BY EntriesStep
<1>3. IInv /\ EInv => EntriesConverge
  BY LinkedAgree DEF EInv, Entries, EntriesConverge
<1> QED BY Invariant, <1>1, <1>2, <1>3, PTL DEF Spec

-----------------------------------------------------------------------------
(* Across the link, as long as it is not cut again before what it held is  *)
(* released.                                                               *)

AtMostOf(I, i) == {j \in I : j <= i}

\* Of two members the smaller has fewer below it.
LEMMA AtMostGrows ==
    ASSUME NEW I \in SUBSET Nat, IsFiniteSet(I), NEW a \in I, NEW b \in I, a < b
    PROVE  /\ Cardinality(AtMostOf(I, a)) < Cardinality(AtMostOf(I, b))
           /\ Cardinality(AtMostOf(I, a)) \in Nat
           /\ Cardinality(AtMostOf(I, b)) \in Nat
<1> DEFINE A == AtMostOf(I, a)
           B == AtMostOf(I, b)
<1>1. IsFiniteSet(A) /\ IsFiniteSet(B)
  <2>1. A \in SUBSET I /\ B \in SUBSET I
    BY DEF AtMostOf
  <2> QED BY <2>1, FS_Subset
<1>2. b \notin A /\ A \cup {b} \in SUBSET B
  <2>1. a \in Nat /\ b \in Nat /\ \A j \in I : j \in Nat
    OBVIOUS
  <2>2. \A j \in I : j <= a => j <= b
    BY <2>1
  <2>3. ~(b <= a) /\ b <= b
    BY <2>1
  <2> QED BY <2>2, <2>3 DEF AtMostOf
<1> HIDE DEF A, B
<1>3. IsFiniteSet(A \cup {b}) /\ Cardinality(A \cup {b}) = Cardinality(A) + 1
  BY <1>1, <1>2, FS_AddElement
<1>4. Cardinality(A \cup {b}) <= Cardinality(B)
  BY <1>1, <1>2, FS_Subset
<1>5. Cardinality(A) \in Nat /\ Cardinality(B) \in Nat
  BY <1>1, FS_CardinalityType
<1> QED BY <1>3, <1>4, <1>5 DEF A, B

\* What remains of a queue keeps its order, and all that was to remain.
LEMMA RemainingInOrder ==
    ASSUME NEW notes \in Seq(Word), NEW I \in SUBSET DOMAIN notes
    PROVE  \E p \in [1..Cardinality(I) -> I] :
              /\ Remaining(notes, I)
                    = [k \in 1..Cardinality(I) |-> Released(notes[p[k]])]
              /\ \A k, l \in 1..Cardinality(I) : k < l => p[k] < p[l]
              /\ \A i \in I : \E k \in 1..Cardinality(I) : p[k] = i
<1> DEFINE C == Cardinality(I)
           place(k) == CHOOSE i \in I : Cardinality({j \in I : j <= i}) = k
           p == [k \in 1..C |-> place(k)]
<1>1. I \in SUBSET Nat /\ IsFiniteSet(I) /\ C \in Nat
  <2>1. Len(notes) \in Nat /\ DOMAIN notes = 1..Len(notes)
    BY LenProperties
  <2>2. IsFiniteSet(1..Len(notes))
    BY <2>1, FS_Interval
  <2>3. IsFiniteSet(I)
    BY <2>1, <2>2, FS_Subset
  <2> QED BY <2>1, <2>3, FS_CardinalityType
<1>2. \A k \in 1..C : place(k) \in I /\ Cardinality(AtMostOf(I, place(k))) = k
  BY <1>1, Placed DEF AtMostOf
<1>3. Remaining(notes, I) = [k \in 1..C |-> Released(notes[p[k]])]
  BY DEF Remaining
<1>4. p \in [1..C -> I] /\ \A k \in 1..C : Cardinality(AtMostOf(I, p[k])) = k
  BY <1>2
<1> HIDE DEF p
<1>5. ASSUME NEW k \in 1..C, NEW l \in 1..C, k < l PROVE p[k] < p[l]
  <2>1. p[k] \in I /\ p[l] \in I /\ p[k] \in Nat /\ p[l] \in Nat
    BY <1>1, <1>4
  <2>2. CASE p[l] < p[k]
    <3>1. Cardinality(AtMostOf(I, p[l])) < Cardinality(AtMostOf(I, p[k]))
      BY <1>1, <2>1, <2>2, AtMostGrows
    <3>2. l < k
      BY <1>4, <3>1
    <3> QED BY <1>5, <3>2
  <2>3. CASE p[l] = p[k]
    <3>1. k = l
      BY <1>4, <2>3
    <3> QED BY <1>5, <3>1
  <2> QED BY <2>1, <2>2, <2>3
<1>6. ASSUME NEW i \in I PROVE \E k \in 1..C : p[k] = i
  <2> DEFINE B == AtMostOf(I, i)
             k == Cardinality(B)
  <2>1. B \in SUBSET I /\ i \in B
    BY <1>1 DEF AtMostOf
  <2> HIDE DEF B
  <2>2. IsFiniteSet(B) /\ k \in Nat /\ k <= C /\ k # 0
    <3>1. IsFiniteSet(B)
      BY <1>1, <2>1, FS_Subset
    <3>2. k \in Nat /\ k <= C
      BY <1>1, <2>1, <3>1, FS_Subset, FS_CardinalityType
    <3>3. k # 0
      BY <2>1, <3>1, FS_EmptySet
    <3> QED BY <3>1, <3>2, <3>3
  <2>3. k \in 1..C
    BY <1>1, <2>2
  <2> HIDE DEF k
  <2>4. p[k] \in I /\ Cardinality(AtMostOf(I, p[k])) = k
    BY <1>4, <2>3
  <2>5. Cardinality(AtMostOf(I, i)) = k
    BY DEF k, B
  <2>6. ~(p[k] < i) /\ ~(i < p[k])
    BY <1>1, <2>2, <2>4, <2>5, AtMostGrows
  <2>7. p[k] = i
    BY <1>1, <2>4, <2>6
  <2> QED BY <2>3, <2>7
<1> QED BY <1>3, <1>4, <1>5, <1>6

\* Of a queue that keeps its last notice, what remains ends with it.
LEMMA RemainingEnd ==
    ASSUME NEW notes \in Seq(Word), NEW I \in SUBSET DOMAIN notes,
           Len(notes) \in I
    PROVE  /\ Remaining(notes, I) # <<>>
           /\ Remaining(notes, I)[Len(Remaining(notes, I))].kind
                 = notes[Len(notes)].kind
<1> DEFINE R == Remaining(notes, I)
           C == Cardinality(I)
<1>1. PICK p \in [1..C -> I] :
         /\ R = [k \in 1..C |-> Released(notes[p[k]])]
         /\ \A k, l \in 1..C : k < l => p[k] < p[l]
         /\ \A i \in I : \E k \in 1..C : p[k] = i
  BY RemainingInOrder
<1>2. R \in Seq(Word) /\ DOMAIN R = 1..C
  BY RemainingIs
<1>3. /\ Len(R) \in Nat /\ DOMAIN R = 1..Len(R)
      /\ Len(notes) \in Nat /\ DOMAIN notes = 1..Len(notes)
  BY <1>2, LenProperties
<1>4. PICK k \in 1..C : p[k] = Len(notes)
  BY <1>1
<1> HIDE DEF R, C
<1>5. PICK m : m = Len(R)
  OBVIOUS
<1>6. m \in Nat /\ 1..C = 1..m
  BY <1>2, <1>3, <1>5
<1>7. k \in 1..m /\ m \in 1..C
  <2>1. k \in 1..m
    BY <1>6
  <2>2. m \in 1..m
    BY <1>6, <2>1
  <2> QED BY <1>6, <2>1, <2>2
<1>8. k = m
  <2>2. CASE k < m
    <3>1. p[k] < p[m] /\ p[m] \in I
      BY <1>1, <1>7, <2>2
    <3>2. p[m] \in 1..Len(notes)
      BY <1>3, <3>1
    <3>3. Len(notes) < p[m] /\ p[m] <= Len(notes)
      BY <1>3, <1>4, <3>1, <3>2
    <3> QED BY <1>3, <3>2, <3>3
  <2> QED BY <1>6, <1>7, <2>2
<1>9. R[Len(R)] = Released(notes[Len(notes)])
  <2>1. R[k] = Released(notes[p[k]])
    BY <1>1
  <2> QED BY <1>4, <1>8, <1>5, <2>1
<1>10. notes[Len(notes)] \in Word
  BY <1>3, ElementOfSeq
<1>11. Released(notes[Len(notes)]).kind = notes[Len(notes)].kind
  BY <1>10 DEF Released, Word
<1>12. R # <<>>
  <2>1. m # 0
    BY <1>6, <1>7
  <2> QED BY <1>2, <1>5, <2>1, EmptySeq
<1> QED BY <1>9, <1>11, <1>12 DEF R

HoldsNone(n, x) == \A i \in DOMAIN watch[n][x] : watch[n][x][i].due # "held"

(* No notice is due before an older one.                                   *)
InTurn(n, x) ==
    \A i, j \in DOMAIN watch[n][x] : i < j =>
        /\ watch[n][x][j].due = "now" => watch[n][x][i].due = "now"
        /\ watch[n][x][j].due = "next" /\ watch[n][x][i].due = "held" => link_up

(* What n was last told of x, or believes when nothing is on its way.      *)
LastTold(n, x) ==
    IF watch[n][x] = <<>> THEN x \in notices[n]
    ELSE watch[n][x][Len(watch[n][x])].kind = "dead"

(* What the link holds once it is down for good never lands.               *)
Stranded(n, x) == left["flip"] = 0 /\ ~link_up /\ ~HoldsNone(n, x)

Tracked(n, x) ==
    /\ link_up /\ phase # "events" => HoldsNone(n, x)
    /\ Stranded(n, x) \/ (InTurn(n, x) /\ (LastTold(n, x) <=> x \in down))

LinkInv == IInv /\ \A n \in Nodes \ died : \A x \in Nodes : Tracked(n, x)

(* A cut while the link still holds a notice is a cut for good.            *)
Waits == Cut => \/ \A n \in Nodes \ died : \A x \in Nodes : HoldsNone(n, x)
                \/ left'["flip"] = 0
CutsWait == [][Waits]_vars

\* A queue no step touched, while the link stays as it is.
LEMMA SameTracked ==
    ASSUME NEW n \in Nodes, NEW x \in Nodes, Tracked(n, x),
           watch'[n][x] = watch[n][x], notices' = notices, link_up' = link_up,
           left'["flip"] = left["flip"], x \in down' <=> x \in down,
           phase' # "events" => phase # "events"
    PROVE  Tracked(n, x)'
<1>1. HoldsNone(n, x)' <=> HoldsNone(n, x)
  BY DEF HoldsNone
<1>2. InTurn(n, x)' <=> InTurn(n, x)
  BY DEF InTurn
<1>3. LastTold(n, x)' <=> LastTold(n, x)
  BY DEF LastTold
<1> QED BY <1>1, <1>2, <1>3 DEF Tracked, Stranded

\* A queue a notice was added to.
LEMMA GrownTracked ==
    ASSUME TypeOK, PeersKnown,
           NEW n \in Nodes, NEW x \in Nodes, Tracked(n, x),
           NEW kind \in {"dead", "alive"},
           watch'[n][x] = Append(watch[n][x], Notice(n, kind, x)),
           link_up' = link_up, left'["flip"] = left["flip"],
           phase = "events", phase' = "events", x \in down' <=> kind = "dead"
    PROVE  Tracked(n, x)' /\ (HoldsNone(n, x) /\ link_up => HoldsNone(n, x)')
<1> DEFINE e == Notice(n, kind, x)
           s == watch[n][x]
<1>1. /\ e \in Word /\ e.kind = kind
      /\ e.due = "now" => region_of(n) = region_of(x)
      /\ e.due = "held" => ~link_up
      /\ e.due = "next" => link_up
  BY NoticeTyped DEF Notice, Due
<1>2. s \in Seq(Word)
  BY DEF TypeOK
<1>3. e.due = "now" => \A i \in DOMAIN s : s[i].due = "now"
  BY <1>1 DEF PeersKnown
<1> HIDE DEF e
<1>4. /\ DOMAIN Append(s, e) = 1..(Len(s) + 1) /\ Len(s) \in Nat
      /\ DOMAIN s = 1..Len(s)
      /\ \A i \in DOMAIN s : Append(s, e)[i] = s[i]
      /\ Append(s, e)[Len(s) + 1] = e
  BY <1>1, <1>2, AppendedIs
<1>5. Append(s, e) \in Seq(Word) /\ Len(Append(s, e)) = Len(s) + 1
  BY <1>1, <1>2, AppendProperties
<1> DEFINE q == Append(s, e)
<1>6. watch'[n][x] = q
  BY DEF e
<1>7. HoldsNone(n, x) /\ e.due # "held" => HoldsNone(n, x)'
  <2> SUFFICES ASSUME HoldsNone(n, x), e.due # "held", NEW i \in DOMAIN q
               PROVE  q[i].due # "held"
    BY <1>6 DEF HoldsNone
  <2>1. i \in DOMAIN s \/ i = Len(s) + 1
    BY <1>4
  <2> QED BY <1>4, <2>1 DEF HoldsNone
<1>8. ~HoldsNone(n, x) => ~HoldsNone(n, x)'
  <2> SUFFICES ASSUME NEW i \in DOMAIN s, s[i].due = "held"
               PROVE  \E j \in DOMAIN q : q[j].due = "held"
    BY <1>6 DEF HoldsNone
  <2>1. i \in DOMAIN q /\ q[i].due = "held"
    BY <1>4
  <2> QED BY <2>1
<1>9. InTurn(n, x) => InTurn(n, x)'
  <2> SUFFICES ASSUME InTurn(n, x), NEW i \in DOMAIN q, NEW j \in DOMAIN q, i < j
               PROVE  /\ q[j].due = "now" => q[i].due = "now"
                      /\ q[j].due = "next" /\ q[i].due = "held" => link_up
    BY <1>6 DEF InTurn
  <2>1. i \in DOMAIN s /\ q[i] = s[i]
    BY <1>4
  <2>2. CASE j \in DOMAIN s
    BY <1>4, <2>1, <2>2 DEF InTurn
  <2>3. CASE j = Len(s) + 1
    <3>1. q[j] = e
      BY <1>4, <2>3
    <3> QED BY <1>1, <1>3, <2>1, <3>1
  <2> QED BY <1>4, <2>2, <2>3
<1>10. LastTold(n, x)' <=> kind = "dead"
  <2>1. q # <<>>
    BY <1>4
  <2>2. q[Len(q)].kind = kind
    BY <1>1, <1>4, <1>5
  <2> HIDE DEF q
  <2> QED BY <1>6, <2>1, <2>2 DEF LastTold
<1>11. HoldsNone(n, x) /\ link_up => HoldsNone(n, x)'
  BY <1>1, <1>7
<1>12. Stranded(n, x) => Stranded(n, x)'
  BY <1>8 DEF Stranded
<1> QED BY <1>9, <1>10, <1>11, <1>12 DEF Tracked

\* The deliveries of a tick.
LEMMA DueTracked ==
    ASSUME TypeOK, NEW n \in Nodes, n \notin down, NEW x \in Nodes,
           Tracked(n, x), DeliverDue
    PROVE  Tracked(n, x)' /\ (HoldsNone(n, x) => HoldsNone(n, x)')
<1> DEFINE s == watch[n][x]
           I == DOMAIN s \ Landing(n, x)
           q == Remaining(s, I)
           C == Cardinality(I)
<1>1. s \in Seq(Word) /\ I \in SUBSET DOMAIN s
  BY DEF TypeOK
<1>2. /\ watch'[n][x] = q /\ UNCHANGED <<down, died, link_up, left>>
      /\ phase' # "events"
      /\ x \in notices'[n] <=> Believes(n, x)
  BY DEF DeliverDue, StillWatch, history
<1>3. PICK p \in [1..C -> I] :
         /\ q = [k \in 1..C |-> Released(s[p[k]])]
         /\ \A k, l \in 1..C : k < l => p[k] < p[l]
         /\ \A i \in I : \E k \in 1..C : p[k] = i
  BY <1>1, RemainingInOrder
<1>4. /\ Len(s) \in Nat /\ DOMAIN s = 1..Len(s)
      /\ \A i \in DOMAIN s : s[i] \in Word
  BY <1>1, LenProperties, ElementOfSeq
<1>5. \A i \in DOMAIN s : i \in I <=> s[i].due # "now"
  BY DEF Landing
<1>6. \A i \in DOMAIN s :
          /\ Released(s[i]).due = "now" <=> s[i].due = "now"
          /\ Released(s[i]).due = "held" <=> s[i].due = "held" /\ ~link_up
          /\ s[i].due = "next" => Released(s[i]).due = "next"
  BY <1>4 DEF Released, Word
<1>7. DOMAIN q = 1..C /\ \A k \in 1..C : p[k] \in I /\ p[k] \in DOMAIN s
  BY <1>1, <1>3
<1>8. HoldsNone(n, x) \/ link_up => HoldsNone(n, x)'
  <2> SUFFICES ASSUME HoldsNone(n, x) \/ link_up, NEW k \in DOMAIN q
               PROVE  q[k].due # "held"
    BY <1>2 DEF HoldsNone
  <2>1. q[k] = Released(s[p[k]])
    BY <1>3, <1>7
  <2> QED BY <1>6, <1>7, <2>1 DEF HoldsNone
<1>9. ~HoldsNone(n, x) /\ ~link_up => ~HoldsNone(n, x)'
  <2> SUFFICES ASSUME ~link_up, NEW i \in DOMAIN s, s[i].due = "held"
               PROVE  \E k \in DOMAIN q : q[k].due = "held"
    BY <1>2 DEF HoldsNone
  <2>1. i \in I
    BY <1>5
  <2>2. PICK k \in 1..C : p[k] = i
    BY <1>3, <2>1
  <2>3. q[k] = Released(s[i])
    BY <1>3, <2>2
  <2>4. q[k].due = "held"
    BY <1>6, <2>3
  <2> QED BY <1>7, <2>4
<1>10. InTurn(n, x) => InTurn(n, x)'
  <2> SUFFICES ASSUME InTurn(n, x), NEW k \in DOMAIN q, NEW l \in DOMAIN q, k < l
               PROVE  /\ q[l].due = "now" => q[k].due = "now"
                      /\ q[l].due = "next" /\ q[k].due = "held" => link_up
    BY <1>2 DEF InTurn
  <2> DEFINE i == p[k]
             j == p[l]
  <2>1. /\ i \in DOMAIN s /\ j \in DOMAIN s /\ i < j
        /\ s[i].due # "now" /\ s[j].due # "now"
        /\ q[k] = Released(s[i]) /\ q[l] = Released(s[j])
    BY <1>3, <1>5, <1>7
  <2>2. s[j] \in Word /\ s[i] \in Word
    BY <1>4, <2>1
  <2> HIDE DEF i, j
  <2>3. q[l].due # "now"
    BY <1>6, <2>1
  <2>4. ASSUME q[l].due = "next", q[k].due = "held", ~link_up PROVE FALSE
    <3>1. s[i].due = "held"
      BY <1>6, <2>1, <2>4
    <3>2. s[j].due = "next"
      BY <2>1, <2>2, <2>4 DEF Released, Word
    <3> QED BY <2>1, <2>4, <3>1, <3>2 DEF InTurn
  <2> QED BY <2>3, <2>4
<1>11. InTurn(n, x) => (LastTold(n, x)' <=> LastTold(n, x))
  <2> SUFFICES ASSUME InTurn(n, x) PROVE LastTold(n, x)' <=> LastTold(n, x)
    OBVIOUS
  <2>1. CASE s = <<>>
    <3>1. Landing(n, x) = {} /\ I = {}
      BY <1>4, <2>1 DEF Landing
    <3>2. q = <<>>
      BY <1>1, <3>1, RemainingIs
    <3>3. x \in notices'[n] <=> x \in notices[n]
      BY <1>2, <3>1 DEF Believes
    <3> HIDE DEF q
    <3> QED BY <1>2, <2>1, <3>2, <3>3 DEF LastTold
  <2>2. CASE s # <<>> /\ Len(s) \in I
    <3>1. q # <<>> /\ q[Len(q)].kind = s[Len(s)].kind
      BY <1>1, <2>2, RemainingEnd
    <3> HIDE DEF q
    <3> QED BY <1>2, <2>2, <3>1 DEF LastTold
  <2>3. CASE s # <<>> /\ Len(s) \notin I
    <3>1. Len(s) \in DOMAIN s
      BY <1>1, <1>4, <2>3, EmptySeq
    <3>2. s[Len(s)].due = "now"
      BY <1>5, <2>3, <3>1
    <3>3. \A i \in DOMAIN s : s[i].due = "now"
      <4> TAKE i \in DOMAIN s
      <4>1. i = Len(s) \/ i < Len(s)
        BY <1>4
      <4> QED BY <3>1, <3>2, <4>1 DEF InTurn
    <3>4. Landing(n, x) = DOMAIN s /\ I = {}
      BY <3>3 DEF Landing
    <3>5. q = <<>>
      BY <1>1, <3>4, RemainingIs
    <3>6. Max(Landing(n, x)) = Len(s)
      <4> DEFINE m == Max(Landing(n, x))
      <4>1. m \in DOMAIN s /\ Len(s) <= m
        BY <3>1, <3>4, LastLanding
      <4> HIDE DEF m
      <4>2. m = Len(s)
        BY <1>4, <4>1
      <4> QED BY <4>2 DEF m
    <3>7. x \in notices'[n] <=> s[Len(s)].kind = "dead"
      BY <1>2, <3>1, <3>4, <3>6 DEF Believes
    <3> HIDE DEF q
    <3> QED BY <1>2, <2>3, <3>5, <3>7 DEF LastTold
  <2> QED BY <2>1, <2>2, <2>3
<1>12. Stranded(n, x) => Stranded(n, x)'
  BY <1>2, <1>9 DEF Stranded
<1>13. Stranded(n, x)' \/ (InTurn(n, x)' /\ (LastTold(n, x)' <=> x \in down'))
  BY <1>2, <1>10, <1>11, <1>12 DEF Tracked
<1>14. link_up' /\ phase' # "events" => HoldsNone(n, x)'
  BY <1>2, <1>8
<1> QED BY <1>8, <1>13, <1>14 DEF Tracked

\* The end of a tick.
LEMMA EndTracked ==
    ASSUME TypeOK, NEW n \in Nodes, NEW x \in Nodes, Tracked(n, x), EndTick
    PROVE  Tracked(n, x)'
<1> DEFINE s == watch[n][x]
           q == [i \in DOMAIN s |-> Arrived(s[i])]
<1>1. s \in Seq(Word) /\ q \in Seq(Word)
  BY ArrivedTyped DEF TypeOK
<1>2. /\ watch'[n][x] = q /\ UNCHANGED <<down, notices, link_up, left>>
      /\ phase # "events" /\ phase' = "events"
  BY DEF EndTick, node
<1>3. /\ Len(s) \in Nat /\ DOMAIN s = 1..Len(s) /\ DOMAIN q = DOMAIN s
      /\ Len(q) = Len(s)
      /\ \A i \in DOMAIN s : s[i] \in Word
  <2>1. Len(s) \in Nat /\ DOMAIN s = 1..Len(s)
    BY <1>1, LenProperties
  <2>2. Len(q) \in Nat /\ DOMAIN q = 1..Len(q) /\ DOMAIN q = DOMAIN s
    BY <1>1, LenProperties
  <2>3. Len(q) = Len(s)
    <3> HIDE DEF q
    <3> QED BY <2>1, <2>2
  <2> QED BY <1>1, <2>1, <2>2, <2>3, ElementOfSeq
<1>4. \A i \in DOMAIN s :
         /\ q[i].kind = s[i].kind
         /\ q[i].due = "held" <=> s[i].due = "held"
         /\ q[i].due # "next"
         /\ q[i].due = "now" <=> s[i].due # "held"
  BY <1>3 DEF Arrived, Word
<1> HIDE DEF q
<1>5. HoldsNone(n, x)' <=> HoldsNone(n, x)
  BY <1>2, <1>3, <1>4 DEF HoldsNone
<1>6. LastTold(n, x)' <=> LastTold(n, x)
  <2>1. q = <<>> <=> s = <<>>
    BY <1>1, <1>3, EmptySeq
  <2>2. s # <<>> => Len(s) \in DOMAIN s
    BY <1>1, <1>3, EmptySeq
  <2> QED BY <1>2, <1>3, <1>4, <2>1, <2>2 DEF LastTold
<1>7. InTurn(n, x) => InTurn(n, x)'
  <2> SUFFICES ASSUME InTurn(n, x), NEW i \in DOMAIN s, NEW j \in DOMAIN s, i < j,
                      q[j].due = "now"
               PROVE  q[i].due = "now"
    BY <1>2, <1>3, <1>4 DEF InTurn
  <2>1. CASE link_up
    BY <1>2, <1>4, <2>1 DEF Tracked, HoldsNone
  <2>2. CASE ~link_up
    <3>1. s[j].due # "held" /\ s[j].due \in {"now", "next", "held"}
      BY <1>3, <1>4 DEF Word
    <3>2. s[i].due # "held"
      BY <2>2, <3>1 DEF InTurn
    <3> QED BY <1>4, <3>2
  <2> QED BY <2>1, <2>2
<1> QED BY <1>2, <1>5, <1>6, <1>7 DEF Tracked, Stranded

\* The flips.
LEMMA FlipTracked ==
    ASSUME TypeOK, NEW n \in Nodes, NEW x \in Nodes, Tracked(n, x),
           Cut \/ Heal, Cut => HoldsNone(n, x) \/ left'["flip"] = 0
    PROVE  Tracked(n, x)'
<1>1. left["flip"] \in Nat /\ left["flip"] > 0
  BY DEF Cut, Heal, Spend, TypeOK
<1>2. UNCHANGED <<watch, notices, down, phase>> /\ phase = "events"
  BY DEF Cut, Heal, node, clock, traffic
<1>3. /\ HoldsNone(n, x)' <=> HoldsNone(n, x)
      /\ LastTold(n, x)' <=> LastTold(n, x)
  BY <1>2 DEF HoldsNone, LastTold
<1>4. InTurn(n, x) /\ (LastTold(n, x) <=> x \in down)
  BY <1>1 DEF Tracked, Stranded
<1>5. CASE Cut
  <2>1. HoldsNone(n, x) => InTurn(n, x)'
    BY <1>2, <1>4 DEF HoldsNone, InTurn
  <2>2. ~HoldsNone(n, x) => Stranded(n, x)'
    BY <1>3, <1>5 DEF Cut, Stranded
  <2> QED BY <1>2, <1>3, <1>4, <2>1, <2>2 DEF Tracked
<1>6. CASE Heal
  <2>1. InTurn(n, x)'
    BY <1>2, <1>4, <1>6 DEF Heal, InTurn
  <2> QED BY <1>2, <1>3, <1>4, <2>1 DEF Tracked
<1> QED BY <1>5, <1>6

LEMMA LinkStep ==
    ASSUME LinkInv, [Next]_vars, Waits PROVE LinkInv'
<1> USE DEF LinkInv
<1>0. IInv' /\ TypeOK /\ PeersKnown /\ down \subseteq died
  BY Inductive DEF IInv, DeathsHappened
<1>1. ASSUME UNCHANGED <<watch, notices, down, link_up>>, died \subseteq died',
             left'["flip"] = left["flip"], phase' # "events" => phase # "events"
      PROVE  LinkInv'
  <2>2. ASSUME NEW n \in Nodes \ died', NEW x \in Nodes PROVE Tracked(n, x)'
    BY <1>1, <2>2, SameTracked
  <2> QED BY <1>0, <2>2
<1>2. ASSUME NEW s \in Nodes, Kill(s) PROVE LinkInv'
  <2>1. /\ phase = "events" /\ phase' = "events" /\ notices' = notices
        /\ down' = down \cup {s} /\ died' = died \cup {s}
        /\ watch' = Told("dead", s) /\ link_up' = link_up
        /\ left'["flip"] = left["flip"]
    BY <1>0, <1>2 DEF Kill, node, clock, Spend, TypeOK
  <2>2. \A a, b \in Nodes : Told("dead", s)[a][b] =
            IF b = s /\ a # s /\ a \notin down
            THEN Append(watch[a][b], Notice(a, "dead", b)) ELSE watch[a][b]
    BY <1>0, ToldIs
  <2>3. ASSUME NEW n \in Nodes \ died', NEW x \in Nodes PROVE Tracked(n, x)'
    <3>1. n \in Nodes \ died /\ n # s /\ n \notin down /\ Tracked(n, x)
      BY <1>0, <2>1
    <3>2. watch'[n][x] = IF x = s THEN Append(watch[n][x], Notice(n, "dead", x))
                         ELSE watch[n][x]
      BY <2>1, <2>2, <3>1
    <3>3. CASE x = s
      BY <1>0, <2>1, <3>1, <3>2, <3>3, GrownTracked
    <3>4. CASE x # s
      BY <2>1, <3>1, <3>2, <3>4, SameTracked
    <3> QED BY <3>3, <3>4
  <2> QED BY <1>0, <2>3
<1>3. ASSUME NEW s \in Nodes, Revive(s) PROVE LinkInv'
  <2>1. /\ phase = "events" /\ phase' = "events" /\ notices' = notices
        /\ down' = down \ {s} /\ died' = died /\ s \in down
        /\ watch' = CatchUp(s) /\ link_up' = link_up
        /\ left'["flip"] = left["flip"]
    BY <1>0, <1>3 DEF Revive, node, clock, history, Spend, TypeOK
  <2>3. ASSUME NEW n \in Nodes \ died', NEW x \in Nodes PROVE Tracked(n, x)'
    <3>1. n \in Nodes \ died /\ n # s /\ n \notin down /\ Tracked(n, x)
      BY <1>0, <2>1
    <3>2. watch'[n][x] = IF x = s THEN Append(watch[n][x], Notice(n, "alive", x))
                         ELSE watch[n][x]
      <4>1. CatchUp(s)[n][x] = Told("alive", s)[n][x]
        BY <1>0, <3>1, CatchUpIs
      <4>2. Told("alive", s)[n][x] =
                IF x = s /\ n # s /\ n \notin down
                THEN Append(watch[n][x], Notice(n, "alive", x)) ELSE watch[n][x]
        BY <1>0, <3>1, ToldIs
      <4> QED BY <2>1, <3>1, <4>1, <4>2
    <3>3. CASE x = s
      BY <1>0, <2>1, <3>1, <3>2, <3>3, GrownTracked
    <3>4. CASE x # s
      BY <2>1, <3>1, <3>2, <3>4, SameTracked
    <3> QED BY <3>3, <3>4
  <2> QED BY <1>0, <2>3
<1>4. CASE DeliverDue
  <2>1. UNCHANGED <<link_up, left, died>>
    BY <1>4 DEF DeliverDue, history
  <2>3. ASSUME NEW n \in Nodes \ died', NEW x \in Nodes PROVE Tracked(n, x)'
    BY <1>0, <1>4, <2>1, <2>3, DueTracked
  <2> QED BY <1>0, <2>3
<1>5. CASE EndTick
  <2>1. UNCHANGED <<link_up, left, died>>
    BY <1>5 DEF EndTick, history
  <2>3. ASSUME NEW n \in Nodes \ died', NEW x \in Nodes PROVE Tracked(n, x)'
    BY <1>0, <1>5, <2>1, <2>3, EndTracked
  <2> QED BY <1>0, <2>3
<1>6. CASE Cut \/ Heal
  <2>1. died' = died
    BY <1>6 DEF Cut, Heal, history
  <2>2. ASSUME NEW n \in Nodes \ died', NEW x \in Nodes PROVE Tracked(n, x)'
    BY <1>0, <1>6, <2>1, <2>2, FlipTracked DEF Waits
  <2> QED BY <1>0, <2>1, <2>2
<1>7. CASE TickNode \/ TicksDone \/ UNCHANGED vars
  BY <1>1, <1>7 DEF TickNode, TicksDone, vars, node, traffic, clock, history
<1>8. CASE Redirected
  <2>1. PICK home \in Regions, request \in Requests : Arrive(home, request)
    BY <1>0, <1>8, RedirectArrives
  <2>2. notices' = notices
    BY <2>1, ArriveTyped
  <2> QED BY <1>1, <1>8, <2>2 DEF Redirected, clock
<1>9. ASSUME NEW request \in Requests, Client(request) PROVE LinkInv'
  <2>1. Home[request] \in Regions
    BY ScheduleAssumption DEF Requests
  <2>2. notices' = notices
    BY <1>9, <2>1, ArriveTyped DEF Client
  <2>3. left'["flip"] = left["flip"]
    BY <1>0, <1>9 DEF Client, Spend, TypeOK
  <2> QED BY <1>1, <1>9, <2>2, <2>3 DEF Client, clock
<1> QED BY <1>2, <1>3, <1>4, <1>5, <1>6, <1>7, <1>8, <1>9 DEF Next

LEMMA LinkInit == Init => LinkInv
<1> SUFFICES ASSUME Init PROVE LinkInv
  OBVIOUS
<1>1. IInv
  BY Initial
<1>2. \A n, x \in Nodes : watch[n][x] = <<>> /\ x \notin notices[n] /\ x \notin down
  BY DEF Init
<1>3. DOMAIN <<>> = {}
  OBVIOUS
<1>4. \A n, x \in Nodes : Tracked(n, x)
  BY <1>2, <1>3 DEF Tracked, HoldsNone, InTurn, LastTold
<1> QED BY <1>1, <1>4 DEF LinkInv

\* However often the link flips, the watch channel keeps a node's deaths and
\* revivals in the order they happened, in or across regions, as long as no cut
\* comes between a heal and the deliveries that release what the link held:
\* whoever never died and has no notice still to come believes dead exactly the
\* nodes that are.
THEOREM NoticesArriveInOrder == Spec /\ CutsWait => []NoticesTrackDeaths
<1>1. LinkInv => NoticesTrackDeaths
  <2> SUFFICES ASSUME LinkInv, NEW n \in Nodes \ died,
                      \A x \in Nodes : watch[n][x] = <<>>
               PROVE  notices[n] = down
    BY DEF NoticesTrackDeaths
  <2>1. DOMAIN <<>> = {}
    OBVIOUS
  <2>2. \A x \in Nodes : x \in notices[n] <=> x \in down
    BY <2>1 DEF LinkInv, Tracked, Stranded, HoldsNone, LastTold
  <2>3. notices[n] \subseteq Nodes /\ down \subseteq Nodes
    BY DEF LinkInv, IInv, TypeOK
  <2> QED BY <2>2, <2>3
<1>2. LinkInv /\ [Next]_vars /\ [Waits]_vars => LinkInv'
  <2> SUFFICES ASSUME LinkInv, [Next]_vars, [Waits]_vars PROVE LinkInv'
    OBVIOUS
  <2>1. CASE Waits
    BY <2>1, LinkStep
  <2>2. CASE UNCHANGED vars
    <3>1. ~Cut
      BY <2>2 DEF Cut, vars
    <3> QED BY <3>1, LinkStep DEF Waits
  <2> QED BY <2>1, <2>2
<1> QED BY <1>1, <1>2, LinkInit, PTL DEF Spec, CutsWait

(* Of three flips only the last can cut a link that holds a notice: the    *)
(* link is up after none or two of them, and the first finds nothing held. *)
FewFlips ==
    /\ IInv
    /\ left["flip"] \in IF link_up THEN {Flips, Flips - 2} ELSE {Flips - 1, Flips - 3}
    /\ left["flip"] = Flips =>
          \A n \in Nodes \ died : \A x \in Nodes : HoldsNone(n, x)

\* Before the first flip no step holds a notice.
LEMMA UnheldStep ==
    ASSUME IInv, [Next]_vars, link_up, ~(Cut \/ Heal),
           \A n \in Nodes \ died : \A x \in Nodes : HoldsNone(n, x)
    PROVE  \A n \in Nodes \ died' : \A x \in Nodes : HoldsNone(n, x)'
<1>0. TypeOK /\ \A n, x \in Nodes : watch[n][x] \in Seq(Word)
  BY DEF IInv, TypeOK
<1>1. ASSUME watch' = watch, died' = died
      PROVE  \A n \in Nodes \ died' : \A x \in Nodes : HoldsNone(n, x)'
  BY <1>1 DEF HoldsNone
<1>2. ASSUME NEW n \in Nodes \ died, NEW x \in Nodes, NEW kind \in {"dead", "alive"},
             \/ watch'[n][x] = watch[n][x]
             \/ watch'[n][x] = Append(watch[n][x], Notice(n, kind, x))
      PROVE  HoldsNone(n, x)'
  <2>1. HoldsNone(n, x)
    OBVIOUS
  <2>2. CASE watch'[n][x] = watch[n][x]
    BY <2>1, <2>2 DEF HoldsNone
  <2>3. CASE watch'[n][x] = Append(watch[n][x], Notice(n, kind, x))
    <3>1. Notice(n, kind, x) \in Word /\ Notice(n, kind, x).due # "held"
      BY NoticeTyped DEF Notice, Due
    <3> QED BY <1>0, <2>1, <2>3, <3>1, AppendedIs DEF HoldsNone
  <2> QED BY <1>2, <2>2, <2>3
<1>3. ASSUME NEW s \in Nodes, Kill(s), NEW n \in Nodes \ died', NEW x \in Nodes
      PROVE  HoldsNone(n, x)'
  <2>1. n \in Nodes \ died /\ watch' = Told("dead", s)
    BY <1>3 DEF Kill
  <2>2. \A a, b \in Nodes : Told("dead", s)[a][b] =
            IF b = s /\ a # s /\ a \notin down
            THEN Append(watch[a][b], Notice(a, "dead", b)) ELSE watch[a][b]
    BY <1>0, ToldIs
  <2>3. \/ watch'[n][x] = watch[n][x]
        \/ watch'[n][x] = Append(watch[n][x], Notice(n, "dead", x))
    BY <2>1, <2>2
  <2> QED BY <1>2, <2>1, <2>3
<1>9. ASSUME NEW s \in Nodes, Revive(s), NEW n \in Nodes \ died', NEW x \in Nodes
      PROVE  HoldsNone(n, x)'
  <2>1. n \in Nodes \ died /\ watch' = CatchUp(s)
    BY <1>9 DEF Revive, history
  <2>2. \A a, b \in Nodes : Told("alive", s)[a][b] =
            IF b = s /\ a # s /\ a \notin down
            THEN Append(watch[a][b], Notice(a, "alive", b)) ELSE watch[a][b]
    BY <1>0, ToldIs
  <2>3. \A a, b \in Nodes : CatchUp(s)[a][b] =
            IF a = s /\ b # s /\ b \in down
            THEN Append(watch[a][b], Notice(a, "dead", b)) ELSE Told("alive", s)[a][b]
    BY <1>0, CatchUpIs
  <2>4. CASE n = s /\ x # s /\ x \in down
    <3>1. watch'[n][x] = Append(watch[n][x], Notice(n, "dead", x))
      BY <2>1, <2>3, <2>4
    <3> QED BY <1>2, <2>1, <3>1
  <2>5. CASE ~(n = s /\ x # s /\ x \in down)
    <3>1. watch'[n][x] = Told("alive", s)[n][x]
      BY <2>1, <2>3, <2>5
    <3>2. \/ watch'[n][x] = watch[n][x]
          \/ watch'[n][x] = Append(watch[n][x], Notice(n, "alive", x))
      BY <2>1, <2>2, <3>1
    <3> QED BY <1>2, <2>1, <3>2
  <2> QED BY <2>4, <2>5
<1>4. ASSUME DeliverDue, NEW n \in Nodes \ died', NEW x \in Nodes
      PROVE  HoldsNone(n, x)'
  <2> DEFINE I == DOMAIN watch[n][x] \ Landing(n, x)
  <2>1. watch'[n][x] = Remaining(watch[n][x], I) /\ died' = died
    BY <1>4 DEF DeliverDue, StillWatch, history
  <2>2. I \in SUBSET DOMAIN watch[n][x]
    OBVIOUS
  <2> HIDE DEF I
  <2>3. ASSUME NEW k \in DOMAIN watch'[n][x] PROVE watch'[n][x][k].due # "held"
    <3>1. PICK i \in I : watch'[n][x][k] = Released(watch[n][x][i])
      BY <1>0, <2>1, <2>2, <2>3, RemainingIs
    <3>2. watch[n][x][i] \in Word
      BY <1>0, <2>2, LenProperties, ElementOfSeq
    <3> QED BY <3>1, <3>2 DEF Released, Word
  <2> QED BY <2>3 DEF HoldsNone
<1>5. ASSUME EndTick, NEW n \in Nodes \ died', NEW x \in Nodes
      PROVE  HoldsNone(n, x)'
  <2>1. died' = died /\ watch'[n][x] = [i \in DOMAIN watch[n][x] |-> Arrived(watch[n][x][i])]
    BY <1>5 DEF EndTick, history
  <2>2. ASSUME NEW i \in DOMAIN watch[n][x] PROVE Arrived(watch[n][x][i]).due # "held"
    <3>1. watch[n][x][i] \in Word /\ watch[n][x][i].due # "held"
      BY <1>0, <1>5, <2>1, <2>2, LenProperties, ElementOfSeq DEF HoldsNone
    <3> QED BY <3>1 DEF Arrived, Word
  <2> QED BY <2>1, <2>2 DEF HoldsNone
<1>6. CASE \/ TickNode \/ TicksDone \/ Redirected \/ UNCHANGED vars
           \/ \E request \in Requests : Client(request)
  BY <1>1, <1>6 DEF TickNode, TicksDone, Redirected, Client, vars, traffic, history
<1> QED BY <1>3, <1>4, <1>5, <1>6, <1>9 DEF Next

LEMMA FewStep ==
    ASSUME Flips <= 3, FewFlips, [Next]_vars PROVE FewFlips' /\ Waits
<1>0. IInv' /\ IInv /\ left["flip"] \in Nat /\ Flips \in Nat
  BY Inductive, ScheduleAssumption DEF FewFlips, IInv, TypeOK
<1>1. CASE Cut
  <2>1. /\ link_up /\ ~link_up' /\ left["flip"] > 0
        /\ left'["flip"] = left["flip"] - 1
    BY <1>1, <1>0 DEF Cut, Spend, IInv, TypeOK
  <2>2. left["flip"] = Flips \/ (left["flip"] = Flips - 2 /\ left'["flip"] = 0)
    BY <1>0, <2>1 DEF FewFlips
  <2>3. left'["flip"] \in {Flips - 1, Flips - 3} /\ left'["flip"] # Flips
    BY <1>0, <2>1, <2>2
  <2> QED BY <1>0, <2>1, <2>2, <2>3 DEF FewFlips, Waits
<1>2. CASE Heal
  <2>1. /\ ~link_up /\ link_up' /\ left["flip"] > 0
        /\ left'["flip"] = left["flip"] - 1 /\ ~Cut
    BY <1>2, <1>0 DEF Heal, Cut, Spend, IInv, TypeOK
  <2>2. left["flip"] = Flips - 1 /\ left'["flip"] = Flips - 2
    BY <1>0, <2>1 DEF FewFlips
  <2>3. left'["flip"] # Flips
    BY <1>0, <2>2
  <2> QED BY <1>0, <2>1, <2>2, <2>3 DEF FewFlips, Waits
<1>3. CASE ~(Cut \/ Heal)
  <2>1. link_up' = link_up /\ left'["flip"] = left["flip"]
    BY <1>0, <1>3 DEF Next, Kill, Revive, DeliverDue, TickNode, TicksDone,
                      Redirected, Client, EndTick, vars, Spend, IInv, TypeOK
  <2>2. left["flip"] = Flips => link_up
    BY <1>0 DEF FewFlips
  <2> QED BY <1>0, <1>3, <2>1, <2>2, UnheldStep DEF FewFlips, Waits
<1> QED BY <1>1, <1>2, <1>3

\* With three flips or fewer every cut waits, so the notices need no more: the
\* bound is sharp, for a fourth flip can cut the link in the tick that healed
\* it, and a notice held by the first cut then lands after a newer one.
THEOREM NoticesConverge ==
    ASSUME Flips <= 3 PROVE Spec => []NoticesTrackDeaths
<1>1. Init => FewFlips
  <2>1. DOMAIN <<>> = {}
    OBVIOUS
  <2> QED BY <2>1, Initial DEF Init, FewFlips, HoldsNone
<1>2. FewFlips /\ [Next]_vars => FewFlips' /\ [Waits]_vars
  BY FewStep
<1>3. Spec => CutsWait
  BY <1>1, <1>2, PTL DEF Spec, CutsWait
<1> QED BY <1>3, NoticesArriveInOrder, PTL
====
