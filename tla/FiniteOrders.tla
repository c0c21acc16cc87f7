---------------------------- MODULE FiniteOrders ----------------------------
(***************************************************************************)
(* Finite sets with a strict total order, a relation: their elements have  *)
(* the ranks 1, 2, ... without a gap.  The sorts of the code are modelled  *)
(* by such ranks, and what the proofs need of them is here.                *)
(***************************************************************************)
EXTENDS Integers, FiniteSets, FiniteSetTheorems, TLAPS

LEMMA UpTo ==
  ASSUME NEW n \in Nat
  PROVE  IsFiniteSet(1 .. n) /\ Cardinality(1 .. n) = n
BY FS_Interval

\* The elements of S that R puts before x.
Before(x, S, R) == {y \in S : <<y, x>> \in R}

StrictOrder(S, R) ==
  /\ \A x \in S : <<x, x>> \notin R
  /\ \A x, y, z \in S : <<x, y>> \in R /\ <<y, z>> \in R => <<x, z>> \in R
  /\ \A x, y \in S : x # y => <<x, y>> \in R \/ <<y, x>> \in R

\* Each element has a rank of its own, of those from one to the size of S, ...
RanksOwned(S, R) ==
  /\ \A x \in S : 1 + Cardinality(Before(x, S, R)) \in 1 .. Cardinality(S)
  /\ \A x, y \in S : 1 + Cardinality(Before(x, S, R)) = 1 + Cardinality(Before(y, S, R)) => x = y

\* ... and so none of those is left over.
RanksTaken(S, R) ==
  \A n \in 1 .. Cardinality(S) : \E x \in S : 1 + Cardinality(Before(x, S, R)) = n

LEMMA RankOfEachItsOwn ==
  ASSUME NEW S, IsFiniteSet(S), NEW R, StrictOrder(S, R)
  PROVE  RanksOwned(S, R)
<1> DEFINE below(x) == Before(x, S, R)
           rank     == [x \in S |-> 1 + Cardinality(below(x))]
           Ranks    == 1 .. Cardinality(S)
<1>1. Cardinality(S) \in Nat
  BY FS_CardinalityType
<1>2. \A x \in S : /\ IsFiniteSet(below(x)) /\ Cardinality(below(x)) \in Nat
                   /\ Cardinality(below(x)) < Cardinality(S)
  <2> SUFFICES ASSUME NEW x \in S
               PROVE  /\ IsFiniteSet(below(x)) /\ Cardinality(below(x)) \in Nat
                      /\ Cardinality(below(x)) < Cardinality(S)
    OBVIOUS
  <2>1. below(x) \subseteq S /\ below(x) # S
    BY DEF Before, StrictOrder
  <2> HIDE DEF below
  <2>2. IsFiniteSet(below(x)) /\ Cardinality(below(x)) <= Cardinality(S)
    BY <2>1, FS_Subset
  <2>3. Cardinality(below(x)) # Cardinality(S)
    BY <2>1, FS_Subset
  <2>4. Cardinality(below(x)) \in Nat
    BY <2>2, FS_CardinalityType
  <2>5. QED
    BY <1>1, <2>2, <2>3, <2>4
<1>3. rank \in [S -> Ranks]
  BY <1>1, <1>2
<1>4. \A x, y \in S : <<x, y>> \in R => Cardinality(below(x)) < Cardinality(below(y))
  <2> SUFFICES ASSUME NEW x \in S, NEW y \in S, <<x, y>> \in R
               PROVE  Cardinality(below(x)) < Cardinality(below(y))
    OBVIOUS
  <2>1. below(x) \subseteq below(y) /\ x \in below(y) /\ x \notin below(x)
    BY DEF Before, StrictOrder
  <2>2. IsFiniteSet(below(y)) /\ below(x) # below(y)
    BY <1>2, <2>1
  <2> HIDE DEF below
  <2>3. QED
    BY <2>1, <2>2, FS_Subset, FS_CardinalityType
<1>5. \A x, y \in S : rank[x] = rank[y] => x = y
  <2> SUFFICES ASSUME NEW x \in S, NEW y \in S, x # y PROVE rank[x] # rank[y]
    OBVIOUS
  <2>1. rank[x] = 1 + Cardinality(below(x)) /\ rank[y] = 1 + Cardinality(below(y))
    OBVIOUS
  <2>2. <<x, y>> \in R \/ <<y, x>> \in R
    BY DEF StrictOrder
  <2> HIDE DEF below, rank
  <2>3. Cardinality(below(x)) \in Nat /\ Cardinality(below(y)) \in Nat
    BY <1>2
  <2>4. \/ Cardinality(below(x)) < Cardinality(below(y))
        \/ Cardinality(below(y)) < Cardinality(below(x))
    BY <1>4, <2>2
  <2>5. QED
    BY <2>1, <2>3, <2>4
<1> QED
  BY <1>3, <1>5 DEF RanksOwned

LEMMA EveryRankTaken ==
  ASSUME NEW S, IsFiniteSet(S), NEW R, StrictOrder(S, R)
  PROVE  RanksTaken(S, R)
<1> DEFINE rank  == [x \in S |-> 1 + Cardinality(Before(x, S, R))]
           Ranks == 1 .. Cardinality(S)
<1>1. RanksOwned(S, R)
  BY RankOfEachItsOwn
<1>2. /\ \A x \in S : rank[x] \in Ranks
      /\ \A x, y \in S : rank[x] = rank[y] => x = y
  BY <1>1 DEF RanksOwned
<1>3. Cardinality(S) \in Nat
  BY FS_CardinalityType
<1>4. IsFiniteSet(Ranks) /\ Cardinality(Ranks) = Cardinality(S)
  BY <1>3, FS_Interval
<1>5. rank \in [S -> Ranks]
  BY <1>2
<1> HIDE DEF rank, Ranks
<1>6. rank \in Injection(S, Ranks)
  BY <1>2, <1>5 DEF Injection, IsInjective
<1>7. rank \in Surjection(S, Ranks)
  BY <1>4, <1>6, FS_Injection
<1>8. ASSUME NEW n \in Ranks PROVE \E x \in S : rank[x] = n
  BY <1>7 DEF Surjection
<1> QED
  BY <1>8 DEF RanksTaken, rank, Ranks

\* A set that is not empty has a first element.
LEMMA FirstElement ==
  ASSUME NEW S, IsFiniteSet(S), S # {}, NEW R, StrictOrder(S, R)
  PROVE  \E k \in S : Before(k, S, R) = {}
<1>1. Cardinality(S) \in Nat /\ Cardinality(S) # 0
  BY FS_EmptySet, FS_CardinalityType
<1>2. PICK k \in S : 1 + Cardinality(Before(k, S, R)) = 1
  <2>1. 1 \in 1 .. Cardinality(S)
    BY <1>1
  <2>2. RanksTaken(S, R)
    BY EveryRankTaken
  <2> QED
    BY <2>1, <2>2 DEF RanksTaken
<1>3. IsFiniteSet(Before(k, S, R))
  BY FS_Subset DEF Before
<1>4. Cardinality(Before(k, S, R)) \in Nat
  BY <1>3, FS_CardinalityType
<1>5. Cardinality(Before(k, S, R)) = 0
  BY <1>2, <1>4
<1> QED
  BY <1>3, <1>5, FS_EmptySet

\* A sequence that has at each place the element of that rank has each element, at its rank.
LEMMA ElementsByRank ==
  ASSUME NEW S, IsFiniteSet(S), NEW R, StrictOrder(S, R), NEW f,
         \A n \in 1 .. Cardinality(S) : (\E x \in S : Cardinality(Before(x, S, R)) = n - 1) =>
           f[n] \in S /\ Cardinality(Before(f[n], S, R)) = n - 1
  PROVE  /\ Cardinality(S) \in Nat
         /\ \A n \in 1 .. Cardinality(S) : /\ f[n] \in S
                                          /\ Cardinality(Before(f[n], S, R)) = n - 1
         /\ \A x \in S : /\ Cardinality(Before(x, S, R)) \in 0 .. Cardinality(S) - 1
                         /\ f[1 + Cardinality(Before(x, S, R))] = x
<1> DEFINE below(x) == Cardinality(Before(x, S, R))
<1>1. RanksOwned(S, R) /\ RanksTaken(S, R)
  BY RankOfEachItsOwn, EveryRankTaken
<1>2. Cardinality(S) \in Nat
  BY FS_CardinalityType
<1>3. \A x \in S : below(x) \in Nat
  BY FS_Subset, FS_CardinalityType DEF Before
<1>4. /\ \A x \in S : 1 + below(x) \in 1 .. Cardinality(S)
      /\ \A x, y \in S : 1 + below(x) = 1 + below(y) => x = y
      /\ \A n \in 1 .. Cardinality(S) : \E x \in S : 1 + below(x) = n
  BY <1>1 DEF RanksOwned, RanksTaken
<1>5. \A n \in 1 .. Cardinality(S) : (\E x \in S : below(x) = n - 1) =>
        f[n] \in S /\ below(f[n]) = n - 1
  OBVIOUS
<1> HIDE DEF below
<1>6. \A n \in 1 .. Cardinality(S) : f[n] \in S /\ below(f[n]) = n - 1
  BY <1>2, <1>3, <1>4, <1>5
<1>7. ASSUME NEW x \in S
      PROVE  below(x) \in 0 .. Cardinality(S) - 1 /\ f[1 + below(x)] = x
  BY <1>2, <1>3, <1>4, <1>6
<1> QED
  BY <1>2, <1>6, <1>7 DEF below

\* A set of natural numbers has a least element: the one of the first rank among those that are
\* not above some element.
LEMMA SmallestOfSet ==
  ASSUME NEW S \in SUBSET Nat, S # {}
  PROVE  \E k \in S : \A j \in S : k <= j
<1> PICK s \in S : TRUE
  OBVIOUS
<1> DEFINE T == {k \in S : k <= s}
           R == {p \in T \X T : p[1] < p[2]}
<1>1. s \in Nat /\ s \in T /\ T \subseteq 0 .. s
  <2>1. \A k \in S : k \in Nat
    OBVIOUS
  <2>2. s \in Nat
    BY <2>1
  <2>3. s \in T
    BY <2>2
  <2>4. ASSUME NEW k \in T PROVE k \in 0 .. s
    <3>1. k \in S /\ k <= s
      OBVIOUS
    <3>2. k \in Nat
      BY <2>1, <3>1
    <3> HIDE DEF T
    <3> QED
      BY <2>2, <3>1, <3>2
  <2> HIDE DEF T
  <2> QED
    BY <2>2, <2>3, <2>4
<1>2. IsFiniteSet(0 .. s)
  BY <1>1, FS_Interval
<1>3. IsFiniteSet(T)
  BY <1>1, <1>2, FS_Subset
<1>4. \A x, y \in T : <<x, y>> \in R <=> x < y
  <2> HIDE DEF T
  <2> QED
    OBVIOUS
<1>5. \A x \in T : x \in Nat
  BY <1>1
<1> HIDE DEF R
<1>6. StrictOrder(T, R)
  BY <1>4, <1>5 DEF StrictOrder
<1>7. PICK k \in T : Before(k, T, R) = {}
  BY <1>1, <1>3, <1>6, FirstElement
<1>8. \A j \in T : ~(j < k)
  BY <1>4, <1>7 DEF Before
<1> QED
  BY <1>5, <1>8
=============================================================================
