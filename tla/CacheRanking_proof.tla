------------------------- MODULE CacheRanking_proof -------------------------
(***************************************************************************)
(* What the ranking of cache items guarantees for every directory: the     *)
(* order is total, an item that is not kept is beaten by one that is, and  *)
(* the cut keeps exactly the limit best.                                   *)
(***************************************************************************)
EXTENDS CacheRanking, Functions, FiniteSetTheorems, TLAPS

\* What a listing of the cache directory is: finitely many files, no two of one name.
Directory(S) ==
  /\ IsFiniteSet(S)
  /\ \A i \in S : i.created \in Int /\ i.id \in Int /\ CacheRank(i) \in Int
  /\ \A i, j \in S : i # j => i.created # j.created \/ i.id # j.id

LEMMA DirectorySubset ==
  ASSUME NEW S, Directory(S), NEW T \in SUBSET S
  PROVE  Directory(T)
BY FS_Subset DEF Directory

\* The order of RankedCache is a strict total order.
LEMMA RankedBeforeOrder ==
  ASSUME NEW S, Directory(S)
  PROVE  /\ \A i \in S : ~RankedBefore(i, i)
         /\ \A i, j \in S : i # j => RankedBefore(i, j) \/ RankedBefore(j, i)
         /\ \A i, j, k \in S :
              RankedBefore(i, j) /\ RankedBefore(j, k) => RankedBefore(i, k)
<1>1. \A i \in S : i.created \in Int /\ i.id \in Int /\ CacheRank(i) \in Int
  BY DEF Directory
<1>2. \A i \in S : ~RankedBefore(i, i)
  BY <1>1 DEF RankedBefore
<1>3. \A i, j \in S : i # j => RankedBefore(i, j) \/ RankedBefore(j, i)
  BY <1>1 DEF RankedBefore, Directory
<1>4. \A i, j, k \in S : RankedBefore(i, j) /\ RankedBefore(j, k) => RankedBefore(i, k)
  BY <1>1 DEF RankedBefore
<1>5. QED BY <1>2, <1>3, <1>4

\* dedupeCacheItems prefers the item that RankedCache would list first.
LEMMA BeatsIsRankedBefore ==
  ASSUME NEW S, Directory(S), NEW i \in S, NEW j \in S
  PROVE  Beats(i, j) <=> DedupeKey(i) = DedupeKey(j) /\ RankedBefore(i, j)
<1>1. /\ i.created \in Int /\ i.id \in Int /\ CacheRank(i) \in Int
      /\ j.created \in Int /\ j.id \in Int /\ CacheRank(j) \in Int
      /\ i # j => i.created # j.created \/ i.id # j.id
  BY DEF Directory
<1>2. QED BY <1>1 DEF Beats, Supersedes, ListedBefore, RankedBefore

-----------------------------------------------------------------------------
\* The place of an item in the ranking of S, counted from 0.
Before(S, i) == {j \in S : RankedBefore(j, i)}
Place(S) == [i \in S |-> Cardinality(Before(S, i))]

\* Items that rank before others have smaller places.
LEMMA PlaceMonotone ==
  ASSUME NEW S, Directory(S), NEW i \in S, NEW j \in S, RankedBefore(i, j)
  PROVE  /\ Place(S)[i] \in Nat /\ Place(S)[j] \in Nat
         /\ Place(S)[i] < Place(S)[j]
<1>1. Before(S, i) \in SUBSET S /\ Before(S, j) \in SUBSET S /\ IsFiniteSet(S)
  BY DEF Before, Directory
<1>2. IsFiniteSet(Before(S, i)) /\ IsFiniteSet(Before(S, j))
  BY <1>1, FS_Subset
<1>3. Before(S, i) \in SUBSET Before(S, j)
  BY RankedBeforeOrder DEF Before
<1>4. i \in Before(S, j) /\ i \notin Before(S, i)
  BY RankedBeforeOrder DEF Before
<1>5. /\ Cardinality(Before(S, i)) <= Cardinality(Before(S, j))
      /\ Cardinality(Before(S, i)) # Cardinality(Before(S, j))
  BY <1>2, <1>3, <1>4, FS_Subset
<1>6. Cardinality(Before(S, i)) \in Nat /\ Cardinality(Before(S, j)) \in Nat
  BY <1>2, FS_CardinalityType
<1>7. Place(S)[i] = Cardinality(Before(S, i)) /\ Place(S)[j] = Cardinality(Before(S, j))
  BY DEF Place
<1>8. QED BY <1>5, <1>6, <1>7

\* The places are 0 .. |S| - 1, each taken once.
LEMMA PlacesFilled ==
  ASSUME NEW S, Directory(S)
  PROVE  /\ Cardinality(S) \in Nat
         /\ Place(S) \in Injection(S, 0 .. Cardinality(S) - 1)
         /\ Place(S) \in Surjection(S, 0 .. Cardinality(S) - 1)
<1> DEFINE n == Cardinality(S)
<1>1. IsFiniteSet(S) /\ n \in Nat
  BY FS_CardinalityType DEF Directory
<1>2. ASSUME NEW i \in S PROVE Place(S)[i] \in 0 .. n - 1
  <2>1. Before(S, i) \in SUBSET (S \ {i})
    BY RankedBeforeOrder DEF Before
  <2>2. IsFiniteSet(S \ {i}) /\ Cardinality(S \ {i}) = n - 1
    BY <1>1, FS_RemoveElement
  <2>3. IsFiniteSet(Before(S, i)) /\ Cardinality(Before(S, i)) <= n - 1
    BY <2>1, <2>2, FS_Subset
  <2>4. Cardinality(Before(S, i)) \in Nat
    BY <2>3, FS_CardinalityType
  <2>5. QED BY <1>1, <2>3, <2>4 DEF Place
<1>3. \A i, j \in S : Place(S)[i] = Place(S)[j] => i = j
  <2> SUFFICES ASSUME NEW i \in S, NEW j \in S, i # j PROVE Place(S)[i] # Place(S)[j]
    OBVIOUS
  <2>1. RankedBefore(i, j) \/ RankedBefore(j, i)
    BY RankedBeforeOrder
  <2>2. CASE RankedBefore(i, j) BY <2>2, PlaceMonotone
  <2>3. CASE RankedBefore(j, i) BY <2>3, PlaceMonotone
  <2>4. QED BY <2>1, <2>2, <2>3
<1>4. Place(S) \in [S -> 0 .. n - 1]
  BY <1>2 DEF Place
<1>5. Place(S) \in Injection(S, 0 .. n - 1)
  BY <1>3, <1>4 DEF Injection, IsInjective
<1>6. IsFiniteSet(0 .. n - 1) /\ Cardinality(0 .. n - 1) = n
  <2> HIDE DEF n
  <2>1. /\ IsFiniteSet(0 .. n - 1)
        /\ Cardinality(0 .. n - 1) = IF 0 > n - 1 THEN 0 ELSE (n - 1) - 0 + 1
    BY <1>1, FS_Interval
  <2> QED
    BY <1>1, <2>1
<1>7. Place(S) \in Surjection(S, 0 .. n - 1)
  BY <1>5, <1>6, FS_Injection
<1>8. QED BY <1>1, <1>5, <1>7

-----------------------------------------------------------------------------
\* Of each key something is kept: an item that is not kept is beaten by one that is.
THEOREM SomethingKept ==
  ASSUME NEW S, Directory(S), NEW i \in S
  PROVE  \E k \in Kept(S) : k = i \/ Beats(k, i)
<1> DEFINE C == {j \in S : j = i \/ Beats(j, i)}
<1> HIDE DEF C
<1>1. C \in SUBSET S /\ Directory(C) /\ i \in C
  BY DirectorySubset DEF C
<1>2. Cardinality(C) \in Nat /\ Cardinality(C) # 0
  BY <1>1, PlacesFilled, FS_EmptySet DEF Directory
<1>3. 0 \in 0 .. Cardinality(C) - 1
  BY <1>2
<1>4. PICK k \in C : Place(C)[k] = 0
  BY <1>1, <1>3, PlacesFilled DEF Surjection
<1>5. \A j \in C : ~RankedBefore(j, k)
  BY <1>1, <1>4, PlaceMonotone
<1>6. k \in S /\ (k = i \/ Beats(k, i))
  BY DEF C
<1>7. ASSUME NEW j \in S, Beats(j, k) PROVE FALSE
  <2>1. DedupeKey(j) = DedupeKey(k) /\ RankedBefore(j, k)
    BY <1>6, <1>7, BeatsIsRankedBefore
  <2>2. DedupeKey(k) = DedupeKey(i) /\ (k = i \/ RankedBefore(k, i))
    BY <1>6, BeatsIsRankedBefore
  <2>3. RankedBefore(j, i)
    BY <1>6, <2>1, <2>2, RankedBeforeOrder
  <2>4. Beats(j, i)
    BY <2>1, <2>2, <2>3, BeatsIsRankedBefore
  <2>5. QED BY <1>5, <2>1, <2>4 DEF C
<1>8. QED BY <1>6, <1>7 DEF Kept

\* The cut keeps the items whose place is below the limit.
LEMMA RankedByPlace ==
  ASSUME NEW S, Directory(S), NEW limit \in Nat \ {0}
  PROVE  Ranked(S, limit) = {i \in Kept(S) : Place(Kept(S))[i] < limit}
BY DEF Ranked, Place, Before

LEMMA KeptDirectory ==
  ASSUME NEW S, Directory(S)
  PROVE  Directory(Kept(S)) /\ Kept(S) \in SUBSET S
BY DirectorySubset DEF Kept

\* RankedCache returns at most limit items.
THEOREM RankedIsBounded ==
  ASSUME NEW S, Directory(S), NEW limit \in Nat \ {0}
  PROVE  /\ IsFiniteSet(Ranked(S, limit))
         /\ Cardinality(Ranked(S, limit)) <= limit
<1> DEFINE K == Kept(S)
           R == Ranked(S, limit)
           f == [i \in R |-> Place(K)[i]]
<1>1. Directory(K) /\ R = {i \in K : Place(K)[i] < limit}
  BY KeptDirectory, RankedByPlace
<1> HIDE DEF K, R
<1>2. Place(K) \in Injection(K, 0 .. Cardinality(K) - 1) /\ Cardinality(K) \in Nat
  BY <1>1, PlacesFilled
<1>3. \A i \in R : i \in K /\ Place(K)[i] \in 0 .. limit - 1
  BY <1>1, <1>2 DEF Injection
<1>4. \A i, j \in R : Place(K)[i] = Place(K)[j] => i = j
  BY <1>2, <1>3 DEF Injection, IsInjective
<1>5. f \in Injection(R, 0 .. limit - 1)
  BY <1>3, <1>4 DEF Injection, IsInjective
<1>6. IsFiniteSet(0 .. limit - 1) /\ Cardinality(0 .. limit - 1) = limit
  BY FS_Interval
<1>7. IsFiniteSet(R) /\ Cardinality(R) <= limit
  BY <1>5, <1>6, FS_Injection
<1>8. QED BY <1>7 DEF R

\* An item RankedCache leaves out is beaten by one it returns, or it returns limit items
\* that rank before it.
THEOREM LeftOutForBetter ==
  ASSUME NEW S, Directory(S), NEW limit \in Nat \ {0}, NEW i \in S
  PROVE  \/ i \in Ranked(S, limit)
         \/ \E j \in Ranked(S, limit) : Beats(j, i)
         \/ Cardinality({j \in Ranked(S, limit) : RankedBefore(j, i)}) >= limit
<1> DEFINE K == Kept(S)
           R == Ranked(S, limit)
           f == [j \in R |-> Place(K)[j]]
<1>1. Directory(K) /\ K \in SUBSET S /\ R = {j \in K : Place(K)[j] < limit}
  BY KeptDirectory, RankedByPlace
<1>2. PICK k \in K : k = i \/ Beats(k, i)
  BY SomethingKept
<1> SUFFICES ASSUME k \notin R
             PROVE  Cardinality({j \in R : RankedBefore(j, i)}) >= limit
  BY <1>2
<1> HIDE DEF K, R
<1>3. /\ Place(K) \in Surjection(K, 0 .. Cardinality(K) - 1)
      /\ Place(K) \in [K -> 0 .. Cardinality(K) - 1]
      /\ Cardinality(K) \in Nat
  BY <1>1, PlacesFilled DEF Injection
<1>4. Place(K)[k] >= limit /\ Cardinality(K) - 1 >= limit
  BY <1>1, <1>2, <1>3
<1>5. \A j \in R : j \in K /\ Place(K)[j] \in 0 .. limit - 1
  BY <1>1, <1>3
<1>6. \A n \in 0 .. limit - 1 : \E j \in R : Place(K)[j] = n
  <2> SUFFICES ASSUME NEW n \in 0 .. limit - 1 PROVE \E j \in R : Place(K)[j] = n
    OBVIOUS
  <2>1. n \in 0 .. Cardinality(K) - 1 BY <1>3, <1>4
  <2>2. PICK j \in K : Place(K)[j] = n BY <1>3, <2>1 DEF Surjection
  <2>3. j \in R BY <1>1, <2>2
  <2>4. QED BY <2>2, <2>3
<1>7. f \in Surjection(R, 0 .. limit - 1)
  BY <1>5, <1>6 DEF Surjection
<1>8. IsFiniteSet(R)
  BY <1>1, FS_Subset DEF Directory
<1>9. limit <= Cardinality(R)
  <2>1. Cardinality(0 .. limit - 1) = limit BY FS_Interval
  <2>2. QED BY <1>7, <1>8, <2>1, FS_Surjection
<1>10. ASSUME NEW j \in R PROVE RankedBefore(j, i)
  <2>1. j \in K /\ j # k /\ Place(K)[j] < Place(K)[k]
    BY <1>2, <1>3, <1>4, <1>5
  <2>2. ~RankedBefore(k, j)
    BY <1>1, <1>2, <2>1, PlaceMonotone
  <2>3. RankedBefore(j, k)
    BY <1>1, <2>1, <2>2, RankedBeforeOrder
  <2>4. k = i \/ RankedBefore(k, i)
    BY <1>1, <1>2, BeatsIsRankedBefore
  <2>5. QED BY <1>1, <2>1, <2>3, <2>4, RankedBeforeOrder
<1>11. {j \in R : RankedBefore(j, i)} = R
  BY <1>10
<1>12. Cardinality(R) \in Nat
  BY <1>8, FS_CardinalityType
<1>13. QED BY <1>9, <1>11, <1>12
=============================================================================
