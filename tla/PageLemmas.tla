------------------------------ MODULE PageLemmas ------------------------------
(***************************************************************************)
(* Lemmas about what every read of this program is built from: the rows a  *)
(* SELECT with ORDER BY key LIMIT n returns, that is the rows x of S with  *)
(* fewer than n rows before them.  K gives the key of a row.               *)
(***************************************************************************)
EXTENDS FiniteSetTheorems, WellFoundedInduction, TLAPS

RowsBefore(S, K, x) == {y \in S : K[y] < K[x]}
FirstRows(S, K, n) == {x \in S : Cardinality(RowsBefore(S, K, x)) < n}

(* A finite nonempty set has a row with the largest key: in the family of    *)
(* its upper parts, ordered by inclusion, a minimal one belongs to it.       *)
LEMMA LargestExists ==
  ASSUME NEW S, IsFiniteSet(S), S # {}, NEW K \in [S -> Int]
  PROVE  \E x \in S : \A y \in S : K[y] <= K[x]
<1> DEFINE Up(x) == {y \in S : K[y] >= K[x]}
           Ups   == {Up(x) : x \in S}
<1>1. IsWellFoundedOn(StrictSubsetOrdering(S), SUBSET S)
  BY FS_FiniteSubsetsOfFinite, FS_StrictSubsetOrderingWellFounded
<1>2. Ups \subseteq SUBSET S /\ Ups # {}
  <2>1. \A x \in S : Up(x) \in SUBSET S
    OBVIOUS
  <2> HIDE DEF Up
  <2> QED BY <2>1
<1>3. PICK U \in Ups : \A V \in Ups : ~(<<V, U>> \in StrictSubsetOrdering(S))
  <2> HIDE DEF Ups
  <2> QED BY <1>1, <1>2, WFMin
<1>4. PICK x \in S : U = Up(x)
  BY <1>3
<1>5. ASSUME NEW y \in S, ~(K[y] <= K[x])
      PROVE  FALSE
  <2>1. K[y] > K[x]
    BY <1>5
  <2>2. /\ \A z \in S : K[z] >= K[y] => K[z] >= K[x]
        /\ K[x] >= K[x]
        /\ ~(K[x] >= K[y])
    BY <2>1
  <2>3. Up(y) \subseteq Up(x) /\ x \in Up(x) /\ x \notin Up(y)
    BY <2>2
  <2>4. Up(y) \in Ups
    OBVIOUS
  <2>5. <<Up(y), U>> \in StrictSubsetOrdering(S)
    BY <2>3, <1>4, Zenon DEF StrictSubsetOrdering
  <2> QED BY <2>4, <2>5, <1>3
<1> QED BY <1>5

LEMMA SmallestExists ==
  ASSUME NEW S, IsFiniteSet(S), S # {}, NEW K \in [S -> Int]
  PROVE  \E x \in S : \A y \in S : K[x] <= K[y]
<1> DEFINE N == [x \in S |-> -K[x]]
<1>1. PICK x \in S : \A y \in S : N[y] <= N[x]
  <2> N \in [S -> Int]
    OBVIOUS
  <2> HIDE DEF N
  <2> QED BY LargestExists
<1> QED BY <1>1

LEMMA MaxExists ==
  ASSUME NEW S, IsFiniteSet(S), S \subseteq Int, S # {}
  PROVE  \E x \in S : \A y \in S : y <= x
<1> DEFINE Id == [x \in S |-> x]
<1>1. PICK x \in S : \A y \in S : Id[y] <= Id[x]
  <2> Id \in [S -> Int]
    OBVIOUS
  <2> HIDE DEF Id
  <2> QED BY LargestExists
<1> QED BY <1>1

LEMMA MinExists ==
  ASSUME NEW S, IsFiniteSet(S), S \subseteq Int, S # {}
  PROVE  \E x \in S : \A y \in S : x <= y
<1> DEFINE Id == [x \in S |-> x]
<1>1. PICK x \in S : \A y \in S : Id[x] <= Id[y]
  <2> Id \in [S -> Int]
    OBVIOUS
  <2> HIDE DEF Id
  <2> QED BY SmallestExists
<1> QED BY <1>1

-----------------------------------------------------------------------------
(* What a page is.  Keys are distinct.                                       *)

LEMMA PageIsPrefix ==
  ASSUME NEW S, IsFiniteSet(S), NEW K \in [S -> Int], NEW n \in Nat,
         NEW x \in FirstRows(S, K, n), NEW y \in S, K[y] <= K[x]
  PROVE  y \in FirstRows(S, K, n)
<1>1. IsFiniteSet(RowsBefore(S, K, x))
  BY FS_Subset DEF RowsBefore
<1>2. RowsBefore(S, K, y) \subseteq RowsBefore(S, K, x)
  BY DEF RowsBefore, FirstRows
<1>3. /\ Cardinality(RowsBefore(S, K, y)) <= Cardinality(RowsBefore(S, K, x))
      /\ Cardinality(RowsBefore(S, K, y)) \in Nat /\ Cardinality(RowsBefore(S, K, x)) \in Nat
  BY <1>1, <1>2, FS_Subset, FS_CardinalityType
<1> QED BY <1>3 DEF FirstRows

(* A page is everything there is, or full.                                   *)
LEMMA PageIsFull ==
  ASSUME NEW S, IsFiniteSet(S), NEW K \in [S -> Int], NEW n \in Nat,
         FirstRows(S, K, n) # S
  PROVE  Cardinality(FirstRows(S, K, n)) >= n
<1> DEFINE F == FirstRows(S, K, n)
           Out == S \ F
<1>1. F \subseteq S /\ Out # {}
  BY DEF FirstRows
<1>2. IsFiniteSet(F) /\ IsFiniteSet(Out) /\ Cardinality(F) \in Nat
  BY <1>1, FS_Subset, FS_CardinalityType
<1>3. PICK m \in Out : \A y \in Out : K[m] <= K[y]
  <2> DEFINE L == [x \in Out |-> K[x]]
  <2>1. L \in [Out -> Int]
    OBVIOUS
  <2>2. PICK m \in Out : \A y \in Out : L[m] <= L[y]
    <3> HIDE DEF Out, L
    <3> QED BY <1>1, <1>2, <2>1, SmallestExists
  <2> QED BY <2>2
<1>4. RowsBefore(S, K, m) \subseteq F
  <2> SUFFICES ASSUME NEW y \in S, K[y] < K[m], y \notin F PROVE FALSE
    BY DEF RowsBefore
  <2>1. y \in Out /\ K[m] <= K[y]
    BY <1>3
  <2>2. K[y] \in Int /\ K[m] \in Int
    BY <1>3
  <2> QED BY <2>1, <2>2
<1>5. Cardinality(RowsBefore(S, K, m)) <= Cardinality(F) /\ Cardinality(RowsBefore(S, K, m)) \in Nat
  BY <1>2, <1>4, FS_Subset, FS_CardinalityType
<1>6. ~(Cardinality(RowsBefore(S, K, m)) < n)
  BY <1>3 DEF FirstRows
<1> QED BY <1>2, <1>5, <1>6

LEMMA PageBound ==
  ASSUME NEW S, IsFiniteSet(S), NEW K \in [S -> Int], NEW n \in Nat,
         \A x, y \in S : K[x] = K[y] => x = y
  PROVE  /\ FirstRows(S, K, n) \subseteq S
         /\ IsFiniteSet(FirstRows(S, K, n))
         /\ Cardinality(FirstRows(S, K, n)) \in Nat
         /\ Cardinality(FirstRows(S, K, n)) <= n
<1> DEFINE F == FirstRows(S, K, n)
<1>1. F \subseteq S
  BY DEF FirstRows
<1>2. IsFiniteSet(F) /\ Cardinality(F) \in Nat
  BY <1>1, FS_Subset, FS_CardinalityType
<1>3. CASE F = {}
  <2>1. Cardinality(F) = 0
    <3> HIDE DEF F
    <3> QED BY <1>3, FS_EmptySet
  <2> QED BY <1>1, <1>2, <2>1
<1>4. CASE F # {}
  <2>1. PICK m \in F : \A y \in F : K[y] <= K[m]
    <3> DEFINE L == [x \in F |-> K[x]]
    <3>1. L \in [F -> Int]
      BY <1>1
    <3>2. PICK m \in F : \A y \in F : L[y] <= L[m]
      <4> HIDE DEF F, L
      <4> QED BY <1>2, <1>4, <3>1, LargestExists
    <3> HIDE DEF F
    <3> QED BY <3>2
  <2> DEFINE B == RowsBefore(S, K, m)
  <2>2. Cardinality(B) < n
    BY <2>1 DEF FirstRows
  <2>3. IsFiniteSet(B) /\ Cardinality(B) \in Nat
    BY FS_Subset, FS_CardinalityType DEF RowsBefore
  <2>4. F \subseteq B \cup {m}
    <3> HIDE DEF F
    <3> SUFFICES ASSUME NEW y \in F, y # m PROVE K[y] < K[m] /\ y \in S
      BY DEF RowsBefore
    <3>1. y \in S /\ m \in S /\ K[y] <= K[m] /\ K[y] # K[m]
      BY <1>1, <2>1
    <3>2. K[y] \in Int /\ K[m] \in Int
      BY <3>1
    <3> QED BY <3>1, <3>2
  <2> HIDE DEF B, F
  <2>5. /\ IsFiniteSet(B \cup {m})
        /\ Cardinality(B \cup {m}) = IF m \in B THEN Cardinality(B) ELSE Cardinality(B) + 1
    BY <2>3, FS_AddElement
  <2>6. Cardinality(F) <= Cardinality(B \cup {m})
    BY <2>4, <2>5, FS_Subset
  <2>7. Cardinality(F) <= n
    BY <1>2, <2>2, <2>3, <2>5, <2>6
  <2> QED BY <1>1, <1>2, <2>7 DEF F
<1> QED BY <1>3, <1>4

(* So a short page is everything there is, and a page of nothing means that  *)
(* there is nothing.                                                         *)
LEMMA PageIsWhole ==
  ASSUME NEW S, IsFiniteSet(S), NEW K \in [S -> Int], NEW n \in Nat,
         \A x, y \in S : K[x] = K[y] => x = y
  PROVE  /\ FirstRows(S, K, n) = S \/ Cardinality(FirstRows(S, K, n)) = n
         /\ Cardinality(S) <= n => FirstRows(S, K, n) = S
         /\ Cardinality(S) \in Nat
<1>1. Cardinality(S) \in Nat
  BY FS_CardinalityType
<1>2. FirstRows(S, K, n) = S \/ Cardinality(FirstRows(S, K, n)) = n
  BY PageBound, PageIsFull
<1>3. ASSUME Cardinality(S) <= n, FirstRows(S, K, n) # S PROVE FALSE
  <2>1. Cardinality(FirstRows(S, K, n)) <= Cardinality(S) /\ FirstRows(S, K, n) \subseteq S
    BY PageBound, FS_Subset
  <2>2. Cardinality(FirstRows(S, K, n)) = Cardinality(S)
    BY <1>1, <1>2, <1>3, <2>1
  <2> QED BY <1>3, <2>1, <2>2, FS_Subset
<1> QED BY <1>1, <1>2, <1>3

(* Row i of a set in order, for every i. *)
LEMMA NthRowExists ==
  ASSUME NEW S, IsFiniteSet(S), NEW K \in [S -> Int],
         \A x, y \in S : K[x] = K[y] => x = y,
         NEW i \in 1..Cardinality(S)
  PROVE  \E x \in S : Cardinality(RowsBefore(S, K, x)) = i - 1
<1>1. Cardinality(S) \in Nat /\ i \in Nat /\ i - 1 \in Nat
  BY FS_CardinalityType
<1>2. Cardinality(FirstRows(S, K, i)) = i
  <2>1. CASE FirstRows(S, K, i) = S
    <3>1. Cardinality(FirstRows(S, K, i)) <= i
      BY <1>1, PageBound
    <3> QED BY <1>1, <2>1, <3>1
  <2>2. CASE FirstRows(S, K, i) # S
    BY <1>1, <2>2, PageIsWhole
  <2> QED BY <2>1, <2>2
<1>3. Cardinality(FirstRows(S, K, i - 1)) <= i - 1 /\ IsFiniteSet(FirstRows(S, K, i - 1))
      /\ Cardinality(FirstRows(S, K, i - 1)) \in Nat
  BY <1>1, PageBound
<1>4. ~(FirstRows(S, K, i) \subseteq FirstRows(S, K, i - 1))
  <2> SUFFICES ASSUME FirstRows(S, K, i) \subseteq FirstRows(S, K, i - 1) PROVE FALSE
    OBVIOUS
  <2>1. Cardinality(FirstRows(S, K, i)) <= Cardinality(FirstRows(S, K, i - 1))
    BY <1>3, FS_Subset
  <2> QED BY <1>1, <1>2, <1>3, <2>1
<1>5. PICK x \in S : /\ Cardinality(RowsBefore(S, K, x)) < i
                     /\ ~(Cardinality(RowsBefore(S, K, x)) < i - 1)
  BY <1>4 DEF FirstRows
<1>6. Cardinality(RowsBefore(S, K, x)) \in Nat
  BY FS_Subset, FS_CardinalityType DEF RowsBefore
<1> QED BY <1>1, <1>5, <1>6

(* The number of rows before a row orders the rows as their keys do. *)
LEMMA PlacesOrder ==
  ASSUME NEW S, IsFiniteSet(S), NEW K \in [S -> Int], NEW x \in S, NEW y \in S
  PROVE  /\ Cardinality(RowsBefore(S, K, x)) \in Nat
         /\ K[x] < K[y] <=> Cardinality(RowsBefore(S, K, x)) < Cardinality(RowsBefore(S, K, y))
<1>1. ASSUME NEW z \in S
      PROVE  IsFiniteSet(RowsBefore(S, K, z)) /\ Cardinality(RowsBefore(S, K, z)) \in Nat
  BY FS_Subset, FS_CardinalityType DEF RowsBefore
<1>2. ASSUME NEW a \in S, NEW b \in S, K[a] <= K[b]
      PROVE  Cardinality(RowsBefore(S, K, a)) <= Cardinality(RowsBefore(S, K, b))
  <2>1. RowsBefore(S, K, a) \subseteq RowsBefore(S, K, b)
    BY <1>2 DEF RowsBefore
  <2> QED BY <1>1, <2>1, FS_Subset
<1>3. ASSUME K[x] < K[y]
      PROVE  Cardinality(RowsBefore(S, K, x)) # Cardinality(RowsBefore(S, K, y))
  <2>1. /\ RowsBefore(S, K, x) \subseteq RowsBefore(S, K, y)
        /\ x \in RowsBefore(S, K, y) /\ x \notin RowsBefore(S, K, x)
    BY <1>3 DEF RowsBefore
  <2> QED BY <1>1, <2>1, FS_Subset
<1>4. K[x] \in Int /\ K[y] \in Int
  OBVIOUS
<1>5. CASE K[x] < K[y]
  BY <1>1, <1>2, <1>3, <1>4, <1>5
<1>6. CASE K[y] <= K[x]
  BY <1>1, <1>2, <1>4, <1>6
<1> QED BY <1>1, <1>4, <1>5, <1>6

-----------------------------------------------------------------------------
(* Pages of a set of integers in their own order.                            *)

Lowest(S, n) == {x \in S : Cardinality({y \in S : y < x}) < n}

Self(S) == [x \in S |-> x]

LEMMA LowestIsPage ==
  ASSUME NEW S, S \subseteq Int, NEW n \in Nat
  PROVE  /\ Lowest(S, n) = FirstRows(S, Self(S), n)
         /\ Self(S) \in [S -> Int]
         /\ \A x, y \in S : Self(S)[x] = Self(S)[y] => x = y
<1>1. \A x \in S : Self(S)[x] = x
  BY DEF Self
<1>2. Self(S) \in [S -> Int]
  BY DEF Self
<1>3. \A x \in S : RowsBefore(S, Self(S), x) = {y \in S : y < x}
  BY <1>1 DEF RowsBefore
<1>4. Lowest(S, n) = FirstRows(S, Self(S), n)
  BY <1>3 DEF Lowest, FirstRows
<1> QED BY <1>1, <1>2, <1>4

LEMMA LowestBound ==
  ASSUME NEW S, IsFiniteSet(S), S \subseteq Int, NEW n \in Nat
  PROVE  /\ Lowest(S, n) \subseteq S
         /\ IsFiniteSet(Lowest(S, n))
         /\ Cardinality(Lowest(S, n)) \in Nat
         /\ Cardinality(Lowest(S, n)) <= n
<1> DEFINE K == Self(S)
<1>1. K \in [S -> Int] /\ (\A x, y \in S : K[x] = K[y] => x = y) /\ Lowest(S, n) = FirstRows(S, K, n)
  BY LowestIsPage
<1> HIDE DEF K
<1>2. /\ FirstRows(S, K, n) \subseteq S
      /\ IsFiniteSet(FirstRows(S, K, n))
      /\ Cardinality(FirstRows(S, K, n)) \in Nat
      /\ Cardinality(FirstRows(S, K, n)) <= n
  BY <1>1, PageBound
<1> QED BY <1>1, <1>2

(* A page skips no row below one it returns. *)
LEMMA LowestPrefix ==
  ASSUME NEW S, IsFiniteSet(S), S \subseteq Int, NEW n \in Nat,
         NEW x \in Lowest(S, n), NEW y \in S, y <= x
  PROVE  y \in Lowest(S, n)
<1> DEFINE K == Self(S)
<1>1. x \in S
  BY DEF Lowest
<1>2. K \in [S -> Int] /\ Lowest(S, n) = FirstRows(S, K, n) /\ K[y] <= K[x]
  BY <1>1, LowestIsPage DEF Self
<1> HIDE DEF K
<1>3. y \in FirstRows(S, K, n)
  BY <1>2, PageIsPrefix
<1> QED BY <1>2, <1>3

(* A page that is not all there is is full. *)
LEMMA LowestIsFull ==
  ASSUME NEW S, IsFiniteSet(S), S \subseteq Int, NEW n \in Nat, Lowest(S, n) # S
  PROVE  Cardinality(Lowest(S, n)) = n
<1> DEFINE K == Self(S)
<1>1. K \in [S -> Int] /\ Lowest(S, n) = FirstRows(S, K, n)
  BY LowestIsPage
<1> HIDE DEF K
<1>2. Cardinality(FirstRows(S, K, n)) >= n
  BY <1>1, PageIsFull
<1>3. Cardinality(Lowest(S, n)) \in Nat /\ Cardinality(Lowest(S, n)) <= n
  BY LowestBound
<1> QED BY <1>1, <1>2, <1>3

(* It is empty only when there is nothing. *)
LEMMA LowestEmpty ==
  ASSUME NEW S, IsFiniteSet(S), S \subseteq Int, NEW n \in Nat \ {0}, Lowest(S, n) = {}
  PROVE  S = {}
<1> SUFFICES ASSUME S # {} PROVE FALSE
  OBVIOUS
<1>1. Cardinality(Lowest(S, n)) = n
  BY LowestIsFull
<1> QED BY <1>1, FS_EmptySet

(* A row's place tells it from the others and orders them. *)
Rank(S, x) == Cardinality({y \in S : y < x})

LEMMA RankOrders ==
  ASSUME NEW S, IsFiniteSet(S), S \subseteq Int, NEW x \in S, NEW y \in S
  PROVE  /\ Rank(S, x) \in Nat
         /\ x < y => Rank(S, x) < Rank(S, y)
         /\ Rank(S, x) = Rank(S, y) => x = y
<1>1. ASSUME NEW a \in S PROVE IsFiniteSet({z \in S : z < a}) /\ Rank(S, a) \in Nat
  BY FS_Subset, FS_CardinalityType DEF Rank
<1>2. ASSUME NEW a \in S, NEW b \in S, a < b PROVE Rank(S, a) < Rank(S, b)
  <2> DEFINE A == {z \in S : z < a}
             B == {z \in S : z < b}
  <2>1. a \in Int /\ b \in Int
    OBVIOUS
  <2>2. A \subseteq B /\ a \in B /\ a \notin A
    <3>1. \A z \in S : z < a => z < b
      BY <1>2, <2>1
    <3>2. ~(a < a)
      BY <2>1
    <3> QED BY <1>2, <3>1, <3>2
  <2>3. IsFiniteSet(B) /\ IsFiniteSet(A) /\ Cardinality(A) \in Nat /\ Cardinality(B) \in Nat
    BY <1>1 DEF Rank
  <2>4. Rank(S, a) = Cardinality(A) /\ Rank(S, b) = Cardinality(B)
    BY DEF Rank
  <2> HIDE DEF A, B
  <2>5. Cardinality(A) <= Cardinality(B) /\ Cardinality(A) # Cardinality(B)
    BY <2>2, <2>3, FS_Subset
  <2> QED BY <2>3, <2>4, <2>5
<1>3. Rank(S, x) \in Nat /\ Rank(S, y) \in Nat
  BY <1>1
<1>4. x < y => Rank(S, x) < Rank(S, y)
  BY <1>2
<1>5. y < x => Rank(S, y) < Rank(S, x)
  BY <1>2
<1>6. x < y \/ x = y \/ y < x
  OBVIOUS
<1> QED BY <1>3, <1>4, <1>5, <1>6

LEMMA NthExists ==
  ASSUME NEW S, IsFiniteSet(S), S \subseteq Int, NEW i \in 1..Cardinality(S)
  PROVE  \E x \in S : Rank(S, x) = i - 1
<1>1. Cardinality(S) \in Nat /\ i \in Nat /\ i - 1 \in Nat
  BY FS_CardinalityType
<1>2. Cardinality(Lowest(S, i)) = i
  <2>1. CASE Lowest(S, i) = S
    <3>1. Cardinality(Lowest(S, i)) <= i
      BY <1>1, LowestBound
    <3> QED BY <1>1, <2>1, <3>1
  <2>2. CASE Lowest(S, i) # S
    BY <1>1, <2>2, LowestIsFull
  <2> QED BY <2>1, <2>2
<1>3. Cardinality(Lowest(S, i - 1)) <= i - 1 /\ IsFiniteSet(Lowest(S, i - 1))
      /\ Cardinality(Lowest(S, i - 1)) \in Nat
  BY <1>1, LowestBound
<1>4. ~(Lowest(S, i) \subseteq Lowest(S, i - 1))
  <2> SUFFICES ASSUME Lowest(S, i) \subseteq Lowest(S, i - 1) PROVE FALSE
    OBVIOUS
  <2>1. Cardinality(Lowest(S, i)) <= Cardinality(Lowest(S, i - 1))
    BY <1>3, FS_Subset
  <2> QED BY <1>1, <1>2, <1>3, <2>1
<1>5. PICK x \in S : Rank(S, x) < i /\ ~(Rank(S, x) < i - 1)
  BY <1>4 DEF Lowest, Rank
<1>6. Rank(S, x) \in Nat
  BY RankOrders
<1> QED BY <1>1, <1>5, <1>6
=============================================================================
