---------------------------- MODULE SharedLemmas ----------------------------
(***************************************************************************)
(* Facts about numbers and finite sets that several proofs need: least     *)
(* elements, division with remainder, how many pairs of a set have a given *)
(* first component, the elements of a finite order one after the other,    *)
(* sums of functions, and the values a fold passes through.  Op is the     *)
(* step of a fold: a proof about a fold instantiates this module with its  *)
(* step, the others extend it.                                             *)
(***************************************************************************)
EXTENDS Integers, FiniteSets, FiniteSetTheorems, WellFoundedInduction, SequencesExt,
        SequenceTheorems, TLAPS

CONSTANT Op(_, _)

\* Every nonempty set of natural numbers has a least element.
LEMMA MinExists ==
  ASSUME NEW S \in SUBSET Nat, S # {}
  PROVE  \E x \in S : \A y \in S : x <= y
<1> DEFINE R == OpToRel(<, Nat)
<1>1. IsWellFoundedOn(R, Nat)
  BY NatLessThanWellFounded
<1>2. \A x, y \in Nat : y < x => <<y, x>> \in R
  BY DEF OpToRel
<1> HIDE DEF R
<1>3. PICK x \in S : \A y \in S : ~(<<y, x>> \in R)
  BY <1>1, WFMin
<1>4. \A y \in S : ~(y < x)
  BY <1>2, <1>3
<1>5. S \subseteq Nat /\ x \in Nat
  OBVIOUS
<1>6. \A y \in S : y \in Nat /\ x <= y
  BY <1>4, <1>5
<1> QED
  BY <1>6

\* Division with remainder.
LEMMA DivMod ==
  ASSUME NEW d \in Nat \ {0}, NEW n \in Nat
  PROVE  /\ n \div d \in Nat
         /\ n % d \in 0 .. d - 1
         /\ n = d * (n \div d) + (n % d)
  OBVIOUS

\* A larger multiple of d is larger by at least d.
LEMMA MulMono ==
  ASSUME NEW d \in Nat \ {0}, NEW a \in Int, NEW b \in Int, a < b
  PROVE  d * a + d <= d * b
<1>1. d * (a + 1) <= d * b
  OBVIOUS
<1> QED
  BY <1>1

\* The quotient and the remainder are unique.
LEMMA DivUnique ==
  ASSUME NEW d \in Nat \ {0}, NEW n \in Nat, NEW q \in Nat,
         NEW r \in 0 .. d - 1, n = d * q + r
  PROVE  q = n \div d /\ r = n % d
<1> DEFINE Q == n \div d
<1>1. Q \in Nat /\ n % d \in 0 .. d - 1 /\ n = d * Q + (n % d)
  BY DivMod
<1> HIDE DEF Q
<1>2. ~(Q < q)
  BY <1>1, MulMono
<1>3. ~(q < Q)
  BY <1>1, MulMono
<1>4. q = Q
  BY <1>1, <1>2, <1>3
<1> QED
  BY <1>1, <1>4 DEF Q

\* How many blocks of d hold n slots: k blocks are needed exactly when k - 1
\* blocks do not suffice.
LEMMA CeilingLaw ==
  ASSUME NEW d \in Nat \ {0}, NEW n \in Nat
  PROVE  /\ (n + d - 1) \div d \in Nat
         /\ \A k \in Nat \ {0} :
              k <= (n + d - 1) \div d <=> (k - 1) * d < n
<1> DEFINE Q == (n + d - 1) \div d
           R == (n + d - 1) % d
<1>0. n + d - 1 \in Nat
  OBVIOUS
<1>1. Q \in Nat /\ R \in 0 .. d - 1 /\ n + d - 1 = d * Q + R
  BY <1>0, DivMod
<1> HIDE DEF Q, R
<1>2. ASSUME NEW k \in Nat \ {0}
      PROVE  k <= Q <=> (k - 1) * d < n
  <2>1. (k - 1) * d = d * k - d /\ d * k \in Int /\ d * Q \in Int
    BY <1>1
  <2>2. ASSUME k <= Q PROVE d * k <= d * Q
    <3>1. k < Q => d * k + d <= d * Q
      BY <1>1, MulMono
    <3> QED
      BY <1>1, <3>1, <2>1, <2>2
  <2>3. ASSUME Q < k PROVE d * Q + d <= d * k
    BY <1>1, <2>3, MulMono
  <2> QED
    BY <1>1, <2>1, <2>2, <2>3
<1> QED
  BY <1>1, <1>2 DEF Q

\* A finite set S and one pair <<x, y>> for each y in it.
LEMMA FibreCardinality ==
  ASSUME NEW x, NEW S, IsFiniteSet(S)
  PROVE  /\ IsFiniteSet({x} \X S)
         /\ Cardinality({x} \X S) = Cardinality(S)
<1>1. IsFiniteSet({x}) /\ Cardinality({x}) = 1
  BY FS_Singleton
<1>2. Cardinality(S) \in Nat
  BY FS_CardinalityType
<1> QED
  BY <1>1, <1>2, FS_Product

\* The union of two disjoint finite sets.
LEMMA DisjointCardinality ==
  ASSUME NEW S, NEW T, IsFiniteSet(S), IsFiniteSet(T), S \cap T = {}
  PROVE  /\ IsFiniteSet(S \cup T)
         /\ Cardinality(S \cup T) = Cardinality(S) + Cardinality(T)
         /\ Cardinality(S) \in Nat
         /\ Cardinality(T) \in Nat
BY FS_Union, FS_EmptySet, FS_CardinalityType

-----------------------------------------------------------------------------
(* Induction over numbers, said of a set of numbers: the library's         *)
(* induction theorems speak of an operator, which no prover instantiates.  *)

\* A set of numbers with 0 in it, and n + 1 wherever n is, is all of them.
LEMMA NatSetInduction ==
  ASSUME NEW S \in SUBSET Nat, 0 \in S, \A n \in S : n + 1 \in S
  PROVE  S = Nat
<1> SUFFICES ASSUME Nat \ S # {} PROVE FALSE
  OBVIOUS
<1>1. PICK x \in Nat \ S : \A y \in Nat \ S : x <= y
  <2>1. Nat \ S \in SUBSET Nat
    OBVIOUS
  <2> QED
    BY <2>1, MinExists
<1>2. x # 0 /\ x - 1 \in Nat /\ ~(x <= x - 1) /\ x - 1 + 1 = x
  BY <1>1
<1>3. x - 1 \in S
  BY <1>1, <1>2
<1> QED
  BY <1>1, <1>2, <1>3

\* The same for a finite range of numbers.
LEMMA IntervalInduction ==
  ASSUME NEW n \in Nat, NEW S, 0 \in S, \A i \in 0 .. n - 1 : i \in S => i + 1 \in S
  PROVE  0 .. n \subseteq S
<1> DEFINE T == {i \in Nat : i <= n => i \in S}
<1>1. T \in SUBSET Nat /\ 0 \in T
  OBVIOUS
<1>2. \A i \in T : i + 1 \in T
  <2> SUFFICES ASSUME NEW i \in Nat, i + 1 <= n, i <= n => i \in S PROVE i + 1 \in S
    OBVIOUS
  <2> QED
    OBVIOUS
<1> HIDE DEF T
<1>3. T = Nat
  BY <1>1, <1>2, NatSetInduction
<1> QED
  BY <1>3 DEF T

-----------------------------------------------------------------------------
(* Finite strict orders.                                                   *)

StrictOrder(R, S) ==
  /\ \A x \in S : <<x, x>> \notin R
  /\ \A x, y \in S : x # y => (<<x, y>> \in R \/ <<y, x>> \in R)
  /\ \A x, y, z \in S : <<x, y>> \in R /\ <<y, z>> \in R => <<x, z>> \in R

Below(R, S, x) == {y \in S : <<y, x>> \in R}

\* In a finite strict order the number of the elements below x tells x apart,
\* grows with x, and is any number less than that of all elements.
LEMMA RankBijection ==
  ASSUME NEW S, IsFiniteSet(S), NEW R, StrictOrder(R, S),
         NEW rank, rank = [x \in S |-> Cardinality(Below(R, S, x))]
  PROVE  /\ Cardinality(S) \in Nat
         /\ \A x \in S : rank[x] \in 0 .. Cardinality(S) - 1
         /\ \A x, y \in S : <<x, y>> \in R <=> rank[x] < rank[y]
         /\ \A x, y \in S : rank[x] = rank[y] => x = y
         /\ \A n \in 0 .. Cardinality(S) - 1 : \E x \in S : rank[x] = n
<1>1. \A x \in S : /\ IsFiniteSet(Below(R, S, x))
                  /\ rank[x] = Cardinality(Below(R, S, x))
                  /\ rank[x] \in Nat
  <2> SUFFICES ASSUME NEW x \in S
               PROVE  IsFiniteSet(Below(R, S, x)) /\ Cardinality(Below(R, S, x)) \in Nat
    OBVIOUS
  <2>1. Below(R, S, x) \in SUBSET S
    BY DEF Below
  <2> QED
    BY <2>1, FS_Subset, FS_CardinalityType
<1>2. Cardinality(S) \in Nat
  BY FS_CardinalityType
<1>3. ASSUME NEW x \in S, NEW y \in S, <<x, y>> \in R PROVE rank[x] < rank[y]
  <2>1. Below(R, S, x) \cup {x} \in SUBSET Below(R, S, y) /\ x \notin Below(R, S, x)
    BY <1>3 DEF Below, StrictOrder
  <2>2. /\ IsFiniteSet(Below(R, S, x) \cup {x})
        /\ Cardinality(Below(R, S, x) \cup {x}) = Cardinality(Below(R, S, x)) + 1
    BY <1>1, <2>1, FS_AddElement
  <2>3. Cardinality(Below(R, S, x) \cup {x}) <= Cardinality(Below(R, S, y))
    BY <1>1, <2>1, FS_Subset
  <2> QED
    BY <1>1, <2>2, <2>3
<1>4. \A x, y \in S : rank[x] = rank[y] => x = y
  <2> SUFFICES ASSUME NEW x \in S, NEW y \in S, rank[x] = rank[y], x # y PROVE FALSE
    OBVIOUS
  <2>1. rank[x] < rank[y] \/ rank[y] < rank[x]
    BY <1>3 DEF StrictOrder
  <2>2. rank[x] \in Nat /\ rank[y] \in Nat
    BY <1>1
  <2> QED
    BY <2>1, <2>2
<1>5. \A x, y \in S : rank[x] < rank[y] => <<x, y>> \in R
  <2> SUFFICES ASSUME NEW x \in S, NEW y \in S, rank[x] < rank[y], <<x, y>> \notin R
               PROVE  FALSE
    OBVIOUS
  <2>1. rank[x] \in Nat /\ rank[y] \in Nat
    BY <1>1
  <2>2. x = y \/ <<y, x>> \in R
    BY DEF StrictOrder
  <2>3. x = y \/ rank[y] < rank[x]
    BY <1>3, <2>2
  <2> QED
    BY <2>1, <2>3
<1>6. \A x \in S : rank[x] \in 0 .. Cardinality(S) - 1
  <2> SUFFICES ASSUME NEW x \in S PROVE rank[x] < Cardinality(S)
    BY <1>1, <1>2
  <2>1. Below(R, S, x) \in SUBSET S /\ x \notin Below(R, S, x)
    BY DEF Below, StrictOrder
  <2>2. /\ Cardinality(Below(R, S, x)) <= Cardinality(S)
        /\ Cardinality(S) # Cardinality(Below(R, S, x))
    BY <2>1, FS_Subset
  <2> QED
    BY <1>1, <1>2, <2>2
<1>7. \A n \in 0 .. Cardinality(S) - 1 : \E x \in S : rank[x] = n
  <2> DEFINE N == Cardinality(S)
             T == 0 .. N - 1
  <2>1. IsFiniteSet(T) /\ Cardinality(T) = N
    <3>1. 0 \in Int /\ N - 1 \in Int /\ N \in Nat
      BY <1>2
    <3> HIDE DEF N
    <3> QED
      BY <3>1, FS_Interval
  <2>2. rank \in Injection(S, T)
    <3>1. rank \in [S -> T]
      <4>1. \A x \in S : rank[x] \in T
        BY <1>6
      <4>2. rank = [x \in S |-> rank[x]]
        OBVIOUS
      <4> HIDE DEF T
      <4> QED
        BY <4>1, <4>2
    <3> HIDE DEF T
    <3> QED
      BY <1>4, <3>1 DEF Injection, IsInjective
  <2>3. rank \in Surjection(S, T)
    <3> HIDE DEF T
    <3>1. Cardinality(S) = Cardinality(T)
      BY <2>1
    <3> QED
      BY <2>1, <2>2, <3>1, FS_Injection
  <2> QED
    BY <2>3 DEF Surjection
<1> QED
  BY <1>2, <1>3, <1>4, <1>5, <1>6, <1>7

\* p lists the elements of S in the order of R.
Ordered(p, R, S) ==
  /\ Cardinality(S) \in Nat
  /\ \A n \in 1 .. Cardinality(S) :
       p[n] \in S /\ p[n] = CHOOSE x \in S : Cardinality(Below(R, S, x)) = n - 1
  /\ \A x \in S : \E n \in 1 .. Cardinality(S) : p[n] = x
  /\ \A m, n \in 1 .. Cardinality(S) : m < n => <<p[m], p[n]>> \in R

LEMMA InOrder ==
  ASSUME NEW S, IsFiniteSet(S), NEW R, StrictOrder(R, S)
  PROVE  \E p : Ordered(p, R, S)
<1> DEFINE M == Cardinality(S)
           rank == [x \in S |-> Cardinality(Below(R, S, x))]
           p == [n \in 1 .. M |-> CHOOSE x \in S : Cardinality(Below(R, S, x)) = n - 1]
<1>1. /\ Cardinality(S) \in Nat
      /\ \A x \in S : rank[x] \in 0 .. Cardinality(S) - 1
      /\ \A x, y \in S : <<x, y>> \in R <=> rank[x] < rank[y]
      /\ \A x, y \in S : rank[x] = rank[y] => x = y
      /\ \A n \in 0 .. Cardinality(S) - 1 : \E x \in S : rank[x] = n
  <2>1. rank = [x \in S |-> Cardinality(Below(R, S, x))]
    OBVIOUS
  <2> HIDE DEF rank
  <2> QED
    BY <2>1, RankBijection
<1>2. \A x \in S : rank[x] = Cardinality(Below(R, S, x))
  OBVIOUS
<1> HIDE DEF rank
<1>3. \A n \in 1 .. M : p[n] = CHOOSE x \in S : Cardinality(Below(R, S, x)) = n - 1
  OBVIOUS
<1> HIDE DEF p, M
<1>4. /\ M \in Nat /\ \A x \in S : rank[x] \in 0 .. M - 1
      /\ \A n \in 0 .. M - 1 : \E x \in S : rank[x] = n
  BY <1>1 DEF M
<1>5. \A n \in 1 .. M : p[n] \in S /\ rank[p[n]] = n - 1
  <2> TAKE n \in 1 .. M
  <2>1. n - 1 \in 0 .. M - 1
    BY <1>4
  <2>2. \E x \in S : Cardinality(Below(R, S, x)) = n - 1
    BY <1>2, <1>4, <2>1
  <2>3. p[n] \in S /\ Cardinality(Below(R, S, p[n])) = n - 1
    BY <1>3, <2>2, Zenon
  <2> QED
    BY <1>2, <2>3
<1>6. \A x \in S : \E n \in 1 .. M : p[n] = x
  <2> TAKE x \in S
  <2>1. \A r \in 0 .. M - 1 : \E n \in 1 .. M : n - 1 = r
    <3> TAKE r \in 0 .. M - 1
    <3>1. r + 1 \in 1 .. M
      BY <1>4
    <3> WITNESS r + 1 \in 1 .. M
    <3> QED
      OBVIOUS
  <2>2. PICK n \in 1 .. M : n - 1 = rank[x]
    BY <1>4, <2>1
  <2>3. p[n] \in S /\ rank[p[n]] = rank[x]
    BY <1>5, <2>2
  <2> QED
    BY <1>1, <2>3
<1>7. \A m, n \in 1 .. M : m < n => <<p[m], p[n]>> \in R
  <2> TAKE m, n \in 1 .. M
  <2> HAVE m < n
  <2>1. p[m] \in S /\ p[n] \in S /\ rank[p[m]] = m - 1 /\ rank[p[n]] = n - 1
    BY <1>5
  <2>2. m - 1 < n - 1
    BY <1>4
  <2> QED
    BY <1>1, <2>1, <2>2
<1>8. Ordered(p, R, S)
  BY <1>3, <1>4, <1>5, <1>6, <1>7 DEF Ordered, M
<1> QED
  BY <1>8

IsRank(rank, R, S) == rank = [x \in S |-> Cardinality(Below(R, S, x))]

ListedBy(q, rank, S) ==
  /\ q = [i \in 1 .. Cardinality(S) |-> q[i]]
  /\ \A i \in 1 .. Cardinality(S) :
       (\E x \in S : rank[x] = i - 1) => q[i] \in S /\ rank[q[i]] = i - 1

Lists(q, S, R) ==
  /\ q \in Seq(S) /\ {q[i] : i \in DOMAIN q} = S
  /\ \A i, j \in DOMAIN q : i < j => <<q[i], q[j]>> \in R

\* A listing by rank has every element once, in order.
LEMMA RankedListing ==
  ASSUME NEW S, IsFiniteSet(S), NEW R, StrictOrder(R, S),
         NEW rank, IsRank(rank, R, S), NEW q, ListedBy(q, rank, S)
  PROVE  Lists(q, S, R)
<1> DEFINE N == Cardinality(S)
<1>1. /\ N \in Nat
      /\ \A x \in S : rank[x] \in 0 .. N - 1
      /\ \A x, y \in S : <<x, y>> \in R <=> rank[x] < rank[y]
      /\ \A x, y \in S : rank[x] = rank[y] => x = y
      /\ \A n \in 0 .. N - 1 : \E x \in S : rank[x] = n
  BY RankBijection DEF IsRank
<1> HIDE DEF N
<1>2. q = [i \in 1 .. N |-> q[i]]
  BY DEF N, ListedBy
<1>3. DOMAIN q = 1 .. N
  BY <1>2
<1>4. \A i \in 1 .. N : q[i] \in S /\ rank[q[i]] = i - 1
  <2> TAKE i \in 1 .. N
  <2>1. i - 1 \in 0 .. N - 1
    BY <1>1
  <2>2. \E x \in S : rank[x] = i - 1
    BY <1>1, <2>1
  <2> QED
    BY <2>2 DEF N, ListedBy
<1>5. q \in Seq(S)
  <2>1. q \in [1 .. N -> S]
    BY <1>2, <1>4
  <2> QED
    BY <1>1, <2>1, SeqDef
<1>6. \A x \in S : \E i \in DOMAIN q : q[i] = x
  <2> TAKE x \in S
  <2>1. rank[x] \in 0 .. N - 1 /\ rank[x] + 1 \in 1 .. N
    BY <1>1
  <2>2. q[rank[x] + 1] \in S /\ rank[q[rank[x] + 1]] = rank[x]
    <3>1. (rank[x] + 1) - 1 = rank[x]
      BY <2>1
    <3> QED
      BY <1>4, <2>1, <3>1
  <2>3. q[rank[x] + 1] = x
    BY <1>1, <2>2
  <2> QED
    BY <1>3, <2>1, <2>3
<1>7. {q[i] : i \in DOMAIN q} = S
  BY <1>3, <1>4, <1>6
<1>8. \A i, j \in DOMAIN q : i < j => <<q[i], q[j]>> \in R
  <2> TAKE i, j \in DOMAIN q
  <2>1. rank[q[i]] = i - 1 /\ rank[q[j]] = j - 1 /\ q[i] \in S /\ q[j] \in S
    BY <1>3, <1>4
  <2>2. i < j => rank[q[i]] < rank[q[j]]
    BY <1>3, <1>1, <2>1
  <2> QED
    BY <1>1, <2>1, <2>2
<1> QED
  BY <1>5, <1>7, <1>8 DEF Lists

\* A finite set of integers listed by how many of them are smaller is in order.
SmallerIn(S) == [x \in S |-> Cardinality({y \in S : y < x})]
ByRank(rank, S) == [i \in 1 .. Cardinality(S) |-> CHOOSE x \in S : rank[x] = i - 1]

LEMMA AscendingOrder ==
  ASSUME NEW S \in SUBSET Int, IsFiniteSet(S),
         NEW rank, rank = SmallerIn(S), NEW q, q = ByRank(rank, S)
  PROVE  /\ q \in Seq(S) /\ {q[i] : i \in DOMAIN q} = S
         /\ \A i, j \in DOMAIN q : i < j => q[i] < q[j]
<1> DEFINE R == {p \in S \X S : p[1] < p[2]}
<1>1. \A x, y \in S : <<x, y>> \in R <=> x < y
  OBVIOUS
<1> HIDE DEF R
<1>2. \A x \in S : Below(R, S, x) = {y \in S : y < x}
  BY <1>1 DEF Below
<1>3. StrictOrder(R, S)
  <2>1. \A x \in S : x \in Int
    OBVIOUS
  <2> QED
    BY <1>1, <2>1 DEF StrictOrder
<1>4. IsRank(rank, R, S)
  BY <1>2 DEF IsRank, SmallerIn
<1>5. ListedBy(q, rank, S)
  <2> DEFINE at(i) == CHOOSE x \in S : rank[x] = i - 1
  <2>1. \A i : (\E x \in S : rank[x] = i - 1) => at(i) \in S /\ rank[at(i)] = i - 1
    BY Zenon
  <2>2. q = [i \in 1 .. Cardinality(S) |-> at(i)]
    BY DEF ByRank
  <2> HIDE DEF at
  <2> QED
    BY <2>1, <2>2 DEF ListedBy
<1>6. Lists(q, S, R)
  BY <1>3, <1>4, <1>5, RankedListing
<1>7. \A i \in DOMAIN q : q[i] \in S
  BY <1>6 DEF Lists
<1> QED
  BY <1>1, <1>6, <1>7 DEF Lists

\* A nonempty finite strict order has a first element.
LEMMA FirstExists ==
  ASSUME NEW S, IsFiniteSet(S), S # {}, NEW R, StrictOrder(R, S)
  PROVE  \E x \in S : \A y \in S \ {x} : <<x, y>> \in R
<1> DEFINE rank == [x \in S |-> Cardinality(Below(R, S, x))]
<1>1. /\ Cardinality(S) \in Nat
      /\ \A x \in S : rank[x] \in 0 .. Cardinality(S) - 1
      /\ \A x, y \in S : <<x, y>> \in R <=> rank[x] < rank[y]
      /\ \A x, y \in S : rank[x] = rank[y] => x = y
      /\ \A n \in 0 .. Cardinality(S) - 1 : \E x \in S : rank[x] = n
  <2>1. rank = [x \in S |-> Cardinality(Below(R, S, x))]
    OBVIOUS
  <2> HIDE DEF rank
  <2> QED
    BY <2>1, RankBijection
<1> HIDE DEF rank
<1>2. 0 \in 0 .. Cardinality(S) - 1
  BY <1>1
<1>3. PICK x \in S : rank[x] = 0
  BY <1>1, <1>2
<1>4. \A y \in S \ {x} : rank[x] < rank[y]
  BY <1>1, <1>3
<1> QED
  BY <1>1, <1>4

\* A nonempty finite set of integers has a greatest element.
LEMMA MaxExists ==
  ASSUME NEW S \in SUBSET Int, IsFiniteSet(S), S # {}
  PROVE  \E x \in S : \A y \in S : x >= y
<1> DEFINE R == {p \in S \X S : p[1] > p[2]}
<1>1. \A x, y \in S : <<x, y>> \in R <=> x > y
  OBVIOUS
<1> HIDE DEF R
<1>2. StrictOrder(R, S)
  <2>1. \A x \in S : x \in Int
    OBVIOUS
  <2> QED
    BY <1>1, <2>1 DEF StrictOrder
<1>3. PICK x \in S : \A y \in S \ {x} : <<x, y>> \in R
  BY <1>2, FirstExists
<1>4. \A y \in S : x >= y
  <2> TAKE y \in S
  <2>1. x \in Int /\ y \in Int
    OBVIOUS
  <2>2. CASE y = x
    BY <2>1, <2>2
  <2>3. CASE y # x
    <3>1. x > y
      BY <1>1, <1>3, <2>3, Zenon
    <3> QED
      BY <2>1, <3>1
  <2> QED
    BY <2>2, <2>3
<1> QED
  BY <1>4

-----------------------------------------------------------------------------
(* Sums.                                                                   *)

Pick(s) == CHOOSE x \in s : TRUE

\* The recursive function behind SumFunctionOnSet.
Sums(g, f, S) ==
  g = [s \in SUBSET S |-> IF s = {} THEN 0 ELSE f[Pick(s)] + g[s \ {Pick(s)}]]

\* g is that function, up to sets of k elements.
SumsTo(g, f, S, k) ==
  \A s \in SUBSET S : Cardinality(s) <= k =>
    g[s] = IF s = {} THEN 0 ELSE f[Pick(s)] + g[s \ {Pick(s)}]

\* Finite sets lose one element at a time.
LEMMA Smaller ==
  ASSUME NEW S, IsFiniteSet(S), NEW s \in SUBSET S
  PROVE  /\ Cardinality(s) \in Nat /\ (Cardinality(s) = 0 <=> s = {})
         /\ \A x \in s : Cardinality(s \ {x}) = Cardinality(s) - 1
         /\ s # {} => Pick(s) \in s
<1>1. IsFiniteSet(s)
  BY FS_Subset
<1> QED
  BY <1>1, FS_CardinalityType, FS_EmptySet, FS_RemoveElement DEF Pick

LEMMA SumsExist ==
  ASSUME NEW f, NEW S, IsFiniteSet(S)
  PROVE  \E g : Sums(g, f, S)
<1> DEFINE Good == {k \in Nat : \E g : SumsTo(g, f, S, k)}
           N == Cardinality(S)
<1>1. 0 \in Good
  <2> DEFINE g == [s \in SUBSET S |-> 0]
  <2>1. SumsTo(g, f, S, 0)
    BY Smaller DEF SumsTo
  <2> QED
    BY <2>1
<1>2. ASSUME NEW k \in Good PROVE k + 1 \in Good
  <2>1. k \in Nat /\ \E g : SumsTo(g, f, S, k)
    OBVIOUS
  <2>2. PICK g : SumsTo(g, f, S, k)
    BY <2>1
  <2> DEFINE h == [s \in SUBSET S |-> IF s = {} THEN 0 ELSE f[Pick(s)] + g[s \ {Pick(s)}]]
  <2>3. \A s \in SUBSET S : Cardinality(s) <= k => h[s] = g[s]
    BY <2>2 DEF SumsTo
  <2>4. \A s \in SUBSET S : s # {} /\ Cardinality(s) <= k + 1 =>
          s \ {Pick(s)} \in SUBSET S /\ Cardinality(s \ {Pick(s)}) <= k
    <3> SUFFICES ASSUME NEW s \in SUBSET S, s # {}, Cardinality(s) <= k + 1
                 PROVE  Cardinality(s \ {Pick(s)}) <= k
      OBVIOUS
    <3>1. Cardinality(s) \in Nat /\ Cardinality(s \ {Pick(s)}) = Cardinality(s) - 1
      BY Smaller
    <3> QED
      BY <2>1, <3>1
  <2>5. \A s \in SUBSET S : h[s] = IF s = {} THEN 0 ELSE f[Pick(s)] + g[s \ {Pick(s)}]
    OBVIOUS
  <2> HIDE DEF h
  <2>6. SumsTo(h, f, S, k + 1)
    <3> SUFFICES ASSUME NEW s \in SUBSET S, Cardinality(s) <= k + 1
                 PROVE  h[s] = IF s = {} THEN 0 ELSE f[Pick(s)] + h[s \ {Pick(s)}]
      BY DEF SumsTo
    <3> QED
      BY <2>3, <2>4, <2>5
  <2> QED
    BY <2>1, <2>6
<1> HIDE DEF Good
<1>3. Good = Nat
  <2>1. Good \in SUBSET Nat
    BY DEF Good
  <2> QED
    BY <1>1, <1>2, <2>1, NatSetInduction
<1>4. N \in Nat /\ \A s \in SUBSET S : Cardinality(s) <= N
  BY FS_CardinalityType, FS_Subset
<1> HIDE DEF N
<1>5. PICK g : SumsTo(g, f, S, N)
  BY <1>3, <1>4 DEF Good
<1> DEFINE h == [s \in SUBSET S |-> g[s]]
<1>6. \A s \in SUBSET S : h[s] = IF s = {} THEN 0 ELSE f[Pick(s)] + h[s \ {Pick(s)}]
  <2>1. \A s \in SUBSET S : g[s] = IF s = {} THEN 0 ELSE f[Pick(s)] + g[s \ {Pick(s)}]
    BY <1>4, <1>5 DEF SumsTo
  <2>2. \A s \in SUBSET S : s \ {Pick(s)} \in SUBSET S
    OBVIOUS
  <2>3. \A s \in SUBSET S : h[s] = g[s]
    OBVIOUS
  <2> HIDE DEF h
  <2> QED
    BY <2>1, <2>2, <2>3
<1>7. Sums(h, f, S)
  <2>1. h = [s \in SUBSET S |-> h[s]]
    OBVIOUS
  <2> HIDE DEF h
  <2> QED
    BY <1>6, <2>1, Zenon DEF Sums
<1> QED
  BY <1>7

LEMMA SumIs ==
  ASSUME NEW f, NEW S, IsFiniteSet(S)
  PROVE  \E g : Sums(g, f, S) /\ SumFunctionOnSet(f, S) = g[S]
<1> DEFINE g == CHOOSE g : Sums(g, f, S)
<1>1. Sums(g, f, S)
  BY SumsExist, Zenon
<1>2. SumFunctionOnSet(f, S) = g[S]
  BY DEF SumFunctionOnSet, FoldFunctionOnSet, MapThenFoldSet, Sums, Pick
<1> HIDE DEF g
<1> QED
  BY <1>1, <1>2

\* Two such functions agree, and whichever element is taken out, the rest is
\* what is left.
SumLaw(g, f, S, s) ==
  /\ g[s] \in Int /\ ((\A x \in s : f[x] \in Nat) => g[s] \in Nat)
  /\ \A a \in s : g[s] = f[a] + g[s \ {a}]
  /\ \A T, h : Sums(h, f, T) /\ s \subseteq T => h[s] = g[s]

LEMMA SumLaws ==
  ASSUME NEW f, NEW S, IsFiniteSet(S), \A x \in S : f[x] \in Int, NEW g, Sums(g, f, S)
  PROVE  \A s \in SUBSET S : SumLaw(g, f, S, s)
<1> DEFINE Good == {k \in Nat : \A s \in SUBSET S : Cardinality(s) <= k => SumLaw(g, f, S, s)}
<1>1. \A T, h, s : Sums(h, f, T) /\ s \in SUBSET T =>
        h[s] = IF s = {} THEN 0 ELSE f[Pick(s)] + h[s \ {Pick(s)}]
  BY Zenon DEF Sums
<1>2. SumLaw(g, f, S, {})
  <2>1. \A T, h : Sums(h, f, T) => h[{}] = 0
    BY <1>1
  <2> QED
    BY <2>1 DEF SumLaw
<1>3. 0 \in Good
  BY <1>2, Smaller
<1>4. ASSUME NEW k \in Good PROVE k + 1 \in Good
  <2>1. k \in Nat /\ \A s \in SUBSET S : Cardinality(s) <= k => SumLaw(g, f, S, s)
    OBVIOUS
  <2> SUFFICES ASSUME NEW s \in SUBSET S, Cardinality(s) <= k + 1, s # {}
               PROVE  SumLaw(g, f, S, s)
    BY <1>2, <2>1
  <2> DEFINE x == Pick(s)
             r == s \ {x}
  <2>2. x \in s /\ Cardinality(s) \in Nat /\ \A a \in s : Cardinality(s \ {a}) <= k
    BY <2>1, Smaller
  <2>3. g[s] = f[x] + g[r]
    <3>1. g[s] = IF s = {} THEN 0 ELSE f[Pick(s)] + g[s \ {Pick(s)}]
      BY Zenon DEF Sums
    <3> QED
      BY <3>1
  <2>4. SumLaw(g, f, S, r) /\ f[x] \in Int /\ g[r] \in Int
    BY <2>1, <2>2 DEF SumLaw
  <2>5. \A T, h : Sums(h, f, T) /\ s \subseteq T => h[s] = f[x] + h[r] /\ r \subseteq T
    BY <1>1
  <2> HIDE DEF x
  <2>6. g[s] \in Int /\ ((\A y \in s : f[y] \in Nat) => g[s] \in Nat)
    <3>1. (\A y \in s : f[y] \in Nat) => f[x] \in Nat /\ g[r] \in Nat
      BY <2>2, <2>4 DEF SumLaw
    <3> QED
      BY <2>3, <2>4, <3>1
  <2>7. \A T, h : Sums(h, f, T) /\ s \subseteq T => h[s] = g[s]
    BY <2>3, <2>4, <2>5 DEF SumLaw
  <2>8. ASSUME NEW a \in s PROVE g[s] = f[a] + g[s \ {a}]
    <3>1. CASE a = x
      BY <2>3, <3>1
    <3>2. CASE a # x
      <4> DEFINE q == s \ {a}
                 y == r \ {a}
      <4>1. a \in r /\ x \in q /\ y = q \ {x} /\ q \in SUBSET S /\ y \in SUBSET S /\ y \subseteq r
        BY <2>2, <3>2
      <4>2. SumLaw(g, f, S, q)
        BY <2>1, <2>2, <4>1
      <4>3. Cardinality(y) <= k
        <5>1. Cardinality(y) \in Nat /\ Cardinality(q) <= k /\ Cardinality(q) \in Nat
          BY <2>2, <4>1, Smaller
        <5>2. Cardinality(y) = Cardinality(q) - 1
          BY <4>1, Smaller
        <5> QED
          BY <2>1, <5>1, <5>2
      <4>4. SumLaw(g, f, S, y)
        BY <2>1, <4>1, <4>3
      <4> HIDE DEF q, y
      <4>5. g[r] = f[a] + g[y]
        <5>1. g[r] = f[a] + g[r \ {a}]
          BY <2>4, <4>1 DEF SumLaw
        <5> QED
          BY <5>1 DEF y
      <4>6. g[q] = f[x] + g[y]
        <5>1. g[q] = f[x] + g[q \ {x}]
          BY <4>1, <4>2 DEF SumLaw
        <5> QED
          BY <4>1, <5>1
      <4>7. f[a] \in Int /\ g[y] \in Int
        BY <4>4 DEF SumLaw
      <4>8. g[s] = f[a] + g[q]
        BY <2>3, <2>4, <4>5, <4>6, <4>7
      <4> QED
        BY <4>8 DEF q
    <3> QED
      BY <3>1, <3>2
  <2> QED
    BY <2>6, <2>7, <2>8 DEF SumLaw
<1> HIDE DEF Good
<1>5. Good = Nat
  <2>1. Good \in SUBSET Nat
    BY DEF Good
  <2> QED
    BY <1>3, <1>4, <2>1, NatSetInduction
<1> QED
  BY <1>5, Smaller DEF Good

\* A sum is a number, and a term more adds its value.
LEMMA SumGrows ==
  ASSUME NEW f, NEW S, IsFiniteSet(S), \A x \in S : f[x] \in Int, NEW a \in S
  PROVE  /\ SumFunctionOnSet(f, S) \in Int
         /\ SumFunctionOnSet(f, S) = f[a] + SumFunctionOnSet(f, S \ {a})
<1> DEFINE R == S \ {a}
<1>1. PICK g : Sums(g, f, S) /\ SumFunctionOnSet(f, S) = g[S]
  BY SumIs
<1>2. IsFiniteSet(R)
  BY FS_Subset
<1>3. PICK h : Sums(h, f, R) /\ SumFunctionOnSet(f, R) = h[R]
  BY <1>2, SumIs
<1>4. SumLaw(g, f, S, S) /\ SumLaw(g, f, S, R)
  BY <1>1, SumLaws
<1>5. h[R] = g[R]
  BY <1>3, <1>4 DEF SumLaw
<1> HIDE DEF R
<1>6. g[S] = f[a] + g[R] /\ g[S] \in Int
  BY <1>4 DEF SumLaw, R
<1>7. SumFunctionOnSet(f, R) = g[R]
  BY <1>3, <1>5
<1> QED
  BY <1>1, <1>6, <1>7 DEF R

\* A sum of naturals is one.
LEMMA SumNat ==
  ASSUME NEW f, NEW S, IsFiniteSet(S), \A x \in S : f[x] \in Nat
  PROVE  SumFunctionOnSet(f, S) \in Nat
<1>1. PICK g : Sums(g, f, S) /\ SumFunctionOnSet(f, S) = g[S]
  BY SumIs
<1>2. SumLaw(g, f, S, S)
  BY <1>1, SumLaws
<1> QED
  BY <1>1, <1>2 DEF SumLaw

\* A sum depends on its terms only.
LEMMA SumSame ==
  ASSUME NEW f, NEW e, NEW S, IsFiniteSet(S), \A x \in S : f[x] \in Int /\ e[x] = f[x]
  PROVE  SumFunctionOnSet(e, S) = SumFunctionOnSet(f, S)
<1>1. PICK g : Sums(g, f, S) /\ SumFunctionOnSet(f, S) = g[S]
  BY SumIs
<1>2. PICK h : Sums(h, e, S) /\ SumFunctionOnSet(e, S) = h[S]
  BY SumIs
<1>3. Sums(h, f, S)
  <2>1. \A s \in SUBSET S : s # {} => e[Pick(s)] = f[Pick(s)]
    BY Smaller
  <2>2. \A s \in SUBSET S : h[s] = IF s = {} THEN 0 ELSE f[Pick(s)] + h[s \ {Pick(s)}]
    <3>1. \A s \in SUBSET S : h[s] = IF s = {} THEN 0 ELSE e[Pick(s)] + h[s \ {Pick(s)}]
      BY <1>2, Zenon DEF Sums
    <3> QED
      BY <2>1, <3>1
  <2>3. h = [s \in SUBSET S |-> h[s]]
    BY <1>2 DEF Sums
  <2> QED
    BY <2>2, <2>3, Zenon DEF Sums
<1>4. SumLaw(g, f, S, S)
  BY <1>1, SumLaws
<1> QED
  BY <1>1, <1>2, <1>3, <1>4 DEF SumLaw

\* A sum of no terms is zero.
LEMMA SumOfNone ==
  ASSUME NEW f
  PROVE  SumFunctionOnSet(f, {}) = 0
<1>1. PICK g : Sums(g, f, {}) /\ SumFunctionOnSet(f, {}) = g[{}]
  BY SumIs, FS_EmptySet
<1>2. g[{}] = 0
  BY <1>1, Zenon DEF Sums
<1> QED
  BY <1>1, <1>2

-----------------------------------------------------------------------------
\* Max is the greatest element of a nonempty set 1 .. k reaches.
LEMMA MaxOfPrefix ==
  ASSUME NEW k \in Nat, NEW S \in SUBSET (1 .. k), S # {}
  PROVE  Max(S) \in S /\ \A y \in S : Max(S) >= y
<1>1. IsFiniteSet(1 .. k)
  <2>1. 1 \in Int /\ k \in Int
    OBVIOUS
  <2> QED
    BY <2>1, FS_Interval
<1>2. IsFiniteSet(S)
  BY <1>1, FS_Subset
<1>3. S \in SUBSET Int
  OBVIOUS
<1>4. \E x \in S : \A y \in S : x >= y
  BY <1>2, <1>3, MaxExists
<1> QED
  BY <1>4, Zenon DEF Max

\* The recursive function behind FoldLeft exists.
Folded(f, b, q, n) ==
  f = [S \in SUBSET (1 .. n) |->
         IF S = {} THEN b ELSE Op(f[S \ {Max(S)}], q[Max(S)])]

LEMMA FoldExists ==
  ASSUME NEW b, NEW q, NEW n \in Nat
  PROVE  \E f : Folded(f, b, q, n)
<1> DEFINE Good == {k \in Nat : \E f : Folded(f, b, q, k)}
           Next(f, S) == IF S = {} THEN b ELSE Op(f[S \ {Max(S)}], q[Max(S)])
<1>1. Good \in SUBSET Nat
  OBVIOUS
<1>2. 0 \in Good
  <2> DEFINE f == [S \in SUBSET (1 .. 0) |-> b]
  <2>1. \A S \in SUBSET (1 .. 0) : S = {}
    OBVIOUS
  <2>2. Folded(f, b, q, 0)
    BY <2>1 DEF Folded
  <2> QED
    BY <2>2
<1>3. ASSUME NEW k \in Good PROVE k + 1 \in Good
  <2>1. PICK f : Folded(f, b, q, k)
    OBVIOUS
  <2>2. k \in Nat
    OBVIOUS
  <2> DEFINE g == [S \in SUBSET (1 .. k + 1) |-> Next(f, S)]
  <2>3. \A S \in SUBSET (1 .. k) : f[S] = Next(f, S)
    BY <2>1, Zenon DEF Folded
  <2>4. \A S \in SUBSET (1 .. k) : S \in SUBSET (1 .. k + 1)
    BY <2>2
  <2>5. \A S \in SUBSET (1 .. k) : g[S] = f[S]
    <3> HIDE DEF Next
    <3> QED
      BY <2>3, <2>4
  <2>6. \A S \in SUBSET (1 .. k + 1) : S # {} => S \ {Max(S)} \in SUBSET (1 .. k)
    <3> SUFFICES ASSUME NEW S \in SUBSET (1 .. k + 1), S # {}, NEW x \in S \ {Max(S)}
                 PROVE  x \in 1 .. k
      OBVIOUS
    <3>1. k + 1 \in Nat
      BY <2>2
    <3>2. Max(S) \in S /\ Max(S) >= x
      BY <3>1, MaxOfPrefix
    <3>3. x \in 1 .. k + 1 /\ Max(S) \in 1 .. k + 1 /\ x # Max(S)
      BY <3>2
    <3> HIDE DEF g
    <3> QED
      BY <2>2, <3>2, <3>3
  <2>7. \A S \in SUBSET (1 .. k + 1) : Next(f, S) = Next(g, S)
    <3> HIDE DEF g
    <3> QED
      BY <2>5, <2>6
  <2>8. g = [S \in SUBSET (1 .. k + 1) |-> Next(g, S)]
    <3>1. \A h : (\A S \in SUBSET (1 .. k + 1) : Next(f, S) = Next(h, S))
                 => [S \in SUBSET (1 .. k + 1) |-> Next(f, S)]
                    = [S \in SUBSET (1 .. k + 1) |-> Next(h, S)]
      <4> HIDE DEF Next
      <4> QED
        BY Zenon
    <3>2. [S \in SUBSET (1 .. k + 1) |-> Next(f, S)]
          = [S \in SUBSET (1 .. k + 1) |-> Next(g, S)]
      <4> HIDE DEF Next, g
      <4> QED
        BY <2>7, <3>1
    <3> QED
      BY <3>2
  <2>9. Folded(g, b, q, k + 1)
    BY <2>8 DEF Folded
  <2> HIDE DEF g
  <2> QED
    BY <2>2, <2>9
<1> HIDE DEF Good
<1>4. Good = Nat
  BY <1>1, <1>2, <1>3, NatSetInduction
<1> QED
  BY <1>4 DEF Good

Result(b, q) == FoldLeft(Op, b, q)

\* The values a fold passes through.
LEMMA FoldSteps ==
  ASSUME NEW b, NEW q, NEW n \in Nat, DOMAIN q = 1 .. n
  PROVE  \E v : /\ v[0] = b
                /\ \A i \in 1 .. n : v[i] = Op(v[i - 1], q[i])
                /\ Result(b, q) = v[n]
<1> DEFINE f == CHOOSE f : Folded(f, b, q, n)
           v == [i \in 0 .. n |-> f[1 .. i]]
<1>1. Folded(f, b, q, n)
  BY FoldExists, Zenon
<1>2. Result(b, q) = f[1 .. n]
  <2>1. Result(b, q) =
          (CHOOSE g : g = [S \in SUBSET DOMAIN q |->
             IF S = {} THEN b ELSE Op(g[S \ {Max(S)}], q[Max(S)])])[DOMAIN q]
    BY DEF Result, FoldLeft, MapThenFoldSet
  <2>2. Result(b, q) =
          (CHOOSE g : g = [S \in SUBSET (1 .. n) |->
             IF S = {} THEN b ELSE Op(g[S \ {Max(S)}], q[Max(S)])])[1 .. n]
    BY <2>1, Zenon
  <2> QED
    BY <2>2 DEF Folded
<1> HIDE DEF f
<1>3. \A S \in SUBSET (1 .. n) : f[S] = IF S = {} THEN b ELSE Op(f[S \ {Max(S)}], q[Max(S)])
  BY <1>1, Zenon DEF Folded
<1>4. v[0] = b
  <2>1. 1 .. 0 = {} /\ 0 \in 0 .. n /\ {} \in SUBSET (1 .. n)
    OBVIOUS
  <2> QED
    BY <1>3, <2>1
<1>5. \A i \in 1 .. n : v[i] = Op(v[i - 1], q[i])
  <2> TAKE i \in 1 .. n
  <2>1. 1 .. i \in SUBSET (1 .. n) /\ i \in 1 .. i /\ i \in 0 .. n /\ i - 1 \in 0 .. n /\ i \in Nat
    OBVIOUS
  <2>2. Max(1 .. i) = i
    <3>1. Max(1 .. i) \in 1 .. i /\ Max(1 .. i) >= i
      BY <2>1, MaxOfPrefix
    <3> QED
      BY <3>1
  <2>3. (1 .. i) \ {i} = 1 .. i - 1
    OBVIOUS
  <2>4. f[1 .. i] = Op(f[1 .. i - 1], q[i])
    BY <1>3, <2>1, <2>2, <2>3
  <2> QED
    BY <2>1, <2>4
<1>6. v[n] = f[1 .. n]
  OBVIOUS
<1> QED
  BY <1>2, <1>4, <1>5, <1>6

Through(v, b, q, n) ==
  /\ v[0] = b
  /\ \A i \in 1 .. n : v[i] = Op(v[i - 1], q[i])
  /\ Result(b, q) = v[n]

LEMMA FoldThrough ==
  ASSUME NEW b, NEW q, NEW n \in Nat, DOMAIN q = 1 .. n
  PROVE  \E v : Through(v, b, q, n)
BY FoldSteps DEF Through

\* A fold over nothing is what it starts from.
LEMMA FoldEmpty ==
  ASSUME NEW b
  PROVE  Result(b, <<>>) = b
<1>1. 0 \in Nat /\ DOMAIN <<>> = 1 .. 0
  OBVIOUS
<1> QED
  BY <1>1, FoldSteps

\* A fold over a longer sequence takes one more step.
LEMMA FoldAppend ==
  ASSUME NEW b, NEW S, NEW q \in Seq(S), NEW x \in S
  PROVE  Result(b, Append(q, x)) = Op(Result(b, q), x)
<1> DEFINE n == Len(q)
           p == Append(q, x)
<1>1. n \in Nat /\ DOMAIN q = 1 .. n /\ n + 1 \in Nat /\ DOMAIN p = 1 .. n + 1
      /\ (\A i \in 1 .. n : p[i] = q[i]) /\ p[n + 1] = x
  OBVIOUS
<1> HIDE DEF n, p
<1>2. PICK v : Through(v, b, q, n)
  <2>1. n \in Nat /\ DOMAIN q = 1 .. n
    BY <1>1
  <2> QED
    BY <2>1, FoldThrough, Zenon
<1>3. PICK w : Through(w, b, p, n + 1)
  <2>1. n + 1 \in Nat /\ DOMAIN p = 1 .. n + 1
    BY <1>1
  <2> QED
    BY <2>1, FoldThrough, Zenon
<1> DEFINE Good == {k \in 0 .. n : w[k] = v[k]}
<1>4. \A k \in 0 .. n : w[k] = v[k]
  <2>1. 0 \in Good
    BY <1>1, <1>2, <1>3 DEF Through
  <2>2. ASSUME NEW k \in 0 .. n - 1, k \in Good PROVE k + 1 \in Good
    <3>1. k + 1 \in 1 .. n /\ k + 1 \in 1 .. n + 1 /\ k + 1 \in 0 .. n /\ k = (k + 1) - 1
      BY <1>1
    <3>2. v[k + 1] = Op(v[k], q[k + 1]) /\ w[k + 1] = Op(w[k], p[k + 1])
      BY <1>2, <1>3, <3>1 DEF Through
    <3>3. w[k] = v[k] /\ p[k + 1] = q[k + 1]
      BY <1>1, <2>2, <3>1
    <3> QED
      BY <3>1, <3>2, <3>3
  <2>3. 0 .. n \subseteq Good
    <3> HIDE DEF Good
    <3> QED
      BY <1>1, <2>1, <2>2, IntervalInduction
  <2> QED
    BY <2>3
<1>5. n + 1 \in 1 .. n + 1 /\ (n + 1) - 1 = n /\ n \in 0 .. n
  BY <1>1
<1>6. w[n + 1] = Op(w[n], p[n + 1])
  BY <1>3, <1>5 DEF Through
<1> QED
  BY <1>1, <1>2, <1>3, <1>4, <1>5, <1>6 DEF p, Through
=============================================================================
