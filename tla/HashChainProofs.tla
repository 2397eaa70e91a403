-------------------------- MODULE HashChainProofs --------------------------
(***************************************************************************)
(* Lemmas that the proofs about checks 4 and 11 share: both sort a chain   *)
(* of items stably by a number, and recompute hashes of a prior hash and a *)
(* receipt (compute_chain_hash), which are pairs in these models.  With    *)
(* LeastNatural in place of induction they reason about every length, and  *)
(* the proofs about verify use it for the same purpose.                    *)
(***************************************************************************)
EXTENDS Integers, FiniteSetTheorems, WellFoundedInduction, TLAPS

\* A non-empty set of natural numbers has a least one: what stands in for
\* induction in the proofs below.
LEMMA LeastNatural ==
    ASSUME NEW S \in SUBSET Nat, S # {}
    PROVE  \E m \in S : \A n \in S : m <= n
<1>1. PICK m \in S : \A n \in S : ~ (<<n, m>> \in OpToRel(<, Nat))
  BY NatLessThanWellFounded, WFMin
<1>2. \A n \in S : ~ (n < m)
  BY <1>1 DEF OpToRel
<1> QED
  BY <1>2

-----------------------------------------------------------------------------
(* Hash chains.                                                            *)

\* The hashes h[1] to h[n] are those of the receipts q[1] to q[n], in order, the
\* first of them without a prior.
HashesOf(h, q, n, none) ==
    h[0] = none /\ \A k \in 1..n : h[k] = <<h[k - 1], q[k]>>

\* SHA3-256 has no collisions: two chains that reach the same hash have hashed
\* the same receipts, from the first one on.  A hash is never an absent field.
LEMMA SameHashSameChain ==
    ASSUME NEW none, \A x, y : <<x, y>> # none,
           NEW m \in Nat, NEW c, NEW p, HashesOf(c, p, m, none),
           NEW n \in Nat, NEW h, NEW q, HashesOf(h, q, n, none),
           c[m] = h[n]
    PROVE  m = n /\ \A k \in 1..m : p[k] = q[k]
<1> DEFINE Agree(i) == i <= n /\ c[m - i] = h[n - i]
<1>1. ASSUME NEW i \in 1..m, Agree(i - 1)
      PROVE  Agree(i) /\ c[m - i + 1] = <<c[m - i], p[m - i + 1]>>
                      /\ h[n - i + 1] = <<h[n - i], q[n - i + 1]>>
  <2>1. /\ m - (i - 1) = m - i + 1 /\ n - (i - 1) = n - i + 1
        /\ m - i + 1 \in 1..m /\ (m - i + 1) - 1 = m - i
    OBVIOUS
  <2>2. c[m - i + 1] = <<c[m - i], p[m - i + 1]>>
    BY <2>1 DEF HashesOf
  <2>3. n - i + 1 # 0
    BY <1>1, <2>1, <2>2 DEF HashesOf
  <2>4. n - i + 1 \in 1..n /\ (n - i + 1) - 1 = n - i
    BY <1>1, <2>3
  <2>5. h[n - i + 1] = <<h[n - i], q[n - i + 1]>>
    BY <2>4 DEF HashesOf
  <2>6. c[m - i + 1] = h[n - i + 1]
    BY <1>1, <2>1
  <2>7. c[m - i] = h[n - i]
    BY <2>2, <2>5, <2>6
  <2> QED
    BY <2>2, <2>4, <2>5, <2>7
<1>2. \A i \in 0..m : Agree(i)
  <2> DEFINE Failing == {i \in 0..m : ~Agree(i)}
  <2>1. SUFFICES ASSUME Failing # {} PROVE FALSE
    OBVIOUS
  <2>2. PICK i \in Failing : \A j \in Failing : i <= j
    <3>1. Failing \in SUBSET Nat
      OBVIOUS
    <3> HIDE DEF Failing
    <3> QED
      BY <2>1, <3>1, LeastNatural
  <2>3. i # 0
    BY <2>2
  <2>4. i - 1 \in 0..m /\ i \in 1..m /\ i - 1 \notin Failing
    BY <2>2, <2>3
  <2> QED
    BY <1>1, <2>2, <2>4
<1>3. m = n
  <2>1. m <= n /\ c[0] = h[n - m]
    BY <1>2
  <2>2. n - m = 0
    <3>1. SUFFICES ASSUME n - m \in 1..n PROVE FALSE
      BY <2>1
    <3> QED
      BY <2>1, <3>1 DEF HashesOf
  <2> QED
    BY <2>2
<1>4. ASSUME NEW k \in 1..m PROVE p[k] = q[k]
  <2> DEFINE i == m - k + 1
  <2>1. i \in 1..m /\ i - 1 \in 0..m /\ m - i + 1 = k /\ n - i + 1 = k
    BY <1>3
  <2>2. Agree(i - 1)
    BY <1>2, <2>1
  <2>3. c[k] = <<c[m - i], p[k]>> /\ h[k] = <<h[n - i], q[k]>>
    BY <1>1, <2>1, <2>2
  <2>4. c[k] = h[k]
    BY <2>1, <2>2, <1>3
  <2> QED
    BY <2>3, <2>4
<1> QED
  BY <1>3, <1>4

-----------------------------------------------------------------------------
(* Stable sorting: sort_by_key, sort_by.                                   *)

NotLater(key, i, j) == key[i] < key[j] \/ (key[i] = key[j] /\ i <= j)

\* The place of i among the members of A sorted by key, equal keys in place.
PlaceIn(A, key, i) == Cardinality({j \in A : NotLater(key, j, i)})

\* A is a set of positions of a finite sequence and each has a key.
Sorts(A, key, n) == A \subseteq 1..n /\ \A i \in A : key[i] \in Int

\* What is sorted are finitely many items.
LEMMA SortsFinite ==
    ASSUME NEW n \in Nat, NEW A, NEW key, Sorts(A, key, n)
    PROVE  IsFiniteSet(A) /\ Cardinality(A) \in Nat
<1>1. IsFiniteSet(1..n)
  BY FS_Interval
<1> QED
  BY <1>1, FS_Subset, FS_CardinalityType DEF Sorts

\* Of two items the one that comes first has the smaller place.
LEMMA PlaceRises ==
    ASSUME NEW n \in Nat, NEW A, NEW key, Sorts(A, key, n),
           NEW i \in A, NEW j \in A, i # j, NotLater(key, i, j)
    PROVE  PlaceIn(A, key, i) < PlaceIn(A, key, j)
<1> DEFINE Before(x) == {k \in A : NotLater(key, k, x)}
<1>0. \A k \in A : k \in 1..n /\ key[k] \in Int
  BY DEF Sorts
<1>1. /\ IsFiniteSet(Before(i)) /\ IsFiniteSet(Before(j))
      /\ Cardinality(Before(i)) \in Nat /\ Cardinality(Before(j)) \in Nat
  <2>1. Before(i) \in SUBSET A /\ Before(j) \in SUBSET A
    OBVIOUS
  <2> HIDE DEF Before
  <2> QED
    BY <2>1, SortsFinite, FS_Subset, FS_CardinalityType
<1>2. \A k \in Before(i) : k \in Before(j)
  BY <1>0 DEF NotLater
<1>3. j \in Before(j) /\ j \notin Before(i)
  BY <1>0 DEF NotLater
<1>4. Before(i) \in SUBSET Before(j) /\ Before(i) # Before(j)
  BY <1>2, <1>3
<1>5. PlaceIn(A, key, i) = Cardinality(Before(i)) /\ PlaceIn(A, key, j) = Cardinality(Before(j))
  BY DEF PlaceIn
<1> HIDE DEF Before
<1> QED
  BY <1>1, <1>4, <1>5, FS_Subset

\* The places of n sorted items are among 1 to n.
LEMMA PlaceBetween ==
    ASSUME NEW n \in Nat, NEW A, NEW key, Sorts(A, key, n), NEW i \in A
    PROVE  PlaceIn(A, key, i) \in 1..Cardinality(A)
<1> DEFINE B == {j \in A : NotLater(key, j, i)}
<1>1. B \in SUBSET A /\ i \in B
  BY DEF Sorts, NotLater
<1>2. IsFiniteSet(A) /\ Cardinality(A) \in Nat
  BY SortsFinite
<1>3. PlaceIn(A, key, i) = Cardinality(B)
  BY DEF PlaceIn
<1> HIDE DEF B
<1>4. IsFiniteSet(B) /\ Cardinality(B) \in Nat /\ Cardinality(B) <= Cardinality(A)
  BY <1>1, <1>2, FS_Subset, FS_CardinalityType
<1>5. Cardinality(B) # 0
  BY <1>1, <1>4, FS_EmptySet
<1> QED
  BY <1>2, <1>3, <1>4, <1>5

\* No two items have one place.
LEMMA PlaceUnique ==
    ASSUME NEW n \in Nat, NEW A, NEW key, Sorts(A, key, n),
           NEW i \in A, NEW j \in A, PlaceIn(A, key, i) = PlaceIn(A, key, j)
    PROVE  i = j
<1>1. NotLater(key, i, j) \/ NotLater(key, j, i)
  BY DEF Sorts, NotLater
<1>2. PlaceIn(A, key, i) \in Int
  BY PlaceBetween
<1>3. ~(PlaceIn(A, key, i) < PlaceIn(A, key, j)) /\ ~(PlaceIn(A, key, j) < PlaceIn(A, key, i))
  BY <1>2
<1> QED
  BY <1>1, <1>3, PlaceRises

\* Every place is taken: the sort loses no item and repeats none.
LEMMA PlaceTaken ==
    ASSUME NEW n \in Nat, NEW A, NEW key, Sorts(A, key, n), NEW k \in 1..Cardinality(A)
    PROVE  \E i \in A : PlaceIn(A, key, i) = k
<1> DEFINE m == Cardinality(A)
           f == [i \in A |-> PlaceIn(A, key, i)]
<1>1. IsFiniteSet(A) /\ m \in Nat
  BY SortsFinite
<1>2. f \in Injection(A, 1..m)
  <2>1. f \in [A -> 1..m]
    BY PlaceBetween
  <2>2. \A i, j \in A : f[i] = f[j] => i = j
    BY PlaceUnique
  <2> HIDE DEF f, m
  <2> QED
    BY <2>1, <2>2 DEF Injection, IsInjective
<1>3. f \in Surjection(A, 1..m)
  <2>1. IsFiniteSet(1..m) /\ Cardinality(1..m) = m
    BY <1>1, FS_Interval
  <2> HIDE DEF f
  <2> QED
    BY <1>1, <1>2, <2>1, FS_Injection
<1>4. k \in 1..m /\ DOMAIN f = A
  OBVIOUS
<1>5. \E i \in A : f[i] = k
  <2> HIDE DEF f, m
  <2> QED
    BY <1>3, <1>4 DEF Surjection
<1> QED
  BY <1>5

\* An item added that comes after all others takes the last place and leaves the
\* places of the others alone.
LEMMA PlaceOfNewLast ==
    ASSUME NEW n \in Nat, NEW A, NEW key, Sorts(A, key, n),
           NEW x \in Nat, x > n, NEW later,
           later[x] \in Int,
           \A i \in A : later[i] = key[i] /\ key[i] <= later[x]
    PROVE  /\ Sorts(A \cup {x}, later, x)
           /\ Cardinality(A \cup {x}) = Cardinality(A) + 1
           /\ PlaceIn(A \cup {x}, later, x) = Cardinality(A) + 1
           /\ \A i \in A : PlaceIn(A \cup {x}, later, i) = PlaceIn(A, key, i)
<1>0. /\ \A i \in A : i \in 1..n /\ i < x /\ i # x /\ key[i] \in Int
      /\ x \notin A
  BY DEF Sorts
<1>1. Sorts(A \cup {x}, later, x)
  BY <1>0 DEF Sorts
<1>2. Cardinality(A \cup {x}) = Cardinality(A) + 1
  BY <1>0, SortsFinite, FS_AddElement
<1>3. {j \in A \cup {x} : NotLater(later, j, x)} = A \cup {x}
  BY <1>0 DEF NotLater
<1>4. ASSUME NEW i \in A
      PROVE  {j \in A \cup {x} : NotLater(later, j, i)} = {j \in A : NotLater(key, j, i)}
  BY <1>0 DEF NotLater
<1> QED
  BY <1>1, <1>2, <1>3, <1>4 DEF PlaceIn

-----------------------------------------------------------------------------
(* Loops inside loops.                                                     *)

\* What a nested loop has left: first how much of the outer loop, then how much of
\* the inner one.
NatLess == OpToRel(<, Nat)

Fewer == LexPairOrdering(NatLess, NatLess, Nat, Nat)

\* Nothing has less and less left forever: a loop each of whose steps lowers its pair
\* in this order ends.
LEMMA FewerWellFounded == IsWellFoundedOn(Fewer, Nat \X Nat)
<1>1. IsWellFoundedOn(NatLess, Nat)
  BY NatLessThanWellFounded DEF NatLess
<1> QED
  BY <1>1, WFLexPairOrdering DEF Fewer

\* One round less of the outer loop, or the same round with less left in it.
LEMMA FewerLeft ==
    ASSUME NEW a \in Nat, NEW b \in Nat, NEW c \in Nat, NEW d \in Nat,
           a < c \/ (a = c /\ b < d)
    PROVE  <<<<a, b>>, <<c, d>>>> \in Fewer
<1>1. a < c => <<a, c>> \in NatLess
  BY DEF NatLess, OpToRel
<1>2. b < d => <<b, d>> \in NatLess
  BY DEF NatLess, OpToRel
<1> QED
  BY <1>1, <1>2 DEF Fewer, LexPairOrdering
=============================================================================
