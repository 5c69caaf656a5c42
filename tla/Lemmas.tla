-------------------------------- MODULE Lemmas --------------------------------
(***************************************************************************)
(* Lemmas that the proofs of several modules rest on: induction over       *)
(* numbers as the existence of a least one, over finite sets as membership *)
(* in the set of those that a fact holds of, and what sorting yields       *)
(* (module Sorting), the same elements, each once, in the order of their   *)
(* keys.                                                                   *)
(***************************************************************************)
EXTENDS Sorting, FiniteSetTheorems, FunctionTheorems, WellFoundedInduction, TLAPS

\* A set of numbers has a least one: induction where it is needed.
LEMMA LeastNumber ==
  ASSUME NEW T, T \subseteq Nat, T # {}
  PROVE  \E x \in T : \A y \in T : x <= y
<1>1. PICK x \in T : \A y \in T : ~(<<y, x>> \in OpToRel(<, Nat))
  BY WFMin, NatLessThanWellFounded, Zenon
<1>2. \A y \in T : <<y, x>> \in Nat \X Nat
  OBVIOUS
<1>3. \A y \in T : ~(y < x)
  BY <1>1, <1>2, Zenon DEF OpToRel
<1> QED
  BY <1>3

\* What holds of a finite set whenever it holds of that set without any one of its
\* elements holds of all finite sets.
LEMMA SetsGrow ==
  ASSUME NEW S, IsFiniteSet(S), NEW Good,
         \A s \in SUBSET S : (\A x \in s : s \ {x} \in Good) => s \in Good
  PROVE  \A s \in SUBSET S : s \in Good
<1> DEFINE Bad == {s \in SUBSET S : s \notin Good}
           T == {Cardinality(s) : s \in Bad}
<1>1. SUFFICES ASSUME Bad # {}  PROVE  FALSE
  OBVIOUS
<1>2. \A s \in SUBSET S : IsFiniteSet(s) /\ Cardinality(s) \in Nat
  BY FS_Subset, FS_CardinalityType
<1>3. T \subseteq Nat /\ T # {}
  BY <1>1, <1>2
<1>4. PICK n \in T : \A m \in T : n <= m
  <2> HIDE DEF T
  <2> QED
    BY <1>3, LeastNumber
<1>5. PICK s \in Bad : n = Cardinality(s)
  OBVIOUS
<1>6. \A x \in s : s \ {x} \in Good
  <2>1. SUFFICES ASSUME NEW x \in s, s \ {x} \in Bad  PROVE  FALSE
    OBVIOUS
  <2>2. Cardinality(s \ {x}) = n - 1
    BY <1>2, <1>5, FS_RemoveElement
  <2>3. n - 1 \in T
    BY <2>1, <2>2
  <2>4. n <= n - 1 /\ n \in Nat
    BY <1>2, <1>4, <1>5, <2>3
  <2> QED
    BY <2>4
<1> QED
  BY <1>5, <1>6

-----------------------------------------------------------------------------
(* Sorting. *)

\* Whoever comes later has the higher place, so no two elements share one.
LEMMA PlacesAscend ==
  ASSUME NEW keys \in Seq(Nat), NEW i \in DOMAIN keys, NEW j \in DOMAIN keys,
         ~Precedes(keys, j, i)
  PROVE  PlaceOf(keys, i) < PlaceOf(keys, j)
<1> DEFINE S == {k \in DOMAIN keys : Precedes(keys, k, i)}
           T == {k \in DOMAIN keys : Precedes(keys, k, j)}
<1>1. IsFiniteSet(DOMAIN keys)
  BY FS_Interval
<1>2. IsFiniteSet(S) /\ IsFiniteSet(T)
  BY <1>1, FS_Subset
<1>3. S \subseteq T /\ j \in T /\ j \notin S
  BY DEF Precedes
<1>4. Cardinality(S) <= Cardinality(T) /\ Cardinality(S) # Cardinality(T)
  BY <1>2, <1>3, FS_Subset
<1>5. Cardinality(S) \in Nat /\ Cardinality(T) \in Nat
  BY <1>2, FS_CardinalityType
<1> QED
  BY <1>4, <1>5 DEF PlaceOf

LEMMA PlacesInRange ==
  ASSUME NEW keys \in Seq(Nat), NEW i \in DOMAIN keys
  PROVE  PlaceOf(keys, i) \in DOMAIN keys
<1> DEFINE S == {k \in DOMAIN keys : Precedes(keys, k, i)}
<1>1. IsFiniteSet(DOMAIN keys) /\ Cardinality(DOMAIN keys) = Len(keys)
  BY FS_Interval
<1>2. IsFiniteSet(S) /\ Cardinality(S) <= Len(keys)
  BY <1>1, FS_Subset
<1>3. i \in S
  BY DEF Precedes
<1>4. Cardinality(S) \in Nat /\ Cardinality(S) # 0
  BY <1>2, <1>3, FS_CardinalityType, FS_EmptySet
<1> QED
  BY <1>2, <1>4 DEF PlaceOf

\* Every place is taken by one element.
LEMMA PlacesAreTaken ==
  ASSUME NEW keys \in Seq(Nat), NEW k \in DOMAIN keys
  PROVE  \E i \in DOMAIN keys : PlaceOf(keys, i) = k
<1> DEFINE D == DOMAIN keys
           place == [i \in D |-> PlaceOf(keys, i)]
<1>1. place \in [D -> D]
  BY PlacesInRange
<1>2. ASSUME NEW a \in D, NEW b \in D, place[a] = place[b]  PROVE  a = b
  <2>1. PlaceOf(keys, a) \in Nat /\ PlaceOf(keys, b) \in Nat
    BY PlacesInRange
  <2>2. Precedes(keys, a, b) /\ Precedes(keys, b, a)
    BY <1>2, <2>1, PlacesAscend
  <2> QED
    BY <2>2 DEF Precedes
<1>3. place \in Injection(D, D)
  BY <1>1, <1>2, Fun_IsInj
<1>4. IsFiniteSet(D)
  BY FS_Interval
<1>5. place \in Surjection(D, D)
  BY <1>3, <1>4, FS_Injection
<1>6. \E i \in D : place[i] = k
  BY <1>5, Fun_SurjectionProperties
<1> QED
  BY <1>6

\* Sorting permutes the elements, and no key comes before a smaller one; among
\* equal keys the elements keep the order they had.
THEOREM SortingSorts ==
  ASSUME NEW keys \in Seq(Nat)
  PROVE  /\ Order(keys) \in Bijection(DOMAIN keys, DOMAIN keys)
         /\ \A k \in DOMAIN keys : PlaceOf(keys, Order(keys)[k]) = k
         /\ \A i \in DOMAIN keys : Order(keys)[PlaceOf(keys, i)] = i
         /\ \A a, b \in DOMAIN keys : a < b =>
              /\ ~Precedes(keys, Order(keys)[b], Order(keys)[a])
              /\ keys[Order(keys)[a]] <= keys[Order(keys)[b]]
<1> DEFINE D == DOMAIN keys
           order == Order(keys)
<1>1. order \in [D -> D] /\ \A k \in D : PlaceOf(keys, order[k]) = k
  BY PlacesAreTaken DEF Order
<1>2. ASSUME NEW i \in D, NEW j \in D, PlaceOf(keys, i) = PlaceOf(keys, j)  PROVE  i = j
  <2>1. PlaceOf(keys, i) \in Nat /\ PlaceOf(keys, j) \in Nat
    BY PlacesInRange
  <2>2. Precedes(keys, i, j) /\ Precedes(keys, j, i)
    BY <1>2, <2>1, PlacesAscend
  <2> QED
    BY <2>2 DEF Precedes
<1>3. \A i \in D : PlaceOf(keys, i) \in D /\ order[PlaceOf(keys, i)] = i
  BY <1>1, <1>2, PlacesInRange
<1>4. ASSUME NEW a \in D, NEW b \in D, a < b
      PROVE  ~Precedes(keys, order[b], order[a]) /\ keys[order[a]] <= keys[order[b]]
  <2>0. order[a] \in D /\ order[b] \in D
    BY <1>1
  <2>1. PlaceOf(keys, order[a]) = a /\ PlaceOf(keys, order[b]) = b
    BY <1>1
  <2>2. ~Precedes(keys, order[b], order[a])
    <3>1. SUFFICES ASSUME Precedes(keys, order[b], order[a])  PROVE  FALSE
      OBVIOUS
    <3>2. ~Precedes(keys, order[a], order[b])
      BY <1>4, <2>0, <2>1, <3>1 DEF Precedes
    <3>3. PlaceOf(keys, order[b]) < PlaceOf(keys, order[a])
      BY <2>0, <3>2, PlacesAscend
    <3> QED
      BY <1>4, <2>1, <3>3
  <2>3. keys[order[a]] \in Nat /\ keys[order[b]] \in Nat
    BY <2>0
  <2> QED
    BY <2>2, <2>3 DEF Precedes
<1>5. order \in Bijection(D, D)
  <2>1. \A a, b \in D : order[a] = order[b] => a = b
    BY <1>1
  <2>2. \A t \in D : \E s \in D : order[s] = t
    BY <1>3
  <2> QED
    BY <1>1, <2>1, <2>2, Fun_IsBij
<1> QED
  BY <1>1, <1>3, <1>4, <1>5

LEMMA SortByProperties ==
  ASSUME NEW keys \in Seq(Nat), NEW s, DOMAIN s = DOMAIN keys
  PROVE  /\ DOMAIN SortBy(s, keys) = DOMAIN s
         /\ SortBy(s, keys) = [k \in DOMAIN s |-> s[Order(keys)[k]]]
         /\ \A k \in DOMAIN s : Order(keys)[k] \in DOMAIN s
         /\ \A i \in DOMAIN s : \E k \in DOMAIN s : Order(keys)[k] = i
<1>1. SortBy(s, keys) = [k \in DOMAIN s |-> s[Order(keys)[k]]]
  BY DEF SortBy
<1>2. \A k \in DOMAIN s : Order(keys)[k] \in DOMAIN s
  <2>1. Order(keys) \in Bijection(DOMAIN s, DOMAIN s)
    BY SortingSorts
  <2>2. Order(keys) \in [DOMAIN s -> DOMAIN s]
    BY <2>1, Fun_BijectionProperties
  <2> QED
    BY <2>2
<1>3. \A i \in DOMAIN s : \E k \in DOMAIN s : Order(keys)[k] = i
  BY SortingSorts, PlacesInRange
<1> QED
  BY <1>1, <1>2, <1>3
===============================================================================
