------------------------------- MODULE Sorting -------------------------------
(***************************************************************************)
(* A stable sort, as slice::sort_by does it, by the places that the        *)
(* elements move to.  Both the reports of a run and the peak of a sweep    *)
(* are read off sorted values.                                             *)
(***************************************************************************)
EXTENDS Naturals, Sequences, FiniteSets

\* Element i of a sequence with these keys does not come behind element j.
Precedes(keys, i, j) == keys[i] < keys[j] \/ (keys[i] = keys[j] /\ i <= j)

\* Where element i comes to be.
PlaceOf(keys, i) == Cardinality({j \in DOMAIN keys : Precedes(keys, j, i)})

\* The element at each place.
Order(keys) == [k \in DOMAIN keys |-> CHOOSE i \in DOMAIN keys : PlaceOf(keys, i) = k]

SortBy(s, keys) == [k \in DOMAIN s |-> s[Order(keys)[k]]]
===============================================================================
