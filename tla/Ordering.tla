------------------------------ MODULE Ordering ------------------------------
(***************************************************************************)
(* Sorting by place: the i-th element is the one before which i - 1 others *)
(* come.                                                                   *)
(***************************************************************************)
EXTENDS Integers, FiniteSets

\* before[x] is what of S comes before x.
Sorted(S, before) ==
    [i \in 1 .. Cardinality(S) |-> CHOOSE x \in S : Cardinality(before[x]) = i - 1]

SortedBy(S, Less(_, _)) == Sorted(S, [x \in S |-> {y \in S : Less(y, x)}])
=============================================================================
