------------------------------ MODULE Sorting -------------------------------
(***************************************************************************)
(* Stable sorting, by the position that each element takes: SortSeq of     *)
(* module TLC wants a total order, and picks a permutation of which        *)
(* nothing is known without one.                                           *)
(***************************************************************************)
EXTENDS Naturals, FiniteSets

\* Where the i-th element goes; of those that compare equal, the first is first.
GoesFirst(s, Before(_, _), j, i) ==
    Before(s[j], s[i]) \/ (j < i /\ ~Before(s[i], s[j]))
PositionOf(s, Before(_, _), i) ==
    Cardinality({j \in DOMAIN s : j = i \/ GoesFirst(s, Before, j, i)})

SortBy(s, Before(_, _)) ==
    LET position == [i \in DOMAIN s |-> PositionOf(s, Before, i)]
    IN  [k \in DOMAIN s |-> s[CHOOSE i \in DOMAIN s : position[i] = k]]

\* The elements of a set in an order, which is total.
Ordered(S, Before(_, _)) ==
    [k \in 1 .. Cardinality(S) |->
        CHOOSE x \in S : Cardinality({y \in S : Before(y, x)}) = k - 1]
=============================================================================
