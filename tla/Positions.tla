----------------------------- MODULE Positions -----------------------------
(***************************************************************************)
(* What a sort and a filter of a vector return, said by positions: the     *)
(* k-th element is the one that k - 1 others come before.  That is the     *)
(* same for a stable sort, for filter() and for retain().                  *)
(***************************************************************************)
EXTENDS Naturals, FiniteSets

\* The elements of s at the positions P, in the order Before of these.
Arranged(s, P, Before(_, _)) ==
  [k \in 1..Cardinality(P) |->
     s[CHOOSE i \in P : Cardinality({j \in P : Before(j, i)}) = k - 1]]

\* What filter takes and retain leaves, in the order it is in.
Picked(s, P) == LET before(i, j) == i < j IN Arranged(s, P, before)
=============================================================================
