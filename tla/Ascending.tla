------------------------------ MODULE Ascending ------------------------------
(***************************************************************************)
(* A set of numbers in ascending order, which is how a BTreeSet is walked  *)
(* and what sort_unstable and dedup leave.                                 *)
(***************************************************************************)
EXTENDS Naturals, FiniteSets

Sorted(S) ==
  [x \in 1..Cardinality(S) |-> CHOOSE i \in S : Cardinality({j \in S : j < i}) = x - 1]

=============================================================================
