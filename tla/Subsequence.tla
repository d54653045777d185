----------------------------- MODULE Subsequence -----------------------------
(***************************************************************************)
(* The elements of a sequence that stand at given indices, in their order: *)
(* what SelectSeq picks, in a form that can be reasoned about.             *)
(***************************************************************************)
EXTENDS Naturals, Sequences, FiniteSets

\* How many of the indices come up to i.
Rank(indices, i) == Cardinality({j \in indices : j <= i})

Among(s, indices) ==
  [k \in 1..Cardinality(indices) |-> s[CHOOSE i \in indices : Rank(indices, i) = k]]
==============================================================================
