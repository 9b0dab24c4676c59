----------------------------- MODULE Numbering ------------------------------
(***************************************************************************)
(* The order of a list: identifiers stand for names, and the entry with    *)
(* number i is the one of rank i.  (SetToSortSeq of the community modules  *)
(* is defined by TLC's SortSeq, which the provers cannot expand.)          *)
(***************************************************************************)
EXTENDS Naturals, Sequences, FiniteSets

Rank(S, x) == Cardinality({y \in S : y <= x})

Ordered(S) == [i \in 1..Cardinality(S) |-> CHOOSE x \in S : Rank(S, x) = i]
=============================================================================
