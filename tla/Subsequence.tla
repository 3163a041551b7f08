----------------------------- MODULE Subsequence ----------------------------
(***************************************************************************)
(* What a Go loop of the form kept := s[:0]; for ... kept = append(kept,   *)
(* e) leaves of a slice: the elements at the positions it keeps, in their  *)
(* order.  It is SelectSeq with the positions given, and without           *)
(* SelectSeq's recursion, so that theorems can be proved about it.         *)
(***************************************************************************)
EXTENDS Integers, Sequences, FiniteSets

\* The place of position j among the positions in K.
Rank(K, j) == Cardinality({k \in K : k <= j})

KeptAt(s, K) ==
    [n \in 1..Cardinality(K) |-> s[CHOOSE j \in K : Rank(K, j) = n]]
=============================================================================
