----------------------------- MODULE Ascending -------------------------------
(***************************************************************************)
(* What std::sort makes of different numbers.  SetToSortSeq of             *)
(* SequencesExt says the same, by way of an operator that has no           *)
(* definition to prove anything from.                                      *)
(***************************************************************************)
EXTENDS Integers, FiniteSets

(* the element of S that k others are smaller than *)
Nth(S, k) == CHOOSE x \in S : Cardinality({y \in S : y < x}) = k

Ordered(S) == [k \in 1 .. Cardinality(S) |-> Nth(S, k - 1)]
=============================================================================
