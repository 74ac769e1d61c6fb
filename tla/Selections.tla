------------------------------ MODULE Selections ------------------------------
(* Sequences made of some places of another one, in their order: what the   *)
(* comprehensions with a condition in the code return.  It says by a count  *)
(* which place comes next, where SelectSeq of the standard module recurses: *)
(* the provers know nothing of SelectSeq.                                   *)
EXTENDS Integers, Sequences, FiniteSets

\* The place of I that has n - 1 places of I before it.
PlaceNumber(I, n) == CHOOSE i \in I : Cardinality({k \in I : k <= i}) = n

\* The elements of s at the places I.
AtPlaces(s, I) == [n \in 1 .. Cardinality(I) |-> s[PlaceNumber(I, n)]]
=============================================================================
