-------------------------------- MODULE Picks --------------------------------
(***************************************************************************)
(* Passes over a list that keep some of its items, in order: the index of  *)
(* the passages, the markers of a text and the rows of the sources are     *)
(* all thinned out this way.                                               *)
(***************************************************************************)
EXTENDS Integers, Sequences, FiniteSets

Nth(positions, n) ==
  CHOOSE i \in positions : Cardinality({k \in positions : k < i}) = n - 1

\* The items of s at some positions; s may be any function on integers.
Picked(s, positions) == [n \in 1 .. Cardinality(positions) |-> s[Nth(positions, n)]]

Without(s, S) == Picked(s, {i \in DOMAIN s : s[i] \notin S})
Only(s, S)    == Picked(s, {i \in DOMAIN s : s[i] \in S})
=============================================================================
