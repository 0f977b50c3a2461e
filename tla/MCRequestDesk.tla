---------------------------- MODULE MCRequestDesk ----------------------------
(* RequestDesk for TLC: the customers are interchangeable.                 *)
EXTENDS RequestDesk, TLC

Symmetry == Permutations(Customers)
=============================================================================
