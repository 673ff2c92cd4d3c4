----------------------------- MODULE MCFigures ------------------------------
(* The books of a small company.  Customers and items are interchangeable:   *)
(* where a list is cut the query may keep either of two equals, and no       *)
(* property looks at which.                                                  *)
EXTENDS Pulse, TLC

Sym == Permutations(Customers) \cup Permutations(Skus)
=============================================================================
