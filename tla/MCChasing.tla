----------------------------- MODULE MCChasing ------------------------------
(* Values for TLC: the four rungs begin one day apart. *)
EXTENDS Chasing, TLC

MCFromDays     == [l \in 1..4 |-> l]
MCCooldownDays == [l \in 1..4 |-> IF l < 3 THEN 1 ELSE 2]

\* Settlers, and requesters, differ in nothing but their names.
MCSymmetry == Permutations(Settlers) \cup Permutations(Requesters)
=============================================================================
