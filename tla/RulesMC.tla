------------------------------- MODULE RulesMC -------------------------------
(* Rules and requests are interchangeable. *)
EXTENDS Rules, TLC

Symmetry == Permutations(Ids) \cup Permutations(Requests)
=============================================================================
