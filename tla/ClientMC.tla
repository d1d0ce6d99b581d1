------------------------------ MODULE ClientMC ------------------------------
(* Client for TLC: a tab, another tab of the same browser, and two people.  *)
(* No symmetry: it would not be sound with the liveness properties.         *)
EXTENDS Client

=============================================================================
