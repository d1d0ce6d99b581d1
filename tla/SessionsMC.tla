----------------------------- MODULE SessionsMC -----------------------------
(* Two interchangeable sessions, two attempts and two logouts at once; an  *)
(* hour's limit takes more than one minute's to reach.                     *)
EXTENDS Sessions, TLC

Few == [ns \in Namespaces |-> [minute |-> 2, hour |-> 3]]

Symmetry == Permutations(Sids) \cup Permutations(Attempts) \cup Permutations(Logouts)
=============================================================================
