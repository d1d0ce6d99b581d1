----------------------------- MODULE ScreensMC -----------------------------
(* Three alerts in a list of one; an analyst's and a manager's page of two *)
(* incidents.  No symmetry: it would not be sound with liveness.           *)
EXTENDS Screens

People == {[username |-> "alice", role |-> "analyst"], [username |-> "mia", role |-> "manager"]}

OfAlice == {[assigned_to |-> "alice", status |-> "open", done |-> {}, notes |-> <<>>]}

PatchBodies == [status : {"closed"}] \cup [assigned_to : {"alice"}]
=============================================================================
