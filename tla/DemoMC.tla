------------------------------- MODULE DemoMC -------------------------------
(* An analyst and a manager, one incident of the server and one of the demo. *)
EXTENDS Demo, TLC

alice == [username |-> "alice", role |-> "analyst"]
mia == [username |-> "mia", role |-> "manager"]
AllUsers == {alice, mia}

FreshIncidents == {[assigned_to |-> who, status |-> "open", completed_tasks |-> {}] : who \in {NoUser, "mia"}}

Bodies == [status : {"closed"}] \cup [assigned_to : {"alice", "mia"}] \cup [completed_tasks : {{0}}]

OneCase == <<"d1">>
=============================================================================
