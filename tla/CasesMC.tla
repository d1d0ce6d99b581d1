------------------------------ MODULE CasesMC ------------------------------
(* Cases for TLC: adm is an admin, everyone else an analyst. *)
EXTENDS Cases, TLC

CONSTANTS adm, i1

Roster == [u \in Users |-> IF u = adm THEN "admin" ELSE "analyst"]

\* A database adds the interleavings of checks and writes; two cases of one ip
\* are enough for them.
FewerWithDb ==
    [use \in BOOLEAN |->
       IF use THEN [ips |-> {i1}, statuses |-> {"closed"}, tasks |-> {{}}, ids |-> 2]
       ELSE [ips |-> Ips, statuses |-> {"open", "closed", "other"},
             tasks |-> SUBSET Tasks, ids |-> MaxId]]

\* With a database, everything on one ip.
AllOnOneIp ==
    [use \in BOOLEAN |-> [ips |-> {i1}, statuses |-> {"open", "closed"},
                          tasks |-> SUBSET Tasks, ids |-> 2]]

Symmetry == Permutations(Requests)

=============================================================================
