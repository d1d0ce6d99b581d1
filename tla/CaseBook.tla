------------------------------ MODULE CaseBook ------------------------------
(***************************************************************************)
(* What the incident API promises, whatever its storage: a change of an    *)
(* incident is permitted by the incident as it is at the moment it         *)
(* changes, a new case belongs to the user who opened it, and only open    *)
(* cases of users who are gone become unassigned by themselves.            *)
(* Cases.tla implements it with a check, an await and a conditional write. *)
(***************************************************************************)
EXTENDS Authz

CONSTANTS Users,
          Role,         \* the role of each user
          Ips,
          Ids,          \* incident ids
          NoCase        \* no incident has this id

Case == [ip : Ips, status : INCIDENT_STATUSES, assigned_to : Users \cup {NoUser}]

User(u) == [username |-> u, role |-> Role[u]]

VARIABLES db,           \* are incidents kept in a database
          cases,        \* the incidents
          active,       \* the users who exist and are not deleted
          by            \* who made the last change of an incident

book == <<db, cases, active, by>>

Init == /\ db \in BOOLEAN
        /\ cases = [id \in Ids |-> NoCase]
        /\ active = Users
        /\ by = NoUser

\* The case of id becomes next, a case; without a database, the oldest of the
\* other cases may have to go.
Put(id, next, mayDrop) ==
    /\ next \in Case
    /\ cases' \in [Ids -> Case \cup {NoCase}]
    /\ cases'[id] = next
    /\ \A i \in Ids \ {id} : cases'[i] = cases[i] \/ (mayDrop /\ cases'[i] = NoCase)
    /\ UNCHANGED active

\* A user opens a case, which is theirs.
Open(u, id, ip) ==
    /\ cases[id] = NoCase
    /\ Put(id, [ip |-> ip, status |-> "open", assigned_to |-> u], ~db)
    /\ by' = u

\* A detection rule opens one, in memory.
Detect(id) ==
    /\ ~db
    /\ cases[id] = NoCase
    /\ Put(id, cases'[id], TRUE)
    /\ UNCHANGED by

\* The case as it stands lets u make the whole change.
MayChange(u, now, next) ==
    /\ next.ip = now.ip
    /\ next.status # now.status => CanWorkOnIncident(User(u), now)
    /\ next.assigned_to # now.assigned_to =>
         \/ Role[u] \in INCIDENT_LEADS
         \/ now.assigned_to = NoUser /\ next.assigned_to = u

Change(u, id) ==
    /\ cases[id] # NoCase
    /\ Put(id, cases'[id], FALSE)
    /\ MayChange(u, cases[id], cases'[id])
    /\ by' = u

Held(u, id) == IF cases[id] = NoCase THEN FALSE
               ELSE cases[id].assigned_to = u /\ cases[id].status # "closed"

Released(u) == [id \in Ids |-> IF Held(u, id) THEN [cases[id] EXCEPT !.assigned_to = NoUser]
                               ELSE cases[id]]

\* The open cases of a user who is gone, or goes now, become unassigned.
Release(u) ==
    /\ active' \in {active, active \ {u}}
    /\ u \notin active'
    /\ cases' = Released(u)
    /\ UNCHANGED by

\* Users are deleted, or come back when the deletion fails.
ChangeUsers(remaining) == active' = remaining /\ UNCHANGED <<cases, by>>

\* The process starts again, with the incidents it still has.
StartAgain(kept, remaining) ==
    /\ active' = remaining
    /\ cases' = [id \in Ids |-> IF id \in kept THEN cases[id] ELSE NoCase]
    /\ UNCHANGED by

Next ==
    /\ \/ \E u \in Users, id \in Ids, ip \in Ips : Open(u, id, ip)
       \/ \E id \in Ids : Detect(id)
       \/ \E u \in Users, id \in Ids : Change(u, id)
       \/ \E u \in Users : Release(u)
       \/ \E remaining \in SUBSET Users : ChangeUsers(remaining)
       \/ \E kept \in SUBSET Ids, remaining \in SUBSET Users : StartAgain(kept, remaining)
    /\ UNCHANGED db

Spec == Init /\ [][Next]_book

=============================================================================
