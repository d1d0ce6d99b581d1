------------------------------- MODULE Cases -------------------------------
(***************************************************************************)
(* Incidents: the requests that open them, change them and work on them    *)
(* (routers/incidents.py, routers/alerts.py), the deletion of the user     *)
(* they are assigned to (user_admin.py), the detection rules that open     *)
(* them (store.py) and what a restart does to them (main.py).              *)
(*                                                                         *)
(* With a database a handler loads the incident, checks it, and writes in  *)
(* a later step; other requests run in between.  Without one the handler   *)
(* does not yield between check and write.  The result of a SELECT and the *)
(* code that runs on it up to the next await are one step.                 *)
(*                                                                         *)
(* An id INC-1001, INC-1002, ... is its number 1, 2, ...                   *)
(* Whether there is a database is decided once, when Init chooses db.      *)
(***************************************************************************)
EXTENDS Naturals, FiniteSets, Authz

CONSTANTS Users,
          Role,         \* the role of each user
          Ips,
          Tasks,        \* task indexes of the playbook
          Requests,     \* slots for concurrent requests
          Cascade,      \* does the database delete notes and tasks with the
                        \* incident (Postgres does; SQLite, as opened here, not)
          ClearAbove,   \* startup deletes all incidents when there are more (50)
          MemoryCap,    \* incidents_store's maxlen (50)
          NoCase,       \* no incident has this id
          MaxId,        \* bound: the largest id
          Bound         \* bound: without a database and with one, the ips cases
                        \* are opened for, the statuses and sets of completed
                        \* tasks clients send and the number of ids drawn

ASSUME RoleAssumption == Role \in [Users -> Roles]
ASSUME CascadeAssumption == Cascade \in BOOLEAN

ASSUME BoundAssumption ==
    /\ MaxId \in Nat
    /\ \A use \in BOOLEAN : /\ Bound[use].ips \subseteq Ips
                            /\ Bound[use].tasks \subseteq SUBSET Tasks
                            /\ Bound[use].ids \in 0..MaxId

Ids == 1..MaxId

Case == [ip : Ips, status : INCIDENT_STATUSES, assigned_to : Users \cup {NoUser}]

ASSUME CaseAssumption == NoCase \notin Case /\ NoUser \notin Users

Actor == {[username |-> u, role |-> Role[u]] : u \in Users}

PatchBody == [has : SUBSET {"status", "assigned_to"},
              status : Bound[FALSE].statuses \cup Bound[TRUE].statuses,
              assigned_to : Users \cup {NoUser}]

Idle == [pc |-> "idle"]

\* Where a request can be waiting: for its handler to start,
AdmittedRequest == [pc : {"admitted"}, actor : Actor]

\* for the UPDATE of an incident,
PatchRequest == [pc : {"patch"}, actor : Actor, id : Ids, fields : PatchBody,
                 seen : Users \cup {NoUser}]

\* for the INSERT of a note, the DELETE of the tasks or the INSERT of new ones,
WorkRequest == [pc : {"note", "tasks", "commit"}, actor : Actor, id : Ids,
                set : SUBSET Tasks, seen : SUBSET Tasks]

\* for the INSERT of an incident, the UPDATE that deletes a user, and the one
\* that takes the user's incidents away.
InsertRequest == [pc : {"insert"}, actor : Actor, id : Ids, ip : Ips]
DeleteRequest == [pc : {"delete", "unassign"}, user : Users]

Request == {Idle} \cup AdmittedRequest \cup PatchRequest \cup WorkRequest
             \cup InsertRequest \cup DeleteRequest

VARIABLES db,           \* is there a DATABASE_URL
          cases,        \* the incidents table, or incidents_store
          notes,        \* the ids that notes are stored under
          done,         \* the completed tasks under each id
          counter,      \* _incident_counter
          active,       \* the users get_user finds
          activeDb,     \* the users not deleted in the users table
          req,          \* the requests in progress
          by            \* history: the user of the last change of an incident

vars == <<db, cases, notes, done, counter, active, activeDb, req, by>>
work == <<notes, done>>
users == <<active, activeDb>>

\* The value of an absent key makes no difference: NoUser stands for any.
PatchInput == {body \in PatchBody : /\ body.status \in Bound[db].statuses
                                    /\ "assigned_to" \in body.has \/ body.assigned_to = NoUser}

Exists(id) == cases[id] # NoCase

OpenFor(ip) == {id \in Ids : IF Exists(id) THEN cases[id].ip = ip /\ cases[id].status # "closed"
                             ELSE FALSE}

Init ==
    /\ db \in BOOLEAN
    /\ cases = [id \in Ids |-> NoCase]
    /\ notes = {}
    /\ done = [id \in Ids |-> {}]
    /\ counter = 0
    /\ active = Users
    /\ activeDb = IF db THEN Users ELSE {}
    /\ req = [r \in Requests |-> Idle]
    /\ by = NoUser

Finish(r) == req' = [req EXCEPT ![r] = Idle]

\* verify_token, in the thread pool, before the handler runs.
Admit(r) ==
    /\ req[r] = Idle
    /\ \E u \in active :
         req' = [req EXCEPT ![r] = [pc |-> "admitted",
                                    actor |-> [username |-> u, role |-> Role[u]]]]
    /\ UNCHANGED <<cases, work, counter, users, by>>

\* The handler only reads, or a check refuses the request.
ReadOrRefuse(r) ==
    /\ req[r].pc = "admitted"
    /\ Finish(r)
    /\ UNCHANGED <<cases, work, counter, users, by>>

-----------------------------------------------------------------------------
(* PATCH /api/incidents/{id}. *)

Patched(case, fields) ==
    [case EXCEPT !.status      = IF "status" \in fields.has THEN fields.status ELSE @,
                 !.assigned_to = IF "assigned_to" \in fields.has THEN fields.assigned_to ELSE @]

Patch(r, id, body) ==
    /\ req[r].pc = "admitted"
    /\ Exists(id)
    /\ CheckIncidentPatch(req[r].actor, cases[id], body, active) = "ok"
    /\ LET fields == [body EXCEPT !.has = PatchFields(cases[id], body)]
       IN  IF db
           THEN /\ req' = [req EXCEPT ![r] =
                      [pc |-> "patch", actor |-> req[r].actor, id |-> id,
                       fields |-> fields, seen |-> cases[id].assigned_to]]
                /\ UNCHANGED <<cases, by>>
           ELSE /\ cases' = [cases EXCEPT ![id] = Patched(@, fields)]
                /\ by' = req[r].actor.username
                /\ Finish(r)
    /\ UNCHANGED <<work, counter, users>>

\* Mutant: the UPDATE is not conditional on the assignee.
UnmovedAlways(id, seen) == Exists(id)

\* The row the conditional UPDATE matches.
Unmoved(id, seen) == IF Exists(id) THEN cases[id].assigned_to = seen ELSE FALSE

\* No row matches: the answer is 404 or 409 and nothing is written.
PatchWrite(r) ==
    /\ req[r].pc = "patch"
    /\ IF Unmoved(req[r].id, req[r].seen)
       THEN /\ cases' = [cases EXCEPT ![req[r].id] = Patched(@, req[r].fields)]
            /\ by' = req[r].actor.username
       ELSE UNCHANGED <<cases, by>>
    /\ Finish(r)
    /\ UNCHANGED <<work, counter, users>>

-----------------------------------------------------------------------------
(* POST /api/incidents/{id}/notes and PATCH /api/incidents/{id}/tasks. *)

MayWorkNow(r, id) == CheckWorkOnIncident(req[r].actor, cases[id]) = "ok"

StartWork(r, pc, id, set) ==
    req' = [req EXCEPT ![r] = [pc |-> pc, actor |-> req[r].actor, id |-> id,
                               set |-> set, seen |-> {}]]

AddNote(r, id) ==
    /\ req[r].pc = "admitted"
    /\ Exists(id)
    /\ MayWorkNow(r, id)
    /\ IF db
       THEN StartWork(r, "note", id, {}) /\ UNCHANGED notes
       ELSE notes' = notes \cup {id} /\ Finish(r)
    /\ UNCHANGED <<cases, done, counter, users, by>>

\* DbIncidents.add_note looks for the incident again; the assignee is not.
NoteWrite(r) ==
    /\ req[r].pc = "note"
    /\ notes' = IF Exists(req[r].id) THEN notes \cup {req[r].id} ELSE notes
    /\ Finish(r)
    /\ UNCHANGED <<cases, done, counter, users, by>>

SetTasks(r, id, set) ==
    /\ req[r].pc = "admitted"
    /\ Exists(id)
    /\ MayWorkNow(r, id)
    /\ IF db
       THEN StartWork(r, "tasks", id, set) /\ UNCHANGED done
       ELSE done' = [done EXCEPT ![id] = set] /\ Finish(r)
    /\ UNCHANGED <<cases, notes, counter, users, by>>

\* The DELETE covers the rows committed when it runs.
TasksDelete(r) ==
    /\ req[r].pc = "tasks"
    /\ IF Exists(req[r].id)
       THEN req' = [req EXCEPT ![r].pc = "commit", ![r].seen = done[req[r].id]]
       ELSE Finish(r)
    /\ UNCHANGED <<cases, work, counter, users, by>>

\* A row committed since by another request is a duplicate key or stays; what
\* this request replaces is out of the reach of the DELETEs already run.
TasksWrite(r) ==
    /\ req[r].pc = "commit"
    /\ LET id == req[r].id
           rest == done[id] \ req[r].seen
       IN  IF rest \cap req[r].set # {}
           THEN Finish(r) /\ UNCHANGED done
           ELSE /\ done' = [done EXCEPT ![id] = rest \cup req[r].set]
                /\ req' = [q \in Requests |->
                     IF q = r THEN Idle
                     ELSE IF req[q].pc = "commit" /\ req[q].id = id
                     THEN [req[q] EXCEPT !.seen = @ \ (req[r].seen \cup req[r].set)]
                     ELSE req[q]]
    /\ UNCHANGED <<cases, notes, counter, users, by>>

-----------------------------------------------------------------------------
(* POST /api/incidents/from-ip and /api/alerts/{id}/case. *)

NewId == counter + 1

\* appendleft on a full deque drops the oldest incident.
Oldest == CHOOSE id \in Ids : Exists(id) /\ \A other \in Ids : Exists(other) => id <= other

Evicted == IF Cardinality({id \in Ids : Exists(id)}) < MemoryCap THEN {} ELSE {Oldest}

AddInMemory(id, case) ==
    /\ cases' = [i \in Ids |-> IF i = id THEN case
                               ELSE IF i \in Evicted THEN NoCase ELSE cases[i]]
    /\ notes' = notes \ Evicted
    /\ done' = [i \in Ids |-> IF i \in Evicted THEN {} ELSE done[i]]

OpenedBy(user, ip) == [ip |-> ip, status |-> "open", assigned_to |-> user.username]

\* The open cases open_case_for_ip can return.
Found(ip) == OpenFor(ip)

\* An open case for the ip is answered as it is.
OpenCase(r, ip) ==
    /\ req[r].pc = "admitted"
    /\ IF Found(ip) # {}
       THEN Finish(r) /\ UNCHANGED <<cases, work, counter, by>>
       ELSE /\ NewId <= Bound[db].ids
            /\ counter' = NewId
            /\ IF db
               THEN /\ req' = [req EXCEPT ![r] = [pc |-> "insert", actor |-> req[r].actor,
                                                  id |-> NewId, ip |-> ip]]
                    /\ UNCHANGED <<cases, work, by>>
               ELSE /\ AddInMemory(NewId, OpenedBy(req[r].actor, ip))
                    /\ by' = req[r].actor.username
                    /\ Finish(r)
    /\ UNCHANGED users

\* The primary key refuses an id that is taken.
InsertWrite(r) ==
    /\ req[r].pc = "insert"
    /\ IF Exists(req[r].id)
       THEN UNCHANGED <<cases, by>>
       ELSE /\ cases' = [cases EXCEPT ![req[r].id] = OpenedBy(req[r].actor, req[r].ip)]
            /\ by' = req[r].actor.username
    /\ Finish(r)
    /\ UNCHANGED <<work, counter, users>>

\* _create_incident.  With a database it goes to the store nothing reads then,
\* and uses up an id.
Detect ==
    /\ NewId <= Bound[db].ids
    /\ counter' = NewId
    /\ IF db
       THEN UNCHANGED <<cases, work>>
       ELSE \E ip \in Ips, status \in Bound[db].statuses \cap INCIDENT_STATUSES,
               u \in {a \in active : Role[a] = "analyst"} \cup {NoUser} :
              AddInMemory(NewId, [ip |-> ip, status |-> status, assigned_to |-> u])
    /\ UNCHANGED <<users, req, by>>

-----------------------------------------------------------------------------
(* DELETE /api/users/{username}, and restarts. *)

Releases(case, u) == case.assigned_to = u /\ case.status # "closed"

Unassigned(u) ==
    [id \in Ids |-> IF ~Exists(id) THEN NoCase
                    ELSE IF Releases(cases[id], u)
                    THEN [cases[id] EXCEPT !.assigned_to = NoUser]
                    ELSE cases[id]]

Account(u) == [role |-> Role[u], deleted |-> u \notin active]

DeleteUser(r, u) ==
    /\ req[r].pc = "admitted"
    /\ CheckUserDelete(req[r].actor, u, Account(u)) = "ok"
    /\ active' = active \ {u}
    /\ IF db
       THEN /\ req' = [req EXCEPT ![r] = [pc |-> "delete", user |-> u]]
            /\ UNCHANGED cases
       ELSE cases' = Unassigned(u) /\ Finish(r)
    /\ UNCHANGED <<work, counter, activeDb, by>>

DeleteWrite(r) ==
    /\ req[r].pc = "delete"
    /\ activeDb' = activeDb \ {req[r].user}
    /\ req' = [req EXCEPT ![r].pc = "unassign"]
    /\ UNCHANGED <<cases, work, counter, active, by>>

UnassignWrite(r) ==
    /\ req[r].pc = "unassign"
    /\ cases' = Unassigned(req[r].user)
    /\ Finish(r)
    /\ UNCHANGED <<work, counter, users, by>>

\* A write raises: the request fails.  Only the deletion itself is undone.
WriteFails(r) ==
    /\ req[r].pc \notin {"idle", "admitted"}
    /\ active' = IF req[r].pc = "delete" THEN active \cup {req[r].user} ELSE active
    /\ Finish(r)
    /\ UNCHANGED <<cases, work, counter, activeDb, by>>

Largest(S) == IF S = {} THEN 0 ELSE CHOOSE n \in S : \A m \in S : m <= n

\* Mutant: the counter continues after the number of incidents.
CountOf(kept) == Cardinality(kept)

\* The counter continues after the largest id of the table.
Reseed(kept) == Largest(kept)

\* Mutant: notes and tasks are left behind whatever the database.
KeepAllWork(kept) == IF db THEN Ids ELSE kept

\* The ids whose notes and tasks stay.
KeepWork(kept) == IF db /\ ~Cascade THEN Ids ELSE kept

\* The process stops, taking every request with it, and starts again.
\* (Without a database the users are created anew.)
Restart ==
    /\ req' = [r \in Requests |-> Idle]
    /\ LET stored == IF db THEN {id \in Ids : Exists(id)} ELSE {}
           kept == IF Cardinality(stored) > ClearAbove THEN {} ELSE stored
           keep == KeepWork(kept)
       IN  /\ cases' = [id \in Ids |-> IF id \in kept THEN cases[id] ELSE NoCase]
           /\ notes' = notes \cap keep
           /\ done' = [id \in Ids |-> IF id \in keep THEN done[id] ELSE {}]
           /\ counter' = Reseed(kept)
    /\ active' = IF db THEN activeDb ELSE Users
    /\ UNCHANGED <<activeDb, by>>

RequestStep(r) ==
    \/ Admit(r)
    \/ ReadOrRefuse(r)
    \/ \E id \in Ids, body \in PatchInput : Patch(r, id, body)
    \/ PatchWrite(r)
    \/ \E id \in Ids : AddNote(r, id)
    \/ NoteWrite(r)
    \/ \E id \in Ids, set \in Bound[db].tasks : SetTasks(r, id, set)
    \/ TasksDelete(r)
    \/ TasksWrite(r)
    \/ \E ip \in Bound[db].ips : OpenCase(r, ip)
    \/ InsertWrite(r)
    \/ \E u \in Users : DeleteUser(r, u)
    \/ DeleteWrite(r)
    \/ UnassignWrite(r)
    \/ WriteFails(r)

Next ==
    /\ \/ \E r \in Requests : RequestStep(r)
       \/ Detect
       \/ Restart
    /\ UNCHANGED db

Spec == Init /\ [][Next]_vars

-----------------------------------------------------------------------------
(* Properties. *)

\* Every variable keeps to the values the code gives it.
TypeOK ==
    /\ db \in BOOLEAN
    /\ cases \in [Ids -> Case \cup {NoCase}]
    /\ notes \subseteq Ids
    /\ done \in [Ids -> SUBSET Tasks]
    /\ counter \in Nat
    /\ active \subseteq Users
    /\ activeDb \subseteq Users
    /\ req \in [Requests -> Request]
    /\ by \in Users \cup {NoUser}

Book == INSTANCE CaseBook
          WITH db <- db, cases <- cases, active <- active, by <- by

\* The API keeps the promises of CaseBook although it checks one state of an
\* incident and writes another: a PATCH is permitted by the assignee the
\* incident has when it is written, not only by the one the check saw.
BookSpec == Book!Spec

\* An id given to a new case belongs to no other, on disk or about to be
\* written, whatever failed, restarted or was cleared before (main.py reseeds
\* the counter from the table).
IdsNeverClash ==
    \A r \in Requests : req[r].pc = "insert" =>
      /\ ~Exists(req[r].id)
      /\ \A q \in Requests \ {r} : req[q].pc = "insert" => req[q].id # req[r].id

\* build_incident_for_ip: a new case starts without notes and completed tasks,
\* even when its id was used before startup cleared the table.
NewCaseIsEmpty ==
    [][\A id \in Ids : ~Exists(id) /\ cases'[id] # NoCase
                         => id \notin notes' /\ done'[id] = {}]_vars

\* What id gains in notes and completed tasks comes from a request of someone
\* who may work on the incident as it then is.
WorkBy(id) ==
    /\ Exists(id)
    /\ \E r \in Requests :
         /\ req[r].pc \in {"admitted", "note", "commit"}
         /\ req'[r] = Idle
         /\ CanWorkOnIncident(req[r].actor, cases[id])

GainsWork(id) == id \in notes' \ notes \/ ~(done'[id] \subseteq done[id])

\* Notes and completed tasks are only added by someone who may work on the
\* incident as it then is (README "checked against the incident's current
\* state").  Not kept by the code: with a database the write comes after an await.
WorkAuthorized == [][\A id \in Ids : GainsWork(id) => WorkBy(id)]_vars

\* No open incident is assigned to a user who is gone (README "their open
\* incidents become unassigned"), unless the deletion is still in progress.
\* Not kept by the code: an assignment checked before the deletion lands after it.
OpenCasesHaveHolders ==
    \A id \in Ids : Exists(id) =>
      \/ cases[id].status = "closed"
      \/ cases[id].assigned_to \in active \cup {NoUser}
      \/ \E r \in Requests : req[r].pc \in {"delete", "unassign"}
                              /\ req[r].user = cases[id].assigned_to

\* A restart never takes away a case that a user opened: main.py clears
\* "auto-generated incidents", and those are not in the table.
\* Not kept by the code: every row it clears was opened by a user.
OpenedCasesKept ==
    [][db => \A id \in Ids : Exists(id) => cases'[id] # NoCase]_vars

=============================================================================
