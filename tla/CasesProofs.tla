---------------------------- MODULE CasesProofs ----------------------------
(***************************************************************************)
(* Theorems about Cases: for every set of users, ips, tasks and requests,  *)
(* with and without a database.  The last one is that Cases implements     *)
(* CaseBook.                                                               *)
(***************************************************************************)
EXTENDS Cases, Integers, TLAPS, WellFoundedInduction

\* Every id in use is one the counter has passed; one about to be inserted is
\* in use nowhere else.
IdsInv ==
    /\ \A id \in Ids : Exists(id) => id <= counter
    /\ \A r \in Requests : req[r].pc = "insert" => req[r].id <= counter /\ ~Exists(req[r].id)
    /\ \A r, q \in Requests :
         req[r].pc = "insert" /\ req[q].pc = "insert" /\ req[r].id = req[q].id => r = q

\* An UPDATE on its way is permitted if the incident has the assignee that the
\* check saw.
Permitted(actor, fields, seen) ==
    /\ "status" \in fields.has => /\ fields.status \in INCIDENT_STATUSES
                                  /\ actor.role \in INCIDENT_LEADS \/ seen = actor.username
    /\ "assigned_to" \in fields.has =>
         \/ actor.role \in INCIDENT_LEADS
         \/ seen = NoUser /\ fields.assigned_to = actor.username

CheckedInv ==
    \A r \in Requests :
      req[r].pc = "patch" => Permitted(req[r].actor, req[r].fields, req[r].seen)

\* A user who is being deleted is not active, and is being deleted once.
Leaving(r) == req[r].pc \in {"delete", "unassign"}

LeavingInv ==
    /\ \A r \in Requests : Leaving(r) => req[r].user \notin active
    /\ \A r, q \in Requests : Leaving(r) /\ Leaving(q) /\ req[r].user = req[q].user => r = q

\* Only with a database does a request wait between its check and its write.
WaitingInv ==
    \A r \in Requests : /\ req[r].pc \notin {"idle", "admitted"} => db
                        /\ req[r].pc = "commit" => Exists(req[r].id)

\* Where the database deletes notes and tasks with the incident, and in memory,
\* there are none without it.
EmptyInv ==
    ~db \/ Cascade => \A id \in Ids : ~Exists(id) => id \notin notes /\ done[id] = {}

CaseInv == TypeOK /\ IdsInv /\ CheckedInv /\ LeavingInv /\ WaitingInv /\ EmptyInv

\* A step that opens a case brings no notes and no completed tasks.
OpensEmpty ==
    \A id \in Ids : ~Exists(id) /\ cases'[id] # NoCase =>
      /\ id \in notes' => id \in notes
      /\ done'[id] \subseteq done[id]

\* What has to be shown of every step.
CaseStep == CaseInv' /\ OpensEmpty /\ [Book!Next]_Book!book

-----------------------------------------------------------------------------
(* Lemmas on the operators. *)

LEMMA Shapes ==
    ASSUME NEW q \in Request
    PROVE  /\ q.pc = "admitted" => q \in AdmittedRequest
           /\ q.pc = "patch" => q \in PatchRequest
           /\ q.pc \in {"note", "tasks", "commit"} => q \in WorkRequest
           /\ q.pc = "insert" => q \in InsertRequest
           /\ q.pc \in {"delete", "unassign"} => q \in DeleteRequest
  BY DEF Request, Idle, AdmittedRequest, PatchRequest, WorkRequest, InsertRequest, DeleteRequest

LEMMA ActorIs ==
    ASSUME NEW actor \in Actor
    PROVE  /\ actor.username \in Users /\ actor.role = Role[actor.username]
           /\ actor = [username |-> actor.username, role |-> Role[actor.username]]
  BY DEF Actor

\* A set of ids has a largest one.
LEMMA LargestIs ==
    ASSUME NEW S \in SUBSET Ids
    PROVE  Largest(S) \in Nat /\ \A n \in S : n <= Largest(S)
  <1>1. CASE S = {}
    BY <1>1 DEF Largest
  <1>2. CASE S # {}
    <2> DEFINE T == {k \in Nat : \E n \in S : n + k = MaxId}
    <2>1. /\ MaxId \in Nat
          /\ \A n \in S : n \in Nat /\ MaxId - n \in Nat /\ n + (MaxId - n) = MaxId
      BY BoundAssumption DEF Ids
    <2>2. T \subseteq Nat /\ T # {} /\ \A n \in S : MaxId - n \in T
      BY <1>2, <2>1
    <2>3. PICK x \in T : \A y \in T : ~ (<<y, x>> \in OpToRel(<, Nat))
      <3> HIDE DEF T
      <3> QED BY <2>2, NatLessThanWellFounded, WFMin
    <2>4. PICK n \in S : n + x = MaxId
      BY <2>3
    <2>5. x \in Nat
      BY <2>2, <2>3
    <2>6. \A m \in S : m <= n
      <3> SUFFICES ASSUME NEW m \in S PROVE m <= n
        OBVIOUS
      <3> HIDE DEF T
      <3>1. MaxId - m \in T /\ MaxId - m \in Nat
        BY <2>1, <2>2
      <3>2. <<MaxId - m, x>> \notin OpToRel(<, Nat)
        BY <2>3, <3>1
      <3>3. ~(MaxId - m < x)
        BY <2>5, <3>1, <3>2 DEF OpToRel
      <3> QED BY <2>1, <2>4, <2>5, <3>1, <3>3
    <2>7. Largest(S) \in S /\ \A m \in S : m <= Largest(S)
      BY <1>2, <2>6 DEF Largest
    <2> QED BY <2>1, <2>7
  <1> QED BY <1>1, <1>2

\* A new id is one of the bounded ids.
LEMMA NewIdIs ==
    ASSUME TypeOK, NewId <= Bound[db].ids
    PROVE  NewId \in Ids /\ NewId \in Nat /\ counter < NewId
  <1>1. db \in BOOLEAN /\ counter \in Nat
    BY DEF TypeOK
  <1>2. Bound[db].ids \in 0..MaxId /\ MaxId \in Nat
    BY <1>1, BoundAssumption
  <1> QED BY <1>1, <1>2 DEF NewId, Ids

LEMMA PatchedIs ==
    ASSUME NEW actor \in Actor, NEW case \in Case, NEW fields \in PatchBody,
           Permitted(actor, fields, case.assigned_to)
    PROVE  /\ Patched(case, fields) \in Case
           /\ Book!MayChange(actor.username, case, Patched(case, fields))
  <1> DEFINE next == Patched(case, fields)
  <1>1. /\ next.ip = case.ip
        /\ next.status = (IF "status" \in fields.has THEN fields.status ELSE case.status)
        /\ next.assigned_to = (IF "assigned_to" \in fields.has THEN fields.assigned_to
                               ELSE case.assigned_to)
    BY DEF Patched, Case
  <1>2. next \in Case
    <2>1. "status" \in fields.has => fields.status \in INCIDENT_STATUSES
      BY DEF Permitted
    <2>2. fields.assigned_to \in Users \cup {NoUser}
      BY DEF PatchBody
    <2> QED BY <2>1, <2>2 DEF Patched, Case
  <1> HIDE DEF next
  <1>3. Book!MayChange(actor.username, case, next)
    BY <1>1, ActorIs DEF Book!MayChange, Book!CanWorkOnIncident, Book!User, Permitted,
                         Book!INCIDENT_LEADS, INCIDENT_LEADS
  <1> QED BY <1>2, <1>3 DEF next

\* What check_incident_patch accepts is permitted.
LEMMA CheckedPatch ==
    ASSUME TypeOK, NEW actor \in Actor, NEW case \in Case, NEW body \in PatchBody,
           CheckIncidentPatch(actor, case, body, active) = "ok"
    PROVE  /\ [body EXCEPT !.has = PatchFields(case, body)] \in PatchBody
           /\ Permitted(actor, [body EXCEPT !.has = PatchFields(case, body)], case.assigned_to)
  <1> DEFINE fields == [body EXCEPT !.has = PatchFields(case, body)]
  <1>1. /\ fields \in PatchBody /\ fields.has = PatchFields(case, body)
        /\ fields.status = body.status /\ fields.assigned_to = body.assigned_to
    BY DEF PatchBody, PatchFields
  <1>2. /\ "status" \in PatchFields(case, body) => "status" \in body.has
        /\ "status" \in body.has => body.status \in INCIDENT_STATUSES
                                    /\ CanWorkOnIncident(actor, case)
        /\ "assigned_to" \in PatchFields(case, body) =>
             CheckAssignment(actor, case, body.assigned_to, active) = "ok"
    BY DEF CheckIncidentPatch, CheckWorkOnIncident, PatchFields
  <1> HIDE DEF fields
  <1>3. Permitted(actor, fields, case.assigned_to)
    BY <1>1, <1>2 DEF Permitted, CanWorkOnIncident, CheckAssignment
  <1> QED BY <1>1, <1>3 DEF fields

-----------------------------------------------------------------------------
(* Lemmas on the steps of a request. *)

\* What a step of r leaves of the other requests: all of them, but for what a
\* transaction has seen.
Others(r) ==
    \A p \in Requests \ {r} :
      \/ req'[p] = req[p]
      \/ req[p].pc = "commit" /\ req'[p].pc = "commit" /\ req'[p].id = req[p].id

LEMMA Waits ==
    ASSUME TypeOK, NEW r \in Requests, NEW q \in Request, req' = [req EXCEPT ![r] = q]
    PROVE  req' \in [Requests -> Request] /\ req'[r] = q /\ Others(r)
  BY DEF TypeOK, Others

LEMMA Ends ==
    ASSUME TypeOK, NEW r \in Requests, Finish(r)
    PROVE  req' \in [Requests -> Request] /\ req'[r] = Idle /\ req'[r].pc = "idle" /\ Others(r)
  BY DEF TypeOK, Others, Finish, Request, Idle

\* A step of one request keeps what is known of all of them.
LEMMA Turn ==
    ASSUME CaseInv, NEW r \in Requests, UNCHANGED db,
           req' \in [Requests -> Request], Others(r),
           counter' \in Nat, counter <= counter',
           \A id \in Ids : ~Exists(id) /\ Exists(id)' =>
             id <= counter' /\ \A p \in Requests : req'[p].pc = "insert" => req'[p].id # id,
           db => \A id \in Ids : Exists(id) => Exists(id)',
           req'[r].pc \notin {"idle", "admitted"} => db,
           req'[r].pc = "patch" => Permitted(req'[r].actor, req'[r].fields, req'[r].seen),
           req'[r].pc = "insert" =>
             counter < req'[r].id /\ req'[r].id <= counter' /\ cases'[req'[r].id] = NoCase,
           req'[r].pc = "commit" => cases'[req'[r].id] # NoCase,
           \A p \in Requests \ {r} : Leaving(p) => req[p].user \notin active',
           req'[r].pc \in {"delete", "unassign"} =>
             /\ req'[r].user \notin active'
             /\ \A p \in Requests \ {r} : Leaving(p) => req[p].user # req'[r].user
    PROVE  IdsInv' /\ CheckedInv' /\ LeavingInv' /\ WaitingInv'
  <1>1. \A p \in Requests : req'[p] \in Request /\ req[p] \in Request
    BY DEF CaseInv, TypeOK
  <1>2. \A p \in Requests : /\ req'[p].pc = "insert" => req'[p].id \in Ids
                            /\ req[p].pc \in {"insert", "commit"} => req[p].id \in Ids
    BY <1>1, Shapes DEF InsertRequest, WorkRequest
  <1>3. counter \in Nat /\ Ids \subseteq Nat
    BY DEF CaseInv, TypeOK, Ids
  <1>4. \A p \in Requests \ {r} : req'[p].pc = "insert" =>
          /\ req[p].pc = "insert" /\ req'[p].id = req[p].id
          /\ req[p].id <= counter /\ ~Exists(req[p].id)
    BY DEF Others, CaseInv, IdsInv
  <1>5. IdsInv'
    <2>1. \A id \in Ids : cases'[id] # NoCase => id <= counter'
      <3> SUFFICES ASSUME NEW id \in Ids, cases'[id] # NoCase PROVE id <= counter'
        OBVIOUS
      <3>1. CASE cases[id] = NoCase
        BY <3>1 DEF Exists
      <3>2. CASE cases[id] # NoCase
        BY <3>2, <1>3 DEF Exists, CaseInv, IdsInv
      <3> QED BY <3>1, <3>2
    <2>2. \A p \in Requests : req'[p].pc = "insert" =>
            req'[p].id <= counter' /\ cases'[req'[p].id] = NoCase
      <3> SUFFICES ASSUME NEW p \in Requests, req'[p].pc = "insert"
                   PROVE  req'[p].id <= counter' /\ cases'[req'[p].id] = NoCase
        OBVIOUS
      <3>1. CASE p = r
        BY <3>1
      <3>2. CASE p # r
        <4>1. req'[p].id \in Ids /\ req'[p].id <= counter /\ cases[req'[p].id] = NoCase
          BY <3>2, <1>2, <1>4 DEF Exists
        <4>2. cases'[req'[p].id] = NoCase
          BY <4>1 DEF Exists
        <4>3. req'[p].id \in Nat
          BY <4>1, <1>3
        <4>4. req'[p].id <= counter'
          BY <4>1, <4>3, <1>3
        <4> QED BY <4>2, <4>4
      <3> QED BY <3>1, <3>2
    <2>3. \A p, q \in Requests :
            req'[p].pc = "insert" /\ req'[q].pc = "insert" /\ req'[p].id = req'[q].id => p = q
      <3> SUFFICES ASSUME NEW p \in Requests, NEW q \in Requests, req'[p].pc = "insert",
                          req'[q].pc = "insert", req'[p].id = req'[q].id
                   PROVE  p = q
        OBVIOUS
      <3>1. req'[p].id \in Nat /\ req'[q].id \in Nat
        BY <1>2, <1>3
      <3>2. CASE p # r /\ q # r
        BY <3>2, <1>4 DEF CaseInv, IdsInv
      <3>3. CASE p = r /\ q # r
        <4>1. req'[q].id <= counter /\ counter < req'[p].id
          BY <3>3, <1>4
        <4> QED BY <4>1, <3>1, <1>3
      <3>4. CASE p # r /\ q = r
        <4>1. req'[p].id <= counter /\ counter < req'[q].id
          BY <3>4, <1>4
        <4> QED BY <4>1, <3>1, <1>3
      <3> QED BY <3>2, <3>3, <3>4
    <2> QED BY <2>1, <2>2, <2>3 DEF IdsInv, Exists
  <1>6. CheckedInv'
    BY DEF Others, CaseInv, CheckedInv, Permitted
  <1>7. LeavingInv'
    <2>1. \A p \in Requests \ {r} : Leaving(p)' => Leaving(p) /\ req'[p] = req[p]
      BY DEF Others, Leaving
    <2>2. \A p \in Requests : Leaving(p)' => req'[p].user \notin active'
      BY <2>1 DEF Leaving
    <2>3. \A p, q \in Requests : Leaving(p)' /\ Leaving(q)' /\ req'[p].user = req'[q].user => p = q
      BY <2>1 DEF Leaving, CaseInv, LeavingInv
    <2> QED BY <2>2, <2>3 DEF LeavingInv
  <1>8. WaitingInv'
    <2>1. \A p \in Requests : req'[p].pc \notin {"idle", "admitted"} => db
      BY DEF Others, CaseInv, WaitingInv
    <2>2. \A p \in Requests : req'[p].pc = "commit" => cases'[req'[p].id] # NoCase
      BY <1>2, <2>1 DEF Others, CaseInv, WaitingInv, Exists
    <2> QED BY <2>1, <2>2 DEF WaitingInv, Exists
  <1> QED BY <1>5, <1>6, <1>7, <1>8

\* A step of one request that changes no incident and no user.
LEMMA TurnAlone ==
    ASSUME CaseInv, NEW r \in Requests, UNCHANGED <<db, cases, counter, active>>,
           req' \in [Requests -> Request], Others(r),
           req'[r].pc \notin {"delete", "unassign", "insert"},
           req'[r].pc \notin {"idle", "admitted"} => db,
           req'[r].pc = "patch" => Permitted(req'[r].actor, req'[r].fields, req'[r].seen),
           req'[r].pc = "commit" => Exists(req'[r].id)
    PROVE  IdsInv' /\ CheckedInv' /\ LeavingInv' /\ WaitingInv'
  <1>1. counter \in Nat /\ counter <= counter
    BY DEF CaseInv, TypeOK
  <1>2. \A id \in Ids : Exists(id)' <=> Exists(id)
    BY DEF Exists
  <1>3. \A p \in Requests \ {r} : Leaving(p) => req[p].user \notin active'
    BY DEF CaseInv, LeavingInv
  <1> QED BY <1>1, <1>2, <1>3, Turn DEF Exists

\* A step that leaves incidents and users alone is none of CaseBook.
LEMMA Stutter ==
    ASSUME UNCHANGED <<db, cases, active, by>>
    PROVE  OpensEmpty /\ [Book!Next]_Book!book
  BY DEF OpensEmpty, Exists, Book!book

LEMMA BookCases == Book!Case = Case
  BY DEF Book!Case, Case, Book!INCIDENT_STATUSES, INCIDENT_STATUSES

-----------------------------------------------------------------------------
(* The actions. *)

LEMMA AdmitKeeps ==
    ASSUME CaseInv, NEW r \in Requests, Admit(r), UNCHANGED db
    PROVE  CaseStep
  <1>0. UNCHANGED <<db, cases, notes, done, counter, active, activeDb, by>> /\ TypeOK
    BY DEF Admit, work, users, CaseInv
  <1>1. PICK u \in active : req' = [req EXCEPT ![r] = [pc |-> "admitted",
                                       actor |-> [username |-> u, role |-> Role[u]]]]
    BY DEF Admit
  <1>2. [pc |-> "admitted", actor |-> [username |-> u, role |-> Role[u]]] \in Request
    BY <1>0 DEF TypeOK, Request, AdmittedRequest, Actor
  <1>3. req' \in [Requests -> Request] /\ req'[r].pc = "admitted" /\ Others(r)
    BY <1>0, <1>1, <1>2, Waits
  <1>4. IdsInv' /\ CheckedInv' /\ LeavingInv' /\ WaitingInv'
    BY <1>0, <1>3, TurnAlone
  <1>5. TypeOK' /\ EmptyInv'
    BY <1>0, <1>3 DEF TypeOK, CaseInv, EmptyInv, Exists
  <1> QED BY <1>0, <1>4, <1>5, Stutter DEF CaseStep, CaseInv

LEMMA ReadKeeps ==
    ASSUME CaseInv, NEW r \in Requests, ReadOrRefuse(r), UNCHANGED db
    PROVE  CaseStep
  <1>0. UNCHANGED <<db, cases, notes, done, counter, active, activeDb, by>> /\ TypeOK
    BY DEF ReadOrRefuse, work, users, CaseInv
  <1>3. req' \in [Requests -> Request] /\ req'[r].pc = "idle" /\ Others(r)
    BY <1>0, Ends DEF ReadOrRefuse
  <1>4. IdsInv' /\ CheckedInv' /\ LeavingInv' /\ WaitingInv'
    BY <1>0, <1>3, TurnAlone
  <1>5. TypeOK' /\ EmptyInv'
    BY <1>0, <1>3 DEF TypeOK, CaseInv, EmptyInv, Exists
  <1> QED BY <1>0, <1>4, <1>5, Stutter DEF CaseStep, CaseInv

\* Where the incidents that exist stay, and only r moves on, r being done.
LEMMA TurnDone ==
    ASSUME CaseInv, NEW r \in Requests, UNCHANGED <<db, counter>>,
           req' \in [Requests -> Request], Others(r), req'[r].pc = "idle",
           \A id \in Ids : cases'[id] # NoCase <=> cases[id] # NoCase,
           \A p \in Requests \ {r} : Leaving(p) => req[p].user \notin active'
    PROVE  IdsInv' /\ CheckedInv' /\ LeavingInv' /\ WaitingInv'
  <1>1. counter \in Nat /\ counter <= counter
    BY DEF CaseInv, TypeOK
  <1>2. \A id \in Ids : Exists(id)' <=> Exists(id)
    BY DEF Exists
  <1> QED BY <1>1, <1>2, Turn DEF Exists

\* A user who may changes one incident.
LEMMA OneChanged ==
    ASSUME CaseInv, NEW u \in Users, NEW id \in Ids, NEW next \in Case,
           UNCHANGED <<db, notes, done, active>>, cases[id] # NoCase,
           Book!MayChange(u, cases[id], next),
           cases' = [cases EXCEPT ![id] = next], by' = u
    PROVE  /\ cases' \in [Ids -> Case \cup {NoCase}]
           /\ \A i \in Ids : cases'[i] # NoCase <=> cases[i] # NoCase
           /\ EmptyInv' /\ OpensEmpty /\ [Book!Next]_Book!book
  <1>1. cases \in [Ids -> Case \cup {NoCase}]
    BY DEF CaseInv, TypeOK
  <1>2. /\ cases' \in [Ids -> Case \cup {NoCase}]
        /\ cases'[id] = next /\ next # NoCase
        /\ \A i \in Ids \ {id} : cases'[i] = cases[i]
    BY <1>1, CaseAssumption
  <1>3. \A i \in Ids : cases'[i] # NoCase <=> cases[i] # NoCase
    BY <1>2
  <1>4. EmptyInv' /\ OpensEmpty
    BY <1>3 DEF CaseInv, EmptyInv, OpensEmpty, Exists
  <1>5. Book!Change(u, id)
    BY <1>2, BookCases DEF Book!Change, Book!Put
  <1>6. [Book!Next]_Book!book
    BY <1>5 DEF Book!Next
  <1> QED BY <1>2, <1>3, <1>4, <1>6

LEMMA PatchKeeps ==
    ASSUME CaseInv, NEW r \in Requests, NEW id \in Ids, NEW body \in PatchInput,
           Patch(r, id, body), UNCHANGED db
    PROVE  CaseStep
  <1> DEFINE fields == [body EXCEPT !.has = PatchFields(cases[id], body)]
  <1>0. /\ UNCHANGED <<db, notes, done, counter, active, activeDb>> /\ TypeOK
        /\ req[r].pc = "admitted" /\ cases[id] # NoCase
        /\ CheckIncidentPatch(req[r].actor, cases[id], body, active) = "ok"
    BY DEF Patch, work, users, CaseInv, Exists
  <1>1. cases[id] \in Case /\ body \in PatchBody
    BY <1>0 DEF TypeOK, PatchInput
  <1>2. req[r].actor \in Actor
    BY <1>0, Shapes DEF TypeOK, AdmittedRequest
  <1>3. fields \in PatchBody /\ Permitted(req[r].actor, fields, cases[id].assigned_to)
    BY <1>0, <1>1, <1>2, CheckedPatch
  <1>4. CASE db
    <2> DEFINE next == [pc |-> "patch", actor |-> req[r].actor, id |-> id,
                        fields |-> fields, seen |-> cases[id].assigned_to]
    <2>1. req' = [req EXCEPT ![r] = next] /\ UNCHANGED <<cases, by>>
      BY <1>4 DEF Patch
    <2>2. next \in Request
      <3>1. cases[id].assigned_to \in Users \cup {NoUser}
        BY <1>1 DEF Case
      <3> HIDE DEF fields
      <3> QED BY <1>2, <1>3, <3>1 DEF Request, PatchRequest
    <2>3. next.pc = "patch" /\ Permitted(next.actor, next.fields, next.seen)
      <3> HIDE DEF fields
      <3> QED BY <1>3
    <2> HIDE DEF next, fields
    <2>4. req' \in [Requests -> Request] /\ req'[r] = next /\ Others(r)
      BY <1>0, <2>1, <2>2, Waits
    <2>5. IdsInv' /\ CheckedInv' /\ LeavingInv' /\ WaitingInv'
      BY <1>0, <1>4, <2>1, <2>3, <2>4, TurnAlone
    <2>6. TypeOK' /\ EmptyInv'
      BY <1>0, <2>1, <2>4 DEF TypeOK, CaseInv, EmptyInv, Exists
    <2> QED BY <1>0, <2>1, <2>5, <2>6, Stutter DEF CaseStep, CaseInv
  <1>5. CASE ~db
    <2>1. /\ cases' = [cases EXCEPT ![id] = Patched(cases[id], fields)]
          /\ by' = req[r].actor.username /\ Finish(r)
      BY <1>5 DEF Patch
    <2> HIDE DEF fields
    <2>2. /\ Patched(cases[id], fields) \in Case
          /\ Book!MayChange(req[r].actor.username, cases[id], Patched(cases[id], fields))
          /\ req[r].actor.username \in Users
      BY <1>1, <1>2, <1>3, PatchedIs, ActorIs
    <2>3. req' \in [Requests -> Request] /\ req'[r].pc = "idle" /\ Others(r)
      BY <1>0, <2>1, Ends
    <2>4. /\ cases' \in [Ids -> Case \cup {NoCase}]
          /\ \A i \in Ids : cases'[i] # NoCase <=> cases[i] # NoCase
          /\ EmptyInv' /\ OpensEmpty /\ [Book!Next]_Book!book
      BY <1>0, <2>1, <2>2, OneChanged
    <2>5. \A p \in Requests \ {r} : Leaving(p) => req[p].user \notin active'
      BY <1>0 DEF CaseInv, LeavingInv
    <2>6. IdsInv' /\ CheckedInv' /\ LeavingInv' /\ WaitingInv'
      BY <1>0, <2>3, <2>4, <2>5, TurnDone
    <2>7. TypeOK'
      BY <1>0, <2>1, <2>2, <2>3, <2>4 DEF TypeOK
    <2> QED BY <2>4, <2>6, <2>7 DEF CaseStep, CaseInv
  <1> QED BY <1>4, <1>5

LEMMA PatchWriteKeeps ==
    ASSUME CaseInv, NEW r \in Requests, PatchWrite(r), UNCHANGED db
    PROVE  CaseStep
  <1>0. /\ UNCHANGED <<db, notes, done, counter, active, activeDb>> /\ TypeOK
        /\ req[r].pc = "patch" /\ Finish(r)
    BY DEF PatchWrite, work, users, CaseInv
  <1>1. PICK q \in PatchRequest : q = req[r]
    BY <1>0, Shapes DEF TypeOK
  <1>2. /\ q.id \in Ids /\ q.actor \in Actor /\ q.fields \in PatchBody
        /\ Permitted(q.actor, q.fields, q.seen)
    BY <1>0, <1>1 DEF PatchRequest, CaseInv, CheckedInv
  <1>3. req' \in [Requests -> Request] /\ req'[r].pc = "idle" /\ Others(r)
    BY <1>0, Ends
  <1>4. \A p \in Requests \ {r} : Leaving(p) => req[p].user \notin active'
    BY <1>0 DEF CaseInv, LeavingInv
  <1>5. CASE Unmoved(q.id, q.seen)
    <2>1. /\ cases' = [cases EXCEPT ![q.id] = Patched(cases[q.id], q.fields)]
          /\ by' = q.actor.username
      BY <1>1, <1>5 DEF PatchWrite
    <2>2. cases[q.id] \in Case /\ cases[q.id] # NoCase /\ cases[q.id].assigned_to = q.seen
      BY <1>0, <1>2, <1>5 DEF Unmoved, Exists, TypeOK
    <2>3. /\ Patched(cases[q.id], q.fields) \in Case
          /\ Book!MayChange(q.actor.username, cases[q.id], Patched(cases[q.id], q.fields))
          /\ q.actor.username \in Users
      BY <1>2, <2>2, PatchedIs, ActorIs
    <2>4. /\ cases' \in [Ids -> Case \cup {NoCase}]
          /\ \A i \in Ids : cases'[i] # NoCase <=> cases[i] # NoCase
          /\ EmptyInv' /\ OpensEmpty /\ [Book!Next]_Book!book
      BY <1>0, <1>2, <2>1, <2>2, <2>3, OneChanged
    <2>6. IdsInv' /\ CheckedInv' /\ LeavingInv' /\ WaitingInv'
      BY <1>0, <1>3, <1>4, <2>4, TurnDone
    <2>7. TypeOK'
      BY <1>0, <1>3, <2>1, <2>3, <2>4 DEF TypeOK
    <2> QED BY <2>4, <2>6, <2>7 DEF CaseStep, CaseInv
  <1>6. CASE ~Unmoved(q.id, q.seen)
    <2>1. UNCHANGED <<cases, by>>
      BY <1>1, <1>6 DEF PatchWrite
    <2>2. IdsInv' /\ CheckedInv' /\ LeavingInv' /\ WaitingInv'
      BY <1>0, <1>3, <2>1, TurnAlone
    <2>3. TypeOK' /\ EmptyInv'
      BY <1>0, <1>3, <2>1 DEF TypeOK, CaseInv, EmptyInv, Exists
    <2> QED BY <1>0, <2>1, <2>2, <2>3, Stutter DEF CaseStep, CaseInv
  <1> QED BY <1>5, <1>6

\* An actor goes on to its next write of a note or of tasks.
LEMMA StartsWork ==
    ASSUME TypeOK, NEW r \in Requests, req[r].pc = "admitted", NEW id \in Ids,
           NEW set \in SUBSET Tasks, NEW pc \in {"note", "tasks"}, StartWork(r, pc, id, set)
    PROVE  req' \in [Requests -> Request] /\ req'[r].pc = pc /\ Others(r)
  <1> DEFINE next == [pc |-> pc, actor |-> req[r].actor, id |-> id, set |-> set, seen |-> {}]
  <1>1. req[r].actor \in Actor
    BY Shapes DEF TypeOK, AdmittedRequest
  <1>2. next \in Request /\ next.pc = pc
    BY <1>1 DEF Request, WorkRequest
  <1>3. req' = [req EXCEPT ![r] = next]
    BY DEF StartWork
  <1> HIDE DEF next
  <1> QED BY <1>2, <1>3, Waits

LEMMA AddNoteKeeps ==
    ASSUME CaseInv, NEW r \in Requests, NEW id \in Ids, AddNote(r, id), UNCHANGED db
    PROVE  CaseStep
  <1>0. /\ UNCHANGED <<db, cases, done, counter, active, activeDb, by>> /\ TypeOK
        /\ req[r].pc = "admitted" /\ Exists(id)
    BY DEF AddNote, users, CaseInv
  <1>1. /\ req' \in [Requests -> Request] /\ Others(r)
        /\ req'[r].pc \in {"idle", "note"} /\ (req'[r].pc = "note" => db)
        /\ notes' \in {notes, notes \cup {id}}
    <2>1. CASE db
      BY <1>0, <2>1, StartsWork DEF AddNote
    <2>2. CASE ~db
      BY <1>0, <2>2, Ends DEF AddNote
    <2> QED BY <2>1, <2>2
  <1>2. IdsInv' /\ CheckedInv' /\ LeavingInv' /\ WaitingInv'
    BY <1>0, <1>1, TurnAlone
  <1>3. TypeOK' /\ EmptyInv'
    BY <1>0, <1>1 DEF TypeOK, CaseInv, EmptyInv, Exists
  <1> QED BY <1>0, <1>2, <1>3, Stutter DEF CaseStep, CaseInv

LEMMA NoteWriteKeeps ==
    ASSUME CaseInv, NEW r \in Requests, NoteWrite(r), UNCHANGED db
    PROVE  CaseStep
  <1>0. /\ UNCHANGED <<db, cases, done, counter, active, activeDb, by>> /\ TypeOK
        /\ req[r].pc = "note" /\ Finish(r)
    BY DEF NoteWrite, users, CaseInv
  <1>1. req[r].id \in Ids
    BY <1>0, Shapes DEF TypeOK, WorkRequest
  <1>2. req' \in [Requests -> Request] /\ req'[r].pc = "idle" /\ Others(r)
    BY <1>0, Ends
  <1>3. IdsInv' /\ CheckedInv' /\ LeavingInv' /\ WaitingInv'
    BY <1>0, <1>2, TurnAlone
  <1>4. notes' = notes \/ (notes' = notes \cup {req[r].id} /\ Exists(req[r].id))
    BY DEF NoteWrite
  <1>5. TypeOK' /\ EmptyInv'
    BY <1>0, <1>1, <1>2, <1>4 DEF TypeOK, CaseInv, EmptyInv, Exists
  <1> QED BY <1>0, <1>3, <1>5, Stutter DEF CaseStep, CaseInv

LEMMA SetTasksKeeps ==
    ASSUME CaseInv, NEW r \in Requests, NEW id \in Ids, NEW set \in Bound[db].tasks,
           SetTasks(r, id, set), UNCHANGED db
    PROVE  CaseStep
  <1>0. /\ UNCHANGED <<db, cases, notes, counter, active, activeDb, by>> /\ TypeOK
        /\ req[r].pc = "admitted" /\ Exists(id) /\ db \in BOOLEAN
    BY DEF SetTasks, users, CaseInv, TypeOK
  <1>1. set \in SUBSET Tasks
    BY <1>0, BoundAssumption
  <1>2. /\ req' \in [Requests -> Request] /\ Others(r)
        /\ req'[r].pc \in {"idle", "tasks"} /\ (req'[r].pc = "tasks" => db)
        /\ done' \in {done, [done EXCEPT ![id] = set]}
    <2>1. CASE db
      BY <1>0, <1>1, <2>1, StartsWork DEF SetTasks
    <2>2. CASE ~db
      BY <1>0, <2>2, Ends DEF SetTasks
    <2> QED BY <2>1, <2>2
  <1>3. IdsInv' /\ CheckedInv' /\ LeavingInv' /\ WaitingInv'
    BY <1>0, <1>2, TurnAlone
  <1>4. TypeOK' /\ EmptyInv'
    BY <1>0, <1>1, <1>2 DEF TypeOK, CaseInv, EmptyInv, Exists
  <1> QED BY <1>0, <1>3, <1>4, Stutter DEF CaseStep, CaseInv

LEMMA TasksDeleteKeeps ==
    ASSUME CaseInv, NEW r \in Requests, TasksDelete(r), UNCHANGED db
    PROVE  CaseStep
  <1>0. /\ UNCHANGED <<db, cases, notes, done, counter, active, activeDb, by>> /\ TypeOK
        /\ req[r].pc = "tasks" /\ db
    BY DEF TasksDelete, work, users, CaseInv, WaitingInv
  <1>1. PICK q \in WorkRequest : q = req[r]
    BY <1>0, Shapes DEF TypeOK
  <1>2. /\ req' \in [Requests -> Request] /\ Others(r)
        /\ req'[r].pc \in {"idle", "commit"}
        /\ req'[r].pc = "commit" => Exists(req'[r].id)
    <2>1. CASE Exists(q.id)
      <3>1. done[q.id] \in SUBSET Tasks
        BY <1>0, <1>1 DEF TypeOK, WorkRequest
      <3>2. PICK next : next = [q EXCEPT !.pc = "commit", !.seen = done[q.id]]
        OBVIOUS
      <3>3. next \in Request /\ next.pc = "commit" /\ next.id = q.id
        BY <3>1, <3>2 DEF Request, WorkRequest
      <3>4. req' = [req EXCEPT ![r] = next]
        BY <1>0, <1>1, <2>1, <3>2 DEF TasksDelete, TypeOK
      <3> QED BY <1>0, <2>1, <3>3, <3>4, Waits
    <2>2. CASE ~Exists(q.id)
      BY <1>0, <1>1, <2>2, Ends DEF TasksDelete
    <2> QED BY <2>1, <2>2
  <1>3. IdsInv' /\ CheckedInv' /\ LeavingInv' /\ WaitingInv'
    BY <1>0, <1>2, TurnAlone
  <1>4. TypeOK' /\ EmptyInv'
    BY <1>0, <1>2 DEF TypeOK, CaseInv, EmptyInv, Exists
  <1> QED BY <1>0, <1>3, <1>4, Stutter DEF CaseStep, CaseInv

LEMMA TasksWriteKeeps ==
    ASSUME CaseInv, NEW r \in Requests, TasksWrite(r), UNCHANGED db
    PROVE  CaseStep
  <1>0. /\ UNCHANGED <<db, cases, notes, counter, active, activeDb, by>> /\ TypeOK
        /\ req[r].pc = "commit"
    BY DEF TasksWrite, users, CaseInv
  <1>1. PICK q \in WorkRequest : q = req[r]
    BY <1>0, Shapes DEF TypeOK
  <1>2. q.id \in Ids /\ Exists(q.id)
    BY <1>0, <1>1 DEF WorkRequest, CaseInv, WaitingInv
  <1>3. PICK rest : rest = done[q.id] \ q.seen
    OBVIOUS
  <1>4. rest \cup q.set \in SUBSET Tasks
    BY <1>0, <1>1, <1>2, <1>3 DEF TypeOK, WorkRequest
  <1>5. /\ req' \in [Requests -> Request] /\ Others(r) /\ req'[r].pc = "idle"
        /\ done' \in {done, [done EXCEPT ![q.id] = rest \cup q.set]}
    <2>1. CASE rest \cap q.set # {}
      BY <1>0, <1>1, <1>3, <2>1, Ends DEF TasksWrite
    <2>2. CASE rest \cap q.set = {}
      <3>1. /\ done' = [done EXCEPT ![q.id] = rest \cup q.set]
            /\ req' = [p \in Requests |->
                 IF p = r THEN Idle
                 ELSE IF req[p].pc = "commit" /\ req[p].id = q.id
                 THEN [req[p] EXCEPT !.seen = @ \ (q.seen \cup q.set)]
                 ELSE req[p]]
        BY <1>1, <1>3, <2>2 DEF TasksWrite
      <3>2. ASSUME NEW p \in Requests, req[p].pc = "commit"
            PROVE  LET next == [req[p] EXCEPT !.seen = @ \ (q.seen \cup q.set)]
                   IN  next \in Request /\ next.pc = "commit" /\ next.id = req[p].id
        <4>1. PICK w \in WorkRequest : w = req[p]
          BY <1>0, <3>2, Shapes DEF TypeOK
        <4> QED BY <3>2, <4>1 DEF Request, WorkRequest
      <3>3. \A p \in Requests : req[p] \in Request
        BY <1>0 DEF TypeOK
      <3>4. req' \in [Requests -> Request]
        BY <3>1, <3>2, <3>3 DEF Request
      <3>5. Others(r) /\ req'[r].pc = "idle"
        BY <3>1, <3>2 DEF Others, Idle
      <3> QED BY <3>1, <3>4, <3>5
    <2> QED BY <2>1, <2>2
  <1>6. IdsInv' /\ CheckedInv' /\ LeavingInv' /\ WaitingInv'
    BY <1>0, <1>5, TurnAlone
  <1>7. TypeOK' /\ EmptyInv'
    BY <1>0, <1>2, <1>4, <1>5 DEF TypeOK, CaseInv, EmptyInv, Exists
  <1> QED BY <1>0, <1>6, <1>7, Stutter DEF CaseStep, CaseInv

\* A new id is free.
LEMMA NewIdFree ==
    ASSUME CaseInv, NewId <= Bound[db].ids
    PROVE  /\ NewId \in Ids /\ NewId \in Nat /\ counter \in Nat /\ counter < NewId
           /\ counter <= NewId /\ cases[NewId] = NoCase
  <1>1. NewId \in Ids /\ NewId \in Nat /\ counter < NewId /\ counter \in Nat
    BY NewIdIs DEF CaseInv, TypeOK
  <1>2. Exists(NewId) => NewId <= counter
    BY <1>1 DEF CaseInv, IdsInv
  <1> QED BY <1>1, <1>2 DEF Exists

\* In memory, a new case comes empty and at most takes the place of another.
LEMMA AddsInMemory ==
    ASSUME CaseInv, ~db, UNCHANGED <<db, active>>, NEW id \in Ids, cases[id] = NoCase,
           NEW next \in Case, AddInMemory(id, next)
    PROVE  /\ cases' \in [Ids -> Case \cup {NoCase}] /\ notes' \subseteq notes
           /\ done' \in [Ids -> SUBSET Tasks]
           /\ \A i \in Ids \ {id} : cases[i] = NoCase => cases'[i] = NoCase
           /\ EmptyInv' /\ OpensEmpty /\ Book!Put(id, next, TRUE)
  <1>0. TypeOK /\ next # NoCase
    BY CaseAssumption DEF CaseInv
  <1>1. PICK out : out = Evicted
    OBVIOUS
  <1>2. /\ cases' = [i \in Ids |-> IF i = id THEN next ELSE IF i \in out THEN NoCase ELSE cases[i]]
        /\ notes' = notes \ out
        /\ done' = [i \in Ids |-> IF i \in out THEN {} ELSE done[i]]
    BY <1>1 DEF AddInMemory
  <1>3. /\ cases' \in [Ids -> Case \cup {NoCase}] /\ cases'[id] = next
        /\ \A i \in Ids \ {id} : cases'[i] \in {cases[i], NoCase}
        /\ \A i \in Ids \ {id} : cases'[i] = NoCase => cases[i] = NoCase \/ i \in out
    BY <1>0, <1>2 DEF TypeOK
  <1>4. /\ done' \in [Ids -> SUBSET Tasks]
        /\ \A i \in Ids : done'[i] \subseteq done[i] /\ (i \in out => done'[i] = {})
    BY <1>0, <1>2 DEF TypeOK
  <1>5. \A i \in Ids : cases[i] = NoCase => i \notin notes /\ done[i] = {}
    BY DEF CaseInv, EmptyInv, Exists
  <1>6. EmptyInv'
    <2> SUFFICES ASSUME NEW i \in Ids, cases'[i] = NoCase PROVE i \notin notes' /\ done'[i] = {}
      BY DEF EmptyInv, Exists
    <2> QED BY <1>0, <1>2, <1>3, <1>4, <1>5
  <1>7. OpensEmpty
    BY <1>2, <1>4 DEF OpensEmpty
  <1>8. Book!Put(id, next, TRUE)
    BY <1>3, BookCases DEF Book!Put
  <1> QED BY <1>2, <1>3, <1>4, <1>6, <1>7, <1>8

LEMMA OpenKeeps ==
    ASSUME CaseInv, NEW r \in Requests, NEW ip \in Ips, OpenCase(r, ip), UNCHANGED db
    PROVE  CaseStep
  <1>0. UNCHANGED <<db, active, activeDb>> /\ TypeOK /\ req[r].pc = "admitted"
    BY DEF OpenCase, users, CaseInv
  <1>1. CASE Found(ip) # {}
    <2>1. UNCHANGED <<cases, notes, done, counter, by>> /\ Finish(r)
      BY <1>1 DEF OpenCase, work
    <2>2. req' \in [Requests -> Request] /\ req'[r].pc = "idle" /\ Others(r)
      BY <1>0, <2>1, Ends
    <2>3. IdsInv' /\ CheckedInv' /\ LeavingInv' /\ WaitingInv'
      BY <1>0, <2>1, <2>2, TurnAlone
    <2>4. TypeOK' /\ EmptyInv'
      BY <1>0, <2>1, <2>2 DEF TypeOK, CaseInv, EmptyInv, Exists
    <2> QED BY <1>0, <2>1, <2>3, <2>4, Stutter DEF CaseStep, CaseInv
  <1>2. CASE Found(ip) = {}
    <2>0. NewId <= Bound[db].ids /\ counter' = NewId
      BY <1>2 DEF OpenCase
    <2>1. PICK id \in Ids : id = NewId
      BY <2>0, NewIdFree
    <2>2. /\ id \in Nat /\ counter \in Nat /\ counter < id /\ counter <= id
          /\ cases[id] = NoCase /\ counter' = id
      BY <2>0, <2>1, NewIdFree
    <2>3. req[r].actor \in Actor /\ req[r].actor.username \in Users
      BY <1>0, Shapes, ActorIs DEF TypeOK, AdmittedRequest
    <2>4. \A p \in Requests \ {r} : Leaving(p) => req[p].user \notin active'
      BY <1>0 DEF CaseInv, LeavingInv
    <2>5. CASE db
      <3>1. PICK next : next = [pc |-> "insert", actor |-> req[r].actor, id |-> id, ip |-> ip]
        OBVIOUS
      <3>2. next \in Request /\ next.pc = "insert" /\ next.id = id
        BY <2>3, <3>1 DEF Request, InsertRequest
      <3>3. UNCHANGED <<cases, notes, done, by>> /\ req' = [req EXCEPT ![r] = next]
        BY <1>2, <2>1, <2>5, <3>1 DEF OpenCase, work
      <3>4. req' \in [Requests -> Request] /\ req'[r] = next /\ Others(r)
        BY <1>0, <3>2, <3>3, Waits
      <3>5. id <= id
        BY <2>2
      <3>6. IdsInv' /\ CheckedInv' /\ LeavingInv' /\ WaitingInv'
        BY <1>0, <2>2, <2>4, <2>5, <3>2, <3>3, <3>4, <3>5, Turn DEF Exists
      <3>7. TypeOK' /\ EmptyInv'
        BY <1>0, <2>2, <3>3, <3>4 DEF TypeOK, CaseInv, EmptyInv, Exists
      <3> QED BY <1>0, <3>3, <3>6, <3>7, Stutter DEF CaseStep, CaseInv
    <2>6. CASE ~db
      <3>1. PICK next : next = OpenedBy(req[r].actor, ip)
        OBVIOUS
      <3>2. /\ next \in Case
            /\ next = [ip |-> ip, status |-> "open", assigned_to |-> req[r].actor.username]
        BY <2>3, <3>1 DEF OpenedBy, Case, INCIDENT_STATUSES
      <3>3. AddInMemory(id, next) /\ by' = req[r].actor.username /\ Finish(r)
        BY <1>2, <2>1, <2>6, <3>1 DEF OpenCase
      <3>4. /\ cases' \in [Ids -> Case \cup {NoCase}] /\ notes' \subseteq notes
            /\ done' \in [Ids -> SUBSET Tasks]
            /\ \A i \in Ids \ {id} : cases[i] = NoCase => cases'[i] = NoCase
            /\ EmptyInv' /\ OpensEmpty /\ Book!Put(id, next, TRUE)
        BY <1>0, <2>2, <2>6, <3>2, <3>3, AddsInMemory
      <3>5. req' \in [Requests -> Request] /\ req'[r].pc = "idle" /\ Others(r)
        BY <1>0, <3>3, Ends
      <3>6. \A p \in Requests : req'[p].pc # "insert"
        BY <2>6, <3>5 DEF Others, CaseInv, WaitingInv
      <3>7. \A i \in Ids : ~Exists(i) /\ Exists(i)' => i <= counter'
        BY <2>2, <3>4 DEF Exists
      <3>8. IdsInv' /\ CheckedInv' /\ LeavingInv' /\ WaitingInv'
        BY <1>0, <2>2, <2>4, <2>6, <3>5, <3>6, <3>7, Turn
      <3>9. TypeOK'
        BY <1>0, <2>2, <2>3, <3>3, <3>4, <3>5 DEF TypeOK
      <3>10. Book!Open(req[r].actor.username, id, ip)
        BY <2>2, <2>6, <3>2, <3>3, <3>4 DEF Book!Open
      <3>11. [Book!Next]_Book!book
        BY <1>0, <2>3, <3>10 DEF Book!Next
      <3> QED BY <3>4, <3>8, <3>9, <3>11 DEF CaseStep, CaseInv
    <2> QED BY <2>5, <2>6
  <1> QED BY <1>1, <1>2

LEMMA InsertWriteKeeps ==
    ASSUME CaseInv, NEW r \in Requests, InsertWrite(r), UNCHANGED db
    PROVE  CaseStep
  <1>0. /\ UNCHANGED <<db, notes, done, counter, active, activeDb>> /\ TypeOK
        /\ req[r].pc = "insert" /\ Finish(r)
    BY DEF InsertWrite, work, users, CaseInv
  <1>1. PICK q \in InsertRequest : q = req[r]
    BY <1>0, Shapes DEF TypeOK
  <1>2. /\ q.id \in Ids /\ q.actor.username \in Users /\ q.ip \in Ips
        /\ cases[q.id] = NoCase /\ q.id <= counter /\ counter \in Nat
        /\ \A p \in Requests \ {r} : req[p].pc = "insert" => req[p].id # q.id
    BY <1>0, <1>1, ActorIs DEF InsertRequest, CaseInv, IdsInv, Exists, TypeOK
  <1>3. req' \in [Requests -> Request] /\ req'[r].pc = "idle" /\ Others(r)
    BY <1>0, Ends
  <1>4. \A p \in Requests \ {r} : Leaving(p) => req[p].user \notin active'
    BY <1>0 DEF CaseInv, LeavingInv
  <1>5. PICK next : next = OpenedBy(q.actor, q.ip)
    OBVIOUS
  <1>6. /\ next \in Case /\ next # NoCase
        /\ next = [ip |-> q.ip, status |-> "open", assigned_to |-> q.actor.username]
    BY <1>2, <1>5, CaseAssumption DEF OpenedBy, Case, INCIDENT_STATUSES
  <1>7. cases' = [cases EXCEPT ![q.id] = next] /\ by' = q.actor.username
    BY <1>1, <1>2, <1>5 DEF InsertWrite, Exists
  <1>8. /\ cases' \in [Ids -> Case \cup {NoCase}] /\ cases'[q.id] = next
        /\ \A i \in Ids \ {q.id} : cases'[i] = cases[i]
    BY <1>0, <1>2, <1>6, <1>7 DEF TypeOK
  <1>9. \A p \in Requests : req'[p].pc = "insert" => req'[p].id # q.id
    BY <1>2, <1>3 DEF Others
  <1>10. /\ \A i \in Ids : ~Exists(i) /\ Exists(i)' => i = q.id
         /\ \A i \in Ids : Exists(i) => Exists(i)'
    BY <1>2, <1>6, <1>8 DEF Exists
  <1>11. counter' \in Nat /\ counter <= counter' /\ q.id <= counter'
    BY <1>0, <1>2
  <1>12. IdsInv' /\ CheckedInv' /\ LeavingInv' /\ WaitingInv'
    BY <1>0, <1>3, <1>4, <1>9, <1>10, <1>11, Turn
  <1>13. TypeOK'
    BY <1>0, <1>2, <1>3, <1>7, <1>8 DEF TypeOK
  <1>14. EmptyInv' /\ OpensEmpty
    BY <1>0, <1>10 DEF CaseInv, EmptyInv, OpensEmpty, Exists
  <1>15. Book!Open(q.actor.username, q.id, q.ip)
    BY <1>0, <1>2, <1>6, <1>7, <1>8, BookCases DEF Book!Open, Book!Put
  <1>16. [Book!Next]_Book!book
    BY <1>0, <1>2, <1>15 DEF Book!Next
  <1> QED BY <1>12, <1>13, <1>14, <1>16 DEF CaseStep, CaseInv

LEMMA DetectKeeps ==
    ASSUME CaseInv, Detect, UNCHANGED db
    PROVE  CaseStep
  <1>0. UNCHANGED <<db, active, activeDb, req, by>> /\ TypeOK /\ NewId <= Bound[db].ids
    BY DEF Detect, users, CaseInv
  <1>1. PICK id \in Ids : id = NewId
    BY <1>0, NewIdFree
  <1>2. /\ id \in Nat /\ counter \in Nat /\ counter < id /\ counter <= id
        /\ cases[id] = NoCase /\ counter' = id
    BY <1>0, <1>1, NewIdFree DEF Detect
  <1>3. CheckedInv' /\ LeavingInv'
    BY <1>0 DEF CaseInv, CheckedInv, LeavingInv, Leaving
  <1>4. \A p \in Requests : req[p].pc = "insert" => req[p].id \in Nat
    BY <1>0, Shapes DEF TypeOK, InsertRequest, Ids
  <1>5. CASE db
    <2>1. UNCHANGED <<cases, notes, done>>
      BY <1>5 DEF Detect, work
    <2>2. Ids \subseteq Nat
      BY DEF Ids
    <2>3. IdsInv'
      <3>1. \A i \in Ids : Exists(i)' => i <= counter'
        <4> SUFFICES ASSUME NEW i \in Ids, cases'[i] # NoCase PROVE i <= id
          BY <1>2 DEF Exists
        <4>1. i <= counter /\ i \in Nat
          BY <2>1, <2>2 DEF CaseInv, IdsInv, Exists
        <4> QED BY <1>2, <4>1
      <3>2. \A p \in Requests : req[p].pc = "insert" => req[p].id <= id /\ cases[req[p].id] = NoCase
        <4> SUFFICES ASSUME NEW p \in Requests, req[p].pc = "insert"
                     PROVE  req[p].id <= id /\ cases[req[p].id] = NoCase
          OBVIOUS
        <4>1. req[p].id <= counter /\ cases[req[p].id] = NoCase
          BY DEF CaseInv, IdsInv, Exists
        <4> QED BY <4>1, <1>2, <1>4
      <3>3. \A p, q \in Requests :
              req[p].pc = "insert" /\ req[q].pc = "insert" /\ req[p].id = req[q].id => p = q
        BY DEF CaseInv, IdsInv
      <3> QED BY <1>0, <1>2, <2>1, <3>1, <3>2, <3>3 DEF IdsInv, Exists
    <2>4. TypeOK' /\ EmptyInv' /\ WaitingInv'
      BY <1>0, <1>2, <2>1 DEF TypeOK, CaseInv, EmptyInv, WaitingInv, Exists
    <2> QED BY <1>0, <1>3, <2>1, <2>3, <2>4, Stutter DEF CaseStep, CaseInv
  <1>6. CASE ~db
    <2>1. PICK ip \in Ips, status \in INCIDENT_STATUSES, u \in Users \cup {NoUser} :
            AddInMemory(id, [ip |-> ip, status |-> status, assigned_to |-> u])
      BY <1>0, <1>1, <1>6 DEF Detect, TypeOK
    <2>2. PICK next : next = [ip |-> ip, status |-> status, assigned_to |-> u]
      OBVIOUS
    <2>3. next \in Case /\ next # NoCase
      BY <2>2, CaseAssumption DEF Case
    <2>4. /\ cases' \in [Ids -> Case \cup {NoCase}] /\ notes' \subseteq notes
          /\ done' \in [Ids -> SUBSET Tasks]
          /\ \A i \in Ids \ {id} : cases[i] = NoCase => cases'[i] = NoCase
          /\ EmptyInv' /\ OpensEmpty /\ Book!Put(id, next, TRUE)
      BY <1>0, <1>2, <1>6, <2>1, <2>2, <2>3, AddsInMemory
    <2>5. \A p \in Requests : req[p].pc \in {"idle", "admitted"}
      BY <1>6 DEF CaseInv, WaitingInv
    <2>6. WaitingInv'
      BY <1>0, <2>5 DEF WaitingInv
    <2>7. IdsInv'
      <3>1. \A i \in Ids : Exists(i)' => i <= counter'
        <4> SUFFICES ASSUME NEW i \in Ids, cases'[i] # NoCase PROVE i <= id
          BY <1>2 DEF Exists
        <4>1. CASE i = id
          BY <1>2, <4>1
        <4>2. CASE i # id
          <5>1. i <= counter /\ i \in Nat
            BY <2>4, <4>2 DEF CaseInv, IdsInv, Exists, Ids
          <5> QED BY <1>2, <5>1
        <4> QED BY <4>1, <4>2
      <3> QED BY <1>0, <2>5, <3>1 DEF IdsInv
    <2>8. TypeOK'
      BY <1>0, <1>2, <2>4 DEF TypeOK
    <2>9. Book!Detect(id)
      <3>1. cases'[id] = next
        BY <2>4 DEF Book!Put
      <3> QED BY <1>0, <1>2, <1>6, <2>4, <3>1 DEF Book!Detect
    <2>10. [Book!Next]_Book!book
      BY <1>0, <2>9 DEF Book!Next
    <2> QED BY <1>3, <2>4, <2>6, <2>7, <2>8, <2>10 DEF CaseStep, CaseInv
  <1> QED BY <1>5, <1>6

\* The open incidents of a user who is gone become unassigned.
LEMMA Released ==
    ASSUME CaseInv, NEW u \in Users, cases' = Unassigned(u), UNCHANGED <<db, notes, done, by>>,
           active' \in {active, active \ {u}}, u \notin active'
    PROVE  /\ cases' \in [Ids -> Case \cup {NoCase}]
           /\ \A id \in Ids : cases'[id] # NoCase <=> cases[id] # NoCase
           /\ EmptyInv' /\ OpensEmpty /\ [Book!Next]_Book!book
  <1>0. cases \in [Ids -> Case \cup {NoCase}]
    BY DEF CaseInv, TypeOK
  <1>1. ASSUME NEW id \in Ids, cases[id] # NoCase
        PROVE  [cases[id] EXCEPT !.assigned_to = NoUser] \in Case
    BY <1>0, <1>1 DEF Case
  <1>2. \A id \in Ids :
          /\ cases[id] = NoCase => cases'[id] = NoCase
          /\ cases[id] # NoCase => /\ cases'[id] \in Case
                                   /\ cases'[id] # NoCase
    BY <1>0, <1>1, CaseAssumption DEF Unassigned, Exists
  <1>3. cases' \in [Ids -> Case \cup {NoCase}]
    BY <1>0, <1>2 DEF Unassigned
  <1>4. \A id \in Ids : cases'[id] # NoCase <=> cases[id] # NoCase
    BY <1>2
  <1>5. EmptyInv' /\ OpensEmpty
    BY <1>4 DEF CaseInv, EmptyInv, OpensEmpty, Exists
  <1>6. cases' = Book!Released(u)
    BY DEF Unassigned, Releases, Exists, Book!Released, Book!Held
  <1>7. [Book!Next]_Book!book
    BY <1>6 DEF Book!Release, Book!Next
  <1> QED BY <1>3, <1>4, <1>5, <1>7

\* A step that only adds or removes users.
LEMMA UsersChange ==
    ASSUME UNCHANGED <<db, cases, by>>, active' \subseteq Users
    PROVE  OpensEmpty /\ [Book!Next]_Book!book
  <1>1. Book!ChangeUsers(active')
    BY DEF Book!ChangeUsers
  <1>2. [Book!Next]_Book!book
    BY <1>1 DEF Book!Next
  <1> QED BY <1>2 DEF OpensEmpty, Exists

LEMMA DeleteUserKeeps ==
    ASSUME CaseInv, NEW r \in Requests, NEW u \in Users, DeleteUser(r, u), UNCHANGED db
    PROVE  CaseStep
  <1>0. /\ UNCHANGED <<db, notes, done, counter, activeDb, by>> /\ TypeOK
        /\ req[r].pc = "admitted" /\ active' = active \ {u}
        /\ counter \in Nat /\ counter <= counter'
    BY DEF DeleteUser, work, CaseInv, TypeOK
  <1>1. u \in active
    BY DEF DeleteUser, CheckUserDelete, Missing, Account
  <1>2. \A p \in Requests \ {r} : Leaving(p) =>
          req[p].user \notin active' /\ req[p].user # u
    BY <1>0, <1>1 DEF CaseInv, LeavingInv
  <1>3. CASE db
    <2>1. PICK next : next = [pc |-> "delete", user |-> u]
      OBVIOUS
    <2>2. next \in Request /\ next.pc = "delete" /\ next.user = u
      BY <2>1 DEF Request, DeleteRequest
    <2>3. UNCHANGED cases /\ req' = [req EXCEPT ![r] = next]
      BY <1>3, <2>1 DEF DeleteUser
    <2>4. req' \in [Requests -> Request] /\ req'[r] = next /\ Others(r)
      BY <1>0, <2>2, <2>3, Waits
    <2>5. \A id \in Ids : Exists(id)' <=> Exists(id)
      BY <2>3 DEF Exists
    <2>6. IdsInv' /\ CheckedInv' /\ LeavingInv' /\ WaitingInv'
      BY <1>0, <1>2, <1>3, <2>2, <2>4, <2>5, Turn
    <2>7. TypeOK' /\ EmptyInv'
      BY <1>0, <2>3, <2>4 DEF TypeOK, CaseInv, EmptyInv, Exists
    <2>8. active' \subseteq Users
      BY <2>7 DEF TypeOK
    <2> QED BY <1>0, <2>3, <2>6, <2>7, <2>8, UsersChange DEF CaseStep, CaseInv
  <1>4. CASE ~db
    <2>1. cases' = Unassigned(u) /\ Finish(r)
      BY <1>4 DEF DeleteUser
    <2>2. req' \in [Requests -> Request] /\ req'[r].pc = "idle" /\ Others(r)
      BY <1>0, <2>1, Ends
    <2>3. /\ cases' \in [Ids -> Case \cup {NoCase}]
          /\ \A id \in Ids : cases'[id] # NoCase <=> cases[id] # NoCase
          /\ EmptyInv' /\ OpensEmpty /\ [Book!Next]_Book!book
      BY <1>0, <2>1, Released
    <2>4. IdsInv' /\ CheckedInv' /\ LeavingInv' /\ WaitingInv'
      BY <1>0, <1>2, <2>2, <2>3, TurnDone
    <2>5. TypeOK'
      BY <1>0, <2>2, <2>3 DEF TypeOK
    <2> QED BY <2>3, <2>4, <2>5 DEF CaseStep, CaseInv
  <1> QED BY <1>3, <1>4

LEMMA DeleteWriteKeeps ==
    ASSUME CaseInv, NEW r \in Requests, DeleteWrite(r), UNCHANGED db
    PROVE  CaseStep
  <1>0. /\ UNCHANGED <<db, cases, notes, done, counter, active, by>> /\ TypeOK
        /\ req[r].pc = "delete" /\ db
        /\ counter \in Nat /\ counter <= counter'
    BY DEF DeleteWrite, work, CaseInv, TypeOK, WaitingInv
  <1>1. PICK q \in DeleteRequest : q = req[r]
    BY <1>0, Shapes DEF TypeOK
  <1>2. PICK next : next = [pc |-> "unassign", user |-> q.user]
    OBVIOUS
  <1>3. next \in Request /\ next.pc = "unassign" /\ next.user = q.user
    BY <1>1, <1>2 DEF Request, DeleteRequest
  <1>4. req' = [req EXCEPT ![r] = next]
    <2>1. [q EXCEPT !.pc = "unassign"] = next
      BY <1>1, <1>2 DEF DeleteRequest
    <2>2. req' = [req EXCEPT ![r] = [req[r] EXCEPT !.pc = "unassign"]]
      BY DEF DeleteWrite
    <2> QED BY <1>1, <2>1, <2>2
  <1>5. req' \in [Requests -> Request] /\ req'[r] = next /\ Others(r)
    BY <1>0, <1>3, <1>4, Waits
  <1>6. /\ \A p \in Requests \ {r} : Leaving(p) =>
             req[p].user \notin active' /\ req[p].user # q.user
        /\ q.user \notin active'
    BY <1>0, <1>1 DEF CaseInv, LeavingInv, Leaving
  <1>7. \A id \in Ids : Exists(id)' <=> Exists(id)
    BY <1>0 DEF Exists
  <1>8. IdsInv' /\ CheckedInv' /\ LeavingInv' /\ WaitingInv'
    BY <1>0, <1>3, <1>5, <1>6, <1>7, Turn
  <1>9. activeDb' \subseteq activeDb
    BY DEF DeleteWrite
  <1>10. TypeOK' /\ EmptyInv'
    BY <1>0, <1>5, <1>9 DEF TypeOK, CaseInv, EmptyInv, Exists
  <1> QED BY <1>0, <1>8, <1>10, Stutter DEF CaseStep, CaseInv

LEMMA UnassignKeeps ==
    ASSUME CaseInv, NEW r \in Requests, UnassignWrite(r), UNCHANGED db
    PROVE  CaseStep
  <1>0. /\ UNCHANGED <<db, notes, done, counter, active, activeDb, by>> /\ TypeOK
        /\ req[r].pc = "unassign" /\ Finish(r)
    BY DEF UnassignWrite, work, users, CaseInv
  <1>1. PICK u \in Users : u = req[r].user
    BY <1>0, Shapes DEF TypeOK, DeleteRequest
  <1>2. cases' = Unassigned(u) /\ u \notin active'
    BY <1>0, <1>1 DEF UnassignWrite, CaseInv, LeavingInv, Leaving
  <1>3. req' \in [Requests -> Request] /\ req'[r].pc = "idle" /\ Others(r)
    BY <1>0, Ends
  <1>4. /\ cases' \in [Ids -> Case \cup {NoCase}]
        /\ \A id \in Ids : cases'[id] # NoCase <=> cases[id] # NoCase
        /\ EmptyInv' /\ OpensEmpty /\ [Book!Next]_Book!book
    BY <1>0, <1>2, Released
  <1>5. \A p \in Requests \ {r} : Leaving(p) => req[p].user \notin active'
    BY <1>0 DEF CaseInv, LeavingInv
  <1>6. IdsInv' /\ CheckedInv' /\ LeavingInv' /\ WaitingInv'
    BY <1>0, <1>3, <1>4, <1>5, TurnDone
  <1>7. TypeOK'
    BY <1>0, <1>3, <1>4 DEF TypeOK
  <1> QED BY <1>4, <1>6, <1>7 DEF CaseStep, CaseInv

LEMMA WriteFailsKeeps ==
    ASSUME CaseInv, NEW r \in Requests, WriteFails(r), UNCHANGED db
    PROVE  CaseStep
  <1>0. /\ UNCHANGED <<db, cases, notes, done, counter, activeDb, by>> /\ TypeOK /\ Finish(r)
        /\ active' = IF req[r].pc = "delete" THEN active \cup {req[r].user} ELSE active
    BY DEF WriteFails, work, CaseInv
  <1>1. req[r].pc = "delete" => req[r].user \in Users
    BY <1>0, Shapes DEF TypeOK, DeleteRequest
  <1>2. req' \in [Requests -> Request] /\ req'[r].pc = "idle" /\ Others(r)
    BY <1>0, Ends
  <1>3. \A p \in Requests \ {r} : Leaving(p) => req[p].user \notin active'
    BY <1>0 DEF CaseInv, LeavingInv, Leaving
  <1>4. IdsInv' /\ CheckedInv' /\ LeavingInv' /\ WaitingInv'
    BY <1>0, <1>2, <1>3, TurnDone
  <1>5. active' \subseteq Users
    BY <1>0, <1>1 DEF TypeOK
  <1>6. TypeOK' /\ EmptyInv'
    BY <1>0, <1>2, <1>5 DEF TypeOK, CaseInv, EmptyInv, Exists
  <1> QED BY <1>0, <1>4, <1>5, <1>6, UsersChange DEF CaseStep, CaseInv

LEMMA RestartKeeps ==
    ASSUME CaseInv, Restart, UNCHANGED db
    PROVE  CaseStep
  <1>0. UNCHANGED <<db, activeDb, by>> /\ TypeOK /\ req' = [p \in Requests |-> Idle]
    BY DEF Restart, CaseInv
  <1>1. PICK kept \in SUBSET Ids :
          /\ ~db => kept = {}
          /\ \A id \in kept : cases[id] # NoCase
          /\ cases' = [id \in Ids |-> IF id \in kept THEN cases[id] ELSE NoCase]
          /\ notes' = notes \cap KeepWork(kept)
          /\ done' = [id \in Ids |-> IF id \in KeepWork(kept) THEN done[id] ELSE {}]
          /\ counter' = Largest(kept)
    <2> DEFINE stored == IF db THEN {id \in Ids : Exists(id)} ELSE {}
               rest == IF Cardinality(stored) > ClearAbove THEN {} ELSE stored
    <2>1. rest \in SUBSET Ids /\ (~db => rest = {}) /\ \A id \in rest : cases[id] # NoCase
      BY DEF Exists
    <2>2. /\ cases' = [id \in Ids |-> IF id \in rest THEN cases[id] ELSE NoCase]
          /\ notes' = notes \cap KeepWork(rest)
          /\ done' = [id \in Ids |-> IF id \in KeepWork(rest) THEN done[id] ELSE {}]
          /\ counter' = Largest(rest)
      BY DEF Restart, Reseed
    <2> HIDE DEF rest
    <2> QED BY <2>1, <2>2
  <1>2. cases' \in [Ids -> Case \cup {NoCase}] /\ \A id \in Ids : cases'[id] # NoCase => id \in kept
    BY <1>0, <1>1 DEF TypeOK
  <1>3. counter' \in Nat /\ \A id \in kept : id <= counter'
    BY <1>1, LargestIs
  <1>4. \A p \in Requests : req'[p].pc = "idle"
    BY <1>0 DEF Idle
  <1>5. TypeOK'
    BY <1>0, <1>1, <1>2, <1>3 DEF Restart, TypeOK, Request
  <1>6. IdsInv' /\ CheckedInv' /\ LeavingInv' /\ WaitingInv'
    BY <1>2, <1>3, <1>4 DEF IdsInv, CheckedInv, LeavingInv, WaitingInv, Leaving, Exists
  <1>7. EmptyInv'
    <2> SUFFICES ASSUME ~db \/ Cascade, NEW id \in Ids, cases'[id] = NoCase
                 PROVE  id \notin notes' /\ done'[id] = {}
      BY <1>0 DEF EmptyInv, Exists
    <2>1. KeepWork(kept) = kept
      BY DEF KeepWork
    <2>2. CASE id \in kept
      <3>1. cases'[id] = cases[id]
        BY <1>1, <2>2
      <3> QED BY <1>1, <2>2, <3>1
    <2>3. CASE id \notin kept
      BY <1>1, <2>1, <2>3
    <2> QED BY <2>2, <2>3
  <1>8. OpensEmpty
    BY <1>1 DEF OpensEmpty, Exists
  <1>9. Book!StartAgain(kept, active')
    BY <1>0, <1>1 DEF Book!StartAgain
  <1>10. [Book!Next]_Book!book
    BY <1>0, <1>5, <1>9 DEF Book!Next, TypeOK
  <1> QED BY <1>5, <1>6, <1>7, <1>8, <1>10 DEF CaseStep, CaseInv

-----------------------------------------------------------------------------
(* The theorems. *)

LEMMA InitHolds == Init => CaseInv /\ Book!Init
  <1> SUFFICES ASSUME Init PROVE CaseInv /\ Book!Init
    OBVIOUS
  <1>1. /\ cases \in [Ids -> Case \cup {NoCase}] /\ done \in [Ids -> SUBSET Tasks]
        /\ req \in [Requests -> Request]
    BY DEF Init, Request
  <1>2. TypeOK
    BY <1>1 DEF Init, TypeOK
  <1>3. /\ \A r \in Requests : req[r].pc = "idle"
        /\ \A id \in Ids : cases[id] = NoCase /\ id \notin notes /\ done[id] = {}
    BY DEF Init, Idle
  <1>4. CaseInv
    BY <1>2, <1>3 DEF CaseInv, IdsInv, CheckedInv, LeavingInv, Leaving, WaitingInv, EmptyInv, Exists
  <1>5. Book!Init
    BY DEF Init, Book!Init
  <1> QED BY <1>4, <1>5

LEMMA RequestStepKeeps ==
    ASSUME CaseInv, NEW r \in Requests, RequestStep(r), UNCHANGED db
    PROVE  CaseStep
  <1>0. db \in BOOLEAN
    BY DEF CaseInv, TypeOK
  <1>1. CASE Admit(r)
    BY <1>1, AdmitKeeps
  <1>2. CASE ReadOrRefuse(r)
    BY <1>2, ReadKeeps
  <1>3. CASE \E id \in Ids, body \in PatchInput : Patch(r, id, body)
    BY <1>3, PatchKeeps
  <1>4. CASE PatchWrite(r)
    BY <1>4, PatchWriteKeeps
  <1>5. CASE \E id \in Ids : AddNote(r, id)
    BY <1>5, AddNoteKeeps
  <1>6. CASE NoteWrite(r)
    BY <1>6, NoteWriteKeeps
  <1>7. CASE \E id \in Ids, set \in Bound[db].tasks : SetTasks(r, id, set)
    BY <1>7, SetTasksKeeps
  <1>8. CASE TasksDelete(r)
    BY <1>8, TasksDeleteKeeps
  <1>9. CASE TasksWrite(r)
    BY <1>9, TasksWriteKeeps
  <1>10. CASE \E ip \in Bound[db].ips : OpenCase(r, ip)
    <2>1. Bound[db].ips \subseteq Ips
      BY <1>0, BoundAssumption
    <2> QED BY <1>10, <2>1, OpenKeeps
  <1>11. CASE InsertWrite(r)
    BY <1>11, InsertWriteKeeps
  <1>12. CASE \E u \in Users : DeleteUser(r, u)
    BY <1>12, DeleteUserKeeps
  <1>13. CASE DeleteWrite(r)
    BY <1>13, DeleteWriteKeeps
  <1>14. CASE UnassignWrite(r)
    BY <1>14, UnassignKeeps
  <1>15. CASE WriteFails(r)
    BY <1>15, WriteFailsKeeps
  <1> QED BY <1>1, <1>2, <1>3, <1>4, <1>5, <1>6, <1>7, <1>8, <1>9, <1>10, <1>11, <1>12,
             <1>13, <1>14, <1>15 DEF RequestStep

\* The invariant is inductive, and every step is one of CaseBook.
LEMMA NextKeeps == CaseInv /\ [Next]_vars => CaseStep
  <1> SUFFICES ASSUME CaseInv, [Next]_vars PROVE CaseStep
    OBVIOUS
  <1>1. ASSUME NEW r \in Requests, RequestStep(r), UNCHANGED db PROVE CaseStep
    BY <1>1, RequestStepKeeps
  <1>2. CASE Detect /\ UNCHANGED db
    BY <1>2, DetectKeeps
  <1>3. CASE Restart /\ UNCHANGED db
    BY <1>3, RestartKeeps
  <1>4. CASE UNCHANGED vars
    <2>1. UNCHANGED <<db, cases, notes, done, counter, active, activeDb, req, by>>
      BY <1>4 DEF vars
    <2>2. CaseInv'
      BY <2>1 DEF CaseInv, TypeOK, IdsInv, CheckedInv, LeavingInv, Leaving, WaitingInv, EmptyInv,
                  Exists
    <2> QED BY <2>1, <2>2, Stutter DEF CaseStep
  <1> QED BY <1>1, <1>2, <1>3, <1>4 DEF Next

LEMMA Invariant == Spec => []CaseInv
  <1>1. Init => CaseInv
    BY InitHolds
  <1>2. CaseInv /\ [Next]_vars => CaseInv'
    BY NextKeeps DEF CaseStep
  <1> QED BY <1>1, <1>2, PTL DEF Spec

\* Every variable keeps to the values the code gives it.
THEOREM Typed == Spec => []TypeOK
  <1>1. CaseInv => TypeOK
    BY DEF CaseInv
  <1> QED BY <1>1, Invariant, PTL

\* The id of a case about to be inserted is taken by no case and by no other
\* request, whatever failed, restarted or was cleared before (the counter is
\* reseeded from the largest id of the table).
THEOREM IdsUnique == Spec => []IdsNeverClash
  <1>1. CaseInv => IdsNeverClash
    BY DEF CaseInv, IdsInv, IdsNeverClash
  <1> QED BY <1>1, Invariant, PTL

\* Where the database deletes notes and tasks with the incident (and in memory
\* always), a new case has none of them, even when its id was used before.
THEOREM NewCasesEmpty == ASSUME Cascade PROVE Spec => NewCaseIsEmpty
  <1>1. CaseInv /\ [Next]_vars =>
          [\A id \in Ids : ~Exists(id) /\ cases'[id] # NoCase
                             => id \notin notes' /\ done'[id] = {}]_vars
    BY NextKeeps DEF CaseStep, OpensEmpty, CaseInv, EmptyInv
  <1> QED BY <1>1, Invariant, PTL DEF Spec, NewCaseIsEmpty

\* Cases implements CaseBook: an incident is changed only by a user whom the
\* incident as it is at that moment allows to make the change, although the
\* check was made on an earlier state; a new case is its opener's; only open
\* cases of users who are gone become unassigned by themselves.
THEOREM KeepsTheBook == Spec => BookSpec
  <1>1. Init => Book!Init
    BY InitHolds
  <1>2. CaseInv /\ [Next]_vars => [Book!Next]_Book!book
    BY NextKeeps DEF CaseStep
  <1> QED BY <1>1, <1>2, Invariant, PTL DEF Spec, BookSpec, Book!Spec
=============================================================================
