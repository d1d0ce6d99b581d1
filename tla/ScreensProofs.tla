---------------------------- MODULE ScreensProofs ----------------------------
(***************************************************************************)
(* The two screens: proofs about the page of incidents (module             *)
(* IncidentsPage), for any users, incidents and requests, and the rules of *)
(* Authz it rests on (permissions.ts agrees with authz.py); and about the  *)
(* alerts (module Alerts), for any length of their list and any number of them.*)
(*                                                                         *)
(* Invariant of the page: every request for a change was one the server would*)
(* have accepted for the incident as the drawer showed it when it was sent.*)
(* Invariant of the alerts: ids are the places since the last restart, on the*)
(* server and in every copy made since.                                    *)
(***************************************************************************)
EXTENDS Screens, TLAPS, WellFoundedInduction

-----------------------------------------------------------------------------
(* The browser's rules about incidents agree with the server's. *)

\* Working on an incident is offered exactly when the server accepts it
\* (canWorkOnIncident, check_work_on_incident).
THEOREM OfferedWork ==
    ASSUME NEW who, NEW inc
    PROVE  MayWork(who, inc) <=> CheckWorkOnIncident(who, inc) = "ok"
BY DEF MayWork, IsLead, CheckWorkOnIncident, CanWorkOnIncident, INCIDENT_LEADS

\* Taking an incident is offered exactly when nobody has it and the server
\* would let this user have it (canTakeIncident, check_assignment).
THEOREM OfferedTake ==
    ASSUME NEW who, NEW inc, NEW active,
           who.username \in active, who.username # NoUser
    PROVE  MayTake(who, inc) <=>
             /\ inc.assigned_to = NoUser
             /\ CheckAssignment(who, inc, who.username, active) = "ok"
BY DEF MayTake, MayAssign, IsLead, CheckAssignment, INCIDENT_LEADS

\* A change of status, assignee or both is offered exactly when the server
\* accepts it: the assignee is one the browser lists, which are the active
\* users, nobody, and whoever has the incident, deleted or not
\* (canAssign, check_incident_patch).
THEOREM OfferedPatch ==
    ASSUME NEW who, NEW inc, NEW active, NEW body,
           "status" \in body.has => body.status \in INCIDENT_STATUSES,
           "assigned_to" \in body.has =>
             body.assigned_to \in active \cup {NoUser, inc.assigned_to}
    PROVE  MayPatchIncident(who, inc, body)
             <=> CheckIncidentPatch(who, inc, body, active) = "ok"
<1>1. MayWork(who, inc) <=> CheckWorkOnIncident(who, inc) = "ok"
  BY OfferedWork
<1>2. ASSUME "assigned_to" \in body.has
      PROVE  MayAssign(who, inc, body.assigned_to) <=>
               (body.assigned_to # inc.assigned_to =>
                  CheckAssignment(who, inc, body.assigned_to, active) = "ok")
  BY <1>2 DEF MayAssign, IsLead, CheckAssignment, INCIDENT_LEADS
<1>3. "assigned_to" \in PatchFields(inc, body) <=>
        "assigned_to" \in body.has /\ body.assigned_to # inc.assigned_to
  BY DEF PatchFields
<1>4. QED
  BY <1>1, <1>2, <1>3 DEF MayPatchIncident, CheckIncidentPatch

-----------------------------------------------------------------------------
(* What the page sent is accepted. *)

\* The server's check of the request of kind and body, were the incident inc.
Accepts(kind, body, inc) ==
    IF kind = "patch" THEN CheckIncidentPatch(user, inc, Body(body), Active) = "ok"
    ELSE CheckWorkOnIncident(user, inc) = "ok"

SentAccepted ==
    \A c \in calls : c.stage = "sent" /\ c.kind \notin Reads
      => c.seen \in Incident /\ Accepts(c.kind, c.body, c.seen)

IInv == TypeOK /\ SentAccepted

-----------------------------------------------------------------------------
(* What the helpers return. *)

LEMMA FirstTyped ==
    ASSUME NEW target \in Linked \cup {None}
    PROVE  /\ First(target) \in Requests
           /\ First(target).kind \in Reads
BY DataAssumption DEF First, Call, Requests, Sent, Reads

LEMMA BodyFields ==
    ASSUME NEW body \in Bodies
    PROVE  /\ Body(body).has = DOMAIN body
           /\ "status" \in DOMAIN body => Body(body).status = body.status
           /\ "assigned_to" \in DOMAIN body => Body(body).assigned_to = body.assigned_to
BY DataAssumption DEF Body

\* What a button sends is accepted for the incident it was offered for.
LEMMA OfferedAccepted ==
    ASSUME NEW body \in Bodies, selected # None, selected.inc \in Incident, MayChange(body)
    PROVE  CheckIncidentPatch(user, selected.inc, Body(body), Active) = "ok"
<1> DEFINE b == Body(body)
<1>1. "status" \in b.has => b.status \in INCIDENT_STATUSES
  BY BodyFields, DataAssumption
<1>2. "assigned_to" \in b.has => b.assigned_to \in Active \cup {NoUser, selected.inc.assigned_to}
  BY BodyFields, DataAssumption
<1>3. MayPatchIncident(user, selected.inc, b)
  BY BodyFields DEF MayPatchIncident, MayChange
<1> HIDE DEF b
<1>4. QED
  BY <1>1, <1>2, <1>3, OfferedPatch DEF b

LEMMA ChangedTyped ==
    ASSUME TypeOK, NEW c \in calls, c.stage = "sent", c.kind \notin Reads, server[c.id] # None
    PROVE  Changed(c) \in Incident
<1> DEFINE inc == server[c.id]
<1>1. c \in Requests /\ c.id \in Ids
  BY DEF TypeOK, Requests, Answers, Sent, Answered, Reads
<1>2. inc \in Incident
  BY <1>1 DEF TypeOK, Copies
<1>3. CASE c.kind = "patch"
  <2>1. c.body \in Bodies
    BY <1>1, <1>3 DEF Requests, Sent, Reads
  <2>2. Changed(c) = [f \in DOMAIN inc |-> IF f \in DOMAIN c.body THEN c.body[f] ELSE inc[f]]
    BY <1>3 DEF Changed
  <2>3. DOMAIN inc = {"assigned_to", "status", "done", "notes"}
    BY <1>2 DEF Incident
  <2>4. DOMAIN c.body \subseteq {"status", "assigned_to"}
    BY <2>1, DataAssumption
  <2> DEFINE assignee == IF "assigned_to" \in DOMAIN c.body THEN c.body.assigned_to ELSE inc.assigned_to
             status == IF "status" \in DOMAIN c.body THEN c.body.status ELSE inc.status
  <2>5. Changed(c) = [assigned_to |-> assignee, status |-> status, done |-> inc.done, notes |-> inc.notes]
    BY <2>2, <2>3, <2>4
  <2>6. assignee \in Active \cup {NoUser} /\ status \in INCIDENT_STATUSES
    BY <1>2, <2>1, DataAssumption DEF Incident
  <2> QED
    BY <2>5, <2>6, <1>2 DEF Incident
<1>4. CASE c.kind = "tasks"
  <2>1. c.body \subseteq Tasks /\ Changed(c) = [inc EXCEPT !.done = c.body]
    BY <1>1, <1>4 DEF Requests, Sent, Reads, Changed
  <2> HIDE DEF inc
  <2> QED
    BY <2>1, <1>2 DEF Incident
<1>5. CASE c.kind = "note"
  <2>1. c.body \in Texts /\ Changed(c) = [inc EXCEPT !.notes = Append(inc.notes, c.body)]
    BY <1>1, <1>5 DEF Requests, Sent, Reads, Changed
  <2>2. Append(inc.notes, c.body) \in Seq(Texts)
    BY <2>1, <1>2 DEF Incident
  <2> HIDE DEF inc
  <2> QED
    BY <2>1, <2>2, <1>2 DEF Incident
<1>6. c.kind \in {"patch", "tasks", "note"}
  BY <1>1 DEF Requests, Sent, Reads
<1> QED
  BY <1>3, <1>4, <1>5, <1>6

LEMMA FillTyped ==
    ASSUME NEW id \in Ids, NEW inc \in Incident, Fill(id, inc)
    PROVE  /\ selected' \in [id : Ids, inc : Incident]
           /\ notes' \in Seq(Texts) /\ ticks' \subseteq Tasks
BY DEF Fill, Incident

\* An open drawer shows an incident.
LEMMA DrawerTyped ==
    ASSUME TypeOK, selected # None
    PROVE  selected.id \in Ids /\ selected.inc \in Incident
BY DEF TypeOK

-----------------------------------------------------------------------------
(* The user's steps. *)

LEMMA OpenInv ==
    ASSUME IInv, NEW id \in Ids, Open(id) PROVE IInv'
<1>1. list[id] \in Incident
  BY DEF IInv, TypeOK, Copies, Open
<1>2. Fill(id, list[id])
  BY DEF Open
<1>3. TypeOK'
  BY <1>1, <1>2, FillTyped DEF IInv, TypeOK, Open
<1>4. SentAccepted'
  BY DEF IInv, SentAccepted, Accepts, Open
<1> QED BY <1>3, <1>4 DEF IInv

LEMMA CloseInv ==
    ASSUME IInv, Close PROVE IInv'
<1>1. TypeOK'
  BY DEF IInv, TypeOK, Close
<1>2. SentAccepted'
  BY DEF IInv, SentAccepted, Accepts, Close
<1> QED BY <1>1, <1>2 DEF IInv

\* A request is sent for the incident in the drawer.
LEMMA SendInv ==
    ASSUME IInv, selected # None, NEW kind, NEW body, Send(kind, body),
           Call(kind, selected.id, body, selected.inc) \in Requests,
           Accepts(kind, body, selected.inc),
           notes' \in Seq(Texts), ticks' \subseteq Tasks, written' \subseteq Texts
    PROVE  IInv'
<1> DEFINE new == Call(kind, selected.id, body, selected.inc)
<1>1. new.kind = kind /\ new.body = body /\ new.seen = selected.inc
  BY DEF Call
<1>2. calls' = calls \cup {new}
  BY DEF Send
<1>3. TypeOK'
  <2>1. writes' \in 0..MaxWrites
    BY BoundsAssumption DEF IInv, TypeOK, Send
  <2> QED
    BY <1>2, <2>1 DEF IInv, TypeOK, Send
<1>4. SentAccepted'
  <2> SUFFICES ASSUME NEW c \in calls', c.stage = "sent", c.kind \notin Reads
               PROVE  c.seen \in Incident /\ Accepts(c.kind, c.body, c.seen)'
    BY DEF SentAccepted
  <2>1. user' = user
    BY DEF Send
  <2>2. CASE c = new
    BY <1>1, <2>1, <2>2, DrawerTyped DEF IInv, Accepts
  <2>3. CASE c \in calls
    BY <2>1, <2>3 DEF IInv, SentAccepted, Accepts
  <2> QED BY <1>2, <2>2, <2>3
<1> QED BY <1>3, <1>4 DEF IInv

LEMMA ChangeInv ==
    ASSUME IInv, NEW body \in Bodies, Change(body) PROVE IInv'
<1>1. selected # None /\ MayChange(body) /\ Send("patch", body) /\ UNCHANGED <<notes, ticks, written>>
  BY DEF Change
<1>2. selected.id \in Ids /\ selected.inc \in Incident
  BY <1>1, DrawerTyped DEF IInv
<1>3. Call("patch", selected.id, body, selected.inc) \in Requests
  BY <1>2 DEF Call, Requests, Sent, Reads
<1>4. Accepts("patch", body, selected.inc)
  BY <1>1, <1>2, OfferedAccepted DEF Accepts
<1> QED
  BY <1>1, <1>3, <1>4, SendInv DEF IInv, TypeOK

LEMMA ToggleInv ==
    ASSUME IInv, NEW task \in Tasks, Toggle(task) PROVE IInv'
<1>1. /\ selected # None /\ MayWork(user, selected.inc) /\ Send("tasks", ticks')
      /\ UNCHANGED <<notes, written>>
  BY DEF Toggle
<1>2. ticks' \subseteq Tasks
  BY DEF Toggle, IInv, TypeOK
<1>3. selected.id \in Ids /\ selected.inc \in Incident
  BY <1>1, DrawerTyped DEF IInv
<1>4. Call("tasks", selected.id, ticks', selected.inc) \in Requests
  BY <1>2, <1>3 DEF Call, Requests, Sent, Reads
<1>5. Accepts("tasks", ticks', selected.inc)
  BY <1>1, OfferedWork DEF Accepts
<1> QED
  BY <1>1, <1>2, <1>4, <1>5, SendInv DEF IInv, TypeOK

LEMMA AddNoteInv ==
    ASSUME IInv, NEW text \in Texts, AddNote(text) PROVE IInv'
<1>1. /\ selected # None /\ MayWork(user, selected.inc) /\ Send("note", text)
      /\ UNCHANGED <<notes, ticks>> /\ written' = written \cup {text}
  BY DEF AddNote
<1>2. selected.id \in Ids /\ selected.inc \in Incident
  BY <1>1, DrawerTyped DEF IInv
<1>3. Call("note", selected.id, text, selected.inc) \in Requests
  BY <1>2 DEF Call, Requests, Sent, Reads
<1>4. Accepts("note", text, selected.inc)
  BY <1>1, OfferedWork DEF Accepts
<1> QED
  BY <1>1, <1>3, <1>4, SendInv DEF IInv, TypeOK

LEMMA LeaveInv ==
    ASSUME IInv, Leave PROVE IInv'
<1> PICK target \in Linked \cup {None} :
      calls' = {First(target)} \cup
               {[c EXCEPT !.heard = FALSE] :
                  c \in {d \in calls : d.kind \notin Reads /\ d.stage = "sent"}}
  BY DEF Leave
<1>1. ASSUME NEW c \in calls, c.kind \notin Reads, c.stage = "sent"
      PROVE  /\ [c EXCEPT !.heard = FALSE] \in Requests
             /\ [c EXCEPT !.heard = FALSE].seen \in Incident
             /\ Accepts([c EXCEPT !.heard = FALSE].kind, [c EXCEPT !.heard = FALSE].body,
                        [c EXCEPT !.heard = FALSE].seen)
  <2> DEFINE d == [c EXCEPT !.heard = FALSE]
  <2>1. c \in Requests
    BY <1>1 DEF IInv, TypeOK, Answers, Answered, Reads
  <2>2. d \in Requests /\ d.seen = c.seen /\ d.kind = c.kind /\ d.body = c.body
    BY <1>1, <2>1 DEF Requests, Sent, Reads
  <2>3. c.seen \in Incident /\ Accepts(c.kind, c.body, c.seen)
    BY <1>1 DEF IInv, SentAccepted
  <2> QED BY <2>2, <2>3
<1>2. TypeOK'
  <2>1. calls' \subseteq Requests
    BY <1>1, FirstTyped
  <2>2. NoIncidents \in Copies
    BY DEF NoIncidents, Copies
  <2> QED
    BY <2>1, <2>2 DEF IInv, TypeOK, Leave
<1>3. SentAccepted'
  <2> SUFFICES ASSUME NEW d \in calls', d.stage = "sent", d.kind \notin Reads
               PROVE  d.seen \in Incident /\ Accepts(d.kind, d.body, d.seen)'
    BY DEF SentAccepted
  <2>1. PICK c \in calls : c.kind \notin Reads /\ c.stage = "sent" /\ d = [c EXCEPT !.heard = FALSE]
    BY FirstTyped
  <2>2. user' = user
    BY DEF Leave
  <2> QED
    BY <1>1, <2>1, <2>2 DEF Accepts
<1> QED BY <1>2, <1>3 DEF IInv

LEMMA PollInv ==
    ASSUME IInv, Poll PROVE IInv'
<1> DEFINE new == Call("poll", None, None, None)
<1>1. new \in Requests /\ new.kind \in Reads
  BY DEF Call, Requests, Sent, Reads
<1>2. calls' = calls \cup {new} /\ UNCHANGED <<server, user, page, written, writes, others>>
  BY DEF Poll
<1> HIDE DEF new
<1>3. TypeOK'
  BY <1>1, <1>2 DEF IInv, TypeOK, page
<1>4. SentAccepted'
  BY <1>1, <1>2 DEF IInv, SentAccepted, Accepts
<1> QED BY <1>3, <1>4 DEF IInv

-----------------------------------------------------------------------------
(* The server's steps and the arrival of answers. *)

LEMMA ServeInv ==
    ASSUME IInv, NEW c \in calls, Serve(c) PROVE IInv'
<1>1. c.stage = "sent" /\ UNCHANGED <<user, page, written, writes, others>>
  BY DEF Serve
<1>2. c \in Requests
  BY <1>1 DEF IInv, TypeOK, Answers, Answered
<1>3. ASSUME NEW answer, Reply(c, answer),
             \/ c.kind \in Reads /\ answer \in Copies
             \/ c.kind = "patch" /\ answer \in Incident
             \/ c.kind = "note" /\ answer = None
             \/ c.kind = "tasks"
      PROVE  /\ calls' \subseteq Requests \cup Answers
             /\ \A d \in calls' : d.stage = "sent" => d \in calls
  <2> DEFINE new == [c EXCEPT !.stage = "answered", !.seen = None, !.answer = answer]
  <2>1. calls' \subseteq calls \cup IF c.kind = "tasks" THEN {} ELSE {new}
    BY <1>3 DEF Reply
  <2>2. c.kind # "tasks" => new \in Answers /\ new.stage = "answered"
    BY <1>2, <1>3 DEF Requests, Sent, Answers, Answered, Reads
  <2> HIDE DEF new
  <2> QED
    BY <2>1, <2>2 DEF IInv, TypeOK
<1>4. ASSUME server' \in Copies, calls' \subseteq Requests \cup Answers,
             \A d \in calls' : d.stage = "sent" => d \in calls
      PROVE  IInv'
  <2>1. TypeOK'
    BY <1>1, <1>4 DEF IInv, TypeOK, page
  <2>2. SentAccepted'
    BY <1>1, <1>4 DEF IInv, SentAccepted, Accepts
  <2> QED BY <2>1, <2>2 DEF IInv
<1>5. CASE ServeList(c)
  BY <1>3, <1>4, <1>5 DEF ServeList, IInv, TypeOK
<1>6. CASE ServeWrite(c)
  <2>1. server[c.id] # None
    BY <1>6 DEF ServeWrite, Check
  <2>2. Changed(c) \in Incident
    BY <1>1, <1>6, <2>1, ChangedTyped DEF ServeWrite, IInv
  <2>3. server' \in Copies
    BY <1>6, <2>2 DEF ServeWrite, IInv, TypeOK, Copies
  <2>4. c.kind \in {"patch", "tasks", "note"}
    BY <1>2, <1>6 DEF ServeWrite, Requests, Sent, Reads
  <2> QED
    BY <1>3, <1>4, <1>6, <2>2, <2>3, <2>4 DEF ServeWrite
<1>7. CASE Refuse(c)
  BY <1>4, <1>7 DEF Refuse, IInv, TypeOK
<1> QED
  BY <1>5, <1>6, <1>7 DEF Serve

LEMMA OthersInv ==
    ASSUME IInv, NEW id \in Ids, OthersMove(id) PROVE IInv'
<1>1. /\ others' \in 0..MaxOthers
      /\ UNCHANGED <<user, page, calls, written, writes>>
  BY BoundsAssumption DEF OthersMove, IInv, TypeOK
<1>2. server' \in Copies
  <2>1. PICK new \in IF server[id] = None THEN Fresh ELSE
                        {None}
                        \cup {[server[id] EXCEPT !.assigned_to = who] : who \in Active \cup {NoUser}}
                        \cup {[server[id] EXCEPT !.done = (@ \ {t}) \cup ({t} \ @)] : t \in Tasks} :
          server' = [server EXCEPT ![id] = new]
    BY DEF OthersMove
  <2>2. server[id] \in Incident \cup {None}
    BY DEF IInv, TypeOK, Copies
  <2>3. CASE server[id] = None
    BY <2>1, <2>3, DataAssumption DEF IInv, TypeOK, Copies
  <2>4. CASE server[id] # None
    <3>1. ASSUME NEW who \in Active \cup {NoUser}
          PROVE  [server[id] EXCEPT !.assigned_to = who] \in Incident
      BY <2>2, <2>4 DEF Incident
    <3>2. ASSUME NEW t \in Tasks
          PROVE  [server[id] EXCEPT !.done = (@ \ {t}) \cup ({t} \ @)] \in Incident
      BY <2>2, <2>4 DEF Incident
    <3>3. new \in Incident \cup {None}
      BY <2>1, <2>4, <3>1, <3>2
    <3> QED
      BY <2>1, <3>3 DEF IInv, TypeOK, Copies
  <2> QED BY <2>3, <2>4
<1>3. TypeOK'
  BY <1>1, <1>2 DEF IInv, TypeOK, page
<1>4. SentAccepted'
  BY <1>1 DEF IInv, SentAccepted, Accepts
<1> QED BY <1>3, <1>4 DEF IInv

LEMMA ArriveInv ==
    ASSUME IInv, NEW c \in calls, Arrive(c) PROVE IInv'
<1>1. /\ c.stage = "answered" /\ calls' = calls \ {c}
      /\ UNCHANGED <<server, user, written, writes, others>>
  BY DEF Arrive
<1>2. c \in Answers
  BY <1>1 DEF IInv, TypeOK, Requests, Sent
<1>3. /\ list' \in Copies /\ selected' \in [id : Ids, inc : Incident] \cup {None}
      /\ notes' \in Seq(Texts) /\ ticks' \subseteq Tasks
  <2>1. CASE c.kind \in Reads
    <3>1. c.answer \in Copies /\ c.id \in Ids \cup {None}
      BY <1>2, <2>1 DEF Answers, Answered, Reads
    <3>2. list' = c.answer
      BY <2>1 DEF Arrive, FirstArrives, PollArrives, ChangeArrives, NoteArrives, Reads
    <3>3. ASSUME NEW id \in Ids, c.answer[id] # None, Fill(id, c.answer[id])
          PROVE  /\ selected' \in [id : Ids, inc : Incident]
                 /\ notes' \in Seq(Texts) /\ ticks' \subseteq Tasks
      BY <3>1, <3>3, FillTyped DEF Copies
    <3>4. \/ UNCHANGED drawer
          \/ \E id \in Ids : c.answer[id] # None /\ Fill(id, c.answer[id])
      <4>1. CASE FirstArrives(c)
        BY <3>1, <4>1 DEF FirstArrives
      <4>2. CASE PollArrives(c)
        <5>1. selected # None => selected.id \in Ids
          BY DrawerTyped DEF IInv
        <5> QED BY <4>2, <5>1 DEF PollArrives
      <4> QED
        BY <2>1, <4>1, <4>2 DEF Arrive, ChangeArrives, NoteArrives, Reads
    <3> QED
      BY <3>1, <3>2, <3>3, <3>4 DEF IInv, TypeOK, drawer
  <2>2. CASE c.kind = "patch"
    <3>1. c.id \in Ids /\ c.answer \in Incident
      BY <1>2, <2>2 DEF Answers, Answered, Reads
    <3>2. ChangeArrives(c)
      BY <2>2 DEF Arrive, FirstArrives, PollArrives, NoteArrives
    <3>3. list' \in Copies
      BY <3>1, <3>2 DEF ChangeArrives, IInv, TypeOK, Copies
    <3> QED
      BY <3>1, <3>2, <3>3, FillTyped DEF ChangeArrives
  <2>3. CASE c.kind = "note"
    <3>1. c.body \in Texts
      BY <1>2, <2>3 DEF Answers, Answered, Reads
    <3>2. NoteArrives(c)
      BY <2>3 DEF Arrive, FirstArrives, PollArrives, ChangeArrives
    <3> QED
      BY <3>1, <3>2 DEF NoteArrives, IInv, TypeOK
  <2> QED
    BY <1>2, <2>1, <2>2, <2>3 DEF Answers, Answered, Reads
<1>4. TypeOK'
  BY <1>1, <1>3 DEF IInv, TypeOK
<1>5. SentAccepted'
  BY <1>1 DEF IInv, SentAccepted, Accepts
<1> QED BY <1>4, <1>5 DEF IInv

-----------------------------------------------------------------------------

\* IInv is inductive.
LEMMA InitInv == Init => IInv
<1> SUFFICES ASSUME Init PROVE IInv
  OBVIOUS
<1>1. PICK target \in Linked \cup {None} : calls = {First(target)}
  BY DEF Init
<1>2. TypeOK
  <2>1. server \in Copies /\ list \in Copies
    BY DataAssumption DEF Init, NoIncidents, Copies
  <2>2. calls \subseteq Requests
    BY <1>1, FirstTyped
  <2> QED
    BY <2>1, <2>2, BoundsAssumption DEF Init, TypeOK
<1>3. SentAccepted
  BY <1>1, FirstTyped DEF SentAccepted
<1> QED BY <1>2, <1>3 DEF IInv

LEMMA NextInv == IInv /\ [Next]_vars => IInv'
<1> SUFFICES ASSUME IInv, [Next]_vars PROVE IInv'
  OBVIOUS
<1>1. CASE Next
  <2>1. ASSUME NEW c \in calls, Lose(c) PROVE IInv'
    <3>1. calls' = calls \ {c} /\ UNCHANGED <<server, user, page, written, writes, others>>
      BY <2>1 DEF Lose
    <3> QED BY <3>1 DEF IInv, TypeOK, SentAccepted, Accepts, page
  <2> QED
    BY <1>1, <2>1, OpenInv, OthersInv, CloseInv, LeaveInv, PollInv, ChangeInv, ToggleInv,
       AddNoteInv, ServeInv, ArriveInv DEF Next
<1>2. CASE UNCHANGED vars
  BY <1>2 DEF vars, IInv, TypeOK, SentAccepted, Accepts
<1> QED BY <1>1, <1>2

\* The type invariant of the page, for any users, incidents and requests.
THEOREM Typed == Spec => []TypeOK
<1>1. IInv => TypeOK
  BY DEF IInv
<1> QED BY InitInv, NextInv, <1>1, PTL DEF Spec

LEMMA StaleIsWhy == IInv => RefusedOnlyIfStale
<1> SUFFICES ASSUME IInv, NEW c \in calls, c.stage = "sent", c.kind \notin Reads,
                    c.seen = server[c.id]
             PROVE  Check(c) = "ok"
  BY DEF RefusedOnlyIfStale
<1>1. server[c.id] \in Incident /\ Accepts(c.kind, c.body, server[c.id])
  BY DEF IInv, SentAccepted
<1>2. server[c.id] # None
  BY <1>1, NoneAssumption
<1> QED
  BY <1>1, <1>2 DEF Check, Accepts

\* The server refuses a request only if the incident is no longer as the drawer
\* showed it (permissions.ts, authz.py).
THEOREM OfferedIsAccepted == Spec => []RefusedOnlyIfStale
  BY InitInv, NextInv, StaleIsWhy, PTL DEF Spec

-----------------------------------------------------------------------------
(* The alerts: first what the helpers on lists return. *)

\* Induction over a set of numbers.
LEMMA SetInduction ==
    ASSUME NEW S, 0 \in S, \A n \in Nat : n \in S => n + 1 \in S
    PROVE  Nat \subseteq S
<1> SUFFICES ASSUME NEW m \in Nat, m \notin S PROVE FALSE
  OBVIOUS
<1> DEFINE T == {n \in Nat : n \notin S}
<1>1. T \subseteq Nat /\ T # {}
  OBVIOUS
<1>2. PICK x \in T : \A y \in T : ~ (<<y, x>> \in OpToRel(<, Nat))
  <2> HIDE DEF T
  <2> QED BY <1>1, NatLessThanWellFounded, WFMin
<1>3. x \in Nat /\ x \notin S /\ x # 0
  BY <1>2
<1>4. x - 1 \in Nat /\ x - 1 < x /\ (x - 1) + 1 = x
  BY <1>3
<1>5. <<x - 1, x>> \in OpToRel(<, Nat)
  BY <1>3, <1>4 DEF OpToRel
<1>6. x - 1 \in S
  BY <1>2, <1>4, <1>5
<1> QED BY <1>3, <1>4, <1>6

\* What Only makes of a seq, up to n.
Goes(f, seq, keep, n) ==
    f = [k \in 0..n |-> IF k = 0 THEN <<>>
                        ELSE IF seq[k] \in keep THEN Append(f[k - 1], seq[k]) ELSE f[k - 1]]

LEMMA GoesOn ==
    ASSUME NEW seq, NEW keep, NEW n \in Nat
    PROVE  \E f : Goes(f, seq, keep, n)
<1> DEFINE S == {m \in Nat : \E f : Goes(f, seq, keep, m)}
<1>1. 0 \in S
  <2>1. Goes([k \in 0..0 |-> <<>>], seq, keep, 0)
    BY DEF Goes
  <2> QED BY <2>1
<1>2. ASSUME NEW m \in Nat, m \in S PROVE m + 1 \in S
  <2>1. PICK f : Goes(f, seq, keep, m)
    BY <1>2
  <2>2. PICK last : last = IF seq[m + 1] \in keep THEN Append(f[m], seq[m + 1]) ELSE f[m]
    OBVIOUS
  <2>3. PICK g : g = [k \in 0..(m + 1) |-> IF k = m + 1 THEN last ELSE f[k]]
    OBVIOUS
  <2>4. \A k \in 0..(m + 1) : k # 0 => k - 1 \in 0..(m + 1) /\ k - 1 # m + 1 /\ g[k - 1] = f[k - 1]
    BY <2>3
  <2>5. ASSUME NEW k \in 0..(m + 1)
        PROVE  g[k] = IF k = 0 THEN <<>>
                      ELSE IF seq[k] \in keep THEN Append(g[k - 1], seq[k]) ELSE g[k - 1]
    <3>1. CASE k = m + 1
      BY <2>2, <2>3, <2>4, <3>1
    <3>2. CASE k # m + 1
      <4>1. k \in 0..m
        BY <3>2
      <4>2. g[k] = f[k]
        BY <2>3, <3>2
      <4>3. f[k] = IF k = 0 THEN <<>>
                   ELSE IF seq[k] \in keep THEN Append(f[k - 1], seq[k]) ELSE f[k - 1]
        BY <2>1, <4>1 DEF Goes
      <4> QED BY <2>4, <4>2, <4>3
    <3> QED BY <3>1, <3>2
  <2>6. Goes(g, seq, keep, m + 1)
    BY <2>3, <2>5 DEF Goes
  <2> QED BY <2>6
<1> HIDE DEF S
<1>3. n \in S
  BY <1>1, <1>2, SetInduction
<1> QED BY <1>3 DEF S

\* Only picks from a seq.
LEMMA OnlyPicks ==
    ASSUME NEW T, NEW seq \in Seq(T), NEW keep
    PROVE  Feed!Only(seq, keep) \in Seq(T) /\ Len(Feed!Only(seq, keep)) <= Len(seq)
<1>1. PICK N \in Nat : N = Len(seq)
  OBVIOUS
<1> DEFINE f == CHOOSE f : Goes(f, seq, keep, N)
           S == {m \in Nat : m <= N => f[m] \in Seq(T) /\ Len(f[m]) <= m}
<1>2. Goes(f, seq, keep, N)
  BY GoesOn
<1>3. Feed!Only(seq, keep) = f[N]
  BY <1>1 DEF Feed!Only, Goes
<1> HIDE DEF f
<1>4. 0 \in S
  BY <1>2 DEF Goes
<1>5. ASSUME NEW m \in Nat, m \in S PROVE m + 1 \in S
  <2> SUFFICES ASSUME m + 1 <= N PROVE f[m + 1] \in Seq(T) /\ Len(f[m + 1]) <= m + 1
    OBVIOUS
  <2>1. f[m] \in Seq(T) /\ Len(f[m]) <= m /\ seq[m + 1] \in T
    BY <1>1, <1>5
  <2>2. f[m + 1] = IF seq[m + 1] \in keep THEN Append(f[m], seq[m + 1]) ELSE f[m]
    <3>1. PICK k : k = m + 1
      OBVIOUS
    <3>2. k \in 0..N /\ k # 0 /\ k - 1 = m
      BY <3>1
    <3>3. f[k] = IF seq[k] \in keep THEN Append(f[k - 1], seq[k]) ELSE f[k - 1]
      BY <1>2, <3>2 DEF Goes
    <3> QED BY <3>1, <3>2, <3>3
  <2> QED BY <2>1, <2>2
<1> HIDE DEF S
<1>6. N \in S
  BY <1>4, <1>5, SetInduction
<1> QED BY <1>1, <1>3, <1>6 DEF S

\* The first of a set of numbers.
LEMMA FirstIs ==
    ASSUME NEW S, S \subseteq Nat, S # {}
    PROVE  \E x \in S : \A y \in S : x <= y
<1>1. PICK x \in S : \A y \in S : ~ (<<y, x>> \in OpToRel(<, Nat))
  BY NatLessThanWellFounded, WFMin
<1>2. ASSUME NEW y \in S PROVE x <= y
  <2>1. ~(y < x)
    BY <1>1 DEF OpToRel
  <2> QED BY <2>1
<1> QED BY <1>2

\* _find_alert finds what it looks for.
LEMMA FindIs ==
    ASSUME NEW T, NEW seq \in Seq(T), NEW id, Feed!Find(seq, id) # 0
    PROVE  Feed!Find(seq, id) \in DOMAIN seq /\ seq[Feed!Find(seq, id)].id = id
<1> DEFINE I == {i \in 1..Len(seq) : seq[i].id = id}
<1>1. Feed!Find(seq, id) = IF I # {} THEN Feed!Min(I) ELSE 0
  BY Zenon DEF Feed!Find, Feed!SelectInSeq
<1>2. I # {} /\ I \subseteq Nat /\ \A i \in I : i \in DOMAIN seq /\ seq[i].id = id
  BY <1>1
<1> HIDE DEF I
<1>3. \E x \in I : \A y \in I : x <= y
  BY <1>2, FirstIs
<1>4. Feed!Min(I) \in I
  BY <1>3 DEF Feed!Min
<1> QED BY <1>1, <1>2, <1>4

\* An alert that was met since the last restart has the id it was given then;
\* those in the server's seq all were.
Met == {a \in Feed!Alert : a.uid \in 1..made /\ (a.uid > base => a.id = a.uid - base)}

Present == {a \in Met : a.uid > base}

Pairs == {p \in [id : Feed!Uids, uid : 1..made] : p.uid > base => p.id = p.uid - base}

\* No list is longer than the server's may be.
UpTo(S) == {seq \in Seq(S) : Len(seq) <= Cap}

Asked == [kind : Feed!Kinds, id : Nat, uid : Nat, stage : {"sent", "answered"}, answer : UpTo(Met),
          heard : BOOLEAN]

Whole == {"poll", "list"}

\* A request about an alert names one that was met; what answers it has the id it
\* named and is, but for a restart, that alert.
Fits(c) ==
    c.kind \notin Whole =>
      /\ c.uid \in 1..made /\ (c.uid > base => c.id = c.uid - base)
      /\ c.id \in Feed!Uids /\ Len(c.answer) <= 1
      /\ c.answer # <<>> => /\ c.answer[1].id = c.id
                            /\ c.uid > base => c.answer[1].uid = c.uid

AlertInv ==
    /\ made \in 0..MaxAlerts /\ base \in 0..made /\ counter = made - base
    /\ alerts \in UpTo(Present) /\ shown \in UpTo(Met) /\ picked \in Pairs \cup {None}
    /\ caseOf \in [Feed!Uids -> Feed!Uids \cup {None}] /\ screen \in BOOLEAN
    /\ \A c \in asked : c \in Asked /\ Fits(c)

LEMMA AlertsStart == Feed!Init => AlertInv
<1> SUFFICES ASSUME Feed!Init PROVE AlertInv
  OBVIOUS
<1>1. MaxAlerts \in Nat /\ Cap \in Nat
  BY AlertsAssumption DEF Feed!BoundsOfAlerts
<1>2. <<>> \in UpTo(Present) /\ <<>> \in UpTo(Met)
  BY <1>1 DEF UpTo
<1>3. caseOf \in [Feed!Uids -> Feed!Uids \cup {None}]
  BY DEF Feed!Init, Feed!NoCases
<1>4. 0 \in 0..MaxAlerts /\ 0 \in 0..0 /\ 0 = 0 - 0
  BY <1>1
<1>5. made = 0 /\ base = 0 /\ counter = 0 /\ alerts = <<>> /\ shown = <<>> /\ picked = None /\ asked = {} /\ ~screen
  BY DEF Feed!Init
<1>6. screen \in BOOLEAN
  BY DEF Feed!Init
<1> QED BY <1>2, <1>3, <1>4, <1>5, <1>6 DEF AlertInv

LEMMA NumbersAre ==
    ASSUME AlertInv
    PROVE  /\ made \in Nat /\ base \in Nat /\ made <= MaxAlerts /\ MaxAlerts \in Nat
           /\ Cap \in Nat \ {0} /\ 1..made \subseteq Feed!Uids /\ Feed!Uids \subseteq Nat
  BY AlertsAssumption DEF AlertInv, Feed!BoundsOfAlerts, Feed!Uids

LEMMA SeqGrows ==
    ASSUME NEW S, NEW T, S \subseteq T
    PROVE  UpTo(S) \subseteq UpTo(T)
  BY DEF UpTo

\* Steps that create no alert and wipe none out.
LEMMA SameAlerts ==
    ASSUME AlertInv, UNCHANGED <<made, base, counter>>,
           alerts' \in UpTo(Present), shown' \in UpTo(Met), picked' \in Pairs \cup {None},
           caseOf' \in [Feed!Uids -> Feed!Uids \cup {None}], screen' \in BOOLEAN,
           \A c \in asked' : c \in Asked /\ Fits(c)
    PROVE  AlertInv'
<1>1. Met' = Met /\ Present' = Present /\ Pairs' = Pairs
  BY DEF Met, Present, Pairs
<1>2. Asked' = Asked /\ UpTo(Met)' = UpTo(Met) /\ UpTo(Present)' = UpTo(Present)
  BY <1>1 DEF Asked, UpTo
<1>3. \A c : Fits(c) => Fits(c)'
  BY DEF Fits
<1> QED BY <1>1, <1>2, <1>3 DEF AlertInv

\* Steps that leave the server's seq alone.
LEMMA BrowserKeeps ==
    ASSUME AlertInv, UNCHANGED <<alerts, made, base, counter>>,
           shown' \in UpTo(Met), picked' \in Pairs \cup {None},
           caseOf' \in [Feed!Uids -> Feed!Uids \cup {None}], screen' \in BOOLEAN,
           \A c \in asked' : c \in asked \/ (c \in Asked /\ Fits(c))
    PROVE  AlertInv'
  BY SameAlerts DEF AlertInv

LEMMA CreateKeeps ==
    ASSUME AlertInv, Feed!Create
    PROVE  AlertInv'
<1>1. PICK a : a = [uid |-> made + 1, id |-> counter + 1, status |-> "new"]
  OBVIOUS
<1>2. /\ made < MaxAlerts /\ made' = made + 1 /\ counter' = counter + 1 /\ base' = base
      /\ alerts' = <<a>> \o Feed!Kept(alerts) /\ UNCHANGED <<shown, picked, asked, caseOf, screen>>
  BY <1>1 DEF Feed!Create, Feed!NewId, Feed!browser
<1>3. made \in Nat /\ base \in 0..made /\ counter = made - base /\ MaxAlerts \in Nat /\ Cap \in Nat \ {0}
  BY NumbersAre DEF AlertInv
<1>4. Met \subseteq Met' /\ Present \subseteq Present' /\ Pairs \subseteq Pairs'
  BY <1>2, <1>3 DEF Met, Present, Pairs
<1>5. a \in Present'
  BY <1>1, <1>2, <1>3 DEF Present, Met, Feed!Alert, Feed!Uids
<1>6. Feed!Kept(alerts) \in Seq(Present) /\ Len(Feed!Kept(alerts)) < Cap
  <2>1. alerts \in Seq(Present) /\ Len(alerts) <= Cap
    BY DEF AlertInv, UpTo
  <2>2. CASE Len(alerts) < Cap
    BY <2>1, <2>2 DEF Feed!Kept
  <2>3. CASE ~(Len(alerts) < Cap)
    <3>1. Feed!Kept(alerts) = SubSeq(alerts, 1, Len(alerts) - 1)
      BY <2>3 DEF Feed!Kept, Feed!Front
    <3> QED BY <1>3, <2>1, <2>3, <3>1
  <2> QED BY <2>2, <2>3
<1>7. alerts' \in UpTo(Present')
  <2>1. Feed!Kept(alerts) \in Seq(Present')
    BY <1>4, <1>6
  <2>2. PICK S, kept : S = Present' /\ kept = Feed!Kept(alerts)
    OBVIOUS
  <2>3. <<a>> \o kept \in Seq(S) /\ Len(<<a>> \o kept) <= Cap
    BY <1>3, <1>5, <1>6, <2>1, <2>2
  <2> QED BY <1>2, <2>2, <2>3 DEF UpTo
<1>8. shown' \in UpTo(Met') /\ UpTo(Met) \subseteq UpTo(Met')
  BY <1>2, <1>4, SeqGrows DEF AlertInv
<1>9. ASSUME NEW c \in asked' PROVE c \in Asked' /\ Fits(c)'
  <2>1. c \in Asked /\ Fits(c)
    BY <1>2 DEF AlertInv
  <2>2. c \in Asked'
    BY <1>8, <2>1 DEF Asked
  <2>3. Fits(c)'
    BY <1>2, <1>3, <2>1 DEF Fits
  <2> QED BY <2>2, <2>3
<1> QED BY <1>2, <1>3, <1>4, <1>7, <1>8, <1>9 DEF AlertInv

LEMMA RestartKeeps ==
    ASSUME AlertInv, Feed!Restart
    PROVE  AlertInv'
<1>1. /\ made' = made /\ base' = made /\ counter' = 0 /\ alerts' = <<>> /\ asked' \subseteq asked
      /\ UNCHANGED <<shown, picked, caseOf, screen>> /\ made \in Nat
  BY NumbersAre DEF Feed!Restart, Feed!browser
<1>2. Met \subseteq Met' /\ Pairs \subseteq Pairs'
  BY <1>1 DEF Met, Pairs
<1>3. shown' \in UpTo(Met') /\ UpTo(Met) \subseteq UpTo(Met')
  BY <1>1, <1>2, SeqGrows DEF AlertInv
<1>5. alerts' \in UpTo(Present')
  BY <1>1, NumbersAre DEF UpTo
<1>4. ASSUME NEW c \in asked' PROVE c \in Asked' /\ Fits(c)'
  <2>1. c \in Asked /\ Fits(c)
    BY <1>1 DEF AlertInv
  <2>2. c \in Asked'
    BY <1>3, <2>1 DEF Asked
  <2>3. Fits(c)'
    BY <1>1, <2>1 DEF Fits
  <2> QED BY <2>2, <2>3
<1> QED BY <1>1, <1>2, <1>3, <1>4, <1>5 DEF AlertInv

\* Acknowledged or dismissed, an alert is the same alert.
LEMMA WithStatusIs ==
    ASSUME AlertInv, NEW id, NEW status \in Feed!Changes
    PROVE  Feed!WithStatus(id, status) \in UpTo(Present)
<1>1. PICK S : S = Present
  OBVIOUS
<1>2. alerts \in Seq(S) /\ Len(alerts) <= Cap
  BY <1>1 DEF AlertInv, UpTo
<1>3. CASE Feed!Find(alerts, id) = 0
  BY <1>1, <1>2, <1>3 DEF Feed!WithStatus, UpTo
<1>4. CASE Feed!Find(alerts, id) # 0
  <2>1. PICK i \in DOMAIN alerts : i = Feed!Find(alerts, id)
    BY <1>2, <1>4, FindIs
  <2>2. PICK a : a = [alerts[i] EXCEPT !.status = status]
    OBVIOUS
  <2>3. Feed!WithStatus(id, status) = [alerts EXCEPT ![i] = a]
    BY <1>4, <2>1, <2>2 DEF Feed!WithStatus
  <2>4. alerts[i] \in S
    BY <1>2
  <2>5. a \in S
    BY <1>1, <2>2, <2>4 DEF Present, Met, Feed!Alert, Feed!Changes
  <2> QED BY <1>1, <1>2, <2>3, <2>5 DEF UpTo
<1> QED BY <1>3, <1>4

LEMMA OtherUserKeeps ==
    ASSUME AlertInv, NEW id, NEW status \in Feed!Changes, Feed!OtherUser(id, status)
    PROVE  AlertInv'
  BY WithStatusIs, SameAlerts DEF Feed!OtherUser, Feed!browser, AlertInv

\* The answer to a request is what the server has of the id it names.
LEMMA FoundIs ==
    ASSUME NEW seq \in Seq(Present), NEW c,
           NEW answer, answer = Feed!Found(seq, c.id)
    PROVE  /\ answer \in Seq(Present) /\ Len(answer) <= 1
           /\ answer # <<>> => answer[1].id = c.id
  <1>1. CASE Feed!Find(seq, c.id) = 0
    BY <1>1 DEF Feed!Found
  <1>2. CASE Feed!Find(seq, c.id) # 0
    <2>1. PICK S : S = Present
      OBVIOUS
    <2>2. PICK i \in DOMAIN seq : i = Feed!Find(seq, c.id) /\ seq[i].id = c.id
      BY <1>2, <2>1, FindIs
    <2>3. answer = <<seq[i]>>
      BY <1>2, <2>2 DEF Feed!Found
    <2> QED BY <2>1, <2>2, <2>3
  <1> QED BY <1>1, <1>2

LEMMA AnsweredFits ==
    ASSUME AlertInv, NEW c \in asked, NEW answer \in UpTo(Met), NEW d,
           d = [c EXCEPT !.stage = "answered", !.answer = answer],
           c.kind \notin Whole => Len(answer) <= 1,
           c.kind \notin Whole /\ answer # <<>> => answer[1] \in Present /\ answer[1].id = c.id
    PROVE  d \in Asked /\ Fits(d)
<1>1. c \in Asked /\ Fits(c)
  BY DEF AlertInv
<1>2. PICK M : M = Met
  OBVIOUS
<1>3. /\ d.kind = c.kind /\ d.id = c.id /\ d.uid = c.uid /\ d.answer = answer
      /\ d \in Asked
  BY <1>1, <1>2 DEF Asked
<1>4. made \in Nat /\ base \in 0..made
  BY DEF AlertInv
<1>5. ASSUME c.kind \notin Whole, answer # <<>>, c.uid > base PROVE answer[1].uid = c.uid
  <2>1. PICK a : a = answer[1]
    OBVIOUS
  <2>2. a \in Present /\ a.id = c.id
    BY <1>5, <2>1
  <2>3. a.uid \in Nat /\ a.id = a.uid - base
    BY <1>4, <2>2 DEF Present, Met
  <2>4. c.uid \in Nat /\ c.id = c.uid - base
    BY <1>1, <1>4, <1>5 DEF Fits
  <2>5. a.uid = c.uid
    <3>1. PICK b \in Nat, m \in Nat, n \in Nat : b = base /\ m = a.uid /\ n = c.uid
      BY <1>4, <2>3, <2>4
    <3>2. m - b = n - b
      BY <2>2, <2>3, <2>4, <3>1
    <3>3. m = n
      BY <3>1, <3>2
    <3> QED BY <3>1, <3>3
  <2> QED BY <2>1, <2>5
<1>6. Fits(d)
  BY <1>1, <1>3, <1>5 DEF Fits
<1> QED BY <1>3, <1>6

LEMMA ServeKeeps ==
    ASSUME AlertInv, NEW c \in asked, Feed!Serve(c)
    PROVE  AlertInv'
<1>1. UNCHANGED <<counter, made, base, shown, picked, caseOf, screen>>
  BY DEF Feed!Serve, Feed!browser
<1>2. PICK S : S = Present
  OBVIOUS
<1>3. S \subseteq Met /\ alerts \in UpTo(S) /\ alerts \in Seq(S) /\ Len(alerts) <= Cap
      /\ Cap \in Nat /\ 1 <= Cap
  BY <1>2, NumbersAre DEF Present, AlertInv, UpTo
<1>4. UpTo(S) \subseteq UpTo(Met)
  BY <1>3, SeqGrows
<1>5. PICK answer :
        /\ asked' = (asked \ {c}) \cup {[c EXCEPT !.stage = "answered", !.answer = answer]}
        /\ alerts' \in UpTo(S) /\ answer \in UpTo(S)
        /\ c.kind \notin Whole => Len(answer) <= 1
        /\ c.kind \notin Whole /\ answer # <<>> => answer[1].id = c.id
  <2>1. CASE Feed!ServeList(c)
    <3>1. Feed!Visible(alerts) \in UpTo(S)
      <4>1. PICK keep : Feed!Visible(alerts) = Feed!Only(alerts, keep)
        BY DEF Feed!Visible
      <4>2. Feed!Only(alerts, keep) \in Seq(S) /\ Len(Feed!Only(alerts, keep)) <= Len(alerts)
        BY <1>3, OnlyPicks
      <4>3. PICK seen \in Seq(S) : seen = Feed!Only(alerts, keep)
        BY <4>2
      <4> QED BY <1>3, <4>1, <4>2, <4>3 DEF UpTo
    <3> QED BY <1>3, <2>1, <3>1 DEF Feed!ServeList, Feed!Answer, Whole
  <2>2. CASE Feed!ServePatch(c)
    <3>1. alerts' = Feed!WithStatus(c.id, c.kind) /\ c.kind \in Feed!Changes
      BY <2>2 DEF Feed!ServePatch
    <3>2. alerts' \in UpTo(Present)
      BY <3>1, WithStatusIs
    <3>3. PICK later : later = alerts'
      OBVIOUS
    <3>4. /\ Feed!Found(later, c.id) \in Seq(S) /\ Len(Feed!Found(later, c.id)) <= 1
          /\ Feed!Found(later, c.id) # <<>> => Feed!Found(later, c.id)[1].id = c.id
      BY <1>2, <1>3, <3>2, <3>3, FoundIs DEF UpTo
    <3>5. Feed!Found(later, c.id) \in UpTo(S)
      BY <1>3, <3>4 DEF UpTo
    <3> QED BY <1>2, <2>2, <3>2, <3>3, <3>4, <3>5 DEF Feed!ServePatch, Feed!Answer
  <2>3. CASE Feed!ServeCase(c)
    <3>1. /\ Feed!Found(alerts, c.id) \in Seq(S) /\ Len(Feed!Found(alerts, c.id)) <= 1
          /\ Feed!Found(alerts, c.id) # <<>> => Feed!Found(alerts, c.id)[1].id = c.id
      BY <1>2, <1>3, FoundIs
    <3>2. Feed!Found(alerts, c.id) \in UpTo(S)
      BY <1>3, <3>1 DEF UpTo
    <3> QED BY <1>3, <2>3, <3>1, <3>2 DEF Feed!ServeCase, Feed!Answer
  <2> QED BY <2>1, <2>2, <2>3 DEF Feed!Serve
<1>6. PICK d : d = [c EXCEPT !.stage = "answered", !.answer = answer]
  OBVIOUS
<1>7. answer \in UpTo(Met) /\ (answer # <<>> => answer[1] \in Present)
  BY <1>2, <1>4, <1>5 DEF UpTo
<1>8. d \in Asked /\ Fits(d)
  BY <1>5, <1>6, <1>7, AnsweredFits
<1>9. \A e \in asked' : e \in Asked /\ Fits(e)
  BY <1>5, <1>6, <1>8 DEF AlertInv
<1> QED BY <1>1, <1>2, <1>5, <1>9, SameAlerts DEF AlertInv

\* What the user sends is about an alert that was met.
LEMMA NewFits ==
    ASSUME AlertInv, NEW kind \in Feed!Kinds, NEW a, a.id \in Nat, a.uid \in Nat,
           kind \notin Whole => a.id \in Feed!Uids /\ a.uid \in 1..made /\ (a.uid > base => a.id = a.uid - base),
           NEW d, d = Feed!New(kind, a)
    PROVE  d \in Asked /\ Fits(d)
<1>1. /\ d.kind = kind /\ d.id = a.id /\ d.uid = a.uid /\ d.answer = <<>>
      /\ d = [kind |-> kind, id |-> a.id, uid |-> a.uid, stage |-> "sent", answer |-> <<>>, heard |-> TRUE]
  BY DEF Feed!New
<1>2. PICK M : M = Met
  OBVIOUS
<1>3. d \in Asked
  BY <1>1, <1>2, NumbersAre DEF Asked, UpTo
<1>4. Fits(d)
  BY <1>1 DEF Fits
<1> QED BY <1>3, <1>4

LEMMA SendKeeps ==
    ASSUME AlertInv, NEW kind \in Feed!Kinds, NEW a, a.id \in Nat, a.uid \in Nat,
           kind \notin Whole => a.id \in Feed!Uids /\ a.uid \in 1..made /\ (a.uid > base => a.id = a.uid - base),
           asked' \subseteq asked \cup {Feed!New(kind, a)},
           UNCHANGED <<alerts, counter, made, base, shown, picked, caseOf>>, screen' \in BOOLEAN
    PROVE  AlertInv'
<1>1. \A c \in asked' : c \in asked \/ (c \in Asked /\ Fits(c))
  BY NewFits
<1> QED BY <1>1, BrowserKeeps DEF AlertInv

LEMMA LeaveKeeps ==
    ASSUME AlertInv, NEW rest, rest \subseteq asked, Feed!Leave(rest),
           UNCHANGED <<alerts, counter, made, base, shown>>
    PROVE  AlertInv'
<1>1. ASSUME NEW d \in asked' PROVE d \in Asked /\ Fits(d)
  <2>1. CASE d \in asked
    BY <2>1 DEF AlertInv
  <2>2. CASE \E c \in asked : d = [c EXCEPT !.heard = FALSE]
    <3>1. PICK c \in asked : d = [c EXCEPT !.heard = FALSE]
      BY <2>2
    <3>2. PICK M : M = Met
      OBVIOUS
    <3>3. c \in Asked /\ Fits(c)
      BY DEF AlertInv
    <3>4. d.kind = c.kind /\ d.id = c.id /\ d.uid = c.uid /\ d.answer = c.answer /\ d \in Asked
      BY <3>1, <3>2, <3>3 DEF Asked
    <3> QED BY <3>3, <3>4 DEF Fits
  <2> QED BY <2>1, <2>2 DEF Feed!Leave
<1>2. picked' = None /\ screen' \in BOOLEAN /\ caseOf' \in [Feed!Uids -> Feed!Uids \cup {None}]
  BY DEF Feed!Leave, Feed!NoCases
<1> QED BY <1>1, <1>2, BrowserKeeps DEF AlertInv

LEMMA UserKeeps ==
    ASSUME AlertInv, Feed!Poll \/ Feed!UserStep
    PROVE  AlertInv'
<1> DEFINE all == [id |-> 0, uid |-> 0]
<1>1. all.id \in Nat /\ all.uid \in Nat /\ {"poll", "list"} \subseteq Feed!Kinds \cap Whole
  BY DEF Feed!Kinds, Whole
<1>2. ASSUME NEW a \in Feed!ShownAlerts
      PROVE  a.id \in Nat /\ a.id \in Feed!Uids /\ a.uid \in 1..made /\ (a.uid > base => a.id = a.uid - base)
  <2>1. PICK M : M = Met
    OBVIOUS
  <2>2. a \in M
    BY <2>1 DEF Feed!ShownAlerts, AlertInv, UpTo
  <2> QED BY <2>1, <2>2, NumbersAre DEF Met, Feed!Alert
<1>3. made \in Nat
  BY NumbersAre
<1>4. CASE Feed!Poll
  <2>1. asked' \subseteq asked \cup {Feed!New("poll", all)} /\ UNCHANGED <<alerts, counter, made, base, shown, picked, caseOf>> /\ screen' \in BOOLEAN
    BY <1>4 DEF Feed!Poll, Feed!server, Feed!browser, AlertInv
  <2> HIDE DEF all
  <2> QED BY <1>1, <2>1, SendKeeps
<1>5. CASE Feed!OpenScreen
  <2>1. asked' \subseteq asked \cup {Feed!New("list", all)} /\ UNCHANGED <<alerts, counter, made, base, shown, picked, caseOf>> /\ screen' \in BOOLEAN
    BY <1>5 DEF Feed!OpenScreen, Feed!Send, Feed!server
  <2> HIDE DEF all
  <2> QED BY <1>1, <2>1, SendKeeps
<1>6. CASE Feed!LeaveScreen
  BY <1>6, LeaveKeeps DEF Feed!LeaveScreen, Feed!server
<1>7. CASE Feed!CloseDrawer
  BY <1>7, BrowserKeeps DEF Feed!CloseDrawer, Feed!server, AlertInv
<1>8. CASE Feed!DrawerCase
  <2>1. picked \in Pairs
    BY <1>8 DEF Feed!DrawerCase, AlertInv
  <2>2. /\ picked.id \in Nat /\ picked.id \in Feed!Uids /\ picked.uid \in 1..made /\ (picked.uid > base => picked.id = picked.uid - base)
        /\ picked.uid \in Nat
    BY <1>3, <2>1, NumbersAre DEF Pairs
  <2>3. PICK a : a = picked
    OBVIOUS
  <2>4. asked' \subseteq asked \cup {Feed!New("drawer", a)} /\ UNCHANGED <<alerts, counter, made, base, shown, picked, caseOf>> /\ screen' \in BOOLEAN
    BY <1>8, <2>3 DEF Feed!DrawerCase, Feed!Send, Feed!server, Feed!browser, AlertInv
  <2>5. "drawer" \in Feed!Kinds
    BY DEF Feed!Kinds
  <2> QED BY <2>2, <2>3, <2>4, <2>5, SendKeeps
<1>9. ASSUME NEW a \in Feed!ShownAlerts, Feed!Select(a) PROVE AlertInv'
  <2>1. [id |-> a.id, uid |-> a.uid] \in Pairs
    BY <1>2 DEF Pairs
  <2> QED BY <1>9, <2>1, BrowserKeeps DEF Feed!Select, Feed!server, AlertInv
<1>10. ASSUME NEW a \in Feed!ShownAlerts, Feed!Acknowledge(a) \/ Feed!Dismiss(a) \/ Feed!CreateCase(a) PROVE AlertInv'
  <2>1. PICK kind \in {"acknowledged", "dismissed", "case"} :
          /\ asked' \subseteq asked \cup {Feed!New(kind, a)}
          /\ UNCHANGED <<alerts, counter, made, base, shown, picked, caseOf>> /\ screen' \in BOOLEAN
    BY <1>10 DEF Feed!Acknowledge, Feed!Dismiss, Feed!CreateCase, Feed!Send, Feed!server, Feed!browser, AlertInv
  <2>2. kind \in Feed!Kinds /\ a.uid \in Nat
    BY <1>2, <1>3 DEF Feed!Kinds, Feed!Changes
  <2> QED BY <1>2, <2>1, <2>2, SendKeeps
<1> QED BY <1>4, <1>5, <1>6, <1>7, <1>8, <1>9, <1>10 DEF Feed!UserStep

LEMMA HearKeeps ==
    ASSUME AlertInv, NEW c \in asked, Feed!Hear(c)
    PROVE  AlertInv'
<1>1. UNCHANGED <<alerts, counter, made, base>>
  BY DEF Feed!Hear, Feed!server
<1>2. c \in Asked /\ Fits(c)
  BY DEF AlertInv
<1>3. PICK M : M = Met
  OBVIOUS
<1>4. /\ c.answer \in UpTo(M) /\ shown \in UpTo(M)
      /\ c.answer \in Seq(M) /\ shown \in Seq(M) /\ Len(shown) <= Cap /\ Cap \in Nat
  BY <1>2, <1>3, NumbersAre DEF Asked, AlertInv, UpTo
<1>5. CASE Feed!HearList(c)
  BY <1>1, <1>3, <1>4, <1>5, BrowserKeeps DEF Feed!HearList, AlertInv
<1>6. CASE c.answer # <<>> /\ Feed!HearAcknowledged(c)
  <2>1. PICK a : a = c.answer[1]
    OBVIOUS
  <2>2. a \in M /\ a.id = c.id /\ a.uid \in 1..made /\ (a.uid > base => a.id = a.uid - base) /\ c.id \in Feed!Uids
    <3>1. a \in M /\ c.kind \notin Whole
      BY <1>2, <1>4, <1>6, <2>1 DEF Asked, Feed!HearAcknowledged, Whole
    <3> QED BY <1>2, <1>3, <1>6, <2>1, <3>1 DEF Fits, Met
  <2>3. /\ shown' = [i \in DOMAIN shown |-> IF shown[i].id = c.id THEN a ELSE shown[i]]
        /\ picked' \in {picked, [id |-> c.id, uid |-> a.uid]}
        /\ asked' \subseteq asked /\ UNCHANGED <<caseOf, screen>>
    BY <1>6, <2>1 DEF Feed!HearAcknowledged
  <2>4. shown' \in UpTo(M)
    <3>1. shown' \in Seq(M) /\ Len(shown') = Len(shown)
      BY <1>4, <2>2, <2>3
    <3> QED BY <1>4, <3>1 DEF UpTo
  <2>5. [id |-> c.id, uid |-> a.uid] \in Pairs
    BY <2>2 DEF Pairs
  <2> QED BY <1>1, <1>3, <2>3, <2>4, <2>5, BrowserKeeps DEF AlertInv
<1>7. CASE Feed!HearDismissed(c)
  <2>1. shown' \in UpTo(M)
    <3>1. PICK keep : shown' = Feed!Only(shown, keep)
      BY <1>7 DEF Feed!HearDismissed
    <3>2. Feed!Only(shown, keep) \in Seq(M) /\ Len(Feed!Only(shown, keep)) <= Len(shown)
      BY <1>4, OnlyPicks
    <3>3. PICK left \in Seq(M) : left = Feed!Only(shown, keep)
      BY <3>2
    <3> QED BY <1>4, <3>1, <3>2, <3>3 DEF UpTo
  <2>2. picked' \in {picked, None} /\ asked' \subseteq asked /\ UNCHANGED <<caseOf, screen>>
    BY <1>7 DEF Feed!HearDismissed
  <2> QED BY <1>1, <1>3, <2>1, <2>2, BrowserKeeps DEF AlertInv
<1>8. CASE c.answer # <<>> /\ Feed!HearCase(c)
  <2>1. c.answer[1].uid \in Feed!Uids
    <3>1. PICK a : a = c.answer[1]
      OBVIOUS
    <3>2. a \in M
      BY <1>8, <1>4, <3>1
    <3> QED BY <1>3, <3>1, <3>2 DEF Met, Feed!Alert
  <2>2. caseOf' \in [Feed!Uids -> Feed!Uids \cup {None}]
    BY <1>8, <2>1 DEF Feed!HearCase, AlertInv
  <2> QED BY <1>1, <1>8, <2>2, BrowserKeeps DEF Feed!HearCase, AlertInv
<1>9. CASE Feed!HearDrawer(c)
  <2>1. Feed!Leave(asked \ {c}) /\ UNCHANGED shown
    BY <1>9 DEF Feed!HearDrawer
  <2> QED BY <1>1, <2>1, LeaveKeeps
<1>10. CASE Feed!HearNothing(c)
  BY <1>1, <1>10, BrowserKeeps DEF Feed!HearNothing, Feed!browser, AlertInv
<1> QED BY <1>2, <1>5, <1>6, <1>7, <1>8, <1>9, <1>10 
  DEF Feed!Hear, Feed!HearAcknowledged, Feed!HearCase

-----------------------------------------------------------------------------
(* The two screens. *)

LEMMA AlertsStep ==
    ASSUME AlertInv, [NextOnScreen]_allVars
    PROVE  AlertInv'
<1>1. CASE UNCHANGED alertVars
  BY <1>1, BrowserKeeps DEF alertVars, AlertInv
<1>2. ASSUME NEW c \in asked, Feed!Lose(c) PROVE AlertInv'
  BY <1>2, BrowserKeeps DEF Feed!Lose, Feed!server, Feed!browser, AlertInv
<1>3. CASE Feed!Next
  BY <1>2, <1>3, CreateKeeps, OtherUserKeeps, RestartKeeps, UserKeeps, ServeKeeps, HearKeeps DEF Feed!Next
<1> QED BY <1>1, <1>3 DEF NextOnScreen, OnAlerts, OnPage, allVars

\* However many alerts have come and gone, a user acts on the one seen
\* (_find_alert).
THEOREM ActedOnSeen == ScreensSpec => []ActsOnSeen
<1>1. OpensAlerts \/ OpensPage => AlertInv
  BY AlertsStart DEF OpensAlerts, OpensPage
<1>2. AlertInv /\ [NextOnScreen]_allVars => AlertInv'
  BY AlertsStep
<1>3. AlertInv => ActsOnSeen
  BY DEF AlertInv, Fits, Whole, ActsOnSeen, Feed!ActsOnSeen
<1> QED BY <1>1, <1>2, <1>3, PTL DEF ScreensSpec

\* The type invariant of the alerts and of the browser that shows them.
THEOREM AlertsTyped == ScreensSpec => []Feed!TypeOK
<1>1. AlertInv => Feed!TypeOK
  <2> SUFFICES ASSUME AlertInv PROVE Feed!TypeOK
    OBVIOUS
  <2>1. /\ made \in 0..MaxAlerts /\ base \in 0..made /\ counter \in Nat
        /\ caseOf \in [Feed!Uids -> Feed!Uids \cup {None}] /\ screen \in BOOLEAN
    BY DEF AlertInv
  <2>2. PICK M, S : M = Met /\ S = Present /\ M \subseteq Feed!Alert /\ S \subseteq Feed!Alert
    BY DEF Met, Present
  <2>3. alerts \in Seq(S) /\ shown \in Seq(M) /\ Len(alerts) <= Cap /\ Len(shown) <= Cap
    BY <2>2 DEF AlertInv, UpTo
  <2>4. {alerts[i] : i \in DOMAIN alerts} \cup Feed!ShownAlerts \subseteq Feed!Alert
    BY <2>2, <2>3 DEF Feed!ShownAlerts
  <2>5. picked \in [id : Feed!Uids, uid : Feed!Uids] \cup {None}
    BY NumbersAre DEF AlertInv, Pairs
  <2>6. \A c \in asked : c.kind \in Feed!Kinds /\ (c.kind \notin Whole => Len(c.answer) <= 1)
    BY DEF AlertInv, Asked, Fits
  <2> QED BY <2>1, <2>3, <2>4, <2>5, <2>6 DEF Feed!TypeOK, Whole
<1> QED BY AlertsStart, AlertsStep, <1>1, PTL DEF ScreensSpec, OpensAlerts, OpensPage

\* Of the two screens one is followed; the other asks for nothing.
PageInv == IF open = "incidents" THEN IInv ELSE calls = {}

\* What the page offers is accepted whichever screen is open (permissions.ts,
\* authz.py).
THEOREM OfferedOnScreens == ScreensSpec => []RefusedOnlyIfStale
<1>1. OpensAlerts \/ OpensPage => PageInv
  BY InitInv DEF OpensAlerts, OpensPage, PageClosed, PageInv
<1>2. PageInv /\ [NextOnScreen]_allVars => PageInv'
  <2> SUFFICES ASSUME PageInv, [NextOnScreen]_allVars PROVE PageInv'
    OBVIOUS
  <2>1. open' = open /\ (open = "incidents" => [Next]_vars) /\ (open # "incidents" => UNCHANGED vars)
    BY DEF NextOnScreen, OnAlerts, OnPage, allVars
  <2>2. CASE open = "incidents"
    BY <2>1, <2>2, NextInv DEF PageInv
  <2>3. CASE open # "incidents"
    BY <2>1, <2>3 DEF PageInv, vars
  <2> QED BY <2>2, <2>3
<1>3. PageInv => RefusedOnlyIfStale
  BY StaleIsWhy DEF PageInv, RefusedOnlyIfStale
<1> QED BY <1>1, <1>2, <1>3, PTL DEF ScreensSpec
=============================================================================
