--------------------------- MODULE IncidentsPage ---------------------------
(***************************************************************************)
(* The page of incidents in one browser: the list, replaced by polls       *)
(* (incidents.ts), and the drawer on one incident with its copies of notes *)
(* and tasks (incident-detail.component.ts), while requests are on their   *)
(* way and other users work on the same incidents.                         *)
(*                                                                         *)
(* The server answers a request in one step; what happens between its      *)
(* check and its write is in module Cases.  The texts of the notes are     *)
(* their names; search, filters, timeline and export are left out.         *)
(***************************************************************************)
EXTENDS Naturals, Sequences, Authz

CONSTANTS Viewers,      \* who may be logged in: records [username, role]
          Active,       \* the usernames that can be assigned
          Ids, Tasks,
          Linked,       \* the incidents that links from other pages lead to
          Texts,        \* notes, each written once
          Bodies,       \* bodies of a PATCH: records of status and assigned_to
          Fresh,        \* incidents as the page may find them
          MaxWrites,    \* bound: requests that change something, of this user
          MaxOthers,    \* bound: changes other users make
          MaxPolls,     \* bound: requests for the list on their way
          None

ASSUME BoundsAssumption ==
    MaxWrites \in Nat /\ MaxOthers \in Nat /\ MaxPolls \in Nat \ {0}

Incident == [assigned_to : Active \cup {NoUser}, status : INCIDENT_STATUSES,
             done : SUBSET Tasks, notes : Seq(Texts)]

ASSUME DataAssumption ==
    /\ Linked \subseteq Ids /\ Fresh \subseteq Incident
    /\ \A body \in Bodies :
         /\ DOMAIN body \subseteq {"status", "assigned_to"}
         /\ "status" \in DOMAIN body => body.status \in INCIDENT_STATUSES
         /\ "assigned_to" \in DOMAIN body => body.assigned_to \in Active \cup {NoUser}

ASSUME NoneAssumption == None \notin Incident /\ None \notin Ids

VARIABLES server,       \* the incidents of the server
          user,         \* who is logged in
          list,         \* incidents
          selected,     \* the incident in the drawer: its id and the copy of it
          notes,        \* the drawer's notes
          ticks,        \* completedTasks
          calls,        \* requests on their way
          written,      \* the notes written so far
          writes, others

vars == <<server, user, list, selected, notes, ticks, calls, written, writes, others>>
drawer == <<selected, notes, ticks>>
page == <<list, selected, notes, ticks>>

NoIncidents == [id \in Ids |-> None]

Reads == {"first", "poll"}

Lists == {c \in calls : c.kind \in Reads}

Call(kind, id, body, seen) ==
    [kind |-> kind, id |-> id, body |-> body, seen |-> seen, stage |-> "sent",
     answer |-> None, heard |-> TRUE]

\* The constructor asks for the list; target is the ?id= of the link that led here.
First(target) == Call("first", target, None, None)

Init ==
    /\ server \in [Ids -> Fresh \cup {None}]
    /\ user \in Viewers
    /\ list = NoIncidents /\ selected = None /\ notes = <<>> /\ ticks = {}
    /\ \E target \in Linked \cup {None} : calls = {First(target)}
    /\ written = {} /\ writes = 0 /\ others = 0

-----------------------------------------------------------------------------
(* The user. *)

\* The drawer's effect: notes and tasks are those of the copy it is given.
Fill(id, inc) ==
    /\ selected' = [id |-> id, inc |-> inc]
    /\ notes' = inc.notes /\ ticks' = inc.done

\* The backdrop of an open drawer covers the list.
Open(id) ==
    /\ selected = None /\ list[id] # None
    /\ Fill(id, list[id])
    /\ UNCHANGED <<server, user, list, calls, written, writes, others>>

Close ==
    /\ selected # None /\ selected' = None
    /\ UNCHANGED <<server, user, list, notes, ticks, calls, written, writes, others>>

Send(kind, body) ==
    /\ writes < MaxWrites /\ writes' = writes + 1
    /\ calls' = calls \cup {Call(kind, selected.id, body, selected.inc)}
    /\ UNCHANGED <<server, user, list, selected, others>>

\* Mutant: the buttons of an incident are always enabled.
MayChangeAlways(body) == TRUE

\* updateStatus, updateAssignee, and takeCase, which is offered for an incident
\* nobody has.
MayChange(body) ==
    /\ "status" \in DOMAIN body => MayWork(user, selected.inc) /\ body.status # selected.inc.status
    /\ "assigned_to" \in DOMAIN body =>
         /\ MayAssign(user, selected.inc, body.assigned_to)
         /\ ~IsLead(user) => MayTake(user, selected.inc) /\ body.assigned_to = user.username

Change(body) ==
    /\ selected # None /\ MayChange(body)
    /\ Send("patch", body)
    /\ UNCHANGED <<notes, ticks, written>>

\* toggleTask: the drawer shows the tick at once, and sends all of them.
Toggle(task) ==
    /\ selected # None /\ MayWork(user, selected.inc)
    /\ ticks' = IF task \in ticks THEN ticks \ {task} ELSE ticks \cup {task}
    /\ Send("tasks", ticks')
    /\ UNCHANGED <<notes, written>>

AddNote(text) ==
    /\ selected # None /\ MayWork(user, selected.inc) /\ text \notin written
    /\ written' = written \cup {text}
    /\ Send("note", text)
    /\ UNCHANGED <<notes, ticks>>

\* Leaving the page aborts its requests, which may reach the server all the
\* same; nobody hears the answers.
Leave ==
    /\ list' = NoIncidents /\ selected' = None /\ notes' = <<>> /\ ticks' = {}
    /\ \E target \in Linked \cup {None} :
         calls' = {First(target)} \cup
                  {[c EXCEPT !.heard = FALSE] :
                     c \in {d \in calls : d.kind \notin Reads /\ d.stage = "sent"}}
    /\ UNCHANGED <<server, user, written, writes, others>>

\* The timer asks for the list every 30 seconds, whether or not it was answered
\* before.
Poll ==
    /\ Cardinality(Lists) < MaxPolls
    /\ calls' = calls \cup {Call("poll", None, None, None)}
    /\ UNCHANGED <<server, user, page, written, writes, others>>

-----------------------------------------------------------------------------
(* The server. *)

Body(body) ==
    [f \in DOMAIN body \cup {"has"} |-> IF f = "has" THEN DOMAIN body ELSE body[f]]

\* The checks of the handlers, in their order.
Check(c) ==
    LET inc == server[c.id]
    IN  IF inc = None THEN "404"
        ELSE IF c.kind = "patch" THEN CheckIncidentPatch(user, inc, Body(c.body), Active)
        ELSE CheckWorkOnIncident(user, inc)

Changed(c) ==
    LET inc == server[c.id]
    IN  CASE c.kind = "patch" ->
               [f \in DOMAIN inc |-> IF f \in DOMAIN c.body THEN c.body[f] ELSE inc[f]]
          [] c.kind = "tasks" -> [inc EXCEPT !.done = c.body]
          [] c.kind = "note"  -> [inc EXCEPT !.notes = Append(@, c.body)]

\* What is refused, or answers what nobody waits for, changes nothing on the page
\* any more: that answer is left out.  The answer about tasks is not read.
Reply(c, answer) ==
    calls' = (calls \ {c}) \cup
             IF c.heard /\ c.kind # "tasks"
             THEN {[c EXCEPT !.stage = "answered", !.seen = None, !.answer = answer]} ELSE {}

ServeList(c) ==
    /\ c.kind \in Reads
    /\ Reply(c, server)
    /\ UNCHANGED server

ServeWrite(c) ==
    /\ c.kind \notin Reads /\ Check(c) = "ok"
    /\ server' = [server EXCEPT ![c.id] = Changed(c)]
    /\ Reply(c, IF c.kind = "patch" THEN Changed(c) ELSE None)

Refuse(c) ==
    /\ c.kind \notin Reads /\ Check(c) # "ok"
    /\ calls' = calls \ {c}
    /\ UNCHANGED server

Serve(c) ==
    /\ c.stage = "sent"
    /\ ServeList(c) \/ ServeWrite(c) \/ Refuse(c)
    /\ UNCHANGED <<user, page, written, writes, others>>

\* Other users change an incident or work on it; rules open incidents, a restart
\* or a full list lets them go.
OthersMove(id) ==
    /\ others < MaxOthers /\ others' = others + 1
    /\ \E new \in IF server[id] = None THEN Fresh ELSE
                     {None}
                     \cup {[server[id] EXCEPT !.assigned_to = who] : who \in Active \cup {NoUser}}
                     \cup {[server[id] EXCEPT !.done = (@ \ {t}) \cup ({t} \ @)] : t \in Tasks} :
         /\ new # server[id]
         /\ server' = [server EXCEPT ![id] = new]
    /\ UNCHANGED <<user, page, calls, written, writes>>

-----------------------------------------------------------------------------
(* The answers. *)

FirstArrives(c) ==
    /\ c.kind = "first"
    /\ list' = c.answer
    /\ LET found == IF c.id = None THEN FALSE ELSE c.answer[c.id] # None
       IN  IF found THEN Fill(c.id, c.answer[c.id]) ELSE UNCHANGED drawer

\* Mutant: a poll leaves the drawer alone.
PollArrivesBehind(c) ==
    /\ c.kind = "poll"
    /\ list' = c.answer
    /\ UNCHANGED drawer

\* refreshList: an incident that is gone stays in the drawer.
PollArrives(c) ==
    /\ c.kind = "poll"
    /\ list' = c.answer
    /\ LET found == IF selected = None THEN FALSE ELSE c.answer[selected.id] # None
       IN  IF found THEN Fill(selected.id, c.answer[selected.id]) ELSE UNCHANGED drawer

\* onIncidentChange: the drawer shows the incident of the answer, whatever it
\* showed before.
ChangeArrives(c) ==
    /\ c.kind = "patch"
    /\ list' = [list EXCEPT ![c.id] = IF @ = None THEN None ELSE c.answer]
    /\ Fill(c.id, c.answer)

\* A note is added to those the drawer shows, whichever incident it is on.
NoteArrives(c) ==
    /\ c.kind = "note"
    /\ notes' = Append(notes, c.body)
    /\ UNCHANGED <<list, selected, ticks>>

Arrive(c) ==
    /\ c.stage = "answered"
    /\ calls' = calls \ {c}
    /\ FirstArrives(c) \/ PollArrives(c) \/ ChangeArrives(c) \/ NoteArrives(c)
    /\ UNCHANGED <<server, user, written, writes, others>>

\* The network or the server fails, before or after the request was served.
Lose(c) == calls' = calls \ {c} /\ UNCHANGED <<server, user, page, written, writes, others>>

Next ==
    \/ \E id \in Ids : Open(id) \/ OthersMove(id)
    \/ Close \/ Leave \/ Poll
    \/ \E body \in Bodies : Change(body)
    \/ \E task \in Tasks : Toggle(task)
    \/ \E text \in Texts : AddNote(text)
    \/ \E c \in calls : Serve(c) \/ Arrive(c) \/ Lose(c)

\* The timer goes on, requests come to an end, and of those for the list some are
\* answered.
Fairness ==
    /\ WF_vars(Poll) /\ WF_vars(\E c \in calls : Serve(c) \/ Arrive(c))
    /\ SF_vars(\E c \in Lists : Serve(c)) /\ SF_vars(\E c \in Lists : Arrive(c))

Spec == Init /\ [][Next]_vars /\ Fairness

-----------------------------------------------------------------------------
(* Properties. *)

Copies == [Ids -> Incident \cup {None}]

\* A request on its way to the server, and an answer on its way back.
Sent(kinds, ids, bodies, seen) ==
    [kind : kinds, id : ids, body : bodies, seen : seen, stage : {"sent"}, answer : {None},
     heard : BOOLEAN]

Answered(kinds, ids, bodies, answers) ==
    [kind : kinds, id : ids, body : bodies, seen : {None}, stage : {"answered"},
     answer : answers, heard : BOOLEAN]

Requests ==
    Sent(Reads, Ids \cup {None}, {None}, {None}) \cup Sent({"patch"}, Ids, Bodies, Incident)
    \cup Sent({"tasks"}, Ids, SUBSET Tasks, Incident) \cup Sent({"note"}, Ids, Texts, Incident)

Answers ==
    Answered(Reads, Ids \cup {None}, {None}, Copies) \cup Answered({"patch"}, Ids, Bodies, Incident)
    \cup Answered({"note"}, Ids, Texts, {None})

TypeOK ==
    /\ server \in Copies /\ list \in Copies
    /\ selected \in [id : Ids, inc : Incident] \cup {None}
    /\ notes \in Seq(Texts) /\ ticks \subseteq Tasks
    /\ calls \subseteq Requests \cup Answers
    /\ user \in Viewers /\ written \subseteq Texts
    /\ writes \in 0..MaxWrites /\ others \in 0..MaxOthers

\* The buttons of the drawer offer what the server accepts: it refuses a request
\* only if the incident is no longer as the drawer showed it (permissions.ts,
\* authz.py).
RefusedOnlyIfStale ==
    \A c \in calls : c.stage = "sent" /\ c.kind \notin Reads /\ c.seen = server[c.id]
      => Check(c) = "ok"

\* Once nobody changes anything and the user stays, the page comes to show what
\* the server has, notes and ticks of the drawer included, whatever it
\* showed before: refused ticks, notes of another incident, answers of a poll
\* that was overtaken (refreshList).  An incident that is gone stays in the drawer.
PageSettles ==
    <>[][UNCHANGED <<server, writes>> /\ ~Leave]_vars =>
      <>[](/\ list = server
           /\ selected # None =>
                LET inc == server[selected.id]
                IN  inc # None => selected.inc = inc /\ notes = inc.notes /\ ticks = inc.done)
=============================================================================
