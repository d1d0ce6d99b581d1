-------------------------------- MODULE Demo --------------------------------
(***************************************************************************)
(* The read-only demo.  The server refuses every write (demo_read_only in   *)
(* main.py); the browser, once it knows that it is talking to a demo,       *)
(* answers writes itself: the interceptor checks them against its copy of   *)
(* the permission rules, DemoSimulatorService records them in an overlay,  *)
(* and later lists from the server are shown with the overlay on top.       *)
(*                                                                         *)
(* The screens are the incident list and the alert list.  A simulated       *)
(* answer reaches its screen SIMULATED_LATENCY_MS later, answers in the     *)
(* order they were made; lists may take any time.                           *)
(***************************************************************************)
EXTENDS Naturals, Sequences, Authz

CONSTANTS Users,         \* who may log in: records [username, role]
          ServerIds,     \* ids of the server's incidents
          DemoIds,       \* ids openCase gives out, in order
          IPs, Alerts,
          Fresh,         \* incidents the server may have
          Patches,       \* bodies of PATCH /api/incidents/{id} and .../tasks
          MaxWrites,     \* bound: writes simulated between two reloads
          MaxAnswers,    \* bound: simulated answers on their way
          None

ASSUME BoundsAssumption == MaxWrites \in Nat /\ MaxAnswers \in Nat
ASSUME IdsAssumption == \A i \in DOMAIN DemoIds : DemoIds[i] \notin ServerIds

ActiveUsers == {u.username : u \in Users}

Incident == [assigned_to : ActiveUsers \cup {NoUser}, status : INCIDENT_STATUSES,
             completed_tasks : SUBSET Nat]

\* The two requests that patch an incident have keys of their own.
ASSUME DataAssumption ==
    /\ Fresh \subseteq Incident
    /\ Patches \subseteq [status : INCIDENT_STATUSES]
                          \cup [assigned_to : ActiveUsers \cup {NoUser}]
                          \cup [status : INCIDENT_STATUSES, assigned_to : ActiveUsers \cup {NoUser}]
                          \cup [completed_tasks : SUBSET Nat]
    /\ None \notin Incident \cup {"new", "acknowledged", "dismissed"}

VARIABLES demo,          \* DEMO_MODE of the server
          server,        \* the server's incidents
          enabled,       \* DemoModeService.enabled
          asked,         \* is GET /api/config on its way
          user,          \* who is logged in
          seen,          \* seenIncidents
          created,       \* incCreated by id
          patches,       \* incPatches
          notes,         \* incNotes, their number
          ipCases, alertPatches, blocked,
          list,          \* the incident list on its way, as the server sent it
          screen,        \* the incidents shown
          alerts,        \* the alerts shown, by status
          answers,       \* simulated answers on their way
          writes         \* simulated writes so far

vars == <<demo, server, enabled, asked, user, seen, created, patches, notes, ipCases,
          alertPatches, blocked, list, screen, alerts, answers, writes>>
overlay == <<created, patches, notes, ipCases, alertPatches, blocked, writes>>
session == <<enabled, asked, user>>
view == <<seen, list, screen, alerts>>

Ids == ServerIds \cup {DemoIds[i] : i \in DOMAIN DemoIds}
Fields == {"assigned_to", "status", "completed_tasks"}
Nothing == [f \in {} |-> None]           \* an undefined object, spread
NoIncidents == [id \in Ids |-> None]

\* { ...base, ...patch }
Spread(base, patch) ==
    [f \in DOMAIN base \cup DOMAIN patch |-> IF f \in DOMAIN patch THEN patch[f] ELSE base[f]]

Body(patch) == Spread(patch, [has |-> DOMAIN patch])

EmptyOverlay ==
    /\ created = NoIncidents /\ patches = [id \in Ids |-> Nothing]
    /\ notes = [id \in Ids |-> 0] /\ ipCases = [ip \in IPs |-> None]
    /\ alertPatches = [a \in Alerts |-> None] /\ blocked = [ip \in IPs |-> None]
    /\ writes = 0

Init ==
    /\ demo \in BOOLEAN
    /\ server \in [ServerIds -> Fresh \cup {None}]
    /\ enabled = FALSE /\ asked = TRUE /\ user \in Users
    /\ EmptyOverlay
    /\ seen = NoIncidents /\ list = None /\ screen = NoIncidents
    /\ alerts = [a \in Alerts |-> None]
    /\ answers = <<>>

-----------------------------------------------------------------------------
\* The incident as the browser sees it.

Base(id) == IF created[id] # None THEN created[id] ELSE seen[id]
Known(id) == Base(id) # None
WithOverlay(base, id) == Spread(base, patches[id])

\* Mutant: the permissions are those of the server's copy.
CurrentIncidentUnpatched(id) == Base(id)

CurrentIncident(id) == WithOverlay(Base(id), id)

\* authorize: an incident that was never listed is not checked.
MayPatch(id, patch) ==
    Known(id) => IF "completed_tasks" \in DOMAIN patch THEN MayWork(user, CurrentIncident(id))
                 ELSE MayPatchIncident(user, CurrentIncident(id), Body(patch))

MayNote(id) == Known(id) => MayWork(user, CurrentIncident(id))

Simulates == enabled /\ writes < MaxWrites /\ Len(answers) < MaxAnswers /\ writes' = writes + 1
Answer(a) == answers' = Append(answers, a)

\* Status, assignee or tasks of an incident on the screen.  The screen uses
\* the answer to the first two only; its own check of the permission, which
\* comes before, is left out.
Patch(id, patch) ==
    /\ screen[id] # None /\ Simulates /\ MayPatch(id, patch)
    /\ patches' = [patches EXCEPT ![id] = Spread(@, patch)]
    /\ IF "completed_tasks" \in DOMAIN patch THEN UNCHANGED answers
       ELSE Answer([id |-> id, body |-> Spread(IF Known(id) THEN Base(id) ELSE Nothing, patches'[id])])
    /\ UNCHANGED <<demo, server, session, created, notes, ipCases, alertPatches, blocked, view>>

AddNote(id) ==
    /\ screen[id] # None /\ Simulates /\ MayNote(id)
    /\ notes' = [notes EXCEPT ![id] = @ + 1]
    /\ UNCHANGED <<demo, server, session, created, patches, ipCases, alertPatches, blocked, answers, view>>

\* openCase, for an IP or for an alert, which may have no IP (None): one case
\* per IP, the creator's, and a new one each time without an IP.
OpenCase(ip) ==
    LET next == CHOOSE i \in DOMAIN DemoIds :
                  /\ created[DemoIds[i]] = None
                  /\ \A j \in 1..i - 1 : created[DemoIds[j]] # None
    IN  /\ Simulates
        /\ IF ip # None /\ ipCases[ip] # None THEN UNCHANGED <<created, ipCases>>
           ELSE /\ \E i \in DOMAIN DemoIds : created[DemoIds[i]] = None
                /\ created' = [created EXCEPT ![DemoIds[next]] =
                     [assigned_to |-> user.username, status |-> "open", completed_tasks |-> {}]]
                /\ ipCases' = IF ip = None THEN ipCases ELSE [ipCases EXCEPT ![ip] = DemoIds[next]]
        /\ UNCHANGED <<demo, server, session, patches, notes, alertPatches, blocked, answers, view>>

\* Acknowledge or dismiss an alert on the screen.
PatchAlert(a, status) ==
    /\ alerts[a] # None /\ Simulates
    /\ alertPatches' = [alertPatches EXCEPT ![a] = status]
    /\ Answer([alert |-> a, status |-> status])
    /\ UNCHANGED <<demo, server, session, created, patches, notes, ipCases, blocked, view>>

Block(ip, on) ==
    /\ Simulates
    /\ blocked' = [blocked EXCEPT ![ip] = on]
    /\ UNCHANGED <<demo, server, session, created, patches, notes, ipCases, alertPatches, answers, view>>

\* Mutant: any refusal counts as the demo's.
SendUnread ==
    /\ ~enabled
    /\ enabled' = TRUE
    /\ UNCHANGED <<demo, server, asked, user, overlay, answers, view>>

\* A write that is sent, because demo mode is not known yet or the simulator
\* does not handle it: a demo's 403 "Read-only demo" turns demo mode on.
\* What it changes elsewhere is in ServerMoves.
Send ==
    /\ enabled' = (enabled \/ demo)
    /\ UNCHANGED <<demo, server, asked, user, overlay, answers, view>>

-----------------------------------------------------------------------------
\* What reaches the browser.

\* load(), and its failure.
Config ==
    /\ asked /\ asked' = FALSE
    /\ enabled' \in {demo, enabled}
    /\ UNCHANGED <<demo, server, user, overlay, answers, view>>

FetchList ==
    /\ list = None
    /\ list' = server
    /\ UNCHANGED <<demo, server, session, overlay, answers, seen, screen, alerts>>

Sent(id) == IF id \in ServerIds THEN list[id] ELSE None

\* Mutant: the simulated changes of listed incidents are left out.
ListArrivesUnpatched ==
    /\ list # None /\ list' = None
    /\ seen' = [id \in Ids |-> IF enabled /\ Sent(id) # None THEN Sent(id) ELSE seen[id]]
    /\ screen' = [id \in Ids |-> IF enabled /\ created[id] # None THEN created[id] ELSE Sent(id)]
    /\ UNCHANGED <<demo, server, session, overlay, answers, alerts>>

\* overlay() on the answer of GET /api/incidents.
ListArrives ==
    /\ list # None /\ list' = None
    /\ IF enabled
       THEN /\ seen' = [id \in Ids |-> IF Sent(id) # None THEN Sent(id) ELSE seen[id]]
            /\ screen' = [id \in Ids |->
                 LET inc == IF created[id] # None THEN created[id] ELSE Sent(id)
                 IN  IF inc = None THEN None ELSE WithOverlay(inc, id)]
       ELSE seen' = seen /\ screen' = [id \in Ids |-> Sent(id)]
    /\ UNCHANGED <<demo, server, session, overlay, answers, alerts>>

\* The same for GET /api/alerts; the demo's server has only new alerts.
AlertsArrive ==
    /\ \E sent \in SUBSET Alerts :
         alerts' = [a \in Alerts |->
           IF a \notin sent \/ (enabled /\ alertPatches[a] = "dismissed") THEN None
           ELSE IF enabled /\ alertPatches[a] # None THEN alertPatches[a] ELSE "new"]
    /\ UNCHANGED <<demo, server, session, overlay, answers, seen, list, screen>>

\* The oldest simulated answer: the screens put it in the place of what they
\* show under its id.
AnswerArrives ==
    /\ answers # <<>> /\ answers' = Tail(answers)
    /\ LET a == Head(answers)
       IN  IF "alert" \in DOMAIN a
           THEN /\ alerts' = [alerts EXCEPT ![a.alert] =
                                IF @ = None \/ a.status = "dismissed" THEN None ELSE a.status]
                /\ UNCHANGED screen
           ELSE /\ screen' = [screen EXCEPT ![a.id] = IF @ = None THEN None ELSE a.body]
                /\ UNCHANGED alerts
    /\ UNCHANGED <<demo, server, session, overlay, seen, list>>

\* Incidents come by live events and go with the oldest, or with a restart,
\* after which an id may come back; outside the demo anything happens to them.
ServerMoves(id) ==
    /\ \E new \in Fresh \cup {None} :
         /\ demo /\ server[id] # None => new = None
         /\ server' = [server EXCEPT ![id] = new]
    /\ UNCHANGED <<demo, session, overlay, answers, view>>

\* The screens go, and with them what was on its way to them; the layout of
\* the next login asks for the configuration again.  The service stays.
Login(u) ==
    /\ user' = u /\ asked' = TRUE
    /\ screen' = NoIncidents /\ alerts' = [a \in Alerts |-> None]
    /\ list' = None /\ answers' = <<>>
    /\ UNCHANGED <<demo, server, enabled, seen, overlay>>

\* A reload starts the application again.
Reload ==
    /\ enabled' = FALSE /\ asked' = TRUE
    /\ created' = NoIncidents /\ patches' = [id \in Ids |-> Nothing]
    /\ notes' = [id \in Ids |-> 0] /\ ipCases' = [ip \in IPs |-> None]
    /\ alertPatches' = [a \in Alerts |-> None] /\ blocked' = [ip \in IPs |-> None]
    /\ writes' = 0
    /\ seen' = NoIncidents /\ list' = None /\ screen' = NoIncidents
    /\ alerts' = [a \in Alerts |-> None]
    /\ answers' = <<>>
    /\ UNCHANGED <<demo, server, user>>

Next ==
    \/ \E id \in Ids : AddNote(id) \/ \E patch \in Patches : Patch(id, patch)
    \/ \E ip \in IPs \cup {None} : OpenCase(ip)
    \/ \E ip \in IPs, on \in BOOLEAN : Block(ip, on)
    \/ \E a \in Alerts, status \in {"acknowledged", "dismissed"} : PatchAlert(a, status)
    \/ Send \/ Config \/ FetchList \/ ListArrives \/ AlertsArrive \/ AnswerArrives
    \/ \E id \in ServerIds : ServerMoves(id)
    \/ \E u \in Users : Login(u)
    \/ Reload

Spec == Init /\ [][Next]_vars

-----------------------------------------------------------------------------

TypeOK ==
    /\ demo \in BOOLEAN /\ enabled \in BOOLEAN /\ asked \in BOOLEAN
    /\ user \in Users /\ writes \in 0..MaxWrites /\ Len(answers) <= MaxAnswers
    /\ \A id \in Ids : /\ seen[id] # None => seen[id] \in Fresh /\ id \in ServerIds
                       /\ created[id] # None => created[id] \in Incident /\ id \notin ServerIds
                       /\ DOMAIN patches[id] \subseteq Fields
                       /\ screen[id] # None => DOMAIN screen[id] \subseteq Fields
    /\ \A ip \in IPs : ipCases[ip] # None => created[ipCases[ip]] # None

\* A server that is not a demo gets every write: the browser never keeps one
\* to itself and never hides what the server says (demoModeInterceptor).
NeverPretends == ~demo => ~enabled /\ EmptyOverlay

\* What the simulator lets through, the server's own rules allow this user on
\* the incident as it is shown, other simulated changes included, if the
\* browser has listed it (README: "it never 'succeeds' at something the real
\* server would deny").
SimulationPermits ==
    [][\A id \in Ids : Known(id) /\ writes' > writes =>
         LET before == WithOverlay(Base(id), id)
             after == Spread(Base(id), patches'[id])
             changes(f) == after[f] # before[f]
         IN  /\ notes'[id] # notes[id] \/ changes("status") \/ changes("completed_tasks")
                  => CheckWorkOnIncident(user, before) = "ok"
             /\ changes("assigned_to")
                  => CheckAssignment(user, before, after.assigned_to, ActiveUsers) = "ok"]_vars

\* Once the answers have arrived no screen shows an older state than the
\* simulated writes made, whatever lists crossed them: "overlays them on later
\* GETs" (DemoSimulatorService).
ScreensKeepWrites ==
    answers = <<>> =>
      /\ \A id \in Ids : screen[id] # None =>
           \A f \in DOMAIN patches[id] \cap {"status", "assigned_to"} : screen[id][f] = patches[id][f]
      /\ \A a \in Alerts : alertPatches[a] # None /\ alerts[a] # None => alerts[a] = alertPatches[a]
      /\ \A a \in Alerts : alertPatches[a] = "dismissed" => alerts[a] = None

\* "Last server copy of each item, so PATCH can return a full object": no
\* screen shows part of an incident.  Not kept by the code: a list that came
\* before demo mode was known was not remembered.
AlwaysComplete == \A id \in Ids : screen[id] # None => DOMAIN screen[id] = Fields
=============================================================================
