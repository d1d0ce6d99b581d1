------------------------------- MODULE Alerts -------------------------------
(***************************************************************************)
(* Alerts: the list the server keeps in memory (store.py, routers/         *)
(* alerts.py) and the copy one browser shows, replaced by polls and        *)
(* changed by the answers to what its user does (threats.service.ts,       *)
(* alerts.ts), while other users work on the same alerts.                  *)
(*                                                                         *)
(* An alert's uid tells it from every other; the program has only the id,  *)
(* which starts again at ALT-0001 when the server does.                    *)
(***************************************************************************)
EXTENDS Naturals, Sequences, FiniteSets, SequencesExt

CONSTANTS None,         \* no alert
          Cap,          \* the length of alerts_store (100)
          MaxAlerts,    \* bound: how many alerts are created
          MaxCalls      \* bound: how many requests besides polls are on their way

BoundsOfAlerts == Cap \in Nat \ {0} /\ MaxAlerts \in Nat /\ None \notin 1..MaxAlerts

Uids == 1..MaxAlerts

Alert == [uid : Uids, id : Uids, status : {"new", "acknowledged", "dismissed"}]

\* A request is about the alert of that id; uid is the alert its user saw.
\* answer is the list, the one alert, or nothing.
Changes == {"acknowledged", "dismissed"}
Kinds == {"poll", "list", "case", "drawer"} \cup Changes

VARIABLES alerts,       \* alerts_store, newest first
          counter,      \* _alert_counter
          made,         \* how many alerts there ever were
          base,         \* history: how many of them a restart has wiped out
          shown,        \* store.alerts of the browser
          selected,     \* selectedAlert: its id and uid
          caseOf,       \* caseMap: the alert whose case is shown under an id
          screen,       \* is the Alerts screen open
          calls         \* requests of the browser on their way

vars == <<alerts, counter, made, base, shown, selected, caseOf, screen, calls>>
server == <<alerts, counter, made, base>>
browser == <<shown, selected, caseOf, screen>>

NoCases == [id \in Uids |-> None]

Init ==
    /\ alerts = <<>> /\ counter = 0 /\ made = 0 /\ base = 0
    /\ shown = <<>> /\ selected = None /\ caseOf = NoCases /\ screen = FALSE
    /\ calls = {}

-----------------------------------------------------------------------------
(* The server. *)

\* Mutant: ids follow the length of the list.
IdByLength == Len(alerts) + 1

NewId == counter + 1

\* A full list drops the oldest.
Kept(list) == IF Len(list) < Cap THEN list ELSE Front(list)

\* A rule or the behavioral loop raises an alert.
Create ==
    /\ made < MaxAlerts
    /\ made' = made + 1
    /\ counter' = NewId
    /\ LET alert == [uid |-> made + 1, id |-> NewId, status |-> "new"]
       IN  alerts' = <<alert>> \o Kept(alerts)
    /\ UNCHANGED <<base, browser, calls>>

\* _find_alert: the first of that id, if there is one.
Find(list, id) == SelectInSeq(list, LAMBDA a : a.id = id)

Found(list, id) == IF Find(list, id) = 0 THEN <<>> ELSE <<list[Find(list, id)]>>

WithStatus(id, status) ==
    IF Find(alerts, id) = 0 THEN alerts ELSE [alerts EXCEPT ![Find(alerts, id)].status = status]

\* Another user acknowledges or dismisses an alert.
OtherUser(id, status) ==
    /\ Find(alerts, id) # 0
    /\ alerts' = WithStatus(id, status)
    /\ UNCHANGED <<counter, made, base, browser, calls>>

\* The alerts of the list that are in keep, in their order: SelectSeq in a form
\* that can be reasoned about.
Only(list, keep) ==
    LET upto[n \in 0..Len(list)] ==
          IF n = 0 THEN <<>>
          ELSE IF list[n] \in keep THEN Append(upto[n - 1], list[n]) ELSE upto[n - 1]
    IN  upto[Len(list)]

\* Mutant: dismissed alerts come along.
WithDismissed(list) == list

\* GET /api/alerts.
Visible(list) == Only(list, {a \in ToSet(list) : a.status # "dismissed"})

Answer(c, answer) ==
    calls' = (calls \ {c}) \cup {[c EXCEPT !.stage = "answered", !.answer = answer]}

ServeList(c) ==
    /\ c.kind \in {"poll", "list"}
    /\ Answer(c, Visible(alerts))
    /\ UNCHANGED alerts

\* PATCH /api/alerts/{id}.
ServePatch(c) ==
    /\ c.kind \in Changes
    /\ alerts' = WithStatus(c.id, c.kind)
    /\ Answer(c, Found(alerts', c.id))

\* POST /api/alerts/{id}/case: the case of the alert's ip.
ServeCase(c) ==
    /\ c.kind \in {"case", "drawer"}
    /\ Answer(c, Found(alerts, c.id))
    /\ UNCHANGED alerts

Serve(c) ==
    /\ c.stage = "sent"
    /\ ServeList(c) \/ ServePatch(c) \/ ServeCase(c)
    /\ UNCHANGED <<counter, made, base, browser>>

\* List and counter are in memory only; what was not answered fails.
Restart ==
    /\ alerts' = <<>>
    /\ counter' = 0
    /\ base' = made
    /\ calls' = {c \in calls : c.stage = "answered"}
    /\ UNCHANGED <<made, browser>>

-----------------------------------------------------------------------------
(* The browser. *)

New(kind, a) == [kind |-> kind, id |-> a.id, uid |-> a.uid, stage |-> "sent", answer |-> <<>>,
                  heard |-> TRUE]

Send(call) ==
    /\ Cardinality({c \in calls : c.kind # "poll"}) < MaxCalls
    /\ calls' = calls \cup {call}

\* The timer of the layout: a new poll takes the place of an unanswered one.
Poll ==
    /\ calls' = {c \in calls : c.kind # "poll"} \cup {New("poll", [id |-> 0, uid |-> 0])}
    /\ UNCHANGED <<server, browser>>

OpenScreen ==
    /\ ~screen
    /\ screen' = TRUE
    /\ Send(New("list", [id |-> 0, uid |-> 0]))
    /\ UNCHANGED <<server, shown, selected, caseOf>>

\* Leaving aborts the requests of the screen; changes may still reach the server,
\* with nobody to hear the answer.
Leave(rest) ==
    /\ screen' = FALSE
    /\ selected' = None
    /\ caseOf' = NoCases
    /\ calls' = {c \in rest : c.kind = "poll"}
                  \cup {[c EXCEPT !.heard = FALSE] :
                          c \in {d \in rest : d.kind \in Changes /\ d.stage = "sent"}}

LeaveScreen == screen /\ Leave(calls) /\ UNCHANGED <<server, shown>>

Select(a) ==
    /\ screen
    /\ selected' = [id |-> a.id, uid |-> a.uid]
    /\ UNCHANGED <<server, shown, caseOf, screen, calls>>

CloseDrawer ==
    /\ selected # None
    /\ selected' = None
    /\ calls' = {c \in calls : c.kind # "drawer"}
    /\ UNCHANGED <<server, shown, caseOf, screen>>

\* The buttons of an alert: Acknowledge and Create Case while it is new, Dismiss.
Acknowledge(a) == screen /\ a.status = "new" /\ Send(New("acknowledged", a)) /\ UNCHANGED <<server, browser>>

Dismiss(a) == screen /\ Send(New("dismissed", a)) /\ UNCHANGED <<server, browser>>

CreateCase(a) ==
    /\ screen /\ a.status = "new" /\ caseOf[a.id] = None
    /\ Send(New("case", a))
    /\ UNCHANGED <<server, browser>>

\* The drawer's button is disabled while its request is on its way.
DrawerCase ==
    /\ selected # None
    /\ ~\E c \in calls : c.kind = "drawer"
    /\ Send(New("drawer", selected))
    /\ UNCHANGED <<server, browser>>

HearList(c) ==
    /\ c.kind \in {"poll", "list"}
    /\ shown' = c.answer
    /\ calls' = calls \ {c}
    /\ UNCHANGED <<selected, caseOf, screen>>

IsSelected(id) == IF selected = None THEN FALSE ELSE selected.id = id

HearAcknowledged(c) ==
    /\ c.kind = "acknowledged"
    /\ shown' = [i \in DOMAIN shown |-> IF shown[i].id = c.id THEN c.answer[1] ELSE shown[i]]
    /\ selected' = IF IsSelected(c.id) THEN [id |-> c.id, uid |-> c.answer[1].uid] ELSE selected
    /\ calls' = calls \ {c}
    /\ UNCHANGED <<caseOf, screen>>

HearDismissed(c) ==
    /\ c.kind = "dismissed"
    /\ shown' = Only(shown, {a \in ToSet(shown) : a.id # c.id})
    /\ selected' = IF IsSelected(c.id) THEN None ELSE selected
    /\ calls' = IF IsSelected(c.id) THEN {d \in calls \ {c} : d.kind # "drawer"} ELSE calls \ {c}
    /\ UNCHANGED <<caseOf, screen>>

HearCase(c) ==
    /\ c.kind = "case"
    /\ caseOf' = [caseOf EXCEPT ![c.id] = c.answer[1].uid]
    /\ calls' = calls \ {c}
    /\ UNCHANGED <<shown, selected, screen>>

\* The drawer leads on to the incident.
HearDrawer(c) == c.kind = "drawer" /\ Leave(calls \ {c}) /\ UNCHANGED shown

\* A 404, or nobody listens.
HearNothing(c) ==
    /\ c.kind \notin {"poll", "list"} /\ (c.answer = <<>> \/ ~c.heard)
    /\ calls' = calls \ {c}
    /\ UNCHANGED browser

Hear(c) ==
    /\ c.stage = "answered"
    /\ IF c.heard /\ (c.answer # <<>> \/ c.kind \in {"poll", "list"})
       THEN \/ HearList(c) \/ HearAcknowledged(c) \/ HearDismissed(c)
            \/ HearCase(c) \/ HearDrawer(c)
       ELSE HearNothing(c)
    /\ UNCHANGED server

\* A request is lost, or aborted before it reaches the server.
Lose(c) == c.stage = "sent" /\ calls' = calls \ {c} /\ UNCHANGED <<server, browser>>

ShownAlerts == {shown[i] : i \in DOMAIN shown}

UserStep ==
    \/ OpenScreen \/ LeaveScreen \/ CloseDrawer \/ DrawerCase
    \/ \E a \in ShownAlerts : Select(a) \/ Acknowledge(a) \/ Dismiss(a) \/ CreateCase(a)

Next ==
    \/ Create
    \/ \E id \in Uids, status \in Changes : OtherUser(id, status)
    \/ Restart
    \/ Poll
    \/ UserStep
    \/ \E c \in calls : Serve(c) \/ Hear(c) \/ Lose(c)

\* The timer goes on; it may cancel some polls but not every one of them; every
\* other request is answered.
Spec == /\ Init /\ [][Next]_vars
        /\ WF_vars(Poll)
        /\ SF_vars(\E c \in calls : c.kind = "poll" /\ Serve(c))
        /\ SF_vars(\E c \in calls : c.kind = "poll" /\ Hear(c))
        /\ WF_vars(\E c \in calls : c.kind # "poll" /\ (Serve(c) \/ Hear(c)))

-----------------------------------------------------------------------------
(* Properties. *)

\* Every variable keeps to the values the code gives it.
TypeOK ==
    /\ {alerts[i] : i \in DOMAIN alerts} \cup ShownAlerts \subseteq Alert
    /\ Len(alerts) <= Cap /\ Len(shown) <= Cap
    /\ counter \in Nat /\ made \in 0..MaxAlerts /\ base \in 0..made
    /\ selected \in [id : Uids, uid : Uids] \cup {None}
    /\ caseOf \in [Uids -> Uids \cup {None}]
    /\ screen \in BOOLEAN
    /\ \A c \in calls : /\ c.kind \in Kinds
                       /\ c.kind \notin {"poll", "list"} => Len(c.answer) <= 1

\* What a user does to an alert reaches the alert that was on the screen, however
\* many have come and gone since (alerts are found by id), unless the server
\* restarted in between.
ActsOnSeen ==
    \A c \in calls :
      c.kind \notin {"poll", "list"} /\ c.answer # <<>> /\ c.uid > base
        => c.answer[1].uid = c.uid

\* Once the server's list no longer changes, the browser shows exactly the alerts
\* that are not dismissed, as they are, whatever answers were still on their way and
\* whatever requests are lost: none stays for ever that is dismissed or gone, none
\* is missing.
ScreenSettles ==
    <>[][UNCHANGED alerts]_vars =>
      <>[](shown = SelectSeq(alerts, LAMBDA a : a.status # "dismissed"))

=============================================================================
