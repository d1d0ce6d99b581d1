------------------------------ MODULE Screens ------------------------------
(***************************************************************************)
(* Two screens of the application, of which the router shows one at a time *)
(* (app.routes.ts): the page of incidents (module IncidentsPage) and the   *)
(* alerts, with the requests of the layout and of the screen itself        *)
(* (module Alerts).  A behavior follows one of them, chosen when it        *)
(* begins; the other is closed and asks the server for nothing.            *)
(***************************************************************************)
EXTENDS IncidentsPage

CONSTANTS Cap, MaxAlerts, MaxCalls

VARIABLES open,         \* the screen that is followed
          alerts, counter, made, base, shown, picked, caseOf, screen, asked

Feed == INSTANCE Alerts WITH selected <- picked, calls <- asked

ASSUME AlertsAssumption == Feed!BoundsOfAlerts

alertVars == <<alerts, counter, made, base, shown, picked, caseOf, screen, asked>>
allVars == <<vars, open, alertVars>>

PageClosed ==
    /\ server = NoIncidents /\ list = NoIncidents
    /\ user = None /\ selected = None /\ notes = <<>> /\ ticks = {}
    /\ calls = {} /\ written = {} /\ writes = 0 /\ others = 0

OpensAlerts == open = "alerts" /\ Feed!Init /\ PageClosed
OpensPage == open = "incidents" /\ Feed!Init /\ Init

OnAlerts(A) == open = "alerts" /\ A /\ UNCHANGED <<open, vars>>
OnPage(A) == open = "incidents" /\ A /\ UNCHANGED <<open, alertVars>>

NextOnScreen == OnAlerts(Feed!Next) \/ OnPage(Next)

\* The timer of the open screen goes on and its requests come to an end; of those
\* for its list some are answered.
ScreensSpec ==
    /\ OpensAlerts \/ OpensPage
    /\ [][NextOnScreen]_allVars
    /\ WF_allVars(OnAlerts(Feed!Poll) \/ OnPage(Poll))
    /\ WF_allVars(\/ OnAlerts(\E c \in asked : c.kind # "poll" /\ (Feed!Serve(c) \/ Feed!Hear(c)))
                  \/ OnPage(\E c \in calls : Serve(c) \/ Arrive(c)))
    /\ SF_allVars(\/ OnAlerts(\E c \in asked : c.kind = "poll" /\ Feed!Serve(c))
                  \/ OnPage(\E c \in Lists : Serve(c)))
    /\ SF_allVars(\/ OnAlerts(\E c \in asked : c.kind = "poll" /\ Feed!Hear(c))
                  \/ OnPage(\E c \in Lists : Arrive(c)))

-----------------------------------------------------------------------------

\* What a user does to an alert reaches the alert that was on the screen, however
\* many have come and gone since, unless the server restarted in between
\* (_find_alert).
ActsOnSeen == Feed!ActsOnSeen

\* Once the server's list no longer changes, the browser shows exactly the alerts
\* that are not dismissed, as they are (threats.service.ts, alerts.ts).
ScreenSettles == Feed!ScreenSettles
=============================================================================
