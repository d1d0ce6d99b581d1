------------------------------- MODULE Client -------------------------------
(***************************************************************************)
(* Who the browser thinks is signed in: the tabs of one browser, the       *)
(* cookie they share, the requests that set, use and delete it, the route  *)
(* guard and the redirect to /login (auth.ts, auth-guard.ts,               *)
(* auth.interceptor.ts, login.ts, settings.ts), and the sessions the       *)
(* server accepts (routers/auth.py).                                       *)
(*                                                                         *)
(* The server takes a request in one step and the tab its answer in        *)
(* another; what the answer says about the cookie reaches the browser      *)
(* together with the answer.  The layout's own polls stand for every       *)
(* request a screen makes; a tab has one on its way at a time.             *)
(***************************************************************************)
EXTENDS Naturals, Sequences, FiniteSets

CONSTANTS Tabs,
          Other,        \* a further tab, of which only the logins and logouts matter
          Users,
          None,         \* nobody
          MaxSessions,  \* bound: how many sessions are opened
          MaxCalls      \* bound: how many requests besides polls are on their way

NoCookie == 0

Cookies == 0..MaxSessions

ASSUME ClientAssumption ==
    /\ None \notin Users \cup Cookies /\ Other \notin Tabs
    /\ MaxSessions \in Nat /\ MaxCalls \in Nat

\* guard: GET /auth/me of the route guard; load: the one after a login;
\* password: PATCH /auth/me.  cookie is what the browser sent with it, result
\* the user or the session in the answer.  Nobody waits for an answer that is
\* not heard; form: the login page it was sent from is still there.  Calls alike
\* in all of it are one.
Call == [tab : Tabs \cup {Other}, kind : {"login", "load", "guard", "poll", "logout", "password"},
         cookie : Cookies, user : Users \cup {None}, stage : {"sent", "answered"},
         result : Users \cup {None} \cup Cookies, heard : BOOLEAN, form : BOOLEAN]

VARIABLES jar,          \* the session whose cookie the browser has
          owner,        \* the user of each session opened so far
          live,         \* the sessions the server accepts
          seen,         \* _user of each tab
          page,         \* where each tab is: "app" is the layout and its screens,
                        \* "error" the login page when it says what failed
          calls,        \* requests on their way
          apart,        \* history: tabs that did not learn whose cookie it is now:
                        \* another tab signed in, or their question was overtaken
                        \* or failed
          crossed       \* history: sessions opened while a logout was on its way

vars == <<jar, owner, live, seen, page, calls, apart, crossed>>
server == <<owner, live>>
history == <<apart, crossed>>

Init ==
    /\ jar = NoCookie
    /\ owner = <<>>
    /\ live = {}
    /\ seen = [t \in Tabs |-> None]
    /\ page = [t \in Tabs |-> "blank"]
    /\ calls = {}
    /\ apart = {}
    /\ crossed = {}

\* A login does not look at the cookie it comes with.
New(t, kind, user) ==
    [tab |-> t, kind |-> kind, cookie |-> IF kind = "login" THEN NoCookie ELSE jar,
     user |-> user, stage |-> "sent", result |-> None, heard |-> TRUE, form |-> kind = "login"]

Awaited(t, kinds) == {c \in calls : c.tab = t /\ c.kind \in kinds /\ c.heard}

\* A call goes out while the calls of rest are on their way.
Send(call, rest) ==
    /\ Cardinality({c \in rest : c.kind # "poll"}) < MaxCalls
    /\ calls' = rest \cup {call}

\* A screen, or with every kind a page, goes away: nobody hears its answers;
\* requests that change something may still reach the server.
Reads == {"load", "guard", "poll"}
EveryKind == Reads \cup {"login", "logout", "password"}

Abort(set, kinds, t) ==
    LET gone == {c \in set : c.tab = t /\ c.kind \in kinds /\ c.heard}
    IN  (set \ gone) \cup {[c EXCEPT !.heard = FALSE, !.form = FALSE] : c \in {d \in gone : d.kind \notin Reads}}

\* The layout is destroyed: its polls and its settings screen.
LeaveApp(set, t) == Abort(set, {"poll", "password"}, t)

\* The login page is destroyed: its login is not cancelled, and whoever is signed
\* in by it goes to the dashboard all the same.
LeaveForm(set, t) == {[c EXCEPT !.form = @ /\ c.tab # t] : c \in set}

-----------------------------------------------------------------------------
(* What the user does. *)

\* A screen is opened in a new page: nobody is known, so the guard asks.
Reload(t) ==
    /\ seen' = [seen EXCEPT ![t] = None]
    /\ page' = [page EXCEPT ![t] = "blank"]
    /\ Send(New(t, "guard", None), Abort(calls, EveryKind, t))
    /\ UNCHANGED <<jar, server, history>>

AtLogin(t) == page[t] \in {"login", "error"}

\* Back to a screen from the login page, within the application.
Enter(t) ==
    /\ AtLogin(t)
    /\ IF seen[t] # None
       THEN page' = [page EXCEPT ![t] = "app"] /\ calls' = LeaveForm(Abort(calls, {"guard"}, t), t)
       ELSE Send(New(t, "guard", None), Abort(calls, {"guard"}, t)) /\ UNCHANGED page
    /\ UNCHANGED <<jar, server, seen, history>>

\* The login page is opened by its address.
OpenLogin(t) ==
    /\ ~AtLogin(t)
    /\ seen' = [seen EXCEPT ![t] = None]
    /\ page' = [page EXCEPT ![t] = "login"]
    /\ calls' = Abort(calls, EveryKind, t)
    /\ UNCHANGED <<jar, server, history>>

\* The button of a login page is disabled while a login of this page is on its way.
Submit(t, user) ==
    /\ AtLogin(t)
    /\ ~\E c \in calls : c.tab = t /\ c.form
    /\ Send(New(t, "login", user), calls)
    /\ page' = [page EXCEPT ![t] = "login"]
    /\ UNCHANGED <<jar, server, seen, history>>

\* logout() and a failed guard.
Forget(t) == [seen EXCEPT ![t] = None]

Logout(t) ==
    /\ page[t] = "app"
    /\ Send(New(t, "logout", None), LeaveApp(calls, t))
    /\ seen' = Forget(t)
    /\ page' = [page EXCEPT ![t] = "login"]
    /\ UNCHANGED <<jar, server, history>>

ChangePassword(t) ==
    /\ page[t] = "app"
    /\ Awaited(t, {"password"}) = {}
    /\ Send(New(t, "password", None), calls)
    /\ UNCHANGED <<jar, server, seen, page, history>>

Poll(t) ==
    /\ page[t] = "app"
    /\ Awaited(t, {"poll"}) = {}
    /\ calls' = calls \cup {New(t, "poll", None)}
    /\ UNCHANGED <<jar, server, seen, page, history>>

\* Somebody signs in or out in the other tab.
OtherTab ==
    /\ Awaited(Other, EveryKind) = {}
    /\ \/ Send(New(Other, "logout", None), calls)
       \/ \E u \in Users : Send(New(Other, "login", u), calls)
    /\ UNCHANGED <<jar, server, seen, page, history>>

-----------------------------------------------------------------------------
(* The server. *)

\* Of an answered call only what its answer is used for is kept.
Answer(c, result) ==
    calls' = (calls \ {c}) \cup
               {[c EXCEPT !.stage = "answered", !.result = result, !.user = None,
                          !.cookie = IF c.kind \in {"load", "guard"} THEN @ ELSE NoCookie]}

Open(user) == Len(owner) < MaxSessions /\ owner' = Append(owner, user)

\* POST /auth/login, with the right password or without.
ServeLogin(c) ==
    /\ c.kind = "login"
    /\ \/ Open(c.user) /\ live' = live \cup {Len(owner')} /\ Answer(c, Len(owner'))
       \/ UNCHANGED server /\ Answer(c, None)

\* verify_token: the user of the session, or 401.
Whose(c) == IF c.cookie \in live THEN owner[c.cookie] ELSE None

ServeRead(c) ==
    /\ c.kind \in Reads
    /\ Answer(c, Whose(c))
    /\ UNCHANGED server

\* Mutant: the session is not revoked.
RevokeNothing(c) == live

\* POST /auth/logout: ends the session of the cookie it came with.
Revoked(c) == live \ {c.cookie}

ServeLogout(c) ==
    /\ c.kind = "logout"
    /\ live' = Revoked(c)
    /\ Answer(c, None)
    /\ UNCHANGED owner

\* PATCH /auth/me: every session of the user ends, and a new one begins; or the
\* current password is wrong, or the session has ended.
ServePassword(c) ==
    /\ c.kind = "password"
    /\ \/ /\ c.cookie \in live
          /\ Open(owner[c.cookie])
          /\ live' = {s \in live : owner[s] # owner[c.cookie]} \cup {Len(owner')}
          /\ Answer(c, Len(owner'))
       \/ UNCHANGED server /\ Answer(c, None)

Serve(c) ==
    /\ c.stage = "sent"
    /\ ServeLogin(c) \/ ServeRead(c) \/ ServeLogout(c) \/ ServePassword(c)
    /\ UNCHANGED <<jar, seen, page, history>>

\* A session expires, or an admin ends it.
EndSession(s) ==
    /\ s \in live
    /\ live' = live \ {s}
    /\ UNCHANGED <<jar, owner, seen, page, calls, history>>

-----------------------------------------------------------------------------
(* The answers. *)

\* The browser gets the cookie of session s in an answer to tab t.
SetCookie(t, s) ==
    /\ jar' = s
    /\ apart' = apart \cup (Tabs \ {t})
    /\ crossed' = IF \E c \in calls : c.kind = "logout" THEN crossed \cup {s} ELSE crossed

\* The login failed, or the question who it is: its page says so, if it is there.
SayFailed(c) ==
    page' = [t \in Tabs |-> IF t = c.tab /\ c.form THEN "error" ELSE page[t]]

\* GET /auth/me with the cookie of the login that was answered.
Load(c) == [New(c.tab, "load", None) EXCEPT !.cookie = c.result, !.form = c.form]

\* Mutant: a user who is known already is not loaded again.
LoadUnlessKnown(c, rest) ==
    IF seen[c.tab] = None
    THEN calls' = rest \cup {Load(c)} /\ UNCHANGED page
    ELSE calls' = rest /\ page' = [page EXCEPT ![c.tab] = "app"]

\* login() goes on to GET /auth/me, with the new cookie.
LoadUser(c, rest) ==
    /\ calls' = rest \cup {Load(c)}
    /\ UNCHANGED page

HearLogin(c) ==
    /\ c.kind = "login"
    /\ IF c.result = None
       THEN calls' = calls \ {c} /\ SayFailed(c) /\ UNCHANGED <<jar, history>>
       ELSE /\ SetCookie(c.tab, c.result)
            /\ IF c.tab = Other THEN calls' = calls \ {c} /\ UNCHANGED page
               ELSE LoadUser(c, calls \ {c})
    /\ UNCHANGED seen

Known(c) ==
    /\ seen' = [seen EXCEPT ![c.tab] = c.result]
    /\ apart' = IF c.cookie = jar THEN apart \ {c.tab} ELSE apart \cup {c.tab}
    /\ UNCHANGED <<jar, crossed>>

\* router.navigate(['/dashboard']): the guard finds the user known.
Dashboard(t) == [page EXCEPT ![t] = "app"]

HearLoad(c) ==
    /\ c.kind = "load"
    /\ IF c.result = None
       THEN /\ calls' = calls \ {c}
            /\ SayFailed(c)
            /\ apart' = apart \cup {c.tab}
            /\ UNCHANGED <<jar, seen, crossed>>
       ELSE /\ Known(c)
            /\ page' = Dashboard(c.tab)
            /\ calls' = LeaveForm(Abort(calls \ {c}, {"guard"}, c.tab), c.tab)

HearGuard(c) ==
    /\ c.kind = "guard"
    /\ IF c.result = None
       THEN /\ calls' = calls \ {c}
            /\ seen' = Forget(c.tab)
            /\ page' = [page EXCEPT ![c.tab] = "login"]
            /\ UNCHANGED <<jar, history>>
       ELSE /\ calls' = LeaveForm(calls \ {c}, c.tab)
            /\ Known(c)
            /\ page' = [page EXCEPT ![c.tab] = "app"]

\* Mutant: a 401 of a screen's request is left to the screen.
LeaveIt(c) == calls' = calls \ {c} /\ UNCHANGED page

\* The interceptor: a 401 outside /auth/ leads to /login; _user stays.
Redirect(c) ==
    IF c.result = None
    THEN /\ page' = [page EXCEPT ![c.tab] = "login"]
         /\ calls' = LeaveApp(calls \ {c}, c.tab)
    ELSE calls' = calls \ {c} /\ UNCHANGED page

HearPoll(c) ==
    /\ c.kind = "poll"
    /\ Redirect(c)
    /\ UNCHANGED <<jar, seen, history>>

\* delete_cookie, whatever session the browser has a cookie of by now.
HearLogout(c) ==
    /\ c.kind = "logout"
    /\ calls' = calls \ {c}
    /\ jar' = NoCookie
    /\ UNCHANGED <<seen, page, history>>

HearPassword(c) ==
    /\ c.kind = "password"
    /\ calls' = calls \ {c}
    /\ IF c.result = None
       THEN UNCHANGED <<jar, seen, history>>
       ELSE /\ SetCookie(c.tab, c.result)
            /\ seen' = [seen EXCEPT ![c.tab] = owner[c.result]]
    /\ UNCHANGED page

\* Nobody waits for it any more.
Unheard(c) == calls' = calls \ {c} /\ UNCHANGED <<jar, seen, page, history>>

Hear(c) ==
    /\ c.stage = "answered"
    /\ IF c.heard
       THEN \/ HearLogin(c) \/ HearLoad(c) \/ HearGuard(c) \/ HearPoll(c)
            \/ HearLogout(c) \/ HearPassword(c)
       ELSE Unheard(c)
    /\ UNCHANGED server

\* The request or its answer is lost.  checkAuth takes it for "nobody".
Lose(c) ==
    /\ calls' = calls \ {c}
    /\ CASE c.kind = "guard" -> /\ seen' = Forget(c.tab)
                                /\ page' = [page EXCEPT ![c.tab] = "login"]
         [] c.kind \in {"login", "load"} /\ c.heard -> SayFailed(c) /\ UNCHANGED seen
         [] OTHER -> UNCHANGED <<seen, page>>
    /\ apart' = IF c.kind = "load" THEN apart \cup {c.tab} ELSE apart
    /\ UNCHANGED <<jar, server, crossed>>

UserStep(t) ==
    \/ Reload(t) \/ Enter(t) \/ OpenLogin(t) \/ Logout(t) \/ ChangePassword(t)
    \/ \E u \in Users : Submit(t, u)

Next ==
    \/ \E t \in Tabs : UserStep(t) \/ Poll(t)
    \/ OtherTab
    \/ \E c \in calls : Serve(c) \/ Hear(c) \/ Lose(c)
    \/ \E s \in live : EndSession(s)

\* A step that only the loss of a request or of its answer explains.
Losing == \E c \in calls : Lose(c) /\ ~Hear(c)

\* The timers of the layout go on, the server answers, answers arrive.
Spec == /\ Init /\ [][Next]_vars
        /\ \A t \in Tabs : WF_vars(Poll(t))
        /\ \A t \in Tabs, k \in EveryKind :
             WF_vars(\E c \in calls : c.tab = t /\ c.kind = k /\ (Serve(c) \/ Hear(c)))

-----------------------------------------------------------------------------
(* Properties. *)

\* Every variable keeps to the values the code gives it.
TypeOK ==
    /\ jar \in Cookies
    /\ owner \in Seq(Users) /\ Len(owner) <= MaxSessions
    /\ live \subseteq DOMAIN owner
    /\ seen \in [Tabs -> Users \cup {None}]
    /\ page \in [Tabs -> {"blank", "login", "error", "app"}]
    /\ calls \subseteq Call
    /\ apart \subseteq Tabs
    /\ crossed \subseteq DOMAIN owner

\* "The logged-in user, as the server sees it" (auth.ts:13): the user whose
\* screens are shown is the one the requests run as, while the session lasts,
\* but for tabs left behind by another tab's signing in or by a question that
\* was overtaken or failed (apart), and while the tab itself is signing in.
ShownIsSession ==
    \A t \in Tabs \ apart :
        page[t] = "app" /\ jar \in live /\ Awaited(t, {"login", "load"}) = {}
          => seen[t] = owner[jar]

\* A session that the server still accepts does not lose its cookie, except one
\* that was opened while an earlier logout was on its way, whose late answer
\* deletes the new cookie (routers/auth.py logout).
KeepsCookie == [][(jar \in live \ crossed) => jar' # NoCookie]_vars

\* "An expired or missing session (401) sends the user to /login"
\* (auth.interceptor.ts): a screen does not stay open without a session, if
\* requests are not lost for ever.
EndedLeads ==
    <>[][~Losing]_vars =>
      \A t \in Tabs : page[t] = "app" /\ jar \notin live ~> page[t] # "app" \/ jar \in live

=============================================================================
