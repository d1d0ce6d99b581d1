--------------------------- MODULE BrowserProofs ----------------------------
(***************************************************************************)
(* What the browser shows of the server: theorems about who it thinks is   *)
(* signed in (module Client), its one connection to the live stream (module*)
(* LiveStream) and the block state of an IP (module IpPanel), for any users,*)
(* tabs, sessions, sockets and IPs.  The three share no state.             *)
(***************************************************************************)
EXTENDS Client, LiveStream, IpPanel, TLAPS, FiniteSetTheorems

-----------------------------------------------------------------------------
(* Client *)

\* The answer to a logout deletes no cookie that counts.
Harmless == jar \notin live \ crossed

\* What a call on its way says: a logout was sent with the cookie the browser
\* still has, unless that does not count; an answer names a session that was
\* opened, or the user of the session it was asked with.
Good(c) ==
    /\ c \in Call
    /\ c.kind \in {"load", "guard", "poll", "password"} => c.tab \in Tabs
    /\ c.stage = "sent" =>
         /\ c.kind = "login" => c.user \in Users
         /\ c.kind = "logout" => c.cookie = jar \/ Harmless
    /\ c.stage = "answered" =>
         /\ c.kind \in {"login", "password"} /\ c.result # None => c.result \in DOMAIN owner
         /\ c.kind \in {"load", "guard"} /\ c.result # None
              => c.cookie \in DOMAIN owner /\ c.result = owner[c.cookie]
         /\ c.kind = "logout" => Harmless

AllGood(set) == \A c \in set : Good(c)

StateTypes ==
    /\ jar \in DOMAIN owner \cup {NoCookie}
    /\ owner \in Seq(Users) /\ Len(owner) <= MaxSessions
    /\ live \subseteq DOMAIN owner
    /\ seen \in [Tabs -> Users \cup {None}]
    /\ page \in [Tabs -> {"blank", "login", "error", "app"}]
    /\ apart \subseteq Tabs
    /\ crossed \subseteq DOMAIN owner

AppInv == \A t \in Tabs : page[t] = "app" => seen[t] # None

Loading(t) == \E c \in calls : c.tab = t /\ c.kind = "load" /\ c.heard

\* A tab that knows a user knows whose cookie the browser has, unless it is apart
\* or about to ask.
SeenInv ==
    \A t \in Tabs \ apart :
      seen[t] # None /\ jar \in live /\ ~Loading(t) => seen[t] = owner[jar]

ClientInv == StateTypes /\ AllGood(calls) /\ AppInv /\ SeenInv

-----------------------------------------------------------------------------

LEMMA OwnerFacts ==
    ASSUME StateTypes
    PROVE  /\ DOMAIN owner = 1..Len(owner) /\ DOMAIN owner \subseteq Cookies /\ Len(owner) \in Nat
           /\ \A s \in DOMAIN owner : owner[s] \in Users /\ s # NoCookie
           /\ jar \in Cookies
  BY ClientAssumption DEF StateTypes, Cookies, NoCookie

LEMMA GoodStays ==
    ASSUME NEW c, Good(c), UNCHANGED <<jar, owner, live, crossed>>
    PROVE  Good(c)'
  BY DEF Good, Harmless

LEMMA UnheardGood ==
    ASSUME NEW c, Good(c)
    PROVE  Good([c EXCEPT !.heard = FALSE, !.form = FALSE])
  BY DEF Good, Call

LEMMA AbortGood ==
    ASSUME NEW set, AllGood(set), NEW kinds, NEW t
    PROVE  /\ AllGood(Abort(set, kinds, t))
           /\ \A c \in set : c.kind \notin kinds \/ c.tab # t => c \in Abort(set, kinds, t)
  BY UnheardGood DEF AllGood, Abort

LEMMA LeaveFormGood ==
    ASSUME NEW set, AllGood(set), NEW t
    PROVE  /\ AllGood(LeaveForm(set, t))
           /\ \A c \in set : \E d \in LeaveForm(set, t) : d.tab = c.tab /\ d.kind = c.kind /\ d.heard = c.heard
<1>1. ASSUME NEW c \in set
      PROVE  /\ Good([c EXCEPT !.form = @ /\ c.tab # t])
             /\ \E d \in LeaveForm(set, t) : d.tab = c.tab /\ d.kind = c.kind /\ d.heard = c.heard
  <2>1. c \in Call /\ Good(c)
    BY DEF AllGood, Good
  <2>2. PICK d : d = [c EXCEPT !.form = c.form /\ c.tab # t]
    OBVIOUS
  <2>3. d \in Call
    BY <2>1, <2>2 DEF Call
  <2>4. /\ d.tab = c.tab /\ d.kind = c.kind /\ d.cookie = c.cookie /\ d.user = c.user
        /\ d.stage = c.stage /\ d.result = c.result /\ d.heard = c.heard
    BY <2>1, <2>2 DEF Call
  <2>5. Good(d)
    BY <2>1, <2>3, <2>4 DEF Good
  <2>6. d \in LeaveForm(set, t)
    BY <2>2 DEF LeaveForm
  <2> QED BY <2>2, <2>4, <2>5, <2>6
<1> QED BY <1>1 DEF AllGood, LeaveForm

LEMMA NewGood ==
    ASSUME StateTypes, NEW t \in Tabs \cup {Other}, NEW kind \in EveryKind, NEW user \in Users \cup {None},
           kind = "login" => user \in Users,
           kind \in {"load", "guard", "poll", "password"} => t \in Tabs
    PROVE  Good(New(t, kind, user))
<1>1. NoCookie \in Cookies /\ jar \in Cookies
  BY OwnerFacts, ClientAssumption DEF Cookies, NoCookie
<1>2. New(t, kind, user) \in Call
  BY <1>1 DEF New, Call, EveryKind, Reads
<1>3. /\ New(t, kind, user).kind = kind /\ New(t, kind, user).stage = "sent"
      /\ New(t, kind, user).user = user /\ New(t, kind, user).tab = t
      /\ kind # "login" => New(t, kind, user).cookie = jar
  BY DEF New
<1> QED BY <1>2, <1>3 DEF Good

\* Steps that change no cookie and tell no tab anything.
LEMMA SeenStays ==
    ASSUME StateTypes, SeenInv, jar' = jar,
           \A s \in DOMAIN owner : owner'[s] = owner[s],
           live' \cap DOMAIN owner \subseteq live, NoCookie \notin live',
           \A t \in Tabs \ apart' : seen'[t] # None =>
              t \notin apart /\ seen'[t] = seen[t] /\ (Loading(t) => Loading(t)')
    PROVE  SeenInv'
<1> SUFFICES ASSUME NEW t \in Tabs \ apart', seen'[t] # None, jar' \in live', ~Loading(t)'
             PROVE  seen'[t] = owner'[jar']
  BY DEF SeenInv
<1>1. jar \in DOMAIN owner /\ jar \in live
  BY DEF StateTypes
<1> QED BY <1>1 DEF SeenInv
-----------------------------------------------------------------------------

\* What the user does changes no cookie; a tab that forgets whom it knew shows
\* no screen.
LEMMA UserKeeps ==
    ASSUME ClientInv, UNCHANGED <<jar, owner, live, apart, crossed>>, AllGood(calls'),
           seen' \in [Tabs -> Users \cup {None}],
           page' \in [Tabs -> {"blank", "login", "error", "app"}],
           \A t \in Tabs : page'[t] = "app" => seen'[t] # None,
           \A t \in Tabs : seen'[t] # None => seen'[t] = seen[t] /\ (Loading(t) => Loading(t)')
    PROVE  ClientInv'
<1>1. StateTypes'
  BY DEF ClientInv, StateTypes
<1>2. AllGood(calls)'
  BY GoodStays DEF AllGood
<1>3. SeenInv'
  BY SeenStays, OwnerFacts DEF ClientInv, StateTypes
<1> QED BY <1>1, <1>2, <1>3 DEF ClientInv, AppInv

LEMMA LoadingKept ==
    ASSUME NEW kinds, NEW t, NEW more, calls' = Abort(calls, kinds, t) \cup more, AllGood(calls),
           NEW o, o # t \/ "load" \notin kinds, Loading(o)
    PROVE  Loading(o)'
<1>1. PICK c \in calls : c.tab = o /\ c.kind = "load" /\ c.heard
  BY DEF Loading
<1>2. c \in calls'
  BY <1>1, AbortGood
<1> QED BY <1>1, <1>2 DEF Loading

LEMMA ReloadKeeps ==
    ASSUME ClientInv, NEW t \in Tabs, Reload(t)
    PROVE  ClientInv'
<1>1. /\ seen' = [seen EXCEPT ![t] = None] /\ page' = [page EXCEPT ![t] = "blank"]
      /\ calls' = Abort(calls, EveryKind, t) \cup {New(t, "guard", None)}
      /\ UNCHANGED <<jar, owner, live, apart, crossed>>
  BY DEF Reload, Send, server, history
<1>2. AllGood(calls')
  BY <1>1, AbortGood, NewGood DEF ClientInv, AllGood, EveryKind, Reads
<1>3. \A o \in Tabs \ {t} : Loading(o) => Loading(o)'
  BY <1>1, LoadingKept DEF ClientInv
<1> QED BY <1>1, <1>2, <1>3, UserKeeps DEF ClientInv, StateTypes, AppInv

\* A login page that is left stops no answer.
LEMMA FormLeft ==
    ASSUME NEW set, AllGood(set), NEW t, calls' = LeaveForm(set, t)
    PROVE  /\ AllGood(calls')
           /\ \A c \in set : c.kind = "load" /\ c.heard => Loading(c.tab)'
<1>1. ASSUME NEW c \in set, c.kind = "load", c.heard
      PROVE  Loading(c.tab)'
  <2>1. PICK d \in calls' : d.tab = c.tab /\ d.kind = c.kind /\ d.heard = c.heard
    BY LeaveFormGood
  <2> QED BY <1>1, <2>1 DEF Loading
<1> QED BY <1>1, LeaveFormGood

LEMMA EnterKeeps ==
    ASSUME ClientInv, NEW t \in Tabs, Enter(t)
    PROVE  ClientInv'
<1>1. /\ UNCHANGED <<seen, jar, owner, live, apart, crossed>>
      /\ AllGood(Abort(calls, {"guard"}, t))
      /\ \A c \in calls : c.kind = "load" => c \in Abort(calls, {"guard"}, t)
  BY AbortGood DEF Enter, server, history, ClientInv
<1>2. CASE seen[t] # None
  <2>1. calls' = LeaveForm(Abort(calls, {"guard"}, t), t) /\ page' = [page EXCEPT ![t] = "app"]
    BY <1>2 DEF Enter
  <2>2. AllGood(calls') /\ \A o \in Tabs : Loading(o) => Loading(o)'
    BY <1>1, <2>1, FormLeft DEF Loading
  <2> QED BY <1>1, <1>2, <2>1, <2>2, UserKeeps DEF ClientInv, StateTypes, AppInv
<1>3. CASE seen[t] = None
  <2>1. calls' = Abort(calls, {"guard"}, t) \cup {New(t, "guard", None)} /\ page' = page
    BY <1>3 DEF Enter, Send
  <2>2. AllGood(calls')
    BY <1>1, <2>1, NewGood DEF ClientInv, AllGood, EveryKind, Reads
  <2>3. \A o \in Tabs : Loading(o) => Loading(o)'
    BY <2>1, LoadingKept DEF ClientInv
  <2> QED BY <1>1, <2>1, <2>2, <2>3, UserKeeps DEF ClientInv, StateTypes, AppInv
<1> QED BY <1>2, <1>3

LEMMA OpenLoginKeeps ==
    ASSUME ClientInv, NEW t \in Tabs, OpenLogin(t)
    PROVE  ClientInv'
<1>1. /\ seen' = [seen EXCEPT ![t] = None] /\ page' = [page EXCEPT ![t] = "login"]
      /\ calls' = Abort(calls, EveryKind, t) \cup {}
      /\ UNCHANGED <<jar, owner, live, apart, crossed>>
  BY DEF OpenLogin, server, history
<1>2. AllGood(calls')
  BY <1>1, AbortGood DEF ClientInv, AllGood
<1>3. \A o \in Tabs \ {t} : Loading(o) => Loading(o)'
  BY <1>1, LoadingKept DEF ClientInv
<1> QED BY <1>1, <1>2, <1>3, UserKeeps DEF ClientInv, StateTypes, AppInv

LEMMA LogoutKeeps ==
    ASSUME ClientInv, NEW t \in Tabs, Logout(t)
    PROVE  ClientInv'
<1>1. /\ seen' = [seen EXCEPT ![t] = None] /\ page' = [page EXCEPT ![t] = "login"]
      /\ calls' = Abort(calls, {"poll", "password"}, t) \cup {New(t, "logout", None)}
      /\ UNCHANGED <<jar, owner, live, apart, crossed>>
  BY DEF Logout, LeaveApp, Forget, Send, server, history
<1>2. AllGood(calls')
  BY <1>1, AbortGood, NewGood DEF ClientInv, AllGood, EveryKind, Reads
<1>3. \A o \in Tabs : Loading(o) => Loading(o)'
  BY <1>1, LoadingKept DEF ClientInv
<1> QED BY <1>1, <1>2, <1>3, UserKeeps DEF ClientInv, StateTypes, AppInv

\* A call more is on its way.
LEMMA SendKeeps ==
    ASSUME ClientInv, NEW c, Good(c), calls' = calls \cup {c},
           page' = page \/ (\E t \in Tabs : page' = [page EXCEPT ![t] = "login"]),
           UNCHANGED <<jar, owner, live, seen, apart, crossed>>
    PROVE  ClientInv'
<1>1. AllGood(calls')
  BY DEF ClientInv, AllGood
<1>2. \A o \in Tabs : Loading(o) => Loading(o)'
  BY DEF Loading
<1>3. page' \in [Tabs -> {"blank", "login", "error", "app"}] /\ \A t \in Tabs : page'[t] = "app" => page[t] = "app"
  BY DEF ClientInv, StateTypes
<1> QED BY <1>1, <1>2, <1>3, UserKeeps DEF ClientInv, StateTypes, AppInv

LEMMA SubmitKeeps ==
    ASSUME ClientInv, NEW t \in Tabs, NEW user \in Users, Submit(t, user)
    PROVE  ClientInv'
  BY SendKeeps, NewGood DEF Submit, Send, server, history, ClientInv, EveryKind, Reads

LEMMA ChangePasswordKeeps ==
    ASSUME ClientInv, NEW t \in Tabs, ChangePassword(t)
    PROVE  ClientInv'
  BY SendKeeps, NewGood DEF ChangePassword, Send, server, history, ClientInv, EveryKind, Reads

LEMMA PollKeeps ==
    ASSUME ClientInv, NEW t \in Tabs, Poll(t)
    PROVE  ClientInv'
  BY SendKeeps, NewGood DEF Poll, server, history, ClientInv, EveryKind, Reads

LEMMA OtherTabKeeps ==
    ASSUME ClientInv, OtherTab
    PROVE  ClientInv'
  BY SendKeeps, NewGood DEF OtherTab, Send, server, history, ClientInv, EveryKind, Reads
-----------------------------------------------------------------------------

\* The server opens sessions under new names only and ends others.
Grows ==
    /\ owner' \in Seq(Users) /\ Len(owner') <= MaxSessions
    /\ DOMAIN owner \subseteq DOMAIN owner' /\ \A s \in DOMAIN owner : owner'[s] = owner[s]
    /\ live' \subseteq DOMAIN owner' /\ live' \cap DOMAIN owner \subseteq live

LEMMA ServerKeeps ==
    ASSUME ClientInv, UNCHANGED <<jar, seen, page, apart, crossed>>, Grows,
           \A c \in calls' : c \in calls \/ Good(c)',
           \A t \in Tabs : Loading(t) => Loading(t)'
    PROVE  ClientInv'
<1> USE DEF Grows
<1>1. StateTypes'
  BY DEF ClientInv, StateTypes
<1>2. NoCookie \notin live'
  BY DEF NoCookie
<1>3. Harmless => Harmless'
  BY <1>2 DEF Harmless, ClientInv, StateTypes
<1>4. ASSUME NEW c \in calls PROVE Good(c)'
  BY <1>3 DEF ClientInv, AllGood, Good
<1>5. AllGood(calls)'
  BY <1>4 DEF AllGood
<1>6. SeenInv'
  BY <1>2, SeenStays DEF ClientInv
<1> QED BY <1>1, <1>5, <1>6 DEF ClientInv, AppInv

LEMMA AnswerKeeps ==
    ASSUME ClientInv, UNCHANGED <<jar, seen, page, apart, crossed>>, Grows,
           NEW c \in calls, NEW a, calls' = (calls \ {c}) \cup {a}, Good(a)',
           a.kind = c.kind, a.tab = c.tab, a.heard = c.heard
    PROVE  ClientInv'
<1>1. \A d \in calls' : d \in calls \/ Good(d)'
  OBVIOUS
<1>2. \A t \in Tabs : Loading(t) => Loading(t)'
  BY DEF Loading
<1> QED BY <1>1, <1>2, ServerKeeps

\* A call that was answered keeps its kind, its tab, whether somebody hears it,
\* and the cookie if the answer is a user.
Answered(c, result) ==
    [c EXCEPT !.stage = "answered", !.result = result, !.user = None,
              !.cookie = IF c.kind \in {"load", "guard"} THEN @ ELSE NoCookie]

LEMMA AnsweredFacts ==
    ASSUME NEW c, Good(c), NEW result \in Users \cup {None} \cup Cookies
    PROVE  /\ Answered(c, result) \in Call
           /\ Answered(c, result).kind = c.kind /\ Answered(c, result).tab = c.tab
           /\ Answered(c, result).heard = c.heard /\ Answered(c, result).stage = "answered"
           /\ Answered(c, result).result = result
           /\ c.kind \in {"load", "guard"} => Answered(c, result).cookie = c.cookie
<1>1. NoCookie \in Cookies
  BY ClientAssumption DEF NoCookie, Cookies
<1> QED BY <1>1 DEF Good, Call, Answered

LEMMA OpenedOwner ==
    ASSUME ClientInv, NEW user \in Users, Open(user)
    PROVE  /\ owner' \in Seq(Users) /\ Len(owner') <= MaxSessions
           /\ Len(owner') \in Cookies /\ Len(owner') \in DOMAIN owner' /\ Len(owner') \notin DOMAIN owner
           /\ DOMAIN owner \subseteq DOMAIN owner' /\ \A s \in DOMAIN owner : owner'[s] = owner[s]
           /\ owner'[Len(owner')] = user
<1>1. owner \in Seq(Users) /\ owner' = Append(owner, user) /\ Len(owner) < MaxSessions
  BY DEF ClientInv, StateTypes, Open
<1>2. Len(owner) \in Nat /\ Len(owner') = Len(owner) + 1
  BY <1>1
<1> QED BY <1>1, <1>2, ClientAssumption DEF Cookies

LEMMA ServeLoginKeeps ==
    ASSUME ClientInv, NEW c \in calls, c.stage = "sent", ServeLogin(c), UNCHANGED <<jar, seen, page, history>>
    PROVE  ClientInv'
<1>1. c.kind = "login" /\ c.user \in Users /\ Good(c) /\ UNCHANGED <<jar, seen, page, apart, crossed>>
  BY DEF ServeLogin, ClientInv, AllGood, Good, history
<1>2. ASSUME Open(c.user), live' = live \cup {Len(owner')}, Answer(c, Len(owner'))
      PROVE  ClientInv'
  <2>1. PICK s : s = Len(owner')
    OBVIOUS
  <2>2. Grows /\ s \in Cookies /\ s \in DOMAIN owner'
    BY <1>1, <1>2, <2>1, OpenedOwner DEF Grows, ClientInv, StateTypes
  <2>3. PICK a : a = Answered(c, s)
    OBVIOUS
  <2>4. calls' = (calls \ {c}) \cup {a}
    BY <1>2, <2>1, <2>3 DEF Answer, Answered
  <2>5. /\ a \in Call /\ a.kind = "login" /\ a.stage = "answered" /\ a.result = s
        /\ a.tab = c.tab /\ a.heard = c.heard
    BY <1>1, <2>2, <2>3, AnsweredFacts
  <2>6. Good(a)'
    BY <2>2, <2>5 DEF Good
  <2> QED BY <1>1, <2>2, <2>4, <2>5, <2>6, AnswerKeeps
<1>3. ASSUME UNCHANGED server, Answer(c, None)
      PROVE  ClientInv'
  <2>1. Grows
    BY <1>3 DEF Grows, server, ClientInv, StateTypes
  <2>2. PICK a : a = Answered(c, None)
    OBVIOUS
  <2>3. calls' = (calls \ {c}) \cup {a}
    BY <1>3, <2>2 DEF Answer, Answered
  <2>4. /\ a \in Call /\ a.kind = "login" /\ a.stage = "answered" /\ a.result = None
        /\ a.tab = c.tab /\ a.heard = c.heard
    BY <1>1, <2>2, AnsweredFacts
  <2>5. Good(a)'
    BY <2>4 DEF Good
  <2> QED BY <1>1, <2>1, <2>3, <2>4, <2>5, AnswerKeeps
<1> QED BY <1>2, <1>3 DEF ServeLogin

LEMMA ServeReadKeeps ==
    ASSUME ClientInv, NEW c \in calls, c.stage = "sent", ServeRead(c), UNCHANGED <<jar, seen, page, history>>
    PROVE  ClientInv'
<1>1. /\ c.kind \in {"load", "guard", "poll"} /\ Good(c)
      /\ UNCHANGED <<jar, owner, live, seen, page, apart, crossed>>
  BY DEF ServeRead, Reads, ClientInv, AllGood, history, server
<1>2. PICK u : u = Whose(c)
  OBVIOUS
<1>3. u \in Users \cup {None} /\ (u # None => c.cookie \in DOMAIN owner /\ u = owner[c.cookie])
  BY <1>2, OwnerFacts DEF Whose, ClientInv, StateTypes
<1>4. PICK a : a = Answered(c, u)
  OBVIOUS
<1>5. calls' = (calls \ {c}) \cup {a}
  BY <1>2, <1>4 DEF ServeRead, Answer, Answered
<1>6. /\ a \in Call /\ a.kind = c.kind /\ a.stage = "answered" /\ a.result = u
      /\ a.tab = c.tab /\ a.heard = c.heard /\ (c.kind \in {"load", "guard"} => a.cookie = c.cookie)
  BY <1>1, <1>3, <1>4, AnsweredFacts
<1>7. Good(a)'
  BY <1>1, <1>3, <1>6 DEF Good
<1>8. Grows
  BY <1>1 DEF Grows, ClientInv, StateTypes
<1> QED BY <1>1, <1>5, <1>6, <1>7, <1>8, AnswerKeeps

LEMMA ServeLogoutKeeps ==
    ASSUME ClientInv, NEW c \in calls, c.stage = "sent", ServeLogout(c), UNCHANGED <<jar, seen, page, history>>
    PROVE  ClientInv'
<1>1. /\ c.kind = "logout" /\ Good(c) /\ (c.cookie = jar \/ Harmless)
      /\ UNCHANGED <<jar, owner, seen, page, apart, crossed>> /\ live' = live \ {c.cookie}
  BY DEF ServeLogout, Revoked, ClientInv, AllGood, Good, history
<1>2. PICK a : a = Answered(c, None)
  OBVIOUS
<1>3. calls' = (calls \ {c}) \cup {a}
  BY <1>2 DEF ServeLogout, Answer, Answered
<1>4. /\ a \in Call /\ a.kind = "logout" /\ a.stage = "answered"
      /\ a.tab = c.tab /\ a.heard = c.heard
  BY <1>1, <1>2, AnsweredFacts
<1>5. Harmless'
  BY <1>1 DEF Harmless
<1>6. Good(a)'
  BY <1>4, <1>5 DEF Good
<1>7. Grows
  BY <1>1 DEF Grows, ClientInv, StateTypes
<1> QED BY <1>1, <1>3, <1>4, <1>6, <1>7, AnswerKeeps

LEMMA ServePasswordKeeps ==
    ASSUME ClientInv, NEW c \in calls, c.stage = "sent", ServePassword(c), UNCHANGED <<jar, seen, page, history>>
    PROVE  ClientInv'
<1>1. c.kind = "password" /\ Good(c) /\ c.tab \in Tabs /\ UNCHANGED <<jar, seen, page, apart, crossed>>
  BY DEF ServePassword, ClientInv, AllGood, Good, history
<1>2. ASSUME c.cookie \in live, Open(owner[c.cookie]),
             live' = {s \in live : owner[s] # owner[c.cookie]} \cup {Len(owner')},
             Answer(c, Len(owner'))
      PROVE  ClientInv'
  <2>1. PICK s : s = Len(owner')
    OBVIOUS
  <2>2. owner[c.cookie] \in Users
    BY <1>2, OwnerFacts DEF ClientInv, StateTypes
  <2>3. Grows /\ s \in Cookies /\ s \in DOMAIN owner'
    BY <1>1, <1>2, <2>1, <2>2, OpenedOwner DEF Grows, ClientInv, StateTypes
  <2>4. PICK a : a = Answered(c, s)
    OBVIOUS
  <2>5. calls' = (calls \ {c}) \cup {a}
    BY <1>2, <2>1, <2>4 DEF Answer, Answered
  <2>6. /\ a \in Call /\ a.kind = "password" /\ a.stage = "answered" /\ a.result = s
        /\ a.tab = c.tab /\ a.heard = c.heard
    BY <1>1, <2>3, <2>4, AnsweredFacts
  <2>7. Good(a)'
    BY <1>1, <2>3, <2>6 DEF Good
  <2> QED BY <1>1, <2>3, <2>5, <2>6, <2>7, AnswerKeeps
<1>3. ASSUME UNCHANGED server, Answer(c, None)
      PROVE  ClientInv'
  <2>1. Grows
    BY <1>3 DEF Grows, server, ClientInv, StateTypes
  <2>2. PICK a : a = Answered(c, None)
    OBVIOUS
  <2>3. calls' = (calls \ {c}) \cup {a}
    BY <1>3, <2>2 DEF Answer, Answered
  <2>4. /\ a \in Call /\ a.kind = "password" /\ a.stage = "answered" /\ a.result = None
        /\ a.tab = c.tab /\ a.heard = c.heard
    BY <1>1, <2>2, AnsweredFacts
  <2>5. Good(a)'
    BY <1>1, <2>4 DEF Good
  <2> QED BY <1>1, <2>1, <2>3, <2>4, <2>5, AnswerKeeps
<1> QED BY <1>2, <1>3 DEF ServePassword

LEMMA EndSessionKeeps ==
    ASSUME ClientInv, NEW s \in live, EndSession(s)
    PROVE  ClientInv'
<1>1. live' = live \ {s} /\ UNCHANGED <<jar, owner, seen, page, calls, apart, crossed>>
  BY DEF EndSession, history
<1>2. Grows /\ \A t \in Tabs : Loading(t) => Loading(t)'
  BY <1>1 DEF Grows, Loading, ClientInv, StateTypes
<1> QED BY <1>1, <1>2, ServerKeeps
-----------------------------------------------------------------------------

\* A cookie that arrives while a logout is on its way counts no more than that
\* logout leaves it.
LEMMA CookieArrives ==
    ASSUME ClientInv, NEW t, NEW s \in DOMAIN owner, SetCookie(t, s), UNCHANGED <<owner, live>>
    PROVE  /\ jar' = s /\ apart' = apart \cup (Tabs \ {t}) /\ crossed' \subseteq DOMAIN owner
           /\ \A c \in calls : Good(c)'
<1>1. /\ jar' = s /\ apart' = apart \cup (Tabs \ {t})
      /\ crossed' = IF \E c \in calls : c.kind = "logout" THEN crossed \cup {s} ELSE crossed
  BY DEF SetCookie
<1>2. ASSUME NEW c \in calls PROVE Good(c)'
  <2>1. c.kind = "logout" => Harmless'
    BY <1>1 DEF Harmless
  <2> QED BY <2>1, <1>1 DEF ClientInv, AllGood, Good
<1> QED BY <1>1, <1>2 DEF ClientInv, StateTypes

LEMMA FailedPage ==
    ASSUME ClientInv, NEW c, SayFailed(c)
    PROVE  /\ page' \in [Tabs -> {"blank", "login", "error", "app"}]
           /\ \A o \in Tabs : page'[o] = "app" => page[o] = "app"
  BY DEF ClientInv, StateTypes, SayFailed

\* A call that no tab waits for to load its user is gone.
LEMMA CallDropped ==
    ASSUME NEW c \in calls, c.kind # "load", calls' = calls \ {c}, ClientInv
    PROVE  AllGood(calls') /\ \A t \in Tabs : Loading(t) => Loading(t)'
  BY DEF Loading, ClientInv, AllGood

LEMMA HearLoginKeeps ==
    ASSUME ClientInv, NEW c \in calls, c.stage = "answered", HearLogin(c), UNCHANGED server
    PROVE  ClientInv'
<1>1. c.kind = "login" /\ Good(c) /\ UNCHANGED <<owner, live, seen>>
  BY DEF HearLogin, ClientInv, AllGood, server
<1>2. CASE c.result = None
  <2>1. calls' = calls \ {c} /\ SayFailed(c) /\ UNCHANGED <<jar, apart, crossed>>
    BY <1>2 DEF HearLogin, history
  <2>2. AllGood(calls') /\ \A t \in Tabs : Loading(t) => Loading(t)'
    BY <1>1, <2>1, CallDropped
  <2> QED BY <1>1, <2>1, <2>2, FailedPage, UserKeeps DEF ClientInv, StateTypes, AppInv
<1>3. CASE c.result # None
  <2>1. c.result \in DOMAIN owner /\ SetCookie(c.tab, c.result) /\ UNCHANGED page
    BY <1>1, <1>3 DEF HearLogin, LoadUser, Good
  <2>2. /\ jar' = c.result /\ apart' = apart \cup (Tabs \ {c.tab}) /\ crossed' \subseteq DOMAIN owner
        /\ \A d \in calls : Good(d)'
    BY <1>1, <2>1, CookieArrives
  <2>3. StateTypes' /\ AppInv'
    BY <1>1, <2>1, <2>2 DEF ClientInv, StateTypes, AppInv
  <2>4. CASE c.tab = Other
    <3>1. calls' = calls \ {c}
      BY <1>3, <2>4 DEF HearLogin
    <3>2. apart' = Tabs
      BY <2>2, <2>4, ClientAssumption DEF ClientInv, StateTypes
    <3> QED BY <2>2, <2>3, <3>1, <3>2 DEF ClientInv, AllGood, SeenInv
  <2>5. CASE c.tab # Other
    <3>1. c.tab \in Tabs
      BY <1>1, <2>5 DEF Good, Call
    <3>2. PICK d : d = Load(c)
      OBVIOUS
    <3>3. calls' = (calls \ {c}) \cup {d}
      BY <1>3, <2>5, <3>2 DEF HearLogin, LoadUser
    <3>4. /\ d \in Call /\ d.kind = "load" /\ d.stage = "sent" /\ d.tab = c.tab /\ d.heard
      BY <1>1, <2>1, <3>1, <3>2, OwnerFacts DEF Load, New, Call, ClientInv, Good
    <3>5. Good(d)'
      BY <3>1, <3>4 DEF Good
    <3>6. AllGood(calls)'
      BY <2>2, <3>3, <3>5 DEF AllGood
    <3>7. Loading(c.tab)'
      BY <3>3, <3>4 DEF Loading
    <3>8. SeenInv'
      BY <2>2, <3>7 DEF SeenInv
    <3> QED BY <2>3, <3>6, <3>8 DEF ClientInv
  <2> QED BY <2>4, <2>5
<1> QED BY <1>2, <1>3

\* Who the tab hears it is, is whose the cookie of its question was.
LEMMA KnownKeeps ==
    ASSUME ClientInv, NEW c \in calls, c.stage = "answered", c.kind \in {"load", "guard"}, c.result # None,
           Known(c), UNCHANGED <<owner, live>>, page' = [page EXCEPT ![c.tab] = "app"],
           AllGood(calls'), \A t \in Tabs \ {c.tab} : Loading(t) => Loading(t)'
    PROVE  ClientInv'
<1>1. /\ c.tab \in Tabs /\ c.cookie \in DOMAIN owner /\ c.result = owner[c.cookie] /\ c.result \in Users
  BY OwnerFacts DEF ClientInv, AllGood, Good
<1>2. /\ seen' = [seen EXCEPT ![c.tab] = c.result] /\ UNCHANGED <<jar, owner, live, crossed>>
      /\ apart' = IF c.cookie = jar THEN apart \ {c.tab} ELSE apart \cup {c.tab}
  BY DEF Known
<1>3. StateTypes' /\ AppInv'
  BY <1>1, <1>2, ClientAssumption DEF ClientInv, StateTypes, AppInv
<1>4. AllGood(calls)'
  BY <1>2, GoodStays DEF AllGood
<1>5. ASSUME NEW t \in Tabs \ apart', seen'[t] # None, jar' \in live', ~Loading(t)'
      PROVE  seen'[t] = owner'[jar']
  <2>1. CASE t = c.tab
    BY <1>1, <1>2, <1>5, <2>1 DEF ClientInv, StateTypes
  <2>2. CASE t # c.tab
    BY <1>2, <1>5, <2>2 DEF ClientInv, StateTypes, SeenInv
  <2> QED BY <2>1, <2>2
<1> QED BY <1>3, <1>4, <1>5 DEF ClientInv, SeenInv

LEMMA HearLoadKeeps ==
    ASSUME ClientInv, NEW c \in calls, c.stage = "answered", HearLoad(c), UNCHANGED server
    PROVE  ClientInv'
<1>1. c.kind = "load" /\ Good(c) /\ c.tab \in Tabs /\ UNCHANGED <<owner, live>>
  BY DEF HearLoad, ClientInv, AllGood, Good, server
<1>2. CASE c.result = None
  <2>1. /\ calls' = calls \ {c} /\ SayFailed(c) /\ apart' = apart \cup {c.tab}
        /\ UNCHANGED <<jar, seen, crossed>>
    BY <1>2 DEF HearLoad
  <2>2. AllGood(calls)'
    BY <1>1, <2>1, GoodStays DEF AllGood, ClientInv
  <2>3. \A t \in Tabs \ {c.tab} : Loading(t) => Loading(t)'
    BY <2>1 DEF Loading
  <2>4. StateTypes' /\ AppInv'
    BY <1>1, <2>1, FailedPage DEF ClientInv, StateTypes, AppInv
  <2>5. SeenInv'
    BY <1>1, <2>1, <2>3 DEF ClientInv, StateTypes, SeenInv
  <2> QED BY <2>2, <2>4, <2>5 DEF ClientInv
<1>3. CASE c.result # None
  <2>1. /\ Known(c) /\ page' = [page EXCEPT ![c.tab] = "app"]
        /\ calls' = LeaveForm(Abort(calls \ {c}, {"guard"}, c.tab), c.tab)
    BY <1>3 DEF HearLoad, Dashboard
  <2>2. AllGood(calls \ {c})
    BY DEF ClientInv, AllGood
  <2>3. /\ AllGood(Abort(calls \ {c}, {"guard"}, c.tab))
        /\ \A d \in calls \ {c} : d.kind = "load" => d \in Abort(calls \ {c}, {"guard"}, c.tab)
    BY <2>2, AbortGood
  <2>4. AllGood(calls') /\ \A t \in Tabs \ {c.tab} : Loading(t) => Loading(t)'
    BY <2>1, <2>3, FormLeft DEF Loading
  <2> QED BY <1>1, <1>3, <2>1, <2>4, KnownKeeps
<1> QED BY <1>2, <1>3

LEMMA HearGuardKeeps ==
    ASSUME ClientInv, NEW c \in calls, c.stage = "answered", HearGuard(c), UNCHANGED server
    PROVE  ClientInv'
<1>1. c.kind = "guard" /\ c.tab \in Tabs /\ UNCHANGED <<owner, live>>
  BY DEF HearGuard, ClientInv, AllGood, Good, server
<1>2. CASE c.result = None
  <2>1. /\ seen' = [seen EXCEPT ![c.tab] = None] /\ page' = [page EXCEPT ![c.tab] = "login"]
        /\ calls' = calls \ {c} /\ UNCHANGED <<jar, apart, crossed>>
    BY <1>2 DEF HearGuard, Forget, history
  <2>2. AllGood(calls') /\ \A t \in Tabs : Loading(t) => Loading(t)'
    BY <1>1, <2>1, CallDropped
  <2> QED BY <1>1, <2>1, <2>2, UserKeeps DEF ClientInv, StateTypes, AppInv
<1>3. CASE c.result # None
  <2>1. Known(c) /\ page' = [page EXCEPT ![c.tab] = "app"] /\ calls' = LeaveForm(calls \ {c}, c.tab)
    BY <1>3 DEF HearGuard
  <2>2. AllGood(calls \ {c})
    BY DEF ClientInv, AllGood
  <2>3. AllGood(calls') /\ \A t \in Tabs : Loading(t) => Loading(t)'
    BY <1>1, <2>1, <2>2, FormLeft DEF Loading
  <2> QED BY <1>1, <1>3, <2>1, <2>3, KnownKeeps
<1> QED BY <1>2, <1>3

LEMMA HearPollKeeps ==
    ASSUME ClientInv, NEW c \in calls, HearPoll(c), UNCHANGED server
    PROVE  ClientInv'
<1>1. c.kind = "poll" /\ c.tab \in Tabs /\ UNCHANGED <<jar, owner, live, seen, apart, crossed>>
  BY DEF HearPoll, ClientInv, AllGood, Good, server, history
<1>2. CASE c.result = None
  <2>1. /\ page' = [page EXCEPT ![c.tab] = "login"]
        /\ calls' = Abort(calls \ {c}, {"poll", "password"}, c.tab)
    BY <1>2 DEF HearPoll, Redirect, LeaveApp
  <2>2. AllGood(calls \ {c})
    BY DEF ClientInv, AllGood
  <2>3. AllGood(calls') /\ \A d \in calls \ {c} : d.kind = "load" => d \in calls'
    BY <2>1, <2>2, AbortGood
  <2>4. \A t \in Tabs : Loading(t) => Loading(t)'
    BY <1>1, <2>3 DEF Loading
  <2> QED BY <1>1, <2>1, <2>3, <2>4, UserKeeps DEF ClientInv, StateTypes, AppInv
<1>3. CASE c.result # None
  <2>1. calls' = calls \ {c} /\ page' = page
    BY <1>3 DEF HearPoll, Redirect
  <2>2. AllGood(calls') /\ \A t \in Tabs : Loading(t) => Loading(t)'
    BY <1>1, <2>1, CallDropped
  <2> QED BY <1>1, <2>1, <2>2, UserKeeps DEF ClientInv, StateTypes, AppInv
<1> QED BY <1>2, <1>3

LEMMA HearLogoutKeeps ==
    ASSUME ClientInv, NEW c \in calls, HearLogout(c), UNCHANGED server
    PROVE  ClientInv'
<1>1. /\ c.kind = "logout" /\ calls' = calls \ {c} /\ jar' = NoCookie
      /\ UNCHANGED <<owner, live, seen, page, apart, crossed>>
  BY DEF HearLogout, server, history
<1>2. jar' \notin live'
  BY <1>1, OwnerFacts DEF ClientInv, StateTypes
<1>3. ASSUME NEW d \in calls PROVE Good(d)'
  BY <1>1, <1>2 DEF ClientInv, AllGood, Good, Harmless
<1> QED BY <1>1, <1>2, <1>3 DEF ClientInv, StateTypes, AllGood, AppInv, SeenInv

LEMMA HearPasswordKeeps ==
    ASSUME ClientInv, NEW c \in calls, c.stage = "answered", HearPassword(c), UNCHANGED server
    PROVE  ClientInv'
<1>1. c.kind = "password" /\ Good(c) /\ c.tab \in Tabs /\ calls' = calls \ {c} /\ UNCHANGED <<owner, live, page>>
  BY DEF HearPassword, ClientInv, AllGood, Good, server
<1>2. AllGood(calls') /\ \A t \in Tabs : Loading(t) => Loading(t)'
  BY <1>1, CallDropped
<1>3. CASE c.result = None
  BY <1>1, <1>2, <1>3, UserKeeps DEF HearPassword, history, ClientInv, StateTypes, AppInv
<1>4. CASE c.result # None
  <2>1. c.result \in DOMAIN owner /\ SetCookie(c.tab, c.result) /\ seen' = [seen EXCEPT ![c.tab] = owner[c.result]]
    BY <1>1, <1>4 DEF HearPassword, Good
  <2>2. /\ jar' = c.result /\ apart' = apart \cup (Tabs \ {c.tab}) /\ crossed' \subseteq DOMAIN owner
        /\ \A d \in calls : Good(d)'
    BY <1>1, <2>1, CookieArrives
  <2>3. owner[c.result] \in Users /\ owner[c.result] # None
    BY <2>1, OwnerFacts, ClientAssumption DEF ClientInv
  <2>4. StateTypes' /\ AppInv'
    BY <1>1, <2>1, <2>2, <2>3 DEF ClientInv, StateTypes, AppInv
  <2>5. SeenInv'
    BY <1>1, <2>1, <2>2 DEF ClientInv, StateTypes, SeenInv
  <2> QED BY <1>1, <2>2, <2>4, <2>5 DEF ClientInv, AllGood
<1> QED BY <1>3, <1>4

LEMMA LoseKeeps ==
    ASSUME ClientInv, NEW c \in calls, Lose(c)
    PROVE  ClientInv'
<1>1. /\ calls' = calls \ {c} /\ UNCHANGED <<jar, owner, live, crossed>> /\ Good(c)
      /\ apart' = IF c.kind = "load" THEN apart \cup {c.tab} ELSE apart
  BY DEF Lose, server, ClientInv, AllGood
<1>2. /\ seen' \in [Tabs -> Users \cup {None}]
      /\ page' \in [Tabs -> {"blank", "login", "error", "app"}]
      /\ \A t \in Tabs : page'[t] = "app" => seen'[t] # None
      /\ \A t \in Tabs : seen'[t] # None => seen'[t] = seen[t]
  <2>1. CASE c.kind = "guard"
    <3>1. seen' = [seen EXCEPT ![c.tab] = None] /\ page' = [page EXCEPT ![c.tab] = "login"]
      BY <2>1 DEF Lose, Forget
    <3> QED BY <3>1 DEF ClientInv, StateTypes, AppInv
  <2>2. CASE c.kind \in {"login", "load"} /\ c.heard
    <3>1. SayFailed(c) /\ seen' = seen
      BY <2>2 DEF Lose
    <3> QED BY <3>1, FailedPage DEF ClientInv, StateTypes, AppInv
  <2>3. CASE c.kind # "guard" /\ ~(c.kind \in {"login", "load"} /\ c.heard)
    <3>1. seen' = seen /\ page' = page
      BY <2>3 DEF Lose
    <3> QED BY <3>1 DEF ClientInv, StateTypes, AppInv
  <2> QED BY <2>1, <2>2, <2>3
<1>3. CASE c.kind # "load"
  <2>1. AllGood(calls') /\ \A t \in Tabs : Loading(t) => Loading(t)'
    BY <1>1, <1>3, CallDropped
  <2> QED BY <1>1, <1>2, <1>3, <2>1, UserKeeps
<1>4. CASE c.kind = "load"
  <2>1. c.tab \in Tabs /\ apart' = apart \cup {c.tab}
    BY <1>1, <1>4 DEF Good
  <2>2. StateTypes' /\ AppInv'
    BY <1>1, <1>2, <2>1 DEF ClientInv, StateTypes, AppInv
  <2>3. AllGood(calls)'
    BY <1>1, GoodStays DEF AllGood, ClientInv
  <2>4. \A t \in Tabs \ {c.tab} : Loading(t) => Loading(t)'
    BY <1>1 DEF Loading
  <2>5. SeenInv'
    BY <1>1, <1>2, <2>1, <2>4 DEF ClientInv, StateTypes, SeenInv
  <2> QED BY <2>2, <2>3, <2>5 DEF ClientInv
<1> QED BY <1>3, <1>4

LEMMA HearKeeps ==
    ASSUME ClientInv, NEW c \in calls, Hear(c)
    PROVE  ClientInv'
<1>1. c.stage = "answered" /\ UNCHANGED server
  BY DEF Hear
<1>2. CASE c.heard
  BY <1>1, <1>2, HearLoginKeeps, HearLoadKeeps, HearGuardKeeps, HearPollKeeps, HearLogoutKeeps, HearPasswordKeeps
  DEF Hear
<1>3. CASE ~c.heard
  <2>1. calls' = calls \ {c} /\ UNCHANGED <<jar, owner, live, seen, page, apart, crossed>>
    BY <1>3 DEF Hear, Unheard, server, history
  <2>2. AllGood(calls') /\ \A t \in Tabs : Loading(t) => Loading(t)'
    BY <1>3, <2>1 DEF Loading, ClientInv, AllGood
  <2> QED BY <2>1, <2>2, UserKeeps DEF ClientInv, StateTypes, AppInv
<1> QED BY <1>2, <1>3

LEMMA CallServedKeeps ==
    ASSUME ClientInv, NEW c \in calls, Serve(c)
    PROVE  ClientInv'
  BY ServeLoginKeeps, ServeReadKeeps, ServeLogoutKeeps, ServePasswordKeeps DEF Serve

LEMMA ClientStarts == Init => ClientInv
<1> SUFFICES ASSUME Init PROVE ClientInv
  OBVIOUS
<1>1. owner \in Seq(Users) /\ Len(owner) = 0
  BY DEF Init
<1> QED BY <1>1, ClientAssumption DEF Init, ClientInv, StateTypes, AllGood, AppInv, SeenInv

LEMMA ClientStep == ClientInv /\ [Next]_vars => ClientInv'
<1> SUFFICES ASSUME ClientInv, [Next]_vars PROVE ClientInv'
  OBVIOUS
<1>1. CASE UNCHANGED vars
  <2>1. AllGood(calls)'
    BY <1>1, GoodStays DEF vars, history, ClientInv, AllGood
  <2> QED BY <1>1, <2>1 DEF vars, history, ClientInv, StateTypes, AppInv, SeenInv, Loading
<1>2. CASE Next
  BY <1>2, ReloadKeeps, EnterKeeps, OpenLoginKeeps, LogoutKeeps, ChangePasswordKeeps, SubmitKeeps, PollKeeps,
     OtherTabKeeps, CallServedKeeps, HearKeeps, LoseKeeps, EndSessionKeeps
  DEF Next, UserStep
<1> QED BY <1>1, <1>2

\* The type invariant of the tabs, the calls on their way and the server's sessions
\* (auth.ts, auth.interceptor.ts).
THEOREM ClientTyped == Spec => []TypeOK
<1>1. ClientInv => TypeOK
  BY OwnerFacts DEF ClientInv, StateTypes, AllGood, Good, TypeOK
<1> QED BY ClientStarts, ClientStep, <1>1, PTL DEF Spec

\* The user a tab shows is the one its requests run as, whatever answers are late
\* and whatever other tabs do, but for tabs left apart (auth.ts: _user is set by
\* login and by /api/auth/me, the cookie is shared).
THEOREM ShownIsServed == Spec => []ShownIsSession
<1>1. ClientInv => ShownIsSession
  BY DEF ClientInv, AppInv, SeenInv, Loading, ShownIsSession, Awaited
<1> QED BY ClientStarts, ClientStep, <1>1, PTL DEF Spec

\* No answer that comes late takes the cookie of a session the server accepts from
\* the browser, unless a logout sent before that session was on its way
\* (routers/auth.py: logout's delete_cookie).
THEOREM CookieIsKept == Spec => KeepsCookie
<1>1. ClientInv /\ [Next]_vars => [(jar \in live \ crossed) => jar' # NoCookie]_vars
  <2> SUFFICES ASSUME ClientInv, Next, jar \in live \ crossed, jar' = NoCookie PROVE FALSE
    OBVIOUS
  <2>1. jar # NoCookie
    BY OwnerFacts DEF ClientInv, StateTypes
  <2>2. PICK c \in calls : Hear(c) /\ c.stage = "answered" /\ c.heard
    BY <2>1 DEF Next, UserStep, Reload, Enter, OpenLogin, Submit, Logout, ChangePassword, Poll, OtherTab,
                Serve, Hear, Unheard, Lose, EndSession
  <2>3. Good(c)
    BY DEF ClientInv, AllGood
  <2>4. c.kind = "logout" \/ (c.kind \in {"login", "password"} /\ c.result # None /\ jar' = c.result)
    BY <2>1, <2>2 DEF Hear, HearLogin, HearLoad, HearGuard, HearPoll, HearLogout, HearPassword, SetCookie, Known,
                      history
  <2> QED BY <2>2, <2>3, <2>4, OwnerFacts DEF Good, Harmless, ClientInv
<1> QED BY ClientStarts, ClientStep, <1>1, PTL DEF Spec, KeepsCookie

-----------------------------------------------------------------------------
(* LiveStream *)

StreamTypes ==
    /\ socket \in [Sockets -> {"none", "connecting", "open", "closing"}]
    /\ tickets \in Nat /\ timers \in Nat

\* The one connection of a browser whose layout was never left or entered too
\* early is a ticket, a timer or the current socket, one at a time.
OneAtATime ==
    /\ \A s \in Sockets : socket[s] # "none" => s = current /\ tickets = 0 /\ timers = 0
    /\ tickets + timers <= 1
    /\ tickets = 1 => ~polling
    /\ leaked = 0
    /\ status = "connected" => current \in Sockets /\ socket[current] \in {"open", "closing"}

\* Of a layout that was left only a close event is still to come, and it starts
\* no timer.
LeftBehind ==
    /\ mounted => ~destroyed
    /\ ~mounted => /\ Alive = {} /\ ~polling /\ tickets = 0 /\ timers = 0
                   /\ (\E s \in Sockets : socket[s] # "none") => destroyed

StreamInv == StreamTypes /\ (~late => OneAtATime /\ LeftBehind)

LEMMA StreamStarts == StreamInit => StreamInv
  BY DEF StreamInit, StreamInv, StreamTypes, OneAtATime, LeftBehind, Alive

LEMMA StreamStep == StreamInv /\ [StreamNext]_streamVars => StreamInv'
<1> SUFFICES ASSUME StreamInv, [StreamNext]_streamVars PROVE StreamInv'
  OBVIOUS
<1> USE DEF StreamInv, StreamTypes, OneAtATime, LeftBehind, Alive
<1>1. CASE Mount
  <2>1. /\ ~mounted /\ mounted' = TRUE /\ polling' = FALSE /\ destroyed' = FALSE
        /\ status' = "reconnecting" /\ tickets' = tickets + 1
        /\ late' = (late \/ ~Settled) /\ UNCHANGED <<current, leaked, timers>>
        /\ CloseCurrent
    BY <1>1 DEF Mount, Connect
  <2>2. StreamTypes'
    BY <2>1 DEF CloseCurrent
  <2>3. CASE ~late'
    <3>1. Alive = {} /\ tickets = 0 /\ timers = 0 /\ \A s \in Sockets : socket[s] = "none"
      BY <2>1, <2>3 DEF Settled
    <3>2. socket' = socket
      BY <2>1, <3>1 DEF CloseCurrent
    <3>3. ~late
      BY <2>1, <2>3
    <3>4. OneAtATime'
      BY <2>1, <3>1, <3>2, <3>3
    <3>5. LeftBehind'
      BY <2>1, <3>1, <3>2
    <3> QED BY <2>2, <3>4, <3>5
  <2> QED BY <2>2, <2>3
<1>2. CASE Disconnect
  BY <1>2 DEF Disconnect, CloseCurrent, Settled
<1>3. CASE TicketFails
  BY <1>3 DEF TicketFails
<1>4. CASE Reconnect
  BY <1>4 DEF Reconnect, Connect, CloseCurrent
<1>5. ASSUME NEW s \in Sockets, OpenSocket(s) PROVE StreamInv'
  BY <1>5 DEF OpenSocket
<1>6. ASSUME NEW s \in Sockets, Opened(s) PROVE StreamInv'
  BY <1>6 DEF Opened
<1>7. ASSUME NEW s \in Sockets, Dropped(s) PROVE StreamInv'
  BY <1>7 DEF Dropped
<1>8. ASSUME NEW s \in Sockets, Closed(s) PROVE StreamInv'
  BY <1>8 DEF Closed
<1>9. CASE RestartServer
  BY <1>9 DEF RestartServer
<1>10. CASE UNCHANGED browser
  BY <1>10 DEF browser
<1> QED
  BY <1>1, <1>2, <1>3, <1>4, <1>5, <1>6, <1>7, <1>8, <1>9, <1>10
  DEF StreamNext, streamVars, Generate, FeedChanges, SendEvent

LEMMA StreamShape ==
    StreamTypeOK <=>
      /\ mounted \in BOOLEAN /\ destroyed \in BOOLEAN /\ polling \in BOOLEAN
      /\ feed \in BOOLEAN /\ late \in BOOLEAN
      /\ status \in {"connected", "reconnecting", "disconnected"}
      /\ current \in Sockets \cup {NoSocket}
      /\ socket \in [Sockets -> {"none", "connecting", "open", "closing"}]
      /\ tickets \in 0..MaxPending /\ timers \in 0..MaxPending /\ leaked \in 0..MaxPending
      /\ clients \subseteq Sockets
      /\ queue \in [Sockets -> 0..QueueSize]
  BY DEF StreamTypeOK

\* The type invariant of the live stream: no client's queue is longer than
\* CLIENT_QUEUE_SIZE (main._stream_loop).
THEOREM StreamTyped == StreamSpec => []StreamTypeOK
<1>1. StreamInit => StreamTypeOK
  <2> SUFFICES ASSUME StreamInit PROVE StreamTypeOK
    OBVIOUS
  <2>1. 0 \in 0..MaxPending /\ 0 \in 0..QueueSize
    BY StreamAssumption
  <2> HIDE DEF StreamInit
  <2>2. /\ mounted \in BOOLEAN /\ destroyed \in BOOLEAN /\ polling \in BOOLEAN
        /\ feed \in BOOLEAN /\ late \in BOOLEAN
    BY DEF StreamInit
  <2>3. /\ status = "disconnected" /\ current = NoSocket
        /\ socket \in [Sockets -> {"none", "connecting", "open", "closing"}]
        /\ clients \subseteq Sockets
    BY DEF StreamInit
  <2>4. tickets = 0 /\ timers = 0 /\ leaked = 0
    BY DEF StreamInit
  <2>5. queue \in [Sockets -> 0..QueueSize]
    BY <2>1 DEF StreamInit
  <2> QED BY <2>1, <2>2, <2>3, <2>4, <2>5, StreamShape
<1>2. ASSUME StreamTypeOK, [StreamNext]_streamVars PROVE StreamTypeOK'
  <2> USE <1>2, StreamAssumption DEF StreamTypeOK, Alive
  <2>1. CASE Mount
    <3>1. /\ mounted' = TRUE /\ polling' = FALSE /\ destroyed' = FALSE /\ status' = "reconnecting"
          /\ tickets' = tickets + 1 /\ tickets < MaxPending /\ late' = (late \/ ~Settled)
          /\ UNCHANGED <<current, leaked, timers, clients, queue, feed>> /\ CloseCurrent
      BY <2>1 DEF Mount, Connect, streamServer
    <3>2. socket' \in [Sockets -> {"none", "connecting", "open", "closing"}]
      BY <3>1 DEF CloseCurrent
    <3>3. late' \in BOOLEAN
      BY <3>1
    <3>4. tickets' \in 0..MaxPending
      BY <3>1
    <3> QED BY <3>1, <3>2, <3>3, <3>4
  <2>2. CASE Disconnect
    BY <2>2 DEF Disconnect, CloseCurrent, streamServer
  <2>3. CASE TicketFails
    BY <2>3 DEF TicketFails, streamServer
  <2>4. CASE Reconnect
    <3>1. /\ polling' = FALSE /\ destroyed' = FALSE /\ status' = "reconnecting"
          /\ tickets' = tickets + 1 /\ tickets < MaxPending /\ timers > 0 /\ timers' = timers - 1
          /\ UNCHANGED <<mounted, late, current, leaked, clients, queue, feed>> /\ CloseCurrent
      BY <2>4 DEF Reconnect, Connect, streamServer
    <3>2. socket' \in [Sockets -> {"none", "connecting", "open", "closing"}]
      BY <3>1 DEF CloseCurrent
    <3>3. tickets' \in 0..MaxPending /\ timers' \in 0..MaxPending
      BY <3>1
    <3> QED BY <3>1, <3>2, <3>3
  <2>5. ASSUME NEW s \in Sockets, OpenSocket(s) PROVE StreamTypeOK'
    BY <2>5 DEF OpenSocket, streamServer
  <2>6. ASSUME NEW s \in Sockets, Opened(s) PROVE StreamTypeOK'
    BY <2>6 DEF Opened
  <2>7. ASSUME NEW s \in Sockets, Dropped(s) PROVE StreamTypeOK'
    BY <2>7 DEF Dropped, streamServer
  <2>8. ASSUME NEW s \in Sockets, Closed(s) PROVE StreamTypeOK'
    BY <2>8 DEF Closed, streamServer
  <2>9. CASE Generate
    BY <2>9 DEF Generate, browser
  <2>10. ASSUME NEW s \in Sockets, SendEvent(s) PROVE StreamTypeOK'
    BY <2>10 DEF SendEvent, browser
  <2>11. CASE FeedChanges
    BY <2>11 DEF FeedChanges, browser
  <2>12. CASE RestartServer
    BY <2>12 DEF RestartServer
  <2>13. CASE UNCHANGED streamVars
    BY <2>13 DEF streamVars, streamServer, browser
  <2> QED
    BY <2>1, <2>2, <2>3, <2>4, <2>5, <2>6, <2>7, <2>8, <2>9, <2>10, <2>11, <2>12, <2>13 DEF StreamNext
<1> QED BY <1>1, <1>2, PTL DEF StreamSpec

\* A browser never has two connections to the live stream, under way or open, and
\* polls once, unless the layout was left or entered too early
\* (ThreatsService.connect).
THEOREM FedOnce == StreamSpec => []OneFeed
<1>1. StreamInv => OneFeed
  <2> SUFFICES ASSUME StreamTypes, OneAtATime, ~late PROVE OneFeed
    BY DEF StreamInv, OneFeed
  <2>1. CASE Alive = {}
    BY <2>1, FS_EmptySet DEF OneFeed, OneAtATime, StreamTypes
  <2>2. CASE Alive # {}
    <3>1. Alive = {current} /\ tickets = 0 /\ timers = 0
      BY <2>2 DEF Alive, OneAtATime
    <3>2. Cardinality(Alive) = 1
      BY <3>1, FS_Singleton
    <3> QED BY <3>1, <3>2 DEF OneFeed, OneAtATime
  <2> QED BY <2>1, <2>2
<1> QED BY StreamStarts, StreamStep, <1>1, PTL DEF StreamSpec

\* With the same exception, nothing of the live stream goes on, or comes back, once
\* the layout was left (ThreatsService.disconnect).
THEOREM QuietOnceLeft == StreamSpec => []QuietAfterLogout
<1>1. StreamInv => QuietAfterLogout
  BY DEF StreamInv, LeftBehind, QuietAfterLogout
<1> QED BY StreamStarts, StreamStep, <1>1, PTL DEF StreamSpec

-----------------------------------------------------------------------------
(* IpPanel *)

AboutBlock(c) == Target(c.kind) = "block"

WellFormed(c) ==
    /\ c = [kind |-> c.kind, ip |-> c.ip, n |-> c.n, phase |-> c.phase, got |-> c.got]
    /\ c.kind \in Kinds \cup Writes /\ c.n \in Nat /\ c.ip \in IPs
    /\ AboutBlock(c) => c.phase # "service"

\* Without a request about it the panel is right; with one it was right when that
\* was sent, or is once that arrives.
Right(c) ==
    /\ c.ip = ip /\ c.n # 0
    /\ c.phase = "sent" /\ c.kind # "block" => (IsBlocked <=> ip \in blocked)
    /\ c.phase = "failed" => (IsBlocked <=> ip \in blocked)
    /\ c.phase = "answered" => c.got = (IF ip \in blocked THEN "yes" ELSE "no")

BlockInv ==
    ip # Nothing /\ ~doubt =>
      /\ \A c, d \in requests : AboutBlock(c) /\ AboutBlock(d) => c = d
      /\ \A c \in requests : AboutBlock(c) => Right(c)
      /\ (\A c \in requests : ~AboutBlock(c)) => (IsBlocked <=> ip \in blocked)

PanelTypes ==
    /\ \A c \in requests : WellFormed(c)
    /\ followed \subseteq Kinds /\ selects \in Nat
    /\ panel = [k \in Kinds |-> panel[k]]
    /\ ip \in IPs \cup {Nothing} /\ (ip # Nothing => selects # 0)
    /\ "block" \notin followed => blocked = {} /\ \A c \in requests : ~AboutBlock(c)

PanelInv == PanelTypes /\ BlockInv

LEMMA PanelStarts == PanelInit => PanelInv
<1> SUFFICES ASSUME PanelInit PROVE PanelInv
  OBVIOUS
<1>1. followed \subseteq Kinds
  BY SlicesAssumption DEF PanelInit
<1>2. panel = [k \in Kinds |-> panel[k]]
  BY DEF PanelInit, Empty
<1>3. /\ ip = Nothing /\ requests = {} /\ blocked = {} /\ selects = 0
  BY DEF PanelInit
<1> QED BY <1>1, <1>2, <1>3 DEF PanelInv, PanelTypes, BlockInv

LEMMA SelectKeeps ==
    ASSUME PanelInv, NEW i \in IPs, Select(i)
    PROVE  PanelInv'
<1>1. PICK asked :
         /\ asked \subseteq followed /\ ("block" \in followed => "block" \in asked)
         /\ ip' = i /\ selects' = selects + 1
         /\ panel' = [Empty EXCEPT !["summary"] = summaryCache[i]]
         /\ requests' = requests \cup {Request(k, i, selects') : k \in asked}
         /\ doubt' = (ToBlock # {})
         /\ UNCHANGED <<blocked, followed>>
  BY DEF Select, panelServer
<1>2. \A k \in Kinds : Target(k) = "block" <=> k = "block"
  BY DEF Target, Kinds, Lookups
<1>3. panel' = [k \in Kinds |-> panel'[k]] /\ panel'["block"] = Nothing /\ "block" \in Kinds
  BY <1>1 DEF Empty, Kinds, Lookups
<1>4. PICK n : n = selects' /\ n \in Nat /\ n # 0
  BY <1>1 DEF PanelInv, PanelTypes
<1>5. \A k \in Kinds : /\ Request(k, i, n).kind = k /\ Request(k, i, n).phase = "sent"
                       /\ Request(k, i, n).ip = i /\ Request(k, i, n).n = n
                       /\ WellFormed(Request(k, i, n))
  BY <1>4 DEF Request, WellFormed
<1>6. \A c \in requests' : c \in requests \/ \E k \in asked : c = Request(k, i, n)
  BY <1>1, <1>4
<1>7. PanelTypes'
  <2>1. \A c \in requests' : WellFormed(c)'
    BY <1>1, <1>5, <1>6 DEF PanelInv, PanelTypes, WellFormed, AboutBlock
  <2>2. ASSUME "block" \notin followed', NEW c \in requests' PROVE ~AboutBlock(c)'
    BY <1>1, <1>2, <1>5, <1>6, <2>2 DEF PanelInv, PanelTypes, AboutBlock
  <2> QED BY <1>1, <1>3, <2>1, <2>2 DEF PanelInv, PanelTypes
<1>8. BlockInv'
  <2> SUFFICES ASSUME ~doubt' PROVE BlockInv'
    BY DEF BlockInv
  <2>1. \A c \in requests : ~AboutBlock(c)
    BY <1>1 DEF ToBlock, AboutBlock
  <2>2. \A c \in requests' : AboutBlock(c) => "block" \in asked /\ c = Request("block", i, n)
    BY <1>1, <1>2, <1>5, <1>6, <2>1 DEF AboutBlock, PanelInv, PanelTypes
  <2>3. ~IsBlocked'
    BY <1>3 DEF IsBlocked
  <2>4. (\A c \in requests' : ~AboutBlock(c)) => ip' \notin blocked'
    <3>1. CASE "block" \in followed
      <4>1. Request("block", i, n) \in requests'
        BY <1>1, <1>4, <3>1
      <4> QED BY <1>2, <1>3, <1>5, <4>1 DEF AboutBlock
    <3>2. CASE "block" \notin followed
      BY <1>1, <3>2 DEF PanelInv, PanelTypes
    <3> QED BY <3>1, <3>2
  <2>5. \A c \in requests' : AboutBlock(c) => Right(c)'
    BY <1>1, <1>3, <1>4, <1>5, <2>2 DEF Right
  <2> QED BY <2>2, <2>3, <2>4, <2>5 DEF BlockInv, AboutBlock
<1> QED BY <1>7, <1>8 DEF PanelInv

\* Steps that leave the block state and the requests about it alone, or end what
\* is known of it.
LEMMA Elsewhere ==
    ASSUME PanelInv, PanelTypes',
           \/ ip' = Nothing \/ doubt'
           \/ /\ UNCHANGED <<ip, blocked>> /\ panel'["block"] = panel["block"] /\ (doubt => doubt')
              /\ \A c : AboutBlock(c) => (c \in requests' <=> c \in requests)
    PROVE  PanelInv'
<1>1. CASE ip' = Nothing \/ doubt'
  BY <1>1 DEF PanelInv, BlockInv
<1>2. ASSUME ip' # Nothing, ~doubt', UNCHANGED <<ip, blocked>>, panel'["block"] = panel["block"], doubt => doubt',
             \A c : AboutBlock(c) => (c \in requests' <=> c \in requests)
      PROVE  BlockInv'
  <2>1. IsBlocked' <=> IsBlocked
    BY <1>2 DEF IsBlocked
  <2>2. \A c : Right(c) => Right(c)'
    BY <1>2, <2>1 DEF Right
  <2> QED BY <1>2, <2>1, <2>2 DEF PanelInv, BlockInv, AboutBlock
<1> QED BY <1>1, <1>2 DEF PanelInv

LEMMA WellFormedStays ==
    ASSUME NEW c, WellFormed(c)
    PROVE  WellFormed(c)'
  BY DEF WellFormed, AboutBlock

Moved(c, phase, got) == [c EXCEPT !.phase = phase, !.got = got]

LEMMA MovedFacts ==
    ASSUME NEW c, WellFormed(c), NEW phase, NEW got, AboutBlock(c) => phase # "service"
    PROVE  /\ WellFormed(Moved(c, phase, got)) /\ (AboutBlock(Moved(c, phase, got)) <=> AboutBlock(c))
           /\ Moved(c, phase, got).ip = c.ip /\ Moved(c, phase, got).n = c.n
           /\ Moved(c, phase, got).kind = c.kind /\ Moved(c, phase, got).phase = phase
           /\ Moved(c, phase, got).got = got
<1>1. Moved(c, phase, got) = [kind |-> c.kind, ip |-> c.ip, n |-> c.n, phase |-> phase, got |-> got]
  <2>1. PICK k, i, n, p, g : c = [kind |-> k, ip |-> i, n |-> n, phase |-> p, got |-> g]
    BY DEF WellFormed
  <2>2. Moved(c, phase, got) = [kind |-> k, ip |-> i, n |-> n, phase |-> phase, got |-> got]
    <3>1. PICK m : m = [c EXCEPT !.phase = phase]
      OBVIOUS
    <3>2. m = [kind |-> k, ip |-> i, n |-> n, phase |-> phase, got |-> g]
      BY <2>1, <3>1
    <3>3. [m EXCEPT !.got = got] = [kind |-> k, ip |-> i, n |-> n, phase |-> phase, got |-> got]
      BY <3>2
    <3>4. Moved(c, phase, got) = [m EXCEPT !.got = got]
      BY <3>1, Zenon DEF Moved
    <3> QED BY <3>3, <3>4
  <2> QED BY <2>1, <2>2
<1>2. PICK d : d = [kind |-> c.kind, ip |-> c.ip, n |-> c.n, phase |-> phase, got |-> got]
  OBVIOUS
<1>3. d.kind = c.kind /\ d.ip = c.ip /\ d.n = c.n /\ d.phase = phase /\ d.got = got
  BY <1>2
<1>4. AboutBlock(d) <=> AboutBlock(c)
  BY <1>3 DEF AboutBlock
<1>5. WellFormed(d)
  BY <1>2, <1>3, <1>4 DEF WellFormed
<1> QED BY <1>1, <1>2, <1>3, <1>4, <1>5

\* A request is served, or fails.
LEMMA MovedTypes ==
    ASSUME PanelInv, NEW c \in requests, NEW d, requests' = (requests \ {c}) \cup {d}, WellFormed(d),
           AboutBlock(d) <=> AboutBlock(c), UNCHANGED <<followed, selects, panel, ip>>,
           blocked' = blocked \/ AboutBlock(c)
    PROVE  PanelTypes'
<1>1. ASSUME NEW e \in requests' PROVE WellFormed(e)'
  BY WellFormedStays DEF PanelInv, PanelTypes
<1>2. ASSUME "block" \notin followed' PROVE blocked' = {} /\ \A e \in requests' : ~AboutBlock(e)'
  BY <1>2 DEF PanelInv, PanelTypes, AboutBlock
<1> QED BY <1>1, <1>2 DEF PanelInv, PanelTypes

\* One about something else.
LEMMA OtherMoved ==
    ASSUME PanelInv, NEW c \in requests, NEW phase, NEW got, Becomes(c, phase, got), ~AboutBlock(c),
           UNCHANGED <<followed, selects, panel, ip, blocked>>, doubt => doubt'
    PROVE  PanelInv'
<1>1. WellFormed(c)
  BY DEF PanelInv, PanelTypes
<1>2. PICK d : d = Moved(c, phase, got)
  OBVIOUS
<1>3. requests' = (requests \ {c}) \cup {d}
  BY <1>2 DEF Becomes, Moved
<1>4. WellFormed(d) /\ ~AboutBlock(d)
  BY <1>1, <1>2, MovedFacts
<1>5. PanelTypes'
  BY <1>3, <1>4, MovedTypes
<1>6. \A e : AboutBlock(e) => (e \in requests' <=> e \in requests)
  BY <1>3, <1>4
<1> QED BY <1>5, <1>6, Elsewhere

\* One about the block: what it brings is what holds when it has been served.
LEMMA BlockMoved ==
    ASSUME PanelInv, NEW c \in requests, NEW phase, NEW got, Becomes(c, phase, got), AboutBlock(c),
           phase # "service", UNCHANGED <<followed, selects, panel, ip, doubt>>,
           ip # Nothing /\ ~doubt /\ Right(c) =>
             /\ phase \in {"answered", "failed"}
             /\ phase = "failed" => (IsBlocked' <=> ip \in blocked')
             /\ phase = "answered" => got = (IF ip \in blocked' THEN "yes" ELSE "no")
    PROVE  PanelInv'
<1>1. WellFormed(c)
  BY DEF PanelInv, PanelTypes
<1>2. PICK d : d = Moved(c, phase, got)
  OBVIOUS
<1>3. requests' = (requests \ {c}) \cup {d}
  BY <1>2 DEF Becomes, Moved
<1>4. /\ WellFormed(d) /\ AboutBlock(d) /\ d.ip = c.ip /\ d.n = c.n /\ d.kind = c.kind
      /\ d.phase = phase /\ d.got = got
  BY <1>1, <1>2, MovedFacts
<1>5. PanelTypes'
  BY <1>3, <1>4, MovedTypes
<1>6. ASSUME ip # Nothing, ~doubt PROVE BlockInv'
  <2>1. Right(c) /\ \A e \in requests : AboutBlock(e) => e = c
    BY <1>6 DEF PanelInv, BlockInv
  <2>2. Right(d)'
    BY <1>4, <1>6, <2>1 DEF Right
  <2>3. \A e \in requests' : AboutBlock(e) => e = d
    BY <1>3, <2>1
  <2>4. ~(\A e \in requests' : ~AboutBlock(e))
    BY <1>3, <1>4
  <2> QED BY <2>2, <2>3, <2>4 DEF BlockInv, AboutBlock
<1> QED BY <1>5, <1>6 DEF PanelInv, BlockInv

LEMMA RequestServedKeeps ==
    ASSUME PanelInv, NEW c \in requests, ServeRequest(c)
    PROVE  PanelInv'
<1>1. /\ c.phase = "sent" /\ UNCHANGED <<followed, selects, panel, ip, doubt>>
  BY DEF ServeRequest, panelBrowser
<1>2. WellFormed(c)
  BY DEF PanelInv, PanelTypes
<1>3. CASE LookUp(c)
  <2>1. PICK phase, got : Becomes(c, phase, got) /\ blocked' = blocked /\ c.kind \in Lookups
    BY <1>3 DEF LookUp, AnswerBare
  <2>2. ~AboutBlock(c)
    BY <2>1 DEF AboutBlock, Target, Lookups
  <2> QED BY <1>1, <2>1, <2>2, OtherMoved
<1>4. CASE c.kind \in {"related", "case"} /\ (\E got : Becomes(c, "answered", got)) /\ UNCHANGED blocked
  BY <1>1, <1>4, OtherMoved DEF AboutBlock, Target
<1>5. CASE c.kind = "block" /\ Becomes(c, "answered", IF c.ip \in blocked THEN "yes" ELSE "no") /\ UNCHANGED blocked
  BY <1>1, <1>5, BlockMoved DEF AboutBlock, Target, Right
<1>6. CASE c.kind = "blockOn" /\ BlockIp(c)
  <2>1. AboutBlock(c)
    BY <1>6 DEF AboutBlock, Target
  <2>2. CASE blocked' = blocked \cup {c.ip} /\ Becomes(c, "answered", "yes")
    BY <1>1, <2>1, <2>2, BlockMoved DEF Right
  <2>3. CASE Becomes(c, "failed", Nothing) /\ UNCHANGED blocked
    <3>1. IsBlocked' <=> IsBlocked
      BY <1>1 DEF IsBlocked
    <3> QED BY <1>1, <1>6, <2>1, <2>3, <3>1, BlockMoved DEF Right
  <2> QED BY <1>6, <2>2, <2>3 DEF BlockIp
<1>7. CASE c.kind = "blockOff" /\ blocked' = blocked \ {c.ip} /\ Becomes(c, "answered", "no")
  BY <1>1, <1>7, BlockMoved DEF AboutBlock, Target, Right
<1>8. CASE c.kind = "open" /\ Becomes(c, "answered", "yes") /\ UNCHANGED blocked
  BY <1>1, <1>8, OtherMoved DEF AboutBlock, Target
<1> QED BY <1>3, <1>4, <1>5, <1>6, <1>7, <1>8 DEF ServeRequest

LEMMA ServiceEndsKeeps ==
    ASSUME PanelInv, NEW c \in requests, ServiceEnds(c)
    PROVE  PanelInv'
<1>1. ~AboutBlock(c)
  BY DEF ServiceEnds, PanelInv, PanelTypes, WellFormed
<1>2. PICK phase, got : Becomes(c, phase, got)
  BY DEF ServiceEnds, AnswerBare
<1> QED BY <1>1, <1>2, OtherMoved DEF ServiceEnds, panelBrowser

LEMMA RequestLostKeeps ==
    ASSUME PanelInv, NEW c \in requests, Lost(c)
    PROVE  PanelInv'
<1>1. /\ Becomes(c, "failed", Nothing) /\ doubt' = (doubt \/ AboutBlock(c))
      /\ UNCHANGED <<blocked, followed, selects, panel, ip>>
  BY DEF Lost, AboutBlock, panelBrowser
<1>2. CASE ~AboutBlock(c)
  BY <1>1, <1>2, OtherMoved
<1>3. CASE AboutBlock(c)
  <2>1. PICK d : d = Moved(c, "failed", Nothing)
    OBVIOUS
  <2>2. requests' = (requests \ {c}) \cup {d}
    BY <1>1, <2>1 DEF Becomes, Moved
  <2>3. WellFormed(d) /\ AboutBlock(d)
    BY <1>3, <2>1, MovedFacts DEF PanelInv, PanelTypes
  <2>4. PanelTypes'
    BY <1>1, <1>3, <2>2, <2>3, MovedTypes
  <2> QED BY <1>1, <1>3, <2>4, Elsewhere
<1> QED BY <1>2, <1>3

LEMMA CloseKeeps ==
    ASSUME PanelInv, Close
    PROVE  PanelInv'
<1>1. /\ ip' = Nothing /\ UNCHANGED <<blocked, followed, selects, panel, requests>>
  BY DEF Close, panelServer
<1>2. \A c \in requests' : WellFormed(c)'
  BY <1>1, WellFormedStays DEF PanelInv, PanelTypes
<1>3. PanelTypes'
  BY <1>1, <1>2 DEF PanelInv, PanelTypes, AboutBlock
<1> QED BY <1>1, <1>3, Elsewhere

Orphan(c) == [c EXCEPT !.n = 0]

LEMMA OrphanFacts ==
    ASSUME NEW c, WellFormed(c)
    PROVE  WellFormed(Orphan(c)) /\ (AboutBlock(Orphan(c)) <=> AboutBlock(c))
<1>1. Orphan(c) = [kind |-> c.kind, ip |-> c.ip, n |-> 0, phase |-> c.phase, got |-> c.got]
  BY DEF Orphan, WellFormed
<1>2. PICK d : d = [kind |-> c.kind, ip |-> c.ip, n |-> 0, phase |-> c.phase, got |-> c.got]
  OBVIOUS
<1>3. d.kind = c.kind /\ d.ip = c.ip /\ d.n = 0 /\ d.phase = c.phase /\ d.got = c.got
  BY <1>2
<1>4. AboutBlock(d) <=> AboutBlock(c)
  BY <1>3 DEF AboutBlock
<1>5. WellFormed(d)
  BY <1>2, <1>3, <1>4 DEF WellFormed
<1> QED BY <1>1, <1>2, <1>4, <1>5

\* The panel goes; what it sent is left without a panel.
LEMMA LeaveKeeps ==
    ASSUME PanelInv, ip' = Nothing, panel' = Empty, UNCHANGED <<followed, selects, blocked>>,
           \A d \in requests' : \E c \in requests : d = Orphan(c)
    PROVE  PanelInv'
<1>1. ASSUME NEW d \in requests' PROVE WellFormed(d)' /\ ("block" \notin followed => ~AboutBlock(d))
  <2>1. PICK c \in requests : d = Orphan(c)
    OBVIOUS
  <2>2. WellFormed(c) /\ ("block" \notin followed => ~AboutBlock(c))
    BY DEF PanelInv, PanelTypes
  <2> QED BY <2>1, <2>2, OrphanFacts, WellFormedStays
<1>2. PanelTypes'
  BY <1>1 DEF PanelInv, PanelTypes, AboutBlock, Empty
<1> QED BY <1>2, Elsewhere

\* A request of the panel for its ip joins the others.
LEMMA Joins ==
    ASSUME PanelInv, NEW k \in Kinds \cup Writes, ip # Nothing,
           requests' = requests \cup {Request(k, ip, selects)},
           "block" \notin followed => Target(k) # "block",
           UNCHANGED <<blocked, followed, selects, panel, ip>>
    PROVE  /\ PanelTypes'
           /\ \A e \in requests' : e \in requests \/ (e.kind = k /\ e.phase = "sent" /\ e.ip = ip /\ e.n = selects)
<1>1. PICK d : d = Request(k, ip, selects)
  OBVIOUS
<1>2. d.kind = k /\ d.phase = "sent" /\ d.ip = ip /\ d.n = selects
  BY <1>1 DEF Request
<1>3. WellFormed(d)
  BY <1>1, <1>2 DEF WellFormed, Request, PanelInv, PanelTypes, AboutBlock
<1>4. ASSUME NEW e \in requests' PROVE WellFormed(e)'
  BY <1>1, <1>3, WellFormedStays DEF PanelInv, PanelTypes
<1>5. ASSUME "block" \notin followed' PROVE blocked' = {} /\ \A e \in requests' : ~AboutBlock(e)'
  BY <1>1, <1>2, <1>5 DEF PanelInv, PanelTypes, AboutBlock
<1>6. PanelTypes'
  BY <1>4, <1>5 DEF PanelInv, PanelTypes
<1> QED BY <1>1, <1>2, <1>6

LEMMA ToggleKeeps ==
    ASSUME PanelInv, ToggleBlock
    PROVE  PanelInv'
<1>1. PICK k : k = (IF IsBlocked THEN "blockOff" ELSE "blockOn")
  OBVIOUS
<1>2. /\ k \in Writes /\ Target(k) = "block" /\ k # "block"
  BY <1>1 DEF Writes, Target
<1>3. /\ ip # Nothing /\ "block" \in followed
      /\ requests' = requests \cup {Request(k, ip, selects)}
      /\ doubt' = (doubt \/ ToBlock # {})
      /\ UNCHANGED <<blocked, followed, selects, panel, ip>>
  BY <1>1 DEF ToggleBlock, panelServer, panelBrowser
<1>4. /\ PanelTypes'
      /\ \A e \in requests' : e \in requests \/ (e.kind = k /\ e.phase = "sent" /\ e.ip = ip /\ e.n = selects)
  BY <1>2, <1>3, Joins
<1>5. ASSUME ~doubt' PROVE BlockInv'
  <2>1. ~doubt /\ \A e \in requests : ~AboutBlock(e)
    BY <1>3, <1>5 DEF ToBlock, AboutBlock
  <2>2. IsBlocked <=> ip \in blocked
    BY <1>3, <2>1 DEF PanelInv, BlockInv
  <2>3. IsBlocked' <=> ip' \in blocked'
    BY <1>3, <2>2 DEF IsBlocked
  <2>4. PICK d : d = Request(k, ip, selects)
    OBVIOUS
  <2>5. \A e \in requests' : AboutBlock(e) => e = d
    BY <1>3, <2>1, <2>4
  <2>6. d.kind = k /\ d.phase = "sent" /\ d.ip = ip /\ d.n = selects
    BY <2>4 DEF Request
  <2>7. Right(d)'
    BY <1>3, <2>3, <2>6 DEF Right, PanelInv, PanelTypes
  <2> QED BY <2>3, <2>5, <2>7 DEF BlockInv, AboutBlock
<1>6. CASE doubt'
  BY <1>4, <1>6, Elsewhere
<1> QED BY <1>4, <1>5, <1>6 DEF PanelInv

LEMMA CreateKeeps ==
    ASSUME PanelInv, CreateCase
    PROVE  PanelInv'
<1>1. ip # Nothing /\ UNCHANGED <<blocked, followed>>
  BY DEF CreateCase, panelServer
<1>2. CASE LeaveWith(requests)
  <2>1. /\ ip' = Nothing /\ panel' = Empty /\ UNCHANGED selects
        /\ \A d \in requests' : \E c \in requests : d = Orphan(c)
    BY <1>2 DEF LeaveWith, Orphan
  <2> QED BY <1>1, <2>1, LeaveKeeps
<1>3. CASE requests' = requests \cup {Request("open", ip, selects)} /\ UNCHANGED <<panelBrowser, doubt>>
  <2>1. "open" \in Kinds \cup Writes /\ Target("open") # "block" /\ UNCHANGED <<selects, panel, ip>>
    BY <1>3 DEF Writes, Target, panelBrowser
  <2>2. /\ PanelTypes'
        /\ \A e \in requests' : e \in requests
             \/ (e.kind = "open" /\ e.phase = "sent" /\ e.ip = ip /\ e.n = selects)
    BY <1>1, <1>3, <2>1, Joins
  <2>3. \A e : AboutBlock(e) => (e \in requests' <=> e \in requests)
    BY <1>3, <2>1, <2>2 DEF AboutBlock
  <2> QED BY <1>1, <1>3, <2>1, <2>2, <2>3, Elsewhere
<1> QED BY <1>2, <1>3 DEF CreateCase

LEMMA PanelArriveKeeps ==
    ASSUME PanelInv, NEW c \in requests, Arrive(c)
    PROVE  PanelInv'
<1>1. c.phase \in {"answered", "failed"} /\ UNCHANGED <<blocked, followed>> /\ WellFormed(c)
  BY DEF Arrive, panelServer, PanelInv, PanelTypes
<1>2. CASE LeaveWith(requests \ {c})
  <2>1. /\ ip' = Nothing /\ panel' = Empty /\ UNCHANGED selects
        /\ \A d \in requests' : \E e \in requests : d = Orphan(e)
    BY <1>2 DEF LeaveWith, Orphan
  <2> QED BY <1>1, <2>1, LeaveKeeps
<1>3. CASE /\ requests' = requests \ {c} /\ UNCHANGED <<ip, selects, doubt>>
           /\ \/ c.n = 0 /\ UNCHANGED panel
              \/ panel' = IF c.phase = "failed" THEN panel
                          ELSE [panel EXCEPT ![Target(c.kind)] = [of |-> c.ip, val |-> c.got]]
  <2>1. PanelTypes'
    <3>1. \A e \in requests' : WellFormed(e)'
      BY <1>3, WellFormedStays DEF PanelInv, PanelTypes
    <3>2. panel' = [k \in Kinds |-> panel'[k]]
      BY <1>3 DEF PanelInv, PanelTypes
    <3> QED BY <1>1, <1>3, <3>1, <3>2 DEF PanelInv, PanelTypes, AboutBlock
  <2>2. CASE ~AboutBlock(c)
    <3>1. panel'["block"] = panel["block"]
      BY <1>3, <2>2 DEF AboutBlock, PanelInv, PanelTypes, Kinds
    <3>2. \A e : AboutBlock(e) => (e \in requests' <=> e \in requests)
      BY <1>3, <2>2
    <3> QED BY <1>1, <1>3, <2>1, <3>1, <3>2, Elsewhere
  <2>3. CASE AboutBlock(c)
    <3>1. ASSUME ip # Nothing, ~doubt PROVE BlockInv'
      <4>1. Right(c) /\ \A e \in requests : AboutBlock(e) => e = c
        BY <2>3, <3>1 DEF PanelInv, BlockInv
      <4>2. \A e \in requests' : ~AboutBlock(e)
        BY <1>3, <4>1
      <4>3. IsBlocked' <=> ip \in blocked
        <5>1. CASE c.phase = "failed"
          BY <1>3, <4>1, <5>1 DEF Right, IsBlocked
        <5>2. CASE c.phase = "answered"
          <6>1. panel' = [panel EXCEPT !["block"] = [of |-> c.ip, val |-> c.got]]
            BY <1>3, <2>3, <4>1, <5>2 DEF Right, AboutBlock
          <6>2. panel'["block"] = [of |-> c.ip, val |-> c.got]
            BY <6>1 DEF PanelInv, PanelTypes, Kinds, Lookups
          <6>3. PICK shown : shown = [of |-> c.ip, val |-> c.got]
            OBVIOUS
          <6>4. c.got \in {"yes", "no"} /\ (c.got = "yes" <=> ip \in blocked) /\ c.ip \in IPs
            BY <1>1, <4>1, <5>2 DEF Right, WellFormed
          <6>5. shown \in Shown /\ shown.val = c.got
            BY <6>3, <6>4 DEF Shown
          <6>6. shown # Nothing
            BY <6>5, NothingAssumption
          <6> QED BY <6>2, <6>3, <6>4, <6>5, <6>6 DEF IsBlocked
        <5> QED BY <1>1, <5>1, <5>2
      <4> QED BY <1>1, <1>3, <4>2, <4>3 DEF BlockInv, AboutBlock
    <3> QED BY <1>3, <2>1, <3>1 DEF PanelInv, BlockInv
  <2> QED BY <2>2, <2>3
<1> QED BY <1>1, <1>2, <1>3 DEF Arrive, panelBrowser

\* Others change the list and the books.
LEMMA OthersKeep ==
    ASSUME PanelInv, UNCHANGED <<followed, selects, panel, ip, requests>>,
           \/ doubt' /\ "block" \in followed
           \/ UNCHANGED <<blocked, doubt>>
    PROVE  PanelInv'
<1>1. \A c \in requests' : WellFormed(c)'
  BY WellFormedStays DEF PanelInv, PanelTypes
<1>2. PanelTypes'
  BY <1>1 DEF PanelInv, PanelTypes, AboutBlock
<1> QED BY <1>2, Elsewhere

LEMMA RestartKeeps ==
    ASSUME PanelInv, RestartPanelServer
    PROVE  PanelInv'
<1>1. ASSUME NEW d \in requests' PROVE WellFormed(d)' /\ ("block" \notin followed => ~AboutBlock(d))
  <2>1. PICK c \in requests : d = IF c.phase = "service" THEN [c EXCEPT !.phase = "failed"] ELSE c
    BY DEF RestartPanelServer
  <2>2. WellFormed(c) /\ ("block" \notin followed => ~AboutBlock(c))
    BY DEF PanelInv, PanelTypes
  <2>3. CASE c.phase = "service"
    <3>1. d = [kind |-> c.kind, ip |-> c.ip, n |-> c.n, phase |-> "failed", got |-> c.got]
      BY <2>1, <2>2, <2>3 DEF WellFormed
    <3>2. d.kind = c.kind /\ d.ip = c.ip /\ d.n = c.n /\ d.phase = "failed" /\ d.got = c.got
      BY <3>1
    <3>3. AboutBlock(d) <=> AboutBlock(c)
      BY <3>2 DEF AboutBlock
    <3>4. WellFormed(d)
      BY <2>2, <3>1, <3>2 DEF WellFormed
    <3> QED BY <2>2, <3>3, <3>4, WellFormedStays
  <2> QED BY <2>1, <2>2, <2>3, WellFormedStays
<1>2. doubt' /\ blocked' = {} /\ UNCHANGED <<followed, selects, panel, ip>>
  BY DEF RestartPanelServer, panelBrowser
<1>3. PanelTypes'
  BY <1>1, <1>2 DEF PanelInv, PanelTypes, AboutBlock
<1> QED BY <1>2, <1>3, Elsewhere

LEMMA PanelStepKeeps ==
    ASSUME PanelInv, [PanelNext]_panelVars
    PROVE  PanelInv'
<1>1. CASE UNCHANGED panelVars
  BY <1>1, OthersKeep DEF panelVars
<1>2. ASSUME NEW i \in IPs, Select(i) PROVE PanelInv'
  BY <1>2, SelectKeeps
<1>3. ASSUME NEW i \in IPs, OthersBlock(i) PROVE PanelInv'
  BY <1>3, OthersKeep DEF OthersBlock, panelBrowser
<1>4. ASSUME NEW i \in IPs, OthersCase(i) \/ Event(i) PROVE PanelInv'
  BY <1>4, OthersKeep DEF OthersCase, Event, panelBrowser
<1>5. ASSUME Leave PROVE PanelInv'
  <2>1. /\ ip' = Nothing /\ panel' = Empty /\ UNCHANGED <<followed, selects, blocked>>
        /\ \A d \in requests' : \E c \in requests : d = Orphan(c)
    BY <1>5 DEF Leave, LeaveWith, Orphan, panelServer
  <2> QED BY <2>1, LeaveKeeps
<1>6. ASSUME NEW c \in requests, ServeRequest(c) \/ ServiceEnds(c) \/ Lost(c) \/ Arrive(c) PROVE PanelInv'
  BY <1>6, RequestServedKeeps, ServiceEndsKeeps, RequestLostKeeps, PanelArriveKeeps
<1> QED
  BY <1>1, <1>2, <1>3, <1>4, <1>5, <1>6, CloseKeeps, ToggleKeeps, CreateKeeps, RestartKeeps DEF PanelNext

LEMMA PanelInvSays == PanelInv => BlockShown
  BY DEF PanelInv, BlockInv, BlockShown, ToBlock, AboutBlock

\* toggleBlock and block_ip: what the panel offers.
THEOREM BlockIsShown == PanelSpec => []BlockShown
<1>1. PanelInit => PanelInv
  BY PanelStarts
<1>2. PanelInv /\ [PanelNext]_panelVars => PanelInv'
  BY PanelStepKeeps
<1> QED BY <1>1, <1>2, PanelInvSays, PTL DEF PanelSpec
=============================================================================
