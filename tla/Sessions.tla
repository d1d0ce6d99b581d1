------------------------------ MODULE Sessions ------------------------------
(***************************************************************************)
(* Sessions from login to logout or expiry: session tokens, the list of    *)
(* revoked ones in memory and in the revoked_sessions table (sessions.py), *)
(* and the limits on what one account may do (rate_limit.py): failed       *)
(* logins, wrong current passwords, new cases.  What a change of the       *)
(* account does to its sessions is in module Accounts.                     *)
(*                                                                         *)
(* Each limit has counters of its own, so a behavior follows those of one  *)
(* limit, and the others are never reached.  That is also the login of a   *)
(* demo account in demo mode, which has no limit.  The limits per client   *)
(* address are slowapi's.                                                  *)
(***************************************************************************)
EXTENDS Naturals, FiniteSets

CONSTANTS Sids,         \* session ids, each used once
          Attempts,     \* requests of one account whose password is being checked
          Logouts,      \* logouts that may be in progress
          Life,         \* lifetime of a token, in ticks of the clock
          Limits,       \* what a window of each limit allows
          None

\* The limits that count failures of a check; CASES_PER_USER counts new cases.
Guarded == {"login-user", "password-change"}
Namespaces == Guarded \cup {"case-user"}

Windows == {"minute", "hour"}

ASSUME BoundsAssumption == Life \in Nat \ {0} /\ IsFiniteSet(Attempts)

ASSUME LimitsAssumption == Limits \in [Namespaces -> [Windows -> Nat \ {0}]]

ASSUME NoneAssumption == None \notin Sids /\ None \notin 0..Life /\ None \notin Namespaces

VARIABLES db,           \* USE_DB
          life,         \* ticks each token has left; None: not issued
          followed,     \* the limit whose counters are followed
          checking,     \* what each attempt checks the password for
          hits,         \* its counters, one for each window
          revoked,      \* _revoked
          stored,       \* revoked_sessions
          logout,       \* what each logout in progress waits for
          out,          \* history: sessions whose logout was acknowledged
          lost          \* history: those of them that could not be stored

vars == <<db, life, followed, checking, hits, revoked, stored, logout, out, lost>>
sessions == <<life, revoked, stored, logout, out, lost>>
counters == <<followed, checking, hits>>

NoHits == [w \in Windows |-> 0]
NoAttempts == [l \in Attempts |-> None]

Idle == [sid |-> None, stage |-> "idle"]
Issued == {s \in Sids : life[s] # None}
Valid == {s \in Issued : life[s] > 0}

\* verify_token, as far as the token itself goes.
Admitted == Valid \ revoked

Init ==
    /\ db \in BOOLEAN
    /\ life = [s \in Sids |-> None]
    /\ followed \in Namespaces /\ checking = NoAttempts /\ hits = NoHits
    /\ revoked = {} /\ stored = {} /\ logout = [q \in Logouts |-> Idle]
    /\ out = {} /\ lost = {}

-----------------------------------------------------------------------------

(* The limits. *)

\* Mutant: it is enough that one window is not full.
ExceededBoth(ns) == ns = followed /\ \A w \in Windows : hits[w] >= Limits[ns][w]

Exceeded(ns) == ns = followed /\ \E w \in Windows : hits[w] >= Limits[ns][w]

Hit(ns) == hits' = IF ns = followed THEN [w \in Windows |-> hits[w] + 1] ELSE hits

\* The limit is looked at before the password is checked in a thread.
Begin(l, ns) ==
    /\ checking[l] = None /\ ~Exceeded(ns)
    /\ checking' = [checking EXCEPT ![l] = ns]
    /\ UNCHANGED <<db, sessions, followed, hits>>

Login(l) == Begin(l, "login-user")

\* change_own_password, of an account that is signed in.
ChangePassword(l) == Admitted # {} /\ Begin(l, "password-change")

End(l) == checking' = [checking EXCEPT ![l] = None]

\* A wrong password counts when its check ends.
Fails(l) ==
    /\ checking[l] # None /\ End(l) /\ Hit(checking[l])
    /\ UNCHANGED <<db, sessions, followed>>

\* The current password was right; what follows is in module Accounts.
ChangeContinues(l) ==
    /\ checking[l] = "password-change" /\ End(l)
    /\ UNCHANGED <<db, sessions, followed, hits>>

\* _set_session_cookie
LoginSucceeds(l, s) ==
    /\ checking[l] = "login-user" /\ s \notin Issued /\ End(l)
    /\ life' = [life EXCEPT ![s] = Life]
    /\ UNCHANGED <<db, revoked, stored, logout, out, lost, followed, hits>>

\* A new case is counted as soon as the limit was looked at; the rest is in module
\* Cases.
NewCase ==
    /\ Admitted # {} /\ followed = "case-user" /\ ~Exceeded("case-user") /\ Hit("case-user")
    /\ UNCHANGED <<db, sessions, followed, checking>>

\* The fixed window of a limit ends.
WindowEnds(w) ==
    /\ hits[w] > 0 /\ hits' = [hits EXCEPT ![w] = 0]
    /\ UNCHANGED <<db, sessions, followed, checking>>

-----------------------------------------------------------------------------

\* Mutant: revocations are forgotten a tick early.
ExpiredEarly == {s \in Issued : life[s] <= 1}

\* _purge: tokens that have expired are refused anyway.
Expired == Issued \ Valid

Acknowledge(s) == out' = out \cup {s}

\* Mutant: every session of the browser's user is revoked.
LogoutAll(q, s) ==
    /\ logout[q] = Idle /\ s \in Valid
    /\ revoked' = Valid
    /\ IF db THEN logout' = [logout EXCEPT ![q] = [sid |-> s, stage |-> "select"]] /\ UNCHANGED out
             ELSE Acknowledge(s) /\ UNCHANGED logout
    /\ UNCHANGED <<db, life, counters, stored, lost>>

\* A logout with a token that has not expired, revoked or not: in force at
\* once, and then stored if there is a database.
Logout(q, s) ==
    /\ logout[q] = Idle /\ s \in Valid
    /\ revoked' = (revoked \ Expired) \cup {s}
    /\ IF db THEN logout' = [logout EXCEPT ![q] = [sid |-> s, stage |-> "select"]] /\ UNCHANGED out
             ELSE Acknowledge(s) /\ UNCHANGED logout
    /\ UNCHANGED <<db, life, counters, stored, lost>>

\* db_revoke_session: merge() reads the row, and writes it if there is none.
Select(q) ==
    /\ logout[q].stage = "select"
    /\ logout' = [logout EXCEPT ![q].stage = IF logout[q].sid \in stored THEN "update" ELSE "insert"]
    /\ UNCHANGED <<db, life, counters, revoked, stored, out, lost>>

Commit(q) ==
    /\ \/ logout[q].stage = "insert" /\ logout[q].sid \notin stored
       \/ logout[q].stage = "update"
    /\ stored' = stored \cup {logout[q].sid}
    /\ logout' = [logout EXCEPT ![q] = Idle]
    /\ Acknowledge(logout[q].sid)
    /\ UNCHANGED <<db, life, counters, revoked, lost>>

\* The storage fails, or a second insert of the row does: logged, and the
\* logout is acknowledged all the same.
NotStored(q) ==
    /\ logout[q] # Idle
    /\ logout' = [logout EXCEPT ![q] = Idle]
    /\ Acknowledge(logout[q].sid)
    /\ lost' = IF logout[q].sid \in stored THEN lost ELSE lost \cup {logout[q].sid}
    /\ UNCHANGED <<db, life, counters, revoked, stored>>

Tick ==
    /\ Valid # {}
    /\ life' = [s \in Sids |-> IF s \in Valid THEN life[s] - 1 ELSE life[s]]
    /\ UNCHANGED <<db, counters, revoked, stored, logout, out, lost>>

\* Rows that have expired are deleted when the others are loaded.
StillStored == stored \cap Valid

\* load_revoked_sessions.  Without a database every account is created anew,
\* and no older token is accepted.
Restart ==
    /\ revoked' = StillStored /\ stored' = StillStored
    /\ life' = IF db THEN life ELSE [s \in Sids |-> IF s \in Issued THEN 0 ELSE None]
    /\ checking' = NoAttempts /\ hits' = NoHits /\ logout' = [q \in Logouts |-> Idle]
    /\ UNCHANGED <<db, out, lost, followed>>

Next ==
    \/ \E l \in Attempts : \/ Login(l) \/ ChangePassword(l) \/ Fails(l) \/ ChangeContinues(l)
                          \/ \E s \in Sids : LoginSucceeds(l, s)
    \/ NewCase
    \/ \E q \in Logouts : Select(q) \/ Commit(q) \/ NotStored(q) \/ \E s \in Sids : Logout(q, s)
    \/ \E w \in Windows : WindowEnds(w)
    \/ Tick \/ Restart

Spec == Init /\ [][Next]_vars

-----------------------------------------------------------------------------

TypeOK ==
    /\ db \in BOOLEAN
    /\ life \in [Sids -> 0..Life \cup {None}]
    /\ followed \in Namespaces /\ hits \in [Windows -> Nat]
    /\ checking \in [Attempts -> Guarded \cup {None}]
    /\ revoked \cup stored \subseteq Issued
    /\ logout \in [Logouts -> [sid : Sids \cup {None}, stage : {"idle", "select", "insert", "update"}]]
    /\ lost \subseteq out /\ out \subseteq Issued

\* A session is over as soon as its logout has begun, and stays over across
\* purges and restarts once it is acknowledged, unless it could not be stored
\* (revoke_session, load_revoked_sessions).
LoggedOutStaysOut ==
    Admitted \cap (out \ lost) = {} /\ \A q \in Logouts : logout[q].sid \notin Admitted

\* Nothing but its own logout, its expiry or, without a database, a restart
\* ends a session: other devices stay signed in (revoke_session).
OthersStaySignedIn ==
    [][\A s \in Admitted : s \notin Admitted' =>
         s \in out' \/ s \in {logout'[q].sid : q \in Logouts} \/ life'[s] = 0]_vars

\* However many logins or changes of the password look at the limit before the failures
\* of the others are counted, no window has more than the limit and what may be
\* in progress allow; new cases never exceed it (KeyedLimit, build_incident_for_ip).
InProgress == {l \in Attempts : checking[l] = followed}

Slack == IF followed \in Guarded THEN Cardinality(Attempts) ELSE 1

FailuresBounded ==
    \A w \in Windows : hits[w] + Cardinality(InProgress) <= Limits[followed][w] - 1 + Slack
=============================================================================
