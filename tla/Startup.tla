------------------------------ MODULE Startup ------------------------------
(***************************************************************************)
(* The server's life around the accounts: what main.py and                 *)
(* users.sync_users_with_db do from the start of the process until         *)
(* requests are served, with the process stopping between any two commits, *)
(* and other settings (DEMO_MODE, ADMIN_PASSWORD) at the next start.       *)
(* While it serves, the requests of module Accounts interleave.            *)
(***************************************************************************)
EXTENDS Accounts

CONSTANTS DemoRole,     \* DEMO_USERS: the role of each public demo account
          NoPassword,   \* ADMIN_PASSWORD is not set
          Tables,       \* users tables that an older build may have left
          FirstKey      \* session keys drawn before: of the rows of those tables

DemoUsers == DOMAIN DemoRole

ASSUME DemoAssumption ==
    /\ DemoRole \in [DemoUsers -> Roles] /\ DemoUsers \subseteq Users \ Retired
    /\ \A u \in DemoUsers : DemoRole[u] = "admin" <=> u = Admin
    /\ Admin \in DemoUsers /\ NoPassword \notin Passwords

\* Any table at all: without the row of the admin, or with that row deleted or
\* of another role; with admins of other names, several of them or deleted ones;
\* rows with and without a session key (0).
ASSUME TablesAssumption ==
    /\ FirstKey \in Nat
    /\ Tables \subseteq [Users -> [role : Roles, pw : Passwords, key : 0..FirstKey, deleted : BOOLEAN]
                                     \cup {NoAccount}]

VARIABLES phase,        \* "down", "sync" (the table), "up"
          demo,         \* DEMO_MODE
          adminPw,      \* ADMIN_PASSWORD, until it is of no more use
          todo          \* the seeded accounts sync_users_with_db has not reached

settings == <<demo, adminPw>>
svars == <<vars, phase, settings, todo>>

-----------------------------------------------------------------------------

Nobody == [u \in Users |-> NoAccount]

\* seed_users: the accounts that should exist, with a fresh session key.
Seeded(isDemo, pw) == IF isDemo THEN DemoUsers ELSE IF pw = NoPassword THEN {} ELSE {Admin}

\* The demo passwords of DEMO_USERS.
Published(u) == IF u = Admin THEN AdminDemo ELSE Public

SeededAccount(u, isDemo, pw) ==
    [role |-> IF isDemo THEN DemoRole[u] ELSE "admin", pw |-> IF isDemo THEN Published(u) ELSE pw,
     key |-> NewKey, deleted |-> FALSE]

Admins == ActiveAdmins(db)

\* Before the first start the table is new, or one that an older build left.
Init ==
    /\ phase = "down" /\ demo = FALSE /\ adminPw = NoPassword /\ todo = {}
    /\ mem = Nobody /\ lastKey = FirstKey /\ tokens = {}
    /\ db \in {Nobody} \cup (IF UseDb THEN Tables ELSE {})
    /\ req = [r \in Writers |-> Idle]
    /\ login = [l \in Logins |-> Idle]
    /\ floor = [u \in Users |-> 0]
    /\ gone = {} /\ met = {}

\* The process starts with these settings.  Without a database the seeded
\* accounts are all there is, and the operator's password is required.
Start(isDemo, pw) ==
    /\ phase = "down"
    /\ demo' = isDemo
    /\ IF UseDb
       THEN /\ phase' = "sync" /\ todo' = Seeded(isDemo, pw)
            /\ adminPw' = pw
            /\ UNCHANGED <<mem, lastKey, gone>>
       ELSE /\ isDemo \/ pw # NoPassword
            /\ NewKey <= MaxKey
            /\ phase' = "up" /\ lastKey' = NewKey /\ gone' = {}
            /\ mem' = [u \in Users |-> IF u \in Seeded(isDemo, pw) THEN SeededAccount(u, isDemo, pw)
                                       ELSE NoAccount]
            /\ UNCHANGED <<adminPw, todo>>
    /\ UNCHANGED <<db, tokens, req, login, floor, met>>

\* One commit of sync_users_with_db.
Write(u, acc) ==
    /\ db' = [db EXCEPT ![u] = acc]
    /\ lastKey' = IF acc.key = NewKey THEN NewKey ELSE lastKey
    /\ lastKey' <= MaxKey
    /\ UNCHANGED <<mem, tokens, req, login, floor, gone, met, phase, settings>>

\* Mutant: roles stay as they are stored.
RestoredInPart(u) ==
    IF u = Admin /\ db[u].pw # AdminDemo THEN [db[u] EXCEPT !.pw = AdminDemo, !.key = NewKey]
    ELSE db[u]

\* In demo mode the code owns the demo accounts: roles follow DEMO_USERS, and
\* the admin's password is the public one.
Restored(u) ==
    LET role == [db[u] EXCEPT !.role = DemoRole[u]]
    IN  IF u = Admin /\ db[u].pw # AdminDemo THEN [role EXCEPT !.pw = AdminDemo, !.key = NewKey]
        ELSE role

\* The next seeded account, the admin first: created, brought in line, or left.
SyncUser(u) ==
    /\ phase = "sync" /\ u \in todo /\ (u # Admin => Admin \notin todo)
    /\ todo' = todo \ {u}
    /\ IF db[u] = NoAccount /\ ~(u = Admin /\ Admins # {})
       THEN Write(u, SeededAccount(u, demo, adminPw))
       ELSE IF demo /\ db[u] # NoAccount THEN Write(u, Restored(u))
       ELSE UNCHANGED <<vars, phase, settings>>

Synced == phase = "sync" /\ todo = {}

\* Outside demo mode the admins that still have the demo admin's password.
PublicAdmins == {u \in Admins : ~demo /\ db[u].pw = AdminDemo}

\* Mutant: the admin's sessions survive the new password.
ReplaceKeepingSessions(u) ==
    /\ Synced /\ u \in PublicAdmins /\ adminPw # NoPassword
    /\ Write(u, [db[u] EXCEPT !.pw = adminPw])
    /\ UNCHANGED todo

\* A new key also signs out every session opened with the demo password.
ReplacePublicPassword(u) ==
    /\ Synced /\ u \in PublicAdmins /\ adminPw # NoPassword
    /\ Write(u, [db[u] EXCEPT !.pw = adminPw, !.key = NewKey])
    /\ UNCHANGED todo

\* Startup fails: no password to replace a public one, no admin, or several.
MustRefuse ==
    IF PublicAdmins # {} THEN adminPw = NoPassword ELSE \A a \in Users : Admins # {a}

\* The rows of before there were session keys get one.
DrawKey(u) ==
    /\ Synced /\ ~MustRefuse /\ PublicAdmins = {}
    /\ db[u] # NoAccount /\ db[u].key = 0
    /\ Write(u, [db[u] EXCEPT !.key = NewKey])
    /\ UNCHANGED todo

\* Accounts that still hold a published password are not loaded: retired ones
\* in any mode, the other demo accounts outside demo mode.
Withheld(u) ==
    /\ u \in Retired \/ (~demo /\ u \in DemoUsers \ {Admin})
    /\ db[u] # NoAccount /\ ~db[u].deleted /\ db[u].pw = Public

Load ==
    /\ Synced /\ ~MustRefuse /\ PublicAdmins = {}
    /\ \A u \in Users : db[u] # NoAccount => db[u].key # 0
    /\ phase' = "up"
    /\ mem' = [u \in Users |-> IF Withheld(u) THEN NoAccount ELSE db[u]]
    /\ adminPw' = NoPassword
    /\ UNCHANGED <<db, lastKey, tokens, req, login, floor, gone, met, demo, todo>>

\* Startup refuses or a write of it fails, or the process is stopped, taking
\* every request and the memory with it.
Stop ==
    /\ phase # "down"
    /\ phase' = "down" /\ todo' = {} /\ mem' = Nobody
    /\ req' = [r \in Writers |-> Idle]
    /\ login' = [l \in Logins |-> Idle]
    /\ demo' = FALSE /\ adminPw' = NoPassword
    /\ UNCHANGED <<db, lastKey, tokens, floor, gone, met>>

\* While the server is up; demo_read_only refuses every write of a demo.
Serve ==
    /\ phase = "up"
    /\ \/ \E r \in Writers : ~demo /\ RequestStep(r)
       \/ \E l \in Logins : LoginStep(l)
    /\ UNCHANGED <<phase, settings, todo>>

Next ==
    \/ \E isDemo \in BOOLEAN, pw \in (Passwords \ {AdminDemo}) \cup {NoPassword} : Start(isDemo, pw)
    \/ \E u \in Users : SyncUser(u)
    \/ \E u \in Users : ReplacePublicPassword(u)
    \/ \E u \in Users : DrawKey(u)
    \/ Load
    \/ Stop
    \/ Serve

Spec == Init /\ [][Next]_svars

-----------------------------------------------------------------------------
(* Properties, for accounts outside met as in module Accounts. *)

TypeOKLife ==
    /\ TypeOK
    /\ phase \in {"down", "sync", "up"} /\ demo \in BOOLEAN
    /\ adminPw \in (Passwords \ {AdminDemo}) \cup {NoPassword} /\ todo \subseteq DemoUsers

\* What is served has exactly one active admin, the same in memory and in the
\* table (README "There is exactly one admin"; users.py "The single-admin rule
\* must hold before serving requests"), whatever requests overlap, fail, are
\* undone or cut short, and whatever table and settings the server started with.
\* A row of the admin role that is deleted is no admin, and never becomes one.
\* In one case memory has none: the table's admin was withheld, as a retired or
\* demo account that still had its published password.
ServesOneAdmin ==
    phase = "up" =>
      \E a \in Users :
        /\ UseDb => ActiveAdmins(db) = {a}
        /\ \/ ActiveAdmins(mem) = {a}
           \/ UseDb /\ ActiveAdmins(mem) = {} /\ Withheld(a)

\* user_admin.py: "Every change is written to the database (when there is one)
\* and to the in-memory user store": with no change of an account in flight,
\* memory and table hold the same account, failed writes and restarts included;
\* an account that was not loaded is in neither the lists nor the logins.
AgreeAtRest ==
    UseDb /\ phase = "up" =>
      \A u \in Users \ met : (\A r \in Writers : ~InFlight(r, u)) =>
        mem[u] = (IF mem[u] = NoAccount /\ Withheld(u) THEN NoAccount ELSE db[u])

\* "On startup the admin's public demo password is replaced with it and every
\* demo session is signed out" (README): outside demo mode no session of an
\* admin that was opened with the demo admin's password is accepted, and none of
\* a retired account opened with its own published one in any mode, however
\* often and where starts are cut short.
PublicPasswordsDead ==
    \A t \in tokens : Current(t) =>
      /\ t.pw = AdminDemo /\ t.role = "admin" => demo
      /\ t.user \in Retired => t.pw # Public

\* However often starts are cut short, what makes one refuse is a missing
\* ADMIN_PASSWORD, or was in the table it was given: a second admin whose role is
\* not the code's to correct, a row of the admin that is deleted or outside demo
\* mode has another role, or no row of the admin beside demo accounts that were
\* the only admins (the demo start has just taken the role from them, and the
\* next one creates the admin).
RefusedForCause ==
    Synced /\ MustRefuse =>
      \/ ~demo /\ adminPw = NoPassword
      \/ \E u \in Admins \ {Admin} : ~(demo /\ u \in DemoUsers)
      \/ Admins = {} /\ db[Admin] # NoAccount /\ (db[Admin].deleted \/ ~demo)
      \/ Admins = {} /\ db[Admin] = NoAccount /\ demo

=============================================================================
