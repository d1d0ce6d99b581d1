------------------------------ MODULE Accounts ------------------------------
(***************************************************************************)
(* User accounts and the sessions they open: the in-memory user store      *)
(* (users._users), the users table, and the requests that change them      *)
(* (user_admin.py, routers/users.py, routers/auth.py).                     *)
(*                                                                         *)
(* The server is one asyncio process: a handler runs without interruption  *)
(* from one await to the next.  Each await of a handler that other         *)
(* requests can observe is a separate action here: the dependency that     *)
(* authenticates the request (it runs in the thread pool), the bcrypt      *)
(* calls that run in the thread pool, the SELECT and the COMMIT of a       *)
(* database write.                                                         *)
(*                                                                         *)
(* Session keys are random and never repeat; they are numbered here in the *)
(* order they are drawn.                                                   *)
(***************************************************************************)
EXTENDS Naturals, Authz

CONSTANTS Users,        \* usernames
          Admin,        \* the admin's username
          Passwords,
          AdminDemo,    \* the password published for the demo admin
          Public,       \* the password published for an account: a demo one
          Retired,      \* former demo accounts, whose old passwords are known
          Late,         \* stands for the password of a login that was overtaken
          Writers,      \* slots for concurrent authenticated requests
          Logins,       \* slots for concurrent logins
          UseDb,        \* is there a DATABASE_URL
          MaxKey        \* bound: how many session keys are drawn

ASSUME UsersAssumption == Admin \in Users
ASSUME ModeAssumption == UseDb \in BOOLEAN
ASSUME PublicAssumption ==
    {AdminDemo, Public} \subseteq Passwords /\ AdminDemo # Public /\ Late \notin Passwords
ASSUME RetiredAssumption == Retired \subseteq Users \ {Admin}

\* What db_update_user can set (display names have no bearing here).
Fields == {"role", "pw", "key", "deleted"}

Account == [role : Roles, pw : Passwords, key : Nat, deleted : BOOLEAN]

ASSUME AccountAssumption == NoAccount \notin Account

Token == [user : Users, role : Roles, key : Nat, pw : Passwords \cup {Late}]

Actor == [username : Users, role : Roles]

Idle == [pc |-> "idle"]

Kinds == {"update", "delete", "own"}

\* Where an authenticated request can be waiting: for its handler to start,
AdmittedRequest == [pc : {"admitted"}, actor : Actor]

\* for bcrypt to verify the current or to hash the new password,
OwnRequest == [pc : {"verify", "hash"}, actor : Actor, hash : Passwords,
               current : Passwords, new : Passwords]

\* for the INSERT of a new row,
InsertRequest == [pc : {"insert"}, user : Users, to : Account]

\* for the SELECT or the UPDATE of a change applied in memory.
WriteRequest == [pc : {"select", "commit"}, kind : Kinds, actor : Actor,
                 user : Users, set : SUBSET Fields, to : Account,
                 prev : Account, seen : Account]

Request == {Idle} \cup AdmittedRequest \cup OwnRequest \cup InsertRequest
             \cup WriteRequest

VerifyingLogin == [pc : {"verify"}, user : Users, pw : Passwords, hash : Passwords]
CookieLogin == [pc : {"cookie"}, user : Users, pw : Passwords, role : Roles]

LoginRequest == {Idle} \cup VerifyingLogin \cup CookieLogin

VARIABLES mem,          \* users._users
          db,           \* the users table
          lastKey,      \* the last session key drawn
          tokens,       \* every session cookie ever handed out
          req,          \* the authenticated requests in progress
          login,        \* the logins in progress
          floor,        \* history: newest key of a change answered with success
          gone,         \* history: users whose deletion was answered with success
          met           \* history: users of whom two changes were in flight at once

vars == <<mem, db, lastKey, tokens, req, login, floor, gone, met>>

-----------------------------------------------------------------------------

Active(u) == IF mem[u] = NoAccount THEN FALSE ELSE ~mem[u].deleted

\* is_session_current
Current(t) == /\ Active(t.user)
              /\ mem[t.user].role = t.role
              /\ mem[t.user].key = t.key /\ t.key # 0

\* user.update(fields), or the UPDATE of the changed columns.
Updated(acc, set, to) ==
    [role    |-> IF "role" \in set THEN to.role ELSE acc.role,
     pw      |-> IF "pw" \in set THEN to.pw ELSE acc.pw,
     key     |-> IF "key" \in set THEN to.key ELSE acc.key,
     deleted |-> IF "deleted" \in set THEN to.deleted ELSE acc.deleted]

\* A change of u's account that is applied in memory and not yet answered.
InFlight(r, u) == req[r].pc \in {"insert", "select", "commit"} /\ req[r].user = u

ActiveAdmins(accounts) ==
    {u \in Users : ~Missing(accounts[u]) /\ accounts[u].role = "admin"}

Meeting(u) == IF \E r \in Writers : InFlight(r, u) THEN {u} ELSE {}

-----------------------------------------------------------------------------
(* Authenticated requests. *)

\* verify_token, in the thread pool, before the handler runs.
Admit(r) ==
    /\ req[r] = Idle
    /\ \E t \in tokens :
         /\ Current(t)
         /\ req' = [req EXCEPT ![r] = [pc |-> "admitted",
                       actor |-> [username |-> t.user, role |-> t.role]]]
    /\ UNCHANGED <<mem, db, lastKey, tokens, login, floor, gone, met>>

\* The handler only reads, or a check refuses the request.
ReadOrRefuse(r) ==
    /\ req[r].pc = "admitted"
    /\ req' = [req EXCEPT ![r] = Idle]
    /\ UNCHANGED <<mem, db, lastKey, tokens, login, floor, gone, met>>

Raise(u, key) == IF key > floor[u] THEN key ELSE floor[u]

\* The answer to a change that went through.  Only the caller of a change of
\* the own password gets a cookie, signed with the key then in memory; if the
\* account is gone by then that request fails instead.
Answer(r, m, kind, actor, u, to) ==
    /\ req' = [req EXCEPT ![r] = Idle]
    /\ floor' = [floor EXCEPT ![u] = Raise(u, to.key)]
    /\ gone' = IF kind = "delete" THEN gone \cup {u} ELSE gone
    /\ tokens' = IF kind # "own" \/ Missing(m[u]) THEN tokens
                 ELSE tokens \cup {[user |-> u, role |-> actor.role,
                                    key |-> m[u].key, pw |-> to.pw]}

\* _apply: change the memory, then write the database if there is one.
Apply(r, kind, actor, u, set, to) ==
    LET m == [mem EXCEPT ![u] = Updated(@, set, to)]
    IN  /\ mem' = m
        /\ lastKey' = to.key
        /\ met' = met \cup Meeting(u)
        /\ IF UseDb
           THEN /\ req' = [req EXCEPT ![r] =
                     [pc |-> "select", kind |-> kind, actor |-> actor, user |-> u,
                      set |-> set, to |-> to, prev |-> mem[u], seen |-> mem[u]]]
                /\ UNCHANGED <<tokens, floor, gone>>
           ELSE Answer(r, m, kind, actor, u, to)

NewKey == lastKey + 1

\* What a client may send as a role, and _check_role.
RoleInput == Roles \cup {"other"}

ValidRole(role) == role \in Roles

\* password_problem: "admin-demo" and the retired accounts' old passwords are
\* too short to be set; those of the other demo accounts are not.
GoodPassword(u, pw) == pw # AdminDemo /\ (pw = Public => u \notin Retired)

\* Mutant: a reset keeps the user's sessions.
ChangedFieldsKeepingKey(acc, body) ==
    LET role == IF "role" \in body.has /\ body.role # acc.role THEN {"role", "key"} ELSE {}
    IN  role \cup IF "password" \in body.has THEN {"pw"} ELSE {}

\* A role equal to the present one is no change; any change draws a new key.
ChangedFields(acc, body) ==
    LET role == IF "role" \in body.has /\ body.role # acc.role THEN {"role"} ELSE {}
        pw   == IF "password" \in body.has THEN {"pw"} ELSE {}
    IN  role \cup pw \cup (IF role \cup pw = {} THEN {} ELSE {"key"})

CreateUser(r, u, role, pw) ==
    LET row == [role |-> role, pw |-> pw, key |-> NewKey, deleted |-> FALSE]
        m   == [mem EXCEPT ![u] = row]
    IN  /\ req[r].pc = "admitted"
        /\ CheckUserCreate(req[r].actor, row) = "ok"
        /\ ValidRole(role) /\ GoodPassword(u, pw)
        /\ mem[u] = NoAccount
        /\ NewKey <= MaxKey
        /\ mem' = m
        /\ lastKey' = NewKey
        /\ IF UseDb
           THEN /\ req' = [req EXCEPT ![r] = [pc |-> "insert", user |-> u, to |-> row]]
                /\ UNCHANGED <<tokens, floor, gone>>
           ELSE Answer(r, m, "update", req[r].actor, u, row)
        /\ UNCHANGED <<db, login, met>>

UpdateUser(r, u, body) ==
    /\ req[r].pc = "admitted"
    /\ CheckUserUpdate(req[r].actor, u, mem[u], body) = "ok"
    /\ "role" \in body.has => ValidRole(body.role)
    /\ "password" \in body.has => GoodPassword(u, body.password)
    /\ ChangedFields(mem[u], body) # {}
    /\ NewKey <= MaxKey
    /\ Apply(r, "update", req[r].actor, u, ChangedFields(mem[u], body),
             [mem[u] EXCEPT !.role = IF "role" \in body.has THEN body.role ELSE @,
                            !.pw = body.password, !.key = NewKey])
    /\ UNCHANGED <<db, login>>

DeleteUser(r, u) ==
    /\ req[r].pc = "admitted"
    /\ CheckUserDelete(req[r].actor, u, mem[u]) = "ok"
    /\ NewKey <= MaxKey
    /\ Apply(r, "delete", req[r].actor, u, {"deleted", "key"},
             [mem[u] EXCEPT !.deleted = TRUE, !.key = NewKey])
    /\ UNCHANGED <<db, login>>

-----------------------------------------------------------------------------
(* PATCH /auth/me: change_own_password. *)

\* The hash to verify against is read before the thread pool runs.
OwnPassword(r, current, new) ==
    /\ req[r].pc = "admitted"
    /\ LET u == req[r].actor.username
       IN  /\ Active(u)
           /\ req' = [req EXCEPT ![r] = [pc |-> "verify", actor |-> req[r].actor,
                         hash |-> mem[u].pw, current |-> current, new |-> new]]
    /\ UNCHANGED <<mem, db, lastKey, tokens, login, floor, gone, met>>

VerifyOwn(r) ==
    /\ req[r].pc = "verify"
    /\ req' = [req EXCEPT ![r] =
                 IF /\ req[r].current = req[r].hash /\ req[r].new # req[r].current
                    /\ GoodPassword(req[r].actor.username, req[r].new)
                 THEN [req[r] EXCEPT !.pc = "hash"] ELSE Idle]
    /\ UNCHANGED <<mem, db, lastKey, tokens, login, floor, gone, met>>

\* hash_password has returned.  Nothing is checked again.  When the account was
\* withdrawn meanwhile (its creation failed) the change reaches nothing.
HashOwn(r) ==
    /\ req[r].pc = "hash"
    /\ LET u == req[r].actor.username
       IN  IF mem[u] = NoAccount
           THEN /\ req' = [req EXCEPT ![r] = Idle]
                /\ UNCHANGED <<mem, lastKey, tokens, floor, gone, met>>
           ELSE /\ NewKey <= MaxKey
                /\ Apply(r, "own", req[r].actor, u, {"pw", "key"},
                         [mem[u] EXCEPT !.pw = req[r].new, !.key = NewKey])
    /\ UNCHANGED <<db, login>>

-----------------------------------------------------------------------------
(* The database half of a change. *)

\* db_create_user: the row was built when the request started.
Insert(r) ==
    /\ req[r].pc = "insert"
    /\ db[req[r].user] = NoAccount
    /\ db' = [db EXCEPT ![req[r].user] = req[r].to]
    /\ Answer(r, mem, "update", Idle, req[r].user, req[r].to)
    /\ UNCHANGED <<mem, lastKey, login, met>>

InsertFails(r) ==
    /\ req[r].pc = "insert"
    /\ mem' = [mem EXCEPT ![req[r].user] = NoAccount]
    /\ req' = [req EXCEPT ![r] = Idle]
    /\ UNCHANGED <<db, lastKey, tokens, login, floor, gone, met>>

\* db_update_user reads the row; without one it returns and nothing is written.
Select(r) ==
    /\ req[r].pc = "select"
    /\ LET w == req[r]
       IN  IF db[w.user] = NoAccount
           THEN Answer(r, mem, w.kind, w.actor, w.user, w.to)
           ELSE /\ req' = [req EXCEPT ![r] = [w EXCEPT !.pc = "commit",
                                                       !.seen = db[w.user]]]
                /\ UNCHANGED <<tokens, floor, gone>>
    /\ UNCHANGED <<mem, db, lastKey, login, met>>

\* Mutant: session_key is missing from the columns db_update_user writes.
DirtyWithoutKey(w) == {f \in w.set \ {"key"} : w.to[f] # w.seen[f]}

\* Mutant: deleted_at is missing from them.
DirtyWithoutDeletion(w) == {f \in w.set \ {"deleted"} : w.to[f] # w.seen[f]}

\* The UPDATE names only the columns that differ from the row as it was read.
Dirty(w) == {f \in w.set : w.to[f] # w.seen[f]}

Commit(r) ==
    /\ req[r].pc = "commit"
    /\ LET w == req[r]
       IN  /\ db' = [db EXCEPT ![w.user] = Updated(db[w.user], Dirty(w), w.to)]
           /\ Answer(r, mem, w.kind, w.actor, w.user, w.to)
    /\ UNCHANGED <<mem, lastKey, login, met>>

\* Mutant: the memory is not put back.
WriteFailsKeeping(r) ==
    /\ req[r].pc \in {"select", "commit"}
    /\ req' = [req EXCEPT ![r] = Idle]
    /\ UNCHANGED <<mem, db, lastKey, tokens, login, floor, gone, met>>

\* The write raised: the request fails and the memory is put back.
WriteFails(r) ==
    /\ req[r].pc \in {"select", "commit"}
    /\ LET w == req[r]
       IN  mem' = [mem EXCEPT ![w.user] =
                     IF @ = NoAccount THEN @ ELSE Updated(@, w.set, w.prev)]
    /\ req' = [req EXCEPT ![r] = Idle]
    /\ UNCHANGED <<db, lastKey, tokens, login, floor, gone, met>>

-----------------------------------------------------------------------------
(* POST /auth/login. *)

\* authenticate reads the hash; only an active user's can ever match.
LoginStart(l, u, pw) ==
    /\ login[l] = Idle
    /\ Active(u)
    /\ login' = [login EXCEPT ![l] = [pc |-> "verify", user |-> u, pw |-> pw,
                                      hash |-> mem[u].pw]]
    /\ UNCHANGED <<mem, db, lastKey, tokens, req, floor, gone, met>>

\* bcrypt has compared; the role is read after it.
LoginVerify(l) ==
    /\ login[l].pc = "verify"
    /\ LET g == login[l]
       IN  login' = [login EXCEPT ![l] =
             IF g.pw # g.hash \/ mem[g.user] = NoAccount THEN Idle
             ELSE [pc |-> "cookie", user |-> g.user, pw |-> g.pw,
                   role |-> mem[g.user].role]]
    /\ UNCHANGED <<mem, db, lastKey, tokens, req, floor, gone, met>>

\* _set_session_cookie, back on the event loop: the key is read now.
LoginCookie(l) ==
    /\ login[l].pc = "cookie"
    /\ LET g == login[l]
       IN  tokens' = IF Active(g.user)
                     THEN tokens \cup {[user |-> g.user, role |-> g.role, key |-> mem[g.user].key,
                                        pw |-> IF mem[g.user].pw = g.pw THEN g.pw ELSE Late]}
                     ELSE tokens
    /\ login' = [login EXCEPT ![l] = Idle]
    /\ UNCHANGED <<mem, db, lastKey, req, floor, gone, met>>

-----------------------------------------------------------------------------

UpdateBody == [has : (SUBSET {"role", "password"}) \ {{}}, role : RoleInput,
               password : Passwords]

RequestStep(r) ==
    \/ Admit(r)
    \/ ReadOrRefuse(r)
    \/ \E u \in Users, role \in RoleInput, pw \in Passwords : CreateUser(r, u, role, pw)
    \/ \E u \in Users, body \in UpdateBody : UpdateUser(r, u, body)
    \/ \E u \in Users : DeleteUser(r, u)
    \/ \E current, new \in Passwords : OwnPassword(r, current, new)
    \/ VerifyOwn(r)
    \/ HashOwn(r)
    \/ Insert(r)
    \/ InsertFails(r)
    \/ Select(r)
    \/ Commit(r)
    \/ WriteFails(r)

LoginStep(l) ==
    \/ \E u \in Users, pw \in Passwords : LoginStart(l, u, pw)
    \/ LoginVerify(l)
    \/ LoginCookie(l)

-----------------------------------------------------------------------------
(* Properties.  Where they except the accounts in met, the code does not   *)
(* keep them for those: the undo of a failed write restores values older    *)
(* than the other change, and a deletion finds no row while the account's   *)
(* INSERT is on its way.                                                    *)

\* Every variable keeps to the values the code gives it.
TypeOK ==
    /\ mem \in [Users -> Account \cup {NoAccount}]
    /\ db \in [Users -> Account \cup {NoAccount}]
    /\ lastKey \in Nat
    /\ tokens \subseteq Token
    /\ req \in [Writers -> Request]
    /\ login \in [Logins -> LoginRequest]
    /\ floor \in [Users -> Nat]
    /\ gone \subseteq Users
    /\ met \subseteq Users

\* A change answered with success (reset, new role, deletion, own password)
\* ends every session opened before it for good: no key older than the one it
\* drew is ever in force again, after failed writes and restarts included.
KeyNeverOlder == \A u \in Users \ met : Active(u) => mem[u].key >= floor[u]

\* "The user can no longer log in" (README) once the deletion is answered:
\* the account never becomes active again, restarts included.
DeletedForGood == \A u \in gone \ met : ~Active(u)

\* "resetting their password takes effect immediately, on every open session"
\* (README): no session that is accepted was opened with another password than
\* the one now in force, but for logins that a change overtook between the
\* check of the password and the cookie (Late), which the code does not refuse.
SessionsKnowPassword ==
    \A t \in tokens : Current(t) /\ t.user \notin met => t.pw \in {mem[t.user].pw, Late}

\* user_admin.py: "check and apply in memory with no await in between": a
\* change of the own password replaces only the password it was checked against.
\* Not kept by the code: the check runs in a thread, before the change.
OwnChangeStillChecked ==
    [][\A r \in Writers :
         req[r].pc = "hash" /\ mem' # mem /\ req'[r] # req[r]
           => \/ req' = [q \in Writers |-> Idle] /\ UNCHANGED tokens
              \/ mem[req[r].actor.username].pw = req[r].hash]_vars

\* The browser offers an account action exactly when the server would accept
\* it from that user, for every account of the user list (permissions.ts is
\* the copy of authz.py).
MirrorsUserRules ==
    \A actor \in {a \in Actor : Active(a.username) /\ mem[a.username].role = a.role},
       u \in {v \in Users : Active(v)} :
      /\ MayDeleteUser(actor, mem[u]) <=> CheckUserDelete(actor, u, mem[u]) = "ok"
      /\ \A body \in UpdateBody :
           /\ MayUpdateUser(actor, u, mem[u], body)
                <=> CheckUserUpdate(actor, u, mem[u], body) = "ok"
           /\ MayCreateUser(actor, body) <=> CheckUserCreate(actor, body) = "ok"

=============================================================================
