--------------------------- MODULE StartupProofs ----------------------------
(***************************************************************************)
(* Theorems about Startup, and with it about the requests of Accounts: for *)
(* every set of users, passwords and request slots, every table an older   *)
(* build may have left, any settings, with and without a database.         *)
(*                                                                         *)
(* First what every step of a request or a login keeps, then what startup  *)
(* adds to it.                                                             *)
(***************************************************************************)
EXTENDS Startup, TLAPS

-----------------------------------------------------------------------------
(* Accounts *)

\* A row that an UPDATE is about to change exists: rows are never removed.
RowsStay == \A r \in Writers : req[r].pc = "commit" => db[req[r].user] # NoAccount

TypeInv == TypeOK /\ RowsStay

-----------------------------------------------------------------------------
(* Lemmas on the operators. *)

LEMMA UpdatedType ==
    ASSUME NEW acc \in Account, NEW to \in Account, NEW set \in SUBSET Fields
    PROVE  Updated(acc, set, to) \in Account
  BY DEF Updated, Account

LEMMA FieldsChanged ==
    ASSUME NEW acc \in Account, NEW role \in Roles, NEW pw \in Passwords, NEW k \in Nat
    PROVE  /\ [acc EXCEPT !.role = role, !.pw = pw, !.key = k] \in Account
           /\ [acc EXCEPT !.pw = pw, !.key = k] \in Account
           /\ [acc EXCEPT !.deleted = TRUE, !.key = k] \in Account
  BY DEF Account

LEMMA InsertShape ==
    ASSUME NEW q \in Request, q.pc = "insert"
    PROVE  q \in InsertRequest
  BY DEF Request, Idle, AdmittedRequest, OwnRequest, InsertRequest, WriteRequest

LEMMA WriteShape ==
    ASSUME NEW q \in Request, q.pc \in {"select", "commit"}
    PROVE  q \in WriteRequest
  BY DEF Request, Idle, AdmittedRequest, OwnRequest, InsertRequest, WriteRequest

LEMMA AdmittedShape ==
    ASSUME NEW q \in Request, q.pc = "admitted"
    PROVE  q \in AdmittedRequest
  BY DEF Request, Idle, AdmittedRequest, OwnRequest, InsertRequest, WriteRequest

LEMMA OwnShape ==
    ASSUME NEW q \in Request, q.pc \in {"verify", "hash"}
    PROVE  q \in OwnRequest
  BY DEF Request, Idle, AdmittedRequest, OwnRequest, InsertRequest, WriteRequest

-----------------------------------------------------------------------------
(* Typing. *)

Accounts == [Users -> Account \cup {NoAccount}]

LEMMA AnswerTyped ==
    ASSUME TypeOK, NEW r \in Writers, NEW m \in Accounts, NEW kind \in Kinds,
           NEW actor, NEW u \in Users, NEW to \in Account,
           kind = "own" => actor \in Actor,
           Answer(r, m, kind, actor, u, to)
    PROVE  /\ req' \in [Writers -> Request]
           /\ floor' \in [Users -> Nat]
           /\ gone' \subseteq Users
           /\ tokens' \subseteq Token
           /\ req' = [req EXCEPT ![r] = Idle]
  <1> USE DEF TypeOK, Answer
  <1>1. req' \in [Writers -> Request]
    BY DEF Request
  <1>2. floor' \in [Users -> Nat]
    <2>1. Raise(u, to.key) \in Nat
      BY DEF Raise, Account
    <2> QED BY <2>1
  <1>3. gone' \subseteq Users
    OBVIOUS
  <1>4. tokens' \subseteq Token
    <2>1. CASE kind # "own" \/ Missing(m[u])
      BY <2>1
    <2>2. CASE kind = "own" /\ ~Missing(m[u])
      <3>1. m[u] \in Account
        BY <2>2 DEF Missing, Accounts
      <3>2. [user |-> u, role |-> actor.role, key |-> m[u].key, pw |-> to.pw] \in Token
        BY <2>2, <3>1 DEF Token, Account, Actor
      <3> QED BY <2>2, <3>2
    <2> QED BY <2>1, <2>2
  <1> QED BY <1>1, <1>2, <1>3, <1>4

LEMMA ApplyTyped ==
    ASSUME TypeInv, NEW r \in Writers, NEW kind \in Kinds, NEW actor \in Actor,
           NEW u \in Users, NEW set \in SUBSET Fields, NEW to \in Account,
           mem[u] # NoAccount,
           Apply(r, kind, actor, u, set, to), UNCHANGED <<db, login>>
    PROVE  TypeInv'
  <1> USE DEF TypeInv, TypeOK
  <1>1. Updated(mem[u], set, to) \in Account
    BY UpdatedType
  <1> DEFINE m == [mem EXCEPT ![u] = Updated(@, set, to)]
  <1>2. m \in Accounts
    BY <1>1 DEF Accounts
  <1>3. mem' = m /\ lastKey' \in Nat
    BY DEF Apply, Account
  <1>6. met' \subseteq Users
    BY DEF Apply, Meeting
  <1>4. CASE UseDb
    <2> DEFINE w == [pc |-> "select", kind |-> kind, actor |-> actor, user |-> u,
                     set |-> set, to |-> to, prev |-> mem[u], seen |-> mem[u]]
    <2>1. req' = [req EXCEPT ![r] = w] /\ UNCHANGED <<tokens, floor, gone>>
      BY <1>4 DEF Apply
    <2>2. w \in WriteRequest
      BY DEF WriteRequest
    <2>3. req' \in [Writers -> Request]
      BY <2>1, <2>2 DEF Request
    <2>4. RowsStay'
      BY <2>1 DEF RowsStay
    <2> HIDE DEF m
    <2> QED BY <1>2, <1>3, <1>6, <2>1, <2>3, <2>4 DEF Accounts
  <1>5. CASE ~UseDb
    <2>1. Answer(r, m, kind, actor, u, to)
      BY <1>5 DEF Apply
    <2> HIDE DEF m
    <2>2. /\ req' \in [Writers -> Request] /\ floor' \in [Users -> Nat]
          /\ gone' \subseteq Users /\ tokens' \subseteq Token
          /\ req' = [req EXCEPT ![r] = Idle]
      BY <1>2, <2>1, AnswerTyped
    <2>3. RowsStay'
      BY <2>2 DEF RowsStay, Idle
    <2> QED BY <1>2, <1>3, <1>6, <2>2, <2>3 DEF Accounts
  <1> QED BY <1>4, <1>5

LEMMA ActorTyped ==
    ASSUME TypeOK, NEW r \in Writers, req[r].pc \in {"admitted", "verify", "hash"}
    PROVE  req[r].actor \in Actor
  <1>1. req[r] \in Request
    BY DEF TypeOK
  <1> QED BY <1>1, AdmittedShape, OwnShape DEF AdmittedRequest, OwnRequest

LEMMA RequestStepTyped ==
    ASSUME TypeInv, NEW r \in Writers, RequestStep(r)
    PROVE  TypeInv'
  <1> USE DEF TypeInv, TypeOK
  <1>r. req[r] \in Request
    OBVIOUS
  <1>1. CASE Admit(r)
    <2>1. PICK t \in tokens : req' = [req EXCEPT ![r] = [pc |-> "admitted",
                       actor |-> [username |-> t.user, role |-> t.role]]]
      BY <1>1 DEF Admit
    <2>2. req' \in [Writers -> Request]
      BY <2>1 DEF Request, AdmittedRequest, Actor, Token
    <2> QED BY <1>1, <2>1, <2>2 DEF Admit, RowsStay
  <1>2. CASE ReadOrRefuse(r)
    BY <1>2 DEF ReadOrRefuse, RowsStay, Request, Idle
  <1>3. ASSUME NEW u \in Users, NEW role \in RoleInput, NEW pw \in Passwords,
               CreateUser(r, u, role, pw)
        PROVE  TypeInv'
    <2> DEFINE row == [role |-> role, pw |-> pw, key |-> NewKey, deleted |-> FALSE]
    <2> DEFINE m == [mem EXCEPT ![u] = row]
    <2>1. row \in Account
      BY <1>3 DEF Account, CreateUser, ValidRole, NewKey
    <2>2. m \in Accounts /\ mem' = m /\ lastKey' \in Nat
      BY <1>3, <2>1 DEF CreateUser, Accounts, NewKey
    <2>3. CASE UseDb
      <3>1. req' = [req EXCEPT ![r] = [pc |-> "insert", user |-> u, to |-> row]]
        BY <1>3, <2>3 DEF CreateUser
      <3>2. req' \in [Writers -> Request]
        BY <3>1, <2>1 DEF Request, InsertRequest
      <3> HIDE DEF m
      <3> QED BY <1>3, <2>2, <2>3, <3>1, <3>2 DEF CreateUser, RowsStay, Accounts
    <2>4. CASE ~UseDb
      <3>1. Answer(r, m, "update", req[r].actor, u, row)
        BY <1>3, <2>4 DEF CreateUser
      <3> HIDE DEF m, row
      <3>2. /\ req' \in [Writers -> Request] /\ floor' \in [Users -> Nat]
            /\ gone' \subseteq Users /\ tokens' \subseteq Token
            /\ req' = [req EXCEPT ![r] = Idle]
        BY <2>1, <2>2, <3>1, AnswerTyped DEF Kinds
      <3> QED BY <1>3, <2>2, <3>2 DEF CreateUser, RowsStay, Accounts, Idle
    <2> QED BY <2>3, <2>4
  <1>4. ASSUME NEW u \in Users, NEW body \in UpdateBody, UpdateUser(r, u, body)
        PROVE  TypeInv'
    <2> DEFINE to == [mem[u] EXCEPT !.role = IF "role" \in body.has THEN body.role ELSE @,
                                    !.pw = body.password, !.key = NewKey]
    <2>1. mem[u] \in Account /\ mem[u] # NoAccount
      BY <1>4 DEF UpdateUser, CheckUserUpdate, Missing
    <2>2. to \in Account
      <3> DEFINE role == IF "role" \in body.has THEN body.role ELSE mem[u].role
      <3>1. role \in Roles /\ body.password \in Passwords /\ NewKey \in Nat
        BY <1>4, <2>1 DEF UpdateUser, Account, ValidRole, NewKey, UpdateBody
      <3>2. to = [mem[u] EXCEPT !.role = role, !.pw = body.password, !.key = NewKey]
        BY <2>1 DEF Account
      <3> HIDE DEF role, to
      <3> QED BY <2>1, <3>1, <3>2, FieldsChanged
    <2>3. ChangedFields(mem[u], body) \in SUBSET Fields
      BY DEF ChangedFields, Fields
    <2>4. req[r].actor \in Actor
      BY <1>4, ActorTyped DEF UpdateUser
    <2>5. Apply(r, "update", req[r].actor, u, ChangedFields(mem[u], body), to)
          /\ UNCHANGED <<db, login>>
      BY <1>4 DEF UpdateUser
    <2> HIDE DEF to
    <2> QED BY <2>1, <2>2, <2>3, <2>4, <2>5, ApplyTyped DEF Kinds
  <1>5. ASSUME NEW u \in Users, DeleteUser(r, u)
        PROVE  TypeInv'
    <2> DEFINE to == [mem[u] EXCEPT !.deleted = TRUE, !.key = NewKey]
    <2>1. mem[u] \in Account /\ mem[u] # NoAccount
      BY <1>5 DEF DeleteUser, CheckUserDelete, Missing
    <2>2. to \in Account
      <3>1. mem[u].role \in Roles /\ mem[u].pw \in Passwords /\ NewKey \in Nat
        BY <2>1 DEF Account, NewKey
      <3> QED BY <2>1, <3>1, FieldsChanged
    <2>3. req[r].actor \in Actor
      BY <1>5, ActorTyped DEF DeleteUser
    <2>4. Apply(r, "delete", req[r].actor, u, {"deleted", "key"}, to)
          /\ UNCHANGED <<db, login>>
      BY <1>5 DEF DeleteUser
    <2> HIDE DEF to
    <2> QED BY <2>1, <2>2, <2>3, <2>4, ApplyTyped DEF Kinds, Fields
  <1>6. ASSUME NEW current \in Passwords, NEW new \in Passwords,
               OwnPassword(r, current, new)
        PROVE  TypeInv'
    <2> DEFINE u == req[r].actor.username
    <2>1. req[r].actor \in Actor /\ u \in Users
      BY <1>6, ActorTyped DEF OwnPassword, Actor
    <2>2. mem[u].pw \in Passwords
      BY <1>6, <2>1 DEF OwnPassword, Active, Account
    <2>3. req' \in [Writers -> Request]
      BY <1>6, <2>1, <2>2 DEF OwnPassword, Request, OwnRequest
    <2> QED BY <1>6, <2>3 DEF OwnPassword, RowsStay
  <1>7. CASE VerifyOwn(r)
    <2>1. req[r] \in OwnRequest
      BY <1>7, <1>r, OwnShape DEF VerifyOwn
    <2>2. [req[r] EXCEPT !.pc = "hash"] \in OwnRequest
      BY <2>1 DEF OwnRequest
    <2> QED BY <1>7, <2>2 DEF VerifyOwn, RowsStay, Request, Idle
  <1>8. CASE HashOwn(r)
    <2> DEFINE u == req[r].actor.username
    <2>1. req[r] \in OwnRequest /\ req[r].actor \in Actor /\ u \in Users
      BY <1>8, <1>r, OwnShape DEF HashOwn, OwnRequest, Actor
    <2>2. CASE mem[u] = NoAccount
      BY <1>8, <2>2 DEF HashOwn, RowsStay, Request, Idle
    <2>3. CASE mem[u] # NoAccount
      <3> DEFINE to == [mem[u] EXCEPT !.pw = req[r].new, !.key = NewKey]
      <3>1. to \in Account
        <4>1. mem[u] \in Account /\ req[r].new \in Passwords /\ NewKey \in Nat
          BY <2>1, <2>3 DEF NewKey, OwnRequest
        <4>2. mem[u].role \in Roles
          BY <4>1 DEF Account
        <4> QED BY <4>1, <4>2, FieldsChanged
      <3>2. Apply(r, "own", req[r].actor, u, {"pw", "key"}, to) /\ UNCHANGED <<db, login>>
        BY <1>8, <2>3 DEF HashOwn
      <3> HIDE DEF to, u
      <3> QED BY <2>1, <2>3, <3>1, <3>2, ApplyTyped DEF Kinds, Fields
    <2> QED BY <2>2, <2>3
  <1>9. CASE Insert(r)
    <2>1. req[r] \in InsertRequest
      BY <1>9, <1>r, InsertShape DEF Insert
    <2>2. /\ req' \in [Writers -> Request] /\ floor' \in [Users -> Nat]
          /\ gone' \subseteq Users /\ tokens' \subseteq Token
          /\ req' = [req EXCEPT ![r] = Idle]
      BY <1>9, <2>1, AnswerTyped DEF Insert, InsertRequest, Kinds, Accounts
    <2>3. db' \in Accounts
      BY <1>9, <2>1 DEF Insert, InsertRequest, Accounts
    <2>4. RowsStay'
      BY <1>9, <2>1, <2>2, AccountAssumption DEF Insert, InsertRequest, RowsStay, Idle
    <2> QED BY <1>9, <2>2, <2>3, <2>4 DEF Insert, Accounts
  <1>10. CASE InsertFails(r)
    BY <1>10 DEF InsertFails, RowsStay, Request, Idle
  <1>11. CASE Select(r)
    <2>1. req[r] \in WriteRequest
      BY <1>11, <1>r, WriteShape DEF Select
    <2>2. CASE db[req[r].user] = NoAccount
      <3>1. /\ req' \in [Writers -> Request] /\ floor' \in [Users -> Nat]
            /\ gone' \subseteq Users /\ tokens' \subseteq Token
            /\ req' = [req EXCEPT ![r] = Idle]
        BY <1>11, <2>1, <2>2, AnswerTyped DEF Select, WriteRequest, Accounts
      <3> QED BY <1>11, <3>1 DEF Select, RowsStay, Idle
    <2>3. CASE db[req[r].user] # NoAccount
      <3> DEFINE w == [req[r] EXCEPT !.pc = "commit", !.seen = db[req[r].user]]
      <3>1. w \in WriteRequest /\ w.user = req[r].user
        BY <2>1, <2>3 DEF WriteRequest
      <3>2. req' = [req EXCEPT ![r] = w] /\ UNCHANGED <<mem, db, lastKey, login, met, tokens, floor, gone>>
        BY <1>11, <2>3 DEF Select
      <3>3. req' \in [Writers -> Request]
        BY <3>1, <3>2 DEF Request
      <3>4. RowsStay'
        BY <2>3, <3>1, <3>2 DEF RowsStay
      <3> QED BY <3>2, <3>3, <3>4
    <2> QED BY <2>2, <2>3
  <1>12. CASE Commit(r)
    <2> DEFINE w == req[r]
    <2>1. w \in WriteRequest /\ db[w.user] \in Account
      BY <1>12, <1>r, WriteShape DEF Commit, RowsStay, WriteRequest
    <2>2. /\ req' \in [Writers -> Request] /\ floor' \in [Users -> Nat]
          /\ gone' \subseteq Users /\ tokens' \subseteq Token
          /\ req' = [req EXCEPT ![r] = Idle]
      BY <1>12, <2>1, AnswerTyped DEF Commit, WriteRequest, Accounts
    <2>3. Updated(db[w.user], Dirty(w), w.to) \in Account
      <3>1. Dirty(w) \in SUBSET Fields /\ w.to \in Account
        BY <2>1 DEF Dirty, WriteRequest
      <3> QED BY <2>1, <3>1, UpdatedType
    <2>4. db' \in Accounts /\ \A u \in Users : db[u] # NoAccount => db'[u] # NoAccount
      BY <1>12, <2>1, <2>3, AccountAssumption DEF Commit, WriteRequest, Accounts
    <2>5. RowsStay'
      <3> SUFFICES ASSUME NEW q \in Writers, req'[q].pc = "commit"
                   PROVE  db'[req'[q].user] # NoAccount
        BY DEF RowsStay
      <3>1. q # r /\ req'[q] = req[q]
        BY <2>2 DEF Idle
      <3>2. req[q] \in WriteRequest
        BY <3>1, WriteShape
      <3> QED BY <2>4, <3>1, <3>2 DEF RowsStay, WriteRequest
    <2> QED BY <1>12, <2>2, <2>4, <2>5 DEF Commit, Accounts
  <1>13. CASE WriteFails(r)
    <2> DEFINE w == req[r]
    <2>1. w \in WriteRequest
      BY <1>13, <1>r, WriteShape DEF WriteFails
    <2>2. w.set \in SUBSET Fields /\ w.prev \in Account /\ w.user \in Users
      BY <2>1 DEF WriteRequest
    <2>3. mem[w.user] # NoAccount => Updated(mem[w.user], w.set, w.prev) \in Account
      BY <2>2, UpdatedType
    <2>4. mem' \in Accounts
      BY <1>13, <2>2, <2>3 DEF WriteFails, Accounts
    <2> QED BY <1>13, <2>4 DEF WriteFails, RowsStay, Request, Idle, Accounts
  <1> QED
    BY <1>1, <1>2, <1>3, <1>4, <1>5, <1>6, <1>7, <1>8, <1>9, <1>10, <1>11, <1>12, <1>13
       DEF RequestStep

LEMMA LoginStepTyped ==
    ASSUME TypeInv, NEW l \in Logins, LoginStep(l)
    PROVE  TypeInv'
  <1> USE DEF TypeInv, TypeOK
  <1>l. login[l] \in LoginRequest
    OBVIOUS
  <1>1. ASSUME NEW u \in Users, NEW pw \in Passwords, LoginStart(l, u, pw)
        PROVE  TypeInv'
    <2>1. mem[u].pw \in Passwords
      BY <1>1 DEF LoginStart, Active, Account
    <2> QED
      BY <1>1, <2>1 DEF LoginStart, RowsStay, LoginRequest, VerifyingLogin
  <1>2. CASE LoginVerify(l)
    <2> DEFINE g == login[l]
    <2>1. g \in VerifyingLogin
      BY <1>2, <1>l DEF LoginVerify, LoginRequest, Idle, VerifyingLogin, CookieLogin
    <2>2. mem[g.user] # NoAccount => mem[g.user].role \in Roles
      BY <2>1 DEF VerifyingLogin, Account
    <2>3. login' \in [Logins -> LoginRequest]
      BY <1>2, <2>1, <2>2 DEF LoginVerify, LoginRequest, VerifyingLogin, CookieLogin
    <2> QED BY <1>2, <2>3 DEF LoginVerify, RowsStay
  <1>3. CASE LoginCookie(l)
    <2> DEFINE g == login[l]
    <2>1. g \in CookieLogin
      BY <1>3, <1>l DEF LoginCookie, LoginRequest, Idle, VerifyingLogin, CookieLogin
    <2>2. Active(g.user) => mem[g.user].key \in Nat
      BY <2>1 DEF CookieLogin, Active, Account
    <2>3. tokens' \subseteq Token
      BY <1>3, <2>1, <2>2 DEF LoginCookie, CookieLogin, Token
    <2> QED BY <1>3, <2>3 DEF LoginCookie, RowsStay, LoginRequest
  <1> QED BY <1>1, <1>2, <1>3 DEF LoginStep

-----------------------------------------------------------------------------
(* Exactly one admin. *)

Writing(r, u) == req[r].pc \in {"select", "commit"} /\ req[r].user = u
Inserting(r, u) == req[r].pc = "insert" /\ req[r].user = u

\* An authenticated request whose handler has changed nothing yet.
Waiting(r) == req[r].pc \in {"admitted", "verify", "hash"}

Chiefs == {acc \in Account : acc.role = "admin" /\ ~acc.deleted}
Plains == {acc \in Account : acc.role # "admin"}

\* All that the account is, in memory and in the table, and all that a request
\* is about to make of it or would put back if its write failed, is in S.
Within(u, S) ==
    /\ mem[u] \in S \cup {NoAccount} /\ (UseDb => db[u] \in S \cup {NoAccount})
    /\ \A r \in Writers : /\ InFlight(r, u) => req[r].to \in S
                          /\ Writing(r, u) => req[r].prev \in S

\* The admin, in memory and in the table.
Chief(u) ==
    /\ Within(u, Chiefs) /\ mem[u] # NoAccount /\ (UseDb => db[u] # NoAccount)
    /\ \A r \in Writers : ~Inserting(r, u)

\* The table's admin was not loaded: no request is the admin's.
Absent(u) ==
    /\ UseDb /\ mem[u] = NoAccount /\ db[u] \in Chiefs
    /\ \A r \in Writers : ~InFlight(r, u) /\ (Waiting(r) => req[r].actor.role # "admin")

Plain(u) == Within(u, Plains)

\* The account was loaded as a deleted one, of whatever role: no request is its
\* own or about it.
Buried(u) ==
    /\ mem[u] # NoAccount /\ mem[u].deleted /\ (db[u] # NoAccount => db[u].deleted)
    /\ \A r \in Writers : ~InFlight(r, u) /\ (Waiting(r) => req[r].actor.username # u)

RoleInv(a) ==
    /\ Chief(a) \/ Absent(a)
    /\ \A u \in Users \ {a} : Plain(u) \/ Buried(u)

\* The same account stays the admin, and one that is not loaded stays so.
RoleStep(a) ==
    RoleInv(a)' /\ (mem'[a] = NoAccount => mem[a] = NoAccount /\ db'[a] = db[a])

\* A step that changes nothing of v and starts no change of it.
Still(v) ==
    /\ mem'[v] = mem[v] /\ db'[v] = db[v]
    /\ \A q \in Writers :
         /\ InFlight(q, v)' => InFlight(q, v) /\ req'[q].to = req[q].to
         /\ Writing(q, v)' => Writing(q, v) /\ req'[q].prev = req[q].prev
         /\ Inserting(q, v)' => Inserting(q, v)

\* A step that lets nobody in.
NoneAdmitted == \A q \in Writers : Waiting(q)' => Waiting(q) /\ req'[q].actor = req[q].actor

LEMMA UpdatedWithin ==
    ASSUME NEW S \in {Chiefs, Plains}, NEW acc \in S, NEW to \in S, NEW set
    PROVE  Updated(acc, set, to) \in S
  BY DEF Chiefs, Plains, Updated, Account

LEMMA KindsApart ==
    /\ Chiefs \subseteq Account /\ Plains \subseteq Account
    /\ NoAccount \notin Chiefs /\ NoAccount \notin Plains /\ Chiefs \cap Plains = {}
  BY AccountAssumption DEF Chiefs, Plains

LEMMA StillWithin ==
    ASSUME NEW v \in Users, Still(v), NEW S, Within(v, S)
    PROVE  Within(v, S)'
  BY DEF Still, Within

\* One account at most is changed, and stays what it was.
LEMMA OneRole ==
    ASSUME NEW a \in Users, RoleInv(a), NEW u \in Users, NoneAdmitted,
           \A v \in Users \ {u} : Still(v),
           \/ Still(u)
           \/ u = a /\ Chief(u)'
           \/ u # a /\ Plain(u)'
    PROVE  RoleStep(a)
  <1>1. ASSUME NEW v \in Users, Still(v)
        PROVE  /\ Chief(v) => Chief(v)'
               /\ Plain(v) => Plain(v)'
               /\ Absent(v) => Absent(v)' /\ mem'[v] = mem[v] /\ db'[v] = db[v]
               /\ Buried(v) => Buried(v)'
    <2>1. Chief(v) => Chief(v)'
      BY <1>1, StillWithin DEF Chief, Still
    <2>2. Plain(v) => Plain(v)'
      BY <1>1, StillWithin DEF Plain, Plains
    <2>3. Absent(v) => Absent(v)'
      BY <1>1 DEF Absent, Still, NoneAdmitted, Chiefs
    <2>4. Buried(v) => Buried(v)'
      BY <1>1 DEF Buried, Still, NoneAdmitted
    <2> QED BY <1>1, <2>1, <2>2, <2>3, <2>4 DEF Still
  <1>2. ASSUME NEW v \in Users \ {a} PROVE Plain(v)' \/ Buried(v)'
    BY <1>1 DEF RoleInv
  <1>3. (Chief(a)' \/ Absent(a)') /\ (mem'[a] = NoAccount => mem[a] = NoAccount /\ db'[a] = db[a])
    BY <1>1 DEF RoleInv, Chief
  <1> QED BY <1>2, <1>3 DEF RoleInv, RoleStep

LEMMA NothingChanged ==
    ASSUME TypeInv, NEW a \in Users, RoleInv(a), NEW r \in Writers, NEW q,
           UNCHANGED <<mem, db>>, req' = [req EXCEPT ![r] = q],
           q.pc \notin {"insert", "select", "commit"},
           q.pc \in {"admitted", "verify", "hash"} => Waiting(r) /\ q.actor = req[r].actor
    PROVE  RoleStep(a)
  <1>1. req'[r] = q /\ \A s \in Writers : s # r => req'[s] = req[s]
    BY DEF TypeInv, TypeOK
  <1>2. NoneAdmitted
    BY <1>1 DEF NoneAdmitted, Waiting
  <1>3. \A v \in Users : Still(v)
    BY <1>1 DEF Still, InFlight, Writing, Inserting
  <1> QED BY <1>2, <1>3, OneRole

LEMMA AdmitRoles ==
    ASSUME TypeInv, NEW a \in Users, RoleInv(a), NEW r \in Writers, Admit(r)
    PROVE  RoleStep(a)
  <1> USE DEF TypeInv, TypeOK
  <1>1. PICK t \in tokens :
          /\ Current(t)
          /\ req' = [req EXCEPT ![r] = [pc |-> "admitted",
                       actor |-> [username |-> t.user, role |-> t.role]]]
    BY DEF Admit
  <1> DEFINE q == [pc |-> "admitted", actor |-> [username |-> t.user, role |-> t.role]]
  <1>2. /\ req'[r] = q /\ q.pc = "admitted" /\ q.actor.username = t.user /\ q.actor.role = t.role
        /\ \A s \in Writers : s # r => req'[s] = req[s]
        /\ UNCHANGED <<mem, db>>
    BY <1>1 DEF Admit
  <1> HIDE DEF q
  <1>3. t.user \in Users /\ mem[t.user] # NoAccount /\ ~mem[t.user].deleted /\ mem[t.user].role = t.role
    BY <1>1 DEF Token, Current, Active
  <1>4. ASSUME NEW v \in Users
        PROVE  /\ Still(v)
               /\ Chief(v) => Chief(v)'
               /\ Plain(v) => Plain(v)'
               /\ Buried(v) => Buried(v)'
    <2>1. Still(v)
      BY <1>2 DEF Still, InFlight, Writing, Inserting
    <2>2. Chief(v) => Chief(v)'
      BY <2>1, StillWithin DEF Chief, Still
    <2>3. Plain(v) => Plain(v)'
      BY <2>1, StillWithin DEF Plain, Plains
    <2>4. Buried(v) => Buried(v)'
      BY <1>2, <1>3, <2>1 DEF Buried, Still, Waiting
    <2> QED BY <2>1, <2>2, <2>3, <2>4
  <1>5. Absent(a) => Absent(a)'
    <2> SUFFICES ASSUME Absent(a) PROVE Absent(a)'
      OBVIOUS
    <2>1. t.user # a
      BY <1>3 DEF Absent
    <2>2. Plain(t.user)
      BY <1>3, <2>1 DEF RoleInv, Buried
    <2>3. q.actor.role # "admin"
      BY <1>2, <1>3, <2>2 DEF Plain, Within, Plains
    <2>4. \A s \in Writers : Waiting(s)' => req'[s].actor.role # "admin"
      BY <1>2, <2>3 DEF Absent, Waiting
    <2> QED BY <1>4, <2>4 DEF Absent, Still, Chiefs
  <1> QED BY <1>2, <1>4, <1>5 DEF RoleInv, RoleStep, Chief

\* A change applied in memory: of an account of S to one of S.
LEMMA ApplyRoles ==
    ASSUME TypeInv, NEW r \in Writers, NEW kind \in Kinds, NEW actor \in Actor,
           NEW u \in Users, NEW set \in SUBSET Fields, NEW to,
           NEW S \in {Chiefs, Plains}, Within(u, S), to \in S, mem[u] # NoAccount, Waiting(r),
           Apply(r, kind, actor, u, set, to), UNCHANGED <<db, login>>
    PROVE  /\ Within(u, S)' /\ mem'[u] # NoAccount /\ db'[u] = db[u]
           /\ \A q \in Writers : Inserting(q, u)' => Inserting(q, u)
           /\ \A v \in Users \ {u} : Still(v)
           /\ NoneAdmitted
  <1> USE DEF TypeInv, TypeOK
  <1> DEFINE acc == Updated(mem[u], set, to)
  <1>1. mem[u] \in S /\ acc \in S /\ acc # NoAccount /\ S \subseteq Account
    BY UpdatedWithin, KindsApart DEF Within
  <1>2. mem' = [mem EXCEPT ![u] = acc]
    BY DEF Apply
  <1> HIDE DEF acc
  <1>3. mem'[u] = acc /\ \A v \in Users \ {u} : mem'[v] = mem[v]
    BY <1>2
  <1>4. PICK q : /\ req' = [req EXCEPT ![r] = q] /\ q.pc \in {"idle", "select"}
                 /\ q.pc = "select" => q.user = u /\ q.to = to /\ q.prev = mem[u]
    <2>1. CASE UseDb
      <3> DEFINE w == [pc |-> "select", kind |-> kind, actor |-> actor, user |-> u,
                       set |-> set, to |-> to, prev |-> mem[u], seen |-> mem[u]]
      <3>1. req' = [req EXCEPT ![r] = w]
        BY <2>1 DEF Apply
      <3>2. w.pc = "select" /\ w.user = u /\ w.to = to /\ w.prev = mem[u]
        OBVIOUS
      <3> HIDE DEF w
      <3> QED BY <3>1, <3>2
    <2>2. CASE ~UseDb
      BY <2>2 DEF Apply, Answer, Idle
    <2> QED BY <2>1, <2>2
  <1>5. req'[r] = q /\ \A s \in Writers : s # r => req'[s] = req[s]
    BY <1>4
  <1>6. \A v \in Users \ {u} : Still(v)
    BY <1>3, <1>4, <1>5 DEF Still, InFlight, Writing, Inserting
  <1>7. NoneAdmitted
    BY <1>4, <1>5 DEF NoneAdmitted, Waiting
  <1>8. Within(u, S)'
    BY <1>1, <1>3, <1>4, <1>5 DEF Within, InFlight, Writing
  <1>9. \A s \in Writers : Inserting(s, u)' => Inserting(s, u)
    BY <1>4, <1>5 DEF Inserting
  <1> QED BY <1>1, <1>3, <1>6, <1>7, <1>8, <1>9

\* A change that leaves an admin an active admin and makes nobody else one.
LEMMA ChangeRoles ==
    ASSUME TypeInv, NEW a \in Users, RoleInv(a), NEW r \in Writers, NEW kind \in Kinds,
           NEW actor \in Actor, NEW u \in Users, NEW set \in SUBSET Fields, NEW to \in Account,
           mem[u] # NoAccount, ~Buried(u), Waiting(r),
           \/ to.role = mem[u].role /\ to.deleted = mem[u].deleted
           \/ mem[u].role # "admin" /\ to.role # "admin",
           Apply(r, kind, actor, u, set, to), UNCHANGED <<db, login>>
    PROVE  RoleStep(a)
  <1>1. CASE u = a
    <2>1. Chief(u) /\ Within(u, Chiefs)
      BY <1>1 DEF RoleInv, Absent, Chief
    <2>2. to \in Chiefs
      BY <2>1 DEF Chief, Within, Chiefs
    <2>3. /\ Within(u, Chiefs)' /\ mem'[u] # NoAccount /\ db'[u] = db[u] /\ NoneAdmitted
          /\ \A q \in Writers : Inserting(q, u)' => Inserting(q, u)
          /\ \A v \in Users \ {u} : Still(v)
      BY <2>1, <2>2, ApplyRoles
    <2>4. Chief(u)'
      BY <2>1, <2>3 DEF Chief
    <2> QED BY <1>1, <2>3, <2>4, OneRole
  <1>2. CASE u # a
    <2>1. Plain(u) /\ Within(u, Plains)
      BY <1>2 DEF RoleInv, Plain
    <2>2. to \in Plains
      BY <2>1 DEF Within, Plains
    <2>3. Within(u, Plains)' /\ NoneAdmitted /\ \A v \in Users \ {u} : Still(v)
      BY <2>1, <2>2, ApplyRoles
    <2> QED BY <1>2, <2>3, OneRole DEF Plain
  <1> QED BY <1>1, <1>2

LEMMA CreateRoles ==
    ASSUME TypeInv, NEW a \in Users, RoleInv(a), NEW r \in Writers, NEW u \in Users,
           NEW role \in RoleInput, NEW pw \in Passwords, CreateUser(r, u, role, pw)
    PROVE  RoleStep(a)
  <1> USE DEF TypeInv, TypeOK
  <1> DEFINE row == [role |-> role, pw |-> pw, key |-> NewKey, deleted |-> FALSE]
  <1>1. row \in Plains
    BY DEF CreateUser, ValidRole, CheckUserCreate, NewKey, Plains, Account
  <1>2. /\ mem[u] = NoAccount /\ mem' = [mem EXCEPT ![u] = row] /\ UNCHANGED db
        /\ req[r].pc = "admitted" /\ req[r].actor.role = "admin"
    BY DEF CreateUser, CheckUserCreate
  <1>3. PICK q : /\ req' = [req EXCEPT ![r] = q] /\ q.pc \in {"idle", "insert"}
                 /\ q.pc = "insert" => q.user = u /\ q.to = row
    <2>1. CASE UseDb
      <3> DEFINE w == [pc |-> "insert", user |-> u, to |-> row]
      <3>1. req' = [req EXCEPT ![r] = w] /\ w.pc = "insert" /\ w.user = u /\ w.to = row
        BY <2>1 DEF CreateUser
      <3> HIDE DEF w, row
      <3> QED BY <3>1
    <2>2. CASE ~UseDb
      BY <2>2 DEF CreateUser, Answer, Idle
    <2> QED BY <2>1, <2>2
  <1> HIDE DEF row
  <1>4. mem'[u] = row /\ \A v \in Users \ {u} : mem'[v] = mem[v]
    BY <1>2
  <1>5. req'[r] = q /\ \A s \in Writers : s # r => req'[s] = req[s]
    BY <1>3
  <1>6. u # a /\ Plain(u)
    BY <1>2 DEF RoleInv, Chief, Absent, Buried, Waiting
  <1>7. \A v \in Users \ {u} : Still(v)
    BY <1>2, <1>3, <1>4, <1>5 DEF Still, InFlight, Writing, Inserting
  <1>8. NoneAdmitted
    BY <1>3, <1>5 DEF NoneAdmitted, Waiting
  <1>9. Plain(u)'
    BY <1>1, <1>2, <1>3, <1>4, <1>5, <1>6 DEF Plain, Within, InFlight, Writing, Plains
  <1> QED BY <1>6, <1>7, <1>8, <1>9, OneRole

LEMMA UpdateRoles ==
    ASSUME TypeInv, NEW a \in Users, RoleInv(a), NEW r \in Writers, NEW u \in Users,
           NEW body \in UpdateBody, UpdateUser(r, u, body)
    PROVE  RoleStep(a)
  <1> DEFINE role == IF "role" \in body.has THEN body.role ELSE mem[u].role
  <1> DEFINE to == [mem[u] EXCEPT !.role = IF "role" \in body.has THEN body.role ELSE @,
                                  !.pw = body.password, !.key = NewKey]
  <1> DEFINE set == ChangedFields(mem[u], body)
  <1>1. mem[u] \in Account /\ mem[u] # NoAccount /\ ~mem[u].deleted
    BY DEF UpdateUser, CheckUserUpdate, Missing, TypeInv, TypeOK
  <1>2. /\ to = [mem[u] EXCEPT !.role = role, !.pw = body.password, !.key = NewKey]
        /\ to.role = role /\ to.deleted = mem[u].deleted
    BY <1>1 DEF Account
  <1>3. to \in Account
    <2>1. role \in Roles /\ body.password \in Passwords /\ NewKey \in Nat
      BY <1>1 DEF UpdateUser, Account, ValidRole, NewKey, UpdateBody, TypeInv, TypeOK
    <2> HIDE DEF role, to
    <2> QED BY <1>1, <1>2, <2>1, FieldsChanged
  <1>4. set \in SUBSET Fields
    BY DEF ChangedFields, Fields
  <1>5. role = mem[u].role \/ "admin" \notin {role, mem[u].role}
    BY DEF UpdateUser, CheckUserUpdate
  <1>6. req[r].actor \in Actor /\ Waiting(r)
    BY ActorTyped DEF UpdateUser, Waiting, TypeInv
  <1>7. Apply(r, "update", req[r].actor, u, set, to) /\ UNCHANGED <<db, login>>
    BY DEF UpdateUser
  <1>8. ~Buried(u)
    BY <1>1 DEF Buried
  <1> HIDE DEF to, set, role
  <1> QED BY <1>1, <1>2, <1>3, <1>4, <1>5, <1>6, <1>7, <1>8, ChangeRoles DEF Kinds

LEMMA DeleteRoles ==
    ASSUME TypeInv, NEW a \in Users, RoleInv(a), NEW r \in Writers, NEW u \in Users, DeleteUser(r, u)
    PROVE  RoleStep(a)
  <1> DEFINE to == [mem[u] EXCEPT !.deleted = TRUE, !.key = NewKey]
  <1>1. mem[u] \in Account /\ mem[u] # NoAccount /\ ~mem[u].deleted /\ mem[u].role # "admin"
    BY DEF DeleteUser, CheckUserDelete, Missing, TypeInv, TypeOK
  <1>2. to \in Account /\ to.role # "admin"
    <2>1. mem[u].role \in Roles /\ mem[u].pw \in Passwords /\ NewKey \in Nat
      BY <1>1 DEF Account, NewKey, TypeInv, TypeOK
    <2> QED BY <1>1, <2>1, FieldsChanged DEF Account
  <1>3. req[r].actor \in Actor /\ Waiting(r)
    BY ActorTyped DEF DeleteUser, Waiting, TypeInv
  <1>4. Apply(r, "delete", req[r].actor, u, {"deleted", "key"}, to) /\ UNCHANGED <<db, login>>
    BY DEF DeleteUser
  <1>5. ~Buried(u)
    BY <1>1 DEF Buried
  <1> HIDE DEF to
  <1> QED BY <1>1, <1>2, <1>3, <1>4, <1>5, ChangeRoles DEF Kinds, Fields

LEMMA HashOwnRoles ==
    ASSUME TypeInv, NEW a \in Users, RoleInv(a), NEW r \in Writers, HashOwn(r)
    PROVE  RoleStep(a)
  <1> USE DEF TypeInv, TypeOK
  <1> DEFINE u == req[r].actor.username
  <1>1. req[r] \in OwnRequest /\ req[r].actor \in Actor /\ u \in Users /\ Waiting(r)
    BY OwnShape DEF HashOwn, OwnRequest, Actor, Waiting
  <1>2. CASE mem[u] = NoAccount
    BY <1>2, NothingChanged DEF HashOwn, Idle
  <1>3. CASE mem[u] # NoAccount
    <2> DEFINE to == [mem[u] EXCEPT !.pw = req[r].new, !.key = NewKey]
    <2>1. to \in Account /\ to.role = mem[u].role /\ to.deleted = mem[u].deleted
      <3>1. mem[u] \in Account /\ req[r].new \in Passwords /\ NewKey \in Nat
        BY <1>1, <1>3 DEF NewKey, OwnRequest
      <3>2. mem[u].role \in Roles
        BY <3>1 DEF Account
      <3> QED BY <3>1, <3>2, FieldsChanged DEF Account
    <2>2. Apply(r, "own", req[r].actor, u, {"pw", "key"}, to) /\ UNCHANGED <<db, login>>
      BY <1>3 DEF HashOwn
    <2>3. ~Buried(u)
      BY <1>1 DEF Buried
    <2> HIDE DEF to, u
    <2> QED BY <1>1, <1>3, <2>1, <2>2, <2>3, ChangeRoles DEF Kinds, Fields
  <1> QED BY <1>2, <1>3

\* The request about u's account ends: what it leaves is of the same kind.
LEMMA EndRoles ==
    ASSUME TypeInv, NEW a \in Users, RoleInv(a), NEW r \in Writers, NEW u \in Users, InFlight(r, u),
           req' = [req EXCEPT ![r] = Idle],
           \A v \in Users \ {u} : mem'[v] = mem[v] /\ db'[v] = db[v],
           \A S \in {Chiefs, Plains} : Within(u, S) =>
             mem'[u] \in S \cup {NoAccount} /\ (UseDb => db'[u] \in S \cup {NoAccount}),
           ~Inserting(r, u) => mem[u] = NoAccount \/ mem'[u] # NoAccount,
           db[u] = NoAccount \/ db'[u] # NoAccount
    PROVE  RoleStep(a)
  <1>1. req'[r] = Idle /\ Idle.pc = "idle" /\ \A s \in Writers : s # r => req'[s] = req[s]
    BY DEF TypeInv, TypeOK, Idle
  <1>2. NoneAdmitted
    BY <1>1 DEF NoneAdmitted, Waiting
  <1>3. \A v \in Users \ {u} : Still(v)
    BY <1>1 DEF Still, InFlight, Writing, Inserting
  <1>4. \A S \in {Chiefs, Plains} : Within(u, S) => Within(u, S)'
    BY <1>1 DEF Within, InFlight, Writing
  <1>5. CASE u = a
    <2>1. Chief(u)
      BY <1>5 DEF RoleInv, Absent
    <2>2. Chief(u)'
      BY <1>1, <1>4, <2>1 DEF Chief, Inserting
    <2> QED BY <1>2, <1>3, <1>5, <2>2, OneRole
  <1>6. CASE u # a
    <2>1. Plain(u)
      BY <1>6 DEF RoleInv, Buried
    <2>2. Plain(u)'
      BY <1>4, <2>1 DEF Plain
    <2> QED BY <1>2, <1>3, <1>6, <2>2, OneRole
  <1> QED BY <1>5, <1>6

LEMMA InsertRoles ==
    ASSUME TypeInv, NEW a \in Users, RoleInv(a), NEW r \in Writers, Insert(r) \/ InsertFails(r)
    PROVE  RoleStep(a)
  <1> USE DEF TypeInv, TypeOK
  <1>1. req[r] \in InsertRequest /\ req[r].pc = "insert"
    BY InsertShape DEF Insert, InsertFails
  <1>2. PICK u \in Users : req[r].user = u
    BY <1>1 DEF InsertRequest
  <1>3. InFlight(r, u) /\ Inserting(r, u) /\ req[r].to # NoAccount
    BY <1>1, <1>2, AccountAssumption DEF InFlight, Inserting, InsertRequest
  <1>4. \A S : Within(u, S) => /\ req[r].to \in S /\ mem[u] \in S \cup {NoAccount}
                               /\ UseDb => db[u] \in S \cup {NoAccount}
    BY <1>3 DEF Within
  <1>5. CASE Insert(r)
    BY <1>2, <1>3, <1>4, <1>5, EndRoles DEF Insert, Answer
  <1>6. CASE InsertFails(r)
    BY <1>2, <1>3, <1>4, <1>6, EndRoles DEF InsertFails
  <1> QED BY <1>5, <1>6

LEMMA SelectRoles ==
    ASSUME TypeInv, NEW a \in Users, RoleInv(a), NEW r \in Writers, Select(r)
    PROVE  RoleStep(a)
  <1> USE DEF TypeInv, TypeOK
  <1>1. req[r] \in WriteRequest /\ req[r].pc = "select" /\ req[r].user \in Users
    BY WriteShape DEF Select, WriteRequest
  <1>2. CASE db[req[r].user] = NoAccount
    BY <1>2, NothingChanged DEF Select, Answer, Idle
  <1>3. CASE db[req[r].user] # NoAccount
    <2> DEFINE w == [req[r] EXCEPT !.pc = "commit", !.seen = db[req[r].user]]
    <2>1. req' = [req EXCEPT ![r] = w] /\ UNCHANGED <<mem, db>>
      BY <1>3 DEF Select
    <2>2. w.pc = "commit" /\ w.user = req[r].user /\ w.to = req[r].to /\ w.prev = req[r].prev
      BY <1>1 DEF WriteRequest
    <2> HIDE DEF w
    <2>3. req'[r] = w /\ \A s \in Writers : s # r => req'[s] = req[s]
      BY <2>1
    <2>4. \A v \in Users : Still(v)
      BY <1>1, <2>1, <2>2, <2>3 DEF Still, InFlight, Writing, Inserting
    <2>5. NoneAdmitted
      BY <2>2, <2>3 DEF NoneAdmitted, Waiting
    <2> QED BY <2>4, <2>5, OneRole
  <1> QED BY <1>2, <1>3

LEMMA WriteRoles ==
    ASSUME TypeInv, NEW a \in Users, RoleInv(a), NEW r \in Writers, Commit(r) \/ WriteFails(r)
    PROVE  RoleStep(a)
  <1> USE DEF TypeInv, TypeOK
  <1> DEFINE w == req[r]
  <1>1. w \in WriteRequest /\ w.pc \in {"select", "commit"}
    BY WriteShape DEF Commit, WriteFails
  <1>2. PICK u \in Users : w.user = u
    BY <1>1 DEF WriteRequest
  <1>3. InFlight(r, u) /\ Writing(r, u) /\ ~Inserting(r, u)
    BY <1>1, <1>2 DEF InFlight, Writing, Inserting
  <1>4. \A S : Within(u, S) => /\ w.to \in S /\ w.prev \in S
                               /\ mem[u] \in S \cup {NoAccount}
                               /\ UseDb => db[u] \in S \cup {NoAccount}
    BY <1>3 DEF Within
  <1>5. w.set \in SUBSET Fields /\ Dirty(w) \in SUBSET Fields /\ w.to \in Account /\ w.prev \in Account
    BY <1>1 DEF WriteRequest, Dirty
  <1>6. CASE Commit(r)
    <2> DEFINE acc == Updated(db[u], Dirty(w), w.to)
    <2>1. db' = [db EXCEPT ![u] = acc] /\ mem' = mem /\ req' = [req EXCEPT ![r] = Idle]
      BY <1>2, <1>6 DEF Commit, Answer
    <2>2. db[u] # NoAccount
      BY <1>2, <1>6 DEF Commit, RowsStay
    <2>3. \A S \in {Chiefs, Plains} : Within(u, S) /\ UseDb => acc \in S
      BY <1>4, <2>2, UpdatedWithin
    <2>4. acc # NoAccount
      BY <1>5, <2>2, UpdatedType, AccountAssumption
    <2> HIDE DEF acc, w
    <2> QED BY <1>3, <1>4, <2>1, <2>3, <2>4, EndRoles
  <1>7. CASE WriteFails(r)
    <2> DEFINE acc == IF mem[u] = NoAccount THEN NoAccount ELSE Updated(mem[u], w.set, w.prev)
    <2>1. mem' = [mem EXCEPT ![u] = acc] /\ db' = db /\ req' = [req EXCEPT ![r] = Idle]
      BY <1>2, <1>7 DEF WriteFails
    <2>2. \A S \in {Chiefs, Plains} : Within(u, S) => acc \in S \cup {NoAccount}
      BY <1>4, UpdatedWithin
    <2>3. mem[u] = NoAccount \/ acc # NoAccount
      BY <1>5, UpdatedType, AccountAssumption
    <2> HIDE DEF acc, w
    <2> QED BY <1>3, <1>4, <2>1, <2>2, <2>3, EndRoles
  <1> QED BY <1>6, <1>7

LEMMA RequestStepRoles ==
    ASSUME TypeInv, NEW a \in Users, RoleInv(a), NEW r \in Writers, RequestStep(r)
    PROVE  RoleStep(a)
  <1>1. CASE ReadOrRefuse(r)
    BY <1>1, NothingChanged DEF ReadOrRefuse, Idle
  <1>2. ASSUME NEW current \in Passwords, NEW new \in Passwords, OwnPassword(r, current, new)
        PROVE  RoleStep(a)
    <2> DEFINE q == [pc |-> "verify", actor |-> req[r].actor, hash |-> mem[req[r].actor.username].pw,
                     current |-> current, new |-> new]
    <2>1. req' = [req EXCEPT ![r] = q] /\ q.pc = "verify" /\ q.actor = req[r].actor
          /\ UNCHANGED <<mem, db>> /\ Waiting(r)
      BY <1>2 DEF OwnPassword, Waiting
    <2> HIDE DEF q
    <2> QED BY <2>1, NothingChanged
  <1>3. CASE VerifyOwn(r)
    <2>1. req[r] \in OwnRequest /\ Waiting(r)
      BY <1>3, OwnShape DEF VerifyOwn, TypeInv, TypeOK, Waiting
    <2> DEFINE q == [req[r] EXCEPT !.pc = "hash"]
    <2>2. q.pc = "hash" /\ q.actor = req[r].actor
      BY <2>1 DEF OwnRequest
    <2>3. UNCHANGED <<mem, db>> /\ (req' = [req EXCEPT ![r] = Idle] \/ req' = [req EXCEPT ![r] = q])
      BY <1>3 DEF VerifyOwn
    <2> HIDE DEF q
    <2> QED BY <2>1, <2>2, <2>3, NothingChanged DEF Idle
  <1> QED
    BY <1>1, <1>2, <1>3, AdmitRoles, CreateRoles, UpdateRoles, DeleteRoles, HashOwnRoles, InsertRoles,
       SelectRoles, WriteRoles DEF RequestStep

\* Who is admin outlives every step of a request or a login.
LEMMA ServingRoles ==
    ASSUME TypeInv, NEW a \in Users, RoleInv(a),
           (\E r \in Writers : RequestStep(r)) \/ (\E l \in Logins : LoginStep(l))
    PROVE  RoleStep(a)
  <1>1. ASSUME NEW l \in Logins, LoginStep(l)
        PROVE  RoleStep(a)
    <2>1. UNCHANGED <<mem, db, req>>
      BY <1>1 DEF LoginStep, LoginStart, LoginVerify, LoginCookie
    <2>2. NoneAdmitted /\ \A v \in Users : Still(v)
      BY <2>1 DEF NoneAdmitted, Waiting, Still, InFlight, Writing, Inserting
    <2> QED BY <2>2, OneRole
  <1> QED BY <1>1, RequestStepRoles

-----------------------------------------------------------------------------
(* Session keys and passwords, in memory, in the table and in requests. *)

\* Keys are numbered as they are drawn.
KeysDrawn ==
    /\ \A u \in Users : /\ mem[u] # NoAccount => mem[u].key <= lastKey
                        /\ db[u] # NoAccount => db[u].key <= lastKey
                        /\ floor[u] <= lastKey
    /\ \A t \in tokens : t.key <= lastKey
    /\ \A r \in Writers, u \in Users :
         /\ InFlight(r, u) => req[r].to.key <= lastKey
         /\ Writing(r, u) => req[r].prev.key <= lastKey

\* What each kind of change sets; hash_password runs only for a password that
\* password_problem has accepted.
Changes ==
    \A r \in Writers :
      /\ req[r].pc \in {"select", "commit"} =>
           /\ "key" \in req[r].set
           /\ req[r].kind = "own" => "pw" \in req[r].set
           /\ req[r].kind = "delete" => "deleted" \in req[r].set
           /\ "deleted" \in req[r].set => req[r].to.deleted
      /\ req[r].pc = "hash" => GoodPassword(req[r].actor.username, req[r].new)

\* Without a database there is no table and nothing waits for it.
NoTable ==
    ~UseDb => /\ \A u \in Users : db[u] = NoAccount
              /\ \A r \in Writers : req[r].pc \notin {"insert", "select", "commit"}

\* Of an account with one change in flight at most: the row is what the change
\* found, the memory what it makes of it; at rest they are the same.
Mirrored(u) ==
    /\ \A r, s \in Writers : InFlight(r, u) /\ InFlight(s, u) => r = s
    /\ \A r \in Writers :
         /\ Inserting(r, u) => /\ mem[u] = req[r].to /\ ~req[r].to.deleted
                               /\ db[u] # NoAccount => db[u].key < req[r].to.key
         /\ Writing(r, u) => /\ db[u] = req[r].prev
                             /\ mem[u] = Updated(req[r].prev, req[r].set, req[r].to)
                             /\ req[r].prev.key < req[r].to.key
                             /\ req[r].pc = "commit" => req[r].seen = req[r].prev
    /\ UseDb /\ (\A r \in Writers : ~InFlight(r, u)) => mem[u] \in {NoAccount, db[u]}

\* No key is older than that of the last change that was answered.
Newest(u) ==
    /\ mem[u] # NoAccount => floor[u] <= mem[u].key
    /\ db[u] # NoAccount => floor[u] <= db[u].key

\* A session with the account's key was opened with its password, or overtaken.
Knows(acc, u) ==
    acc # NoAccount =>
      \A t \in tokens : t.user = u /\ t.key = acc.key /\ t.key # 0 => t.pw \in {acc.pw, Late}

GoneInTable(u) == u \in gone /\ UseDb => db[u] # NoAccount /\ db[u].deleted
GoneInMemory == \A u \in gone \ met : mem[u] # NoAccount /\ mem[u].deleted

\* The account does not have this password, and no failed write makes it so.
Clean(u, p) ==
    /\ mem[u] # NoAccount => mem[u].pw # p
    /\ \A r \in Writers : Writing(r, u) => /\ req[r].prev.pw # p
                                           /\ "pw" \in req[r].set => req[r].to.pw # p

\* The account was loaded as a deleted one, and no failed write brings it back.
Dead(u) ==
    /\ mem[u] # NoAccount /\ mem[u].deleted
    /\ \A r \in Writers : /\ ~Inserting(r, u)
                          /\ Writing(r, u) /\ "deleted" \in req[r].set => req[r].prev.deleted

\* No session opened with the demo admin's password has a key of the account.
Rotated(u) ==
    \A t \in tokens : t.user = u /\ t.pw = AdminDemo /\ t.key # 0 =>
      /\ mem[u] # NoAccount => mem[u].key # t.key
      /\ db[u] # NoAccount => db[u].key # t.key
      /\ \A r \in Writers : /\ InFlight(r, u) => req[r].to.key # t.key
                            /\ Writing(r, u) => req[r].prev.key # t.key

RetiredInv(u) ==
    u \in Retired => /\ Clean(u, Public) \/ Dead(u)
                     /\ \A t \in tokens : t.user = u => t.pw # Public

UserInv(u) ==
    /\ u \notin met => /\ Mirrored(u) /\ Newest(u) /\ GoneInTable(u)
                       /\ Knows(mem[u], u) /\ Knows(db[u], u)
    /\ RetiredInv(u)

KeysInv == KeysDrawn /\ Changes /\ NoTable /\ \A u \in Users : UserInv(u)

\* While the server is up and no demo; a is its admin.
ServingInv(a) == KeysInv /\ GoneInMemory /\ Clean(a, AdminDemo) /\ Rotated(a)

\* The account is not in memory, but for one whose row is not yet written.
Unloaded(u) == mem[u] = NoAccount \/ \E r \in Writers : Inserting(r, u)

\* A row of the table that is not loaded stays so and as it is.
HiddenStay ==
    UseDb => \A u \in Users \ met' : Unloaded(u)' => Unloaded(u) /\ db'[u] = db[u]

KeysStep(a) == ServingInv(a)' /\ HiddenStay

-----------------------------------------------------------------------------

\* A step that is not about v.
Untouched(v) ==
    /\ mem'[v] = mem[v] /\ db'[v] = db[v] /\ floor'[v] = floor[v]
    /\ v \in met' <=> v \in met
    /\ v \in gone' <=> v \in gone
    /\ \A q \in Writers : InFlight(q, v) \/ InFlight(q, v)' => req'[q] = req[q]
    /\ \A t \in tokens' : t.user = v => t \in tokens

LEMMA Frame ==
    ASSUME NEW v \in Users, Untouched(v)
    PROVE  /\ UserInv(v) => UserInv(v)'
           /\ \A p \in Passwords : Clean(v, p) => Clean(v, p)'
           /\ Rotated(v) => Rotated(v)'
           /\ Unloaded(v)' => Unloaded(v) /\ db'[v] = db[v]
  <1> USE DEF Untouched
  <1>1. \A q \in Writers : /\ InFlight(q, v)' <=> InFlight(q, v)
                           /\ Writing(q, v)' <=> Writing(q, v)
                           /\ Inserting(q, v)' <=> Inserting(q, v)
    BY DEF InFlight, Writing, Inserting
  <1>2. \A q \in Writers : InFlight(q, v) => req'[q] = req[q]
    OBVIOUS
  <1>3. \A q \in Writers : Writing(q, v) \/ Inserting(q, v) => InFlight(q, v)
    BY DEF InFlight, Writing, Inserting
  <1>4. Mirrored(v) => Mirrored(v)'
    BY <1>1, <1>2, <1>3 DEF Mirrored, Updated
  <1>5. /\ Newest(v) => Newest(v)'
        /\ GoneInTable(v) => GoneInTable(v)'
        /\ Knows(mem[v], v) => Knows(mem[v], v)'
        /\ Knows(db[v], v) => Knows(db[v], v)'
    BY DEF Newest, GoneInTable, Knows
  <1>6. \A p \in Passwords : Clean(v, p) => Clean(v, p)'
    BY <1>1, <1>2, <1>3 DEF Clean
  <1>7. Dead(v) => Dead(v)'
    BY <1>1, <1>2, <1>3 DEF Dead
  <1>8. RetiredInv(v) => RetiredInv(v)'
    BY <1>6, <1>7, PublicAssumption DEF RetiredInv
  <1>9. Rotated(v) => Rotated(v)'
    BY <1>1, <1>2, <1>3 DEF Rotated
  <1>10. Unloaded(v)' => Unloaded(v) /\ db'[v] = db[v]
    BY <1>1 DEF Unloaded
  <1> QED BY <1>4, <1>5, <1>6, <1>8, <1>9, <1>10 DEF UserInv

LEMMA FlightTyped ==
    ASSUME TypeInv, NEW r \in Writers, NEW u \in Users, InFlight(r, u)
    PROVE  /\ req[r].to \in Account /\ req[r].to.key \in Nat
           /\ Writing(r, u) => /\ req[r].prev \in Account /\ req[r].prev.key \in Nat
                               /\ req[r].seen \in Account /\ req[r].set \in SUBSET Fields
                               /\ req[r].kind \in Kinds /\ req[r].actor \in Actor
                               /\ req[r] \in WriteRequest
           /\ Writing(r, u) \/ Inserting(r, u)
  <1>1. req[r] \in Request
    BY DEF TypeInv, TypeOK
  <1>2. CASE req[r].pc = "insert"
    BY <1>1, <1>2, InsertShape DEF InsertRequest, InFlight, Writing, Inserting, Account
  <1>3. CASE req[r].pc \in {"select", "commit"}
    BY <1>1, <1>3, WriteShape DEF WriteRequest, InFlight, Writing, Inserting, Account
  <1> QED BY <1>2, <1>3 DEF InFlight

LEMMA UpdatedFields ==
    ASSUME NEW acc, NEW set, NEW to
    PROVE  /\ Updated(acc, set, to).pw = IF "pw" \in set THEN to.pw ELSE acc.pw
           /\ Updated(acc, set, to).key = IF "key" \in set THEN to.key ELSE acc.key
           /\ Updated(acc, set, to).deleted = IF "deleted" \in set THEN to.deleted ELSE acc.deleted
  BY DEF Updated

\* What a step about u's account has to show of it.
AccountStep(a, u) ==
    /\ UserInv(u)'
    /\ u = a => Clean(u, AdminDemo)' /\ Rotated(u)'
    /\ u \in gone' \ met' => mem'[u] # NoAccount /\ mem'[u].deleted
    /\ UseDb /\ u \notin met' /\ Unloaded(u)' => Unloaded(u) /\ db'[u] = db[u]

LEMMA OneAccount ==
    ASSUME NEW a \in Users, ServingInv(a), NEW u \in Users, AccountStep(a, u), \A v \in Users \ {u} : Untouched(v),
           KeysDrawn', Changes', NoTable', met \subseteq Users, gone' \subseteq Users
    PROVE  KeysStep(a)
  <1> USE DEF ServingInv, KeysInv
  <1>1. ASSUME NEW v \in Users \ {u}
        PROVE  /\ UserInv(v)'
               /\ v = a => Clean(v, AdminDemo)' /\ Rotated(v)'
               /\ v \in gone' \ met' => mem'[v] # NoAccount /\ mem'[v].deleted
               /\ Unloaded(v)' => Unloaded(v) /\ db'[v] = db[v]
    <2>1. Untouched(v)
      OBVIOUS
    <2>2. v \in gone' \ met' => v \in gone \ met /\ mem'[v] = mem[v]
      BY <2>1 DEF Untouched
    <2> QED BY <2>1, <2>2, PublicAssumption, Frame DEF GoneInMemory
  <1>2. \A v \in Users : UserInv(v)'
    BY <1>1 DEF AccountStep
  <1>3. Clean(a, AdminDemo)' /\ Rotated(a)'
    BY <1>1 DEF AccountStep
  <1>4. GoneInMemory'
    BY <1>1 DEF AccountStep, GoneInMemory
  <1>5. HiddenStay
    BY <1>1 DEF AccountStep, HiddenStay
  <1> QED BY <1>2, <1>3, <1>4, <1>5 DEF KeysStep

\* A step that only moves a request which has changed nothing yet.
LEMMA QuietKeys ==
    ASSUME TypeInv, NEW a \in Users, ServingInv(a), NEW r \in Writers, NEW q,
           req' = [req EXCEPT ![r] = q],
           req[r].pc \notin {"insert", "select", "commit"},
           q.pc \notin {"insert", "select", "commit"},
           q.pc = "hash" => GoodPassword(q.actor.username, q.new),
           UNCHANGED <<mem, db, lastKey, tokens, floor, gone, met>>
    PROVE  KeysStep(a)
  <1>1. \A s \in Writers : s # r => req'[s] = req[s]
    BY DEF TypeInv, TypeOK
  <1>2. req'[r] = q
    BY DEF TypeInv, TypeOK
  <1>3. \A v \in Users : Untouched(v)
    BY <1>1, <1>2 DEF Untouched, InFlight
  <1>4. KeysDrawn'
    BY <1>1, <1>2 DEF ServingInv, KeysInv, KeysDrawn, InFlight, Writing
  <1>5. Changes'
    BY <1>1, <1>2 DEF ServingInv, KeysInv, Changes, GoodPassword
  <1>6. NoTable'
    BY <1>1, <1>2 DEF ServingInv, KeysInv, NoTable
  <1>7. AccountStep(a, a)
    <2>1. Untouched(a)
      BY <1>3
    <2> QED BY <2>1, PublicAssumption, Frame DEF AccountStep, ServingInv, KeysInv, GoneInMemory
  <1> QED BY <1>3, <1>4, <1>5, <1>6, <1>7, OneAccount DEF TypeInv, TypeOK

\* What _apply is called with.
Proper(kind, u, set, to) ==
    /\ to.key = NewKey /\ "key" \in set
    /\ kind = "own" => "pw" \in set
    /\ kind = "delete" => "deleted" \in set
    /\ "deleted" \in set => to.deleted /\ ~mem[u].deleted
    /\ "pw" \in set => to.pw # AdminDemo /\ (u \in Retired => to.pw # Public)

LEMMA ApplyKeys ==
    ASSUME TypeInv, NEW a \in Users, ServingInv(a), NEW r \in Writers, NEW kind \in Kinds, NEW actor \in Actor,
           NEW u \in Users, NEW set \in SUBSET Fields, NEW to \in Account,
           mem[u] # NoAccount, req[r].pc \in {"admitted", "hash"},
           Proper(kind, u, set, to),
           Apply(r, kind, actor, u, set, to), UNCHANGED <<db, login>>
    PROVE  KeysStep(a)
  <1> USE DEF TypeInv, TypeOK
  <1> DEFINE acc == Updated(mem[u], set, to)
  <1>1. mem[u] \in Account /\ acc \in Account /\ acc # NoAccount
    BY UpdatedType, AccountAssumption
  <1>2. /\ acc.key = NewKey /\ to.key = NewKey /\ NewKey \in Nat /\ lastKey < NewKey
        /\ acc.pw = (IF "pw" \in set THEN to.pw ELSE mem[u].pw)
        /\ mem[u].deleted => acc.deleted
        /\ kind = "delete" => acc.deleted
        /\ mem[u].key \in Nat /\ mem[u].key <= lastKey
    BY <1>1, UpdatedFields DEF Proper, NewKey, Account, ServingInv, KeysInv, KeysDrawn
  <1>3. /\ mem' = [mem EXCEPT ![u] = acc] /\ lastKey' = NewKey /\ met' = met \cup Meeting(u)
        /\ mem'[u] = acc /\ \A v \in Users \ {u} : mem'[v] = mem[v]
    BY <1>2 DEF Apply
  <1>4. ~InFlight(r, u) /\ \A v \in Users : ~InFlight(r, v)
    BY DEF InFlight
  <1>5. u \notin met' => u \notin met /\ \A q \in Writers : ~InFlight(q, u)
    BY <1>3 DEF Meeting
  <1>6. \A v \in Users \ {u} : v \in met' <=> v \in met
    BY <1>3 DEF Meeting
  <1> HIDE DEF acc
  <1>7. CASE UseDb
    <2> DEFINE w == [pc |-> "select", kind |-> kind, actor |-> actor, user |-> u,
                     set |-> set, to |-> to, prev |-> mem[u], seen |-> mem[u]]
    <2>1. req' = [req EXCEPT ![r] = w] /\ UNCHANGED <<tokens, floor, gone>>
      BY <1>7 DEF Apply
    <2>2. req'[r] = w /\ \A q \in Writers : q # r => req'[q] = req[q]
      BY <2>1
    <2>3. /\ \A v \in Users : InFlight(r, v)' <=> v = u
          /\ \A v \in Users : Writing(r, v)' <=> v = u
          /\ \A v \in Users : ~Inserting(r, v)'
      BY <2>2 DEF InFlight, Writing, Inserting
    <2>4. \A q \in Writers, v \in Users : q # r =>
            /\ InFlight(q, v)' <=> InFlight(q, v)
            /\ Writing(q, v)' <=> Writing(q, v)
            /\ Inserting(q, v)' <=> Inserting(q, v)
      BY <2>2 DEF InFlight, Writing, Inserting
    <2>5. /\ w.pc = "select" /\ w.kind = kind /\ w.set = set /\ w.to = to
          /\ w.prev = mem[u] /\ w.seen = mem[u] /\ w.user = u
      OBVIOUS
    <2> HIDE DEF w
    <2>6. \A v \in Users \ {u} : Untouched(v)
      BY <1>3, <1>4, <1>6, <2>1, <2>2, <2>3 DEF Untouched
    <2>7. KeysDrawn'
      <3>1. /\ \A v \in Users : /\ mem'[v] # NoAccount => mem'[v].key <= lastKey'
                                /\ db'[v] # NoAccount => db'[v].key <= lastKey'
                                /\ floor'[v] <= lastKey'
            /\ \A t \in tokens' : t.key <= lastKey'
        BY <1>1, <1>2, <1>3, <2>1 DEF ServingInv, KeysInv, KeysDrawn, Account, Token
      <3>2. ASSUME NEW q \in Writers, NEW v \in Users
            PROVE  /\ InFlight(q, v)' => req'[q].to.key <= lastKey'
                   /\ Writing(q, v)' => req'[q].prev.key <= lastKey'
        <4>1. CASE q = r
          BY <1>2, <1>3, <2>2, <2>5, <4>1
        <4>2. CASE q # r
          <5>1. Writing(q, v) => InFlight(q, v)
            BY DEF Writing, InFlight
          <5> QED BY <1>2, <1>3, <2>2, <2>4, <4>2, <5>1, FlightTyped DEF ServingInv, KeysInv, KeysDrawn
        <4> QED BY <4>1, <4>2
      <3> QED BY <3>1, <3>2 DEF KeysDrawn
    <2>8. Changes' /\ NoTable'
      BY <1>7, <2>2, <2>5 DEF ServingInv, KeysInv, Changes, NoTable, Proper, GoodPassword
    <2>9. UserInv(u)'
      <3>1. ASSUME u \notin met'
            PROVE  Mirrored(u)'
        <4>1. mem[u] = db[u] /\ \A q \in Writers : InFlight(q, u)' => q = r
          BY <1>5, <1>7, <2>3, <2>4, <3>1 DEF ServingInv, KeysInv, UserInv, Mirrored
        <4>2. \A q \in Writers : /\ ~Inserting(q, u)'
                                 /\ Writing(q, u)' => q = r
          BY <2>3, <4>1 DEF Inserting, Writing, InFlight
        <4>3. mem'[u] = Updated(w.prev, w.set, w.to) /\ w.prev.key < w.to.key
          BY <1>2, <1>3, <2>5 DEF acc
        <4> QED BY <2>2, <2>3, <2>5, <4>1, <4>2, <4>3 DEF Mirrored
      <3>2. ASSUME u \notin met'
            PROVE  Newest(u)' /\ GoneInTable(u)' /\ Knows(mem[u], u)' /\ Knows(db[u], u)'
        <4>1. u \notin met /\ UserInv(u)
          BY <1>5, <3>2 DEF ServingInv, KeysInv
        <4>2. floor[u] <= lastKey /\ floor[u] \in Nat /\ \A t \in tokens : t.key <= lastKey /\ t.key \in Nat
          BY DEF ServingInv, KeysInv, KeysDrawn, Token
        <4>3. Newest(u)' /\ GoneInTable(u)' /\ Knows(db[u], u)'
          BY <1>2, <1>3, <2>1, <4>1, <4>2 DEF UserInv, Newest, GoneInTable, Knows
        <4>4. Knows(mem[u], u)'
          BY <1>2, <1>3, <2>1, <4>2 DEF Knows
        <4> QED BY <4>3, <4>4
      <3>3. u \in Retired /\ Clean(u, Public) => Clean(u, Public)'
        BY <1>2, <1>3, <2>2, <2>3, <2>4, <2>5 DEF Clean, Proper
      <3>4. Dead(u) => Dead(u)'
        BY <1>1, <1>2, <1>3, <2>2, <2>3, <2>4, <2>5 DEF Dead, Proper
      <3>5. RetiredInv(u)'
        BY <2>1, <3>3, <3>4 DEF ServingInv, KeysInv, UserInv, RetiredInv
      <3> QED BY <3>1, <3>2, <3>5 DEF UserInv
    <2>10. u = a => Clean(u, AdminDemo)' /\ Rotated(u)'
      <3>1. Clean(a, AdminDemo) /\ u = a => Clean(u, AdminDemo)'
        BY <1>2, <1>3, <2>2, <2>3, <2>4, <2>5 DEF Clean, Proper
      <3>2. ASSUME Rotated(u) PROVE Rotated(u)'
        <4>1. \A t \in tokens : t.key \in Nat /\ t.key # NewKey
          BY <1>2 DEF ServingInv, KeysInv, KeysDrawn, Token
        <4>2. ASSUME NEW t \in tokens', t.user = u, t.pw = AdminDemo, t.key # 0,
                     NEW q \in Writers
              PROVE  /\ InFlight(q, u)' => req'[q].to.key # t.key
                     /\ Writing(q, u)' => req'[q].prev.key # t.key
          <5>1. CASE q = r
            BY <1>1, <1>2, <2>1, <2>2, <2>5, <3>2, <4>1, <4>2, <5>1 DEF Rotated
          <5>2. CASE q # r
            BY <2>1, <2>2, <2>4, <3>2, <4>2, <5>2 DEF Rotated
          <5> QED BY <5>1, <5>2
        <4>3. \A t \in tokens' : t.user = u /\ t.pw = AdminDemo /\ t.key # 0 =>
                /\ mem'[u] # NoAccount => mem'[u].key # t.key
                /\ db'[u] # NoAccount => db'[u].key # t.key
          BY <1>2, <1>3, <2>1, <3>2, <4>1 DEF Rotated
        <4> QED BY <4>2, <4>3 DEF Rotated
      <3> QED BY <3>1, <3>2 DEF ServingInv
    <2>11. u \in gone' \ met' => mem'[u] # NoAccount /\ mem'[u].deleted
      BY <1>1, <1>2, <1>3, <1>5, <2>1 DEF ServingInv, GoneInMemory
    <2>12. Unloaded(u)' => Unloaded(u) /\ db'[u] = db[u]
      BY <1>1, <1>3, <2>3, <2>4 DEF Unloaded
    <2>13. AccountStep(a, u)
      BY <2>9, <2>10, <2>11, <2>12 DEF AccountStep
    <2> QED BY <2>1, <2>6, <2>7, <2>8, <2>13, OneAccount
  <1>8. CASE ~UseDb
    <2>1. Answer(r, [mem EXCEPT ![u] = acc], kind, actor, u, to)
      BY <1>8 DEF Apply, acc
    <2>2. /\ req' = [req EXCEPT ![r] = Idle]
          /\ floor' = [floor EXCEPT ![u] = Raise(u, to.key)]
          /\ gone' = IF kind = "delete" THEN gone \cup {u} ELSE gone
          /\ tokens' = IF kind # "own" \/ Missing(acc) THEN tokens
                       ELSE tokens \cup {[user |-> u, role |-> actor.role, key |-> acc.key, pw |-> to.pw]}
      BY <2>1 DEF Answer
    <2> DEFINE tok == [user |-> u, role |-> actor.role, key |-> acc.key, pw |-> to.pw]
    <2>3. /\ tok.user = u /\ tok.key = NewKey /\ tok.pw = to.pw
      BY <1>2
    <2>4. \A t \in tokens' : t \in tokens \/ (t = tok /\ kind = "own" /\ acc.pw = to.pw /\ "pw" \in set)
      BY <1>2, <2>2 DEF Proper
    <2> HIDE DEF tok
    <2>5. \A q \in Writers : req[q].pc \notin {"insert", "select", "commit"} /\ req'[q].pc \notin {"insert", "select", "commit"}
      BY <1>8, <2>2 DEF ServingInv, KeysInv, NoTable, Idle
    <2>6. \A q \in Writers, v \in Users : /\ ~InFlight(q, v) /\ ~InFlight(q, v)'
                                          /\ ~Writing(q, v)' /\ ~Inserting(q, v)'
      BY <2>5 DEF InFlight, Writing, Inserting
    <2>7. \A v \in Users \ {u} : Untouched(v)
      BY <1>3, <1>6, <2>2, <2>3, <2>4, <2>6 DEF Untouched
    <2>8. floor'[u] = NewKey /\ \A v \in Users : floor[v] \in Nat /\ floor[v] <= lastKey /\ (v # u => floor'[v] = floor[v])
      BY <1>2, <2>2 DEF Raise, ServingInv, KeysInv, KeysDrawn
    <2>9. KeysDrawn'
      BY <1>1, <1>2, <1>3, <2>3, <2>4, <2>6, <2>8 DEF ServingInv, KeysInv, KeysDrawn, Account, Token
    <2>10. Changes' /\ NoTable'
      BY <1>8, <2>2, <2>5 DEF ServingInv, KeysInv, Changes, NoTable, Idle, GoodPassword
    <2>11. /\ \A v \in Users : db'[v] = NoAccount
           /\ \A t \in tokens : t.key \in Nat /\ t.key # NewKey
      BY <1>2, <1>8 DEF ServingInv, KeysInv, NoTable, KeysDrawn, Token
    <2>12. UserInv(u)'
      <3>1. Mirrored(u)' /\ Newest(u)' /\ GoneInTable(u)' /\ Knows(mem[u], u)' /\ Knows(db[u], u)'
        BY <1>2, <1>3, <1>8, <2>3, <2>4, <2>6, <2>8, <2>11 DEF Mirrored, Newest, GoneInTable, Knows
      <3>2. u \in Retired /\ Clean(u, Public) => Clean(u, Public)'
        BY <1>2, <1>3, <2>6 DEF Clean, Proper
      <3>3. Dead(u) => Dead(u)'
        BY <1>1, <1>2, <1>3, <2>6 DEF Dead
      <3>4. RetiredInv(u)'
        BY <2>3, <2>4, <3>2, <3>3 DEF ServingInv, KeysInv, UserInv, RetiredInv, Proper
      <3> QED BY <3>1, <3>4 DEF UserInv
    <2>13. u = a => Clean(u, AdminDemo)' /\ Rotated(u)'
      <3>1. Clean(a, AdminDemo) /\ u = a => Clean(u, AdminDemo)'
        BY <1>2, <1>3, <2>6 DEF Clean, Proper
      <3>2. u = a => Rotated(u)'
        BY <1>2, <1>3, <2>3, <2>4, <2>6, <2>11 DEF Rotated, Proper
      <3> QED BY <3>1, <3>2 DEF ServingInv
    <2>14. u \in gone' \ met' => mem'[u] # NoAccount /\ mem'[u].deleted
      BY <1>1, <1>2, <1>3, <1>5, <2>2 DEF ServingInv, GoneInMemory
    <2>15. AccountStep(a, u)
      BY <1>8, <2>12, <2>13, <2>14 DEF AccountStep
    <2>16. gone' \subseteq Users
      BY <2>2
    <2> QED BY <2>7, <2>9, <2>10, <2>15, <2>16, OneAccount
  <1> QED BY <1>7, <1>8

LEMMA CreateKeys ==
    ASSUME TypeInv, NEW a \in Users, ServingInv(a), NEW r \in Writers, NEW u \in Users, NEW role \in RoleInput,
           NEW pw \in Passwords, CreateUser(r, u, role, pw)
    PROVE  KeysStep(a)
  <1> USE DEF TypeInv, TypeOK
  <1> DEFINE row == [role |-> role, pw |-> pw, key |-> NewKey, deleted |-> FALSE]
  <1>1. /\ row \in Account /\ row # NoAccount /\ row.pw = pw /\ row.key = NewKey /\ ~row.deleted
        /\ NewKey \in Nat /\ lastKey < NewKey
    <2>1. role \in Roles
      BY DEF CreateUser, ValidRole
    <2>2. NewKey \in Nat /\ lastKey < NewKey
      BY DEF NewKey
    <2>3. row \in Account
      BY <2>1, <2>2 DEF Account
    <2> QED BY <2>2, <2>3, AccountAssumption
  <1>2. /\ req[r].pc = "admitted" /\ mem[u] = NoAccount
        /\ mem' = [mem EXCEPT ![u] = row] /\ lastKey' = NewKey
        /\ UNCHANGED <<db, login, met>>
        /\ row.pw # AdminDemo /\ (u \in Retired => row.pw # Public)
    BY DEF CreateUser, GoodPassword
  <1>3. /\ mem'[u] = row /\ \A v \in Users \ {u} : mem'[v] = mem[v]
        /\ u \notin gone \ met
    BY <1>2 DEF ServingInv, GoneInMemory
  <1> HIDE DEF row
  <1>4. u \notin met => \A q \in Writers : ~InFlight(q, u)
    <2> SUFFICES ASSUME u \notin met, NEW q \in Writers, InFlight(q, u) PROVE FALSE
      OBVIOUS
    <2>1. Mirrored(u)
      BY DEF ServingInv, KeysInv, UserInv
    <2>2. CASE Inserting(q, u)
      BY <1>2, <2>1, <2>2, FlightTyped, AccountAssumption DEF Mirrored
    <2>3. CASE Writing(q, u)
      BY <1>2, <2>1, <2>3, FlightTyped, UpdatedType, AccountAssumption DEF Mirrored
    <2> QED BY <2>2, <2>3, FlightTyped
  <1>5. \A v \in Users : ~InFlight(r, v)
    BY <1>2 DEF InFlight
  <1>6. /\ \A t \in tokens : t.key \in Nat /\ t.key <= lastKey
        /\ \A v \in Users : floor[v] \in Nat /\ floor[v] <= lastKey
    BY DEF ServingInv, KeysInv, KeysDrawn, Token
  <1>7. ~Dead(u)
    BY <1>2 DEF Dead
  <1>8. CASE UseDb
    <2> DEFINE w == [pc |-> "insert", user |-> u, to |-> row]
    <2>1. req' = [req EXCEPT ![r] = w] /\ UNCHANGED <<tokens, floor, gone>>
      BY <1>8 DEF CreateUser, row
    <2>2. req'[r] = w /\ w.pc = "insert" /\ w.user = u /\ w.to = row
          /\ \A q \in Writers : q # r => req'[q] = req[q]
      BY <2>1
    <2> HIDE DEF w
    <2>3. \A v \in Users : /\ InFlight(r, v)' <=> v = u
                           /\ Inserting(r, v)' <=> v = u
                           /\ ~Writing(r, v)'
      BY <2>2 DEF InFlight, Writing, Inserting
    <2>4. \A q \in Writers, v \in Users : q # r =>
            /\ InFlight(q, v)' <=> InFlight(q, v)
            /\ Writing(q, v)' <=> Writing(q, v)
            /\ Inserting(q, v)' <=> Inserting(q, v)
      BY <2>2 DEF InFlight, Writing, Inserting
    <2>5. \A v \in Users \ {u} : Untouched(v)
      BY <1>2, <1>3, <1>5, <2>1, <2>2, <2>3 DEF Untouched
    <2>6. KeysDrawn'
      <3>1. /\ \A v \in Users : /\ mem'[v] # NoAccount => mem'[v].key <= lastKey'
                                /\ db'[v] # NoAccount => db'[v].key <= lastKey'
                                /\ floor'[v] <= lastKey'
            /\ \A t \in tokens' : t.key <= lastKey'
        BY <1>1, <1>2, <1>3, <1>6, <2>1 DEF ServingInv, KeysInv, KeysDrawn, Account
      <3>2. ASSUME NEW q \in Writers, NEW v \in Users
            PROVE  /\ InFlight(q, v)' => req'[q].to.key <= lastKey'
                   /\ Writing(q, v)' => req'[q].prev.key <= lastKey'
        <4>1. CASE q = r
          BY <1>1, <1>2, <2>2, <2>3, <4>1
        <4>2. CASE q # r
          <5>1. Writing(q, v) => InFlight(q, v)
            BY DEF Writing, InFlight
          <5> QED BY <1>1, <1>2, <2>2, <2>4, <4>2, <5>1, FlightTyped DEF ServingInv, KeysInv, KeysDrawn
        <4> QED BY <4>1, <4>2
      <3> QED BY <3>1, <3>2 DEF KeysDrawn
    <2>7. Changes' /\ NoTable'
      BY <1>8, <2>2 DEF ServingInv, KeysInv, Changes, NoTable, GoodPassword
    <2>8. UserInv(u)'
      <3>1. ASSUME u \notin met'
            PROVE  Mirrored(u)'
        <4>1. \A q \in Writers : /\ InFlight(q, u)' => q = r
                                 /\ ~Writing(q, u)'
                                 /\ Inserting(q, u)' => q = r
          BY <1>2, <1>4, <2>3, <2>4, <3>1 DEF Writing, Inserting, InFlight
        <4>2. db[u] # NoAccount => db[u].key < row.key
          BY <1>1 DEF ServingInv, KeysInv, KeysDrawn, Account
        <4> QED BY <1>1, <1>2, <1>3, <2>2, <2>3, <4>1, <4>2 DEF Mirrored
      <3>2. ASSUME u \notin met'
            PROVE  Newest(u)' /\ GoneInTable(u)' /\ Knows(mem[u], u)' /\ Knows(db[u], u)'
        <4>1. UserInv(u) /\ u \notin met
          BY <1>2, <3>2 DEF ServingInv, KeysInv
        <4> QED BY <1>1, <1>2, <1>3, <1>6, <2>1, <4>1 DEF UserInv, Newest, GoneInTable, Knows
      <3>3. u \in Retired /\ Clean(u, Public) => Clean(u, Public)'
        BY <1>2, <1>3, <2>2, <2>3, <2>4 DEF Clean
      <3>4. RetiredInv(u)'
        BY <1>7, <2>1, <3>3 DEF ServingInv, KeysInv, UserInv, RetiredInv
      <3> QED BY <3>1, <3>2, <3>4 DEF UserInv
    <2>9. u = a => Clean(u, AdminDemo)' /\ Rotated(u)'
      <3>1. Clean(a, AdminDemo) /\ u = a => Clean(u, AdminDemo)'
        BY <1>2, <1>3, <2>2, <2>3, <2>4 DEF Clean
      <3>2. Rotated(u) => Rotated(u)'
        BY <1>1, <1>2, <1>3, <1>6, <2>1, <2>2, <2>3, <2>4 DEF Rotated
      <3> QED BY <3>1, <3>2 DEF ServingInv
    <2>10. AccountStep(a, u)
      BY <1>2, <1>3, <2>1, <2>8, <2>9 DEF AccountStep, Unloaded
    <2> QED BY <2>1, <2>5, <2>6, <2>7, <2>10, OneAccount
  <1>9. CASE ~UseDb
    <2>1. /\ req' = [req EXCEPT ![r] = Idle] /\ UNCHANGED <<tokens, gone>>
          /\ floor' = [floor EXCEPT ![u] = Raise(u, row.key)]
      BY <1>9 DEF CreateUser, Answer, row
    <2>2. \A q \in Writers : req[q].pc \notin {"insert", "select", "commit"} /\ req'[q].pc \notin {"insert", "select", "commit"}
      BY <1>9, <2>1 DEF ServingInv, KeysInv, NoTable, Idle
    <2>3. \A q \in Writers, v \in Users : /\ ~InFlight(q, v) /\ ~InFlight(q, v)'
                                          /\ ~Writing(q, v)' /\ ~Inserting(q, v)'
      BY <2>2 DEF InFlight, Writing, Inserting
    <2>4. \A v \in Users \ {u} : Untouched(v)
      BY <1>2, <1>3, <2>1, <2>3 DEF Untouched
    <2>5. floor'[u] = NewKey /\ \A v \in Users : v # u => floor'[v] = floor[v]
      BY <1>1, <1>6, <2>1 DEF Raise
    <2>6. KeysDrawn'
      BY <1>1, <1>2, <1>3, <1>6, <2>1, <2>3, <2>5 DEF ServingInv, KeysInv, KeysDrawn, Account
    <2>7. Changes' /\ NoTable'
      BY <1>2, <1>9, <2>1, <2>2 DEF ServingInv, KeysInv, Changes, NoTable, Idle, GoodPassword
    <2>8. \A v \in Users : db'[v] = NoAccount
      BY <1>2, <1>9 DEF ServingInv, KeysInv, NoTable
    <2>9. UserInv(u)'
      <3>1. Mirrored(u)' /\ Newest(u)' /\ GoneInTable(u)' /\ Knows(mem[u], u)' /\ Knows(db[u], u)'
        BY <1>1, <1>3, <1>6, <1>9, <2>1, <2>3, <2>5, <2>8 DEF Mirrored, Newest, GoneInTable, Knows
      <3>2. u \in Retired => Clean(u, Public)'
        BY <1>2, <1>3, <2>3 DEF Clean
      <3>3. RetiredInv(u)'
        BY <2>1, <3>2 DEF ServingInv, KeysInv, UserInv, RetiredInv
      <3> QED BY <3>1, <3>3 DEF UserInv
    <2>10. u = a => Clean(u, AdminDemo)' /\ Rotated(u)'
      BY <1>1, <1>2, <1>3, <1>6, <2>1, <2>3, <2>8 DEF Clean, Rotated
    <2>11. AccountStep(a, u)
      BY <1>2, <1>3, <1>9, <2>1, <2>9, <2>10 DEF AccountStep
    <2> QED BY <2>1, <2>4, <2>6, <2>7, <2>11, OneAccount
  <1> QED BY <1>8, <1>9

LEMMA ChangeKeys ==
    ASSUME TypeInv, NEW a \in Users, ServingInv(a), NEW r \in Writers, NEW u \in Users,
           \/ \E body \in UpdateBody : UpdateUser(r, u, body)
           \/ DeleteUser(r, u)
    PROVE  KeysStep(a)
  <1> USE DEF TypeInv, TypeOK
  <1>1. ASSUME NEW body \in UpdateBody, UpdateUser(r, u, body)
        PROVE  KeysStep(a)
    <2> DEFINE role == IF "role" \in body.has THEN body.role ELSE mem[u].role
    <2> DEFINE to == [mem[u] EXCEPT !.role = IF "role" \in body.has THEN body.role ELSE @,
                                    !.pw = body.password, !.key = NewKey]
    <2> DEFINE set == ChangedFields(mem[u], body)
    <2>1. mem[u] \in Account /\ mem[u] # NoAccount
      BY <1>1 DEF UpdateUser, CheckUserUpdate, Missing
    <2>2. /\ to = [mem[u] EXCEPT !.role = role, !.pw = body.password, !.key = NewKey]
          /\ to.key = NewKey /\ to.pw = body.password
      BY <2>1 DEF Account
    <2>3. to \in Account
      <3>1. role \in Roles /\ body.password \in Passwords /\ NewKey \in Nat
        <4>1. "role" \in body.has => body.role \in Roles
          BY <1>1 DEF UpdateUser, ValidRole
        <4>2. mem[u].role \in Roles
          BY <2>1 DEF Account
        <4> QED BY <4>1, <4>2 DEF UpdateBody, NewKey
      <3> HIDE DEF role, to
      <3> QED BY <2>1, <2>2, <3>1, FieldsChanged
    <2>4. /\ set \in SUBSET Fields /\ "deleted" \notin set /\ "key" \in set
          /\ "pw" \in set => "password" \in body.has
      BY <1>1 DEF UpdateUser, ChangedFields, Fields
    <2>5. Proper("update", u, set, to)
      <3>1. "password" \in body.has => GoodPassword(u, body.password)
        BY <1>1 DEF UpdateUser
      <3> HIDE DEF set, to
      <3> QED BY <2>2, <2>4, <3>1 DEF Proper, GoodPassword
    <2>6. req[r].actor \in Actor /\ req[r].pc = "admitted"
      BY <1>1, ActorTyped DEF UpdateUser
    <2>7. Apply(r, "update", req[r].actor, u, set, to) /\ UNCHANGED <<db, login>>
      BY <1>1 DEF UpdateUser
    <2> HIDE DEF to, set
    <2> QED BY <2>1, <2>3, <2>4, <2>5, <2>6, <2>7, ApplyKeys DEF Kinds
  <1>2. ASSUME DeleteUser(r, u)
        PROVE  KeysStep(a)
    <2> DEFINE to == [mem[u] EXCEPT !.deleted = TRUE, !.key = NewKey]
    <2>1. mem[u] \in Account /\ mem[u] # NoAccount /\ ~mem[u].deleted
      BY <1>2 DEF DeleteUser, CheckUserDelete, Missing
    <2>2. to \in Account /\ to.key = NewKey /\ to.deleted
      <3>1. mem[u].role \in Roles /\ mem[u].pw \in Passwords /\ NewKey \in Nat
        BY <2>1 DEF Account, NewKey
      <3> QED BY <2>1, <3>1, FieldsChanged DEF Account
    <2>3. req[r].actor \in Actor /\ req[r].pc = "admitted"
      BY <1>2, ActorTyped DEF DeleteUser
    <2>4. Apply(r, "delete", req[r].actor, u, {"deleted", "key"}, to)
          /\ UNCHANGED <<db, login>>
      BY <1>2 DEF DeleteUser
    <2>5. Proper("delete", u, {"deleted", "key"}, to)
      BY <2>1, <2>2 DEF Proper
    <2> HIDE DEF to
    <2> QED BY <2>1, <2>2, <2>3, <2>4, <2>5, ApplyKeys DEF Kinds, Fields
  <1> QED BY <1>1, <1>2

LEMMA HashOwnKeys ==
    ASSUME TypeInv, NEW a \in Users, ServingInv(a), NEW r \in Writers, HashOwn(r)
    PROVE  KeysStep(a)
  <1> USE DEF TypeInv, TypeOK
  <1> DEFINE u == req[r].actor.username
  <1>1. req[r] \in OwnRequest /\ req[r].actor \in Actor /\ u \in Users /\ req[r].pc = "hash"
    BY OwnShape DEF HashOwn, OwnRequest, Actor
  <1>2. CASE mem[u] = NoAccount
    <2>1. req' = [req EXCEPT ![r] = Idle] /\ UNCHANGED <<mem, db, lastKey, tokens, floor, gone, met>>
      BY <1>2 DEF HashOwn
    <2> QED BY <1>1, <2>1, QuietKeys DEF Idle
  <1>3. CASE mem[u] # NoAccount
    <2> DEFINE to == [mem[u] EXCEPT !.pw = req[r].new, !.key = NewKey]
    <2>1. to \in Account /\ to.key = NewKey /\ to.pw = req[r].new
      <3>1. mem[u] \in Account /\ req[r].new \in Passwords /\ NewKey \in Nat
        BY <1>1, <1>3 DEF NewKey, OwnRequest
      <3>2. mem[u].role \in Roles
        BY <3>1 DEF Account
      <3> QED BY <3>1, <3>2, FieldsChanged DEF Account
    <2>2. Apply(r, "own", req[r].actor, u, {"pw", "key"}, to) /\ UNCHANGED <<db, login>>
      BY <1>3 DEF HashOwn
    <2>3. Proper("own", u, {"pw", "key"}, to)
      BY <1>1, <2>1 DEF Proper, ServingInv, KeysInv, Changes, GoodPassword
    <2> HIDE DEF to, u
    <2> QED BY <1>1, <1>3, <2>1, <2>2, <2>3, ApplyKeys DEF Kinds, Fields
  <1> QED BY <1>2, <1>3

\* The request about u's account is answered, or fails.
Settles(r, u) ==
    /\ InFlight(r, u)
    /\ req' = [req EXCEPT ![r] = Idle]
    /\ \A v \in Users \ {u} : mem'[v] = mem[v] /\ db'[v] = db[v] /\ floor'[v] = floor[v]
    /\ UNCHANGED <<lastKey, met>>
    /\ gone' \in {gone, gone \cup {u}}
    /\ \A t \in tokens' : t \in tokens \/ (t.user = u /\ t.key \in Nat /\ t.key <= lastKey)

LEMMA SettledRequests ==
    ASSUME TypeInv, KeysInv, NEW r \in Writers, NEW u \in Users, Settles(r, u)
    PROVE  /\ UseDb
           /\ \A v \in Users \ {u} : Untouched(v)
           /\ Changes'
           /\ \A q \in Writers :
                /\ InFlight(q, u)' => InFlight(q, u) /\ q # r /\ req'[q] = req[q]
                /\ Writing(q, u)' => Writing(q, u) /\ q # r /\ req'[q] = req[q]
                /\ Inserting(q, u)' => Inserting(q, u)
           /\ u \notin met => \A q \in Writers :
                ~InFlight(q, u)' /\ ~Writing(q, u)' /\ ~Inserting(q, u)'
  <1> USE DEF TypeInv, TypeOK, Settles
  <1>1. req'[r] = Idle /\ \A q \in Writers : q # r => req'[q] = req[q]
    OBVIOUS
  <1>2. \A v \in Users : ~InFlight(r, v)' /\ ~Writing(r, v)' /\ ~Inserting(r, v)'
    BY <1>1 DEF InFlight, Writing, Inserting, Idle
  <1>3. \A q \in Writers, v \in Users : q # r =>
          /\ InFlight(q, v)' <=> InFlight(q, v)
          /\ Writing(q, v)' <=> Writing(q, v)
          /\ Inserting(q, v)' <=> Inserting(q, v)
    BY <1>1 DEF InFlight, Writing, Inserting
  <1>4. \A v \in Users \ {u} : ~InFlight(r, v)
    BY DEF InFlight
  <1>5. \A v \in Users \ {u} : Untouched(v)
    BY <1>1, <1>2, <1>4 DEF Untouched
  <1>6. Changes'
    BY <1>1 DEF KeysInv, Changes, Idle, GoodPassword
  <1>7. UseDb
    BY DEF KeysInv, NoTable, InFlight
  <1>8. u \notin met => \A q \in Writers : q # r => ~InFlight(q, u)
    BY DEF KeysInv, UserInv, Mirrored
  <1>9. \A q \in Writers : Writing(q, u) \/ Inserting(q, u) => InFlight(q, u)
    BY DEF InFlight, Writing, Inserting
  <1>a. \A q \in Writers :
          /\ InFlight(q, u)' => InFlight(q, u) /\ q # r /\ req'[q] = req[q]
          /\ Writing(q, u)' => Writing(q, u) /\ q # r /\ req'[q] = req[q]
          /\ Inserting(q, u)' => Inserting(q, u)
    BY <1>1, <1>2, <1>3
  <1>b. u \notin met => \A q \in Writers :
          ~InFlight(q, u)' /\ ~Writing(q, u)' /\ ~Inserting(q, u)'
    BY <1>2, <1>3, <1>8, <1>9
  <1> QED BY <1>5, <1>6, <1>7, <1>a, <1>b

\* What is left to show of such a step.
LEMMA SettledKeys ==
    ASSUME TypeInv, NEW a \in Users, ServingInv(a), NEW r \in Writers, NEW u \in Users, Settles(r, u),
           mem'[u] # NoAccount => mem'[u].key <= lastKey,
           db'[u] # NoAccount => db'[u].key <= lastKey,
           floor'[u] <= lastKey,
           AccountStep(a, u)
    PROVE  KeysStep(a)
  <1> USE DEF TypeInv, TypeOK
  <1>1. /\ UseDb /\ Changes' /\ \A v \in Users \ {u} : Untouched(v)
        /\ req' = [req EXCEPT ![r] = Idle]
    BY SettledRequests DEF ServingInv, Settles
  <1>2. NoTable'
    BY <1>1 DEF NoTable
  <1>3. KeysDrawn'
    <2>1. /\ \A v \in Users : /\ mem'[v] # NoAccount => mem'[v].key <= lastKey'
                              /\ db'[v] # NoAccount => db'[v].key <= lastKey'
                              /\ floor'[v] <= lastKey'
          /\ \A t \in tokens' : t.key <= lastKey'
      BY DEF Settles, ServingInv, KeysInv, KeysDrawn
    <2>2. \A q \in Writers, v \in Users : q # r => /\ req'[q] = req[q]
                                                   /\ InFlight(q, v)' => InFlight(q, v)
                                                   /\ Writing(q, v)' => Writing(q, v)
      BY <1>1 DEF InFlight, Writing
    <2>3. \A v \in Users : ~InFlight(r, v)' /\ ~Writing(r, v)'
      BY <1>1 DEF InFlight, Writing, Idle
    <2>4. UNCHANGED lastKey
      BY DEF Settles
    <2> QED BY <2>1, <2>2, <2>3, <2>4 DEF ServingInv, KeysInv, KeysDrawn
  <1>4. gone' \subseteq Users
    BY DEF Settles
  <1> QED BY <1>1, <1>2, <1>3, <1>4, OneAccount

\* Every field that differs from the row as it was read is written.
LEMMA DirtyEnough ==
    ASSUME NEW w \in WriteRequest
    PROVE  Updated(w.seen, Dirty(w), w.to) = Updated(w.seen, w.set, w.to)
  <1>1. w.set \in SUBSET Fields
    BY DEF WriteRequest
  <1>2. \A f \in w.set : f \in Dirty(w) <=> w.to[f] # w.seen[f]
    BY DEF Dirty
  <1>3. Dirty(w) \subseteq w.set
    BY DEF Dirty
  <1> QED BY <1>1, <1>2, <1>3 DEF Updated

LEMMA InsertKeys ==
    ASSUME TypeInv, NEW a \in Users, ServingInv(a), NEW r \in Writers, Insert(r)
    PROVE  KeysStep(a)
  <1> USE DEF TypeInv, TypeOK
  <1>u. PICK u \in Users : req[r].user = u
    BY InsertShape DEF Insert, InsertRequest
  <1> DEFINE to == req[r].to
  <1>1. /\ req[r] \in InsertRequest /\ to \in Account /\ to # NoAccount
        /\ InFlight(r, u) /\ Inserting(r, u) /\ to.key \in Nat /\ to.key <= lastKey
    <2>1. req[r] \in InsertRequest /\ req[r].pc = "insert"
      BY InsertShape DEF Insert
    <2>2. to \in Account /\ to # NoAccount /\ to.key \in Nat
      BY <2>1, AccountAssumption DEF InsertRequest, Account
    <2>3. InFlight(r, u) /\ Inserting(r, u)
      BY <1>u, <2>1 DEF InFlight, Inserting
    <2> QED BY <2>1, <2>2, <2>3 DEF ServingInv, KeysInv, KeysDrawn
  <1>2. /\ db[u] = NoAccount /\ db' = [db EXCEPT ![u] = to]
        /\ req' = [req EXCEPT ![r] = Idle]
        /\ floor' = [floor EXCEPT ![u] = Raise(u, to.key)]
        /\ UNCHANGED <<mem, lastKey, login, met, gone, tokens>>
    BY <1>u DEF Insert, Answer
  <1> HIDE DEF to
  <1>3. db'[u] = to /\ \A v \in Users : v # u => db'[v] = db[v]
    BY <1>1, <1>2
  <1>4. /\ floor[u] \in Nat /\ floor[u] <= lastKey
        /\ floor'[u] = (IF to.key > floor[u] THEN to.key ELSE floor[u])
        /\ floor'[u] <= lastKey
    BY <1>1, <1>2 DEF Raise, ServingInv, KeysInv, KeysDrawn
  <1>5. Settles(r, u)
    BY <1>1, <1>2, <1>3 DEF Settles
  <1>6. UserInv(u)'
    <2>1. ASSUME u \notin met'
          PROVE  Mirrored(u)' /\ Newest(u)' /\ GoneInTable(u)' /\ Knows(mem[u], u)' /\ Knows(db[u], u)'
      <3>1. u \notin met /\ UserInv(u) /\ mem[u] = to
        BY <1>1, <1>2, <2>1 DEF ServingInv, KeysInv, UserInv, Mirrored, to
      <3>2. UseDb /\ \A q \in Writers : ~InFlight(q, u)' /\ ~Writing(q, u)' /\ ~Inserting(q, u)'
        BY <1>1, <1>5, <3>1, SettledRequests DEF ServingInv
      <3>3. Mirrored(u)' /\ Newest(u)'
        BY <1>1, <1>2, <1>3, <1>4, <3>1, <3>2 DEF UserInv, Mirrored, Newest
      <3>4. GoneInTable(u)' /\ Knows(mem[u], u)' /\ Knows(db[u], u)'
        BY <1>1, <1>2, <1>3, <3>1, <3>2 DEF UserInv, GoneInTable, Knows
      <3> QED BY <3>3, <3>4
    <2>2. /\ Clean(u, Public) => Clean(u, Public)'
          /\ Dead(u) => Dead(u)'
      BY <1>1, <1>2, <1>5, SettledRequests DEF ServingInv, Clean, Dead
    <2>3. RetiredInv(u)'
      BY <1>1, <1>2, <2>2 DEF ServingInv, KeysInv, UserInv, RetiredInv
    <2> QED BY <2>1, <2>3 DEF UserInv
  <1>7. u = a => Clean(u, AdminDemo)' /\ Rotated(u)'
    <2>1. Clean(u, AdminDemo) => Clean(u, AdminDemo)'
      BY <1>1, <1>2, <1>5, SettledRequests DEF ServingInv, Clean
    <2>2. Rotated(u) => Rotated(u)'
      BY <1>1, <1>2, <1>3, <1>5, SettledRequests DEF ServingInv, Rotated, to
    <2> QED BY <2>1, <2>2 DEF ServingInv
  <1>8. u \notin met' /\ Unloaded(u)' => FALSE
    <2> SUFFICES ASSUME u \notin met' PROVE ~Unloaded(u)'
      OBVIOUS
    <2>1. u \notin met /\ mem'[u] = to
      BY <1>1, <1>2 DEF ServingInv, KeysInv, UserInv, Mirrored, to
    <2>2. \A q \in Writers : ~Inserting(q, u)'
      BY <1>1, <1>5, <2>1, SettledRequests DEF ServingInv
    <2> QED BY <1>1, <2>1, <2>2 DEF Unloaded
  <1>9. AccountStep(a, u)
    BY <1>1, <1>2, <1>6, <1>7, <1>8 DEF AccountStep, ServingInv, GoneInMemory
  <1> QED
    BY <1>1, <1>2, <1>3, <1>4, <1>5, <1>9, SettledKeys DEF ServingInv, KeysInv, KeysDrawn

LEMMA InsertFailsKeys ==
    ASSUME TypeInv, NEW a \in Users, ServingInv(a), NEW r \in Writers, InsertFails(r)
    PROVE  KeysStep(a)
  <1> USE DEF TypeInv, TypeOK
  <1>u. PICK u \in Users : req[r].user = u
    BY InsertShape DEF InsertFails, InsertRequest
  <1>1. InFlight(r, u) /\ Inserting(r, u)
    <2>1. req[r] \in InsertRequest /\ req[r].pc = "insert"
      BY InsertShape DEF InsertFails
    <2> QED BY <1>u, <2>1 DEF InFlight, Inserting
  <1>2. /\ mem' = [mem EXCEPT ![u] = NoAccount] /\ req' = [req EXCEPT ![r] = Idle]
        /\ UNCHANGED <<db, lastKey, tokens, login, floor, gone, met>>
    BY <1>u DEF InsertFails
  <1>3. mem'[u] = NoAccount /\ \A v \in Users : v # u => mem'[v] = mem[v]
    BY <1>1, <1>2
  <1>4. Settles(r, u)
    BY <1>1, <1>2, <1>3 DEF Settles
  <1>5. UserInv(u)'
    <2>1. ASSUME u \notin met'
          PROVE  Mirrored(u)' /\ Newest(u)' /\ GoneInTable(u)' /\ Knows(mem[u], u)' /\ Knows(db[u], u)'
      <3>1. u \notin met /\ UserInv(u)
        BY <1>1, <1>2, <2>1 DEF ServingInv, KeysInv
      <3>2. \A q \in Writers : ~InFlight(q, u)' /\ ~Writing(q, u)' /\ ~Inserting(q, u)'
        BY <1>1, <1>4, <3>1, SettledRequests DEF ServingInv
      <3> QED BY <1>2, <1>3, <3>1, <3>2 DEF UserInv, Mirrored, Newest, GoneInTable, Knows
    <2>2. Clean(u, Public) => Clean(u, Public)'
      BY <1>1, <1>3, <1>4, SettledRequests DEF ServingInv, Clean
    <2>3. ~Dead(u)
      BY <1>1 DEF Dead
    <2>4. RetiredInv(u)'
      BY <1>1, <1>2, <2>2, <2>3 DEF ServingInv, KeysInv, UserInv, RetiredInv
    <2> QED BY <2>1, <2>4 DEF UserInv
  <1>6. u = a => Clean(u, AdminDemo)' /\ Rotated(u)'
    <2>1. Clean(u, AdminDemo) => Clean(u, AdminDemo)'
      BY <1>1, <1>3, <1>4, SettledRequests DEF ServingInv, Clean
    <2>2. Rotated(u) => Rotated(u)'
      BY <1>1, <1>2, <1>3, <1>4, SettledRequests DEF ServingInv, Rotated
    <2> QED BY <2>1, <2>2 DEF ServingInv
  <1>7. u \notin gone' \ met'
    BY <1>1, <1>2 DEF ServingInv, KeysInv, UserInv, Mirrored, GoneInMemory
  <1>8. Unloaded(u)
    BY <1>1 DEF Unloaded
  <1>9. AccountStep(a, u)
    BY <1>2, <1>5, <1>6, <1>7, <1>8 DEF AccountStep
  <1> QED
    BY <1>1, <1>2, <1>3, <1>4, <1>9, SettledKeys DEF ServingInv, KeysInv, KeysDrawn

LEMMA AnswerKeys ==
    ASSUME TypeInv, NEW a \in Users, ServingInv(a), NEW r \in Writers, NEW u \in Users, Writing(r, u),
           Answer(r, mem, req[r].kind, req[r].actor, u, req[r].to),
           UNCHANGED <<mem, lastKey, met>>, \A v \in Users \ {u} : db'[v] = db[v]
    PROVE  /\ Settles(r, u)
           /\ floor'[u] = (IF req[r].to.key > floor[u] THEN req[r].to.key ELSE floor[u])
           /\ floor[u] \in Nat /\ floor'[u] <= lastKey
           /\ \A t \in tokens' : \/ t \in tokens
                                 \/ /\ t.user = u /\ req[r].kind = "own" /\ ~Missing(mem[u])
                                    /\ t.key = mem[u].key /\ t.pw = req[r].to.pw
                                    /\ "pw" \in req[r].set
           /\ gone' = IF req[r].kind = "delete" THEN gone \cup {u} ELSE gone
  <1> USE DEF TypeInv, TypeOK
  <1>1. InFlight(r, u) /\ req[r].to \in Account /\ req[r].to.key \in Nat /\ req[r].to.key <= lastKey
    <2>1. InFlight(r, u)
      BY DEF InFlight, Writing
    <2> QED BY <2>1, FlightTyped DEF ServingInv, KeysInv, KeysDrawn
  <1>2. /\ req' = [req EXCEPT ![r] = Idle]
        /\ floor' = [floor EXCEPT ![u] = Raise(u, req[r].to.key)]
        /\ gone' = IF req[r].kind = "delete" THEN gone \cup {u} ELSE gone
        /\ tokens' = IF req[r].kind # "own" \/ Missing(mem[u]) THEN tokens
                     ELSE tokens \cup {[user |-> u, role |-> req[r].actor.role,
                                        key |-> mem[u].key, pw |-> req[r].to.pw]}
    BY DEF Answer
  <1>3. /\ floor'[u] = (IF req[r].to.key > floor[u] THEN req[r].to.key ELSE floor[u])
        /\ floor[u] \in Nat /\ floor'[u] <= lastKey
        /\ \A v \in Users \ {u} : floor'[v] = floor[v]
    BY <1>1, <1>2 DEF Raise, ServingInv, KeysInv, KeysDrawn
  <1>4. req[r].kind = "own" => "pw" \in req[r].set
    BY DEF ServingInv, KeysInv, Changes, Writing
  <1>5. \A t \in tokens' : \/ t \in tokens
                           \/ /\ t.user = u /\ req[r].kind = "own" /\ ~Missing(mem[u])
                              /\ t.key = mem[u].key /\ t.pw = req[r].to.pw
                              /\ "pw" \in req[r].set
    BY <1>2, <1>4
  <1>6. ~Missing(mem[u]) => mem[u].key \in Nat /\ mem[u].key <= lastKey
    BY DEF Missing, Account, ServingInv, KeysInv, KeysDrawn
  <1>7. Settles(r, u)
    BY <1>1, <1>2, <1>3, <1>5, <1>6 DEF Settles
  <1> QED BY <1>2, <1>3, <1>5, <1>7

\* Memory is as it was, and the caller's cookie is for the password it has set.
LEMMA AnswerPasswords ==
    ASSUME TypeInv, NEW a \in Users, ServingInv(a), NEW r \in Writers, NEW u \in Users, Writing(r, u),
           Answer(r, mem, req[r].kind, req[r].actor, u, req[r].to),
           UNCHANGED <<mem, lastKey, met>>, \A v \in Users \ {u} : db'[v] = db[v],
           db[u] = NoAccount \/ db'[u].key \in {db[u].key, req[r].to.key},
           db[u] = NoAccount => db'[u] = NoAccount
    PROVE  RetiredInv(u)' /\ (u = a => Clean(u, AdminDemo)' /\ Rotated(u)')
  <1> USE DEF TypeInv, TypeOK
  <1>1. /\ Settles(r, u)
        /\ \A t \in tokens' : \/ t \in tokens
                              \/ /\ t.user = u /\ req[r].kind = "own" /\ ~Missing(mem[u])
                                 /\ t.key = mem[u].key /\ t.pw = req[r].to.pw
                                 /\ "pw" \in req[r].set
    BY AnswerKeys
  <1>2. \A q \in Writers : /\ InFlight(q, u)' => InFlight(q, u) /\ q # r /\ req'[q] = req[q]
                           /\ Writing(q, u)' => Writing(q, u) /\ q # r /\ req'[q] = req[q]
                           /\ Inserting(q, u)' => Inserting(q, u)
    BY <1>1, SettledRequests DEF ServingInv
  <1>3. \A p \in Passwords : Clean(u, p) => Clean(u, p)'
    BY <1>2 DEF Clean
  <1>4. Dead(u) => Dead(u)'
    BY <1>2 DEF Dead
  <1>5. ASSUME NEW p \in Passwords, Clean(u, p) \/ Dead(u)
        PROVE  \A t \in tokens' : t.pw = p /\ t.user = u => t \in tokens
    BY <1>1, <1>5 DEF Clean, Dead, Missing
  <1>6. RetiredInv(u)'
    BY <1>3, <1>4, <1>5, PublicAssumption DEF ServingInv, KeysInv, UserInv, RetiredInv
  <1>7. Clean(u, AdminDemo) /\ Rotated(u) => Rotated(u)'
    <2>1. InFlight(r, u) /\ AdminDemo \in Passwords
      BY PublicAssumption DEF InFlight, Writing
    <2> QED BY <1>2, <1>5, <2>1 DEF Rotated
  <1> QED BY <1>3, <1>6, <1>7, PublicAssumption DEF ServingInv

LEMMA SelectKeys ==
    ASSUME TypeInv, NEW a \in Users, ServingInv(a), NEW r \in Writers, Select(r)
    PROVE  KeysStep(a)
  <1> USE DEF TypeInv, TypeOK
  <1>u. PICK u \in Users : req[r].user = u
    BY WriteShape DEF Select, WriteRequest
  <1>1. /\ req[r] \in WriteRequest /\ req[r].pc = "select" /\ Writing(r, u) /\ InFlight(r, u)
        /\ UNCHANGED <<mem, db, lastKey, login, met>>
    BY <1>u, WriteShape DEF Select, Writing, InFlight
  <1>2. CASE db[u] = NoAccount
    <2>1. Answer(r, mem, req[r].kind, req[r].actor, u, req[r].to)
      BY <1>u, <1>2 DEF Select
    <2>2. u \in met
      <3> SUFFICES ASSUME u \notin met PROVE FALSE
        OBVIOUS
      <3>1. db[u] = req[r].prev
        BY <1>1 DEF ServingInv, KeysInv, UserInv, Mirrored
      <3> QED BY <1>1, <1>2, <3>1, AccountAssumption DEF WriteRequest
    <2>3. UserInv(u)' /\ (u = a => Clean(u, AdminDemo)' /\ Rotated(u)')
      BY <1>1, <1>2, <2>1, <2>2, AnswerPasswords DEF UserInv
    <2>4. AccountStep(a, u)
      BY <1>1, <2>2, <2>3 DEF AccountStep
    <2> QED BY <1>1, <2>1, <2>4, AnswerKeys, SettledKeys DEF ServingInv, KeysInv, KeysDrawn
  <1>3. CASE db[u] # NoAccount
    <2> DEFINE w == [req[r] EXCEPT !.pc = "commit", !.seen = db[u]]
    <2>1. req' = [req EXCEPT ![r] = w] /\ UNCHANGED <<tokens, floor, gone>>
      BY <1>u, <1>3 DEF Select
    <2>2. /\ w.pc = "commit" /\ w.seen = db[u] /\ w.user = u /\ w.kind = req[r].kind
          /\ w.set = req[r].set /\ w.to = req[r].to /\ w.prev = req[r].prev
      BY <1>u, <1>1 DEF WriteRequest
    <2> HIDE DEF w
    <2>3. req'[r] = w /\ \A q \in Writers : q # r => req'[q] = req[q]
      BY <2>1
    <2>4. \A q \in Writers, v \in Users : /\ InFlight(q, v)' <=> InFlight(q, v)
                                          /\ Writing(q, v)' <=> Writing(q, v)
                                          /\ Inserting(q, v)' <=> Inserting(q, v)
      BY <1>u, <1>1, <2>2, <2>3 DEF InFlight, Writing, Inserting
    <2>5. \A q \in Writers : /\ req'[q].to = req[q].to /\ req'[q].prev = req[q].prev
                             /\ req'[q].set = req[q].set
      BY <2>2, <2>3
    <2>6. \A v \in Users \ {u} : Untouched(v)
      BY <1>u, <1>1, <2>1, <2>3, <2>4 DEF Untouched, InFlight
    <2>7. KeysDrawn'
      BY <1>1, <2>1, <2>4, <2>5 DEF ServingInv, KeysInv, KeysDrawn
    <2>8. Changes' /\ NoTable'
      BY <1>1, <2>2, <2>3 DEF ServingInv, KeysInv, Changes, NoTable, GoodPassword
    <2>9. UserInv(u)'
      <3>1. ASSUME u \notin met'
            PROVE  Mirrored(u)'
        <4>1. u \notin met /\ Mirrored(u)
          BY <1>1, <3>1 DEF ServingInv, KeysInv, UserInv
        <4>2. \A q \in Writers : Writing(q, u) /\ req'[q].pc = "commit" => req'[q].seen = req'[q].prev
          BY <1>1, <2>2, <2>3, <4>1 DEF Mirrored
        <4> QED BY <1>1, <2>4, <2>5, <4>1, <4>2 DEF Mirrored, Updated
      <3>2. ASSUME u \notin met'
            PROVE  Newest(u)' /\ GoneInTable(u)' /\ Knows(mem[u], u)' /\ Knows(db[u], u)'
        BY <1>1, <2>1, <3>2 DEF ServingInv, KeysInv, UserInv, Newest, GoneInTable, Knows
      <3>3. RetiredInv(u)'
        BY <1>1, <2>1, <2>4, <2>5 DEF ServingInv, KeysInv, UserInv, RetiredInv, Clean, Dead
      <3> QED BY <3>1, <3>2, <3>3 DEF UserInv
    <2>10. u = a => Clean(u, AdminDemo)' /\ Rotated(u)'
      BY <1>1, <2>1, <2>4, <2>5 DEF ServingInv, Clean, Rotated
    <2>11. AccountStep(a, u)
      BY <1>1, <2>1, <2>4, <2>9, <2>10 DEF AccountStep, Unloaded, ServingInv, GoneInMemory
    <2> QED BY <2>1, <2>6, <2>7, <2>8, <2>11, OneAccount
  <1> QED BY <1>2, <1>3

LEMMA CommitKeys ==
    ASSUME TypeInv, NEW a \in Users, ServingInv(a), NEW r \in Writers, Commit(r)
    PROVE  KeysStep(a)
  <1> USE DEF TypeInv, TypeOK
  <1>u. PICK u \in Users : req[r].user = u
    BY WriteShape DEF Commit, WriteRequest
  <1> DEFINE w == req[r]
  <1> DEFINE acc == Updated(db[u], Dirty(w), w.to)
  <1>1. /\ w \in WriteRequest /\ w.pc = "commit" /\ Writing(r, u) /\ InFlight(r, u)
        /\ UNCHANGED <<mem, lastKey, login, met>>
        /\ db[u] \in Account /\ db[u] # NoAccount
    BY <1>u, WriteShape DEF Commit, Writing, InFlight, RowsStay
  <1>2. db' = [db EXCEPT ![u] = acc] /\ Answer(r, mem, w.kind, w.actor, u, w.to)
    BY <1>u DEF Commit
  <1>3. /\ w.set \in SUBSET Fields /\ Dirty(w) \in SUBSET Fields /\ w.to \in Account
        /\ w.prev \in Account /\ w.to.key \in Nat /\ w.prev.key \in Nat
    BY <1>1 DEF WriteRequest, Dirty, Account
  <1>4. /\ acc \in Account /\ acc # NoAccount
        /\ acc.key = IF "key" \in Dirty(w) THEN w.to.key ELSE db[u].key
    BY <1>1, <1>3, UpdatedType, UpdatedFields, AccountAssumption
  <1>5. /\ "key" \in w.set
        /\ w.kind = "delete" => "deleted" \in w.set
        /\ "deleted" \in w.set => w.to.deleted
        /\ w.kind = "own" => "pw" \in w.set
    BY <1>1 DEF ServingInv, KeysInv, Changes
  <1>6. u \notin met => /\ db[u] = w.prev /\ acc = mem[u] /\ w.prev.key < w.to.key
                        /\ mem[u] = Updated(w.prev, w.set, w.to)
                        /\ mem[u].key = w.to.key
                        /\ "pw" \in w.set => mem[u].pw = w.to.pw
                        /\ mem[u].deleted = IF "deleted" \in w.set THEN w.to.deleted ELSE w.prev.deleted
    <2> SUFFICES ASSUME u \notin met
                 PROVE  /\ db[u] = w.prev /\ acc = mem[u] /\ w.prev.key < w.to.key
                        /\ mem[u] = Updated(w.prev, w.set, w.to)
                        /\ mem[u].key = w.to.key
                        /\ "pw" \in w.set => mem[u].pw = w.to.pw
                        /\ mem[u].deleted = IF "deleted" \in w.set THEN w.to.deleted ELSE w.prev.deleted
      OBVIOUS
    <2>1. /\ db[u] = w.prev /\ w.seen = w.prev /\ w.prev.key < w.to.key
          /\ mem[u] = Updated(w.prev, w.set, w.to)
      BY <1>1 DEF ServingInv, KeysInv, UserInv, Mirrored
    <2>2. acc = mem[u]
      <3>1. Updated(w.seen, Dirty(w), w.to) = Updated(w.seen, w.set, w.to)
        BY <1>1, DirtyEnough
      <3> QED BY <2>1, <3>1
    <2> HIDE DEF acc, w
    <2> QED BY <1>5, <2>1, <2>2, UpdatedFields
  <1>7. db'[u] = acc /\ \A v \in Users \ {u} : db'[v] = db[v]
    BY <1>2
  <1>8. w.to.key <= lastKey /\ acc.key <= lastKey
    BY <1>1, <1>4 DEF ServingInv, KeysInv, KeysDrawn
  <1> HIDE DEF acc, w
  <1>9. /\ Settles(r, u)
        /\ floor'[u] = (IF w.to.key > floor[u] THEN w.to.key ELSE floor[u])
        /\ floor[u] \in Nat /\ floor'[u] <= lastKey
        /\ \A t \in tokens' : \/ t \in tokens
                              \/ /\ t.user = u /\ w.kind = "own" /\ ~Missing(mem[u])
                                 /\ t.key = mem[u].key /\ t.pw = w.to.pw
                                 /\ "pw" \in w.set
        /\ gone' = IF w.kind = "delete" THEN gone \cup {u} ELSE gone
    BY <1>1, <1>2, <1>7, AnswerKeys DEF w
  <1>10. UserInv(u)'
    <2>1. ASSUME u \notin met'
          PROVE  Mirrored(u)' /\ Newest(u)' /\ GoneInTable(u)' /\ Knows(mem[u], u)' /\ Knows(db[u], u)'
      <3>1. u \notin met /\ UserInv(u)
        BY <1>1, <2>1 DEF ServingInv, KeysInv
      <3>2. UseDb /\ \A q \in Writers : ~InFlight(q, u)' /\ ~Writing(q, u)' /\ ~Inserting(q, u)'
        BY <1>1, <1>9, <3>1, SettledRequests DEF ServingInv
      <3>3. db'[u] = mem'[u]
        BY <1>1, <1>6, <1>7, <3>1
      <3>4. Mirrored(u)'
        BY <3>2, <3>3 DEF Mirrored
      <3>5. Newest(u)'
        BY <1>1, <1>3, <1>6, <1>9, <3>1, <3>3 DEF UserInv, Newest
      <3>6. GoneInTable(u)'
        BY <1>1, <1>3, <1>4, <1>5, <1>6, <1>7, <1>9, <3>1, <3>2 DEF UserInv, GoneInTable
      <3>7. Knows(mem[u], u)' /\ Knows(db[u], u)'
        BY <1>1, <1>6, <1>9, <3>1, <3>3 DEF UserInv, Knows
      <3> QED BY <3>4, <3>5, <3>6, <3>7
    <2>2. RetiredInv(u)'
      BY <1>1, <1>2, <1>4, <1>7, AnswerPasswords DEF w
    <2> QED BY <2>1, <2>2 DEF UserInv
  <1>11. u = a => Clean(u, AdminDemo)' /\ Rotated(u)'
    BY <1>1, <1>2, <1>4, <1>7, AnswerPasswords DEF w
  <1>12. u \in gone' \ met' => mem'[u] # NoAccount /\ mem'[u].deleted
    BY <1>1, <1>3, <1>4, <1>5, <1>6, <1>9 DEF ServingInv, GoneInMemory
  <1>13. u \notin met' => ~Unloaded(u)'
    <2> SUFFICES ASSUME u \notin met' PROVE ~Unloaded(u)'
      OBVIOUS
    <2>1. u \notin met /\ mem'[u] # NoAccount
      BY <1>1, <1>4, <1>6
    <2> QED BY <1>9, <2>1, SettledRequests DEF ServingInv, Unloaded
  <1>14. AccountStep(a, u)
    BY <1>10, <1>11, <1>12, <1>13 DEF AccountStep
  <1> QED
    BY <1>1, <1>7, <1>8, <1>9, <1>14, SettledKeys DEF ServingInv, KeysInv, KeysDrawn

LEMMA WriteFailsKeys ==
    ASSUME TypeInv, NEW a \in Users, ServingInv(a), NEW r \in Writers, WriteFails(r)
    PROVE  KeysStep(a)
  <1> USE DEF TypeInv, TypeOK
  <1>u. PICK u \in Users : req[r].user = u
    BY WriteShape DEF WriteFails, WriteRequest
  <1> DEFINE w == req[r]
  <1> DEFINE acc == IF mem[u] = NoAccount THEN NoAccount ELSE Updated(mem[u], w.set, w.prev)
  <1>1. /\ w \in WriteRequest /\ Writing(r, u) /\ InFlight(r, u)
        /\ req' = [req EXCEPT ![r] = Idle]
        /\ UNCHANGED <<db, lastKey, tokens, login, floor, gone, met>>
    BY <1>u, WriteShape DEF WriteFails, Writing, InFlight
  <1>2. mem'[u] = acc /\ \A v \in Users \ {u} : mem'[v] = mem[v]
    BY <1>u DEF WriteFails
  <1>3. w.set \in SUBSET Fields /\ w.prev \in Account /\ w.prev.key \in Nat /\ "key" \in w.set
    BY <1>1 DEF WriteRequest, Account, ServingInv, KeysInv, Changes, Writing
  <1>4. acc # NoAccount => /\ mem[u] # NoAccount /\ acc \in Account
                           /\ acc.key = w.prev.key
                           /\ acc.pw = (IF "pw" \in w.set THEN w.prev.pw ELSE mem[u].pw)
                           /\ acc.deleted = (IF "deleted" \in w.set THEN w.prev.deleted ELSE mem[u].deleted)
    BY <1>3, UpdatedType, UpdatedFields
  <1>5. mem[u] # NoAccount => acc # NoAccount
    BY <1>3, UpdatedType, AccountAssumption
  <1>6. Settles(r, u)
    BY <1>1, <1>2 DEF Settles
  <1>7. w.prev.key <= lastKey
    BY <1>1 DEF ServingInv, KeysInv, KeysDrawn
  <1>8. u \notin met => acc = w.prev /\ db[u] = w.prev
    <2> SUFFICES ASSUME u \notin met PROVE acc = w.prev /\ db[u] = w.prev
      OBVIOUS
    <2>1. db[u] = w.prev /\ mem[u] = Updated(w.prev, w.set, w.to)
      BY <1>1 DEF ServingInv, KeysInv, UserInv, Mirrored
    <2>2. mem[u] # NoAccount
      BY <1>1, <2>1, UpdatedType, AccountAssumption DEF WriteRequest
    <2>3. Updated(Updated(w.prev, w.set, w.to), w.set, w.prev) = w.prev
      <3>1. w.prev = [role |-> w.prev.role, pw |-> w.prev.pw, key |-> w.prev.key,
                      deleted |-> w.prev.deleted]
        BY <1>3 DEF Account
      <3> HIDE DEF w
      <3> QED BY <3>1 DEF Updated
    <2> QED BY <2>1, <2>2, <2>3
  <1> HIDE DEF acc, w
  <1>9. UserInv(u)'
    <2>1. ASSUME u \notin met'
          PROVE  Mirrored(u)' /\ Newest(u)' /\ GoneInTable(u)' /\ Knows(mem[u], u)' /\ Knows(db[u], u)'
      <3>1. u \notin met /\ UserInv(u)
        BY <1>1, <2>1 DEF ServingInv, KeysInv
      <3>2. \A q \in Writers : ~InFlight(q, u)' /\ ~Writing(q, u)' /\ ~Inserting(q, u)'
        BY <1>1, <1>6, <3>1, SettledRequests DEF ServingInv
      <3>3. db'[u] = mem'[u] /\ db'[u] = db[u]
        BY <1>1, <1>2, <1>8, <3>1
      <3> QED BY <1>1, <3>1, <3>2, <3>3 DEF UserInv, Mirrored, Newest, GoneInTable, Knows
    <2>2. Clean(u, Public) => Clean(u, Public)'
      BY <1>1, <1>2, <1>4, <1>6, SettledRequests DEF ServingInv, Clean, w
    <2>3. Dead(u) => Dead(u)'
      BY <1>1, <1>2, <1>4, <1>5, <1>6, SettledRequests DEF ServingInv, Dead, w
    <2>4. RetiredInv(u)'
      BY <1>1, <2>2, <2>3 DEF ServingInv, KeysInv, UserInv, RetiredInv
    <2> QED BY <2>1, <2>4 DEF UserInv
  <1>10. u = a => Clean(u, AdminDemo)' /\ Rotated(u)'
    <2>1. Clean(u, AdminDemo) => Clean(u, AdminDemo)'
      BY <1>1, <1>2, <1>4, <1>6, SettledRequests DEF ServingInv, Clean, w
    <2>2. Rotated(u) => Rotated(u)'
      BY <1>1, <1>2, <1>4, <1>6, SettledRequests DEF ServingInv, Rotated, w
    <2> QED BY <2>1, <2>2 DEF ServingInv
  <1>11. u \in gone' \ met' => mem'[u] # NoAccount /\ mem'[u].deleted
    <2> SUFFICES ASSUME u \in gone' \ met' PROVE mem'[u] # NoAccount /\ mem'[u].deleted
      OBVIOUS
    <2>1. u \in gone \ met /\ UseDb
      BY <1>1, <1>6, SettledRequests DEF ServingInv
    <2> QED BY <1>2, <1>8, <2>1 DEF ServingInv, KeysInv, UserInv, GoneInTable
  <1>12. Unloaded(u)' => Unloaded(u) /\ db'[u] = db[u]
    BY <1>1, <1>2, <1>5, <1>6, SettledRequests DEF ServingInv, Unloaded
  <1>13. AccountStep(a, u)
    BY <1>9, <1>10, <1>11, <1>12 DEF AccountStep
  <1> QED
    BY <1>1, <1>2, <1>3, <1>4, <1>6, <1>7, <1>13, SettledKeys DEF ServingInv, KeysInv, KeysDrawn

LEMMA RequestStepKeys ==
    ASSUME TypeInv, NEW a \in Users, ServingInv(a), NEW r \in Writers, RequestStep(r)
    PROVE  KeysStep(a)
  <1> USE DEF TypeInv, TypeOK
  <1>1. CASE Admit(r)
    <2>1. PICK t \in tokens : req' = [req EXCEPT ![r] = [pc |-> "admitted",
                       actor |-> [username |-> t.user, role |-> t.role]]]
      BY <1>1 DEF Admit
    <2>2. req[r].pc = "idle"
      BY <1>1 DEF Admit, Idle
    <2> DEFINE q == [pc |-> "admitted", actor |-> [username |-> t.user, role |-> t.role]]
    <2>3. req' = [req EXCEPT ![r] = q] /\ q.pc = "admitted"
      BY <2>1
    <2> HIDE DEF q
    <2> QED BY <1>1, <2>2, <2>3, QuietKeys DEF Admit
  <1>2. CASE ReadOrRefuse(r)
    BY <1>2, QuietKeys DEF ReadOrRefuse, Idle
  <1>3. ASSUME NEW current \in Passwords, NEW new \in Passwords, OwnPassword(r, current, new)
        PROVE  KeysStep(a)
    BY <1>3, QuietKeys DEF OwnPassword
  <1>4. CASE VerifyOwn(r)
    <2>1. req[r] \in OwnRequest /\ req[r].pc = "verify"
      BY <1>4, OwnShape DEF VerifyOwn
    <2>2. CASE req' = [req EXCEPT ![r] = Idle]
      BY <1>4, <2>1, <2>2, QuietKeys DEF VerifyOwn, Idle
    <2>3. CASE /\ req' = [req EXCEPT ![r] = [req[r] EXCEPT !.pc = "hash"]]
               /\ GoodPassword(req[r].actor.username, req[r].new)
      <3> DEFINE q == [req[r] EXCEPT !.pc = "hash"]
      <3>1. q.pc = "hash" /\ q.actor = req[r].actor /\ q.new = req[r].new
        BY <2>1 DEF OwnRequest
      <3> HIDE DEF q
      <3>2. req' = [req EXCEPT ![r] = q] /\ GoodPassword(q.actor.username, q.new)
        BY <2>3, <3>1 DEF q
      <3> QED BY <1>4, <2>1, <3>1, <3>2, QuietKeys DEF VerifyOwn
    <2> QED BY <1>4, <2>2, <2>3 DEF VerifyOwn
  <1> QED
    BY <1>1, <1>2, <1>3, <1>4, CreateKeys, ChangeKeys, HashOwnKeys, InsertKeys, InsertFailsKeys,
       SelectKeys, CommitKeys, WriteFailsKeys DEF RequestStep

\* A login opens a session with the key then in force, and with the password
\* then in force unless it was overtaken.
LEMMA LoginStepKeys ==
    ASSUME TypeInv, KeysInv, NEW a \in Users, NEW l \in Logins, LoginStep(l)
    PROVE  /\ KeysInv' /\ HiddenStay
           /\ GoneInMemory => GoneInMemory'
           /\ Clean(a, AdminDemo) => Clean(a, AdminDemo)'
           /\ Clean(a, AdminDemo) /\ Rotated(a) => Rotated(a)'
           /\ \A t \in tokens' : t \in tokens \/ (/\ Active(t.user) /\ t.key = mem[t.user].key
                                                  /\ t.pw \in {mem[t.user].pw, Late})
           /\ UNCHANGED <<mem, db, lastKey, req, floor, gone, met>>
  <1> USE DEF TypeInv, TypeOK
  <1>1. UNCHANGED <<mem, db, lastKey, req, floor, gone, met>>
    BY DEF LoginStep, LoginStart, LoginVerify, LoginCookie
  <1>2. \A t \in tokens' : t \in tokens \/ (/\ Active(t.user) /\ t.key = mem[t.user].key
                                            /\ t.pw \in {mem[t.user].pw, Late} /\ t.user \in Users)
    <2>1. CASE UNCHANGED tokens
      BY <2>1
    <2>2. CASE LoginCookie(l)
      <3>1. login[l] \in CookieLogin
        BY <2>2 DEF LoginCookie, LoginRequest, Idle, VerifyingLogin, CookieLogin
      <3> QED BY <2>2, <3>1 DEF LoginCookie, CookieLogin
    <2> QED BY <2>1, <2>2 DEF LoginStep, LoginStart, LoginVerify
  <1>3. \A u \in Users : Active(u) => mem[u] \in Account /\ mem[u].key \in Nat /\ mem[u].key <= lastKey
    BY DEF Active, Account, KeysInv, KeysDrawn
  <1>4. /\ Changes' /\ NoTable' /\ HiddenStay /\ (GoneInMemory => GoneInMemory')
        /\ \A u \in Users : /\ \A p \in Passwords : Clean(u, p) => Clean(u, p)'
                            /\ Dead(u) => Dead(u)'
    BY <1>1 DEF KeysInv, Changes, GoodPassword, NoTable, HiddenStay, Unloaded, Inserting, GoneInMemory,
                Clean, Dead, Writing
  <1>5. KeysDrawn'
    BY <1>1, <1>2, <1>3 DEF KeysInv, KeysDrawn, InFlight, Writing
  <1>6. ASSUME NEW u \in Users
        PROVE  UserInv(u)'
    <2>1. ASSUME u \notin met'
          PROVE  Mirrored(u)' /\ Newest(u)' /\ GoneInTable(u)' /\ Knows(mem[u], u)' /\ Knows(db[u], u)'
      <3>1. u \notin met /\ UserInv(u)
        BY <1>1, <2>1 DEF KeysInv
      <3>2. Mirrored(u)' /\ Newest(u)' /\ GoneInTable(u)'
        BY <1>1, <3>1 DEF UserInv, Mirrored, Newest, GoneInTable, InFlight, Inserting, Writing, Updated
      <3>3. Knows(mem[u], u)'
        BY <1>1, <1>2, <3>1 DEF UserInv, Knows
      <3>4. Active(u) /\ db[u] # NoAccount /\ db[u].key = mem[u].key => db[u].pw = mem[u].pw
        <4> SUFFICES ASSUME Active(u), db[u] # NoAccount, db[u].key = mem[u].key
                     PROVE  db[u].pw = mem[u].pw
          OBVIOUS
        <4>1. UseDb /\ db[u] \in Account /\ db[u].key \in Nat
          BY DEF KeysInv, NoTable, Account
        <4>2. ASSUME NEW q \in Writers, InFlight(q, u) PROVE FALSE
          <5>1. CASE Inserting(q, u)
            BY <3>1, <4>1, <4>2, <5>1, FlightTyped DEF UserInv, Mirrored
          <5>2. CASE Writing(q, u)
            <6>1. mem[u].key = req[q].to.key
              BY <3>1, <5>2, UpdatedFields DEF UserInv, Mirrored, KeysInv, Changes, Writing
            <6> QED BY <3>1, <4>1, <4>2, <5>2, <6>1, FlightTyped DEF UserInv, Mirrored
          <5> QED BY <4>2, <5>1, <5>2, FlightTyped
        <4> QED BY <3>1, <4>1, <4>2 DEF UserInv, Mirrored, Active
      <3>5. Knows(db[u], u)'
        BY <1>1, <1>2, <3>1, <3>4 DEF UserInv, Knows
      <3> QED BY <3>2, <3>3, <3>5
    <2>2. RetiredInv(u)'
      BY <1>1, <1>2, <1>4, PublicAssumption DEF KeysInv, UserInv, RetiredInv, Clean, Dead, Active
    <2> QED BY <2>1, <2>2 DEF UserInv
  <1>7. Clean(a, AdminDemo) /\ Rotated(a) => Rotated(a)'
    <2>1. Clean(a, AdminDemo) => \A t \in tokens' : t.user = a /\ t.pw = AdminDemo => t \in tokens
      BY <1>2, PublicAssumption DEF Clean, Active
    <2> QED BY <1>1, <2>1 DEF Rotated, InFlight, Writing
  <1> QED BY <1>1, <1>2, <1>4, <1>5, <1>6, <1>7, PublicAssumption DEF KeysInv

LEMMA MetGrows ==
    ASSUME TypeInv, NEW r \in Writers, RequestStep(r)
    PROVE  met \subseteq met'
  <1>1. ASSUME NEW u \in Users, NEW role \in RoleInput, NEW pw \in Passwords, CreateUser(r, u, role, pw)
        PROVE  UNCHANGED met
    BY <1>1 DEF CreateUser
  <1>2. ASSUME NEW u \in Users,
               (\E body \in UpdateBody : UpdateUser(r, u, body)) \/ DeleteUser(r, u)
        PROVE  met \subseteq met'
    BY <1>2 DEF UpdateUser, DeleteUser, Apply
  <1>3. CASE HashOwn(r)
    BY <1>3 DEF HashOwn, Apply
  <1>4. ASSUME NEW current \in Passwords, NEW new \in Passwords, OwnPassword(r, current, new)
        PROVE  UNCHANGED met
    BY <1>4 DEF OwnPassword
  <1>5. CASE Admit(r) \/ ReadOrRefuse(r) \/ VerifyOwn(r) \/ Insert(r) \/ InsertFails(r)
             \/ Select(r) \/ Commit(r) \/ WriteFails(r)
    BY <1>5 DEF Admit, ReadOrRefuse, VerifyOwn, Insert, InsertFails, Select, Commit, WriteFails
  <1> QED BY <1>1, <1>2, <1>3, <1>4, <1>5 DEF RequestStep

-----------------------------------------------------------------------------
(* Startup *)

\* How far sync_users_with_db has come; the real admin, once reached, exists or
\* another account is the admin.
SyncInv ==
    phase = "sync" =>
      /\ UseDb /\ todo \subseteq Seeded(demo, adminPw)
      /\ ~demo /\ adminPw # NoPassword /\ Admin \notin todo => db[Admin] # NoAccount \/ Admins # {}

Quiet == req = [r \in Writers |-> Idle] /\ login = [l \in Logins |-> Idle]

\* ServesOneAdmin is not inductive: it must also hold of what is about to be
\* written and of what would be put back if the write failed, of rows of the
\* admin role that are deleted, and of an admin that was not loaded.
OneRuler ==
    phase = "up" => \E a \in Users : RoleInv(a) /\ (mem[a] = NoAccount => Withheld(a))

LifeInv ==
    /\ TypeOKLife /\ RowsStay /\ OneRuler
    /\ phase # "up" => Quiet
    /\ SyncInv

-----------------------------------------------------------------------------
(* Lemmas. *)

LEMMA QuietKeeps ==
    ASSUME Quiet
    PROVE  RowsStay /\ req \in [Writers -> Request] /\ login \in [Logins -> LoginRequest]
  BY DEF Quiet, RowsStay, Idle, Request, LoginRequest

LEMMA AdminsAre ==
    ASSUME NEW accounts \in Accounts, NEW u \in Users
    PROVE  u \in ActiveAdmins(accounts) <=> accounts[u] \in Chiefs
<1>1. CASE accounts[u] = NoAccount
  BY <1>1, KindsApart DEF ActiveAdmins, Missing
<1>2. CASE accounts[u] # NoAccount
  <2>1. accounts[u] \in Account
    BY <1>2 DEF Accounts
  <2> QED BY <1>2, <2>1 DEF ActiveAdmins, Missing, Chiefs, Account
<1> QED BY <1>1, <1>2

LEMMA StoredAdmins ==
    ASSUME TypeOK, NEW u \in Users
    PROVE  u \in Admins <=> db[u] # NoAccount /\ db[u].role = "admin" /\ ~db[u].deleted
<1>1. db \in Accounts
  BY DEF TypeOK, Accounts
<1>2. u \in Admins <=> db[u] \in Chiefs
  BY <1>1, AdminsAre DEF Admins
<1> QED BY <1>1, <1>2, KindsApart DEF Chiefs, Accounts

\* In memory and in the table nobody else is an active admin.
LEMMA TheAdmin ==
    ASSUME TypeOK, NEW a \in Users, RoleInv(a)
    PROVE  /\ UseDb => Admins = {a}
           /\ ActiveAdmins(mem) = (IF mem[a] = NoAccount THEN {} ELSE {a})
<1>1. mem \in Accounts /\ db \in Accounts
  BY DEF TypeOK, Accounts
<1>2. ASSUME NEW u \in Users \ {a} PROVE (UseDb => u \notin Admins) /\ u \notin ActiveAdmins(mem)
  <2>1. CASE Plain(u)
    <3>1. mem[u] \notin Chiefs /\ (UseDb => db[u] \notin Chiefs)
      BY <2>1, KindsApart DEF Plain, Within
    <3> QED BY <1>1, <3>1, AdminsAre DEF Admins
  <2>2. CASE Buried(u)
    <3>1. mem[u] \notin Chiefs /\ db[u] \notin Chiefs
      BY <2>2, KindsApart DEF Buried, Chiefs
    <3> QED BY <1>1, <3>1, AdminsAre DEF Admins
  <2> QED BY <2>1, <2>2 DEF RoleInv
<1>3. UseDb => a \in Admins
  BY <1>1, AdminsAre DEF RoleInv, Chief, Absent, Within, Admins
<1>4. a \in ActiveAdmins(mem) <=> mem[a] # NoAccount
  BY <1>1, AdminsAre, KindsApart DEF RoleInv, Chief, Absent, Within
<1>5. Admins \subseteq Users /\ ActiveAdmins(mem) \subseteq Users
  BY DEF Admins, ActiveAdmins
<1> QED BY <1>2, <1>3, <1>4, <1>5

LEMMA SeededTyped ==
    ASSUME TypeOKLife, NEW isDemo \in BOOLEAN, NEW pw \in (Passwords \ {AdminDemo}) \cup {NoPassword},
           NEW u \in Seeded(isDemo, pw)
    PROVE  /\ u \in DemoUsers /\ u \in Users
           /\ SeededAccount(u, isDemo, pw) \in Account
           /\ SeededAccount(u, isDemo, pw).role = "admin" <=> u = Admin
           /\ ~SeededAccount(u, isDemo, pw).deleted
<1>1. u \in DemoUsers /\ u \in Users
  BY DemoAssumption, UsersAssumption DEF Seeded
<1>2. NewKey \in Nat /\ Published(u) \in Passwords
  BY PublicAssumption DEF NewKey, TypeOKLife, TypeOK, Published
<1>3. ~isDemo => pw \in Passwords /\ u = Admin
  BY DEF Seeded
<1>4. DemoRole[u] \in Roles /\ (DemoRole[u] = "admin" <=> u = Admin)
  BY <1>1, DemoAssumption
<1> QED BY <1>1, <1>2, <1>3, <1>4 DEF SeededAccount, Account, Roles

LEMMA RestoredTyped ==
    ASSUME TypeOKLife, NEW u \in DemoUsers, db[u] # NoAccount
    PROVE  /\ Restored(u) \in Account
           /\ Restored(u).role = DemoRole[u]
           /\ Restored(u).role = "admin" => Restored(u).pw = AdminDemo
           /\ Restored(u).deleted = db[u].deleted
           /\ \/ Restored(u).key = NewKey
              \/ Restored(u).key = db[u].key /\ Restored(u).pw = db[u].pw
<1>1. u \in Users /\ DemoRole[u] \in Roles /\ (DemoRole[u] = "admin" <=> u = Admin)
  BY DemoAssumption
<1>2. db[u] \in Account
  BY <1>1 DEF TypeOKLife, TypeOK
<1>3. NewKey \in Nat /\ AdminDemo \in Passwords
  BY PublicAssumption DEF NewKey, TypeOKLife, TypeOK
<1> QED BY <1>1, <1>2, <1>3 DEF Restored, Account

\* A commit of startup; outside demo mode it gives a row a new password or key.
LEMMA WriteKeeps ==
    ASSUME LifeInv, phase = "sync", NEW u \in Users, NEW acc \in Account, Write(u, acc),
           todo' \subseteq todo, todo \ todo' \subseteq {u},
           ~demo => u = Admin \/ (db[u] # NoAccount /\ acc.role = db[u].role /\ acc.deleted = db[u].deleted)
    PROVE  LifeInv'
<1> USE DEF LifeInv, TypeOKLife
<1>1. db' = [db EXCEPT ![u] = acc] /\ UNCHANGED <<mem, tokens, req, login, floor, gone, met, phase, settings>>
  BY DEF Write
<1>2. db' \in Accounts /\ lastKey' \in Nat
  BY <1>1 DEF TypeOK, Accounts, Write, NewKey
<1>3. TypeOKLife'
  BY <1>1, <1>2 DEF TypeOK, settings, Accounts
<1>4. Quiet'
  BY <1>1 DEF Quiet
<1>5. RowsStay'
  BY <1>4 DEF Quiet, RowsStay, Idle
<1>6. SyncInv'
  <2>1. acc # NoAccount /\ db'[u] = acc /\ \A v \in Users \ {u} : db'[v] = db[v]
    BY <1>1, AccountAssumption DEF TypeOK
  <2>2. demo' = demo /\ adminPw' = adminPw
    BY <1>1 DEF settings
  <2>3. ASSUME ~demo, adminPw # NoPassword, Admin \notin todo'
        PROVE  db'[Admin] # NoAccount \/ Admins' # {}
    <3>1. CASE u = Admin
      BY <2>1, <3>1
    <3>2. CASE u # Admin /\ db[Admin] # NoAccount
      BY <2>1, <3>2, UsersAssumption
    <3>3. CASE u # Admin /\ db[Admin] = NoAccount
      <4>1. PICK v \in Users : v \in Admins
        BY <2>3, <3>3 DEF SyncInv, Admins, ActiveAdmins
      <4>2. db[v] # NoAccount /\ db[v].role = "admin" /\ ~db[v].deleted
        BY <4>1, StoredAdmins
      <4>3. db'[v] # NoAccount /\ db'[v].role = "admin" /\ ~db'[v].deleted
        BY <2>1, <2>3, <3>3, <4>2
      <4>4. v \in Admins'
        BY <4>3 DEF Admins, ActiveAdmins, Missing
      <4> QED BY <4>4
    <3> QED BY <3>1, <3>2, <3>3
  <2> QED BY <1>1, <2>2, <2>3 DEF SyncInv
<1> QED BY <1>1, <1>3, <1>4, <1>5, <1>6 DEF OneRuler

LEMMA LifeInit == Init => LifeInv
<1> SUFFICES ASSUME Init PROVE LifeInv
  OBVIOUS
<1>1. db \in Accounts
  <2>1. CASE db = Nobody
    BY <2>1 DEF Nobody, Accounts
  <2>2. CASE db \in Tables
    <3>1. [role : Roles, pw : Passwords, key : 0..FirstKey, deleted : BOOLEAN] \subseteq Account
      <4>1. 0..FirstKey \subseteq Nat
        BY TablesAssumption
      <4> QED BY <4>1 DEF Account
    <3> QED BY <2>2, <3>1, TablesAssumption DEF Accounts
  <2> QED BY <2>1, <2>2 DEF Init
<1>2. Quiet
  BY DEF Init, Quiet
<1>3. TypeOKLife
  BY <1>1, <1>2, QuietKeeps, TablesAssumption DEF Init, TypeOKLife, TypeOK, Nobody, Accounts
<1> QED BY <1>2, <1>3, QuietKeeps DEF Init, LifeInv, SyncInv, OneRuler

LEMMA StartKeeps ==
    ASSUME LifeInv, NEW isDemo \in BOOLEAN, NEW pw \in (Passwords \ {AdminDemo}) \cup {NoPassword},
           Start(isDemo, pw)
    PROVE  LifeInv'
<1> USE DEF LifeInv, TypeOKLife
<1>1. UNCHANGED <<db, tokens, req, login, floor, met>> /\ demo' = isDemo /\ phase = "down"
  BY DEF Start
<1>2. Quiet /\ Quiet'
  BY <1>1 DEF Quiet
<1>3. RowsStay'
  BY <1>1 DEF RowsStay
<1>4. CASE UseDb
  <2>1. Seeded(isDemo, pw) \subseteq DemoUsers
    BY SeededTyped
  <2>2. phase' = "sync" /\ todo' = Seeded(isDemo, pw) /\ adminPw' = pw /\ UNCHANGED <<mem, lastKey, gone>>
    BY <1>4 DEF Start
  <2>3. TypeOKLife'
    BY <1>1, <2>1, <2>2 DEF TypeOK
  <2>4. SyncInv'
    BY <1>1, <1>4, <2>2 DEF SyncInv, Seeded
  <2> QED BY <1>2, <1>3, <2>2, <2>3, <2>4 DEF OneRuler
<1>5. CASE ~UseDb
  <2>1. /\ mem' = [u \in Users |-> IF u \in Seeded(isDemo, pw) THEN SeededAccount(u, isDemo, pw)
                                   ELSE NoAccount]
        /\ phase' = "up" /\ lastKey' = NewKey /\ gone' = {} /\ UNCHANGED <<adminPw, todo>>
        /\ isDemo \/ pw # NoPassword
    BY <1>5 DEF Start
  <2>2. mem' \in Accounts
    BY <2>1, SeededTyped DEF Accounts
  <2>3. lastKey' \in Nat
    BY <2>1 DEF NewKey, TypeOK
  <2>4. TypeOKLife'
    BY <1>1, <2>1, <2>2, <2>3 DEF TypeOK, Accounts
  <2>5. Admin \in Seeded(isDemo, pw)
    BY <2>1, DemoAssumption DEF Seeded
  <2>6. mem'[Admin] \in Chiefs
    BY <2>1, <2>5, SeededTyped, UsersAssumption DEF Chiefs
  <2>7. \A u \in Users \ {Admin} : mem'[u] \in Plains \cup {NoAccount}
    BY <2>1, SeededTyped DEF Plains
  <2>8. RoleInv(Admin)'
    BY <1>2, <1>5, <2>6, <2>7, KindsApart
       DEF RoleInv, Chief, Plain, Within, Quiet, Idle, InFlight, Writing, Inserting
  <2>9. OneRuler'
    BY <2>6, <2>8, UsersAssumption, KindsApart DEF OneRuler
  <2> QED BY <1>2, <1>3, <2>1, <2>4, <2>9 DEF SyncInv
<1> QED BY <1>4, <1>5

LEMMA SyncKeeps ==
    ASSUME LifeInv, NEW u \in Users, SyncUser(u)
    PROVE  LifeInv'
<1> USE DEF LifeInv, TypeOKLife
<1>1. /\ u \in DemoUsers /\ phase = "sync" /\ u \in todo /\ todo' = todo \ {u}
      /\ u \in Seeded(demo, adminPw)
  BY DEF SyncUser, SyncInv
<1>2. ~demo => u = Admin
  BY <1>1 DEF Seeded
<1>3. CASE db[u] = NoAccount /\ ~(u = Admin /\ Admins # {})
  <2>1. Write(u, SeededAccount(u, demo, adminPw))
    BY <1>3 DEF SyncUser
  <2>2. SeededAccount(u, demo, adminPw) \in Account
    BY <1>1, SeededTyped
  <2> QED BY <1>1, <1>2, <2>1, <2>2, WriteKeeps
<1>4. CASE demo /\ db[u] # NoAccount
  <2>1. Write(u, Restored(u)) /\ Restored(u) \in Account
    BY <1>1, <1>4, RestoredTyped DEF SyncUser
  <2> QED BY <1>1, <1>4, <2>1, WriteKeeps
<1>5. CASE ~(db[u] = NoAccount /\ ~(u = Admin /\ Admins # {})) /\ ~(demo /\ db[u] # NoAccount)
  <2>1. UNCHANGED <<vars, phase, settings>>
    BY <1>5 DEF SyncUser
  <2>2. TypeOKLife' /\ RowsStay' /\ Quiet'
    BY <1>1, <2>1 DEF vars, settings, TypeOK, RowsStay, Quiet
  <2>3. Admin \notin todo' => Admin \notin todo \/ db[Admin] # NoAccount \/ Admins # {}
    BY <1>1, <1>5
  <2>4. SyncInv'
    BY <1>1, <2>1, <2>3 DEF SyncInv, vars, settings, Admins, ActiveAdmins
  <2> QED BY <1>1, <2>1, <2>2, <2>4 DEF OneRuler
<1> QED BY <1>3, <1>4, <1>5

\* A commit of startup that leaves the account's role and deletion alone.
LEMMA Rekeyed ==
    ASSUME TypeOKLife, NEW u \in Users, ReplacePublicPassword(u) \/ DrawKey(u)
    PROVE  /\ Synced /\ UNCHANGED todo /\ db[u] # NoAccount
           /\ \E acc \in Account : /\ Write(u, acc) /\ acc.key = NewKey
                                   /\ acc.role = db[u].role /\ acc.deleted = db[u].deleted
<1> USE DEF TypeOKLife
<1>1. Synced /\ UNCHANGED todo
  BY DEF ReplacePublicPassword, DrawKey
<1>2. db[u] # NoAccount
  BY StoredAdmins DEF ReplacePublicPassword, DrawKey, PublicAdmins
<1>3. db[u] \in Account /\ NewKey \in Nat
  BY <1>2 DEF TypeOK, NewKey
<1>4. CASE ReplacePublicPassword(u)
  <2>1. adminPw \in Passwords
    BY <1>4 DEF ReplacePublicPassword
  <2> DEFINE acc == [db[u] EXCEPT !.pw = adminPw, !.key = NewKey]
  <2>2. Write(u, acc)
    BY <1>4 DEF ReplacePublicPassword
  <2>3. acc \in Account /\ acc.key = NewKey /\ acc.role = db[u].role /\ acc.deleted = db[u].deleted
    BY <1>3, <2>1 DEF Account
  <2> HIDE DEF acc
  <2> QED BY <1>1, <1>2, <2>2, <2>3
<1>5. CASE DrawKey(u)
  <2> DEFINE acc == [db[u] EXCEPT !.key = NewKey]
  <2>1. Write(u, acc)
    BY <1>5 DEF DrawKey
  <2>2. acc \in Account /\ acc.key = NewKey /\ acc.role = db[u].role /\ acc.deleted = db[u].deleted
    BY <1>3 DEF Account
  <2> HIDE DEF acc
  <2> QED BY <1>1, <1>2, <2>1, <2>2
<1> QED BY <1>4, <1>5

LEMMA RekeyKeeps ==
    ASSUME LifeInv, NEW u \in Users, ReplacePublicPassword(u) \/ DrawKey(u)
    PROVE  LifeInv'
<1>1. /\ Synced /\ UNCHANGED todo /\ db[u] # NoAccount
      /\ \E acc \in Account : Write(u, acc) /\ acc.role = db[u].role /\ acc.deleted = db[u].deleted
  BY Rekeyed DEF LifeInv
<1> QED BY <1>1, WriteKeeps DEF Synced

LEMMA LoadKeeps ==
    ASSUME LifeInv, Load
    PROVE  LifeInv'
<1> USE DEF LifeInv, TypeOKLife
<1>1. /\ phase = "sync" /\ phase' = "up" /\ UseDb
      /\ mem' = [u \in Users |-> IF Withheld(u) THEN NoAccount ELSE db[u]]
      /\ UNCHANGED <<db, lastKey, tokens, req, login, floor, gone, met, demo, todo>>
      /\ adminPw' = NoPassword
  BY DEF Load, Synced, SyncInv
<1>2. PICK a \in Users : Admins = {a}
  BY DEF Load, MustRefuse
<1>3. \A r \in Writers, u \in Users : ~InFlight(r, u)' /\ ~Writing(r, u)' /\ ~Inserting(r, u)' /\ ~Waiting(r)'
  BY <1>1 DEF Quiet, Idle, InFlight, Writing, Inserting, Waiting
<1>4. \A u \in Users : mem'[u] = (IF Withheld(u) THEN NoAccount ELSE db[u]) /\ db'[u] = db[u]
  BY <1>1
<1>5. Chief(a)' \/ Absent(a)'
  <2>1. db[a] \in Chiefs /\ db[a] # NoAccount
    BY <1>2, StoredAdmins DEF Chiefs, TypeOK
  <2> QED BY <1>1, <1>3, <1>4, <2>1 DEF Chief, Absent, Within, Chiefs
<1>6. ASSUME NEW u \in Users \ {a} PROVE Plain(u)' \/ Buried(u)'
  <2>1. CASE db[u] = NoAccount
    BY <1>3, <1>4, <2>1 DEF Plain, Within
  <2>2. CASE db[u] # NoAccount /\ db[u].role # "admin"
    <3>1. db[u] \in Plains
      BY <2>2 DEF Plains, TypeOK
    <3> QED BY <1>3, <1>4, <3>1 DEF Plain, Within, Plains
  <2>3. CASE db[u] # NoAccount /\ db[u].role = "admin"
    <3>1. db[u].deleted
      BY <1>2, <2>3, StoredAdmins
    <3> QED BY <1>3, <1>4, <2>3, <3>1 DEF Buried, Withheld
  <2> QED BY <2>1, <2>2, <2>3
<1>7. RoleInv(a)'
  BY <1>5, <1>6 DEF RoleInv
<1>8. mem'[a] = NoAccount => Withheld(a)'
  <2>1. db[a] # NoAccount
    BY <1>2, StoredAdmins
  <2> QED BY <1>1, <1>4, <2>1 DEF Withheld
<1>9. TypeOKLife' /\ RowsStay'
  BY <1>1 DEF TypeOK, RowsStay
<1> QED BY <1>1, <1>7, <1>8, <1>9 DEF SyncInv, OneRuler

LEMMA StopKeeps ==
    ASSUME LifeInv, Stop
    PROVE  LifeInv'
<1> USE DEF LifeInv, TypeOKLife
<1>1. /\ phase' = "down" /\ todo' = {} /\ mem' = Nobody /\ demo' = FALSE /\ adminPw' = NoPassword
      /\ UNCHANGED <<db, lastKey, tokens, floor, gone, met>>
  BY DEF Stop
<1>2. Quiet'
  BY DEF Stop, Quiet
<1>3. req' \in [Writers -> Request] /\ login' \in [Logins -> LoginRequest] /\ RowsStay'
  BY <1>2 DEF Quiet, Idle, Request, LoginRequest, RowsStay
<1>4. TypeOKLife'
  BY <1>1, <1>3 DEF TypeOK, Nobody
<1> QED BY <1>1, <1>2, <1>3, <1>4 DEF SyncInv, OneRuler

\* The admin that the invariant speaks of stays the same while the server is up.
LEMMA ServeKeeps ==
    ASSUME LifeInv, Serve
    PROVE  /\ LifeInv'
           /\ \A a \in Users : RoleInv(a) => RoleInv(a)'
<1> USE DEF LifeInv, TypeOKLife
<1>1. phase = "up" /\ UNCHANGED <<phase, settings, todo>>
  BY DEF Serve
<1>2. TypeInv
  BY DEF TypeInv
<1>3. TypeOK' /\ RowsStay'
  BY <1>2, RequestStepTyped, LoginStepTyped DEF Serve, TypeInv
<1>4. \A a \in Users : RoleInv(a) => RoleStep(a)
  BY <1>2, ServingRoles DEF Serve
<1>5. PICK a \in Users : RoleInv(a) /\ (mem[a] = NoAccount => Withheld(a))
  BY <1>1 DEF OneRuler
<1>6. RoleInv(a)' /\ (mem'[a] = NoAccount => Withheld(a)')
  BY <1>1, <1>4, <1>5 DEF RoleStep, Withheld, settings
<1>7. OneRuler'
  BY <1>6 DEF OneRuler
<1> QED BY <1>1, <1>3, <1>4, <1>7 DEF settings, SyncInv, RoleStep

LEMMA LifeNext == LifeInv /\ [Next]_svars => LifeInv'
<1> SUFFICES ASSUME LifeInv, [Next]_svars PROVE LifeInv'
  OBVIOUS
<1>1. ASSUME NEW isDemo \in BOOLEAN, NEW pw \in (Passwords \ {AdminDemo}) \cup {NoPassword},
             Start(isDemo, pw)
      PROVE  LifeInv'
  BY <1>1, StartKeeps
<1>2. ASSUME NEW u \in Users, SyncUser(u)
      PROVE  LifeInv'
  BY <1>2, SyncKeeps
<1>3. ASSUME NEW u \in Users, ReplacePublicPassword(u) \/ DrawKey(u)
      PROVE  LifeInv'
  BY <1>3, RekeyKeeps
<1>4. CASE Load
  BY <1>4, LoadKeeps
<1>5. CASE Stop
  BY <1>5, StopKeeps
<1>6. CASE Serve
  BY <1>6, ServeKeeps
<1>7. CASE UNCHANGED svars
  BY <1>7 DEF LifeInv, svars, vars, settings, TypeOKLife, TypeOK, RowsStay, SyncInv, Admins, ActiveAdmins,
              Quiet, OneRuler, RoleInv, Chief, Absent, Plain, Buried, Within, InFlight, Writing, Inserting,
              Waiting, Withheld
<1> QED BY <1>1, <1>2, <1>3, <1>4, <1>5, <1>6, <1>7 DEF Next

-----------------------------------------------------------------------------
(* Session keys and passwords, over starts and stops. *)

\* What was loaded: every row but the withheld ones, and in a demo, where no
\* request writes, as it is.
LoadedInv ==
    phase = "up" /\ UseDb =>
      /\ \A u \in Users \ met : Unloaded(u) => db[u] = NoAccount \/ Withheld(u)
      /\ demo => \A u \in Users : mem[u] # NoAccount => mem[u] = db[u]

\* A session opened with the demo admin's password has the key of an admin's row
\* only while the row has that password.
PublicInv ==
    \A u \in Admins : db[u].pw # AdminDemo =>
      \A t \in tokens : t.user = u /\ t.pw = AdminDemo /\ t.key # 0 => t.key # db[u].key

\* In a demo the accounts already brought in line have their roles.
RolesInv ==
    phase = "sync" /\ demo =>
      \A u \in DemoUsers \ todo : db[u] # NoAccount => db[u].role = DemoRole[u]

KeysLife ==
    /\ KeysInv
    /\ phase # "up" => mem = Nobody
    /\ phase = "up" => GoneInMemory
    /\ phase = "up" /\ ~demo =>
         \A u \in ActiveAdmins(mem) \cup Admins : Clean(u, AdminDemo) /\ Rotated(u)
    /\ LoadedInv /\ PublicInv /\ RolesInv

\* What the invariant says of an account when nothing is loaded and no request
\* is in progress.
LEMMA RestingAccount ==
    ASSUME Quiet, mem = Nobody, NEW u \in Users
    PROVE  /\ \A p \in Passwords : Clean(u, p)
           /\ UserInv(u) <=>
                /\ u \notin met => /\ db[u] # NoAccount => floor[u] <= db[u].key
                                   /\ GoneInTable(u) /\ Knows(db[u], u)
                /\ u \in Retired => \A t \in tokens : t.user = u => t.pw # Public
<1>1. \A r \in Writers : ~InFlight(r, u) /\ ~Writing(r, u) /\ ~Inserting(r, u)
  BY DEF Quiet, Idle, InFlight, Writing, Inserting
<1>2. mem[u] = NoAccount
  BY DEF Nobody
<1>3. (\A p \in Passwords : Clean(u, p)) /\ Mirrored(u) /\ Knows(mem[u], u)
  BY <1>1, <1>2 DEF Clean, Mirrored, Knows
<1> QED BY <1>2, <1>3, PublicAssumption DEF UserInv, RetiredInv, Newest

\* The admin of the invariant is the one of memory and of the table.
Ruling == \A a \in Users : RoleInv(a) => ActiveAdmins(mem) \cup Admins = {a}

LEMMA TheRuler == TypeOK /\ NoTable => Ruling
<1> SUFFICES ASSUME TypeOK, NoTable, NEW a \in Users, RoleInv(a)
             PROVE  ActiveAdmins(mem) \cup Admins = {a}
  BY DEF Ruling
<1>1. CASE UseDb
  BY <1>1, TheAdmin
<1>2. CASE ~UseDb
  <2>1. \A u \in Users : u \notin Admins
    BY <1>2, StoredAdmins DEF NoTable
  <2>2. Admins = {}
    BY <2>1 DEF Admins, ActiveAdmins
  <2>3. mem[a] # NoAccount
    BY <1>2 DEF RoleInv, Chief, Absent
  <2> QED BY <2>2, <2>3, TheAdmin
<1> QED BY <1>1, <1>2

LEMMA RulerStays == TypeOK' /\ NoTable' => Ruling'
BY TheRuler, PTL

LEMMA QuietRequests ==
    ASSUME Quiet
    PROVE  /\ Changes
           /\ \A r \in Writers, u \in Users : ~InFlight(r, u) /\ ~Writing(r, u) /\ ~Inserting(r, u)
           /\ (~UseDb => \A u \in Users : db[u] = NoAccount) => NoTable
BY DEF Quiet, Idle, Changes, InFlight, Writing, Inserting, NoTable

LEMMA KeysLifeInit == Init => KeysLife
<1> SUFFICES ASSUME Init PROVE KeysLife
  OBVIOUS
<1>1. Quiet /\ mem = Nobody /\ LifeInv
  BY LifeInit DEF Init, Quiet
<1>2. \A u \in Users : db[u] # NoAccount => db[u].key \in 0..FirstKey
  <2>1. CASE db = Nobody
    BY <2>1 DEF Nobody
  <2>2. CASE db \in Tables
    BY <2>2, TablesAssumption
  <2> QED BY <2>1, <2>2 DEF Init
<1>3. /\ tokens = {} /\ lastKey = FirstKey /\ FirstKey \in Nat /\ gone = {} /\ phase = "down"
      /\ \A u \in Users : floor[u] = 0
      /\ ~UseDb => \A u \in Users : db[u] = NoAccount
  BY TablesAssumption DEF Init, Nobody
<1>4. \A u \in Users : UserInv(u)
  BY <1>1, <1>2, <1>3, RestingAccount DEF GoneInTable, Knows
<1>5. KeysDrawn /\ Changes /\ NoTable
  BY <1>1, <1>2, <1>3, QuietRequests DEF KeysDrawn, Nobody
<1> QED BY <1>1, <1>3, <1>4, <1>5 DEF KeysLife, KeysInv, LoadedInv, PublicInv, RolesInv, Admins, ActiveAdmins

LEMMA StartKeys ==
    ASSUME LifeInv, KeysLife, NEW isDemo \in BOOLEAN,
           NEW pw \in (Passwords \ {AdminDemo}) \cup {NoPassword}, Start(isDemo, pw)
    PROVE  KeysLife'
<1> USE DEF LifeInv, TypeOKLife, TypeOK
<1>1. /\ UNCHANGED <<db, tokens, req, login, floor, met>> /\ demo' = isDemo /\ phase = "down"
      /\ mem = Nobody
  BY DEF Start, KeysLife
<1>2. Quiet /\ Quiet'
  BY <1>1 DEF Quiet
<1>3. CASE UseDb
  <2>1. phase' = "sync" /\ todo' = Seeded(isDemo, pw) /\ UNCHANGED <<mem, lastKey, gone>>
    BY <1>3 DEF Start
  <2>2. KeysInv'
    <3>1. KeysDrawn' /\ NoTable' /\ Changes'
      BY <1>1, <2>1 DEF KeysLife, KeysInv, KeysDrawn, NoTable, Changes, InFlight, Writing, GoodPassword
    <3>2. ASSUME NEW u \in Users PROVE UserInv(u)'
      <4>1. Untouched(u)
        BY <1>1, <2>1 DEF Untouched
      <4> QED BY <4>1, Frame DEF KeysLife, KeysInv
    <3> QED BY <3>1, <3>2 DEF KeysInv
  <2>3. RolesInv'
    BY <1>1, <2>1 DEF RolesInv, Seeded
  <2> QED BY <1>1, <2>1, <2>2, <2>3 DEF KeysLife, LoadedInv, PublicInv, Admins, ActiveAdmins
<1>4. CASE ~UseDb
  <2>1. /\ mem' = [u \in Users |-> IF u \in Seeded(isDemo, pw) THEN SeededAccount(u, isDemo, pw)
                                   ELSE NoAccount]
        /\ phase' = "up" /\ lastKey' = NewKey /\ gone' = {}
    BY <1>4 DEF Start
  <2>2. NewKey \in Nat /\ lastKey < NewKey
    BY DEF NewKey
  <2>3. \A u \in Users : mem'[u] # NoAccount =>
          /\ mem'[u].key = NewKey /\ u \in DemoUsers
          /\ ~isDemo => mem'[u].pw = pw /\ mem'[u].pw # AdminDemo
    <3>1. NoPassword # AdminDemo
      BY DemoAssumption, PublicAssumption
    <3> QED BY <2>1, <3>1, SeededTyped DEF SeededAccount, Seeded
  <2>4. \A u \in Users : db'[u] = NoAccount
    BY <1>1, <1>4 DEF KeysLife, KeysInv, NoTable
  <2>5. /\ \A t \in tokens' : t.key \in Nat /\ t.key <= lastKey
        /\ \A u \in Users : floor'[u] \in Nat /\ floor'[u] <= lastKey
    BY <1>1 DEF KeysLife, KeysInv, KeysDrawn, Token
  <2>6. \A r \in Writers, u \in Users : ~InFlight(r, u)' /\ ~Writing(r, u)' /\ ~Inserting(r, u)'
    BY <1>2 DEF Quiet, Idle, InFlight, Writing, Inserting
  <2>7. Changes' /\ NoTable'
    BY <1>2, <2>4 DEF Quiet, Idle, Changes, NoTable
  <2>8. KeysDrawn'
    BY <2>1, <2>2, <2>3, <2>4, <2>5, <2>6 DEF KeysDrawn
  <2>9. ASSUME NEW u \in Users PROVE UserInv(u)'
    <3>1. Mirrored(u)' /\ Newest(u)' /\ GoneInTable(u)' /\ Knows(mem[u], u)' /\ Knows(db[u], u)'
      BY <1>4, <2>1, <2>2, <2>3, <2>4, <2>5, <2>6 DEF Mirrored, Newest, GoneInTable, Knows
    <3>2. u \in Retired => Clean(u, Public)'
      BY <2>3, <2>6, DemoAssumption DEF Clean
    <3>3. RetiredInv(u)'
      BY <1>1, <3>2 DEF KeysLife, KeysInv, UserInv, RetiredInv
    <3> QED BY <3>1, <3>3 DEF UserInv
  <2>10. Admins' = {}
    BY <2>4 DEF Admins, ActiveAdmins, Missing
  <2>11. GoneInMemory' /\ PublicInv' /\ RolesInv' /\ LoadedInv'
    BY <1>4, <2>1, <2>10 DEF GoneInMemory, PublicInv, RolesInv, LoadedInv
  <2>12. ~isDemo => \A u \in Users : Clean(u, AdminDemo)' /\ Rotated(u)'
    BY <2>2, <2>3, <2>4, <2>5, <2>6 DEF Clean, Rotated
  <2>13. ActiveAdmins(mem)' \subseteq Users
    BY DEF ActiveAdmins
  <2> QED BY <1>1, <2>1, <2>7, <2>8, <2>9, <2>10, <2>11, <2>12, <2>13 DEF KeysLife, KeysInv
<1> QED BY <1>3, <1>4

\* A commit of startup draws a new key or leaves key and password as they are;
\* who becomes an admin by it has a new key or the demo admin's password.
LEMMA WriteKeys ==
    ASSUME LifeInv, KeysLife, phase = "sync", NEW u \in Users, NEW acc \in Account, Write(u, acc),
           \/ acc.key = NewKey
           \/ /\ db[u] # NoAccount /\ acc.key = db[u].key /\ acc.pw = db[u].pw
              /\ acc.role = "admin" =>
                   acc.pw = AdminDemo \/ (acc.role = db[u].role /\ acc.deleted = db[u].deleted),
           db[u] # NoAccount /\ db[u].deleted => acc.deleted,
           demo /\ u \in DemoUsers =>
             acc.role = DemoRole[u] \/ (u \notin todo /\ db[u] # NoAccount /\ acc.role = db[u].role),
           todo \ todo' \subseteq {u}
    PROVE  KeysLife'
<1> USE DEF LifeInv, TypeOKLife, TypeOK
<1>1. /\ db' = [db EXCEPT ![u] = acc] /\ UNCHANGED <<mem, tokens, req, login, floor, gone, met, phase, settings>>
      /\ lastKey' = IF acc.key = NewKey THEN NewKey ELSE lastKey
  BY DEF Write
<1>2. /\ Quiet /\ mem = Nobody /\ Quiet' /\ mem' = Nobody /\ UseDb
      /\ demo' = demo /\ phase' = "sync"
  BY <1>1 DEF KeysLife, Quiet, SyncInv, settings
<1>3. db'[u] = acc /\ \A v \in Users \ {u} : db'[v] = db[v]
  BY <1>1
<1>4. NewKey \in Nat /\ lastKey < NewKey /\ acc.key \in Nat /\ acc # NoAccount
  BY AccountAssumption DEF NewKey, Account
<1>5. /\ \A t \in tokens : t.key \in Nat /\ t.key <= lastKey
      /\ \A v \in Users : floor[v] \in Nat /\ floor[v] <= lastKey
  BY DEF KeysLife, KeysInv, KeysDrawn, Token
<1>6. \A r \in Writers, v \in Users : ~InFlight(r, v)' /\ ~Writing(r, v)' /\ ~Inserting(r, v)'
  BY <1>2 DEF Quiet, Idle, InFlight, Writing, Inserting
<1>7. KeysDrawn'
  BY <1>1, <1>2, <1>3, <1>4, <1>5, <1>6 DEF KeysLife, KeysInv, KeysDrawn, Nobody, Account
<1>8. Changes' /\ NoTable'
  BY <1>2 DEF Quiet, Idle, Changes, NoTable
<1>9. ASSUME NEW v \in Users PROVE UserInv(v)'
  <2>1. UserInv(v)
    BY DEF KeysLife, KeysInv
  <2>2. /\ v \notin met => /\ db[v] # NoAccount => floor[v] <= db[v].key
                           /\ GoneInTable(v) /\ Knows(db[v], v)
        /\ v \in Retired => \A t \in tokens : t.user = v => t.pw # Public
    BY <1>2, <2>1, RestingAccount
  <2>3. v \notin met => /\ db'[v] # NoAccount => floor[v] <= db'[v].key
                        /\ GoneInTable(v)' /\ Knows(db[v], v)'
    <3>1. CASE v = u
      BY <1>1, <1>3, <1>4, <1>5, <2>2, <3>1 DEF GoneInTable, Knows
    <3>2. CASE v # u
      BY <1>1, <1>3, <2>2, <3>2 DEF GoneInTable, Knows
    <3> QED BY <3>1, <3>2
  <2>4. Clean(v, Public)' /\ Mirrored(v)' /\ Knows(mem[v], v)'
    BY <1>2, <1>6 DEF Clean, Mirrored, Knows, Nobody
  <2> QED BY <1>1, <1>2, <2>2, <2>3, <2>4 DEF UserInv, RetiredInv, Newest, Nobody
<1>10. PublicInv'
  <2> SUFFICES ASSUME NEW v \in Admins', db'[v].pw # AdminDemo,
                      NEW t \in tokens, t.user = v, t.pw = AdminDemo, t.key # 0
               PROVE  t.key # db'[v].key
    BY <1>1 DEF PublicInv
  <2>1. v \in Users /\ db'[v] # NoAccount /\ ~db'[v].deleted /\ db'[v].role = "admin"
    BY DEF Admins, ActiveAdmins, Missing
  <2>2. CASE v = u /\ acc.key = NewKey
    BY <1>3, <1>4, <1>5, <2>2
  <2>3. CASE ~(v = u /\ acc.key = NewKey)
    <3>1. /\ db[v] # NoAccount /\ db'[v].key = db[v].key /\ db'[v].pw = db[v].pw
          /\ db[v].role = "admin" /\ ~db[v].deleted
      BY <1>3, <2>1, <2>3
    <3> QED BY <3>1, <2>1, StoredAdmins DEF KeysLife, PublicInv
  <2> QED BY <2>2, <2>3
<1>11. RolesInv'
  BY <1>2, <1>3, DemoAssumption DEF KeysLife, RolesInv
<1> QED BY <1>2, <1>7, <1>8, <1>9, <1>10, <1>11 DEF KeysLife, KeysInv, LoadedInv

LEMMA SyncKeys ==
    ASSUME LifeInv, KeysLife, NEW u \in Users, SyncUser(u)
    PROVE  KeysLife'
<1> USE DEF LifeInv, TypeOKLife, TypeOK
<1>1. /\ u \in DemoUsers /\ phase = "sync" /\ u \in todo /\ todo' = todo \ {u}
      /\ u \in Seeded(demo, adminPw)
  BY DEF SyncUser, SyncInv
<1>2. CASE db[u] = NoAccount /\ ~(u = Admin /\ Admins # {})
  <2> DEFINE acc == SeededAccount(u, demo, adminPw)
  <2>1. Write(u, acc) /\ acc \in Account
    BY <1>1, <1>2, SeededTyped DEF SyncUser
  <2>2. acc.key = NewKey /\ (demo => acc.role = DemoRole[u])
    BY DEF SeededAccount
  <2> HIDE DEF acc
  <2> QED BY <1>1, <1>2, <2>1, <2>2, WriteKeys
<1>3. CASE demo /\ db[u] # NoAccount
  <2> DEFINE acc == Restored(u)
  <2>1. Write(u, acc)
    BY <1>3 DEF SyncUser
  <2>2. /\ acc \in Account /\ acc.deleted = db[u].deleted /\ acc.role = DemoRole[u]
        /\ acc.role = "admin" => acc.pw = AdminDemo
        /\ acc.key = NewKey \/ (acc.key = db[u].key /\ acc.pw = db[u].pw)
    BY <1>1, <1>3, RestoredTyped
  <2> HIDE DEF acc
  <2> QED BY <1>1, <1>3, <2>1, <2>2, WriteKeys
<1>4. CASE UNCHANGED <<vars, phase, settings>> /\ ~(demo /\ db[u] # NoAccount)
  <2>1. /\ UNCHANGED <<mem, db, lastKey, tokens, req, login, floor, gone, met>>
        /\ phase' = phase /\ demo' = demo
    BY <1>4 DEF vars, settings
  <2>2. KeysInv'
    <3>1. KeysDrawn' /\ NoTable' /\ Changes'
      BY <2>1 DEF KeysLife, KeysInv, KeysDrawn, NoTable, Changes, InFlight, Writing, GoodPassword
    <3>2. ASSUME NEW v \in Users PROVE UserInv(v)'
      <4>1. Untouched(v)
        BY <2>1 DEF Untouched
      <4> QED BY <4>1, Frame DEF KeysLife, KeysInv
    <3> QED BY <3>1, <3>2 DEF KeysInv
  <2>3. RolesInv'
    BY <1>1, <1>4, <2>1 DEF KeysLife, RolesInv
  <2> QED BY <1>1, <2>1, <2>2, <2>3 DEF KeysLife, LoadedInv, PublicInv, Admins, ActiveAdmins
<1> QED BY <1>2, <1>3, <1>4 DEF SyncUser

LEMMA RekeyKeys ==
    ASSUME LifeInv, KeysLife, NEW u \in Users, ReplacePublicPassword(u) \/ DrawKey(u)
    PROVE  KeysLife'
<1>1. /\ Synced /\ UNCHANGED todo /\ db[u] # NoAccount
      /\ \E acc \in Account : /\ Write(u, acc) /\ acc.key = NewKey
                              /\ acc.role = db[u].role /\ acc.deleted = db[u].deleted
  BY Rekeyed DEF LifeInv
<1> QED BY <1>1, WriteKeys DEF Synced

LEMMA LoadKeys ==
    ASSUME LifeInv, KeysLife, Load
    PROVE  KeysLife'
<1> USE DEF LifeInv, TypeOKLife, TypeOK
<1>1. /\ phase = "sync" /\ phase' = "up" /\ UseDb
      /\ mem' = [u \in Users |-> IF Withheld(u) THEN NoAccount ELSE db[u]]
      /\ UNCHANGED <<db, lastKey, tokens, req, login, floor, gone, met, demo>>
      /\ PublicAdmins = {} /\ Quiet /\ mem = Nobody
  BY DEF Load, Synced, SyncInv, KeysLife
<1>2. \A u \in Users : mem'[u] = IF Withheld(u) THEN NoAccount ELSE db[u]
  BY <1>1
<1>3. \A r \in Writers, v \in Users : ~InFlight(r, v)' /\ ~Writing(r, v)' /\ ~Inserting(r, v)'
  BY <1>1 DEF Quiet, Idle, InFlight, Writing, Inserting
<1>4. KeysDrawn' /\ Changes' /\ NoTable'
  BY <1>1, <1>2, <1>3 DEF KeysLife, KeysInv, KeysDrawn, Changes, NoTable, GoodPassword
<1>5. ASSUME NEW u \in Users PROVE UserInv(u)'
  <2>1. /\ u \notin met => /\ db[u] # NoAccount => floor[u] <= db[u].key
                           /\ GoneInTable(u) /\ Knows(db[u], u)
        /\ u \in Retired => \A t \in tokens : t.user = u => t.pw # Public
    BY <1>1, RestingAccount DEF KeysLife, KeysInv
  <2>2. Mirrored(u)'
    BY <1>1, <1>2, <1>3 DEF Mirrored
  <2>3. u \notin met => Newest(u)' /\ GoneInTable(u)' /\ Knows(mem[u], u)' /\ Knows(db[u], u)'
    BY <1>1, <1>2, <2>1 DEF Newest, GoneInTable, Knows
  <2>4. u \in Retired => Clean(u, Public)' \/ Dead(u)'
    BY <1>2, <1>3 DEF Clean, Dead, Withheld
  <2> QED BY <1>1, <2>1, <2>2, <2>3, <2>4 DEF UserInv, RetiredInv
<1>6. GoneInMemory'
  BY <1>1, <1>2 DEF KeysLife, KeysInv, UserInv, GoneInTable, GoneInMemory, Withheld
<1>7. \A u \in Users : mem'[u] # NoAccount => mem'[u] = db[u]
  BY <1>2
<1>8. ASSUME ~demo, NEW u \in (ActiveAdmins(mem) \cup Admins)'
      PROVE  Clean(u, AdminDemo)' /\ Rotated(u)'
  <2>1. u \in Users /\ u \in Admins /\ db' = db
    BY <1>1, <1>7 DEF Admins, ActiveAdmins, Missing
  <2>2. db[u].pw # AdminDemo
    BY <1>1, <1>8, <2>1 DEF PublicAdmins
  <2>3. Clean(u, AdminDemo)'
    BY <1>3, <1>7, <2>1, <2>2 DEF Clean
  <2>4. Rotated(u)'
    BY <1>1, <1>3, <1>7, <2>1, <2>2 DEF KeysLife, PublicInv, Rotated
  <2> QED BY <2>3, <2>4
<1>9. LoadedInv'
  BY <1>1, <1>2, <1>3, <1>7 DEF LoadedInv, Unloaded, Withheld
<1>10. PublicInv'
  BY <1>1 DEF KeysLife, PublicInv, Admins, ActiveAdmins
<1> QED BY <1>1, <1>4, <1>5, <1>6, <1>8, <1>9, <1>10 DEF KeysLife, KeysInv, RolesInv

LEMMA StopKeys ==
    ASSUME LifeInv, KeysLife, Stop
    PROVE  KeysLife'
<1> USE DEF LifeInv, TypeOKLife, TypeOK
<1>1. /\ phase' = "down" /\ mem' = Nobody /\ Quiet'
      /\ UNCHANGED <<db, lastKey, tokens, floor, gone, met>>
  BY DEF Stop, Quiet
<1>2. \A r \in Writers, v \in Users : ~InFlight(r, v)' /\ ~Writing(r, v)' /\ ~Inserting(r, v)'
  BY <1>1 DEF Quiet, Idle, InFlight, Writing, Inserting
<1>3. Changes' /\ NoTable'
  BY <1>1 DEF Quiet, Idle, Changes, NoTable, KeysLife, KeysInv
<1>4. KeysDrawn'
  BY <1>1, <1>2 DEF KeysLife, KeysInv, KeysDrawn, Nobody
<1>5. ASSUME NEW u \in Users PROVE UserInv(u)'
  <2>1. Mirrored(u)' /\ Clean(u, Public)'
    BY <1>1, <1>2 DEF Mirrored, Clean, Nobody
  <2>2. u \notin met => Newest(u)' /\ GoneInTable(u)' /\ Knows(mem[u], u)' /\ Knows(db[u], u)'
    BY <1>1 DEF KeysLife, KeysInv, UserInv, Newest, GoneInTable, Knows, Nobody
  <2> QED BY <1>1, <2>1, <2>2 DEF KeysLife, KeysInv, UserInv, RetiredInv
<1> QED BY <1>1, <1>3, <1>4, <1>5 DEF KeysLife, KeysInv, LoadedInv, PublicInv, RolesInv, Admins, ActiveAdmins

LEMMA ServeKeys ==
    ASSUME LifeInv, KeysLife, Serve
    PROVE  KeysLife'
<1> USE DEF LifeInv
<1>1. /\ phase = "up" /\ UNCHANGED <<phase, settings, todo>> /\ phase' = "up" /\ demo' = demo
      /\ TypeInv
  BY DEF Serve, settings, TypeInv, TypeOKLife
<1>2. PICK a \in Users : RoleInv(a)
  BY <1>1 DEF OneRuler
<1>3. TypeOK' /\ RoleInv(a)'
  BY <1>2, ServeKeeps DEF TypeOKLife
<1>4. ActiveAdmins(mem) \cup Admins = {a}
  BY <1>1, <1>2, TheRuler DEF Ruling, TypeInv, KeysLife, KeysInv
<1>5. NoTable' => (ActiveAdmins(mem) \cup Admins)' = {a}
  BY <1>3, RulerStays DEF Ruling
<1>6. ~demo => Clean(a, AdminDemo) /\ Rotated(a)
  BY <1>1, <1>4 DEF KeysLife
<1>7. ASSUME NEW r \in Writers, ~demo, RequestStep(r)
      PROVE  KeysLife'
  <2>1. ServingInv(a)
    BY <1>1, <1>6, <1>7 DEF KeysLife, ServingInv
  <2>2. ServingInv(a)' /\ HiddenStay /\ met \subseteq met'
    BY <1>1, <1>7, <2>1, RequestStepKeys, MetGrows DEF KeysStep
  <2>3. (ActiveAdmins(mem) \cup Admins)' = {a}
    BY <1>5, <2>2 DEF ServingInv, KeysInv
  <2>4. PublicInv'
    <3>1. \A u \in Admins' : u = a /\ db'[u] # NoAccount
      BY <2>3 DEF Admins, ActiveAdmins, Missing
    <3> QED BY <2>2, <3>1 DEF ServingInv, Rotated, PublicInv
  <2>5. LoadedInv'
    BY <1>1, <1>7, <2>2 DEF KeysLife, LoadedInv, HiddenStay, Withheld
  <2> QED BY <1>1, <2>2, <2>3, <2>4, <2>5 DEF KeysLife, ServingInv, RolesInv
<1>8. ASSUME NEW l \in Logins, LoginStep(l)
      PROVE  KeysLife'
  <2>1. /\ KeysInv' /\ HiddenStay /\ GoneInMemory'
        /\ Clean(a, AdminDemo) => Clean(a, AdminDemo)'
        /\ Clean(a, AdminDemo) /\ Rotated(a) => Rotated(a)'
        /\ \A t \in tokens' : t \in tokens \/ (/\ Active(t.user) /\ t.key = mem[t.user].key
                                               /\ t.pw \in {mem[t.user].pw, Late})
        /\ UNCHANGED <<mem, db, lastKey, req, floor, gone, met>>
    BY <1>1, <1>8, LoginStepKeys DEF KeysLife
  <2>2. (ActiveAdmins(mem) \cup Admins)' = {a}
    BY <1>5, <2>1 DEF KeysInv
  <2>3. LoadedInv'
    BY <1>1, <2>1 DEF KeysLife, LoadedInv, HiddenStay, Withheld
  <2>4. PublicInv'
    <3> SUFFICES ASSUME NEW u \in Admins', db'[u].pw # AdminDemo,
                        NEW t \in tokens', t.user = u, t.pw = AdminDemo, t.key # 0
                 PROVE  t.key # db'[u].key
      BY DEF PublicInv
    <3>1. u = a /\ db'[u] # NoAccount /\ db' = db /\ u \in Admins
      BY <2>1, <2>2 DEF Admins, ActiveAdmins, Missing
    <3>2. CASE demo
      <4>1. UseDb
        BY <3>1, <2>1 DEF KeysInv, NoTable
      <4>2. Active(u) => mem[u].pw # AdminDemo
        BY <1>1, <3>1, <3>2, <4>1 DEF KeysLife, LoadedInv, Active
      <4>3. t \in tokens
        BY <2>1, <4>2, PublicAssumption
      <4> QED BY <3>1, <4>3 DEF KeysLife, PublicInv
    <3>3. CASE ~demo
      BY <1>6, <2>1, <3>1, <3>3 DEF Rotated
    <3> QED BY <3>2, <3>3
  <2> QED BY <1>1, <1>6, <2>1, <2>2, <2>3, <2>4 DEF KeysLife, RolesInv
<1> QED BY <1>7, <1>8 DEF Serve

LEMMA KeysNext == LifeInv /\ KeysLife /\ [Next]_svars => KeysLife'
<1> SUFFICES ASSUME LifeInv, KeysLife, [Next]_svars PROVE KeysLife'
  OBVIOUS
<1>1. CASE UNCHANGED svars
  <2>1. /\ UNCHANGED <<mem, db, lastKey, tokens, req, login, floor, gone, met>>
        /\ phase' = phase /\ demo' = demo /\ todo' = todo
    BY <1>1 DEF svars, vars, settings
  <2>2. KeysInv'
    <3>1. KeysDrawn' /\ NoTable' /\ Changes'
      BY <2>1 DEF KeysLife, KeysInv, KeysDrawn, NoTable, Changes, InFlight, Writing, GoodPassword
    <3>2. ASSUME NEW v \in Users PROVE UserInv(v)'
      <4>1. Untouched(v)
        BY <2>1 DEF Untouched
      <4> QED BY <4>1, Frame DEF KeysLife, KeysInv
    <3> QED BY <3>1, <3>2 DEF KeysInv
  <2>3. ASSUME NEW u \in Users
        PROVE  /\ Clean(u, AdminDemo) => Clean(u, AdminDemo)'
               /\ Rotated(u) => Rotated(u)'
    BY <2>1, PublicAssumption, Frame DEF Untouched
  <2>4. Admins' = Admins /\ ActiveAdmins(mem)' = ActiveAdmins(mem)
    BY <2>1 DEF Admins, ActiveAdmins
  <2>5. Admins \subseteq Users /\ ActiveAdmins(mem) \subseteq Users
    BY DEF Admins, ActiveAdmins
  <2> QED BY <2>1, <2>2, <2>3, <2>4, <2>5
         DEF KeysLife, LoadedInv, PublicInv, RolesInv, GoneInMemory, Unloaded, Inserting, Withheld
<1> QED
  BY <1>1, StartKeys, SyncKeys, RekeyKeys, LoadKeys, StopKeys, ServeKeys DEF Next

\* The invariant of the theorems below.
LEMMA Lives == Spec => [](LifeInv /\ KeysLife)
BY LifeInit, LifeNext, KeysLifeInit, KeysNext, PTL DEF Spec

-----------------------------------------------------------------------------
(* Theorems. *)

\* Every variable keeps to the values the code gives it, through starts that
\* are cut short, restarts, overlapping requests and failed writes.
THEOREM Typed == Spec => []TypeOKLife
<1>1. LifeInv => TypeOKLife
  BY DEF LifeInv
<1> QED BY <1>1, LifeInit, LifeNext, PTL DEF Spec

\* "There is exactly one admin" (README): what is served has one active admin,
\* in memory and in the table, whatever table the server started with: none, or
\* one with any admins, deleted or demoted ones.  The exception is an admin that
\* was withheld for its published password: memory then has none.
THEOREM ExactlyOneAdmin == Spec => []ServesOneAdmin
<1>1. LifeInv => ServesOneAdmin
  <2> SUFFICES ASSUME LifeInv, phase = "up" PROVE ServesOneAdmin
    BY DEF ServesOneAdmin
  <2>1. PICK a \in Users : RoleInv(a) /\ (mem[a] = NoAccount => Withheld(a))
    BY DEF LifeInv, OneRuler
  <2>2. /\ UseDb => Admins = {a}
        /\ ActiveAdmins(mem) = (IF mem[a] = NoAccount THEN {} ELSE {a})
    BY <2>1, TheAdmin DEF LifeInv, TypeOKLife
  <2>3. mem[a] = NoAccount => UseDb
    BY <2>1 DEF RoleInv, Chief, Absent
  <2> QED BY <2>1, <2>2, <2>3 DEF ServesOneAdmin, Admins
<1> QED BY <1>1, LifeInit, LifeNext, PTL DEF Spec

\* The browser offers an account action exactly when the server would accept it
\* (permissions.ts is the copy of authz.py), for every account of its list.
THEOREM OfferedIsAllowed == Spec => []MirrorsUserRules
<1>1. TypeOKLife => MirrorsUserRules
  <2> SUFFICES ASSUME TypeOKLife,
                      NEW actor \in Actor, Active(actor.username),
                      mem[actor.username].role = actor.role,
                      NEW u \in Users, Active(u)
               PROVE  /\ MayDeleteUser(actor, mem[u]) <=> CheckUserDelete(actor, u, mem[u]) = "ok"
                      /\ \A body \in UpdateBody :
                           /\ MayUpdateUser(actor, u, mem[u], body)
                                <=> CheckUserUpdate(actor, u, mem[u], body) = "ok"
                           /\ MayCreateUser(actor, body) <=> CheckUserCreate(actor, body) = "ok"
    BY DEF MirrorsUserRules
  <2>1. mem[u] # NoAccount /\ ~mem[u].deleted /\ mem[u].role \in Roles /\ actor.role \in Roles
    BY DEF Active, TypeOKLife, TypeOK, Account, Actor
  <2>2. ~Missing(mem[u])
    BY <2>1 DEF Missing
  <2>3. MayDeleteUser(actor, mem[u]) <=> CheckUserDelete(actor, u, mem[u]) = "ok"
    BY <2>2 DEF MayDeleteUser, MayManageUsers, CheckUserDelete
  <2>4. ASSUME NEW body \in UpdateBody
        PROVE  MayUpdateUser(actor, u, mem[u], body)
                 <=> CheckUserUpdate(actor, u, mem[u], body) = "ok"
    BY <2>1, <2>2 DEF MayUpdateUser, CheckUserUpdate, IsLead, INCIDENT_LEADS, Roles
  <2>5. ASSUME NEW body \in UpdateBody
        PROVE  MayCreateUser(actor, body) <=> CheckUserCreate(actor, body) = "ok"
    BY DEF MayCreateUser, MayManageUsers, CheckUserCreate
  <2> QED BY <2>3, <2>4, <2>5
<1> QED BY <1>1, Typed, PTL

\* A change that was answered ends every session opened before it for good: no
\* key older than the one it drew is ever in force again.
THEOREM KeysNeverOlder == Spec => []KeyNeverOlder
<1>1. KeysLife => KeyNeverOlder
  BY DEF KeysLife, KeysInv, UserInv, Newest, KeyNeverOlder, Active
<1> QED BY <1>1, Lives, PTL

\* With no change of an account in flight, memory and table hold the same
\* account, failed writes and restarts included.
THEOREM TableAgrees == Spec => []AgreeAtRest
<1>1. KeysLife => AgreeAtRest
  BY DEF KeysLife, KeysInv, UserInv, Mirrored, LoadedInv, Unloaded, AgreeAtRest
<1> QED BY <1>1, Lives, PTL

\* A user whose deletion was answered never becomes active again.
THEOREM DeletedStayOut == Spec => []DeletedForGood
<1>1. LifeInv /\ KeysLife => DeletedForGood
  BY DEF LifeInv, TypeOKLife, TypeOK, KeysLife, GoneInMemory, DeletedForGood, Active, Nobody
<1> QED BY <1>1, Lives, PTL

\* Outside demo mode no session of an admin that was opened with the demo
\* admin's password is accepted, and none of a retired account that was opened
\* with its published password, in any mode.
THEOREM PublicPasswordsRetired == Spec => []PublicPasswordsDead
<1>1. LifeInv /\ KeysLife => PublicPasswordsDead
  <2> SUFFICES ASSUME LifeInv, KeysLife, NEW t \in tokens, Current(t)
               PROVE  /\ t.pw = AdminDemo /\ t.role = "admin" => demo
                      /\ t.user \in Retired => t.pw # Public
    BY DEF PublicPasswordsDead
  <2>1. /\ t.user \in Users /\ mem[t.user] # NoAccount /\ ~mem[t.user].deleted
        /\ mem[t.user].role = t.role /\ mem[t.user].key = t.key /\ t.key # 0
    BY DEF LifeInv, TypeOKLife, TypeOK, Token, Current, Active
  <2>2. phase = "up"
    BY <2>1 DEF KeysLife, Nobody
  <2>3. t.role = "admin" => t.user \in ActiveAdmins(mem)
    BY <2>1 DEF ActiveAdmins, Missing
  <2> QED BY <2>1, <2>2, <2>3 DEF KeysLife, KeysInv, UserInv, RetiredInv, Rotated
<1> QED BY <1>1, Lives, PTL

\* No accepted session was opened with another password than the one now in
\* force, but for logins that a change overtook.
THEOREM SessionsMatchPassword == Spec => []SessionsKnowPassword
<1>1. LifeInv /\ KeysLife => SessionsKnowPassword
  BY DEF LifeInv, TypeOKLife, TypeOK, Token, KeysLife, KeysInv, UserInv, Knows, SessionsKnowPassword, Current, Active
<1> QED BY <1>1, Lives, PTL

\* However often starts are cut short, what makes one refuse is a missing
\* ADMIN_PASSWORD, another admin whose role is not the code's to correct, or an
\* admin's row that is deleted, demoted or missing when there is no other admin.
THEOREM RefusesForCause == Spec => []RefusedForCause
<1>1. LifeInv /\ KeysLife => RefusedForCause
  <2> SUFFICES ASSUME LifeInv, KeysLife, Synced, MustRefuse, demo \/ adminPw # NoPassword,
                      \A u \in Admins \ {Admin} : demo /\ u \in DemoUsers
               PROVE  /\ Admins = {}
                      /\ \/ db[Admin] # NoAccount /\ (db[Admin].deleted \/ ~demo)
                         \/ db[Admin] = NoAccount /\ demo
    BY DEF RefusedForCause, LifeInv, TypeOKLife
  <2>1. phase = "sync" /\ todo = {} /\ UseDb /\ TypeOK /\ Admin \in Users /\ Admin \in DemoUsers
    BY UsersAssumption, DemoAssumption DEF Synced, LifeInv, SyncInv, TypeOKLife
  <2>2. ASSUME NEW u \in Admins \ {Admin}
        PROVE  FALSE
    <3>1. demo /\ u \in DemoUsers /\ u \in Users
      BY <2>2 DEF Admins, ActiveAdmins
    <3>2. db[u] # NoAccount /\ db[u].role = "admin"
      BY <2>1, <2>2, <3>1, StoredAdmins
    <3>3. DemoRole[u] = "admin"
      BY <2>1, <3>1, <3>2 DEF KeysLife, RolesInv
    <3> QED BY <2>2, <3>1, <3>3, DemoAssumption
  <2>3. Admin \notin Admins
    <3>1. SUFFICES ASSUME Admins = {Admin} PROVE FALSE
      BY <2>2
    <3>2. PublicAdmins # {}
      BY <2>1, <3>1 DEF MustRefuse
    <3> QED BY <3>2 DEF MustRefuse, PublicAdmins
  <2>4. Admins = {}
    BY <2>2, <2>3
  <2>5. demo /\ db[Admin] # NoAccount => db[Admin].deleted
    <3> SUFFICES ASSUME demo, db[Admin] # NoAccount, ~db[Admin].deleted PROVE FALSE
      OBVIOUS
    <3>1. db[Admin].role = "admin"
      BY <2>1, DemoAssumption DEF KeysLife, RolesInv
    <3> QED BY <2>1, <2>4, <3>1, StoredAdmins
  <2>6. ~demo => db[Admin] # NoAccount
    BY <2>1, <2>4 DEF LifeInv, SyncInv
  <2> QED BY <2>4, <2>5, <2>6
<1> QED BY <1>1, Lives, PTL
=============================================================================
