--------------------------- MODULE SessionsProofs ---------------------------
(* Proofs about module Sessions, for any number of sessions, attempts and  *)
(* logouts and any lifetime and limits.                                    *)
EXTENDS Sessions, FiniteSetTheorems, TLAPS

\* Every acknowledged logout that was not lost is in force in memory and, with
\* a database, in the table, until its token expires; one in progress is in
\* force in memory; only acknowledged logouts are in the table.
InForce ==
    /\ \A s \in out \ lost : s \in Valid => s \in revoked /\ (db => s \in stored)
    /\ \A q \in Logouts : logout[q].sid \in Valid => logout[q].sid \in revoked
    /\ \A q \in Logouts : logout[q] = Idle \/ logout[q].sid \in Issued
    /\ ~db => \A q \in Logouts : logout[q] = Idle
    /\ stored \subseteq out

IInv == TypeOK /\ InForce

LEMMA InitInv == Init => IInv
  BY BoundsAssumption, NoneAssumption
     DEF Init, IInv, TypeOK, InForce, Idle, Issued, Valid, NoHits, NoAttempts

\* What the sets of tokens are after a step that leaves the tokens alone.
LEMMA SameTokens == life' = life => Issued' = Issued /\ Valid' = Valid
  BY DEF Issued, Valid

\* A step that changes nothing but the counters and attempts.
LEMMA CountersInv ==
    ASSUME IInv, UNCHANGED <<db, sessions, followed>>,
           hits' \in [Windows -> Nat], checking' \in [Attempts -> Guarded \cup {None}]
    PROVE  IInv'
<1>1. Issued' = Issued /\ Valid' = Valid
  BY SameTokens DEF sessions
<1>2. UNCHANGED <<db, life, revoked, stored, logout, out, lost, followed>>
  BY DEF sessions
<1> QED BY <1>1, <1>2 DEF IInv, TypeOK, InForce, Idle

LEMMA HitTyped ==
    ASSUME IInv, NEW ns, Hit(ns)
    PROVE  hits' \in [Windows -> Nat]
BY DEF Hit, IInv, TypeOK

LEMMA AttemptInv ==
    ASSUME IInv, NEW l \in Attempts,
           Login(l) \/ ChangePassword(l) \/ Fails(l) \/ ChangeContinues(l)
    PROVE  IInv'
<1>1. ASSUME NEW ns \in Guarded, Begin(l, ns) PROVE IInv'
  BY <1>1, CountersInv DEF Begin, IInv, TypeOK
<1>2. CASE Fails(l)
  BY <1>2, CountersInv, HitTyped DEF Fails, End, IInv, TypeOK
<1>3. CASE ChangeContinues(l)
  BY <1>3, CountersInv DEF ChangeContinues, End, IInv, TypeOK
<1> QED BY <1>1, <1>2, <1>3 DEF Login, ChangePassword, Guarded

LEMMA CountInv ==
    ASSUME IInv, NewCase \/ \E w \in Windows : WindowEnds(w)
    PROVE  IInv'
<1>1. CASE NewCase
  BY <1>1, CountersInv, HitTyped DEF NewCase, IInv, TypeOK
<1>2. ASSUME NEW w \in Windows, WindowEnds(w) PROVE IInv'
  BY <1>2, CountersInv DEF WindowEnds, IInv, TypeOK
<1> QED BY <1>1, <1>2

LEMMA TokenInv ==
    ASSUME IInv, NEW l \in Attempts, NEW s \in Sids, LoginSucceeds(l, s)
    PROVE  IInv'
<1>1. /\ s \notin Issued /\ life' = [life EXCEPT ![s] = Life]
      /\ checking' = [checking EXCEPT ![l] = None]
      /\ UNCHANGED <<db, hits, followed, revoked, stored, logout, out, lost>>
  BY DEF LoginSucceeds, End
<1>2. Issued' = Issued \cup {s} /\ Valid' = Valid \cup {s}
  BY <1>1, BoundsAssumption, NoneAssumption DEF Issued, Valid, IInv, TypeOK
<1>3. TypeOK'
  BY <1>1, <1>2, BoundsAssumption DEF IInv, TypeOK
<1>4. \A q \in Logouts : logout[q].sid # s
  BY <1>1, NoneAssumption DEF IInv, InForce, Idle
<1>5. InForce'
  BY <1>1, <1>2, <1>4 DEF IInv, TypeOK, InForce, Idle
<1> QED BY <1>3, <1>5 DEF IInv

LEMMA LogoutInv ==
    ASSUME IInv, NEW q \in Logouts, NEW s \in Sids, Logout(q, s)
    PROVE  IInv'
<1>1. Issued' = Issued /\ Valid' = Valid
  BY SameTokens DEF Logout
<1>2. s \in Valid /\ s \in Issued /\ Valid \subseteq Issued
  BY DEF Logout, Valid
<1>3. revoked' = (revoked \ (Issued \ Valid)) \cup {s}
  BY DEF Logout, Expired
<1>4. UNCHANGED <<db, life, counters, stored, lost>>
  BY DEF Logout
<1>5. CASE db
  <2>1. logout' = [logout EXCEPT ![q] = [sid |-> s, stage |-> "select"]] /\ out' = out
    BY <1>5 DEF Logout
  <2>2. TypeOK'
    BY <1>1, <1>2, <1>3, <1>4, <2>1 DEF IInv, TypeOK, counters
  <2>3. InForce'
    BY <1>1, <1>2, <1>3, <1>4, <1>5, <2>1 DEF IInv, TypeOK, InForce, Idle
  <2> QED BY <2>2, <2>3 DEF IInv
<1>6. CASE ~db
  <2>1. logout' = logout /\ out' = out \cup {s}
    BY <1>6 DEF Logout, Acknowledge
  <2>2. TypeOK'
    BY <1>1, <1>2, <1>3, <1>4, <2>1 DEF IInv, TypeOK, counters
  <2>3. InForce'
    BY <1>1, <1>2, <1>3, <1>4, <1>6, <2>1 DEF IInv, TypeOK, InForce, Idle
  <2> QED BY <2>2, <2>3 DEF IInv
<1> QED BY <1>5, <1>6

LEMMA StoringInv ==
    ASSUME IInv, NEW q \in Logouts, Select(q) \/ Commit(q) \/ NotStored(q)
    PROVE  IInv'
<1>1. Issued' = Issued /\ Valid' = Valid
  BY SameTokens DEF Select, Commit, NotStored
<1>2. CASE Select(q)
  <2>1. TypeOK'
    BY <1>1, <1>2 DEF IInv, TypeOK, Select, counters
  <2>2. logout[q].stage = "select" /\ logout[q] # Idle /\ logout[q].sid \in Issued
    BY <1>2 DEF IInv, InForce, Select, Idle
  <2>3. \A r \in Logouts : /\ logout'[r].sid = logout[r].sid
                           /\ r # q => logout'[r] = logout[r]
    BY <1>2 DEF IInv, TypeOK, Select
  <2>4. UNCHANGED <<db, revoked, stored, out, lost>>
    BY <1>2 DEF Select
  <2>5. InForce'
    BY <1>1, <2>2, <2>3, <2>4 DEF IInv, InForce, Idle
  <2> QED BY <2>1, <2>5 DEF IInv
<1>3. CASE Commit(q)
  <2>1. logout[q] # Idle /\ logout[q].sid \in Issued /\ db
    BY <1>3 DEF IInv, InForce, Commit, Idle
  <2>2. /\ stored' = stored \cup {logout[q].sid} /\ out' = out \cup {logout[q].sid}
        /\ logout' = [logout EXCEPT ![q] = Idle]
        /\ UNCHANGED <<db, life, counters, revoked, lost>>
    BY <1>3 DEF Commit, Acknowledge
  <2>3. TypeOK'
    BY <1>1, <2>1, <2>2 DEF IInv, TypeOK, Idle, counters
  <2>4. None \notin Issued
    BY NoneAssumption DEF Issued
  <2>5. InForce'
    BY <1>1, <2>1, <2>2, <2>4 DEF IInv, TypeOK, InForce, Idle, Valid
  <2> QED BY <2>3, <2>5 DEF IInv
<1>4. CASE NotStored(q)
  <2>1. logout[q] # Idle /\ logout[q].sid \in Issued /\ db
    BY <1>4 DEF IInv, InForce, NotStored, Idle
  <2>2. /\ out' = out \cup {logout[q].sid} /\ logout' = [logout EXCEPT ![q] = Idle]
        /\ lost' = IF logout[q].sid \in stored THEN lost ELSE lost \cup {logout[q].sid}
        /\ UNCHANGED <<db, life, counters, revoked, stored>>
    BY <1>4 DEF NotStored, Acknowledge
  <2>3. TypeOK'
    BY <1>1, <2>1, <2>2 DEF IInv, TypeOK, Idle, counters
  <2>4. None \notin Issued
    BY NoneAssumption DEF Issued
  <2>5. InForce'
    BY <1>1, <2>1, <2>2, <2>4 DEF IInv, TypeOK, InForce, Idle, Valid
  <2> QED BY <2>3, <2>5 DEF IInv
<1> QED BY <1>2, <1>3, <1>4

LEMMA ClockInv ==
    ASSUME IInv, Tick \/ Restart
    PROVE  IInv'
<1>2. CASE Tick
  <2>1. /\ life' = [s \in Sids |-> IF s \in Valid THEN life[s] - 1 ELSE life[s]]
        /\ UNCHANGED <<db, counters, revoked, stored, logout, out, lost>>
    BY <1>2 DEF Tick
  <2>2. life' \in [Sids -> 0..Life \cup {None}]
    BY <2>1, BoundsAssumption DEF IInv, TypeOK, Valid, Issued
  <2>3. Issued' = Issued /\ Valid' \subseteq Valid
    BY <2>1, BoundsAssumption, NoneAssumption DEF IInv, TypeOK, Valid, Issued
  <2>4. TypeOK'
    BY <2>1, <2>2, <2>3 DEF IInv, TypeOK, counters
  <2>5. InForce'
    BY <2>1, <2>3 DEF IInv, InForce, Idle
  <2> QED BY <2>4, <2>5 DEF IInv
<1>3. CASE Restart
  <2>1. /\ revoked' = stored \cap Valid /\ stored' = stored \cap Valid
        /\ life' = IF db THEN life ELSE [s \in Sids |-> IF s \in Issued THEN 0 ELSE None]
        /\ checking' = NoAttempts /\ hits' = NoHits /\ logout' = [r \in Logouts |-> Idle]
        /\ UNCHANGED <<db, out, lost, followed>>
    BY <1>3 DEF Restart, StillStored
  <2>2. life' \in [Sids -> 0..Life \cup {None}]
    BY <2>1, BoundsAssumption DEF IInv, TypeOK
  <2>3. Issued' = Issued /\ Valid' \subseteq Valid /\ (db => Valid' = Valid)
    BY <2>1, BoundsAssumption, NoneAssumption DEF IInv, TypeOK, Valid, Issued
  <2>4. ~db => Valid' = {}
    BY <2>1, BoundsAssumption, NoneAssumption DEF IInv, TypeOK, Valid, Issued
  <2>5. TypeOK'
    BY <2>1, <2>2, <2>3 DEF IInv, TypeOK, Idle, NoHits, NoAttempts
  <2>6. None \notin Valid
    BY NoneAssumption DEF Valid, Issued
  <2>7. InForce'
    BY <2>1, <2>3, <2>4, <2>6 DEF IInv, InForce, Idle
  <2> QED BY <2>5, <2>7 DEF IInv
<1> QED BY <1>2, <1>3

LEMMA StepInv == IInv /\ [Next]_vars => IInv'
<1> SUFFICES ASSUME IInv, [Next]_vars PROVE IInv'
  OBVIOUS
<1>1. CASE \E l \in Attempts : \/ Login(l) \/ ChangePassword(l) \/ Fails(l) \/ ChangeContinues(l)
                               \/ \E s \in Sids : LoginSucceeds(l, s)
  BY <1>1, AttemptInv, TokenInv
<1>2. CASE \E q \in Logouts : Select(q) \/ Commit(q) \/ NotStored(q) \/ \E s \in Sids : Logout(q, s)
  BY <1>2, LogoutInv, StoringInv
<1>3. CASE NewCase \/ (\E w \in Windows : WindowEnds(w)) \/ Tick \/ Restart
  BY <1>3, CountInv, ClockInv
<1>4. CASE UNCHANGED vars
  BY <1>4 DEF vars, IInv, TypeOK, InForce, Issued, Valid, Idle
<1> QED BY <1>1, <1>2, <1>3, <1>4 DEF Next

-----------------------------------------------------------------------------

\* The type invariant (sessions.py, rate_limit.py).
THEOREM Typed == Spec => []TypeOK
<1>1. IInv => TypeOK
  BY DEF IInv
<1> QED BY <1>1, InitInv, StepInv, PTL DEF Spec

\* A session is over from the moment its logout begins, and stays over through
\* purges and restarts once the logout was acknowledged and stored.
THEOREM LoggedOutForGood == Spec => []LoggedOutStaysOut
<1>1. IInv => LoggedOutStaysOut
  BY DEF IInv, InForce, LoggedOutStaysOut, Admitted
<1> QED BY <1>1, InitInv, StepInv, PTL DEF Spec

\* No step ends a session but its own logout, its expiry or a restart without a
\* database.
LEMMA OthersStep ==
    ASSUME IInv, [Next]_vars, NEW s \in Admitted, s \notin Admitted'
    PROVE  s \in out' \/ s \in {logout'[q].sid : q \in Logouts} \/ life'[s] = 0
<1>1. s \in Valid /\ s \notin revoked /\ s \in Sids /\ s \in Issued
  BY DEF Admitted, Valid, Issued
<1>2. CASE life' = life
  <2>1. s \in revoked'
    BY <1>1, <1>2, SameTokens DEF Admitted
  <2>2. CASE \E q \in Logouts, r \in Sids : Logout(q, r)
    <3>1. PICK q \in Logouts, r \in Sids : Logout(q, r)
      BY <2>2
    <3>2. s = r
      BY <1>1, <2>1, <3>1 DEF Logout
    <3>3. CASE db
      BY <3>1, <3>2, <3>3 DEF Logout, IInv, TypeOK
    <3>4. CASE ~db
      BY <3>1, <3>2, <3>4 DEF Logout, Acknowledge
    <3> QED BY <3>3, <3>4
  <2>3. CASE Restart
    BY <1>1, <2>1, <2>3 DEF Restart, StillStored, IInv, InForce
  <2>4. CASE UNCHANGED revoked
    BY <1>1, <2>1, <2>4
  <2> QED BY <2>2, <2>3, <2>4
          DEF Next, vars, sessions, Login, ChangePassword, Begin, Fails, ChangeContinues,
              LoginSucceeds, NewCase, Select, Commit, NotStored, WindowEnds, Tick
<1>3. CASE Tick
  BY <1>1, <1>3, BoundsAssumption, NoneAssumption
     DEF Tick, Admitted, Valid, Issued, IInv, TypeOK
<1>4. CASE Restart /\ ~db
  BY <1>1, <1>4 DEF Restart
<1>5. CASE \E l \in Attempts, r \in Sids : LoginSucceeds(l, r)
  <2>1. PICK l \in Attempts, r \in Sids : LoginSucceeds(l, r)
    BY <1>5
  <2>2. r # s /\ life'[s] = life[s] /\ UNCHANGED revoked
    BY <1>1, <2>1 DEF LoginSucceeds, IInv, TypeOK
  <2> QED BY <1>1, <2>2 DEF Admitted, Valid, Issued
<1> QED BY <1>2, <1>3, <1>4, <1>5
        DEF Next, vars, sessions, Login, ChangePassword, Begin, Fails, ChangeContinues, NewCase,
            Select, Commit, NotStored, Logout, WindowEnds, Restart

\* Other devices stay signed in (revoke_session).
THEOREM OthersUndisturbed == Spec => OthersStaySignedIn
<1>1. IInv /\ [Next]_vars =>
        [\A s \in Admitted : s \notin Admitted' =>
            s \in out' \/ s \in {logout'[q].sid : q \in Logouts} \/ life'[s] = 0]_vars
  BY OthersStep
<1> QED BY <1>1, InitInv, StepInv, PTL DEF Spec, OthersStaySignedIn

-----------------------------------------------------------------------------

\* How many attempts the followed limit has in progress (KeyedLimit).
LEMMA InProgressCount ==
    ASSUME IInv
    PROVE  /\ InProgress \subseteq Attempts /\ IsFiniteSet(InProgress)
           /\ Cardinality(InProgress) \in Nat /\ Cardinality(Attempts) \in Nat
           /\ Cardinality(InProgress) <= Cardinality(Attempts)
           /\ followed \notin Guarded => Cardinality(InProgress) = 0
<1>1. InProgress \subseteq Attempts
  BY DEF InProgress
<1>2. followed \notin Guarded => InProgress = {}
  BY NoneAssumption DEF IInv, TypeOK, InProgress, Namespaces, Guarded
<1> QED
  BY <1>1, <1>2, BoundsAssumption, FS_Subset, FS_CardinalityType, FS_EmptySet

\* Failures counted and failures to come (login_locked, record_login_failure).
LEMMA FailuresStep == IInv /\ FailuresBounded /\ [Next]_vars => FailuresBounded'
<1> SUFFICES ASSUME IInv, FailuresBounded, [Next]_vars PROVE FailuresBounded'
  OBVIOUS
<1> DEFINE allows(w) == Limits[followed][w]
<1>1. followed' = followed
  BY DEF Next, vars, Login, ChangePassword, Begin, Fails, ChangeContinues, LoginSucceeds, NewCase,
         WindowEnds, Tick, Restart, Select, Commit, NotStored, Logout, counters
<1>2. IInv'
  BY StepInv
<1>3. \A w \in Windows : hits[w] \in Nat /\ hits'[w] \in Nat /\ allows(w) \in Nat \ {0}
  BY <1>2, LimitsAssumption DEF IInv, TypeOK
<1>4. /\ Cardinality(InProgress) \in Nat /\ Cardinality(InProgress') \in Nat
      /\ Cardinality(Attempts) \in Nat
      /\ Cardinality(InProgress') <= Cardinality(Attempts)
      /\ followed \notin Guarded => Cardinality(InProgress') = 0
  <2>1. /\ InProgress' \subseteq Attempts
        /\ followed \notin Guarded => InProgress' = {}
    BY <1>1, <1>2, NoneAssumption DEF IInv, TypeOK, InProgress, Namespaces, Guarded
  <2> QED
    BY <2>1, InProgressCount, BoundsAssumption, FS_Subset, FS_CardinalityType, FS_EmptySet
<1>5. Cardinality(InProgress') <= Slack /\ Slack' = Slack /\ Slack \in Nat
  BY <1>1, <1>4 DEF Slack
<1>6. \A w \in Windows : hits[w] + Cardinality(InProgress) <= allows(w) - 1 + Slack
  BY DEF FailuresBounded
<1> HIDE DEF allows
<1>7. SUFFICES ASSUME NEW w \in Windows
               PROVE  hits'[w] + Cardinality(InProgress') <= allows(w) - 1 + Slack
  BY <1>1, <1>5 DEF FailuresBounded, allows
<1>8. CASE hits'[w] < allows(w)
  BY <1>3, <1>4, <1>5, <1>8
<1>9. CASE hits'[w] <= hits[w] /\ InProgress' \subseteq InProgress
  <2>1. Cardinality(InProgress') <= Cardinality(InProgress)
    BY <1>9, InProgressCount, FS_Subset
  <2> QED BY <1>3, <1>4, <1>5, <1>6, <1>9, <2>1
<1>10. ASSUME NEW l \in Attempts, Login(l) \/ ChangePassword(l)
       PROVE  hits'[w] < allows(w) \/ (hits'[w] <= hits[w] /\ InProgress' \subseteq InProgress)
  <2>1. PICK ns \in Guarded : Begin(l, ns)
    BY <1>10 DEF Login, ChangePassword, Guarded
  <2>2. CASE ns = followed
    BY <1>3, <2>1, <2>2 DEF Begin, Exceeded, IInv, TypeOK, allows
  <2>3. CASE ns # followed
    BY <1>1, <1>3, <2>1, <2>3 DEF Begin, InProgress, IInv, TypeOK
  <2> QED BY <2>2, <2>3
<1>11. ASSUME NEW l \in Attempts, Fails(l)
       PROVE  hits'[w] + Cardinality(InProgress') <= allows(w) - 1 + Slack
  <2>1. checking' = [checking EXCEPT ![l] = None] /\ checking[l] # None
    BY <1>11 DEF Fails, End
  <2>2. InProgress' = InProgress \ {l}
    <3>1. None # followed
      BY NoneAssumption, <1>11 DEF IInv, TypeOK, Namespaces, Guarded
    <3> QED BY <1>1, <2>1, <3>1 DEF InProgress, IInv, TypeOK
  <2>3. CASE checking[l] = followed
    <3>1. l \in InProgress
      BY <2>3 DEF InProgress
    <3>2. Cardinality(InProgress') = Cardinality(InProgress) - 1
      BY <2>2, <3>1, InProgressCount, FS_RemoveElement
    <3>3. hits'[w] = hits[w] + 1
      BY <1>11, <2>3 DEF Fails, Hit
    <3> QED BY <1>3, <1>4, <1>5, <1>6, <3>2, <3>3
  <2>4. CASE checking[l] # followed
    <3>1. hits' = hits
      BY <1>11, <2>4 DEF Fails, Hit
    <3> QED BY <1>3, <1>9, <2>2, <3>1
  <2> QED BY <2>3, <2>4
<1>12. ASSUME NEW l \in Attempts, ChangeContinues(l) \/ \E s \in Sids : LoginSucceeds(l, s)
       PROVE  hits'[w] <= hits[w] /\ InProgress' \subseteq InProgress
  <2>1. checking' = [checking EXCEPT ![l] = None] /\ hits' = hits /\ checking[l] # None
    BY <1>12, NoneAssumption DEF ChangeContinues, LoginSucceeds, End, Guarded, Namespaces
  <2>2. InProgress' \subseteq InProgress
    <3>1. None # followed
      BY NoneAssumption DEF IInv, TypeOK
    <3> QED BY <1>1, <2>1, <3>1 DEF InProgress, IInv, TypeOK
  <2> QED BY <1>3, <2>1, <2>2
<1>13. CASE NewCase
  <2>1. followed \notin Guarded /\ Slack = 1 /\ hits[w] < allows(w) /\ hits'[w] = hits[w] + 1
    BY <1>3, <1>13 DEF NewCase, Exceeded, Hit, Slack, Guarded, allows
  <2> QED BY <1>3, <1>4, <2>1
<1>14. ASSUME NEW v \in Windows, WindowEnds(v)
       PROVE  hits'[w] <= hits[w] /\ InProgress' \subseteq InProgress
  BY <1>1, <1>3, <1>14 DEF WindowEnds, InProgress, IInv, TypeOK
<1>15. CASE Restart
  BY <1>3, <1>8, <1>15 DEF Restart, NoHits
<1>16. CASE \/ Tick \/ UNCHANGED vars
           \/ \E q \in Logouts : Select(q) \/ Commit(q) \/ NotStored(q) \/ \E s \in Sids : Logout(q, s)
  <2>1. UNCHANGED <<hits, checking>>
    BY <1>16 DEF Tick, vars, Select, Commit, NotStored, Logout, counters
  <2> QED BY <1>1, <1>3, <1>9, <2>1 DEF InProgress
<1> QED
  BY <1>8, <1>9, <1>10, <1>11, <1>12, <1>13, <1>14, <1>15, <1>16 DEF Next

\* A window counts at most the limit and what was in progress beyond it.
THEOREM FailuresLimited == Spec => []FailuresBounded
<1>1. Init => FailuresBounded
  <2> SUFFICES ASSUME Init PROVE FailuresBounded
    OBVIOUS
  <2>1. IInv
    BY InitInv
  <2>2. InProgress = {}
    BY NoneAssumption DEF Init, InProgress, NoAttempts, Namespaces, Guarded
  <2>3. Cardinality(InProgress) = 0 /\ Slack \in Nat
    BY <2>1, <2>2, InProgressCount, FS_EmptySet DEF Slack
  <2> QED
    BY <2>3, LimitsAssumption DEF FailuresBounded, Init, NoHits
<1> QED BY <1>1, InitInv, StepInv, FailuresStep, PTL DEF Spec

=============================================================================
