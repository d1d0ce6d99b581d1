---------------------------- MODULE LoopsProofs -----------------------------
(***************************************************************************)
(* The loops of main.py: theorems about the threat feed (module ThreatFeed), for*)
(* every refresh and retry interval and every deployment, and about behavioral*)
(* detection (module Behavior), for every round of its loop.               *)
(***************************************************************************)
EXTENDS ThreatFeed, Behavior, TLAPS

-----------------------------------------------------------------------------
(* ThreatFeed *)

\* Where the refresh is: only with a key and with nothing fresh stored does it
\* fetch, and what it then falls back on is a day old.
Stale(age) == age \in Stored /\ ~Fresh(age)

Fetching == pc = "fetch" => deploy.key /\ Stale(file) /\ Stale(stored)

\* A live list is looked at again before it is two days old; a list being
\* saved has just been served.
LookedAt ==
    /\ state = "live" => list \in Nat /\ list < 2 * Refresh
    /\ state = "live" /\ pc = "sleep" => list + timer < 2 * Refresh
    /\ pc = "save" => list = 0

IInv == TypeOK /\ Fetching /\ LookedAt /\ StatusHonest

LEMMA Numbers ==
    /\ Refresh \in Nat \ {0} /\ Retry \in 1..Refresh /\ MinRetry \in 1..Retry
    /\ OldAge = 2 * Refresh + 1 /\ OldAge \in Nat /\ 0 \in Ages /\ Ages \subseteq Nat
    /\ NoList \notin Ages /\ Sample \notin Ages /\ NoList # Sample
  BY TimesAssumption, ListAssumption DEF OldAge, Ages

\* A list keeps being a list while it ages, and only a tick older.
LEMMA OlderAge ==
    /\ \A age \in Stored : Older(age) \in Stored
    /\ \A age \in List : Older(age) \in List
    /\ \A age \in Ages : /\ Older(age) \in Ages /\ Older(age) >= age
                         /\ age < OldAge => Older(age) = age + 1
    /\ Older(NoList) = NoList /\ Older(Sample) = Sample
  BY Numbers DEF Older, Stored, List, Ages

\* Any sleep is within a day, and at least a tick.
LEMMA WaitBounds ==
    ASSUME NEW s, NEW why, NEW reset \in 0..Refresh
    PROVE  Wait(s, why, reset) \in 1..Refresh
  BY Numbers DEF Wait

LEMMA RetryAfterBounds ==
    ASSUME NEW ticks \in Nat
    PROVE  RetryAfter(ticks) \in 1..Refresh
  BY Numbers DEF RetryAfter

LEMMA InitInv == Init => IInv
  BY Numbers DEF Init, IInv, TypeOK, Fetching, LookedAt, StatusHonest, Stored, List, Ages

\* A fallback is honest: in a refresh without a key, or on lists that are stale.
LEMMA FallbackInv ==
    ASSUME IInv, NEW read \in Stored, NEW why \in {"no_key", "quota", "error"},
           NEW reset \in 0..Refresh,
           why = "no_key" => ~deploy.key,
           deploy.key => Stale(file) /\ Stale(read),
           Fallback(read, why, reset), UNCHANGED <<world, store, served>>
    PROVE  IInv'
<1>1. /\ reason' = why /\ pc' = "sleep" /\ resetsIn' = reset /\ stored' = NoList
      /\ timer' = Wait(state', why, reset)
      /\ UNCHANGED <<deploy, up, file, snapshot, served>>
  BY DEF Fallback, Sleep, world, store
<1>2. timer' \in 0..Refresh
  BY <1>1, WaitBounds, Numbers
<1>3. \/ Newest(read) # NoList /\ list' = Newest(read) /\ state' = "cached"
      \/ deploy.sample /\ list' = Sample /\ state' = "sample"
      \/ list' = NoList /\ state' = "unavailable"
  BY DEF Fallback
<1>4. Newest(read) \in Stored /\ (deploy.key => Stale(Newest(read)))
  BY DEF Newest, IInv, TypeOK
<1>5. list' \in List /\ state' \in {"cached", "sample", "unavailable"}
  BY <1>3, <1>4 DEF List, Stored
<1>6. TypeOK'
  BY <1>1, <1>2, <1>5 DEF IInv, TypeOK, Stored
<1>7. deploy.key /\ state' = "cached" => list' >= Refresh
  BY <1>3, <1>4, Numbers DEF Stale, Fresh, Stored, Ages
<1>8. (state' = "unavailable" <=> list' = NoList) /\ (state' = "sample" <=> list' = Sample)
  BY <1>3, <1>4, Numbers DEF Stored
<1>9. StatusHonest'
  BY <1>1, <1>3, <1>5, <1>7, <1>8 DEF StatusHonest
<1> QED BY <1>1, <1>5, <1>6, <1>9 DEF IInv, Fetching, LookedAt

\* A list goes live: a fresh stored one, or the one just served.
LEMMA GoLiveInv ==
    ASSUME IInv, NEW age \in Ages, age < Refresh,
           GoLive(age), UNCHANGED <<world, file, served>>,
           snapshot' \in {snapshot, 0}
    PROVE  IInv'
<1>1. /\ list' = age /\ state' = "live" /\ reason' = "none"
      /\ pc' = "sleep" /\ resetsIn' = 0 /\ stored' = NoList /\ timer' = Refresh
      /\ UNCHANGED <<deploy, up, file, served>>
  BY DEF GoLive, Sleep, Wait, world
<1>2. TypeOK'
  BY <1>1, Numbers DEF IInv, TypeOK, Stored, List
<1>3. StatusHonest'
  BY <1>1, Numbers DEF StatusHonest
<1>4. LookedAt'
  BY <1>1, Numbers DEF LookedAt
<1> QED BY <1>1, <1>2, <1>3, <1>4 DEF IInv, Fetching

LEMMA LoadInv == ASSUME IInv, Load PROVE IInv'
<1>1. PICK read \in {snapshot, NoList} :
         \/ ~deploy.key /\ Fallback(read, "no_key", 0)
         \/ deploy.key /\ Fresh(file) /\ GoLive(file)
         \/ deploy.key /\ ~Fresh(file) /\ Fresh(read) /\ GoLive(read)
         \/ /\ deploy.key /\ ~Fresh(file) /\ ~Fresh(read)
            /\ pc' = "fetch" /\ stored' = read
            /\ UNCHANGED <<status, resetsIn, timer>>
  BY DEF Load
<1>2. UNCHANGED <<world, store, served>> /\ pc = "load" /\ read \in Stored /\ file \in Stored
  BY DEF Load, IInv, TypeOK, Stored
<1>3. CASE ~deploy.key /\ Fallback(read, "no_key", 0)
  BY <1>2, <1>3, FallbackInv, Numbers
<1>4. CASE deploy.key /\ Fresh(file) /\ GoLive(file)
  BY <1>2, <1>4, GoLiveInv DEF Fresh, store
<1>5. CASE deploy.key /\ ~Fresh(file) /\ Fresh(read) /\ GoLive(read)
  BY <1>2, <1>5, GoLiveInv DEF Fresh, store
<1>6. CASE /\ deploy.key /\ ~Fresh(file) /\ ~Fresh(read)
           /\ pc' = "fetch" /\ stored' = read
           /\ UNCHANGED <<status, resetsIn, timer>>
  BY <1>2, <1>6 DEF IInv, TypeOK, Fetching, LookedAt, StatusHonest, Stale, Fresh,
                    world, store, status
<1> QED BY <1>1, <1>3, <1>4, <1>5, <1>6

LEMMA FetchServedInv == ASSUME IInv, FetchServed PROVE IInv'
  BY Numbers DEF IInv, TypeOK, Fetching, LookedAt, StatusHonest, FetchServed, world,
                 Stored, List

LEMMA SaveSnapshotInv == ASSUME IInv, SaveSnapshot PROVE IInv'
<1>1. list = 0
  BY DEF IInv, LookedAt, SaveSnapshot
<1> QED BY <1>1, GoLiveInv, Numbers DEF SaveSnapshot

LEMMA FetchFailsInv == ASSUME IInv, FetchFails PROVE IInv'
<1>1. /\ stored \in Stored /\ deploy.key /\ Stale(file) /\ Stale(stored)
      /\ UNCHANGED <<world, store, served>>
  BY DEF IInv, TypeOK, Fetching, FetchFails
<1>2. CASE Fallback(stored, "error", 0) \/ Fallback(stored, "quota", 0)
  BY <1>1, <1>2, FallbackInv, Numbers
<1>3. CASE \E ticks \in 0..(Refresh + 1) : Fallback(stored, "quota", RetryAfter(ticks))
  <2>1. PICK ticks \in 0..(Refresh + 1) : Fallback(stored, "quota", RetryAfter(ticks))
    BY <1>3
  <2>2. RetryAfter(ticks) \in 0..Refresh
    BY RetryAfterBounds, Numbers
  <2> QED BY <1>1, <2>1, <2>2, FallbackInv
<1> QED BY <1>2, <1>3 DEF FetchFails

LEMMA TickInv == ASSUME IInv, Tick PROVE IInv'
<1>1. /\ pc = "sleep" /\ timer > 0 /\ timer' = timer - 1 /\ timer \in 0..Refresh
      /\ file' = Older(file) /\ snapshot' = Older(snapshot)
      /\ list' = Older(list) /\ served' = Older(served)
      /\ UNCHANGED <<deploy, up, state, reason, resetsIn, pc, stored>>
  BY DEF Tick, IInv, TypeOK, world
<1>2. TypeOK'
  BY <1>1, OlderAge, Numbers DEF IInv, TypeOK
<1>3. /\ list' = NoList <=> list = NoList
      /\ list' = Sample <=> list = Sample
      /\ list \in Ages => list' \in Ages /\ list' >= list /\ (list < OldAge => list' = list + 1)
  BY <1>1, OlderAge, Numbers DEF IInv, TypeOK, List, Stored
<1>4. state = "live" => list \in Ages
  BY Numbers DEF IInv, LookedAt, Ages
<1>5. LookedAt'
  BY <1>1, <1>3, <1>4, Numbers DEF IInv, LookedAt
<1>6. state = "cached" => list \in Ages
  BY <1>1 DEF IInv, StatusHonest, TypeOK, List, Stored
<1>7. deploy.key /\ state = "cached" => list' >= Refresh
  <2> SUFFICES ASSUME deploy.key, state = "cached" PROVE list' >= Refresh
    OBVIOUS
  <2>1. list >= Refresh /\ list' >= list /\ list \in Nat /\ list' \in Nat
    BY <1>1, <1>3, <1>6, Numbers DEF IInv, StatusHonest
  <2> QED BY <2>1, Numbers
<1>8. StatusHonest'
  BY <1>1, <1>3, <1>7 DEF IInv, StatusHonest
<1> QED BY <1>1, <1>2, <1>5, <1>8 DEF IInv, Fetching

LEMMA RestInv == ASSUME IInv, Wake \/ ServiceChanges \/ Restart \/ UNCHANGED vars PROVE IInv'
<1>1. CASE Wake
  BY <1>1, Numbers DEF IInv, TypeOK, Fetching, LookedAt, StatusHonest, Wake, world, store, status,
                       Stale, Fresh
<1>2. CASE ServiceChanges
  BY <1>2 DEF IInv, TypeOK, Fetching, LookedAt, StatusHonest, ServiceChanges, store, status, Stale, Fresh
<1>3. CASE Restart
  BY <1>3, Numbers DEF IInv, TypeOK, Fetching, LookedAt, StatusHonest, Restart, world, Stored, List
<1>4. CASE UNCHANGED vars
  BY <1>4 DEF IInv, TypeOK, Fetching, LookedAt, StatusHonest, vars, world, store, status, Stale, Fresh
<1> QED BY <1>1, <1>2, <1>3, <1>4

LEMMA StepInv == IInv /\ [Next]_vars => IInv'
  BY LoadInv, FetchServedInv, SaveSnapshotInv, FetchFailsInv, TickInv, RestInv
     DEF Next, Refreshing

-----------------------------------------------------------------------------

\* The type invariant (simulation.py).
THEOREM Typed == Spec => []TypeOK
<1>1. IInv => TypeOK
  BY DEF IInv
<1> QED BY <1>1, InitInv, StepInv, PTL DEF Spec

\* The status never says of the list what is not so (FEED_STATUS).
THEOREM HonestStatus == Spec => []StatusHonest
<1>1. IInv => StatusHonest
  BY DEF IInv
<1> QED BY <1>1, InitInv, StepInv, PTL DEF Spec

\* A list called live is never two days old (next_refresh_in).
THEOREM LiveIsRecent == Spec => []LiveWithinTwoDays
<1>1. IInv => LiveWithinTwoDays
  BY Numbers DEF IInv, LookedAt, LiveWithinTwoDays
<1> QED BY <1>1, InitInv, StepInv, PTL DEF Spec

\* The daily quota is not spent twice while a list of the day is stored
\* (refresh_threat_ips looks at the file and the snapshot first).
THEOREM QuotaKept == Spec => OneFetchADay
<1>1. IInv /\ [Next]_vars =>
        [FetchServed => served = NoList \/ served >= Refresh \/ served \notin {file, stored}]_vars
  <2> SUFFICES ASSUME IInv, FetchServed, served \in {file, stored}, served # NoList
               PROVE  served >= Refresh
    OBVIOUS
  <2>1. Stale(served)
    BY DEF IInv, Fetching, FetchServed
  <2> QED BY <2>1, Numbers DEF Stale, Fresh, Stored, Ages
<1> QED BY <1>1, InitInv, StepInv, PTL DEF Spec, OneFetchADay

-----------------------------------------------------------------------------
(* Behavior *)

Busy(r) == req[r] # Idle

\* A PATCH that has met no other is alone; what it has read of the row since its
\* commit is still what the row says.
AloneInv ==
    /\ req = [r \in Requests |-> req[r]]
    /\ crossed \subseteq Requests /\ \A r \in crossed : Busy(r)
    /\ \A r \in Requests \ crossed : Busy(r) => \A o \in Requests \ {r} : ~Busy(o)
    /\ \A r \in Requests \ crossed : Busy(r) /\ req[r].op = "apply" => req[r].row = row

\* The copy is the row but for PATCHes between their commit and their answer.
CopyInv ==
    db /\ ~stale /\ (\A r \in Requests : Busy(r) => req[r].op \notin {"refresh", "apply"})
      => config = row

SettingsInv == AloneInv /\ CopyInv

LEMMA SettingsInit == BehaviorInit => SettingsInv
  BY DEF BehaviorInit, SettingsInv, AloneInv, CopyInv, Busy

LEMMA SettingsNext == SettingsInv /\ [BehaviorNext]_behaviorVars => SettingsInv'
<1> SUFFICES ASSUME SettingsInv, [BehaviorNext]_behaviorVars PROVE SettingsInv'
  OBVIOUS
<1> USE DEF SettingsInv, AloneInv, CopyInv, Busy
<1>1. CASE UNCHANGED behaviorVars
  BY <1>1 DEF behaviorVars
<1>2. CASE UNCHANGED <<db, settings>>
  BY <1>2 DEF settings
<1>3. ASSUME NEW r \in Requests, NEW patch \in Patches, Update(r, patch) PROVE SettingsInv'
  <2>1. CASE ~db
    BY <1>3, <2>1 DEF Update
  <2>2. CASE db
    <3>1. /\ req' = [req EXCEPT ![r] = [op |-> "select", patch |-> patch]]
          /\ crossed' = IF Others(r) = {} THEN crossed ELSE crossed \cup Others(r) \cup {r}
          /\ req[r] = Idle /\ UNCHANGED <<db, config, row, stale>>
      BY <1>3, <2>2 DEF Update
    <3>2. [op |-> "select", patch |-> patch] # Idle
      BY DEF Idle
    <3> QED BY <3>1, <3>2 DEF Others
  <2> QED BY <2>1, <2>2
<1>4. ASSUME NEW r \in Requests, Select(r) PROVE SettingsInv'
  BY <1>4 DEF Select, Idle
<1>5. ASSUME NEW r \in Requests, Commit(r) PROVE SettingsInv'
  BY <1>5 DEF Commit, Idle
<1>6. ASSUME NEW r \in Requests, Reread(r) PROVE SettingsInv'
  BY <1>6 DEF Reread, Idle
<1>7. ASSUME NEW r \in Requests, Apply(r) PROVE SettingsInv'
  <2>1. /\ req[r].op = "apply" /\ req[r] # Idle
        /\ req' = [req EXCEPT ![r] = Idle] /\ crossed' = crossed \ {r}
        /\ config' = req[r].row /\ stale' = (r \in crossed) /\ UNCHANGED <<db, row>>
    BY <1>7 DEF Apply, Finish, Idle
  <2>2. req' = [o \in Requests |-> req'[o]] /\ req'[r] = Idle /\ \A o \in Requests \ {r} : req'[o] = req[o]
    BY <2>1
  <2>3. AloneInv'
    BY <2>1, <2>2
  <2>4. CopyInv'
    BY <2>1
  <2> QED BY <2>3, <2>4
<1>8. ASSUME NEW r \in Requests, Fails(r) PROVE SettingsInv'
  <2>1. /\ req[r] # Idle
        /\ req' = [req EXCEPT ![r] = Idle] /\ crossed' = crossed \ {r}
        /\ stale' = (stale \/ req[r].op \in {"refresh", "apply"}) /\ UNCHANGED <<db, config, row>>
    BY <1>8 DEF Fails, Finish
  <2>2. req' = [o \in Requests |-> req'[o]] /\ req'[r] = Idle /\ \A o \in Requests \ {r} : req'[o] = req[o]
    BY <2>1
  <2>3. AloneInv'
    BY <2>1, <2>2
  <2>4. ASSUME db', ~stale', \A o \in Requests : Busy(o)' => req'[o].op \notin {"refresh", "apply"}
        PROVE  config' = row'
    <3>1. \A o \in Requests : Busy(o) => req[o].op \notin {"refresh", "apply"}
      BY <2>1, <2>2, <2>4
    <3> QED BY <2>1, <2>4, <3>1
  <2> QED BY <2>3, <2>4
<1>9. CASE ForgetAll
  BY <1>9 DEF ForgetAll
<1> QED
  BY <1>1, <1>2, <1>3, <1>4, <1>5, <1>6, <1>7, <1>8, <1>9 DEF BehaviorNext, RecordEvent, Round

\* At rest the behavioral loop reads the settings of the row, also after restarts,
\* unless the last PATCH to touch the copy had met another one or failed after its
\* commit (DbBehavioral.update).
THEOREM SettingsReadAreStored == BehaviorSpec => []SettingsFollow
<1>1. SettingsInv => SettingsFollow
  BY DEF SettingsInv, AloneInv, CopyInv, Busy, SettingsFollow
<1> QED BY SettingsInit, SettingsNext, <1>1, PTL DEF BehaviorSpec

LEMMA SameAges ==
    ASSUME quiet = flagged, [BehaviorNext]_behaviorVars
    PROVE  quiet' = flagged'
<1>1. CASE UNCHANGED <<flagged, quiet>>
  BY <1>1
<1>2. CASE Round
  BY <1>2 DEF Round, Aged, Age
<1>3. CASE ForgetAll
  BY <1>3 DEF ForgetAll
<1> QED
  BY <1>1, <1>2, <1>3
  DEF BehaviorNext, behaviorVars, RecordEvent, Update, Select, Commit, Reread, Apply, Fails, events

\* No IP is flagged again before the cooldown in force has passed, whatever is
\* patched, recorded or forgotten in between (_behavioral_loop).
THEOREM AlarmsAreSpaced == BehaviorSpec => CooldownKept
<1>1. BehaviorInit => quiet = flagged
  BY DEF BehaviorInit
<1>2. quiet = flagged /\ [BehaviorNext]_behaviorVars => (quiet = flagged)'
  BY SameAges
<1>3. quiet = flagged /\ [BehaviorNext]_behaviorVars
        => [\A alarm \in raised' : Cooled(quiet[alarm[1]][alarm[2]])]_behaviorVars
  BY DEF BehaviorNext, RecordEvent, Round, Alarms, Update, Select, Commit, Reread, Apply, Fails, ForgetAll
<1> QED BY <1>1, <1>2, <1>3, PTL DEF BehaviorSpec, CooldownKept

-----------------------------------------------------------------------------
\* The settings, and those that a PATCH in progress carries, are within their limits.
Within(s) == DOMAIN s = DOMAIN Defaults /\ \A f \in DOMAIN Defaults : s[f] \in Limits[f]

SettingsTyped ==
    /\ db \in BOOLEAN /\ stale \in BOOLEAN /\ crossed \subseteq Requests
    /\ Within(config) /\ Within(row)
    /\ req = [r \in Requests |-> req[r]]
    /\ \A r \in Requests :
         /\ req[r] # Idle /\ req[r].op \in {"select", "commit"} => Valid(req[r].patch)
         /\ req[r] # Idle /\ req[r].op = "commit" => req[r].dirty \subseteq DOMAIN req[r].patch
         /\ req[r] # Idle /\ req[r].op = "apply" => Within(req[r].row)

Event == [age : 0..Window, score : Scores]

EventsTyped ==
    /\ ip_store \in [IPs -> Seq(Event)]
    /\ \A ip \in IPs : Len(ip_store[ip]) <= IpCap
    /\ flagged \in [IPs -> [Types -> 0..Horizon \cup {None}]]
    /\ raised \subseteq IPs \X Types

LEMMA HorizonIs == Horizon \in Nat \ {0}
  BY SettingsAssumption, LimitsAssumption DEF Horizon

LEMMA SettingsStep ==
    ASSUME SettingsTyped, [BehaviorNext]_behaviorVars
    PROVE  SettingsTyped'
<1> USE DEF SettingsTyped
<1>1. CASE UNCHANGED <<db, settings>>
  BY <1>1 DEF settings, Valid
<1>2. ASSUME NEW r \in Requests, NEW patch \in Patches, Update(r, patch) PROVE SettingsTyped'
  <2>1. CASE db
    BY <1>2, <2>1 DEF Update, Idle, Others
  <2>2. CASE ~db
    BY <1>2, <2>2 DEF Update, Valid, Patched, Within
  <2> QED BY <2>1, <2>2
<1>3. ASSUME NEW r \in Requests, Select(r) PROVE SettingsTyped'
  <2>1. /\ UNCHANGED <<db, config, row, crossed, stale>> /\ req[r].op = "select"
        /\ req' = [req EXCEPT ![r] = [op |-> "commit", patch |-> req[r].patch,
                     dirty |-> {f \in DOMAIN req[r].patch : req[r].patch[f] # row[f]}]]
    BY <1>3 DEF Select
  <2>2. req[r] # Idle
    BY <2>1 DEF Idle
  <2>3. /\ req' = [o \in Requests |-> req'[o]] /\ \A o \in Requests \ {r} : req'[o] = req[o]
        /\ req'[r].op = "commit" /\ req'[r].patch = req[r].patch
        /\ req'[r].dirty \subseteq DOMAIN req'[r].patch
    BY <2>1
  <2> QED BY <2>1, <2>2, <2>3
<1>4. ASSUME NEW r \in Requests, Commit(r) PROVE SettingsTyped'
  <2>1. /\ UNCHANGED <<db, config, crossed, stale>> /\ req[r].op = "commit"
        /\ row' = [f \in DOMAIN row |-> IF f \in req[r].dirty THEN req[r].patch[f] ELSE row[f]]
        /\ req' = [req EXCEPT ![r] = [op |-> "refresh"]]
    BY <1>4 DEF Commit
  <2>2. Valid(req[r].patch) /\ req[r].dirty \subseteq DOMAIN req[r].patch
    BY <2>1 DEF Idle
  <2>3. Within(row)'
    BY <2>1, <2>2 DEF Within, Valid
  <2>4. /\ req' = [o \in Requests |-> req'[o]] /\ \A o \in Requests \ {r} : req'[o] = req[o]
        /\ req'[r].op = "refresh"
    BY <2>1
  <2> QED BY <2>1, <2>3, <2>4
<1>5. ASSUME NEW r \in Requests, Reread(r) PROVE SettingsTyped'
  BY <1>5 DEF Reread, Idle, Valid
<1>6. ASSUME NEW r \in Requests, Apply(r) PROVE SettingsTyped'
  BY <1>6 DEF Apply, Finish, Idle, Valid
<1>7. ASSUME NEW r \in Requests, Fails(r) PROVE SettingsTyped'
  BY <1>7 DEF Fails, Finish, Idle, Valid
<1>8. CASE ForgetAll
  <2>1. Within(Defaults)
    BY SettingsAssumption DEF Within
  <2> QED BY <1>8, <2>1 DEF ForgetAll
<1> QED
  BY <1>1, <1>2, <1>3, <1>4, <1>5, <1>6, <1>7, <1>8 DEF BehaviorNext, behaviorVars, RecordEvent, Round, settings

LEMMA EventsStep ==
    ASSUME EventsTyped, [BehaviorNext]_behaviorVars
    PROVE  EventsTyped'
<1> USE DEF EventsTyped
<1>1. CASE UNCHANGED <<ip_store, flagged>> /\ raised' \in {raised, {}}
  BY <1>1
<1>2. ASSUME NEW ip \in IPs, NEW score \in Scores, RecordEvent(ip, score) PROVE EventsTyped'
  <2> DEFINE event == [age |-> 0, score |-> score]
             longer == Append(ip_store[ip], event)
  <2>1. event \in Event
    BY SizesAssumption DEF Event
  <2>2. longer \in Seq(Event) /\ Len(longer) = Len(ip_store[ip]) + 1
    BY <2>1
  <2>3. Tail(longer) \in Seq(Event) /\ Len(Tail(longer)) = Len(ip_store[ip])
    <3>1. Len(ip_store[ip]) \in Nat
      OBVIOUS
    <3> HIDE DEF longer
    <3>2. longer # <<>>
      BY <2>2, <3>1
    <3> QED BY <2>2, <3>1, <3>2
  <2>4. /\ ip_store' = [ip_store EXCEPT ![ip] = IF Len(longer) > IpCap THEN Tail(longer) ELSE longer]
        /\ raised' = {} /\ flagged' = flagged
    BY <1>2 DEF RecordEvent
  <2> HIDE DEF longer
  <2> QED BY <2>2, <2>3, <2>4, SizesAssumption
<1>3. CASE Round
  <2>1. raised' \subseteq IPs \X Types
    BY <1>3 DEF Round, Alarms
  <2>2. flagged' \in [IPs -> [Types -> 0..Horizon \cup {None}]]
    <3>1. ASSUME NEW age \in 0..Horizon \cup {None} PROVE Later(age) \in 0..Horizon \cup {None}
      BY HorizonIs DEF Later
    <3>2. ASSUME NEW ip \in IPs, NEW type \in Types
          PROVE  Aged(flagged, ip, type) \in 0..Horizon \cup {None}
      <4>1. flagged[ip][type] \in 0..Horizon \cup {None}
        OBVIOUS
      <4>2. Later(flagged[ip][type]) \in 0..Horizon \cup {None} /\ 0 \in 0..Horizon
        <5>1. Later(flagged[ip][type]) \in 0..Horizon \cup {None}
          BY <3>1, <4>1
        <5>2. 0 \in 0..Horizon
          BY HorizonIs
        <5> QED BY <5>1, <5>2
      <4> QED BY <4>2 DEF Aged
    <3> QED BY <1>3, <3>2 DEF Round
  <2>3. ip_store' = [ip \in IPs |-> [i \in DOMAIN ip_store[ip] |->
                       [ip_store[ip][i] EXCEPT !.age = IF @ < Window THEN @ + 1 ELSE @]]]
    BY <1>3 DEF Round, Age
  <2>4. ASSUME NEW ip \in IPs PROVE ip_store'[ip] \in Seq(Event) /\ Len(ip_store'[ip]) <= IpCap
    <3> DEFINE s == ip_store[ip]
    <3>1. s \in Seq(Event) /\ Len(s) \in Nat /\ DOMAIN s = 1..Len(s) /\ Len(s) <= IpCap
      OBVIOUS
    <3>2. ip_store'[ip] = [i \in 1..Len(s) |-> [s[i] EXCEPT !.age = IF @ < Window THEN @ + 1 ELSE @]]
      BY <2>3, <3>1
    <3>3. ASSUME NEW i \in 1..Len(s)
          PROVE  [s[i] EXCEPT !.age = IF @ < Window THEN @ + 1 ELSE @] \in Event
      <4>1. s[i] \in Event
        BY <3>1
      <4>2. s[i].age \in 0..Window /\ s[i].score \in Scores
            /\ s[i] = [age |-> s[i].age, score |-> s[i].score]
        BY <4>1 DEF Event
      <4>3. (IF s[i].age < Window THEN s[i].age + 1 ELSE s[i].age) \in 0..Window
        BY <4>2, SizesAssumption
      <4> QED BY <4>2, <4>3 DEF Event
    <3>4. ip_store'[ip] \in [1..Len(s) -> Event]
      BY <3>2, <3>3
    <3>5. Len(s) \in Nat
      BY <3>1
    <3> HIDE DEF s
    <3>6. ip_store'[ip] \in Seq(Event) /\ Len(ip_store'[ip]) = Len(s)
      <4> DEFINE n == Len(s)
                 t == ip_store'[ip]
      <4>1. n \in Nat /\ t \in [1..n -> Event]
        BY <3>4, <3>5
      <4> HIDE DEF n, t
      <4>2. t \in Seq(Event) /\ Len(t) = n
        BY <4>1
      <4> QED BY <4>2 DEF n, t
    <3> QED BY <3>1, <3>6
  <2>5. ip_store' \in [IPs -> Seq(Event)]
    <3> DEFINE later(ip) == [i \in DOMAIN ip_store[ip] |->
                       [ip_store[ip][i] EXCEPT !.age = IF @ < Window THEN @ + 1 ELSE @]]
    <3>1. ip_store' = [ip \in IPs |-> later(ip)]
      BY <2>3
    <3>2. \A ip \in IPs : ip_store'[ip] \in Seq(Event)
      BY <2>4
    <3> HIDE DEF later
    <3> QED BY <3>1, <3>2
  <2> QED BY <2>1, <2>2, <2>4, <2>5
<1>4. CASE ForgetAll
  BY <1>4, SizesAssumption DEF ForgetAll, Never
<1> QED
  BY <1>1, <1>2, <1>3, <1>4
  DEF BehaviorNext, behaviorVars, Update, Select, Commit, Reread, Apply, Fails, events

\* The type invariant of behavioral detection: no IP keeps more events than its
\* deque holds, and the settings in force are always within BEHAVIORAL_LIMITS
\* (store.ip_store, routers/behavioral.py).
THEOREM BehaviorTyped == BehaviorSpec => []BehaviorTypeOK
<1>1. BehaviorInit => SettingsTyped /\ EventsTyped
  <2> SUFFICES ASSUME BehaviorInit PROVE SettingsTyped /\ EventsTyped
    OBVIOUS
  <2>1. Within(Defaults)
    BY SettingsAssumption DEF Within
  <2>2. SettingsTyped
    BY <2>1 DEF BehaviorInit, SettingsTyped
  <2>3. EventsTyped
    <3>1. ip_store = [ip \in IPs |-> <<>>] /\ flagged = [ip \in IPs |-> Never] /\ raised = {}
      BY DEF BehaviorInit
    <3>2. Never \in [Types -> 0..Horizon \cup {None}]
      BY DEF Never
    <3> QED BY <3>1, <3>2, SizesAssumption DEF EventsTyped
  <2> QED BY <2>2, <2>3
<1>2. SettingsTyped /\ EventsTyped /\ [BehaviorNext]_behaviorVars => (SettingsTyped /\ EventsTyped)'
  BY SettingsStep, EventsStep
<1>3. SettingsTyped /\ EventsTyped => BehaviorTypeOK
  BY DEF SettingsTyped, EventsTyped, Within, Event, BehaviorTypeOK
<1> QED BY <1>1, <1>2, <1>3, PTL DEF BehaviorSpec
=============================================================================
