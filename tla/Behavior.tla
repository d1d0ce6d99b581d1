------------------------------ MODULE Behavior ------------------------------
(***************************************************************************)
(* Behavioral detection: the events kept per IP (store.ip_store), the loop  *)
(* that flags IPs once a minute (main._behavioral_loop), and the settings    *)
(* it reads, which admins patch (routers/behavioral.py): one row and its    *)
(* copy in memory.                                                         *)
(*                                                                         *)
(* Time passes in rounds of the loop.  An event's age is the number of      *)
(* rounds since it was recorded.  The loop sleeps for a minute after each   *)
(* round, so what was flagged n rounds ago is more than n minutes old.      *)
(***************************************************************************)
EXTENDS Integers, FiniteSets, SequencesExt

CONSTANTS IPs,
          Requests,      \* PATCHes that may be in progress at once
          Scores,        \* scores of events
          Window,        \* rounds in which an event is recent (10)
          IpCap,         \* events kept per IP (200)
          MinEvents,     \* events needed for an average (6)
          LastEvents,    \* events the recent average is of (5)
          Defaults,      \* BEHAVIORAL_DEFAULTS
          Limits,        \* BEHAVIORAL_LIMITS: field -> set of values
          Patches,       \* bodies the admins send
          MaxHeard,      \* bound: events of one IP between two rounds
          None

ASSUME SizesAssumption ==
    /\ {Window, IpCap, MinEvents, LastEvents, MaxHeard} \subseteq Nat \ {0}
    /\ LastEvents <= MinEvents
ASSUME SettingsAssumption ==
    /\ DOMAIN Limits = DOMAIN Defaults
    /\ DOMAIN Defaults = {"repeated_threshold", "escalation_delta", "cooldown_min"}
    /\ \A f \in DOMAIN Defaults : Defaults[f] \in Limits[f] /\ Limits[f] \subseteq Nat \ {0}
\* BEHAVIORAL_LIMITS are pairs of a least and a largest value.
ASSUME LimitsAssumption ==
    \E n \in Limits.cooldown_min : \A k \in Limits.cooldown_min : k <= n

VARIABLES db,           \* is there a database
          ip_store,     \* the last events of each IP, oldest first
          flagged,      \* _behavioral_flagged, as rounds since
          config,       \* _behavioral_config
          row,          \* the settings row
          req,          \* the PATCHes in progress
          raised,       \* the alerts this step creates
          heard,        \* history: events of each IP by age, kept or not
          quiet,        \* history: rounds since an IP's last alert of each type
          crossed,      \* history: PATCHes that met another one
          stale         \* history: the copy was last written by such a one

behaviorVars == <<db, ip_store, flagged, config, row, req, raised, heard, quiet, crossed, stale>>
events == <<ip_store, flagged, heard, quiet>>
settings == <<config, row, req, crossed, stale>>

Settings == [DOMAIN Defaults -> Nat]
Types == {"RepeatedIP", "Escalation"}
Idle == [op |-> "idle"]

Horizon == CHOOSE n \in Limits.cooldown_min : \A k \in Limits.cooldown_min : k <= n
Later(age) == IF age = None THEN None ELSE IF age < Horizon THEN age + 1 ELSE age

Never == [type \in Types |-> None]

BehaviorInit ==
    /\ db \in BOOLEAN
    /\ ip_store = [ip \in IPs |-> <<>>]
    /\ flagged = [ip \in IPs |-> Never] /\ quiet = flagged
    /\ config = Defaults /\ row = Defaults
    /\ req = [r \in Requests |-> Idle]
    /\ raised = {} /\ crossed = {} /\ stale = FALSE
    /\ heard = [ip \in IPs |-> [age \in 0..Window - 1 |-> 0]]

-----------------------------------------------------------------------------
\* The events and the loop.

Heard(ip) == FoldFunction(+, 0, heard[ip])

\* _record_event: the deque drops its oldest event when it is full.
RecordEvent(ip, score) ==
    LET longer == Append(ip_store[ip], [age |-> 0, score |-> score])
    IN  /\ heard[ip][0] < MaxHeard
        /\ ip_store' = [ip_store EXCEPT ![ip] =
                          IF Len(longer) > IpCap THEN Tail(longer) ELSE longer]
        /\ heard' = [heard EXCEPT ![ip][0] = @ + 1]
        /\ raised' = {}
        /\ UNCHANGED <<db, flagged, quiet, settings>>

Sum(s) == FoldLeft(LAMBDA sum, e : sum + e.score, 0, s)

IsRepeated(s) ==
    Cardinality({i \in DOMAIN s : s[i].age < Window}) >= config.repeated_threshold

\* The averages are compared without dividing.
IsEscalation(s) ==
    LET recent == SubSeq(s, Len(s) - LastEvents + 1, Len(s))
    IN  /\ Len(s) >= MinEvents
        /\ Sum(recent) * Len(s) - Sum(s) * LastEvents
             >= config.escalation_delta * LastEvents * Len(s)

Holds(type, s) == IF type = "RepeatedIP" THEN IsRepeated(s) ELSE IsEscalation(s)

\* Mutant: an IP is flagged once.
CooledNever(age) == age = None

Cooled(age) == age = None \/ Later(age) >= config.cooldown_min

Alarms == {alarm \in IPs \X Types :
             LET ip == alarm[1]
                 type == alarm[2]
             IN  Holds(type, ip_store[ip]) /\ Cooled(flagged[ip][type])}

Aged(ages, ip, type) == IF <<ip, type>> \in Alarms THEN 0 ELSE Later(ages[ip][type])

Age ==
    /\ ip_store' = [ip \in IPs |-> [i \in DOMAIN ip_store[ip] |->
                     [ip_store[ip][i] EXCEPT !.age = IF @ < Window THEN @ + 1 ELSE @]]]
    /\ heard' = [ip \in IPs |-> [age \in 0..Window - 1 |-> IF age = 0 THEN 0 ELSE heard[ip][age - 1]]]
    /\ quiet' = [ip \in IPs |-> [type \in Types |->
                   IF <<ip, type>> \in raised' THEN 0 ELSE Later(quiet[ip][type])]]

\* Mutant: a new flag replaces the IP's other flag.
RoundOneFlag ==
    /\ raised' = Alarms
    /\ flagged' = [ip \in IPs |-> [type \in Types |->
                     IF <<ip, type>> \notin Alarms /\ \E t \in Types : <<ip, t>> \in Alarms
                     THEN None ELSE Aged(flagged, ip, type)]]
    /\ Age
    /\ UNCHANGED <<db, settings>>

\* One pass of _behavioral_loop over all IPs, which nothing interrupts.
Round ==
    /\ raised' = Alarms
    /\ flagged' = [ip \in IPs |-> [type \in Types |-> Aged(flagged, ip, type)]]
    /\ Age
    /\ UNCHANGED <<db, settings>>

-----------------------------------------------------------------------------
\* The settings.

\* _validate
Valid(patch) == \A f \in DOMAIN patch : patch[f] \in Limits[f]

Patched(old, patch) == [f \in DOMAIN old |-> IF f \in DOMAIN patch THEN patch[f] ELSE old[f]]

Others(r) == {o \in Requests \ {r} : req[o] # Idle}

\* PATCH: without a database, done at once.
Update(r, patch) ==
    /\ req[r] = Idle /\ Valid(patch)
    /\ IF db THEN /\ req' = [req EXCEPT ![r] = [op |-> "select", patch |-> patch]]
                  /\ crossed' = IF Others(r) = {} THEN crossed ELSE crossed \cup Others(r) \cup {r}
                  /\ UNCHANGED config
             ELSE config' = Patched(config, patch) /\ UNCHANGED <<req, crossed>>
    /\ raised' = {}
    /\ UNCHANGED <<db, row, stale, events>>

\* _behavioral_row; the UPDATE will name the columns that differ from it.
Select(r) ==
    /\ req[r].op = "select"
    /\ req' = [req EXCEPT ![r] =
                 [op |-> "commit", patch |-> @.patch,
                  dirty |-> {f \in DOMAIN @.patch : @.patch[f] # row[f]}]]
    /\ raised' = {}
    /\ UNCHANGED <<db, config, row, crossed, stale, events>>

Commit(r) ==
    /\ req[r].op = "commit"
    /\ row' = [f \in DOMAIN row |-> IF f \in req[r].dirty THEN req[r].patch[f] ELSE row[f]]
    /\ req' = [req EXCEPT ![r] = [op |-> "refresh"]]
    /\ raised' = {}
    /\ UNCHANGED <<db, config, crossed, stale, events>>

\* session.refresh reads the whole row again.
Reread(r) ==
    /\ req[r].op = "refresh"
    /\ req' = [req EXCEPT ![r] = [op |-> "apply", row |-> row]]
    /\ raised' = {}
    /\ UNCHANGED <<db, config, row, crossed, stale, events>>

Finish(r) == req' = [req EXCEPT ![r] = Idle] /\ crossed' = crossed \ {r}

\* Mutant: the copy keeps the cooldown it has.
ApplyThresholds(r) ==
    /\ req[r].op = "apply"
    /\ config' = [req[r].row EXCEPT !.cooldown_min = config.cooldown_min]
    /\ stale' = (r \in crossed)
    /\ Finish(r)
    /\ raised' = {}
    /\ UNCHANGED <<db, row, events>>

\* DbBehavioral.update: the copy takes all the row's settings.
Apply(r) ==
    /\ req[r].op = "apply"
    /\ config' = req[r].row
    /\ stale' = (r \in crossed)
    /\ Finish(r)
    /\ raised' = {}
    /\ UNCHANGED <<db, row, events>>

\* The database fails; what was committed stays.
Fails(r) ==
    /\ req[r] # Idle
    /\ stale' = (stale \/ req[r].op \in {"refresh", "apply"})
    /\ Finish(r)
    /\ raised' = {}
    /\ UNCHANGED <<db, config, row, events>>

\* The events are gone; lifespan loads the settings.
ForgetAll ==
    /\ ip_store' = [ip \in IPs |-> <<>>]
    /\ flagged' = [ip \in IPs |-> Never] /\ quiet' = flagged'
    /\ config' = IF db THEN row ELSE Defaults
    /\ req' = [r \in Requests |-> Idle]
    /\ heard' = [ip \in IPs |-> [age \in 0..Window - 1 |-> 0]]
    /\ raised' = {} /\ crossed' = {} /\ stale' = FALSE
    /\ UNCHANGED <<db, row>>

BehaviorNext ==
    \/ \E ip \in IPs, score \in Scores : RecordEvent(ip, score)
    \/ Round
    \/ \E r \in Requests :
         \/ \E patch \in Patches : Update(r, patch)
         \/ Select(r) \/ Commit(r) \/ Reread(r) \/ Apply(r) \/ Fails(r)
    \/ ForgetAll

\* The loop's timer fires again and again; nothing else is promised.
BehaviorSpec == BehaviorInit /\ [][BehaviorNext]_behaviorVars /\ WF_behaviorVars(Round)

-----------------------------------------------------------------------------

BehaviorTypeOK ==
    /\ db \in BOOLEAN /\ stale \in BOOLEAN /\ crossed \subseteq Requests
    /\ \A ip \in IPs : /\ ip_store[ip] \in Seq([age : 0..Window, score : Scores])
                       /\ Len(ip_store[ip]) <= IpCap
                       /\ \A type \in Types : flagged[ip][type] \in 0..Horizon \cup {None}
    /\ \A f \in DOMAIN Defaults : config[f] \in Limits[f] /\ row[f] \in Limits[f]
    /\ raised \subseteq IPs \X Types

\* When no PATCH is in progress the loop reads what the row says, unless the
\* last PATCH to touch the copy had met another or had failed after its
\* commit; one that ran alone repairs that (DbBehavioral.update).
SettingsFollow ==
    db /\ ~stale /\ (\A r \in Requests : req[r] = Idle) => config = row

\* Whatever is patched, recorded or forgotten in between, an IP gets no second
\* alert of a type before the cooldown then in force has passed; a restart
\* forgets (_behavioral_loop).
CooldownKept ==
    [][\A alarm \in raised' : Cooled(quiet[alarm[1]][alarm[2]])]_behaviorVars

\* An IP that stays over the threshold is reported again and again, although
\* events are dropped and settings change; thresholds beyond the number of
\* events that are kept are excepted (_behavioral_loop).
HotIpsKeepRaising ==
    \A ip \in IPs :
      <>[](Heard(ip) >= config.repeated_threshold /\ config.repeated_threshold <= IpCap)
        => []<>(<<ip, "RepeatedIP">> \in raised)

\* The same for every threshold that can be set.  Not kept by the code.
AllHotIpsRaise ==
    \A ip \in IPs :
      <>[](Heard(ip) >= config.repeated_threshold) => []<>(<<ip, "RepeatedIP">> \in raised)
=============================================================================
