----------------------------- MODULE ThreatFeed -----------------------------
(***************************************************************************)
(* The threat feed (simulation.py): the list of IPs the live stream is     *)
(* built from, where it is stored, and the loop that refreshes it          *)
(* (main.py).                                                              *)
(*                                                                         *)
(* Time is counted in ticks.  A list is its age in ticks since AbuseIPDB   *)
(* served it; its storage in the file cache and in the database snapshot   *)
(* ages with it.  A refresh takes less than a tick.                        *)
(***************************************************************************)
EXTENDS Naturals

CONSTANTS Refresh,      \* REFRESH_SECONDS, a day, in ticks
          Retry,        \* RETRY_SECONDS, an hour
          MinRetry,     \* MIN_RETRY_SECONDS
          Sample,       \* the bundled sample list
          NoList        \* no list at all

ASSUME TimesAssumption ==
    /\ Refresh \in Nat /\ Retry \in Nat /\ MinRetry \in Nat
    /\ 0 < MinRetry /\ MinRetry <= Retry /\ Retry <= Refresh

\* Bound: older lists are all alike.
OldAge == 2 * Refresh + 1

Ages == 0..OldAge
Stored == Ages \cup {NoList}
List == Stored \cup {Sample}

ASSUME ListAssumption == NoList # Sample /\ NoList \notin Ages /\ Sample \notin Ages

VARIABLES deploy,       \* how it is deployed: is there an ABUSEIPDB_API_KEY,
                        \* a database, a bundled sample it may use (DEMO_MODE)
          file,         \* the cache file
          snapshot,     \* the threat_feed_snapshot row
          list,         \* THREAT_IPS
          state,        \* FEED_STATUS
          reason,
          resetsIn,     \* _quota_resets_in, 0 for None
          timer,        \* ticks until _refresh_loop wakes up
          pc,           \* where refresh_threat_ips is
          stored,       \* the snapshot it has read
          up,           \* AbuseIPDB answers with a list
          served        \* history: age of the last list AbuseIPDB served

store == <<file, snapshot>>
status == <<list, state, reason>>
world == <<deploy, up>>
vars == <<world, store, status, resetsIn, timer, pc, stored, served>>

Older(age) == IF age \in Ages /\ age < OldAge THEN age + 1 ELSE age

\* Mutant: a list is only trusted for the retry interval.
FreshForAnHour(age) == age \in Ages /\ age < Retry
\* Mutant: a list no longer fresh still goes live.
FreshTwoDays(age) == age \in Ages /\ age < 2 * Refresh

Fresh(age) == age \in Ages /\ age < Refresh

\* The process starts with what an earlier one stored.
Init ==
    /\ deploy \in [key : BOOLEAN, db : BOOLEAN, sample : BOOLEAN]
    /\ file \in {NoList, OldAge}
    /\ snapshot \in IF deploy.db THEN {NoList, OldAge} ELSE {NoList}
    /\ list = NoList /\ state = "unavailable" /\ reason = "none"
    /\ resetsIn = 0 /\ timer = 0 /\ pc = "load" /\ stored = NoList
    /\ up \in BOOLEAN
    /\ served = NoList

-----------------------------------------------------------------------------

\* next_refresh_in, when refresh_threat_ips has returned.
Wait(s, why, reset) ==
    IF s = "live" \/ why = "no_key" THEN Refresh
    ELSE IF why = "quota" /\ reset # 0 THEN reset
    ELSE Retry

Sleep(reset) ==
    /\ pc' = "sleep"
    /\ timer' = Wait(state', reason', reset)
    /\ resetsIn' = reset
    /\ stored' = NoList

GoLive(age) ==
    /\ list' = age /\ state' = "live" /\ reason' = "none"
    /\ Sleep(0)

\* _load_cache() or the stored snapshot.
Newest(read) == IF file # NoList THEN file ELSE read

\* Mutant: with nothing to stream the old list stays.
FallbackKeeping(read, why, reset) ==
    /\ reason' = why
    /\ \/ Newest(read) # NoList /\ list' = Newest(read) /\ state' = "cached"
       \/ Newest(read) = NoList /\ deploy.sample /\ list' = Sample /\ state' = "sample"
       \/ Newest(read) = NoList /\ ~deploy.sample /\ state' = "unavailable" /\ UNCHANGED list
    /\ Sleep(reset)

\* _use_fallback: the file, else the snapshot, else the sample, else nothing.
Fallback(read, why, reset) ==
    /\ reason' = why
    /\ \/ Newest(read) # NoList /\ list' = Newest(read) /\ state' = "cached"
       \/ Newest(read) = NoList /\ deploy.sample /\ list' = Sample /\ state' = "sample"
       \/ Newest(read) = NoList /\ ~deploy.sample /\ list' = NoList /\ state' = "unavailable"
    /\ Sleep(reset)

\* The start of a refresh; a snapshot that cannot be read counts as none
\* (_load_snapshot).
Load ==
    /\ pc = "load"
    /\ \E read \in {snapshot, NoList} :
         \/ ~deploy.key /\ Fallback(read, "no_key", 0)
         \/ deploy.key /\ Fresh(file) /\ GoLive(file)
         \/ deploy.key /\ ~Fresh(file) /\ Fresh(read) /\ GoLive(read)
         \/ /\ deploy.key /\ ~Fresh(file) /\ ~Fresh(read)
            /\ pc' = "fetch" /\ stored' = read
            /\ UNCHANGED <<status, resetsIn, timer>>
    /\ UNCHANGED <<world, store, served>>

\* AbuseIPDB serves a list.  Saving the file may fail before or after it was
\* emptied (_save_cache); the status is still the old one while the snapshot is
\* being written.
FetchServed ==
    /\ pc = "fetch" /\ up
    /\ list' = 0 /\ served' = 0
    /\ file' \in {0, file, NoList}
    /\ pc' = "save"
    /\ UNCHANGED <<world, snapshot, state, reason, resetsIn, timer, stored>>

\* The snapshot may fail to be saved; the feed is live all the same.
SaveSnapshot ==
    /\ pc = "save"
    /\ snapshot' \in IF deploy.db THEN {0, snapshot} ELSE {snapshot}
    /\ GoLive(list)
    /\ UNCHANGED <<world, file, served>>

\* _retry_after: what the header says, within bounds.
RetryAfter(ticks) ==
    IF ticks < MinRetry THEN MinRetry ELSE IF ticks > Refresh THEN Refresh ELSE ticks

\* An empty list, another error, or a 429 with or without a Retry-After.
FetchFails ==
    /\ pc = "fetch" /\ ~up
    /\ \/ Fallback(stored, "error", 0)
       \/ Fallback(stored, "quota", 0)
       \/ \E ticks \in 0..(Refresh + 1) : Fallback(stored, "quota", RetryAfter(ticks))
    /\ UNCHANGED <<world, store, served>>

\* A tick passes while the loop sleeps.
Tick ==
    /\ pc = "sleep" /\ timer > 0
    /\ timer' = timer - 1
    /\ file' = Older(file) /\ snapshot' = Older(snapshot)
    /\ list' = Older(list) /\ served' = Older(served)
    /\ UNCHANGED <<world, state, reason, resetsIn, pc, stored>>

\* Mutant: the loop goes on only while there is something to stream.
WakeWithList ==
    /\ pc = "sleep" /\ timer = 0 /\ list # NoList
    /\ pc' = "load" /\ resetsIn' = 0
    /\ UNCHANGED <<world, store, status, timer, stored, served>>

Wake ==
    /\ pc = "sleep" /\ timer = 0
    /\ pc' = "load" /\ resetsIn' = 0
    /\ UNCHANGED <<world, store, status, timer, stored, served>>

\* AbuseIPDB goes down, runs out of quota, or recovers.
ServiceChanges ==
    /\ up' = ~up
    /\ UNCHANGED <<deploy, store, status, resetsIn, timer, pc, stored, served>>

\* The process restarts; its host may have wiped the disk.
Restart ==
    /\ list' = NoList /\ state' = "unavailable" /\ reason' = "none"
    /\ pc' = "load" /\ timer' = 0 /\ resetsIn' = 0 /\ stored' = NoList
    /\ file' \in {file, NoList}
    /\ UNCHANGED <<world, snapshot, served>>

Refreshing == Load \/ FetchServed \/ SaveSnapshot \/ FetchFails

Next == Refreshing \/ Tick \/ Wake \/ ServiceChanges \/ Restart

\* The event loop runs the refresh and wakes it up when its sleep is over; a
\* request to AbuseIPDB has a timeout.  The service may stay down.
Fairness == WF_vars(Refreshing) /\ WF_vars(Tick) /\ WF_vars(Wake)

Spec == Init /\ [][Next]_vars /\ Fairness

-----------------------------------------------------------------------------

TypeOK ==
    /\ deploy \in [key : BOOLEAN, db : BOOLEAN, sample : BOOLEAN]
    /\ {file, snapshot, stored, served} \subseteq Stored
    /\ list \in List
    /\ state \in {"live", "cached", "sample", "unavailable"}
    /\ reason \in {"none", "no_key", "quota", "error"}
    /\ resetsIn \in 0..Refresh /\ timer \in 0..Refresh
    /\ pc \in {"load", "fetch", "save", "sleep"}
    /\ up \in BOOLEAN

\* What the feed's status says of the list it streams is true, except while a
\* new list is being saved: it names the sample exactly when the sample is
\* streamed, and says it is unavailable exactly when nothing is; with a key a
\* list it calls cached is at least a day old, and the reason it gives is the
\* one that kept it from being live (FEED_STATUS, simulation.py).
StatusHonest ==
    /\ pc # "save" => /\ state = "unavailable" <=> list = NoList
                      /\ state = "sample" <=> list = Sample
    /\ state = "sample" => deploy.sample
    /\ pc = "sleep" /\ deploy.key /\ state = "cached" => list >= Refresh
    /\ pc = "sleep" => (reason = "none" <=> state = "live")
    /\ reason = "no_key" => ~deploy.key

\* A list shown as live is never two days old, whatever fails: it was less
\* than a day old when the loop last looked, and the loop looks again within a
\* day (refresh_threat_ips, next_refresh_in).
LiveWithinTwoDays == state = "live" => list \in 0..(2 * Refresh - 1)

\* A second list is taken from AbuseIPDB within a day of the first only when
\* neither the file nor the snapshot kept the first, across restarts that wipe
\* the disk (simulation.py: each call is one of a few a day).
OneFetchADay ==
    [][FetchServed => served = NoList \/ served >= Refresh \/ served \notin {file, stored}]_vars

\* With a key, once AbuseIPDB answers for good and the process stays up, the
\* feed becomes live and stays live (the retry loop of main.py).
FeedResumes ==
    (<>[](up /\ deploy.key) /\ <>[][~Restart]_vars) => <>[](state = "live")

\* The README's reading of "live": a list fetched within the last day.  Not kept
\* by the code: a stored list taken over is looked at again only a day later.
LiveWithinDay == state = "live" /\ list \in Ages => list <= Refresh
=============================================================================
