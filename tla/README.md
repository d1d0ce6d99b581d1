# A verification project for Signal Forge

Signal Forge is a threat-monitoring application: a FastAPI server (`backend/`, one asyncio process,
state in memory and, when there is a database, in tables as well) and an Angular browser application
(`frontend/`). This directory holds TLA+ models of its core, the TLC configurations that check them,
and proofs of some of the checked properties.

Paths below are relative to the repository. "Memory mode" and "database mode" are its two storages
(`USE_DB`); where it matters a model covers both.

## 1. Inventory of the system

| Component | State | Operations | What is hard | What makes it correct |
|---|---|---|---|---|
| User accounts (`users.py`, `user_admin.py`, `routers/users.py`, `db_ops.py`) | `_users`; table `users` | create, change role, reset, delete (soft), own password, login, synchronisation at startup | a change is applied in memory first, then written, then undone if the write fails; other requests run meanwhile; the process may die in between; bcrypt runs in threads | one admin; an answered change ends older sessions for good; memory and table agree at rest |
| Authorization (`authz.py`, `permissions.ts`) | none | the checks | two copies of the rules | the copies agree |
| Sessions (`sessions.py`, `routers/auth.py`, `rate_limit.py`) | tokens in browsers; `_revoked`, table `revoked_sessions`; failure counters | login, logout, purge, reload | logout in memory, then stored; storing may fail; purge at expiry; checks and counting of failures are apart | a logged-out session stays out; others stay in; the lock bounds failures |
| Incidents (`routers/incidents.py`, `repositories.py`, `db_ops.py`, `store.py`) | `incidents_store` (50) or the tables `incidents`, notes, tasks; the id counter | open, patch, note, tasks; rules open them; users vanish; startup clears the table | check, await, write; ids drawn from memory and stored later; eviction | what is written was permitted when it was written; ids clash with nothing; new cases are empty |
| Threat feed (`simulation.py`, `main.py`) | list, status, file cache, table `threat_feed_snapshot` | refresh, retry | a daily quota; each store can fail or be wiped; fallbacks | the status is true; the quota is not spent twice; the feed recovers |
| Detection rules (`routers/rules.py`, `repositories.py`, `store.py`) | `_rules`, table | create, edit, delete; evaluation, match counts in tasks | copy and table, overlapping requests, late tasks | the copy follows the table; deleted rules do not come back; counts do not run back |
| Behavioral detection (`main.py`, `store.py`, `routers/behavioral.py`) | `ip_store` (200 per IP), `behavioral_flagged`, settings row and copy | record, loop, patch settings | overlapping patches; forgetting of events; cooldown | the loop reads the row's settings; no repeat within the cooldown; hot IPs keep being reported |
| Live stream (`main.py`, `threats.service.ts`, `app-layout.ts`) | queue per client (100); socket, ticket, timer, status | connect, reconnect, generate, send, disconnect | close events of old sockets, timers that outlive a logout, ends that notice each other late | one feed, silence after logout, reconnection, no leak |
| Alerts (`store.py`, `routers/alerts.py`, `alerts.ts`) | `alerts_store` (100), counter; the browser's copy, selection, case links | raise, list, acknowledge, dismiss, case | polls cross with answers to writes; eviction while an alert is on a screen | actions reach what was seen; the screen settles on the server's list |
| Threat panel and lookups (`routers/ip.py`, `store.py`, `threat-detail-drawer.component.ts`) | blocklist (1000), caches; the panel's fields and its own cache | block, unblock, geolocation, history, summary, case | answers for the IP before; failures that look like answers; limits | what is shown is about the IP shown; failures are not cached; spinners stop |
| Demo mode (`main.py`, `demo-mode.interceptor.ts`, `demo-simulator.service.ts`) | `enabled`; the overlay of simulated writes | simulate, overlay lists, refuse | whether it is a demo is learned late; lists and simulated answers cross | nothing is simulated on a real server; only what the server would permit; writes stay shown |
| Browser session (`auth.ts`, `auth-guard.ts`, `auth.interceptor.ts`, `login.ts`, `settings.ts`) | `_user` per tab; the cookie all tabs share | login, guard, logout, password, 401 | several requests under way, other tabs, late `delete_cookie` | the user shown is the user the server sees |
| Startup (`main.py`, `users.py`) | the tables; `DEMO_MODE`, `ADMIN_PASSWORD` | load, clear, reseed, synchronise users, refuse to start | several commits with a crash between any two; settings that change between starts; public passwords; what is not stored is lost | one admin is served; sessions of public passwords are dead; a cut-short start blocks no later one |
| Incident page (`incidents.ts`, `incident-detail.component.ts`) | list; drawer with its copies of notes and ticks | poll, open, patch, note, tick, leave | polls, answers and other users' work cross; the drawer may have moved on | only what the server accepts is offered; the page comes to show what the server has |
| Screens of rules, users, hunting, console, map, dashboard; tests, build, deployment | - | - | presentation and single-step reads | not modelled |

How they interact: requests reach the server through `verify_token`, which reads accounts and sessions
(**Accounts**, **Sessions**) in the thread pool before the handler runs; a handler that changes something asks
`authz.py` (**Authz**) and its repository; the deletion of a user reaches into incidents (**Cases**); the stream loop
takes its IPs from the feed (**ThreatFeed**), records each event (**Behavior**), evaluates rules (**Rules**) and puts
the event into the clients' queues (**LiveStream**); rules and the behavioral loop raise alerts (**Alerts**) and rules
open incidents (**Cases**). The browser shows copies of all this (**Client**, **Alerts**, **IncidentsPage**, **IpPanel**, **Demo**).

## 2. Modules

The server is one asyncio process, so code between two awaits is one action. An await that other requests can
observe (a thread-pool dependency, bcrypt, a SELECT, a COMMIT) splits a handler into several; the result of a SELECT
and the code that runs on it up to the next await are one step. `Restart` (`ForgetAll` in `Behavior`, `RestartServer`
in `LiveStream`, `RestartPanelServer` in `IpPanel`) stops the process at any point, losing every request and
everything in memory.

| Module | Models | Variables and the code's state |
|---|---|---|
| `Authz` | every check of `authz.py`, and of `permissions.ts` those about incidents and about changing users (`isLead`, `canWorkOnIncident`, `canAssign`, `canTakeIncident`, `canPatchIncident`, `canManageUsers`, `canCreateUser`, `canDeleteUser`, `canUpdateUser`) | operators only, used by Accounts, Cases, CaseBook, Demo, IncidentsPage |
| `Startup` | the process's life around the accounts: settings, `seed_users`, `sync_users_with_db` commit by commit, stopping anywhere; extends `Accounts`, whose requests run while it serves; the table it first finds is any the code accepts or refuses (`Tables`) | `phase`, `demo` = `DEMO_MODE`, `adminPw` = `ADMIN_PASSWORD`, `todo` = seeded accounts not synchronised yet |
| `Accounts` | accounts and their requests, logins | `mem` = `_users`, `db` = table, `req`/`login` = where a request waits, `tokens` = cookies ever issued, `floor`, `gone`, `met` = history |
| `CaseBook` | what the incident API promises: the abstract specification | `cases`, `active`, `by` (who acts) |
| `Cases` | incidents, both storages, in detail | `cases`, `notes`, `done`, `counter`, `active`/`activeDb` (users in memory, in the table), `req` |
| `ThreatFeed` | the feed and its loop | `list` = `THREAT_IPS`, `state`/`reason` = `FEED_STATUS`, `file`, `snapshot`, `timer` |
| `Rules` | rules, copy, table and `_bump` tasks | `memory` = `_rules`, `table`, `bumps`, `stream` (is the loop alive) |
| `LiveStream` | generator, queues, sockets, `ThreatsService` | `clients`, `queue`, `socket`, `current`, `tickets`, `timers`, `status` |
| `Sessions` | tokens, revocation, the keyed limits of one account (failed logins, wrong current passwords, new cases; a minute's and an hour's window) | `life` = ticks to expiry, `revoked` = `_revoked`, `stored` = table, `logout` = logouts in progress, `checking` = passwords being checked, `hits` = counters |
| `Behavior` | events, loop, settings | `ip_store`, `flagged`, `config` = copy, `row` = table, `req` |
| `Demo` | interceptor and simulator against a server | `enabled`, `seen`, `created`, `patches` = overlay, `answers` = simulated answers, `list` = a server list on its way |
| `IpPanel` | one panel, blocklist, caches, services | `panel` = its fields, `requests`, `caches`, `summaryCache`, `spinning` |
| `Client` | the tabs of a browser and their cookie | `seen` = `_user`, `jar` = cookie, `page`, `calls`, `owner`/`live` = the server's sessions |
| `Alerts` | the list and one browser's copy | `alerts`, `counter`, `shown`, `selected`, `caseOf`, `calls` |
| `IncidentsPage` | the page of incidents with its drawer, the server's answers and other users | `server`, `list` = `incidents`, `selected`, `notes`, `ticks` = `completedTasks`, `calls` |
| `Screens` | the router's choice between the two: extends `IncidentsPage`, instantiates `Alerts` | `open`; the variables of both |

`XMC` instantiates `X` for TLC. The theorems are in `StartupProofs` (Startup and Accounts), `SessionsProofs`,
`CasesProofs`, `RulesProofs`, `DemoProofs`, `LoopsProofs` (ThreatFeed and Behavior, the two loops of `main.py`),
`ScreensProofs` (Screens, IncidentsPage, Alerts and the incident rules of Authz) and `BrowserProofs` (Client, LiveStream
and IpPanel). `Cases` states that it implements `CaseBook`
(`Book == INSTANCE CaseBook WITH ...`, property `BookSpec`): the variables of the abstract module are variables of
the detailed one, and everything else (requests waiting, notes, ids, the split of check and write) is hidden: such a
step is a stutter.  `PROJECT.json` maps each
definition to the lines it stands for.

Definitions commented "Mutant" are deviations a bug could introduce. None is used by a specification; they exist so
that each property can be shown to fail when the code is changed in that way.

## 3. What each run checks

Sizes are distinct states. Every run takes at most three minutes with two workers.

| Run | Instance | States | Properties |
|---|---|---|---|
| `accounts` (`Startup`) | the admin and one demo account, 2 passwords of which one is public, 2 writers, 1 login, keys up to 3; no table, or one of nine older ones (`OlderTables`) | 2.09 M | `ServesOneAdmin`, `KeyNeverOlder`, `AgreeAtRest`, `DeletedForGood`, `PublicPasswordsDead`, `SessionsKnowPassword`, `RefusedForCause` |
| `cases` | admin and analyst, 2 requests; memory mode: 2 IPs, 3 ids, all kinds of status; database mode: 1 IP, 2 ids, PATCH to closed | 1.15 M | `BookSpec`, `IdsNeverClash`, `NewCaseIsEmpty` |
| `cases_work_race` | the same, 1 IP, with tasks | - | `WorkAuthorized`, violated: section 6 |
| `feed` | a day of 4 ticks, retry 2, least retry 1 | 33 k | `StatusHonest`, `LiveWithinTwoDays`, `OneFetchADay`, `FeedResumes` |
| `rules` | 1 rule id, 2 requests, counts to 2, 2 bump tasks | 1.65 M | `NoGhostRules`, `CopyFollows`, `StoredCountNotAhead`, `EditsKeepCounts` |
| `live` | 2 sockets, queues of 1, 2 pending tickets or timers | 55 k | `OneFeed`, `QuietAfterLogout`, `GoneClientsForgotten`, `Reconnects` |
| `sessions` | 2 sessions, 2 password checks and 2 logouts at once, lifetime 3, limits 2 a minute and 3 an hour | 947 k | `LoggedOutStaysOut`, `OthersStaySignedIn`, `FailuresBounded` |
| `behavior` | 1 IP with a deque of 2, 2 overlapping patches | 665 k | `SettingsFollow`, `CooldownKept`, `HotIpsKeepRaising` |
| `demo` | analyst and manager, one incident of the server and one simulated, 3 writes, an alert with or without an IP | 1.82 M | `NeverPretends`, `SimulationPermits`, `ScreensKeepWrites` |
| `ip` | 2 IPs, blocklist and caches of 1, 3 selections, 3 requests | 1.11 M | `BlockShown`, `SpinnersEnd` |
| `client` | one tab, another tab that signs in and out, 2 people, 2 sessions, 2 requests | 657 k | `ShownIsSession`, `KeepsCookie`, `EndedLeads` |
| `screens` | alerts: 3 of them, a list of 1, 1 request besides the poll; incidents: 2, analyst or manager, 2 writes, 1 change of others, 1 poll | 829 k | `ActsOnSeen`, `RefusedOnlyIfStale`, `ScreenSettles`, `PageSettles` |

What each property says is written above its definition, with the code it is about. Every module has a `TypeOK`; a
run's time goes to properties that say more, so no run checks it. Those of Accounts with Startup, Sessions, Cases, Rules,
ThreatFeed, Behavior, LiveStream, Client, IncidentsPage and Alerts are proved.

### Bounds, and why they are enough

* Limits of the code are made small so that they are reached: 100 alerts become 1, 50 incidents become 2 (and 1 for
  the clearing at startup), 200 events per IP become 2, a queue of 100 becomes 1, 1000 blocked IPs and the caches
  become 1, a minute's and an hour's limit become 2 and 3, a day becomes 4 ticks, eight hours become 3. What the code does at a limit does
  not depend on its size.
* Two requests at once: the interleavings of section 4 are between one that checks and one that changes what was
  checked. A third matters only for ids and for `_bump` tasks, where counters grow and their bound is named
  (`MaxKey`, `MaxId`, `MaxCount`, `MaxBumps`, `MaxAlerts`, `MaxSessions`, `MaxWrites`, `MaxOthers`, `MaxSelects`).
  Three keys are a first start, a restart that draws another, and a change in between.
* Two users: the admin, whom special rules protect, and one other; with more, requests about different users
  change different accounts. The proofs of section 5 remove this bound and the two above for every safety property
  of a passing run; what stays bounded is liveness.
* Database mode in `cases` has one IP, one status to set and no tasks to complete: notes, openings, assignments and
  deletions interleave there with restarts; the rest of a PATCH does not depend on the storage. `cases_work_race` has
  the tasks.
* One poll per tab (`Client`): the layout's polls are alike. Two requests besides polls are enough for a second login
  from a login page that was left and entered again while the first is under way: the button is disabled only by a
  login of its own page (`form`), and the first login still signs its user in and goes to the dashboard.
* One request for the list of incidents is on its way at a time (`MaxPolls` = 1 in `screens`; with 2 the run does not end
  within its time): polls cross with answers to writes and others' changes, but not with each other. The theorems are
  for any `MaxPolls`.
* Nine older tables (`Startup`): one active admin beside a deleted one; an admin of another name, with a published
  password or not, beside an `admin` that is missing, demoted or deleted; two active admins; the accounts of a demo.
  The proofs are for any table whatever.
* The router shows one screen at a time, so a behavior of `Screens` follows one of the two; what they share is the
  server, and a changed incident does not change an alert.
* Symmetry is used only where interchangeable values are never named and no liveness is checked (`accounts`, `cases`,
  `rules`, `sessions`).

### Deadlock checking off

`accounts`, `cases`, `client` and `screens` count things that only grow (keys, ids, sessions, alerts, writes); at their bound
they may stop. The others check for deadlock.

### Fairness

* `ThreatFeed`: the refresh, the clock and the waking of the loop. The request to AbuseIPDB has a timeout, and nothing
  else in `_refresh_loop` can hang. Whether the service answers is not fair: `FeedResumes` assumes that it does from
  some time on.
* `LiveStream`: tickets are answered, timers fire, connections are accepted or end, close events come, the loop
  generates, the handler sends. Users logging in and the network failing are not fair.
* `Behavior`: the loop's rounds. `IpPanel`: every request ends, answered or failed, by timeout. `Client`, `Alerts`,
  `IncidentsPage`: polls go out again and again, and requests are answered or fail. A poll of the alerts replaces an unanswered one
  (`switchMap`), which may cancel some of them; that not every one is cancelled is strong fairness of serving and
  hearing a poll. The interval is 15 s, so this only asks that a request is sometimes faster.
  A list of incidents may be lost any number of times, but not always: the same strong fairness. `ScreenSettles` and
  `PageSettles` therefore hold although requests keep failing.
* The other modules check safety only and assume none.

## 4. Properties, by what they are for

* Check, await, write: `BookSpec` (the conditional UPDATE of an incident), `AgreeAtRest`, `ServesOneAdmin`,
  `SessionsKnowPassword`, `FailuresBounded`.
* Failed writes and restarts: `KeyNeverOlder`, `DeletedForGood`, `AgreeAtRest`, `PublicPasswordsDead`,
  `RefusedForCause`, `CopyFollows`, `NoGhostRules`,
  `LoggedOutStaysOut`, `OneFetchADay`, `StatusHonest`, `IdsNeverClash`, `NewCaseIsEmpty`.
* Answers out of order: `ShownIsSession`, `KeepsCookie`, `ActsOnSeen`, `ScreenSettles`, `PageSettles`, `ScreensKeepWrites`,
  `OneFeed`, `StoredCountNotAhead`.
* Something must happen: `FeedResumes`, `Reconnects`, `GoneClientsForgotten`, `HotIpsKeepRaising`, `SpinnersEnd`,
  `EndedLeads`, `ScreenSettles`, `PageSettles`.
* Two copies of one rule: `RefusedOnlyIfStale`, `SimulationPermits`, and the theorems `OfferedPatch` and
  `OfferedIsAllowed`.

Properties with "unless" name a situation for which the code does not keep them. The situation is a history variable
of the module (`met`, `failed`, `overlapped`, `late`, `lost`, `crossed`, `apart`, `doubt`, `base`), so that everything outside
it is still checked. Section 6 says what happens inside it.

## 5. What is proved

TLAPS checks the theorems for every value of the constants. The assumptions are those named in the modules
(`BoundsAssumption`, `NoneAssumption`, `TimesAssumption`, ...): positive limits, ordered intervals, finitely many
logins, and "no value" different from any value. TLC evaluates them in the runs. Every invariant and every action
property of a passing run has a theorem, and so has the refinement. Few of them are inductive; what each needs is said
here. The invariants found by trial (`ClientInv`, `PanelInv`, `AlertInv`) were checked by TLC on the run's instance first.

### Accounts and startup (`StartupProofs`)

For any users, passwords, concurrent requests and settings, with and without a database, and any table an older build
left.

* `Typed` (`TypeOKLife`), `ExactlyOneAdmin` (`ServesOneAdmin`) and `OfferedIsAllowed` (`MirrorsUserRules`: the account
  buttons the browser enables are those the server accepts). The invariant `LifeInv` asks nothing of the table the server
  started with. It says of waiting requests that the row they will write exists (`RowsStay`), and of the
  synchronisation that the admin, once passed, has a row or another account is an active admin (`SyncInv`). While the server is up one
  account is the admin (`OneRuler`): in memory, in the table and in all that a waiting request would store or put back it
  is an active admin (`Chief`), or it was not loaded and no request is an admin's (`Absent`); every other account is
  never an admin in any of these places (`Plain`), or is a row that was loaded as deleted, which no request is about
  (`Buried`: a deleted second admin stays one). Otherwise no request waits (`Quiet`).
* `KeysNeverOlder` (`KeyNeverOlder`), `TableAgrees` (`AgreeAtRest`), `DeletedStayOut` (`DeletedForGood`),
  `PublicPasswordsRetired` (`PublicPasswordsDead`), `SessionsMatchPassword` (`SessionsKnowPassword`) and
  `RefusesForCause` (`RefusedForCause`) share the invariant `KeysInv`. Its parts: every key in tokens, accounts and
  requests has been drawn (`KeysDrawn`); every waiting change draws a key, and sets what its kind sets (`Changes`); and of
  each account none of whose changes met another (`met`), that the row is what the change on its way found and memory
  what it makes of it (`Mirrored`), that both are at least as new as what was answered (`Newest`), that a deleted
  account is deleted in the table (`GoneInTable`), and that a session with the account's key was opened with its
  password (`Knows`). An account with a public password is loaded as deleted or not with that password, also after a
  failed write is undone (`RetiredInv`).
  `ServingInv` adds what holds of the admin only while requests are served outside demo mode, among it that no session
  of the demo admin's password has the admin's key (`Rotated`); `KeysLife` carries the invariant through startup: what
  has been loaded (`LoadedInv`), that an admin's row with another password than the demo admin's has a key no such session has (`PublicInv`) and
  the roles of seeded accounts (`RolesInv`), commit by commit, with a stop after any of them. `Ruling` ties the admin of
  `OneRuler` to the accounts that `PublicPasswordsDead` speaks of.

### Incidents (`CasesProofs`)

For any users, IPs, tasks and requests, in both storages.

* `KeepsTheBook` (`BookSpec`): `Cases` implements `CaseBook`. `NextKeeps` maps every action to a permitted step of
  the book or to a stutter. A request that waits must be known to have been permitted for the assignee it saw
  (`CheckedInv`), so that the conditional UPDATE, which writes only if that assignee is still there, is a step the book
  allows; and a user who is leaving must be out of memory before their cases are released (`LeavingInv`).
* `IdsUnique` (`IdsNeverClash`): `IdsInv` says that ids in use are ones the counter has passed and that two INSERTs on
  their way have different ids. After a restart the counter starts at the largest stored id; that there is one is
  proved with a well-founded minimum (`LargestIs`).
* `NewCasesEmpty` (`NewCaseIsEmpty`), under `Cascade` (the foreign keys delete notes and ticks with their case: Postgres
  does, SQLite as the server opens it does not): no note or tick is stored for an id that is not in use (`EmptyInv`), also by a request
  that checked an incident before it was deleted.
* `Typed`.

### Sessions (`SessionsProofs`)

`Typed`, `LoggedOutForGood` (`LoggedOutStaysOut`), `OthersUndisturbed` (`OthersStaySignedIn`) and `FailuresLimited`
(`FailuresBounded`), for any limits of the windows. The inductive invariant `InForce` says of an acknowledged logout
that it is in memory and, with a database, in the table until the token expires, so that a restart finds it; that one in
progress is in memory already; that without a database none is in progress between steps; and that the table holds
acknowledged logouts only, so that a restart ends nobody else's session. `FailuresBounded` weighs what a window counts
against the checks still in progress, with the cardinality theorems of the library.

### Rules (`RulesProofs`)

`Typed`, `NoGhosts` (`NoGhostRules`), `CopyTrue` (`CopyFollows`), `CountBehind` (`StoredCountNotAhead`) and `CountsKept`
(`EditsKeepCounts`), for any number of rules, requests and `_bump` tasks. The properties speak of rules that no request
is about, so the invariant has to say what holds while one is: two requests are about one rule only if the rule counts
as overlapped (`Alone`); a rule that is being created is its creator's alone, and until the creator appends it, it is in
no copy and no task counts it (`Creating`); a count on its way to the table is not ahead of the copy's (`Counting`); and,
for a request that nothing disturbed and no failure interrupted, what copy and table say of the rule before the row is
written, after, and once the copy has the values too (`Stages`).

### The loops (`LoopsProofs`)

* ThreatFeed: `Typed`, `HonestStatus` (`StatusHonest`), `LiveIsRecent` (`LiveWithinTwoDays`), `QuotaKept`
  (`OneFetchADay`), for every interval and deployment. The invariant adds `Fetching` (a fetch happens only with a key
  and when file and snapshot are stale, so what it falls back on is at least a day old) and `LookedAt` (the age of a live
  list plus what is left of the sleep is less than two days).
* Behavior: `SettingsReadAreStored` (`SettingsFollow`), for any requests, settings and limits. A PATCH that met no other
  is alone, and the row it reread is the row (`AloneInv`), so the copy it then writes is the row's (`CopyInv`).
  `AlarmsAreSpaced` (`CooldownKept`): `quiet`, what the history says of an IP's last alert, is `flagged`, what the code
  remembers of it. `BehaviorTyped`: the deques keep to their limit, and the settings in memory, in the row and in requests to
  theirs; an UPDATE of the columns that differ cannot leave a value that was refused.

### The browser (`BrowserProofs`, `DemoProofs`, `ScreensProofs`)

* Client: `ClientTyped`, `ShownIsServed` (`ShownIsSession`) and `CookieIsKept` (`KeepsCookie`), for any tabs, people,
  sessions and calls. `ClientInv` says what every call on its way may do to who is shown when it arrives (`Good`): the
  answer to a question names the owner of the session it was asked with, that of a login opened a session for its
  user, and a logout was sent with the cookie the browser still has unless it does not count. `SeenInv`: a tab that
  shows somebody, and is neither left behind nor about to ask, shows the owner of the cookie if its session is accepted.
* LiveStream: `FedOnce` (`OneFeed`) and `QuietOnceLeft` (`QuietAfterLogout`), for any queue. Outside `late` one of
  ticket, timer and socket is under way (`OneAtATime`), and of a layout that was left only a close event is still to come,
  which starts no timer (`LeftBehind`). `StreamTyped`: a queue keeps to its limit.
* IpPanel: `BlockIsShown` (`BlockShown`), for any IPs, panels and limits. Outside `doubt` at most one request
  is about the block of the IP shown and its answer will be right; if there is none the panel is right (`BlockInv`).
* Demo: `NothingPretended` (`NeverPretends`), inductive with the types of two Booleans: whether the server is a demo
  never changes, only a demo server's answer enables the simulation, and only an enabled simulation fills the overlay.
  `SimulatedIsPermitted` (`SimulationPermits`). `WritesStayShown` (`ScreensKeepWrites`): the last simulated answer on its
  way for an incident or an alert carries all that the overlay says of it, and where none is on its way the list and the drawer show
  it already (`IncSettled`, `AlertSettled`).
* Incident page: `OfferedIsAccepted` and, for the composition the run checks, `OfferedOnScreens` (`RefusedOnlyIfStale`);
  `Typed`. The invariant adds `SentAccepted`: every request on its way is one that the server would have accepted for
  the incident as the drawer showed it. `OfferedWork`, `OfferedTake` and `OfferedPatch` give that when it is sent: the
  browser's rules about incidents (`permissions.ts`) offer exactly what the server's (`authz.py`) accept, for every user,
  incident and assignee the browser lists.
* Alerts: `ActedOnSeen` (`ActsOnSeen`) and `AlertsTyped`, for any length of the list and any number of alerts. `AlertInv`:
  since the last restart the ids are the places in the order of creation, in the list and in every copy, request and
  answer made since, so an id in an old copy still names the alert it was read with, or none.

### What is only model-checked

Liveness is out of the prover's reach: `FeedResumes`, `GoneClientsForgotten`, `Reconnects`, `HotIpsKeepRaising`,
`SpinnersEnd`, `ScreenSettles`, `PageSettles` and `EndedLeads` are checked by TLC on small instances, and so is
`WorkAuthorized`, which the code violates. The types of Demo and IpPanel are proved as far as the invariants above
need them.

The prover knows nothing of `SelectSeq`, whose definition in the standard library is recursive. Where a proof needs what it returns,
in `Alerts`, the module has `Only`, a recursive function on the length of the list that takes the set of elements to
keep; `OnlyPicks` proves what it returns, by the least length for which it would not (`SetInduction`). The caches of
`IpPanel` keep `SelectSeq`: `BlockShown` does not depend on them.

## 6. Where the code and its documentation part

One disagreement is a run of its own, `cases_work_race`: the repository's README (lines 293-294) says that every
field of a request is checked against the incident's current state, but notes and tasks are written after an await
without looking at the assignee again (`db_ops.py:132`), so an analyst whose incident is reassigned in between still
writes to it. The PATCH of the same incident is conditional (`BookSpec`).

These are definitions of the modules that the code does not keep, or exceptions of checked properties. They were
found while modelling and are kept so that a change of the code can be checked against them.

* `Accounts`: a login that verified the old password before a reset gets a cookie with the new session key
  (`SessionsKnowPassword` names this exception: the token's password is `Late`). A change of the own password is applied although an admin reset the password while bcrypt
  ran (`OwnChangeStillChecked`). When two changes of one account overlap, the undo of one restores values from
  before the other, and a deletion can find no row while the account's INSERT is on its way (`met`).
* `Startup`: a demo account whose password is the public one, also after a reset to it, is not loaded at the next start outside demo
  mode (`users.py:239-242`), yet its row stays, so the account is in no list and its name cannot be given again
  (`Withheld`); until that start it can be signed in to with the published password, and `PublicPasswordsDead` does not speak of it.
  Admins are counted before accounts are withheld: when the only admin is another demo account or a retired one
  that still has its published password, the server serves with no admin (the second case of `ServesOneAdmin`).
  Two active admins in the table make every start refuse until one is corrected in demo mode or by hand. So does an `admin` row
  that is deleted or, outside demo mode, demoted, when no other admin is left: `ADMIN_PASSWORD`, which the message asks
  for, creates the admin only where the row is missing. A demo start that takes the admin role from demo accounts beside
  a missing `admin` row refuses once; the next one creates the admin (`RefusedForCause` lists these).
* `Cases`: with a database an assignment checked before a deletion lands after it (`OpenCasesHaveHolders`), two
  requests can open two cases for one IP, and a startup with more than 50 incidents deletes cases that users
  opened, although the message speaks of auto-generated ones (`OpenedCasesKept`, `main.py:91`).
* `ThreatFeed`: `live` is documented as "fetched within the last day" (README 236); a stored list taken over at
  startup is not looked at again for a day (`simulation.py:205`), so it can be nearly two days old (`LiveWithinDay`).
* `Rules`: a rule deleted before its creation is answered stays in the copy and is evaluated until a restart
  (`CopyAlwaysFollows`). A rule whose conditions are not a list of objects ends the stream loop for everybody.
* `Behavior`: thresholds above 200 are accepted but an IP keeps 200 events (`AllHotIpsRaise`); overlapping patches can
  leave the copy older than the row (`crossed`).
* `LiveStream`: after leaving and entering the layout quickly a stale close event starts a reconnection that never
  ends; a ticket in flight at the logout opens a socket afterwards; a reconnect timer survives it (`late`).
* `Sessions`: a logout that could not be stored is undone by a restart (`lost`); the code's comment accepts this.
* `Client`: another tab's login leaves this tab showing the old user (`apart`); the late answer of a logout deletes
  the cookie of a login that came after it (`crossed`); a poll sent before a password change leads to /login although
  the session is new; after a 401 `_user` stays, so going back opens a screen unchecked.
* `Alerts`: acknowledging from an old list brings a dismissed alert back; after a restart ids repeat, so an old copy
  can act on another alert (`base`).
* `IncidentsPage`: the answer to a PATCH opens the drawer again, or turns it to that incident, although it was closed or
  shows another (`ChangeArrives`); a note's answer is added to whatever incident the drawer shows, and twice if a poll
  brought it already (`NoteArrives`); a tick may be lost by a poll that was overtaken, or by requests that arrive in
  another order; an incident that is gone stays in the drawer (`PollArrives`). `PageSettles` says that all but the last heals.
* `IpPanel`: answers under way when another IP is selected are shown under that one; requests about one IP's block
  that overlap can leave the wrong button (`doubt`); a summary that was not available is remembered as such by the
  browser.
* `Demo`: if the incident list arrives before the answer to `/api/config`, a simulated PATCH answers with part of an object
  (`AlwaysComplete`, `demo-simulator.service.ts:44`); limits (429, full blocklist) are not simulated; the overlay outlives a logout.

## 7. What is not modelled

* The random content of events, alerts and tokens, wording, time formats, charts, templates.
* The rate limits per client address: counters of a library, slowapi. The keyed limits of `rate_limit.py` are in
  `Sessions`.
* Migrations: one-off changes of the schema, run by Alembic.
* A commit whose outcome the server does not learn: a write fails or succeeds.
* Console, hunting, map and dashboard: reads of one step, and a buffer of recent events that only grows and is cut.
  Geolocation prefetch. The screens of users and rules: they load once, after that only answers to their own
  requests change them.
* On the incident page: search, filters, timeline, export. The server there answers a request in one step; what
  happens between its check and its write is in `Cases`.
* In `Demo`, user administration and its refusal. In `Alerts`, the summary figures.
* Roles in `Cases` are constant (changes of role are in `Accounts`, where a request keeps the role it came with).
  Without a database a restart creates the users anew. In `LiveStream` the acceptance of a connection on both
  sides is one step.

## 8. Plan

The order of the work is: the core that every request depends on (Accounts, Authz, Sessions, Startup), the data most
people work on (Cases against CaseBook, Rules), the machinery (ThreatFeed, LiveStream, Behavior, Alerts), the browser
(Client, IncidentsPage, IpPanel, Demo), their proofs. All of these exist. What is left:

1. Proofs about the composition below, and the types of Demo and IpPanel in full, with the limits of the
   caches.
2. Composition of `Client` with `Startup`: what a user sees of a change an admin makes to their account.
3. The screens of users and rules: copies against the server's state.

## 9. Running it

    tlc -workers 2 -config Sessions.cfg SessionsMC
    tlapm SessionsProofs.tla

`PROJECT.json` lists the module and configuration of every run, the mutant of every property, the source lines of
every definition, the hazards with the properties that cover them, and the theorems.
