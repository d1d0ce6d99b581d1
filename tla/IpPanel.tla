------------------------------- MODULE IpPanel -------------------------------
(***************************************************************************)
(* What is known about one IP: the server's blocklist (store.block_ip), the *)
(* lookups at outside services with their bounded caches (routers/ip.py),    *)
(* and the panel that shows it all (threat-detail-drawer.component.ts).      *)
(*                                                                         *)
(* The panel is one component for every IP: selecting another IP empties it *)
(* and sends new requests, those for the IP before are not cancelled.       *)
(* Requests of different kinds never meet, so a behaviour follows some of    *)
(* them only.  Incidents themselves are in Cases.                           *)
(***************************************************************************)
EXTENDS Naturals, FiniteSets, SequencesExt

CONSTANTS IPs,
          MaxBlocked,    \* MAX_BLOCKED_IPS
          MaxCached,     \* MAX_CACHED_IPS
          Slices,        \* sets of kinds of requests, one of which is followed
          MaxSelects,    \* bound: selections of an IP
          MaxRequests,   \* bound: requests under way when the user acts
          Nothing

Lookups == {"history", "summary", "geo"}
Kinds == Lookups \cup {"related", "block", "case"}
Writes == {"blockOn", "blockOff", "open"}

ASSUME PanelAssumption == {MaxBlocked, MaxCached, MaxSelects, MaxRequests} \subseteq Nat \ {0}
ASSUME SlicesAssumption == Slices \subseteq SUBSET Kinds

\* What a field of the panel shows, and the IP it is about.
Shown == [of : IPs, val : {"data", "bare", "yes", "no"}]

ASSUME NothingAssumption == Nothing \notin IPs \cup Shown

VARIABLES blocked,       \* _blocked_ips
          heard,         \* the IPs of ip_store
          keyed,         \* the lookups whose service has a key
          caches,        \* _abuse_cache, _ai_summary_cache, _geo_cache, oldest first
          cases,         \* the IPs with an open case
          followed,      \* the requests this behaviour is about
          ip,            \* the IP the panel is for
          panel,         \* what it shows, with the IP that it is about
          spinning,      \* loading and aiLoading
          summaryCache,
          requests,      \* requests that were not answered yet
          selects,       \* selections so far
          doubt          \* history: the block state shown may be an older one

panelVars == <<blocked, heard, keyed, caches, cases, followed, ip, panel, spinning,
               summaryCache, requests, selects, doubt>>
panelServer == <<blocked, heard, keyed, caches, cases, followed>>
panelBrowser == <<ip, panel, spinning, summaryCache, selects>>

Empty == [k \in Kinds |-> Nothing]
Target(kind) == IF kind \in {"blockOn", "blockOff"} THEN "block"
                ELSE IF kind = "open" THEN "case" ELSE kind

PanelInit ==
    /\ blocked = {} /\ cases = {} /\ heard = {}
    /\ followed \in Slices /\ keyed \in SUBSET (Lookups \cap followed)
    /\ caches = [k \in Lookups |-> <<>>]
    /\ ip = Nothing /\ panel = Empty /\ spinning = {}
    /\ summaryCache = [i \in IPs |-> Nothing]
    /\ requests = {} /\ selects = 0 /\ doubt = FALSE

-----------------------------------------------------------------------------
\* The panel.  A call carries the selection it was made for, 0 once the panel
\* it was made by is gone.

Request(kind, i, n) == [kind |-> kind, ip |-> i, n |-> n, phase |-> "sent", got |-> Nothing]

Ready == Cardinality(requests) < MaxRequests

ToBlock == {c \in requests : Target(c.kind) = "block"}

\* The effect on the ip input.
Select(i) ==
    LET asked == IF summaryCache[i] = Nothing THEN followed ELSE followed \ {"summary"}
    IN  /\ i # ip /\ Ready /\ selects < MaxSelects /\ selects' = selects + 1
        /\ ip' = i
        /\ panel' = [Empty EXCEPT !["summary"] = summaryCache[i]]
        /\ spinning' = {"history", "summary"} \cap asked
        /\ requests' = requests \cup {Request(k, i, selects') : k \in asked}
        /\ doubt' = (ToBlock # {})
        /\ UNCHANGED <<panelServer, summaryCache>>

Close ==
    /\ ip # Nothing /\ ip' = Nothing
    /\ UNCHANGED <<panelServer, panel, spinning, summaryCache, requests, selects, doubt>>

\* Another page: the component goes and unsubscribes; what was sent may still
\* be served.
LeaveWith(rest) ==
    /\ ip' = Nothing /\ panel' = Empty /\ spinning' = {}
    /\ summaryCache' = [i \in IPs |-> Nothing]
    /\ requests' = {[c EXCEPT !.n = 0] : c \in {o \in rest : o.phase \in {"sent", "service"}}}
    /\ UNCHANGED <<selects, doubt>>

Leave == ip # Nothing /\ LeaveWith(requests) /\ UNCHANGED panelServer

IsBlocked == panel["block"] # Nothing /\ panel["block"].val = "yes"

\* A second click before the answer sends the same again.
ToggleBlock ==
    /\ ip # Nothing /\ "block" \in followed /\ Ready
    /\ requests' = requests \cup {Request(IF IsBlocked THEN "blockOff" ELSE "blockOn", ip, selects)}
    /\ doubt' = (doubt \/ ToBlock # {})
    /\ UNCHANGED <<panelServer, panelBrowser>>

CreateCase ==
    /\ ip # Nothing /\ "case" \in followed /\ Ready
    /\ IF panel["case"] # Nothing /\ panel["case"].val # "no" THEN LeaveWith(requests)
       ELSE requests' = requests \cup {Request("open", ip, selects)} /\ UNCHANGED <<panelBrowser, doubt>>
    /\ UNCHANGED panelServer

-----------------------------------------------------------------------------
\* The server.

\* _cache_put
CachePut(cache, i, val) ==
    LET longer == Append(SelectSeq(cache, LAMBDA e : e.ip # i), [ip |-> i, val |-> val])
    IN  IF Len(longer) > MaxCached THEN Tail(longer) ELSE longer

Cached(c) == {e \in ToSet(caches[c.kind]) : e.ip = c.ip}

Becomes(c, phase, got) == requests' = (requests \ {c}) \cup {[c EXCEPT !.phase = phase, !.got = got]}

\* Without an answer of the service: a history as it is, no summary, the
\* built-in location, which is kept only if there is no service to ask.
AnswerBare(c) ==
    /\ Becomes(c, "answered", "bare")
    /\ caches' = IF c.kind = "geo" /\ "geo" \notin keyed
                 THEN [caches EXCEPT !["geo"] = CachePut(@, c.ip, "bare")] ELSE caches

LookUp(c) ==
    /\ c.kind \in Lookups
    /\ IF c.kind = "history" /\ c.ip \notin heard
       THEN Becomes(c, "answered", "bare") /\ UNCHANGED caches
       ELSE IF Cached(c) # {}
       THEN \E e \in Cached(c) : Becomes(c, "answered", e.val) /\ UNCHANGED caches
       ELSE IF c.kind \notin keyed THEN AnswerBare(c)
       ELSE Becomes(c, "service", Nothing) /\ UNCHANGED caches
    /\ UNCHANGED <<blocked, cases>>

\* Mutant: block_ip says yes when the list is full.
BlockIpSilently(c) ==
    /\ Becomes(c, "answered", "yes")
    /\ blocked' = IF Cardinality(blocked) < MaxBlocked THEN blocked \cup {c.ip} ELSE blocked

\* block_ip: 409 when the list is full.
BlockIp(c) ==
    IF c.ip \in blocked \/ Cardinality(blocked) < MaxBlocked
    THEN blocked' = blocked \cup {c.ip} /\ Becomes(c, "answered", "yes")
    ELSE Becomes(c, "failed", Nothing) /\ UNCHANGED blocked

ServeRequest(c) ==
    /\ c.phase = "sent"
    /\ \/ LookUp(c)
       \/ c.kind = "related" /\ Becomes(c, "answered", "data") /\ UNCHANGED <<blocked, caches, cases>>
       \/ c.kind = "block" /\ Becomes(c, "answered", IF c.ip \in blocked THEN "yes" ELSE "no")
          /\ UNCHANGED <<blocked, caches, cases>>
       \/ c.kind = "blockOn" /\ BlockIp(c) /\ UNCHANGED <<caches, cases>>
       \/ c.kind = "blockOff" /\ blocked' = blocked \ {c.ip} /\ Becomes(c, "answered", "no")
          /\ UNCHANGED <<caches, cases>>
       \/ c.kind = "case" /\ Becomes(c, "answered", IF c.ip \in cases THEN "yes" ELSE "no")
          /\ UNCHANGED <<blocked, caches, cases>>
       \/ c.kind = "open" /\ cases' = cases \cup {c.ip} /\ Becomes(c, "answered", "yes")
          /\ UNCHANGED <<blocked, caches>>
    /\ UNCHANGED <<heard, keyed, followed, panelBrowser, doubt>>

\* The service has answered, or failed.
ServiceEnds(c) ==
    /\ c.phase = "service"
    /\ \/ Becomes(c, "answered", "data")
          /\ caches' = [caches EXCEPT ![c.kind] = CachePut(@, c.ip, "data")]
       \/ AnswerBare(c)
    /\ UNCHANGED <<blocked, heard, keyed, cases, followed, panelBrowser, doubt>>

\* A rate limit, an expired session or the network; a lookup may go on.
Lost(c) ==
    /\ c.phase # "failed"
    /\ Becomes(c, "failed", Nothing)
    /\ \/ UNCHANGED caches
       \/ /\ c.phase = "service"
          /\ caches' = [caches EXCEPT ![c.kind] = CachePut(@, c.ip, "data")]
    /\ doubt' = (doubt \/ Target(c.kind) = "block")
    /\ UNCHANGED <<blocked, heard, keyed, cases, followed, panelBrowser>>

Keep(c) ==
    IF c.kind = "summary" /\ c.phase = "answered"
    THEN [summaryCache EXCEPT ![c.ip] = [of |-> c.ip, val |-> c.got]] ELSE summaryCache

\* Mutant: a failed request leaves its spinner.
DoneAnswered(c) == IF c.phase = "answered" THEN {c.kind} ELSE {}

Done(c) == {c.kind}

\* The handlers of the answers; that to a new case leads to another page.
Arrive(c) ==
    /\ c.phase \in {"answered", "failed"}
    /\ IF c.n = 0 THEN requests' = requests \ {c} /\ UNCHANGED <<panelBrowser, doubt>>
       ELSE IF c.kind = "open" /\ c.phase = "answered" THEN LeaveWith(requests \ {c})
       ELSE /\ requests' = requests \ {c}
            /\ panel' = IF c.phase = "failed" THEN panel
                        ELSE [panel EXCEPT ![Target(c.kind)] = [of |-> c.ip, val |-> c.got]]
            /\ spinning' = spinning \ Done(c)
            /\ summaryCache' = Keep(c)
            /\ UNCHANGED <<ip, selects, doubt>>
    /\ UNCHANGED panelServer

\* A rule's action, the console or another browser.
OthersBlock(i) ==
    /\ "block" \in followed
    /\ \/ i \notin blocked /\ Cardinality(blocked) < MaxBlocked /\ blocked' = blocked \cup {i}
       \/ i \in blocked /\ blocked' = blocked \ {i}
    /\ doubt' = TRUE
    /\ UNCHANGED <<heard, keyed, caches, cases, followed, panelBrowser, requests>>

OthersCase(i) ==
    /\ "case" \in followed
    /\ cases' = IF i \in cases THEN cases \ {i} ELSE cases \cup {i}
    /\ UNCHANGED <<blocked, heard, keyed, caches, followed, panelBrowser, requests, doubt>>

Event(i) ==
    /\ "history" \in followed
    /\ heard' = heard \cup {i}
    /\ UNCHANGED <<blocked, keyed, caches, cases, followed, panelBrowser, requests, doubt>>

\* All of this is in memory; what was being served fails.
RestartPanelServer ==
    /\ blocked' = {} /\ heard' = {} /\ caches' = [k \in Lookups |-> <<>>]
    /\ requests' = {IF c.phase = "service" THEN [c EXCEPT !.phase = "failed"] ELSE c : c \in requests}
    /\ doubt' = TRUE
    /\ UNCHANGED <<keyed, cases, followed, panelBrowser>>

Step(c) == ServeRequest(c) \/ ServiceEnds(c) \/ Lost(c) \/ Arrive(c)

PanelNext ==
    \/ \E i \in IPs : Select(i) \/ OthersBlock(i) \/ OthersCase(i) \/ Event(i)
    \/ Close \/ Leave \/ ToggleBlock \/ CreateCase
    \/ \E c \in requests : ServeRequest(c) \/ ServiceEnds(c) \/ Lost(c) \/ Arrive(c)
    \/ RestartPanelServer

\* Every request ends: the services are called with timeouts, and the browser
\* gives up a request that is not answered.
Ends(kind, n) == \E c \in {o \in requests : o.kind = kind /\ o.n = n} : Step(c)

PanelSpec == PanelInit /\ [][PanelNext]_panelVars
             /\ \A kind \in {"history", "summary"}, n \in 1..MaxSelects : WF_panelVars(Ends(kind, n))

-----------------------------------------------------------------------------

PanelTypeOK ==
    /\ blocked \subseteq IPs /\ Cardinality(blocked) <= MaxBlocked
    /\ heard \subseteq IPs /\ cases \subseteq IPs /\ keyed \subseteq Lookups
    /\ \A k \in Lookups : /\ Len(caches[k]) <= MaxCached
                          /\ Cardinality({e.ip : e \in ToSet(caches[k])}) = Len(caches[k])
    /\ ip \in IPs \cup {Nothing} /\ selects \in 0..MaxSelects
    /\ panel \in [Kinds -> Shown \cup {Nothing}]
    /\ \A c \in requests : /\ c.kind \in Kinds \cup Writes /\ c.ip \in IPs /\ c.n \in 0..MaxSelects
                        /\ c.phase \in {"sent", "service", "answered", "failed"}

\* When its requests are answered the panel offers to block exactly the IPs
\* that are not blocked, a full list included, unless its requests overlapped
\* or were lost or somebody else changed the list (toggleBlock, block_ip).
BlockShown ==
    ip # Nothing /\ ~doubt /\ ToBlock = {} => (IsBlocked <=> ip \in blocked)

\* No spinner turns for ever, whatever fails (loading, aiLoading).
SpinnersEnd == \A k \in {"history", "summary"} : k \in spinning ~> k \notin spinning
=============================================================================
