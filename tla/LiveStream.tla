----------------------------- MODULE LiveStream -----------------------------
(***************************************************************************)
(* The live stream from end to end: the generator and its clients' queues  *)
(* on the server (main.py), and the browser's ThreatsService, which gets a *)
(* ticket, opens a socket, and opens another when that one closes.         *)
(*                                                                         *)
(* A socket has a browser end and a server end that notice its end at      *)
(* different times: the browser in a close event, the server only when it  *)
(* next sends.  Events are not told apart.                                 *)
(***************************************************************************)
EXTENDS Naturals, FiniteSets

CONSTANTS Sockets,      \* bound: sockets not yet forgotten by both ends
          QueueSize,    \* CLIENT_QUEUE_SIZE
          MaxPending,   \* bound: tickets, and timers, waited for at once
          NoSocket

ASSUME StreamAssumption == QueueSize \in Nat \ {0} /\ MaxPending \in Nat \ {0}

VARIABLES mounted,      \* is the layout on screen (a user is logged in)
          destroyed, status,
          current,      \* this.socket
          socket,       \* the browser end of each socket
          tickets,      \* getWsTicket requests in flight
          timers,       \* reconnect timers
          polling,      \* does statsSub (and alertSub) poll
          leaked,       \* earlier subscriptions that still poll
          clients,      \* _clients, the server ends
          queue,        \* number of events queued for each
          feed,         \* does the threat feed have a list
          late          \* history: was the layout left or entered while a
                        \* ticket, a timer or a close event was on its way

browser == <<mounted, destroyed, status, current, socket, tickets, timers, polling, leaked, late>>
streamServer == <<clients, queue, feed>>
streamVars == <<browser, streamServer>>

Free == {s \in Sockets : socket[s] = "none" /\ s \notin clients}
Alive == {s \in Sockets : socket[s] \in {"connecting", "open"}}
Settled == tickets = 0 /\ timers = 0 /\ \A s \in Sockets : socket[s] # "closing"

StreamInit ==
    /\ mounted = FALSE /\ destroyed = FALSE /\ status = "disconnected"
    /\ current = NoSocket /\ socket = [s \in Sockets |-> "none"]
    /\ tickets = 0 /\ timers = 0 /\ late = FALSE
    /\ polling = FALSE /\ leaked = 0
    /\ clients = {} /\ queue = [s \in Sockets |-> 0] /\ feed \in BOOLEAN

-----------------------------------------------------------------------------
\* The browser.

\* close(): the close event comes later, if the socket was still alive.
CloseCurrent ==
    socket' = IF current \in Alive THEN [socket EXCEPT ![current] = "closing"] ELSE socket

\* connect(): the subscriptions end, and a ticket is asked for.
Connect ==
    /\ tickets < MaxPending
    /\ CloseCurrent /\ polling' = FALSE
    /\ destroyed' = FALSE /\ status' = "reconnecting"
    /\ tickets' = tickets + 1
    /\ UNCHANGED <<current, leaked>>

\* The layout appears, after a login.
Mount ==
    /\ ~mounted
    /\ mounted' = TRUE
    /\ Connect
    /\ late' = (late \/ ~Settled)
    /\ UNCHANGED <<timers, streamServer>>

\* Mutant: disconnect() keeps the polling.
DisconnectPolling ==
    /\ mounted
    /\ mounted' = FALSE /\ destroyed' = TRUE /\ status' = "disconnected"
    /\ CloseCurrent
    /\ late' = (late \/ ~Settled)
    /\ UNCHANGED <<current, tickets, timers, polling, leaked, streamServer>>

\* It goes, at a logout: disconnect().
Disconnect ==
    /\ mounted
    /\ mounted' = FALSE /\ destroyed' = TRUE /\ status' = "disconnected"
    /\ CloseCurrent /\ polling' = FALSE
    /\ late' = (late \/ ~Settled)
    /\ UNCHANGED <<current, tickets, timers, leaked, streamServer>>

\* openSocket(): whatever the service held before is overwritten.
OpenSocket(s) ==
    /\ tickets > 0 /\ s \in Free
    /\ tickets' = tickets - 1
    /\ socket' = [socket EXCEPT ![s] = "connecting"] /\ current' = s
    /\ polling' = TRUE
    /\ leaked' = IF polling /\ leaked < MaxPending THEN leaked + 1 ELSE leaked
    /\ UNCHANGED <<mounted, destroyed, status, timers, late, streamServer>>

\* No ticket: there is no retry.
TicketFails ==
    /\ tickets > 0
    /\ tickets' = tickets - 1 /\ status' = "disconnected"
    /\ UNCHANGED <<mounted, destroyed, current, socket, timers, polling, leaked, late, streamServer>>

\* threats_ws accepts the ticket, and onopen.
Opened(s) ==
    /\ socket[s] = "connecting"
    /\ socket' = [socket EXCEPT ![s] = "open"] /\ status' = "connected"
    /\ clients' = clients \cup {s} /\ queue' = [queue EXCEPT ![s] = 0]
    /\ UNCHANGED <<mounted, destroyed, current, tickets, timers, polling, leaked, late, feed>>

\* The network or the server ends the connection, or the ticket is refused.
Dropped(s) ==
    /\ s \in Alive
    /\ socket' = [socket EXCEPT ![s] = "closing"]
    /\ UNCHANGED <<mounted, destroyed, status, current, tickets, timers, polling, leaked, late, streamServer>>

\* Mutant: only a socket that was connected is replaced.
ClosedOnce(s) ==
    /\ socket[s] = "closing" /\ timers < MaxPending
    /\ socket' = [socket EXCEPT ![s] = "none"] /\ status' = "reconnecting"
    /\ timers' = IF destroyed \/ status # "connected" THEN timers ELSE timers + 1
    /\ UNCHANGED <<mounted, destroyed, current, tickets, polling, leaked, late, streamServer>>

\* Mutant: onerror starts a timer as well.
ClosedTwice(s) ==
    /\ socket[s] = "closing"
    /\ destroyed \/ timers + 1 < MaxPending
    /\ socket' = [socket EXCEPT ![s] = "none"] /\ status' = "reconnecting"
    /\ timers' = IF destroyed THEN timers ELSE timers + 2
    /\ UNCHANGED <<mounted, destroyed, current, tickets, polling, leaked, late, streamServer>>

\* onclose, of whichever socket.
Closed(s) ==
    /\ socket[s] = "closing"
    /\ destroyed \/ timers < MaxPending
    /\ socket' = [socket EXCEPT ![s] = "none"] /\ status' = "reconnecting"
    /\ timers' = IF destroyed THEN timers ELSE timers + 1
    /\ UNCHANGED <<mounted, destroyed, current, tickets, polling, leaked, late, streamServer>>

\* reconnectDelay has passed; nothing cancels the timer.
Reconnect ==
    /\ timers > 0
    /\ timers' = timers - 1
    /\ Connect
    /\ UNCHANGED <<mounted, late, streamServer>>

-----------------------------------------------------------------------------
\* The server.

\* _stream_loop: one event for all, dropped by a client whose queue is full.
Generate ==
    /\ feed /\ clients # {}
    /\ queue' = [s \in Sockets |-> IF s \in clients /\ queue[s] < QueueSize
                                   THEN queue[s] + 1 ELSE queue[s]]
    /\ UNCHANGED <<browser, clients, feed>>

\* Mutant: the handler does not leave when the send fails.
SendOn(s) ==
    /\ s \in clients /\ queue[s] > 0
    /\ queue' = [queue EXCEPT ![s] = @ - 1]
    /\ UNCHANGED <<browser, clients, feed>>

\* threats_ws: the next queued event reaches the browser, or the send fails
\* and the handler leaves.
SendEvent(s) ==
    /\ s \in clients /\ queue[s] > 0
    /\ IF socket[s] = "open"
       THEN queue' = [queue EXCEPT ![s] = @ - 1] /\ UNCHANGED clients
       ELSE queue' = [queue EXCEPT ![s] = 0] /\ clients' = clients \ {s}
    /\ UNCHANGED <<browser, feed>>

FeedChanges ==
    /\ feed' = ~feed
    /\ UNCHANGED <<browser, clients, queue>>

\* The server stops and starts again; every connection ends.
RestartServer ==
    /\ clients' = {} /\ queue' = [s \in Sockets |-> 0]
    /\ socket' = [s \in Sockets |-> IF s \in Alive THEN "closing" ELSE socket[s]]
    /\ UNCHANGED <<mounted, destroyed, status, current, tickets, timers, polling, leaked, late, feed>>

StreamNext ==
    \/ Mount \/ Disconnect \/ TicketFails \/ Reconnect \/ Generate \/ FeedChanges \/ RestartServer
    \/ \E s \in Sockets : OpenSocket(s) \/ Opened(s) \/ Dropped(s) \/ Closed(s) \/ SendEvent(s)

\* Requests are answered, timers fire, the loops run.  Nothing says that users
\* log in, or that connections drop.
Fairness ==
    /\ WF_streamVars(TicketFails \/ \E s \in Sockets : OpenSocket(s))
    /\ WF_streamVars(Reconnect) /\ WF_streamVars(Generate)
    /\ \A s \in Sockets : /\ WF_streamVars(Opened(s) \/ Dropped(s))
                           /\ WF_streamVars(Closed(s)) /\ WF_streamVars(SendEvent(s))

StreamSpec == StreamInit /\ [][StreamNext]_streamVars /\ Fairness

-----------------------------------------------------------------------------

StreamTypeOK ==
    /\ {mounted, destroyed, polling, feed, late} \subseteq BOOLEAN
    /\ status \in {"connected", "reconnecting", "disconnected"}
    /\ current \in Sockets \cup {NoSocket}
    /\ socket \in [Sockets -> {"none", "connecting", "open", "closing"}]
    /\ {tickets, timers, leaked} \subseteq 0..MaxPending
    /\ clients \subseteq Sockets
    /\ queue \in [Sockets -> 0..QueueSize]

\* However often the connection drops, is refused or is replaced, the browser
\* is never fed by two sockets, polls once, and says it is connected only with
\* a socket that has not yet reported its end, unless the layout was left or
\* entered while an earlier connection was being set up or torn down
\* (ThreatsService.connect).
OneFeed ==
    ~late => /\ Cardinality(Alive) + tickets + timers <= 1
             /\ leaked = 0
             /\ status = "connected" => socket[current] \in {"open", "closing"}

\* With the same exception, nothing of the live stream goes on, or comes back,
\* once the user has left (ThreatsService.disconnect).
QuietAfterLogout ==
    ~late /\ ~mounted => Alive = {} /\ ~polling /\ tickets = 0 /\ timers = 0

\* A browser that is gone is forgotten by the server as long as the feed has
\* something to send; otherwise its handler waits (threats_ws).
GoneClientsForgotten ==
    \A s \in Sockets :
        <>[]feed => (s \in clients /\ socket[s] # "open" ~> s \notin clients)

\* If from some time on connections no longer drop, a user who stays is
\* connected for good, unless they are shown as disconnected (ThreatsService:
\* onclose tries again, a failed ticket request does not) or late.
Reconnects ==
    /\ <>[](mounted /\ ~late /\ status # "disconnected")
    /\ <>[][~RestartServer /\ \A s \in Sockets : ~Dropped(s)]_streamVars
    => <>[](status = "connected")
=============================================================================
