---- MODULE LiveStream ----
(***************************************************************************)
(* LiveStream: the SDK's event client and the gateway's WebSocketBroadcaster *)
(* over connections that fail, go silent or close late. A client has one    *)
(* connection it calls its own; those it dropped are still closing.         *)
(***************************************************************************)
EXTENDS Naturals, Sequences, FiniteSets

CONSTANTS
    Account,
    Asked,        \* the sets of accounts the application subscribes to and unsubscribes from
    Socket,       \* the connections there may be at once
    NoSocket,
    AutoReconnect,
    MaxFrames,    \* bound: frames of the client on their way over a connection
    MaxFaults     \* bound: how often a connection fails or goes silent

VARIABLES
    client,   \* ws, reconnectTimer, watchdogTimer, subscriptions, supportsPing; asked, behind: history
    socket,   \* per connection: its state at the client, its URL's accounts, whether it is dead
    up,       \* per connection: the frames on their way to the server
    server,   \* the server's entry for the connection: accountFilter and isAlive
    faults    \* how many faults there may be still

liveVars == <<client, socket, up, server, faults>>

ASSUME LiveAssumption ==
    /\ NoSocket \notin Socket /\ Asked \subseteq SUBSET Account /\ AutoReconnect \in BOOLEAN
    /\ MaxFrames \in Nat /\ MaxFaults \in Nat

\* silent: nothing gets through any more, and neither end is told.
Unused == [state |-> "none", accounts |-> {}, silent |-> FALSE]

\* filter {} is null: every account.
Absent == [in |-> FALSE, filter |-> {}, alive |-> FALSE]

\* pings: the client runs in Node, which shows it the pings of the server; a browser does not.
\* asked: what the last connect(), disconnect() or refusal leaves to be wished for. behind: an event
\* the client listens for did not get to it over the connection it has.
LiveInit ==
    /\ client \in [ws : {NoSocket}, timer : {FALSE}, watchdog : {FALSE}, pings : BOOLEAN,
                   subscriptions : {{}, Account}, asked : {"apart"}, behind : {FALSE}]
    /\ socket = [s \in Socket |-> Unused] /\ server = [s \in Socket |-> Absent]
    /\ up = [s \in Socket |-> <<>>]
    /\ faults = MaxFaults

IsConnected == client.ws # NoSocket /\ socket[client.ws].state = "open"

---------------------------------------------------------------------------
\* The client

\* buildWsUrl(): the accounts a new connection asks for.
UrlAccounts == client.subscriptions

\* connect(), of the application or of the timer; the URL asks for the subscriptions again.
Connect(timer) ==
    IF client.ws # NoSocket
      THEN /\ client' = [client EXCEPT !.timer = timer]
           /\ UNCHANGED <<socket, up, server, faults>>
      ELSE \E s \in Socket :
           /\ socket[s].state = "none" /\ ~server[s].in
           /\ client' = [client EXCEPT !.ws = s, !.timer = timer, !.watchdog = client.pings,
                                          !.asked = "connected"]
           /\ socket' = [socket EXCEPT ![s] = [Unused EXCEPT !.state = "connecting",
                                                            !.accounts = UrlAccounts]]
           /\ UNCHANGED <<up, server, faults>>

CallConnect == Connect(client.timer)

TimerFires == client.timer /\ Connect(FALSE)

\* disconnect()
CallDisconnect ==
    /\ client' = [client EXCEPT !.ws = NoSocket, !.timer = FALSE, !.watchdog = FALSE,
                               !.asked = "apart", !.behind = FALSE]
    /\ socket' = IF client.ws = NoSocket THEN socket
                 ELSE [socket EXCEPT ![client.ws].state = "closing"]
    /\ UNCHANGED <<up, server, faults>>

\* subscribe(), unsubscribe(): they throw unless the connection is open.
SendAction(action, accounts, subscriptions) ==
    /\ IsConnected /\ Len(up[client.ws]) < MaxFrames
    /\ up' = [up EXCEPT ![client.ws] = Append(@, [action |-> action, accounts |-> accounts])]
    /\ client' = [client EXCEPT !.subscriptions = subscriptions]
    /\ UNCHANGED <<socket, server, faults>>

CallSubscribe(accounts) == SendAction("subscribe", accounts, accounts)

\* (slip) only the server takes accounts out of the filter.
CallUnsubscribe_ServerOnly(accounts) == SendAction("unsubscribe", accounts, client.subscriptions)

CallUnsubscribe(accounts) == SendAction("unsubscribe", accounts, client.subscriptions \ accounts)

\* The watchdog: any frame or ping of the server arms it again. In a browser it is never armed.
WatchdogFires ==
    /\ client.watchdog /\ client.ws # NoSocket /\ socket[client.ws].silent
    /\ client' = [client EXCEPT !.watchdog = FALSE]
    /\ socket' = [socket EXCEPT ![client.ws].state = "closing"]
    /\ UNCHANGED <<up, server, faults>>

\* (slip) whatever closes is taken for the connection the client has.
Closed_Any(s, refused) ==
    [client EXCEPT !.ws = NoSocket, !.watchdog = FALSE, !.behind = FALSE,
                   !.timer = @ \/ (AutoReconnect /\ ~refused),
                   !.asked = IF refused THEN "refused" ELSE @]

\* (slip) a connection that was being made and failed is not tried again.
Closed_OnlyOpen(s, refused) ==
    IF s # client.ws THEN client
    ELSE [client EXCEPT !.ws = NoSocket, !.watchdog = FALSE, !.behind = FALSE,
                        !.timer = @ \/ (AutoReconnect /\ ~refused /\ server[s].in),
                        !.asked = IF refused THEN "refused" ELSE @]

\* onClose(). The connection the client has was never closed on purpose: disconnect() lets go
\* of it first. The application is told, and has to catch up.
Closed(s, refused) ==
    IF s # client.ws THEN client
    ELSE [client EXCEPT !.ws = NoSocket, !.watchdog = FALSE, !.behind = FALSE,
                        !.timer = @ \/ (AutoReconnect /\ ~refused),
                        !.asked = IF refused THEN "refused" ELSE @]

\* Nothing is left of a connection at the client.
Gone(s) ==
    /\ socket' = [socket EXCEPT ![s] = [Unused EXCEPT !.silent = socket[s].silent]]
    /\ up' = [up EXCEPT ![s] = <<>>]

\* The client hears that a connection is closed: because it closed it, or the server did.
Closes(s) ==
    /\ \/ socket[s].state = "closing"
       \/ socket[s].state = "open" /\ ~socket[s].silent /\ ~server[s].in
    /\ client' = Closed(s, FALSE)
    /\ Gone(s)
    /\ UNCHANGED <<server, faults>>

---------------------------------------------------------------------------
\* The server

\* addClient()
Accepts(s) ==
    /\ socket[s].state = "connecting" /\ ~socket[s].silent
    /\ socket' = [socket EXCEPT ![s].state = "open", ![s].accounts = {}]
    /\ server' = [server EXCEPT ![s] = [in |-> TRUE, filter |-> socket[s].accounts, alive |-> TRUE]]
    /\ UNCHANGED <<client, up, faults>>

\* The API key is not, or not any more, the gateway's: 4401.
Refuses(s) ==
    /\ socket[s].state = "connecting" /\ ~socket[s].silent
    /\ client' = Closed(s, TRUE)
    /\ Gone(s)
    /\ UNCHANGED <<server, faults>>

\* What a frame of the client makes of its filter.
Filtered(filter, frame) ==
    IF frame.action = "subscribe" THEN frame.accounts ELSE filter \ frame.accounts

HearsClient(s) ==
    /\ server[s].in /\ up[s] # <<>> /\ ~socket[s].silent
    /\ up' = [up EXCEPT ![s] = Tail(@)]
    /\ server' = [server EXCEPT ![s].filter = Filtered(@, Head(up[s])), ![s].alive = TRUE]
    /\ UNCHANGED <<client, socket, faults>>

Wants(s, a) == server[s].in /\ (server[s].filter = {} \/ a \in server[s].filter)

\* An event the application listens for, and takes itself to be connected for, does not get to it.
Misses(a, failing) ==
    /\ IsConnected /\ up[client.ws] = <<>>
    /\ client.subscriptions = {} \/ a \in client.subscriptions
    /\ ~Wants(client.ws, a) \/ client.ws \in failing \/ socket[client.ws].silent

\* The sends that fail, at once or by their callback.
Failing(a) ==
    {failing \in SUBSET {s \in Socket : Wants(s, a)} : Cardinality(failing) <= faults}

\* (slip) a send that fails is only a send that failed.
Broadcasts_On(a) ==
    \E failing \in Failing(a) :
        /\ faults' = faults - Cardinality(failing)
        /\ client' = [client EXCEPT !.behind = @ \/ Misses(a, failing)]
        /\ UNCHANGED <<socket, up, server>>

\* broadcast(): whoever cannot be sent an event loses its connection.
Broadcasts(a) ==
    \E failing \in Failing(a) :
        /\ faults' = faults - Cardinality(failing)
        /\ client' = [client EXCEPT !.behind = @ \/ Misses(a, failing)]
        /\ server' = [s \in Socket |-> IF s \in failing THEN Absent ELSE server[s]]
        /\ UNCHANGED <<socket, up>>

\* Whether the connection can answer a ping.
Answers(s) == socket[s].state = "open" /\ ~socket[s].silent

\* heartbeat(). A client that can answer has done so since the last one.
Heartbeat ==
    /\ \E s \in Socket : server[s].in
    /\ \A s \in Socket : server[s].in /\ Answers(s) => server[s].alive
    /\ server' = [s \in Socket |-> IF server[s].alive THEN [server[s] EXCEPT !.alive = FALSE] ELSE Absent]
    /\ UNCHANGED <<client, socket, up, faults>>

Pong(s) ==
    /\ server[s].in /\ ~server[s].alive /\ Answers(s)
    /\ server' = [server EXCEPT ![s].alive = TRUE]
    /\ UNCHANGED <<client, socket, up, faults>>

\* removeClient(): the server hears that the connection is closed.
ServerCloses(s) ==
    /\ server[s].in /\ ~socket[s].silent /\ socket[s].state \in {"closing", "none"}
    /\ server' = [server EXCEPT ![s] = Absent]
    /\ UNCHANGED <<client, socket, up, faults>>

---------------------------------------------------------------------------
\* The network

\* What was on its way over a connection that goes silent is lost.
Breaks(s) ==
    /\ faults > 0 /\ faults' = faults - 1
    /\ socket[s].state \in {"connecting", "open"}
    /\ \/ /\ socket' = [socket EXCEPT ![s].silent = TRUE]
          /\ \E lost \in {FALSE, s = client.ws /\ server[s].in} :
                 client' = [client EXCEPT !.behind = @ \/ lost]
       \/ /\ ~socket[s].silent /\ socket' = [socket EXCEPT ![s].state = "closing"]
          /\ UNCHANGED client
    /\ UNCHANGED <<up, server>>

ClientStep ==
    \/ CallConnect \/ TimerFires \/ CallDisconnect \/ WatchdogFires
    \/ \E accounts \in Asked : CallSubscribe(accounts) \/ CallUnsubscribe(accounts)
    \/ \E s \in Socket : Closes(s)

ServerStep ==
    \/ \E s \in Socket : Accepts(s) \/ Refuses(s) \/ HearsClient(s) \/ Pong(s) \/ ServerCloses(s)
    \/ \E a \in Account : Broadcasts(a)
    \/ Heartbeat

LiveNext == ClientStep \/ ServerStep \/ \E s \in Socket : Breaks(s)

LiveSpec == LiveInit /\ [][LiveNext]_liveVars

\* Timers fire, the server answers whoever it hears, and a closed connection is noticed. The
\* application need not call anything.
LiveFairness ==
    /\ WF_liveVars(TimerFires) /\ WF_liveVars(WatchdogFires) /\ WF_liveVars(Heartbeat)
    /\ \A s \in Socket :
           /\ WF_liveVars(Closes(s)) /\ WF_liveVars(ServerCloses(s))
           /\ WF_liveVars(Accepts(s)) /\ WF_liveVars(Pong(s))

---------------------------------------------------------------------------
\* Properties

\* The client has one connection, and knows it: one it dropped neither takes its place nor
\* takes it along when it closes at last; after disconnect() none comes back by itself.
\* (connect, disconnect, onClose, scheduleReconnect.)
OneConnection ==
    /\ \A s \in Socket : socket[s].state \in {"connecting", "open"} => s = client.ws
    /\ client.asked = "apart" => client.ws = NoSocket /\ ~client.timer

\* The server filters for the client what the client believes it asked for, once it has heard
\* it, over whatever reconnects. (subscriptions, buildWsUrl, addClient, unsubscribe.)
FiltersAgree ==
    IsConnected /\ server[client.ws].in /\ up[client.ws] = <<>> =>
        server[client.ws].filter = client.subscriptions

\* A browser is not told of a connection that went silent.
NeverTold == ~client.pings /\ client.ws # NoSocket /\ socket[client.ws].silent

\* A client that does not get an event it listens for loses its connection and is told so, to
\* catch up: whoever cannot be sent one is dropped, and a silent connection found out.
\* (deliver, terminate, armWatchdog, onClose.)
MissedIsNoticed == client.behind ~> (~client.behind \/ NeverTold)

\* A client that wants to be connected is, whatever broke its connections, told or not; but for a
\* browser that is not told. (scheduleReconnect, the watchdog, the heartbeat.)
Reconnects ==
    (client.asked = "connected" /\ AutoReconnect) ~> (client.asked # "connected" \/ IsConnected \/ NeverTold)
====
