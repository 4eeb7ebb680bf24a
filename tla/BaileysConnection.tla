---- MODULE BaileysConnection ----
(***************************************************************************)
(* BaileysConnection: one WhatsApp account, its sockets, what the socket   *)
(* manager keeps about it, its status in memory and in accounts.yaml, and  *)
(* the API requests, health checks, timers and restarts that work on them. *)
(* One step runs from an await that really waits to the next.              *)
(*                                                                         *)
(* The manager's maps are keyed by account and accounts share only         *)
(* `closed`, so one account is followed.                                   *)
(***************************************************************************)
EXTENDS Naturals, Sequences, FiniteSets

CONSTANTS
    Socket,       \* the sockets there may be at once
    Request,      \* the slots for requests that take longer than a step
    NoSocket,
    Retry,        \* retryOnDisconnect of the account's configuration
    MaxFaults     \* bounds: how often each thing may go wrong, and how many requests take a slot

VARIABLES
    status,   \* of the account in memory, "none" if there is no such account
    onDisk,   \* the same in accounts.yaml
    writes,   \* lastWrite: the changes that wait their turn, the first in progress
    request,  \* what is done in each slot, and how far it is
    socket,   \* what each socket is
    manager,  \* what the socket manager keeps about the account
    session,  \* whether the session of a paired device is stored
    closed,   \* closeAll() was called
    faults,   \* what is left of MaxFaults
    stray,    \* (history) the sockets a logout left open behind the manager's back
    late      \* (history) something was done for an account that was another by then

history == <<stray, late>>

vars == <<status, onDisk, writes, request, socket, manager, session, closed, faults, history>>

Kind == {"update", "delete", "logout", "reset", "create", "boot"}

ASSUME ConnectionAssumption ==
    /\ NoSocket \notin Socket
    /\ Retry \in BOOLEAN
    /\ MaxFaults \in [{"network", "host", "call"} -> Nat]

\* AccountStatus without `error`, which no Baileys check returns.
AccountStatus == {"active", "unchecked", "auth_expired", "suspended"}

Idle == [kind |-> "none", step |-> "idle", was |-> "none", on |-> NoSocket]

\* What `ended` may say of an account: nothing, or why no connection of it is coming.
ConnectionEnd == {"no", "closed", "session_lost"}

\* entry is `sockets`, opening is `connecting` with who began: "asked" or "retry".
Fresh == [entry |-> NoSocket, opening |-> "no", ended |-> "no",
          timer |-> FALSE, clearing |-> FALSE, wired |-> FALSE]

Live(s) == socket[s] \in {"connecting", "open"}

\* hasSocket: a dead one that waits for its timer counts.
HasSocket(m) == m.entry # NoSocket

\* isConnected.
IsConnected(m, sockets) == HasSocket(m) /\ sockets[m.entry] = "open"

\* The process starts: connectManagedProviders has looked which accounts to connect.
Booting(st) ==
    [r \in Request |-> IF r = (CHOOSE q \in Request : TRUE) /\ st \notin {"none", "suspended"}
                         THEN [Idle EXCEPT !.kind = "boot"] ELSE Idle]

Init ==
    /\ status \in {"active", "suspended"} /\ onDisk = status
    /\ writes = <<>>
    /\ request = Booting(status)
    /\ socket = [s \in Socket |-> "none"]
    /\ manager = Fresh
    /\ session = TRUE /\ closed = FALSE
    /\ faults = MaxFaults
    /\ stray = {} /\ late = FALSE

Spend(kind) ==
    /\ faults[kind] > 0
    /\ faults' = [faults EXCEPT ![kind] = @ - 1]

\* (bound) A logout starts while there are sockets for what it, the others and those before may
\* leave open, and for the connection of the account.
Room == Cardinality(stray) + Cardinality({r \in Request : request[r].kind \in {"logout", "delete"}}) + 1
            < Cardinality(Socket)

\* The account is suspended or gone.
Unwanted == status \in {"none", "suspended"}

---------------------------------------------------------------------------
\* The socket manager: what its operations make of what it keeps

\* closeSocket, on the entry if there is one: its listeners are removed, so it says nothing more.
Shut(sockets, s) == [x \in Socket |-> IF x = s THEN "none" ELSE sockets[x]]

\* sockets.delete() alone: a socket that is open stays open, with nobody to close it.
Dropped(sockets, s) ==
    [x \in Socket |-> IF x = s /\ sockets[x] = "dead" THEN "none" ELSE sockets[x]]

\* (slip) connect() that does not look whether there is a socket.
Connecting_NoGuard(m, who) ==
    CASE closed \/ m.clearing -> m
      [] m.opening # "no" -> [m EXCEPT !.ended = "no"]
      [] OTHER -> [m EXCEPT !.timer = FALSE, !.ended = "no", !.opening = who]

\* connect(), up to its first await.
Connecting(m, who) ==
    CASE closed \/ m.clearing \/ HasSocket(m) -> m
      [] m.opening # "no" -> [m EXCEPT !.ended = "no"]
      [] OTHER -> [m EXCEPT !.timer = FALSE, !.ended = "no", !.opening = who]

\* (slip) connected with no handlers.
ConnectingWired_Deaf(m) == Connecting(m, "asked")

\* onMessage and onConnectionUpdate: a registration needs no socket, and outlives those there are.
Registered(m) == [m EXCEPT !.wired = TRUE]

\* connectWired: the handlers first.
ConnectingWired(m) == Connecting(Registered(m), "asked")

\* (slip) a reconnect that does not look whether the connection was ended.
Reconnecting_Anyway(m) ==
    IF m.clearing THEN m ELSE Connecting([m EXCEPT !.entry = NoSocket], "retry")

\* (slip) the dead entry stays, and connect() takes it for a socket.
Reconnecting_KeepsEntry(m) ==
    IF m.clearing \/ m.ended # "no" THEN m ELSE Connecting(m, "retry")

\* reconnect(), of a timer or a health check.
Reconnecting(m) ==
    IF m.clearing \/ m.ended # "no" THEN m
    ELSE Connecting([m EXCEPT !.entry = NoSocket], "retry")

\* closeConnection: the handlers and the session stay.
ConnectionClosed(m) ==
    [m EXCEPT !.ended = "closed", !.timer = FALSE, !.entry = NoSocket]

\* disconnect(), up to the wait for the logout.
LoggingOut(m) == [m EXCEPT !.ended = "closed", !.timer = FALSE, !.wired = FALSE]

\* clearSession(), up to the deletion of the directory.
Clearing(m) == [m EXCEPT !.clearing = TRUE, !.timer = FALSE, !.entry = NoSocket]

\* forgetAccount: a connect() in flight reads `ended` to give up.
Forgotten(m) == IF m.opening = "no" THEN [m EXCEPT !.ended = "no"] ELSE m

\* (history) A socket or a backoff that outlived the flag that kept the account closed.
Revived(m) == manager.ended = "closed" /\ m.ended = "no" /\ (HasSocket(m) \/ m.timer)

\* ensureConnected: what it must not stack a connect on, then reconnect().
Ensured(m) ==
    IF \/ HasSocket(m) \/ m.opening # "no" \/ m.timer
       \/ m.clearing \/ m.ended # "no" \/ ~m.wired \/ ~Retry
    THEN m ELSE Reconnecting(m)

\* An observation takes its turn. One equal to the last that waits would find nothing to change.
Observed(st) ==
    LET observation == [op |-> "observe", to |-> st, by |-> "event"] IN
    IF writes # <<>> /\ writes[Len(writes)] = observation THEN writes ELSE Append(writes, observation)

\* notify: the handlers there are hear of it.
Notify(m, st) == IF m.wired THEN Observed(st) ELSE writes

\* A connection update reaches the handlers, the subscriber of the status among them: a
\* session lost or a connection made is observed on the account.
Notified(m, sockets) ==
    CASE m.ended = "session_lost" -> Notify(m, "auth_expired")
      [] m.ended = "no" /\ IsConnected(m, sockets) -> Notify(m, "active")
      [] OTHER -> writes

---------------------------------------------------------------------------
\* Sockets and timers

\* What a new socket may be called: one that a logout holds is not.
FreeSocket == {s \in Socket : socket[s] = "none" /\ \A r \in Request : request[r].on # s}

\* openSocket resumes: it gives up if the account was closed meanwhile.
OpenEnds ==
    /\ manager.opening # "no"
    /\ IF closed \/ manager.ended = "closed"
       THEN /\ manager' = [manager EXCEPT !.opening = "no"]
            /\ UNCHANGED socket
       ELSE /\ FreeSocket # {}
            /\ socket' = [socket EXCEPT ![CHOOSE s \in FreeSocket : TRUE] = "connecting"]
            /\ manager' = [manager EXCEPT !.opening = "no", !.entry = CHOOSE s \in FreeSocket : TRUE]
    /\ UNCHANGED <<status, onDisk, writes, request, session, closed, faults, history>>

\* It throws: reconnect() backs off and tries again, whoever asked is told.
OpenFails ==
    /\ manager.opening # "no"
    /\ Spend("network")
    /\ manager' = [manager EXCEPT !.opening = "no", !.timer = @ \/ manager.opening = "retry"]
    /\ writes' = Notified(manager', socket)
    /\ UNCHANGED <<status, onDisk, request, socket, session, closed, history>>

\* connection.update: open. Pairing has saved its credentials by then.
SocketOpens(s) ==
    /\ socket[s] = "connecting"
    /\ socket' = [socket EXCEPT ![s] = "open"]
    /\ session' = TRUE
    /\ writes' = Notified(manager, socket')
    /\ UNCHANGED <<status, onDisk, request, manager, closed, faults, history>>

\* connection.update: close, with a code that lets it reconnect. A dead entry stays until the
\* timer replaces it; a socket that is not the entry is stale news.
SocketDrops(s) ==
    /\ Live(s)
    /\ Spend("network")
    /\ LET backsOff == Retry /\ ~manager.clearing IN
       /\ socket' = [socket EXCEPT ![s] = IF s = manager.entry /\ backsOff THEN "dead" ELSE "none"]
       /\ manager' = CASE s # manager.entry -> manager
                       [] s = manager.entry /\ backsOff -> [manager EXCEPT !.timer = TRUE]
                       [] OTHER -> [manager EXCEPT !.timer = FALSE, !.entry = NoSocket]
    /\ writes' = Notified(manager', socket')
    /\ stray' = stray \ {s}
    /\ UNCHANGED <<status, onDisk, request, session, closed, late>>

\* connection.update: close, as the session is lost, or as a logout in progress makes it.
SocketLoses(s) ==
    /\ Live(s)
    /\ IF \E r \in Request : request[r].on = s THEN UNCHANGED faults ELSE Spend("network")
    /\ socket' = [socket EXCEPT ![s] = "none"]
    /\ manager' = IF s # manager.entry THEN manager
                  ELSE [manager EXCEPT !.timer = FALSE, !.entry = NoSocket,
                                       !.ended = IF @ = "no" THEN "session_lost" ELSE @]
    /\ writes' = Notified(manager', socket')
    /\ stray' = stray \ {s}
    /\ UNCHANGED <<status, onDisk, request, session, closed, late>>

\* The backoff is over.
TimerFires ==
    /\ manager.timer
    /\ LET reconnected == Reconnecting([manager EXCEPT !.timer = FALSE]) IN
       /\ manager' = reconnected
       /\ socket' = IF reconnected.entry = manager.entry THEN socket
                    ELSE Dropped(socket, manager.entry)
    /\ UNCHANGED <<status, onDisk, writes, request, session, closed, faults, history>>

---------------------------------------------------------------------------
\* Requests

\* The slots are alike: a request takes the first that is free.
FreeSlot == CHOOSE r \in Request : request[r] = Idle

Enter(r, kind, step) ==
    /\ request[r] = Idle /\ r = FreeSlot /\ Spend("call")
    /\ request' = [request EXCEPT ![r] =
                      [kind |-> kind, step |-> step, was |-> status, on |-> NoSocket]]

\* POST connect: the status was checked in the same step, the handlers are registered first.
CallConnect ==
    /\ ~Unwanted
    /\ manager' = ConnectingWired(manager)
    /\ UNCHANGED <<status, onDisk, writes, request, socket, session, closed, faults, history>>

\* POST pair: only connects an account that has no socket.
CallPair == ~HasSocket(manager) /\ CallConnect

\* POST reset, up to the deletion of the directory.
CallReset(r) ==
    /\ ~Unwanted
    /\ Enter(r, "reset", "clearing")
    /\ manager' = Clearing(manager)
    /\ socket' = Shut(socket, manager.entry)
    /\ UNCHANGED <<status, onDisk, writes, session, closed, history>>

\* POST disconnect or the rest of DELETE: disconnect() waits for the logout of the socket
\* there is; with none, the session is cleared at once.
BeginLogout(r, kind) ==
    IF HasSocket(manager)
    THEN /\ manager' = LoggingOut(manager)
         /\ request' = [request EXCEPT ![r] = [kind |-> kind, step |-> "loggingOut",
                                               was |-> status, on |-> manager.entry]]
    ELSE /\ manager' = Clearing(LoggingOut(manager))
         /\ request' = [request EXCEPT ![r] = [kind |-> kind, step |-> "clearing",
                                               was |-> status, on |-> NoSocket]]

CallDisconnect(r) ==
    /\ status # "none" /\ request[r] = Idle /\ r = FreeSlot /\ Room /\ Spend("call")
    /\ BeginLogout(r, "logout")
    /\ UNCHANGED <<status, onDisk, writes, socket, session, closed, history>>

\* The logout is through, or took too long. Whatever socket the account has by now leaves the
\* map, and only the one that was logged out is closed.
LogoutEnds(r) ==
    /\ request[r].step = "loggingOut"
    /\ socket' = Dropped(Shut(socket, request[r].on), manager.entry)
    /\ manager' = Clearing(manager)
    /\ request' = [request EXCEPT ![r].step = "clearing", ![r].on = NoSocket]
    /\ stray' = stray \union {s \in Socket : s = manager.entry /\ socket'[s] # "none"}
    /\ UNCHANGED <<status, onDisk, writes, session, closed, faults, late>>

\* The directory is deleted. A reset connects again, a deletion forgets the account.
ClearEnds(r) ==
    /\ request[r].step = "clearing"
    /\ session' = FALSE
    /\ LET cleared == [manager EXCEPT !.clearing = FALSE] IN
       /\ manager' = CASE request[r].kind = "delete" -> Forgotten(cleared)
                       [] request[r].kind = "reset" -> ConnectingWired(cleared)
                       [] request[r].kind = "logout" -> cleared
       /\ late' = (late \/ IF request[r].kind = "reset" THEN Unwanted ELSE Revived(manager'))
    /\ request' = [request EXCEPT ![r] = Idle]
    /\ UNCHANGED <<status, onDisk, writes, socket, closed, faults, stray>>

\* Some of it may be left: whoever asked is told, and a deletion goes on.
ClearFails(r) ==
    /\ request[r].step = "clearing"
    /\ Spend("host")
    /\ session' \in {session, FALSE}
    /\ LET cleared == [manager EXCEPT !.clearing = FALSE] IN
       manager' = IF request[r].kind = "delete" THEN Forgotten(cleared) ELSE cleared
    /\ late' = (late \/ Revived(manager'))
    /\ request' = [request EXCEPT ![r] = Idle]
    /\ UNCHANGED <<status, onDisk, writes, socket, closed, stray>>

\* PUT, DELETE and POST an account: the change waits its turn to be written.
CallChange(r, kind, to) ==
    /\ (status = "none") = (kind = "create")
    /\ Enter(r, kind, "writing")
    /\ writes' = Append(writes, [op |-> kind, to |-> to, by |-> r])
    /\ UNCHANGED <<status, onDisk, socket, manager, session, closed, history>>

CallUpdate(r) == \E to \in {"active", "suspended"} : CallChange(r, "update", to)

CallDelete(r) == Room /\ CallChange(r, "delete", "none")

CallCreate(r) == \E to \in {"unchecked", "suspended"} : CallChange(r, "create", to)

---------------------------------------------------------------------------
\* The account repository: one change at a time

Change == Head(writes)

Committing(kind) == writes # <<>> /\ Change.op = kind

\* commit() wrote the file, and the memory follows; the handler goes on in the same step.
Committed(st) == status' = st /\ onDisk' = st /\ writes' = Tail(writes)

\* PUT: closed when it became suspended, connected when it was and no longer is, as the
\* handler saw it before the write.
CommitUpdate ==
    /\ Committing("update") /\ status # "none"
    /\ Committed(Change.to)
    /\ LET was == request[Change.by].was IN
       \/ /\ was # "suspended" /\ status' = "suspended"
          /\ manager' = ConnectionClosed(manager) /\ socket' = Shut(socket, manager.entry)
          /\ late' = FALSE
       \/ /\ was = "suspended" /\ status' # "suspended"
          /\ manager' = ConnectingWired(manager)
          /\ UNCHANGED <<socket, late>>
       \/ /\ (was = "suspended") = (status' = "suspended")
          /\ late' = (late \/ (was = "suspended" /\ status # "suspended"))
          /\ UNCHANGED <<manager, socket>>
    /\ request' = [request EXCEPT ![Change.by] = Idle]
    /\ UNCHANGED <<session, closed, faults, stray>>

\* DELETE: the account first, then its connection.
CommitDelete ==
    /\ Committing("delete") /\ status # "none"
    /\ Committed("none")
    /\ BeginLogout(Change.by, "delete")
    /\ UNCHANGED <<socket, session, closed, faults, history>>

\* POST: wired at once; a check connects it.
CommitCreate ==
    /\ Committing("create") /\ status = "none"
    /\ Committed(Change.to)
    /\ manager' = Registered(manager)
    /\ request' = [request EXCEPT ![Change.by] = Idle]
    /\ UNCHANGED <<socket, session, closed, faults, history>>

\* Nothing changes: the account is gone or is there by now, or the write failed.
ChangeRefused ==
    /\ writes # <<>> /\ Change.op \in {"update", "delete", "create"}
    /\ \/ (status = "none") # (Change.op = "create") /\ UNCHANGED faults
       \/ (status = "none") = (Change.op = "create") /\ Spend("host")
    /\ writes' = Tail(writes)
    /\ request' = [request EXCEPT ![Change.by] = Idle]
    /\ UNCHANGED <<status, onDisk, socket, manager, session, closed, history>>

\* observe(): the memory first, on the account as it is by now; a suspended one stays so. A
\* check that finds it connected reports its identity, which is written even if nothing changed.
ObserveApplies ==
    /\ Committing("observe")
    /\ LET found == IF status \in {"none", "suspended"} THEN status ELSE Change.to
           identity == status # "none" /\ Change.by = "check" /\ Change.to = "active"
       IN /\ status' = found
          /\ late' = (late \/ (found = "suspended" /\ status # "suspended"))
          /\ writes' = IF found # status \/ identity
                       THEN <<[Change EXCEPT !.op = "observing"]>> \o Tail(writes)
                       ELSE Tail(writes)
    /\ UNCHANGED <<onDisk, request, socket, manager, session, closed, faults, stray>>

\* Then the file; if that fails, what was observed stands in memory.
ObserveEnds ==
    /\ Committing("observing")
    /\ \/ onDisk' = status /\ UNCHANGED faults
       \/ Spend("host") /\ UNCHANGED onDisk
    /\ writes' = Tail(writes)
    /\ UNCHANGED <<status, request, socket, manager, session, closed, history>>

---------------------------------------------------------------------------
\* Checks, stop and start

\* (slip) a lost session is a stored session that is not connected right now.
Verdict_NoEnd(m) ==
    CASE status = "suspended" -> {"suspended"}
      [] ~session -> {"unchecked", status}
      [] OTHER -> {status}

\* What validate() makes of an account that is not connected, once it is reconnecting or not. A
\* device that was never paired may show its QR and may have credentials on disk already.
Verdict(m) ==
    CASE status = "suspended" -> {"suspended"}
      [] m.ended # "no" -> {"auth_expired"}
      [] ~session -> {"unchecked", status}
      [] OTHER -> {status}

\* One round of checks at a time. A connected account is active.
HealthCheck ==
    /\ status # "none" /\ ~closed
    /\ \A i \in DOMAIN writes : writes[i].by # "check"
    /\ LET connected == IsConnected(manager, socket)
           ensured == IF connected \/ status = "suspended" THEN manager ELSE Ensured(manager)
       IN /\ manager' = ensured
          /\ \E found \in IF connected THEN {"active"} ELSE Verdict(ensured) :
                 writes' = Append(writes, [op |-> "observe", by |-> "check", to |-> found])
    /\ UNCHANGED <<status, onDisk, request, socket, session, closed, faults, history>>

\* closeAll, on the way out.
Shutdown ==
    /\ ~closed /\ Spend("host")
    /\ closed' = TRUE
    /\ socket' = Shut(socket, manager.entry)
    /\ manager' = [manager EXCEPT !.timer = FALSE, !.entry = NoSocket]
    /\ UNCHANGED <<status, onDisk, writes, request, session, history>>

\* The process starts again, after a shutdown or a crash: only the files are left.
Restart ==
    /\ IF closed THEN UNCHANGED faults ELSE Spend("host")
    /\ status' = onDisk
    /\ writes' = <<>>
    /\ request' = Booting(onDisk)
    /\ socket' = [s \in Socket |-> "none"]
    /\ manager' = Fresh
    /\ closed' = FALSE
    /\ stray' = {} /\ late' = FALSE
    /\ UNCHANGED <<onDisk, session>>

\* Its turn in connectManagedProviders, which does not look at the account again.
BootConnects(r) ==
    /\ request[r].kind = "boot"
    /\ manager' = ConnectingWired(manager)
    /\ late' = (late \/ Unwanted)
    /\ request' = [request EXCEPT ![r] = Idle]
    /\ UNCHANGED <<status, onDisk, writes, socket, session, closed, faults, stray>>

---------------------------------------------------------------------------

RequestStep(r) ==
    \/ CallReset(r) \/ CallDisconnect(r) \/ CallUpdate(r) \/ CallDelete(r) \/ CallCreate(r)
    \/ LogoutEnds(r) \/ ClearEnds(r) \/ ClearFails(r) \/ BootConnects(r)

SocketStep(s) == SocketOpens(s) \/ SocketDrops(s) \/ SocketLoses(s)

RepositoryStep ==
    \/ CommitUpdate \/ CommitDelete \/ CommitCreate \/ ChangeRefused
    \/ ObserveEnds

\* An observation whose turn has come is applied before anything else: only microtasks lie
\* in between.
Next ==
    \/ ObserveApplies
    \/ /\ ~Committing("observe")
       /\ \/ \E r \in Request : RequestStep(r)
          \/ \E s \in Socket : SocketStep(s)
          \/ RepositoryStep
          \/ OpenEnds \/ OpenFails \/ TimerFires
          \/ CallConnect \/ CallPair
          \/ HealthCheck \/ Shutdown \/ Restart

Spec == Init /\ [][Next]_vars

\* Awaits end, timers fire, checks recur, and a process that stops is started again. Nobody
\* need ask for anything, and a socket need not open.
FairSpec ==
    /\ Spec
    /\ \A r \in Request : WF_vars(LogoutEnds(r) \/ ClearEnds(r) \/ BootConnects(r))
    /\ WF_vars(ObserveApplies) /\ WF_vars(RepositoryStep)
    /\ WF_vars(OpenEnds) /\ WF_vars(TimerFires)
    /\ SF_vars(HealthCheck)
    /\ WF_vars(closed /\ Restart)

---------------------------------------------------------------------------
\* Properties

\* The state keeps its types; a captured socket is only ever held by a logout.
TypeOK ==
    /\ status \in AccountStatus \union {"none"} /\ onDisk \in AccountStatus \union {"none"}
    /\ \A i \in DOMAIN writes : writes[i].to \in AccountStatus \union {"none"}
    /\ \A r \in Request :
           /\ request[r].kind \in Kind \union {"none"}
           /\ request[r].on # NoSocket => request[r].step = "loggingOut"
    /\ socket \in [Socket -> {"none", "connecting", "open", "dead"}]
    /\ manager \in [entry : Socket \union {NoSocket}, opening : {"no", "asked", "retry"},
                    ended : ConnectionEnd,
                    timer : BOOLEAN, clearing : BOOLEAN, wired : BOOLEAN]
    /\ session \in BOOLEAN /\ closed \in BOOLEAN
    /\ stray \subseteq Socket /\ late \in BOOLEAN

\* An open socket is the one the manager knows, or one that was opened while a logout was
\* waited for and that its end dropped: nothing else leaves two of an account, or one that nobody
\* can close. (connect, reconnect, disconnect, clearSession, the stale close.)
OneSocket == \A s \in Socket : Live(s) => s = manager.entry \/ s \in stray

\* An account never has two sockets. (baileys-socket.manager.ts:114)
NeverTwoSockets == \A s, t \in Socket : Live(s) /\ Live(t) => s = t

\* A suspended or deleted account has no socket and nothing that would open one, once the
\* requests about it are through, unless work of one was overtaken by another, or a logout left
\* its socket behind. (PUT, DELETE, the boot, closeConnection, forgetAccount.)
SuspendedIsClosed ==
    (Unwanted /\ ~late /\ \A r \in Request : request[r] = Idle) =>
        /\ \A s \in Socket : Live(s) => s \in stray
        /\ (manager.opening # "no" \/ manager.timer) => manager.ended = "closed"

\* Suspending an account closes its connection, whatever else is under way. (README.md:161)
SuspendedStaysClosed ==
    status = "suspended" /\ (\A r \in Request : request[r] = Idle) => \A s \in Socket : ~Live(s)

\* An account is never connected but deaf: whoever has a socket, or is opening one, has its
\* handlers or is being closed, but for what a deletion left behind. (wireEvents, connectWired,
\* forgetHandlers.)
ConnectedIsWired ==
    ~late /\ (HasSocket(manager) \/ manager.opening # "no") => manager.wired \/ manager.ended = "closed"

\* An account that is to have a connection.
Wanted ==
    /\ ~Unwanted /\ ~closed
    /\ manager.wired /\ manager.ended = "no" /\ ~manager.clearing

\* It gets a socket again, whatever closed, failed or was refused on the way. (The backoff
\* loop, and the health check behind it.)
ComesBack == (Wanted /\ Retry) ~> (~Wanted \/ \E s \in Socket \ stray : Live(s))

\* A lost session ends up in the status of the account, which makes the router refuse sends,
\* or is replaced by a new connection.
LostIsReported ==
    manager.ended = "session_lost" ~>
        (status \in {"auth_expired", "suspended", "none"} \/ manager.ended # "session_lost")
====
