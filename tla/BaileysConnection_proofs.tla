---- MODULE BaileysConnection_proofs ----
(***************************************************************************)
(* Proofs about BaileysConnection, for any sockets and requests, any bound *)
(* on the faults and the calls, with retries or without, whatever requests,*)
(* checks, timers and changes overlap.                                     *)
(***************************************************************************)
EXTENDS BaileysConnection, SequenceTheorems, TLAPS

---------------------------------------------------------------------------
\* The inductive invariant

Steps == {"idle", "clearing", "loggingOut", "writing"}

Ops == {"update", "delete", "create"}

Status == AccountStatus \union {"none"}

RequestType ==
    [kind : Kind \union {"none"}, step : Steps, was : Status, on : Socket \union {NoSocket}]

ManagerType ==
    [entry : Socket \union {NoSocket}, opening : {"no", "asked", "retry"}, ended : ConnectionEnd,
     timer : BOOLEAN, clearing : BOOLEAN, wired : BOOLEAN]

SocketStates == {"none", "connecting", "open", "dead"}

Bounded == {"network", "host", "call"}

WriteType ==
    [op : Ops \union {"observe", "observing"}, to : Status, by : Request \union {"event", "check"}]

TypeInv ==
    /\ status \in Status /\ onDisk \in Status
    /\ writes \in Seq(WriteType)
    /\ request \in [Request -> RequestType]
    /\ socket \in [Socket -> SocketStates]
    /\ manager \in ManagerType
    /\ session \in BOOLEAN /\ closed \in BOOLEAN
    /\ faults \in [Bounded -> Nat]
    /\ stray \subseteq Socket /\ late \in BOOLEAN

\* What a slot holds fits how far it is.
RequestFits(q) ==
    /\ q.kind = "none" => q = Idle
    /\ q.step = "writing" => q.kind \in Ops
    /\ q.step = "loggingOut" => q.kind \in {"delete", "logout"} /\ q.on # NoSocket
    /\ q.step = "clearing" => q.kind \in {"delete", "logout", "reset"}
    /\ q.step = "idle" => q.kind \in {"boot", "none"}
    /\ q.on # NoSocket => q.step = "loggingOut"

RequestInv == \A r \in Request : RequestFits(request[r])

\* A change that waits is that of the request that waits for it, and no other one's.
WriteFits(w) ==
    w.op \in Ops => w.by \in Request /\ request[w.by].kind = w.op /\ request[w.by].step = "writing"

WriteInv ==
    /\ \A i \in DOMAIN writes : WriteFits(writes[i])
    /\ \A i, j \in DOMAIN writes :
           writes[i].op \in Ops /\ writes[j].op \in Ops /\ writes[i].by = writes[j].by => i = j

\* While a socket is being opened, or the timer waits, there is none.
SocketInv ==
    /\ OneSocket
    /\ manager.opening # "no" => manager.entry = NoSocket /\ ~manager.timer
    /\ manager.timer => manager.entry = NoSocket \/ socket[manager.entry] = "dead"

\* A socket, or something that will open one.
Held(m) == m.entry # NoSocket \/ m.opening # "no" \/ m.timer

\* Handlers go only when the connection is ended for good.
WiredInv == ~late /\ Held(manager) => manager.wired \/ manager.ended = "closed"

ConnectionInv == TypeInv /\ RequestInv /\ WriteInv /\ SocketInv /\ WiredInv

\* What waits makes no account of none.
QueueInv ==
    \A i \in DOMAIN writes :
        writes[i].op # "observing" => (writes[i].to = "none") = (writes[i].op = "delete")

\* A socket may be on its way out still.
Closing == \E r \in Request : request[r].step = "loggingOut"

\* Of an account that is to have no connection whatever is left is ended, and its socket is being closed.
ClosedInv ==
    Unwanted /\ ~late =>
        /\ manager.entry # NoSocket => Closing
        /\ Held(manager) => manager.ended = "closed"

---------------------------------------------------------------------------
\* What the operations of the manager return

LEMMA ManagerTypes ==
    ASSUME NEW m \in ManagerType
    PROVE  /\ Connecting(m, "asked") \in ManagerType /\ Connecting(m, "retry") \in ManagerType
           /\ Registered(m) \in ManagerType /\ ConnectingWired(m) \in ManagerType
           /\ Reconnecting(m) \in ManagerType /\ Ensured(m) \in ManagerType
           /\ ConnectionClosed(m) \in ManagerType /\ LoggingOut(m) \in ManagerType
           /\ Clearing(m) \in ManagerType /\ Forgotten(m) \in ManagerType
<1>1. \A n \in ManagerType, who \in {"asked", "retry"} : Connecting(n, who) \in ManagerType
  BY DEF Connecting, HasSocket, ManagerType, ConnectionEnd
<1>2. Registered(m) \in ManagerType
  BY DEF Registered, ManagerType
<1>3. ConnectingWired(m) \in ManagerType
  BY <1>1, <1>2 DEF ConnectingWired
<1>4. Reconnecting(m) \in ManagerType
  <2>1. [m EXCEPT !.entry = NoSocket] \in ManagerType
    BY DEF ManagerType
  <2> QED
    BY <1>1, <2>1 DEF Reconnecting
<1>5. Ensured(m) \in ManagerType
  BY <1>4 DEF Ensured
<1>6. /\ ConnectionClosed(m) \in ManagerType /\ LoggingOut(m) \in ManagerType
      /\ Clearing(m) \in ManagerType /\ Forgotten(m) \in ManagerType
  BY DEF ConnectionClosed, LoggingOut, Clearing, Forgotten, ManagerType, ConnectionEnd
<1> QED
  BY <1>1, <1>2, <1>3, <1>4, <1>5, <1>6

\* An observation that is new goes behind what waits.
Observes(st) ==
    writes' = writes \/ writes' = Append(writes, [op |-> "observe", to |-> st, by |-> "event"])

LEMMA NotifiedWrites ==
    ASSUME NEW m, NEW sockets, writes' = Notified(m, sockets)
    PROVE  Observes("auth_expired") \/ Observes("active")
BY DEF Notified, Notify, Observed, Observes

LEMMA SocketTypes ==
    ASSUME NEW sockets \in [Socket -> SocketStates], NEW s
    PROVE  Shut(sockets, s) \in [Socket -> SocketStates] /\ Dropped(sockets, s) \in [Socket -> SocketStates]
BY DEF Shut, Dropped, SocketStates

LEMMA BootTypes ==
    ASSUME NEW st
    PROVE  /\ Booting(st) \in [Request -> RequestType]
           /\ \A q \in Request : \/ Booting(st)[q] = Idle
                                 \/ Booting(st)[q] = [Idle EXCEPT !.kind = "boot"] /\ st \notin {"none", "suspended"}
<1>1. Idle \in RequestType /\ [Idle EXCEPT !.kind = "boot"] \in RequestType
  BY DEF Idle, RequestType, Kind, Steps, Status
<1> QED
  BY <1>1 DEF Booting

---------------------------------------------------------------------------
\* Types

\* The next turn is of a change that waits.
LEMMA TurnTypes ==
    ASSUME TypeInv, writes # <<>>
    PROVE  /\ Change \in WriteType /\ Tail(writes) \in Seq(WriteType)
           /\ 1 \in DOMAIN writes /\ Change = writes[1]
           /\ Len(Tail(writes)) = Len(writes) - 1
           /\ \A i \in 1 .. Len(Tail(writes)) : Tail(writes)[i] = writes[i + 1]
BY DEF TypeInv, Change

\* A connection that is opened takes a name that is free.
LEMMA NamedSocket ==
    ASSUME OpenEnds, ~closed, manager.ended # "closed"
    PROVE  \E s \in FreeSocket : /\ socket' = [socket EXCEPT ![s] = "connecting"]
                                 /\ manager' = [manager EXCEPT !.opening = "no", !.entry = s]
BY DEF OpenEnds

LEMMA TypeInit ==
    ASSUME Init
    PROVE  TypeInv
<1>1. request \in [Request -> RequestType]
  BY BootTypes DEF Init
<1>2. manager \in ManagerType
  BY DEF Init, Fresh, ManagerType, ConnectionEnd
<1>3. writes \in Seq(WriteType)
  BY DEF Init
<1>4. socket \in [Socket -> SocketStates]
  BY DEF Init, SocketStates
<1> QED
  BY <1>1, <1>2, <1>3, <1>4, ConnectionAssumption DEF Init, TypeInv, Status, AccountStatus, Bounded

LEMMA SpendType ==
    ASSUME TypeInv, NEW kind \in Bounded, Spend(kind)
    PROVE  faults' \in [Bounded -> Nat]
BY DEF TypeInv, Spend

LEMMA EnterType ==
    ASSUME TypeInv, NEW r \in Request, NEW kind \in Kind, NEW step \in Steps, Enter(r, kind, step)
    PROVE  request' \in [Request -> RequestType] /\ faults' \in [Bounded -> Nat]
BY SpendType DEF TypeInv, Enter, RequestType, Bounded

LEMMA BeginLogoutType ==
    ASSUME TypeInv, NEW r, NEW kind \in Kind, BeginLogout(r, kind)
    PROVE  request' \in [Request -> RequestType] /\ manager' \in ManagerType
<1>1. LoggingOut(manager) \in ManagerType /\ Clearing(LoggingOut(manager)) \in ManagerType
  BY ManagerTypes DEF TypeInv
<1>2. /\ [kind |-> kind, step |-> "loggingOut", was |-> status, on |-> manager.entry] \in RequestType
      /\ [kind |-> kind, step |-> "clearing", was |-> status, on |-> NoSocket] \in RequestType
  BY DEF TypeInv, RequestType, ManagerType, Steps
<1> QED
  BY <1>1, <1>2 DEF TypeInv, BeginLogout

LEMMA ObservationTypes ==
    ASSUME TypeInv, NEW st \in Status, NEW by \in {"event", "check"},
           writes' = writes \/ writes' = Append(writes, [op |-> "observe", to |-> st, by |-> by])
    PROVE  writes' \in Seq(WriteType)
<1>1. [op |-> "observe", to |-> st, by |-> by] \in WriteType
  BY DEF WriteType
<1> QED
  BY <1>1 DEF TypeInv

LEMMA NotifiedTypes ==
    ASSUME TypeInv, NEW m, NEW sockets, writes' = Notified(m, sockets)
    PROVE  writes' \in Seq(WriteType)
BY NotifiedWrites, ObservationTypes DEF Observes, Status, AccountStatus

LEMMA IdleType == Idle \in RequestType
BY DEF Idle, RequestType, Steps, Status

LEMMA TypeStep ==
    ASSUME TypeInv, RequestInv, [Next]_vars
    PROVE  TypeInv'
<1> USE IdleType DEF history, Bounded
<1>1. CASE UNCHANGED vars
  BY <1>1 DEF TypeInv, vars
<1>2. CASE ObserveApplies
  <2>1. Change \in WriteType /\ Tail(writes) \in Seq(WriteType)
    BY <1>2, TurnTypes DEF ObserveApplies, Committing
  <2>2. [Change EXCEPT !.op = "observing"] \in WriteType
    BY <2>1 DEF WriteType
  <2>3. writes' \in Seq(WriteType)
    BY <1>2, <2>1, <2>2 DEF ObserveApplies
  <2> QED
    BY <1>2, <2>1, <2>3 DEF TypeInv, ObserveApplies, WriteType
<1>3. ASSUME NEW r \in Request, RequestStep(r) PROVE TypeInv'
  <2>1. CASE CallReset(r)
    BY <2>1, EnterType, ManagerTypes, SocketTypes DEF TypeInv, CallReset, Kind, Steps
  <2>2. CASE CallDisconnect(r)
    BY <2>2, BeginLogoutType, SpendType DEF TypeInv, CallDisconnect, Kind
  <2>3. ASSUME NEW kind \in Ops, NEW to \in Status, CallChange(r, kind, to) PROVE TypeInv'
    <3>1. request' \in [Request -> RequestType] /\ faults' \in [Bounded -> Nat]
      BY <2>3, EnterType DEF CallChange, Ops, Kind, Steps
    <3>2. writes' \in Seq(WriteType)
      BY <2>3 DEF TypeInv, CallChange, WriteType
    <3> QED
      BY <2>3, <3>1, <3>2 DEF TypeInv, CallChange
  <2>4. CASE LogoutEnds(r)
    <3>1. request' \in [Request -> RequestType]
      BY <2>4 DEF TypeInv, LogoutEnds, RequestType, Steps
    <3> QED
      BY <2>4, <3>1, ManagerTypes, SocketTypes DEF TypeInv, LogoutEnds
  <2>5. CASE ClearEnds(r)
    <3> DEFINE cleared == [manager EXCEPT !.clearing = FALSE]
    <3>1. cleared \in ManagerType
      BY DEF TypeInv, ManagerType
    <3>2. request[r].kind \in {"delete", "logout", "reset"}
      BY <1>3, <2>5 DEF ClearEnds, RequestInv, RequestFits
    <3>3. manager' \in ManagerType
      BY <2>5, <3>1, <3>2, ManagerTypes DEF ClearEnds
    <3> QED
      BY <2>5, <3>3 DEF TypeInv, ClearEnds
  <2>6. CASE ClearFails(r)
    <3> DEFINE cleared == [manager EXCEPT !.clearing = FALSE]
    <3>1. cleared \in ManagerType
      BY DEF TypeInv, ManagerType
    <3>2. manager' \in ManagerType
      BY <2>6, <3>1, ManagerTypes DEF ClearFails
    <3> QED
      BY <2>6, <3>2, SpendType DEF TypeInv, ClearFails
  <2>7. CASE BootConnects(r)
    BY <2>7, ManagerTypes DEF TypeInv, BootConnects
  <2> QED
    BY <1>3, <2>1, <2>2, <2>3, <2>4, <2>5, <2>6, <2>7
    DEF RequestStep, CallUpdate, CallDelete, CallCreate, Ops, Status, AccountStatus
<1>4. ASSUME NEW s \in Socket, SocketStep(s) PROVE TypeInv'
  <2>1. CASE SocketOpens(s)
    BY <2>1, NotifiedTypes DEF TypeInv, SocketOpens, SocketStates
  <2>2. CASE SocketDrops(s)
    <3>1. manager' \in ManagerType
      BY <2>2 DEF TypeInv, SocketDrops, ManagerType
    <3>2. socket' \in [Socket -> SocketStates]
      BY <2>2 DEF TypeInv, SocketDrops, SocketStates
    <3> QED
      BY <2>2, <3>1, <3>2, NotifiedTypes, SpendType DEF TypeInv, SocketDrops
  <2>3. CASE SocketLoses(s)
    <3>1. manager' \in ManagerType
      BY <2>3 DEF TypeInv, SocketLoses, ManagerType, ConnectionEnd
    <3>2. socket' \in [Socket -> SocketStates]
      BY <2>3 DEF TypeInv, SocketLoses, SocketStates
    <3>3. faults' \in [Bounded -> Nat]
      BY <2>3, SpendType DEF TypeInv, SocketLoses
    <3> QED
      BY <2>3, <3>1, <3>2, <3>3, NotifiedTypes DEF TypeInv, SocketLoses
  <2> QED
    BY <1>4, <2>1, <2>2, <2>3 DEF SocketStep
<1>5. CASE RepositoryStep
  <2>1. writes # <<>> /\ Change \in WriteType /\ Tail(writes) \in Seq(WriteType) /\ Change.to \in Status
    <3>1. writes # <<>>
      BY <1>5 DEF RepositoryStep, CommitUpdate, CommitDelete, CommitCreate, ChangeRefused, ObserveEnds, Committing
    <3> QED
      BY <3>1, TurnTypes DEF WriteType
  <2>2. [request EXCEPT ![Change.by] = Idle] \in [Request -> RequestType]
    BY DEF TypeInv
  <2>3. CASE CommitUpdate
    <3>1. late' \in BOOLEAN
      BY <2>3 DEF TypeInv, CommitUpdate
    <3>2. manager' \in ManagerType /\ socket' \in [Socket -> SocketStates]
      BY <2>3, ManagerTypes, SocketTypes DEF TypeInv, CommitUpdate
    <3> QED
      BY <2>1, <2>2, <2>3, <3>1, <3>2 DEF TypeInv, CommitUpdate, Committed
  <2>4. CASE CommitDelete
    BY <2>1, <2>4, BeginLogoutType DEF TypeInv, CommitDelete, Committed, Kind, Status
  <2>5. CASE CommitCreate
    BY <2>1, <2>2, <2>5, ManagerTypes DEF TypeInv, CommitCreate, Committed
  <2>6. CASE ChangeRefused
    BY <2>1, <2>2, <2>6, SpendType DEF TypeInv, ChangeRefused
  <2>7. CASE ObserveEnds
    BY <2>1, <2>7, SpendType DEF TypeInv, ObserveEnds
  <2> QED
    BY <1>5, <2>3, <2>4, <2>5, <2>6, <2>7 DEF RepositoryStep
<1>6. CASE OpenEnds
  <2>1. CASE closed \/ manager.ended = "closed"
    BY <1>6, <2>1 DEF TypeInv, OpenEnds, ManagerType, history
  <2>2. CASE ~(closed \/ manager.ended = "closed")
    <3>1. PICK s \in FreeSocket : /\ socket' = [socket EXCEPT ![s] = "connecting"]
                                  /\ manager' = [manager EXCEPT !.opening = "no", !.entry = s]
      BY <1>6, <2>2, NamedSocket
    <3>2. s \in Socket
      BY <3>1 DEF FreeSocket
    <3> QED
      BY <1>6, <3>1, <3>2 DEF TypeInv, OpenEnds, ManagerType, SocketStates, history
  <2> QED
    BY <2>1, <2>2
<1>7. CASE OpenFails
  <2>1. manager' \in ManagerType
    BY <1>7 DEF TypeInv, OpenFails, ManagerType
  <2> QED
    BY <1>7, <2>1, NotifiedTypes, SpendType DEF TypeInv, OpenFails
<1>8. CASE TimerFires
  <2>1. [manager EXCEPT !.timer = FALSE] \in ManagerType
    BY DEF TypeInv, ManagerType
  <2>2. manager' \in ManagerType
    BY <1>8, <2>1, ManagerTypes DEF TimerFires
  <2>3. socket' \in [Socket -> SocketStates]
    BY <1>8, SocketTypes DEF TypeInv, TimerFires
  <2> QED
    BY <1>8, <2>2, <2>3 DEF TypeInv, TimerFires
<1>9. CASE CallConnect \/ CallPair
  BY <1>9, ManagerTypes DEF TypeInv, CallConnect, CallPair
<1>10. CASE HealthCheck
  <2>1. manager' \in ManagerType
    BY <1>10, ManagerTypes DEF TypeInv, HealthCheck
  <2>2. \A m : Verdict(m) \subseteq Status
    BY DEF TypeInv, Verdict, Status, AccountStatus
  <2>3. \E found \in Status : writes' = Append(writes, [op |-> "observe", to |-> found, by |-> "check"])
    BY <1>10, <2>2 DEF HealthCheck, Status, AccountStatus
  <2>4. writes' \in Seq(WriteType)
    BY <2>3, ObservationTypes
  <2> QED
    BY <1>10, <2>1, <2>4 DEF TypeInv, HealthCheck
<1>11. CASE Shutdown
  <2>1. manager' \in ManagerType
    BY <1>11 DEF TypeInv, Shutdown, ManagerType
  <2> QED
    BY <1>11, <2>1, SocketTypes, SpendType DEF TypeInv, Shutdown
<1>12. CASE Restart
  <2>1. request' \in [Request -> RequestType]
    BY <1>12, BootTypes DEF Restart
  <2>2. manager' \in ManagerType
    BY <1>12 DEF Restart, Fresh, ManagerType, ConnectionEnd
  <2>3. faults' \in [Bounded -> Nat]
    BY <1>12, SpendType DEF TypeInv, Restart
  <2>4. writes' \in Seq(WriteType)
    BY <1>12 DEF Restart
  <2>5. socket' \in [Socket -> SocketStates]
    BY <1>12 DEF Restart, SocketStates
  <2> QED
    BY <1>12, <2>1, <2>2, <2>3, <2>4, <2>5 DEF TypeInv, Restart
<1> QED
  BY <1>1, <1>2, <1>3, <1>4, <1>5, <1>6, <1>7, <1>8, <1>9, <1>10, <1>11, <1>12 DEF Next

---------------------------------------------------------------------------
\* The slots, and the changes that wait

\* A slot goes on with its work, ends it, or begins another.
LEMMA SlotSet ==
    ASSUME TypeInv, RequestInv, NEW r \in Request, NEW v \in RequestType, RequestFits(v),
           request' = [request EXCEPT ![r] = v]
    PROVE  RequestInv'
<1>1. \A q \in Request : request'[q] = IF q = r THEN v ELSE request[q]
  BY DEF TypeInv
<1>2. \A q \in Request : RequestFits(request'[q])
  BY <1>1 DEF RequestInv
<1> QED
  BY <1>2 DEF RequestInv, RequestFits

LEMMA SlotFreed ==
    ASSUME TypeInv, RequestInv, NEW r \in Request, request' = [request EXCEPT ![r] = Idle]
    PROVE  RequestInv'
<1>1. RequestFits(Idle) /\ Idle.kind = "none"
  BY DEF RequestFits, Idle, Ops
<1> QED
  BY <1>1, SlotSet, IdleType

LEMMA SlotEntered ==
    ASSUME TypeInv, RequestInv, NEW r \in Request, NEW kind \in Kind, NEW step \in {"writing", "clearing"},
           step = "writing" => kind \in Ops,
           step = "clearing" => kind = "reset",
           Enter(r, kind, step)
    PROVE  RequestInv'
<1> DEFINE v == [kind |-> kind, step |-> step, was |-> status, on |-> NoSocket]
<1>1. v \in RequestType
  BY DEF TypeInv, RequestType, Steps
<1>2. RequestFits(v) /\ v.kind = kind
  BY DEF RequestFits, Kind
<1>3. request' = [request EXCEPT ![r] = v]
  BY DEF Enter
<1> HIDE DEF v
<1> QED
  BY <1>1, <1>2, <1>3, SlotSet

\* What a logout that begins leaves in its slot.
LEMMA LogoutBegun ==
    ASSUME TypeInv, NEW r \in Request, NEW kind \in {"delete", "logout"}, BeginLogout(r, kind)
    PROVE  \E v \in RequestType :
               /\ request' = [request EXCEPT ![r] = v]
               /\ RequestFits(v) /\ v.kind = kind /\ v.step \in {"loggingOut", "clearing"}
               /\ v.step = "loggingOut" => v.on = manager.entry /\ manager.entry # NoSocket
               /\ v.step = "loggingOut" => manager' = LoggingOut(manager)
               /\ v.step = "clearing" => manager.entry = NoSocket /\ manager' = Clearing(LoggingOut(manager))
<1>1. CASE HasSocket(manager)
  <2> DEFINE v == [kind |-> kind, step |-> "loggingOut", was |-> status, on |-> manager.entry]
  <2>1. v \in RequestType
    BY DEF TypeInv, RequestType, Steps, Kind, ManagerType
  <2>2. RequestFits(v)
    BY <1>1 DEF RequestFits, HasSocket
  <2> QED
    BY <1>1, <2>1, <2>2 DEF BeginLogout, HasSocket
<1>2. CASE ~HasSocket(manager)
  <2> DEFINE v == [kind |-> kind, step |-> "clearing", was |-> status, on |-> NoSocket]
  <2>1. v \in RequestType
    BY DEF TypeInv, RequestType, Steps, Kind
  <2>2. RequestFits(v)
    BY DEF RequestFits
  <2> QED
    BY <1>2, <2>1, <2>2 DEF BeginLogout, HasSocket
<1> QED
  BY <1>1, <1>2

\* The request whose change has its turn.
LEMMA TurnIsOf ==
    ASSUME TypeInv, WriteInv, writes # <<>>, Change.op \in Ops
    PROVE  Change.by \in Request /\ request[Change.by].kind = Change.op /\ request[Change.by].step = "writing"
BY TurnTypes DEF WriteInv, WriteFits

LEMMA BootFits ==
    ASSUME NEW st
    PROVE  \A q \in Request : RequestFits(Booting(st)[q])
<1>1. RequestFits(Idle) /\ RequestFits([Idle EXCEPT !.kind = "boot"])
  BY DEF RequestFits, Idle, Ops
<1> QED
  BY <1>1, BootTypes

LEMMA RequestInit ==
    ASSUME Init
    PROVE  RequestInv
BY BootFits DEF Init, RequestInv

LEMMA RequestStepInv ==
    ASSUME TypeInv, RequestInv, WriteInv, [Next]_vars
    PROVE  RequestInv'
<1>1. CASE UNCHANGED request
  BY <1>1 DEF RequestInv, RequestFits
<1>2. ASSUME NEW r \in Request, RequestStep(r) PROVE RequestInv'
  <2>1. CASE CallReset(r)
    BY <2>1, SlotEntered DEF CallReset, Kind
  <2>2. CASE CallDisconnect(r)
    <3>1. PICK v \in RequestType : request' = [request EXCEPT ![r] = v] /\ RequestFits(v) /\ v.kind = "logout"
      BY <2>2, LogoutBegun DEF CallDisconnect
    <3> QED
      BY <3>1, SlotSet
  <2>3. ASSUME NEW kind \in Ops, NEW to, CallChange(r, kind, to) PROVE RequestInv'
    BY <2>3, SlotEntered DEF CallChange, Kind, Ops
  <2>4. CASE LogoutEnds(r)
    <3> DEFINE v == [request[r] EXCEPT !.step = "clearing", !.on = NoSocket]
    <3>1. request[r] \in RequestType /\ RequestFits(request[r])
      BY DEF TypeInv, RequestInv
    <3>2. v \in RequestType /\ v.kind = request[r].kind /\ v.step = "clearing" /\ v.on = NoSocket
      BY <3>1 DEF RequestType, Steps
    <3>3. RequestFits(v)
      BY <2>4, <3>1, <3>2 DEF RequestFits, LogoutEnds
    <3>4. request' = [request EXCEPT ![r] = v]
      BY <2>4 DEF LogoutEnds, TypeInv, RequestType
    <3> HIDE DEF v
    <3> QED
      BY <3>2, <3>3, <3>4, SlotSet
  <2>5. CASE ClearEnds(r) \/ ClearFails(r) \/ BootConnects(r)
    BY <2>5, SlotFreed DEF ClearEnds, ClearFails, BootConnects
  <2> QED
    BY <1>2, <2>1, <2>2, <2>3, <2>4, <2>5 DEF RequestStep, CallUpdate, CallDelete, CallCreate, Ops
<1>3. CASE RepositoryStep
  <2>1. CASE CommitDelete
    <3>1. Change.by \in Request /\ request[Change.by].kind = "delete"
      BY <2>1, TurnIsOf DEF CommitDelete, Committing, Ops
    <3>2. PICK v \in RequestType : request' = [request EXCEPT ![Change.by] = v] /\ RequestFits(v) /\ v.kind = "delete"
      BY <2>1, <3>1, LogoutBegun DEF CommitDelete
    <3> QED
      BY <3>1, <3>2, SlotSet
  <2>2. CASE CommitUpdate \/ CommitCreate \/ ChangeRefused
    <3>1. Change.by \in Request
      BY <2>2, TurnIsOf DEF CommitUpdate, CommitCreate, ChangeRefused, Committing, Ops
    <3> QED
      BY <2>2, <3>1, SlotFreed DEF CommitUpdate, CommitCreate, ChangeRefused
  <2>3. CASE ObserveEnds
    BY <1>1, <2>3 DEF ObserveEnds
  <2> QED
    BY <1>3, <2>1, <2>2, <2>3 DEF RepositoryStep
<1>4. CASE Restart
  <2>1. request' = Booting(onDisk)
    BY <1>4 DEF Restart
  <2>2. \A q \in Request : RequestFits(request'[q])
    BY <2>1, BootFits
  <2> QED
    BY <2>2 DEF RequestInv, RequestFits
<1>5. CASE \/ ObserveApplies \/ OpenEnds \/ OpenFails \/ TimerFires \/ CallConnect \/ CallPair
           \/ HealthCheck \/ Shutdown \/ UNCHANGED vars \/ \E s \in Socket : SocketStep(s)
  BY <1>1, <1>5 DEF ObserveApplies, OpenEnds, OpenFails, TimerFires, CallConnect, CallPair, HealthCheck,
     Shutdown, vars, SocketStep, SocketOpens, SocketDrops, SocketLoses
<1> QED
  BY <1>2, <1>3, <1>4, <1>5 DEF Next

\* Slots that wait for their change stay as they are, and at most an observation joins the queue.
LEMMA WritesBehind ==
    ASSUME TypeInv, WriteInv,
           writes' = writes \/ \E w \in WriteType : w.op = "observe" /\ writes' = Append(writes, w),
           \A r \in Request : request[r].step = "writing" => request'[r] = request[r]
    PROVE  WriteInv'
<1>1. \A w : WriteFits(w) /\ w.op \in Ops =>
          w.by \in Request /\ request'[w.by].kind = w.op /\ request'[w.by].step = "writing"
  BY DEF WriteFits
<1>2. \A i \in DOMAIN writes' : (i \in DOMAIN writes /\ writes'[i] = writes[i]) \/ writes'[i].op = "observe"
  <2>1. CASE writes' = writes
    BY <2>1
  <2>2. ASSUME NEW w \in WriteType, w.op = "observe", writes' = Append(writes, w)
        PROVE  \A i \in DOMAIN writes' :
                   (i \in DOMAIN writes /\ writes'[i] = writes[i]) \/ writes'[i].op = "observe"
    <3>1. \A i \in DOMAIN writes' : \/ i \in DOMAIN writes /\ writes'[i] = writes[i]
                                   \/ writes'[i] = w
      BY <2>2 DEF TypeInv
    <3> QED
      BY <2>2, <3>1
  <2> QED
    BY <2>1, <2>2
<1>3. "observe" \notin Ops
  BY DEF Ops
<1> QED
  BY <1>1, <1>2, <1>3 DEF WriteInv, WriteFits

\* A request that begins puts its change behind the others.
LEMMA ChangeBehind ==
    ASSUME TypeInv, WriteInv, RequestInv, NEW r \in Request, NEW kind \in Ops, NEW to \in Status,
           CallChange(r, kind, to)
    PROVE  WriteInv'
<1> DEFINE w == [op |-> kind, to |-> to, by |-> r]
<1>1. writes' = Append(writes, w) /\ request[r] = Idle
  BY DEF CallChange, Enter
<1>2. /\ request'[r].kind = kind /\ request'[r].step = "writing"
      /\ \A q \in Request : q # r => request'[q] = request[q]
  BY DEF CallChange, Enter, TypeInv
<1>3. \A i \in DOMAIN writes : writes[i].op \in Ops => writes[i].by # r
  BY <1>1 DEF WriteInv, WriteFits, Idle
<1>4. w.op = kind /\ w.by = r /\ w \in WriteType
  BY DEF WriteType
<1> HIDE DEF w
<1>5. \A i \in DOMAIN writes' : 
            \/ i \in DOMAIN writes /\ writes'[i] = writes[i]
            \/ i = Len(writes) + 1 /\ writes'[i] = w
  BY <1>1, <1>4 DEF TypeInv
<1>6. ASSUME NEW i \in DOMAIN writes', writes'[i].op \in Ops
      PROVE  writes'[i].by \in Request /\ request'[writes'[i].by].kind = writes'[i].op
             /\ request'[writes'[i].by].step = "writing"
  BY <1>2, <1>3, <1>4, <1>5, <1>6 DEF WriteInv, WriteFits
<1>7. ASSUME NEW i \in DOMAIN writes', NEW j \in DOMAIN writes',
             writes'[i].op \in Ops, writes'[j].op \in Ops, writes'[i].by = writes'[j].by
      PROVE  i = j
  BY <1>3, <1>4, <1>5, <1>7 DEF WriteInv
<1> QED
  BY <1>6, <1>7 DEF WriteInv, WriteFits

\* The first change had its turn, and whoever waited for it waits no more.
LEMMA TurnTaken ==
    ASSUME TypeInv, WriteInv, writes # <<>>, writes' = Tail(writes),
           \A r \in Request : request[r].step = "writing" =>
               request'[r] = request[r] \/ (Change.op \in Ops /\ r = Change.by)
    PROVE  WriteInv'
<1>1. \A i \in DOMAIN writes' : i + 1 \in DOMAIN writes /\ writes'[i] = writes[i + 1]
  BY TurnTypes DEF TypeInv
<1>2. 1 \in DOMAIN writes /\ Change = writes[1]
  BY TurnTypes
<1>3. \A i \in DOMAIN writes' : i + 1 # 1 /\ i \in Int
  BY TurnTypes
<1>4. ASSUME NEW i \in DOMAIN writes', writes'[i].op \in Ops
      PROVE  writes'[i].by \in Request /\ request'[writes'[i].by].kind = writes'[i].op
             /\ request'[writes'[i].by].step = "writing"
  <2>1. writes[i + 1].by \in Request /\ request[writes[i + 1].by].step = "writing"
        /\ request[writes[i + 1].by].kind = writes[i + 1].op
    BY <1>1, <1>4 DEF WriteInv, WriteFits
  <2>2. ~(Change.op \in Ops /\ writes[i + 1].by = Change.by)
    BY <1>1, <1>2, <1>3, <1>4 DEF WriteInv
  <2> QED
    BY <1>1, <2>1, <2>2
<1>5. ASSUME NEW i \in DOMAIN writes', NEW j \in DOMAIN writes',
             writes'[i].op \in Ops, writes'[j].op \in Ops, writes'[i].by = writes'[j].by
      PROVE  i = j
  <2>1. i + 1 = j + 1
    BY <1>1, <1>5 DEF WriteInv
  <2> QED
    BY <1>3, <2>1
<1> QED
  BY <1>4, <1>5 DEF WriteInv, WriteFits

\* An observation in progress keeps its place.
LEMMA TurnBegun ==
    ASSUME TypeInv, writes # <<>>, NEW w \in WriteType, writes' = <<w>> \o Tail(writes)
    PROVE  /\ DOMAIN writes' = DOMAIN writes /\ writes'[1] = w
           /\ \A i \in DOMAIN writes : i # 1 => writes'[i] = writes[i]
<1>1. Tail(writes) \in Seq(WriteType) /\ Len(Tail(writes)) = Len(writes) - 1 /\ writes \in Seq(WriteType)
      /\ \A i \in 1 .. Len(Tail(writes)) : Tail(writes)[i] = writes[i + 1]
  BY TurnTypes DEF TypeInv
<1>2. Len(writes') = Len(writes) /\ writes'[1] = w /\ writes' \in Seq(WriteType)
  BY <1>1
<1>3. ASSUME NEW i \in DOMAIN writes, i # 1 PROVE writes'[i] = Tail(writes)[i - 1]
  BY <1>1, <1>3
<1>4. \A i \in DOMAIN writes : i # 1 => i - 1 \in 1 .. Len(Tail(writes)) /\ (i - 1) + 1 = i
  BY <1>1
<1> QED
  BY <1>1, <1>2, <1>3, <1>4

LEMMA WriteStepInv ==
    ASSUME TypeInv, RequestInv, WriteInv, [Next]_vars
    PROVE  WriteInv'
<1>1. CASE UNCHANGED <<writes, request>>
  BY <1>1 DEF WriteInv, WriteFits
<1>2. CASE ObserveApplies
  <2>1. writes # <<>> /\ Change.op = "observe" /\ UNCHANGED request
    BY <1>2 DEF ObserveApplies, Committing
  <2>2. CASE writes' = Tail(writes)
    BY <2>1, <2>2, TurnTaken
  <2>3. CASE writes' = <<[Change EXCEPT !.op = "observing"]>> \o Tail(writes)
    <3> DEFINE w == [Change EXCEPT !.op = "observing"]
    <3>1. w \in WriteType /\ w.op = "observing"
      BY <2>1, TurnTypes DEF WriteType
    <3> HIDE DEF w
    <3>2. /\ DOMAIN writes' = DOMAIN writes /\ writes'[1] = w
          /\ \A i \in DOMAIN writes : i # 1 => writes'[i] = writes[i]
      BY <2>1, <2>3, <3>1, TurnBegun DEF w
    <3>3. "observing" \notin Ops
      BY DEF Ops
    <3> QED
      BY <2>1, <3>1, <3>2, <3>3 DEF WriteInv, WriteFits
  <2> QED
    BY <1>2, <2>2, <2>3 DEF ObserveApplies
<1>3. ASSUME NEW r \in Request, RequestStep(r) PROVE WriteInv'
  <2>1. ASSUME NEW kind \in Ops, NEW to \in Status, CallChange(r, kind, to) PROVE WriteInv'
    BY <2>1, ChangeBehind
  <2>2. CASE CallReset(r) \/ CallDisconnect(r) \/ LogoutEnds(r) \/ ClearEnds(r) \/ ClearFails(r) \/ BootConnects(r)
    <3>1. UNCHANGED writes
      BY <2>2 DEF CallReset, CallDisconnect, LogoutEnds, ClearEnds, ClearFails, BootConnects
    <3>2. \A q \in Request : q # r => request'[q] = request[q]
      BY <2>2 DEF TypeInv, CallReset, Enter, CallDisconnect, BeginLogout, LogoutEnds, ClearEnds, ClearFails, BootConnects
    <3>3. request[r].step # "writing"
      <4>1. CASE CallReset(r) \/ CallDisconnect(r)
        BY <4>1 DEF CallReset, Enter, CallDisconnect, Idle
      <4>2. CASE LogoutEnds(r) \/ ClearEnds(r) \/ ClearFails(r)
        BY <4>2 DEF LogoutEnds, ClearEnds, ClearFails
      <4>3. CASE BootConnects(r)
        BY <4>3 DEF BootConnects, RequestInv, RequestFits, Ops
      <4> QED
        BY <2>2, <4>1, <4>2, <4>3
    <3> QED
      BY <3>1, <3>2, <3>3, WritesBehind
  <2> QED
    BY <1>3, <2>1, <2>2 DEF RequestStep, CallUpdate, CallDelete, CallCreate, Ops, Status, AccountStatus
<1>4. CASE RepositoryStep
  <2>1. writes # <<>> /\ writes' = Tail(writes)
    BY <1>4 DEF RepositoryStep, CommitUpdate, CommitDelete, CommitCreate, ChangeRefused, ObserveEnds, Committing, Committed
  <2>2. CASE UNCHANGED request
    BY <2>1, <2>2, TurnTaken
  <2>3. CASE CommitUpdate \/ CommitDelete \/ CommitCreate \/ ChangeRefused
    <3>1. Change.op \in Ops
      BY <2>3 DEF CommitUpdate, CommitDelete, CommitCreate, ChangeRefused, Committing, Ops
    <3>2. \A q \in Request : q # Change.by => request'[q] = request[q]
      BY <2>3 DEF TypeInv, CommitUpdate, CommitDelete, CommitCreate, ChangeRefused, BeginLogout
    <3> QED
      BY <2>1, <3>1, <3>2, TurnTaken
  <2> QED
    BY <1>4, <2>2, <2>3 DEF RepositoryStep, ObserveEnds
<1>5. CASE Restart
  BY <1>5 DEF Restart, WriteInv
<1>6. CASE \/ OpenFails \/ \E s \in Socket : SocketStep(s)
  <2>1. UNCHANGED request /\ (Observes("auth_expired") \/ Observes("active"))
    BY <1>6, NotifiedWrites DEF OpenFails, SocketStep, SocketOpens, SocketDrops, SocketLoses
  <2>2. \A st \in {"auth_expired", "active"} : [op |-> "observe", to |-> st, by |-> "event"] \in WriteType
    BY DEF WriteType, Status, AccountStatus
  <2> QED
    BY <2>1, <2>2, WritesBehind DEF Observes
<1>7. CASE HealthCheck
  <2>1. PICK found \in Status : writes' = Append(writes, [op |-> "observe", to |-> found, by |-> "check"])
    <3>1. \A m : Verdict(m) \subseteq Status
      BY DEF TypeInv, Verdict, Status, AccountStatus
    <3> QED
      BY <1>7, <3>1 DEF HealthCheck, Status, AccountStatus
  <2>2. [op |-> "observe", to |-> found, by |-> "check"] \in WriteType
    BY DEF WriteType
  <2> QED
    BY <1>7, <2>1, <2>2, WritesBehind DEF HealthCheck
<1>8. CASE OpenEnds \/ TimerFires \/ CallConnect \/ CallPair \/ Shutdown \/ UNCHANGED vars
  BY <1>1, <1>8 DEF OpenEnds, TimerFires, CallConnect, CallPair, Shutdown, vars
<1> QED
  BY <1>2, <1>3, <1>4, <1>5, <1>6, <1>7, <1>8 DEF Next

---------------------------------------------------------------------------
\* Sockets, handlers, and logouts

---------------------------------------------------------------------------
\* Sockets and handlers

ManagerInv == SocketInv /\ WiredInv

\* The sockets stay, and so does the one the manager knows.
LEMMA SocketKept ==
    ASSUME SocketInv, UNCHANGED <<socket, stray>>, manager'.entry = manager.entry,
           manager'.opening # "no" => manager'.entry = NoSocket /\ ~manager'.timer,
           manager'.timer => manager.timer \/ manager'.entry = NoSocket
    PROVE  SocketInv'
BY DEF SocketInv, OneSocket, Live

\* The socket the manager knows is closed.
LEMMA SocketsShut ==
    ASSUME TypeInv, SocketInv, socket' = Shut(socket, manager.entry), UNCHANGED stray, manager'.entry = NoSocket,
           manager'.opening # "no" => ~manager'.timer
    PROVE  SocketInv'
BY DEF TypeInv, SocketInv, OneSocket, Live, Shut, SocketStates

\* Nothing new is held, and who has no handlers stays closed.
LEMMA WiredKept ==
    ASSUME WiredInv, late => late', Held(manager') => Held(manager),
           manager.wired => manager'.wired \/ manager'.ended = "closed",
           manager.ended = "closed" => manager'.ended = "closed"
    PROVE  WiredInv'
BY DEF WiredInv, Held

\* What connecting makes of a manager.
LEMMA ConnectingKeeps ==
    ASSUME NEW m \in ManagerType, NEW who \in {"asked", "retry"},
           m.opening # "no" => m.entry = NoSocket /\ ~m.timer
    PROVE  LET n == Connecting(m, who) IN
           /\ n.entry = m.entry /\ n.wired = m.wired
           /\ n.opening # "no" => n.entry = NoSocket /\ ~n.timer
           /\ n.timer => m.timer
BY DEF Connecting, HasSocket, ManagerType

LEMMA WiredConnecting ==
    ASSUME SocketInv, UNCHANGED <<socket, stray>>,
           NEW k \in ManagerType, k.entry = manager.entry, k.opening = manager.opening, k.timer = manager.timer,
           manager' = ConnectingWired(k)
    PROVE  ManagerInv'
<1> DEFINE m == Registered(k)
<1>1. /\ m \in ManagerType /\ m.wired = TRUE
      /\ m.entry = manager.entry /\ m.opening = manager.opening /\ m.timer = manager.timer
  BY ManagerTypes DEF Registered, ManagerType
<1>2. manager' = Connecting(m, "asked")
  BY DEF ConnectingWired
<1> HIDE DEF m
<1>3. /\ manager'.entry = manager.entry /\ manager'.wired = TRUE
      /\ manager'.opening # "no" => manager'.entry = NoSocket /\ ~manager'.timer
      /\ manager'.timer => manager.timer
  BY <1>1, <1>2, ConnectingKeeps DEF SocketInv
<1>4. SocketInv'
  BY <1>3, SocketKept
<1>5. WiredInv'
  BY <1>3 DEF WiredInv
<1> QED
  BY <1>4, <1>5 DEF ManagerInv

\* reconnect(), when the socket there was is none that lives.
LEMMA ReconnectingKeeps ==
    ASSUME NEW m \in ManagerType, m.opening = "no", ~m.timer
    PROVE  LET n == Reconnecting(m) IN
           /\ n = m \/ (n.entry = NoSocket /\ m.ended = "no")
           /\ m.ended # "no" => n = m
           /\ n.wired = m.wired /\ ~n.timer
           /\ n.opening # "no" => n.entry = NoSocket
<1> DEFINE k == [m EXCEPT !.entry = NoSocket]
<1>1. k \in ManagerType /\ k.entry = NoSocket /\ k.wired = m.wired /\ k.opening = "no" /\ ~k.timer
  BY DEF ManagerType
<1> HIDE DEF k
<1>2. CASE m.clearing \/ m.ended # "no"
  BY <1>2 DEF Reconnecting
<1>3. CASE ~(m.clearing \/ m.ended # "no")
  <2>1. Reconnecting(m) = Connecting(k, "retry") /\ m.ended = "no"
    BY <1>3 DEF Reconnecting, k
  <2> QED
    BY <1>1, <2>1, ConnectingKeeps
<1> QED
  BY <1>2, <1>3

\* Nothing happens to the sockets or to what the manager keeps.
LEMMA SameManager ==
    ASSUME ManagerInv, UNCHANGED <<manager, socket, stray>>, late => late'
    PROVE  ManagerInv'
<1>1. SocketInv'
  BY DEF ManagerInv, SocketInv, OneSocket, Live
<1>2. WiredInv'
  BY DEF ManagerInv, WiredInv, Held
<1> QED
  BY <1>1, <1>2 DEF ManagerInv

LEMMA ManagerInit ==
    ASSUME Init
    PROVE  ManagerInv
<1>1. manager = Fresh /\ \A s \in Socket : socket[s] = "none"
  BY DEF Init
<1> QED
  BY <1>1 DEF Fresh, ManagerInv, SocketInv, OneSocket, Live, WiredInv, Held

LEMMA OpenEndsManager ==
    ASSUME ConnectionInv, OpenEnds
    PROVE  ManagerInv'
<1> USE DEF ConnectionInv
<1>1. /\ manager.opening # "no" /\ manager.entry = NoSocket /\ manager.timer = FALSE
      /\ Held(manager) /\ NoSocket \notin Socket
  BY ConnectionAssumption DEF OpenEnds, SocketInv, Held, TypeInv, ManagerType
<1>2. UNCHANGED <<stray, late>>
  BY DEF OpenEnds, history
<1>3. CASE closed \/ manager.ended = "closed"
  <2>1. manager' = [manager EXCEPT !.opening = "no"] /\ UNCHANGED socket
    BY <1>3 DEF OpenEnds
  <2>2. /\ manager'.entry = manager.entry /\ manager'.opening = "no" /\ manager'.timer = FALSE
        /\ manager'.wired = manager.wired /\ manager'.ended = manager.ended
    BY <1>1, <2>1 DEF TypeInv, ManagerType
  <2> QED
    BY <1>1, <1>2, <2>1, <2>2, SocketKept, WiredKept DEF ManagerInv
<1>4. CASE ~(closed \/ manager.ended = "closed")
  <2>1. PICK s \in FreeSocket : /\ socket' = [socket EXCEPT ![s] = "connecting"]
                                /\ manager' = [manager EXCEPT !.opening = "no", !.entry = s]
    BY <1>4, NamedSocket
  <2>2. /\ s \in Socket /\ manager'.entry = s /\ manager'.opening = "no" /\ manager'.timer = FALSE
        /\ manager'.wired = manager.wired /\ manager'.ended = manager.ended
    BY <1>1, <2>1 DEF TypeInv, ManagerType, FreeSocket
  <2>3. \A x \in Socket : x # s => socket'[x] = socket[x]
    BY <2>1 DEF TypeInv
  <2>4. SocketInv'
    BY <1>1, <1>2, <2>2, <2>3 DEF SocketInv, OneSocket, Live
  <2>5. WiredInv'
    BY <1>1, <1>2, <2>2, WiredKept
  <2> QED
    BY <2>4, <2>5 DEF ManagerInv
<1> QED
  BY <1>3, <1>4

LEMMA OpenFailsManager ==
    ASSUME ConnectionInv, OpenFails
    PROVE  ManagerInv'
<1> USE DEF ConnectionInv
<1>1. /\ manager'.entry = manager.entry /\ manager'.opening = "no" /\ manager.opening # "no"
      /\ manager'.wired = manager.wired /\ manager'.ended = manager.ended
      /\ manager.entry = NoSocket /\ Held(manager)
  BY DEF OpenFails, TypeInv, ManagerType, SocketInv, Held
<1>2. UNCHANGED <<socket, stray, late>>
  BY DEF OpenFails, history
<1> QED
  BY <1>1, <1>2, SocketKept, WiredKept DEF ManagerInv

\* A socket that opens, drops or loses its session, the one the manager knows or another.
LEMMA SocketStepManager ==
    ASSUME ConnectionInv, NEW s \in Socket, SocketStep(s)
    PROVE  ManagerInv'
<1> USE DEF ConnectionInv
<1>1. Live(s) /\ NoSocket \notin Socket /\ UNCHANGED late /\ manager.entry \in Socket \union {NoSocket}
  BY ConnectionAssumption DEF SocketStep, SocketOpens, SocketDrops, SocketLoses, Live, history, TypeInv, ManagerType
<1>2. \A x \in Socket : x # s => socket'[x] = socket[x] /\ (x \in stray => x \in stray')
  BY DEF SocketStep, SocketOpens, SocketDrops, SocketLoses, TypeInv, history
<1>3. s = manager.entry => ~manager.timer /\ manager.opening = "no" /\ Held(manager)
  BY <1>1 DEF SocketInv, Live, Held
<1>4. CASE SocketOpens(s)
  <2>1. UNCHANGED <<manager, stray>> /\ socket'[s] = "open"
    BY <1>4 DEF SocketOpens, history, TypeInv
  <2>2. SocketInv'
    BY <1>1, <1>2, <1>3, <2>1 DEF SocketInv, OneSocket, Live
  <2>3. WiredInv'
    BY <1>1, <2>1, WiredKept
  <2> QED
    BY <2>2, <2>3 DEF ManagerInv
<1>5. CASE s # manager.entry /\ (SocketDrops(s) \/ SocketLoses(s))
  <2>1. UNCHANGED manager /\ socket'[s] = "none"
    BY <1>5 DEF SocketDrops, SocketLoses, TypeInv
  <2>2. SocketInv'
    BY <1>1, <1>2, <1>5, <2>1 DEF SocketInv, OneSocket, Live
  <2>3. WiredInv'
    BY <1>1, <2>1, WiredKept
  <2> QED
    BY <2>2, <2>3 DEF ManagerInv
<1>6. CASE s = manager.entry /\ SocketDrops(s)
  <2>1. CASE Retry /\ ~manager.clearing
    <3>1. socket' = [socket EXCEPT ![s] = "dead"] /\ manager' = [manager EXCEPT !.timer = TRUE]
      BY <1>6, <2>1 DEF SocketDrops
    <3>2. /\ socket'[s] = "dead" /\ manager'.entry = s /\ manager'.opening = "no"
          /\ manager'.wired = manager.wired /\ manager'.ended = manager.ended
      BY <1>3, <1>6, <3>1 DEF TypeInv, ManagerType
    <3>3. SocketInv'
      BY <1>1, <1>2, <1>6, <3>2 DEF SocketInv, OneSocket, Live
    <3>4. WiredInv'
      BY <1>1, <1>3, <1>6, <3>2, WiredKept
    <3> QED
      BY <3>3, <3>4 DEF ManagerInv
  <2>2. CASE ~(Retry /\ ~manager.clearing)
    <3>1. /\ socket' = [socket EXCEPT ![s] = "none"]
          /\ manager' = [manager EXCEPT !.timer = FALSE, !.entry = NoSocket]
      BY <1>6, <2>2 DEF SocketDrops
    <3>2. /\ socket'[s] = "none" /\ manager'.entry = NoSocket /\ manager'.opening = "no" /\ ~manager'.timer
          /\ manager'.wired = manager.wired /\ manager'.ended = manager.ended
      BY <1>3, <1>6, <3>1 DEF TypeInv, ManagerType
    <3>3. SocketInv'
      BY <1>1, <1>2, <1>6, <3>2 DEF SocketInv, OneSocket, Live
    <3>4. WiredInv'
      BY <1>1, <1>3, <1>6, <3>2, WiredKept
    <3> QED
      BY <3>3, <3>4 DEF ManagerInv
  <2> QED
    BY <2>1, <2>2
<1>7. CASE s = manager.entry /\ SocketLoses(s)
  <2>1. /\ socket' = [socket EXCEPT ![s] = "none"]
        /\ manager' = [manager EXCEPT !.timer = FALSE, !.entry = NoSocket,
                                      !.ended = IF @ = "no" THEN "session_lost" ELSE @]
    BY <1>7 DEF SocketLoses
  <2>2. /\ socket'[s] = "none" /\ ~manager'.timer /\ manager'.entry = NoSocket /\ manager'.opening = "no"
        /\ manager'.wired = manager.wired /\ manager.ended = "closed" => manager'.ended = "closed"
    BY <1>3, <1>7, <2>1 DEF TypeInv, ManagerType
  <2>3. SocketInv'
    BY <1>1, <1>2, <1>7, <2>2 DEF SocketInv, OneSocket, Live
  <2>4. WiredInv'
    BY <1>1, <1>3, <1>7, <2>1, <2>2, WiredKept DEF TypeInv, ManagerType
  <2> QED
    BY <2>3, <2>4 DEF ManagerInv
<1> QED
  BY <1>4, <1>5, <1>6, <1>7 DEF SocketStep

LEMMA TimerFiresManager ==
    ASSUME ConnectionInv, TimerFires
    PROVE  ManagerInv'
<1> USE DEF ConnectionInv
<1> DEFINE m == [manager EXCEPT !.timer = FALSE]
<1>1. /\ m \in ManagerType /\ m.opening = "no" /\ ~m.timer
      /\ m.entry = manager.entry /\ m.ended = manager.ended /\ m.wired = manager.wired
  BY DEF TimerFires, SocketInv, TypeInv, ManagerType
<1>2. manager' = Reconnecting(m)
  BY DEF TimerFires
<1> HIDE DEF m
<1>3. /\ manager' = m \/ (manager'.entry = NoSocket /\ manager.ended = "no")
      /\ manager.ended # "no" => manager' = m
      /\ manager'.wired = manager.wired /\ ~manager'.timer
      /\ manager'.opening # "no" => manager'.entry = NoSocket
  BY <1>1, <1>2, ReconnectingKeeps
<1>4. Held(manager) /\ UNCHANGED <<stray, late>> /\ NoSocket \notin Socket
      /\ (manager.entry = NoSocket \/ socket[manager.entry] = "dead")
  BY ConnectionAssumption DEF TimerFires, SocketInv, Held, history
<1>5. \A x \in Socket : /\ socket'[x] = socket[x] \/ socket'[x] = "none"
                        /\ Live(x) => x \in stray
  BY <1>4 DEF TimerFires, Dropped, SocketInv, OneSocket, Live
<1>6. SocketInv'
  BY <1>1, <1>3, <1>4, <1>5 DEF SocketInv, OneSocket, Live
<1>7. manager.ended = "closed" => manager'.ended = "closed"
  BY <1>1, <1>3
<1>8. WiredInv'
  BY <1>3, <1>4, <1>7, WiredKept
<1> QED
  BY <1>6, <1>8 DEF ManagerInv

\* A logout begins.
LEMMA LogoutBegunManager ==
    ASSUME ConnectionInv, NEW r \in Request, NEW kind \in {"delete", "logout"},
           BeginLogout(r, kind), UNCHANGED <<socket, stray, late>>
    PROVE  ManagerInv' /\ manager'.ended = "closed" /\ manager'.entry = manager.entry
<1> USE DEF ConnectionInv
<1>1. /\ manager'.ended = "closed" /\ ~manager'.timer
      /\ manager'.opening = manager.opening /\ manager'.entry = manager.entry
  BY LogoutBegun DEF LoggingOut, Clearing, TypeInv, ManagerType
<1>2. SocketInv'
  BY <1>1, SocketKept DEF SocketInv
<1>3. WiredInv'
  BY <1>1 DEF WiredInv
<1> QED
  BY <1>1, <1>2, <1>3 DEF ManagerInv

\* Its wait is over: what the account has by then goes astray if it is open.
LEMMA LogoutEndsManager ==
    ASSUME ConnectionInv, NEW r \in Request, LogoutEnds(r)
    PROVE  ManagerInv'
<1> USE DEF ConnectionInv
<1>1. /\ manager'.entry = NoSocket /\ ~manager'.timer
      /\ manager'.ended = manager.ended /\ manager'.opening = manager.opening /\ manager'.wired = manager.wired
      /\ UNCHANGED late
  BY DEF LogoutEnds, Clearing, TypeInv, ManagerType
<1>2. \A x \in Socket : socket'[x] = socket[x] \/ socket'[x] = "none"
  BY DEF LogoutEnds, Dropped, Shut
<1>3. \A x \in Socket : /\ x \in stray => x \in stray'
                        /\ x = manager.entry /\ socket'[x] # "none" => x \in stray'
  BY DEF LogoutEnds
<1>4. \A x \in Socket : socket'[x] \in {"connecting", "open"} => x \in stray'
  BY <1>2, <1>3 DEF SocketInv, OneSocket, Live
<1>5. SocketInv'
  BY <1>1, <1>4 DEF SocketInv, OneSocket, Live
<1>6. WiredInv'
  BY <1>1, WiredKept DEF Held
<1> QED
  BY <1>5, <1>6 DEF ManagerInv

\* What a clearing leaves of the manager, but for a reset that connects.
LEMMA ClearedManager ==
    ASSUME ConnectionInv, UNCHANGED <<socket, stray>>,
           \/ manager' = [manager EXCEPT !.clearing = FALSE]
           \/ manager' = Forgotten([manager EXCEPT !.clearing = FALSE]),
           late \in BOOLEAN, late' = (late \/ Revived(manager'))
    PROVE  /\ ManagerInv'
           /\ manager'.entry = manager.entry /\ (Held(manager') => Held(manager))
           /\ manager.ended = "closed" /\ ~late' /\ Held(manager') => manager'.ended = "closed"
<1> USE DEF ConnectionInv
<1>1. /\ manager'.entry = manager.entry /\ manager'.opening = manager.opening
      /\ manager'.timer = manager.timer /\ manager'.wired = manager.wired
      /\ manager'.ended = manager.ended \/ (manager'.ended = "no" /\ manager.opening = "no")
  BY DEF Forgotten, TypeInv, ManagerType
<1>2. SocketInv'
  BY <1>1, SocketKept DEF SocketInv
<1>3. Held(manager') => Held(manager)
  BY <1>1 DEF Held
<1>4. ASSUME manager.ended = "closed", ~late', Held(manager') PROVE manager'.ended = "closed"
  BY <1>1, <1>4 DEF Held, Revived, HasSocket
<1>5. WiredInv'
  BY <1>1, <1>3, <1>4 DEF WiredInv
<1> QED
  BY <1>1, <1>2, <1>3, <1>4, <1>5 DEF ManagerInv

LEMMA ClearManager ==
    ASSUME ConnectionInv, NEW r \in Request, ClearEnds(r) \/ ClearFails(r)
    PROVE  ManagerInv'
<1> USE DEF ConnectionInv
<1> DEFINE cleared == [manager EXCEPT !.clearing = FALSE]
<1>1. UNCHANGED <<socket, stray>> /\ late \in BOOLEAN
  BY DEF ClearEnds, ClearFails, TypeInv
<1>2. CASE ClearEnds(r) /\ request[r].kind = "reset"
  <2>1. cleared \in ManagerType /\ cleared.entry = manager.entry
        /\ cleared.opening = manager.opening /\ cleared.timer = manager.timer
    BY DEF TypeInv, ManagerType
  <2>2. manager' = ConnectingWired(cleared)
    BY <1>2 DEF ClearEnds
  <2> HIDE DEF cleared
  <2> QED
    BY <1>1, <2>1, <2>2, WiredConnecting
<1>3. CASE ~(ClearEnds(r) /\ request[r].kind = "reset")
  <2>1. request[r].kind \in {"delete", "logout", "reset"}
    BY DEF ClearEnds, ClearFails, RequestInv, RequestFits
  <2>2. /\ manager' = cleared \/ manager' = Forgotten(cleared)
        /\ late' = (late \/ Revived(manager'))
    BY <1>3, <2>1 DEF ClearEnds, ClearFails
  <2> QED
    BY <1>1, <2>2, ClearedManager
<1> QED
  BY <1>2, <1>3

\* POST connect and pair, and the boot.
LEMMA ConnectManager ==
    ASSUME ConnectionInv, CallConnect \/ CallPair \/ \E r \in Request : BootConnects(r)
    PROVE  ManagerInv'
BY WiredConnecting DEF CallConnect, CallPair, BootConnects, ConnectionInv, TypeInv, history

LEMMA RequestManager ==
    ASSUME ConnectionInv, NEW r \in Request, RequestStep(r)
    PROVE  ManagerInv'
<1> USE DEF ConnectionInv
<1>1. CASE CallReset(r)
  <2>1. /\ socket' = Shut(socket, manager.entry) /\ manager'.entry = NoSocket /\ ~manager'.timer
        /\ manager'.opening = manager.opening /\ manager'.ended = manager.ended /\ manager'.wired = manager.wired
        /\ UNCHANGED <<stray, late>>
    BY <1>1 DEF CallReset, Clearing, TypeInv, ManagerType, history
  <2>2. SocketInv'
    BY <2>1, SocketsShut
  <2>3. WiredInv'
    BY <2>1, WiredKept DEF Held
  <2> QED
    BY <2>2, <2>3 DEF ManagerInv
<1>2. CASE CallDisconnect(r)
  BY <1>2, LogoutBegunManager DEF CallDisconnect, history
<1>3. CASE \E kind \in Ops, to \in Status : CallChange(r, kind, to)
  BY <1>3, SameManager DEF CallChange, history, ManagerInv
<1>4. CASE LogoutEnds(r)
  BY <1>4, LogoutEndsManager
<1>5. CASE ClearEnds(r) \/ ClearFails(r)
  BY <1>5, ClearManager
<1>6. CASE BootConnects(r)
  BY <1>6, ConnectManager
<1> QED
  BY <1>1, <1>2, <1>3, <1>4, <1>5, <1>6
  DEF RequestStep, CallUpdate, CallDelete, CallCreate, Ops, Status, AccountStatus

LEMMA RepositoryManager ==
    ASSUME ConnectionInv, RepositoryStep
    PROVE  ManagerInv'
<1> USE DEF ConnectionInv
<1>1. CASE CommitUpdate
  <2>1. UNCHANGED stray
    BY <1>1 DEF CommitUpdate
  <2>2. CASE manager' = ConnectionClosed(manager) /\ socket' = Shut(socket, manager.entry)
    <3>1. manager'.entry = NoSocket /\ ~manager'.timer /\ manager'.ended = "closed"
      BY <2>2 DEF ConnectionClosed, TypeInv, ManagerType
    <3>2. SocketInv'
      BY <2>1, <2>2, <3>1, SocketsShut
    <3>3. WiredInv'
      BY <3>1 DEF WiredInv
    <3> QED
      BY <3>2, <3>3 DEF ManagerInv
  <2>3. CASE manager' = ConnectingWired(manager) /\ UNCHANGED socket
    BY <2>1, <2>3, WiredConnecting DEF TypeInv
  <2>4. CASE UNCHANGED <<manager, socket>> /\ (late => late')
    BY <2>1, <2>4, SameManager DEF ManagerInv
  <2> QED
    BY <1>1, <2>2, <2>3, <2>4 DEF CommitUpdate
<1>2. CASE CommitDelete
  <2>1. Change.by \in Request
    BY <1>2, TurnIsOf DEF CommitDelete, Committing, Ops
  <2> QED
    BY <1>2, <2>1, LogoutBegunManager DEF CommitDelete, history
<1>3. CASE CommitCreate
  <2>1. /\ manager'.entry = manager.entry /\ manager'.opening = manager.opening
        /\ manager'.timer = manager.timer /\ manager'.wired = TRUE /\ UNCHANGED <<socket, stray>>
    BY <1>3 DEF CommitCreate, Registered, TypeInv, ManagerType, history
  <2>2. SocketInv'
    BY <2>1, SocketKept DEF SocketInv
  <2>3. WiredInv'
    BY <2>1 DEF WiredInv
  <2> QED
    BY <2>2, <2>3 DEF ManagerInv
<1>4. CASE ChangeRefused \/ ObserveEnds
  BY <1>4, SameManager DEF ChangeRefused, ObserveEnds, history, ManagerInv
<1> QED
  BY <1>1, <1>2, <1>3, <1>4 DEF RepositoryStep

\* A check that reconnects finds handlers, and nothing that connects already.
LEMMA EnsuredKeeps ==
    ASSUME NEW m \in ManagerType
    PROVE  LET n == Ensured(m) IN
           n = m \/ (/\ m.entry = NoSocket /\ n.entry = NoSocket /\ ~n.timer
                     /\ m.wired /\ n.wired /\ m.ended = "no")
<1>1. CASE Ensured(m) = m
  BY <1>1
<1>2. CASE Ensured(m) # m
  <2>1. Ensured(m) = Reconnecting(m) /\ m.opening = "no" /\ ~m.timer /\ m.ended = "no" /\ m.wired /\ m.entry = NoSocket
    BY <1>2 DEF Ensured, HasSocket
  <2>2. Reconnecting(m).entry = NoSocket
    BY <1>2, <2>1, ReconnectingKeeps
  <2> QED
    BY <2>1, <2>2, ReconnectingKeeps
<1> QED
  BY <1>1, <1>2

LEMMA HealthCheckManager ==
    ASSUME ConnectionInv, HealthCheck
    PROVE  ManagerInv'
<1> USE DEF ConnectionInv
<1>1. UNCHANGED <<socket, stray, late>> /\ manager \in ManagerType
  BY DEF HealthCheck, history, TypeInv
<1>2. manager' = manager \/ manager' = Ensured(manager)
  BY DEF HealthCheck
<1>3. CASE manager' = manager
  BY <1>1, <1>3, SameManager DEF ManagerInv
<1>4. CASE manager' # manager
  <2>1. /\ manager.entry = NoSocket /\ manager'.entry = NoSocket /\ ~manager'.timer /\ manager'.wired
    BY <1>1, <1>2, <1>4, EnsuredKeeps
  <2>2. SocketInv'
    BY <1>1, <2>1, SocketKept
  <2>3. WiredInv'
    BY <2>1 DEF WiredInv
  <2> QED
    BY <2>2, <2>3 DEF ManagerInv
<1> QED
  BY <1>3, <1>4

LEMMA HostManager ==
    ASSUME ConnectionInv, Shutdown \/ Restart
    PROVE  ManagerInv'
<1> USE DEF ConnectionInv
<1>1. CASE Shutdown
  <2>1. /\ socket' = Shut(socket, manager.entry) /\ manager'.entry = NoSocket /\ ~manager'.timer
        /\ manager'.opening = manager.opening /\ manager'.ended = manager.ended /\ manager'.wired = manager.wired
        /\ UNCHANGED <<stray, late>>
    BY <1>1 DEF Shutdown, TypeInv, ManagerType, history
  <2>2. SocketInv'
    BY <2>1, SocketsShut
  <2>3. WiredInv'
    BY <2>1, WiredKept DEF Held
  <2> QED
    BY <2>2, <2>3 DEF ManagerInv
<1>2. CASE Restart
  <2>1. manager' = Fresh /\ \A s \in Socket : socket'[s] = "none"
    BY <1>2 DEF Restart
  <2> QED
    BY <2>1 DEF Fresh, ManagerInv, SocketInv, OneSocket, Live, WiredInv, Held
<1> QED
  BY <1>1, <1>2

LEMMA ConnectionInvStep ==
    ASSUME ConnectionInv, [Next]_vars
    PROVE  ConnectionInv'
<1>1. TypeInv' /\ RequestInv' /\ WriteInv'
  BY TypeStep, RequestStepInv, WriteStepInv DEF ConnectionInv
<1>2. ManagerInv'
  <2>1. CASE ObserveApplies
    <3>1. UNCHANGED <<manager, socket, stray>> /\ (late => late')
      BY <2>1 DEF ObserveApplies
    <3> QED
      BY <3>1, SameManager DEF ConnectionInv, ManagerInv
  <2>2. CASE UNCHANGED vars
    BY <2>2, SameManager DEF vars, history, ConnectionInv, ManagerInv
  <2> QED
    BY <2>1, <2>2, RequestManager, SocketStepManager, RepositoryManager, OpenEndsManager, OpenFailsManager,
       TimerFiresManager, ConnectManager, HealthCheckManager, HostManager DEF Next
<1> QED
  BY <1>1, <1>2 DEF ConnectionInv, ManagerInv

LEMMA Connected == Spec => []ConnectionInv
<1>1. Init => ConnectionInv
  <2>1. Init => WriteInv
    BY DEF Init, WriteInv
  <2> QED
    BY <2>1, TypeInit, RequestInit, ManagerInit DEF ConnectionInv, ManagerInv
<1> QED
  BY <1>1, ConnectionInvStep, PTL DEF Spec

---------------------------------------------------------------------------
\* Accounts that are to have no connection

\* Observations join the queue, and none of them is of no account.
LEMMA QueueBehind ==
    ASSUME TypeInv, QueueInv,
           \/ writes' = writes
           \/ \E w \in WriteType : /\ writes' = Append(writes, w)
                                   /\ w.op # "observing" => (w.to = "none") = (w.op = "delete")
    PROVE  QueueInv'
<1>1. CASE writes' = writes
  BY <1>1 DEF QueueInv
<1>2. ASSUME NEW w \in WriteType, writes' = Append(writes, w),
             w.op # "observing" => (w.to = "none") = (w.op = "delete")
      PROVE  QueueInv'
  <2>1. \A i \in DOMAIN writes' : (i \in DOMAIN writes /\ writes'[i] = writes[i]) \/ writes'[i] = w
    BY <1>2 DEF TypeInv
  <2> QED
    BY <1>2, <2>1 DEF QueueInv
<1> QED
  BY <1>1, <1>2

LEMMA QueueTaken ==
    ASSUME TypeInv, QueueInv, writes # <<>>, writes' = Tail(writes)
    PROVE  QueueInv'
<1>1. \A i \in DOMAIN writes' : i + 1 \in DOMAIN writes /\ writes'[i] = writes[i + 1]
  BY TurnTypes DEF TypeInv
<1> QED
  BY <1>1 DEF QueueInv

LEMMA QueueStep ==
    ASSUME ConnectionInv, QueueInv, [Next]_vars
    PROVE  QueueInv'
<1> USE DEF ConnectionInv
<1>1. CASE UNCHANGED writes
  BY <1>1 DEF QueueInv
<1>2. CASE ObserveApplies
  <2>1. writes # <<>> /\ Change.op = "observe"
    BY <1>2 DEF ObserveApplies, Committing
  <2>2. CASE writes' = Tail(writes)
    BY <2>1, <2>2, QueueTaken
  <2>3. CASE writes' = <<[Change EXCEPT !.op = "observing"]>> \o Tail(writes)
    <3> DEFINE w == [Change EXCEPT !.op = "observing"]
    <3>1. w \in WriteType /\ w.op = "observing"
      BY <2>1, TurnTypes DEF WriteType
    <3>2. /\ DOMAIN writes' = DOMAIN writes /\ writes'[1] = w
          /\ \A i \in DOMAIN writes : i # 1 => writes'[i] = writes[i]
      BY <2>1, <2>3, <3>1, TurnBegun
    <3> HIDE DEF w
    <3> QED
      BY <3>1, <3>2 DEF QueueInv
  <2> QED
    BY <1>2, <2>2, <2>3 DEF ObserveApplies
<1>3. ASSUME NEW r \in Request, RequestStep(r) PROVE QueueInv'
  <2>1. ASSUME NEW kind \in Ops, NEW to \in Status, (to = "none") = (kind = "delete"), CallChange(r, kind, to)
        PROVE  QueueInv'
    <3> DEFINE w == [op |-> kind, to |-> to, by |-> r]
    <3>1. w \in WriteType /\ w.op = kind /\ w.to = to
      BY DEF WriteType
    <3>2. writes' = Append(writes, w)
      BY <2>1 DEF CallChange
    <3> HIDE DEF w
    <3> QED
      BY <2>1, <3>1, <3>2, QueueBehind
  <2>2. CASE CallReset(r) \/ CallDisconnect(r) \/ LogoutEnds(r) \/ ClearEnds(r) \/ ClearFails(r) \/ BootConnects(r)
    BY <1>1, <2>2 DEF CallReset, CallDisconnect, LogoutEnds, ClearEnds, ClearFails, BootConnects
  <2> QED
    BY <1>3, <2>1, <2>2 DEF RequestStep, CallUpdate, CallDelete, CallCreate, Ops, Status, AccountStatus
<1>4. CASE RepositoryStep
  <2>1. writes # <<>> /\ writes' = Tail(writes)
    BY <1>4 DEF RepositoryStep, CommitUpdate, CommitDelete, CommitCreate, ChangeRefused, ObserveEnds, Committing, Committed
  <2> QED
    BY <2>1, QueueTaken
<1>5. CASE Restart
  BY <1>5 DEF Restart, QueueInv
<1>6. CASE OpenFails \/ \E s \in Socket : SocketStep(s)
  <2>1. Observes("auth_expired") \/ Observes("active")
    BY <1>6, NotifiedWrites DEF OpenFails, SocketStep, SocketOpens, SocketDrops, SocketLoses
  <2>2. ASSUME NEW st \in {"auth_expired", "active"}, Observes(st) PROVE QueueInv'
    <3> DEFINE w == [op |-> "observe", to |-> st, by |-> "event"]
    <3>1. w \in WriteType /\ w.op = "observe" /\ w.to # "none"
      BY DEF WriteType, Status, AccountStatus
    <3>2. writes' = writes \/ writes' = Append(writes, w)
      BY <2>2 DEF Observes
    <3> HIDE DEF w
    <3> QED
      BY <3>1, <3>2, QueueBehind
  <2> QED
    BY <2>1, <2>2
<1>7. CASE HealthCheck
  <2>1. PICK found \in Status : /\ writes' = Append(writes, [op |-> "observe", to |-> found, by |-> "check"])
                                /\ found # "none"
    <3>1. \A m : \A found \in Verdict(m) : found \in Status /\ found # "none"
      BY <1>7 DEF TypeInv, Verdict, Status, AccountStatus, HealthCheck
    <3> QED
      BY <1>7, <3>1 DEF HealthCheck, Status, AccountStatus
  <2> DEFINE w == [op |-> "observe", to |-> found, by |-> "check"]
  <2>2. w \in WriteType /\ w.op = "observe" /\ w.to = found
    BY DEF WriteType
  <2>3. writes' = Append(writes, w)
    BY <2>1
  <2> HIDE DEF w
  <2> QED
    BY <2>1, <2>2, <2>3, QueueBehind
<1>8. CASE OpenEnds \/ TimerFires \/ CallConnect \/ CallPair \/ Shutdown \/ UNCHANGED vars
  BY <1>1, <1>8 DEF OpenEnds, TimerFires, CallConnect, CallPair, Shutdown, vars
<1> QED
  BY <1>2, <1>3, <1>4, <1>5, <1>6, <1>7, <1>8 DEF Next

\* The change whose turn has come makes no account of none, unless it deletes it.
LEMMA ChangeTo ==
    ASSUME TypeInv, QueueInv, writes # <<>>, Change.op # "observing"
    PROVE  (Change.to = "none") = (Change.op = "delete")
BY TurnTypes DEF QueueInv

\* What has nothing, or was ended, stays so.
LEMMA ClosedKept ==
    ASSUME ClosedInv, Unwanted' => Unwanted, late => late',
           manager'.entry # NoSocket => manager.entry # NoSocket, Held(manager') => Held(manager),
           manager.ended = "closed" /\ ~late' /\ Held(manager') => manager'.ended = "closed",
           Closing => Closing' \/ manager'.entry = NoSocket
    PROVE  ClosedInv'
BY DEF ClosedInv

LEMMA SocketsClosed ==
    ASSUME ConnectionInv, ClosedInv, Unwanted,
           \/ OpenEnds \/ OpenFails \/ TimerFires \/ Shutdown \/ HealthCheck
           \/ \E s \in Socket : SocketStep(s)
    PROVE  ClosedInv'
<1> USE DEF ConnectionInv
<1>1. UNCHANGED <<request, status, late>>
  BY DEF OpenEnds, OpenFails, TimerFires, Shutdown, HealthCheck, SocketStep, SocketOpens, SocketDrops, SocketLoses, history
<1>2. (Closing => Closing') /\ Unwanted'
  BY <1>1 DEF Closing, Unwanted
<1> SUFFICES ASSUME ~late PROVE ClosedInv'
  BY <1>1 DEF ClosedInv
<1>3. Held(manager) => manager.ended = "closed"
  BY DEF ClosedInv
<1>4. CASE OpenEnds
  <2>1. manager.opening # "no" /\ manager.ended = "closed"
    BY <1>3, <1>4 DEF OpenEnds, Held
  <2>2. manager' = [manager EXCEPT !.opening = "no"]
    BY <1>4, <2>1 DEF OpenEnds
  <2>3. manager'.entry = manager.entry /\ manager'.ended = manager.ended /\ Held(manager)
    BY <2>1, <2>2 DEF TypeInv, ManagerType, Held
  <2> QED
    BY <1>1, <1>2, <2>3, ClosedKept
<1>5. CASE OpenFails
  <2>1. manager'.entry = manager.entry /\ manager'.ended = manager.ended /\ Held(manager)
    BY <1>5 DEF OpenFails, TypeInv, ManagerType, Held
  <2> QED
    BY <1>1, <1>2, <2>1, ClosedKept
<1>6. CASE TimerFires
  <2> DEFINE m == [manager EXCEPT !.timer = FALSE]
  <2>1. m \in ManagerType /\ m.ended = "closed" /\ m.entry = manager.entry /\ Held(manager)
    BY <1>3, <1>6 DEF TimerFires, Held, TypeInv, ManagerType
  <2>2. manager' = Reconnecting(m)
    BY <1>6 DEF TimerFires
  <2> HIDE DEF m
  <2>3. manager' = m
    BY <2>1, <2>2 DEF Reconnecting
  <2> QED
    BY <1>1, <1>2, <1>3, <2>1, <2>3, ClosedKept
<1>7. CASE Shutdown
  <2>1. manager'.entry = NoSocket /\ manager'.ended = manager.ended /\ manager'.opening = manager.opening /\ ~manager'.timer
    BY <1>7 DEF Shutdown, TypeInv, ManagerType
  <2> QED
    BY <1>1, <1>2, <2>1, ClosedKept DEF Held
<1>8. CASE HealthCheck
  <2>1. UNCHANGED manager
    BY <1>8 DEF HealthCheck, Unwanted
  <2> QED
    BY <1>1, <1>2, <2>1, ClosedKept
<1>9. ASSUME NEW s \in Socket, SocketStep(s) PROVE ClosedInv'
  <2>1. CASE UNCHANGED manager
    BY <1>1, <1>2, <2>1, ClosedKept
  <2>2. CASE ~UNCHANGED manager
    <3>1. s = manager.entry /\ s # NoSocket
      BY <1>9, <2>2, ConnectionAssumption DEF SocketStep, SocketOpens, SocketDrops, SocketLoses
    <3>2. Held(manager) /\ manager.ended = "closed" /\ manager.entry # NoSocket
      BY <1>3, <3>1 DEF Held
    <3>3. manager'.ended = "closed"
      BY <1>9, <3>2 DEF SocketStep, SocketOpens, SocketDrops, SocketLoses, TypeInv, ManagerType
    <3> QED
      BY <1>1, <1>2, <3>2, <3>3, ClosedKept
  <2> QED
    BY <2>1, <2>2
<1> QED
  BY <1>4, <1>5, <1>6, <1>7, <1>8, <1>9

\* A logout of what there is: it is ended, and its socket is being closed.
LEMMA LogoutClosed ==
    ASSUME ConnectionInv, NEW r \in Request, NEW kind \in {"delete", "logout"},
           BeginLogout(r, kind), UNCHANGED <<socket, stray, late>>
    PROVE  ClosedInv'
<1> USE DEF ConnectionInv
<1>1. manager'.ended = "closed" /\ manager'.entry = manager.entry
  BY LogoutBegunManager
<1>2. ASSUME manager.entry # NoSocket PROVE Closing'
  <2>1. request'[r].step = "loggingOut"
    BY <1>2 DEF BeginLogout, HasSocket, TypeInv
  <2> QED
    BY <2>1 DEF Closing
<1> QED
  BY <1>1, <1>2 DEF ClosedInv

LEMMA RequestsClosed ==
    ASSUME ConnectionInv, ClosedInv, NEW r \in Request, RequestStep(r)
    PROVE  ClosedInv'
<1> USE DEF ConnectionInv
<1>1. UNCHANGED status
  BY DEF RequestStep, CallReset, CallDisconnect, CallUpdate, CallDelete, CallCreate, CallChange,
     LogoutEnds, ClearEnds, ClearFails, BootConnects
<1>2. \A q \in Request : q # r => request'[q] = request[q]
  BY DEF RequestStep, CallReset, CallDisconnect, CallUpdate, CallDelete, CallCreate, CallChange, Enter, BeginLogout,
     LogoutEnds, ClearEnds, ClearFails, BootConnects, TypeInv
<1>3. CASE ~Unwanted
  BY <1>1, <1>3 DEF ClosedInv, Unwanted
<1> SUFFICES ASSUME Unwanted PROVE ClosedInv'
  BY <1>3
<1>4. CASE CallDisconnect(r)
  BY <1>4, LogoutClosed DEF CallDisconnect, history
<1>5. ASSUME NEW kind \in Ops, NEW to \in Status, CallChange(r, kind, to) PROVE ClosedInv'
  <2>1. UNCHANGED <<manager, late>> /\ request[r] = Idle
    BY <1>5 DEF CallChange, Enter, history
  <2>2. Closing => Closing'
    BY <1>2, <2>1 DEF Closing, Idle
  <2> QED
    BY <1>1, <2>1, <2>2, ClosedKept DEF Unwanted
<1>6. CASE LogoutEnds(r)
  <2>1. /\ manager'.entry = NoSocket /\ ~manager'.timer /\ UNCHANGED late
        /\ manager'.ended = manager.ended /\ manager'.opening = manager.opening
    BY <1>6 DEF LogoutEnds, Clearing, TypeInv, ManagerType
  <2> QED
    BY <1>1, <2>1, ClosedKept DEF Held, Unwanted
<1>7. CASE ClearEnds(r) \/ ClearFails(r)
  <2> DEFINE cleared == [manager EXCEPT !.clearing = FALSE]
  <2>1. request[r].kind \in {"delete", "logout", "reset"} /\ request[r].step = "clearing"
    BY <1>7 DEF ClearEnds, ClearFails, RequestInv, RequestFits
  <2>2. Closing => Closing'
    BY <1>2, <2>1 DEF Closing
  <2>3. UNCHANGED <<socket, stray>> /\ late \in BOOLEAN
    BY <1>7 DEF ClearEnds, ClearFails, TypeInv
  <2>4. CASE late'
    BY <2>4 DEF ClosedInv
  <2>5. CASE ~late'
    <3>1. /\ manager' = cleared \/ manager' = Forgotten(cleared)
          /\ late' = (late \/ Revived(manager'))
      BY <1>7, <2>1, <2>5 DEF ClearEnds, ClearFails
    <3>2. /\ manager'.entry = manager.entry /\ (Held(manager') => Held(manager))
          /\ manager.ended = "closed" /\ ~late' /\ Held(manager') => manager'.ended = "closed"
      BY <2>3, <3>1, ClearedManager
    <3> QED
      BY <1>1, <2>2, <3>1, <3>2, ClosedKept DEF Unwanted
  <2> QED
    BY <2>4, <2>5
<1>8. CASE BootConnects(r)
  BY <1>8 DEF BootConnects, ClosedInv
<1> QED
  BY <1>4, <1>5, <1>6, <1>7, <1>8
  DEF RequestStep, CallReset, CallUpdate, CallDelete, CallCreate, Ops, Status, AccountStatus

LEMMA RepositoryClosed ==
    ASSUME ConnectionInv, QueueInv, ClosedInv, RepositoryStep
    PROVE  ClosedInv'
<1> USE DEF ConnectionInv
<1>1. CASE ObserveEnds
  <2>1. UNCHANGED <<status, request, manager, late>>
    BY <1>1 DEF ObserveEnds, history
  <2> QED
    BY <2>1, ClosedKept DEF Unwanted, Closing
<1> SUFFICES ASSUME CommitUpdate \/ CommitDelete \/ CommitCreate \/ ChangeRefused PROVE ClosedInv'
  BY <1>1 DEF RepositoryStep
<1> DEFINE r == Change.by
<1>2. r \in Request /\ request[r].step = "writing" /\ Change.op \in Ops /\ writes # <<>>
  BY TurnIsOf DEF CommitUpdate, CommitDelete, CommitCreate, ChangeRefused, Committing, Ops
<1>3. (Change.to = "none") = (Change.op = "delete")
  BY <1>2, ChangeTo DEF Ops
<1>4. \A q \in Request : q # r => request'[q] = request[q]
  BY DEF CommitUpdate, CommitDelete, BeginLogout, CommitCreate, ChangeRefused, TypeInv
<1>5. Closing => Closing'
  BY <1>2, <1>4 DEF Closing
<1> HIDE DEF r
<1>6. CASE CommitUpdate
  <2>1. status # "none" /\ status' # "none"
    BY <1>3, <1>6 DEF CommitUpdate, Committing, Committed
  <2>2. CASE status' # "suspended"
    BY <2>1, <2>2 DEF ClosedInv, Unwanted
  <2>3. CASE status' = "suspended" /\ manager' = ConnectionClosed(manager)
    BY <2>3 DEF ConnectionClosed, ClosedInv, TypeInv, ManagerType
  <2>4. CASE status' = "suspended" /\ UNCHANGED manager /\ late' = (late \/ status # "suspended")
    <3>1. CASE status = "suspended"
      BY <1>5, <2>4, <3>1, ClosedKept DEF Unwanted
    <3>2. CASE status # "suspended"
      BY <2>4, <3>2 DEF ClosedInv
    <3> QED
      BY <3>1, <3>2
  <2> QED
    BY <1>6, <2>2, <2>3, <2>4 DEF CommitUpdate
<1>7. CASE CommitDelete
  BY <1>2, <1>7, LogoutClosed DEF CommitDelete, history, r
<1>8. CASE CommitCreate
  <2>1. Unwanted /\ UNCHANGED late /\ manager' = Registered(manager)
    BY <1>8 DEF CommitCreate, Unwanted, history
  <2>2. /\ manager'.entry = manager.entry /\ manager'.opening = manager.opening
        /\ manager'.timer = manager.timer /\ manager'.ended = manager.ended
    BY <2>1 DEF Registered, TypeInv, ManagerType
  <2> QED
    BY <1>5, <2>1, <2>2, ClosedKept DEF Held
<1>9. CASE ChangeRefused
  <2>1. UNCHANGED <<status, manager, late>>
    BY <1>9 DEF ChangeRefused, history
  <2> QED
    BY <1>5, <2>1, ClosedKept DEF Unwanted
<1> QED
  BY <1>6, <1>7, <1>8, <1>9

LEMMA ObservedClosed ==
    ASSUME ConnectionInv, QueueInv, ClosedInv, ObserveApplies
    PROVE  ClosedInv'
<1> USE DEF ConnectionInv
<1>1. writes # <<>> /\ Change.op = "observe"
  BY DEF ObserveApplies, Committing
<1>2. Change.to # "none"
  BY <1>1, ChangeTo
<1>3. UNCHANGED <<manager, request>>
  BY DEF ObserveApplies
<1>4. CASE status' = "suspended" /\ status # "suspended"
  BY <1>4 DEF ObserveApplies, ClosedInv
<1>5. CASE ~(status' = "suspended" /\ status # "suspended")
  <2>1. Unwanted' => Unwanted
    BY <1>2, <1>5 DEF ObserveApplies, Unwanted
  <2>2. late => late'
    BY DEF ObserveApplies
  <2> QED
    BY <1>3, <2>1, <2>2, ClosedKept DEF Closing
<1> QED
  BY <1>4, <1>5

LEMMA ClosedStep ==
    ASSUME ConnectionInv, QueueInv, ClosedInv, [Next]_vars
    PROVE  ClosedInv'
<1>1. CASE UNCHANGED vars
  BY <1>1, ClosedKept DEF vars, history, Unwanted, Closing
<1>2. CASE \E r \in Request : RequestStep(r)
  BY <1>2, RequestsClosed
<1>3. CASE \/ OpenEnds \/ OpenFails \/ TimerFires \/ Shutdown \/ HealthCheck
           \/ \E s \in Socket : SocketStep(s)
  <2>1. UNCHANGED status
    BY <1>3 DEF OpenEnds, OpenFails, TimerFires, Shutdown, HealthCheck, SocketStep, SocketOpens, SocketDrops, SocketLoses
  <2>2. ~Unwanted => ClosedInv'
    BY <2>1 DEF ClosedInv, Unwanted
  <2> QED
    BY <1>3, <2>2, SocketsClosed
<1>4. CASE CallConnect \/ CallPair
  BY <1>4 DEF CallConnect, CallPair, ClosedInv, Unwanted
<1>5. CASE Restart
  BY <1>5 DEF Restart, Fresh, ClosedInv, Held
<1> QED
  BY <1>1, <1>2, <1>3, <1>4, <1>5, RepositoryClosed, ObservedClosed DEF Next

LEMMA ClosedGoesWithConnection == Spec => [](ConnectionInv /\ QueueInv /\ ClosedInv)
<1>1. Init => QueueInv /\ ClosedInv
  BY DEF Init, Fresh, QueueInv, ClosedInv, Held
<1>2. ConnectionInv /\ QueueInv /\ ClosedInv /\ [Next]_vars => (QueueInv /\ ClosedInv)'
  BY QueueStep, ClosedStep
<1> QED
  BY <1>1, <1>2, Connected, PTL DEF Spec

---------------------------------------------------------------------------

\* The state keeps its types, and a captured socket is held only by a logout.
THEOREM TypeCorrect == Spec => []TypeOK
<1>1. ASSUME ConnectionInv PROVE TypeOK
  <2>1. \A i \in DOMAIN writes : writes[i].to \in AccountStatus \union {"none"}
    <3>1. \A i \in DOMAIN writes : writes[i] \in WriteType
      BY <1>1 DEF ConnectionInv, TypeInv
    <3> QED
      BY <3>1 DEF WriteType, Status
  <2>2. \A r \in Request : /\ request[r].kind \in Kind \union {"none"}
                           /\ request[r].on # NoSocket => request[r].step = "loggingOut"
    BY <1>1 DEF ConnectionInv, TypeInv, RequestInv, RequestFits, RequestType
  <2> QED
    BY <1>1, <2>1, <2>2 DEF ConnectionInv, TypeInv, Status, SocketStates, ManagerType, TypeOK
<1> QED
  BY <1>1, Connected, PTL

\* An open socket is the one the manager knows or one that a logout left behind, whatever the
\* network, the timers, the API and the checks do meanwhile. (connect, reconnect, disconnect,
\* clearSession, the stale close.)
THEOREM OneSocketAtMost == Spec => []OneSocket
<1>1. ConnectionInv => OneSocket
  BY DEF ConnectionInv, SocketInv
<1> QED
  BY <1>1, Connected, PTL

\* Whoever has a socket, or is being given one, has handlers unless its connection is ended for
\* good, or a deletion left it behind. (wireEvents, connectWired, forgetHandlers.)
THEOREM ConnectedAndHeard == Spec => []ConnectedIsWired
<1>1. ConnectionInv => ConnectedIsWired
  BY DEF ConnectionInv, WiredInv, Held, HasSocket, ConnectedIsWired
<1> QED
  BY <1>1, Connected, PTL

\* A suspended or deleted account has no socket once the requests about it are through, and
\* nothing that would open one, unless one of them was overtaken, whatever else overlaps.
\* (PUT, DELETE, the boot, closeConnection, forgetAccount.)
THEOREM SuspendedMeansClosed == Spec => []SuspendedIsClosed
<1>1. ASSUME ConnectionInv, ClosedInv, Unwanted, ~late, \A r \in Request : request[r] = Idle
      PROVE  /\ \A s \in Socket : Live(s) => s \in stray
             /\ (manager.opening # "no" \/ manager.timer) => manager.ended = "closed"
  <2>1. manager.entry = NoSocket
    BY <1>1 DEF ClosedInv, Closing, Idle
  <2> QED
    BY <1>1, <2>1, ConnectionAssumption DEF ConnectionInv, SocketInv, OneSocket, ClosedInv, Held
<1>2. ConnectionInv /\ ClosedInv => SuspendedIsClosed
  BY <1>1 DEF SuspendedIsClosed
<1> QED
  BY <1>2, ClosedGoesWithConnection, PTL
====
