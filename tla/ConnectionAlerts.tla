---- MODULE ConnectionAlerts ----
(***************************************************************************)
(* subscribeConnectionAlerts: the outage of one account and the alerts      *)
(* about it, which go through the queue of their destination together with  *)
(* everything else that is posted there. Outages of different accounts      *)
(* share nothing but the queues.                                            *)
(*                                                                          *)
(* Moments are told apart as far as the code compares them: an outage is    *)
(* younger or older than DOWN_ALERT_AFTER_MS, a connection than             *)
(* STABLE_CONNECTION_MS, and nextAlertAt has come, or comes after a retry's *)
(* wait, or after ALERT_REPEAT_MS.                                          *)
(***************************************************************************)
EXTENDS WebhookForwarder

CONSTANTS
    AlertUrl,    \* ALERT_WEBHOOK_URL
    Listening    \* the account's webhooks whose `events` include connection.update or *

VARIABLES
    account,   \* the account's status, as far as alerts look at it
    outage,    \* the account's entry in `outages`
    said       \* history: what the last connection.update was

alertVars == <<account, outage, said>>

ASSUME AlertAssumption == AlertUrl \in Url /\ Listening \subseteq Config

NoOutage == [is |-> FALSE, lost |-> FALSE, up |-> "no", long |-> FALSE, next |-> "now",
             forwarded |-> FALSE, sending |-> FALSE, told |-> FALSE]

\* lost is `terminal`; told: history, an alert about this loss was answered 2xx.
NewOutage == [NoOutage EXCEPT !.is = TRUE]

AlertInit == account = "active" /\ outage = NoOutage /\ said = "none"

\* An alert of a lost session or of a dropped connection; of: whether its outage is the
\* account's still.
Alert(o) == [kind |-> "alert", lost |-> o.lost, of |-> "current"]

\* What the account's own webhooks, or the global one, hear.
Notice == [kind |-> "notice"]

\* The queues once the account's entry is another outage or none.
Left(qs) ==
    LET Old(d) == IF d.kind = "alert" THEN [d EXCEPT !.of = "past"] ELSE d
    IN  [u \in Url |-> [qs[u] EXCEPT !.pending = [i \in DOMAIN @ |-> Old(@[i])],
                                     !.posting = {Old(d) : d \in @}]]

---------------------------------------------------------------------------
\* alertIfDue()

Due(o) == o.up = "no" /\ ~o.sending /\ o.next = "now" /\ (o.lost \/ o.long)

\* A queue with the deliveries an alert consists of.
WithAlert(u, q, o) ==
    LET noticed == Repeated(q, Notice, IF o.forwarded THEN 0 ELSE DeliveriesTo(Listening, u))
    IN  IF u = AlertUrl THEN Enqueued(noticed, Alert(o)) ELSE noticed

\* Up to sendConfirmed(): a suspended or deleted account is no outage.
Alerting(o, qs) ==
    IF ~Due(o) THEN outage' = o /\ queue' = qs
    ELSE IF account # "active" THEN outage' = NoOutage /\ queue' = qs
    ELSE /\ outage' = [o EXCEPT !.sending = TRUE, !.forwarded = TRUE]
         /\ queue' = [u \in Url |-> WithAlert(u, qs[u], o)]

\* (slip) the answer decides alone when the next alert goes.
Answering_Alone(o, ok, lost) ==
    [o EXCEPT !.sending = FALSE,
              !.next = IF ok THEN "repeat" ELSE "retry",
              !.told = @ \/ (ok /\ lost)]

\* What follows sendConfirmed(): an alert about a lost session still has to go when the one
\* answered was about a dropped connection.
Answering(o, ok, lost) ==
    [o EXCEPT !.sending = FALSE,
              !.next = IF o.lost # lost THEN "now" ELSE IF ok THEN "repeat" ELSE "retry",
              !.told = @ \/ (ok /\ lost)]

Settle(d, ok) ==
    outage' = IF d.kind = "alert" /\ d.of = "current" THEN Answering(outage, ok, d.lost) ELSE outage

---------------------------------------------------------------------------
\* onConnectionUpdate()

Ends ==
    /\ outage' = NoOutage
    /\ queue' = Left(queue)

Qr == said' = "qr" /\ Ends

Connected ==
    /\ said' = "connected"
    /\ outage' = IF outage.is /\ outage.up = "no" THEN [outage EXCEPT !.up = "since"] ELSE outage
    /\ UNCHANGED queue

SessionLost ==
    LET same == outage.is /\ outage.up = "no"
        current == IF same THEN outage ELSE NewOutage
        lost == IF current.lost THEN current
                ELSE [current EXCEPT !.lost = TRUE, !.next = "now", !.forwarded = FALSE, !.told = FALSE]
    IN  /\ said' = "lost"
        /\ Alerting(lost, IF same THEN queue ELSE Left(queue))

Disconnected ==
    /\ said' = "dropped"
    /\ IF outage.is /\ outage.up # "stable"
         THEN outage' = [outage EXCEPT !.up = "no", !.lost = FALSE] /\ UNCHANGED queue
         ELSE outage' = NewOutage /\ queue' = Left(queue)

Deliberate == said' = "deliberate" /\ Ends

ConnectionUpdate == Deliberate \/ Qr \/ Connected \/ SessionLost \/ Disconnected

---------------------------------------------------------------------------
\* Time, and what else happens

\* The interval: it ends an outage that a lasting connection is over, or alerts.
Tick ==
    /\ outage.is
    /\ IF outage.up = "stable" THEN Ends ELSE Alerting(outage, queue)
    /\ UNCHANGED said

NextAlertComes == outage.next # "now" /\ outage' = [outage EXCEPT !.next = "now"]
StaysDown == outage.is /\ ~outage.long /\ outage' = [outage EXCEPT !.long = TRUE]
StaysUp == outage.up = "since" /\ outage' = [outage EXCEPT !.up = "stable"]

TimePasses == (NextAlertComes \/ StaysDown \/ StaysUp) /\ UNCHANGED <<queue, said>>

\* The alert that is waited for, when a queue has it.
Awaited(qs) ==
    {d \in UNION {Range(qs[u].pending) \union qs[u].posting : u \in Url} :
        d.kind = "alert" /\ d.of = "current"}

\* (slip) a delivery dropped from a full queue is not settled.
ForwardBesideAlerts_Unsettled ==
    /\ Forward
    /\ UNCHANGED <<outage, said>>

\* An event is forwarded; a full queue tells the alert it drops that it failed.
ForwardBesideAlerts ==
    /\ Forward
    /\ LET dropped == Awaited(queue) \ Awaited(queue')
       IN  outage' = IF dropped = {} THEN outage
                     ELSE Answering(outage, FALSE, (CHOOSE d \in dropped : TRUE).lost)
    /\ UNCHANGED said

AnsweredAlert(u, d, ok) ==
    /\ Answered(u, d) /\ Settle(d, ok)
    /\ UNCHANGED <<account, said, configVars>>

AnyAnswer(u) == \E d \in queue[u].posting, ok \in BOOLEAN : AnsweredAlert(u, d, ok)

\* Requests about the account; its connection is closed or opened by what follows.
AccountChanges ==
    /\ \E s \in {"active", "suspended", "absent"} \ {account} : account' = s
    /\ UNCHANGED <<outage, said, queue>>

\* Outages are in memory: one that lasts begins again when its connection fails again.
AlertRestart ==
    /\ ForwarderRestart
    /\ outage' = NoOutage /\ said' = "none"
    /\ UNCHANGED account

Quiet == UNCHANGED <<account, configVars, seen>> /\ Observe

AlertStep ==
    \/ ConnectionUpdate /\ Quiet
    \/ Tick /\ Quiet
    \/ TimePasses /\ Quiet
    \/ ForwardBesideAlerts /\ UNCHANGED <<account, configVars>>
    \/ \E u \in Url : AnyAnswer(u)
    \/ AccountChanges /\ UNCHANGED <<configVars, seen, latest>>

AlertNext == AlertStep \/ (AlertRestart /\ UNCHANGED configVars)

followed == <<alertVars, forwarderVars>>

\* Time passes, the interval recurs, POSTs end, and a destination that is asked again and again
\* answers 2xx some time. Nobody need forward an event or change a connection.
AlertFairness ==
    /\ WF_followed(TimePasses /\ Quiet)
    /\ WF_followed(Tick /\ Quiet)
    /\ \A u \in Url : WF_followed(AnyAnswer(u))
    /\ SF_followed(\E d \in queue[AlertUrl].posting :
                            d.kind = "alert" /\ AnsweredAlert(AlertUrl, d, TRUE))

---------------------------------------------------------------------------
\* Properties

\* Whoever waits for an alert will be told how it went: the one the outage waits for is under
\* way, once, and only while the outage waits. And an alert about a lost session is not put off
\* for hours because another one, about the drop before it, was delivered. (sending, onSettled,
\* onSessionLost, alertIfDue.)
AlertsKeepUp ==
    LET waiting == {i \in DOMAIN queue[AlertUrl].pending :
                        queue[AlertUrl].pending[i] \in Awaited(queue)}
        posting == queue[AlertUrl].posting \intersect Awaited(queue)
    IN  /\ Cardinality(waiting) + Cardinality(posting) = IF outage.sending THEN 1 ELSE 0
        /\ outage.is /\ outage.lost /\ ~outage.told /\ ~outage.sending => outage.next # "repeat"

\* A lost session is told to someone, whatever the destination refused, lost from a full queue
\* or took its time over, unless the outage is over first.
LostIsTold ==
    (outage.is /\ outage.lost /\ ~outage.told) ~> (outage.told \/ ~outage.lost \/ outage.up # "no")
====
