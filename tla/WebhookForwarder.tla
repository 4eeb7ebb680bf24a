---- MODULE WebhookForwarder ----
(***************************************************************************)
(* WebhookForwarder: a queue per destination, in memory, each with a worker *)
(* that posts what waits one at a time and leaves when nothing does. A full *)
(* queue drops its oldest delivery. Who gets an event is read from the      *)
(* account's webhooks as they are when it is forwarded.                     *)
(***************************************************************************)
EXTENDS WebhookConfigs, Sequences

CONSTANTS
    GlobalUrl,       \* WEBHOOK_CALLBACK_URL
    LastEvent,       \* a bound: the bus hands over the events 1 to LastEvent
    Subscribed,      \* per event, the webhooks whose `events` and `filters` let it through
    Unserializable,  \* events that JSON.stringify refuses
    Capacity         \* WEBHOOK_QUEUE_CAPACITY

VARIABLES
    queue,   \* per destination, its entry in `queues` and what its worker is posting
    seen,    \* history: how many events have been forwarded
    latest   \* history: per destination, the last event posted to it

forwarderVars == <<queue, seen, latest>>

Event == 1..LastEvent

ASSUME ForwarderAssumption ==
    /\ GlobalUrl \in Url
    /\ LastEvent \in Nat /\ Capacity \in Nat \ {0}
    /\ Subscribed \in [Event -> SUBSET Config]
    /\ Unserializable \subseteq Event

\* there: `queues` has the destination; posting: the POSTs nobody has answered.
NoQueue == [there |-> FALSE, pending |-> <<>>, posting |-> {}]

\* A delivery of an event; alerts are the other kind.
Forwarded(e) == [kind |-> "event", event |-> e]

ForwarderInit ==
    /\ queue = [u \in Url |-> NoQueue]
    /\ seen = 0
    /\ latest = [u \in Url |-> 0]

---------------------------------------------------------------------------
\* enqueue() and deliverAll(), as what they make of a destination's queue

\* (slip) a worker is started whenever nothing is pending.
Enqueued_NewWorker(q, d) ==
    IF q.pending = <<>>
        THEN [q EXCEPT !.there = TRUE, !.posting = @ \union {d}]
        ELSE [q EXCEPT !.pending = Append(IF Len(@) >= Capacity THEN Tail(@) ELSE @, d)]

\* A destination without a queue gets one, whose worker posts the delivery at once.
Enqueued(q, d) ==
    IF ~q.there
        THEN [q EXCEPT !.there = TRUE, !.posting = @ \union {d}]
        ELSE [q EXCEPT !.pending = Append(IF Len(@) >= Capacity THEN Tail(@) ELSE @, d)]

\* The worker posts what comes next, or takes the queue away.
Taken(q, d) ==
    IF q.pending = <<>> THEN [NoQueue EXCEPT !.posting = q.posting \ {d}]
    ELSE [q EXCEPT !.pending = Tail(@), !.posting = (@ \ {d}) \union {Head(q.pending)}]

\* n times the same delivery: a destination may be that of several webhooks.
Repeated(q, d, n) ==
    LET after[k \in 0..n] == IF k = 0 THEN q ELSE Enqueued(after[k - 1], d)
    IN  after[n]

---------------------------------------------------------------------------
\* The steps

\* History: what the queues have begun to post.
Observe ==
    latest' = [u \in Url |->
        LET begun == {d.event : d \in {x \in queue'[u].posting \ queue[u].posting : x.kind = "event"}}
        IN  IF begun = {} THEN latest[u] ELSE CHOOSE e \in begun : TRUE]

\* How many deliveries a destination gets of what these webhooks subscribe to: one per webhook
\* that matches, or the global one when none does.
DeliveriesTo(webhooks, u) ==
    LET matching == {c \in DOMAIN configs \intersect webhooks : configs[c].enabled}
    IN  IF matching # {} THEN Cardinality({c \in matching : configs[c].url = u})
        ELSE IF u = GlobalUrl THEN 1 ELSE 0

Deliveries(e, u) == IF e \in Unserializable THEN 0 ELSE DeliveriesTo(Subscribed[e], u)

\* forward()
Forward ==
    /\ seen < LastEvent
    /\ seen' = seen + 1
    /\ queue' = [u \in Url |-> Repeated(queue[u], Forwarded(seen'), Deliveries(seen', u))]
    /\ Observe

\* A destination answers, refuses, or lets the POST run into its time limit.
Answered(u, d) ==
    /\ d \in queue[u].posting
    /\ queue' = [queue EXCEPT ![u] = Taken(@, d)]
    /\ Observe
    /\ UNCHANGED seen

\* The queues are in memory.
ForwarderRestart ==
    /\ queue' = [u \in Url |-> NoQueue]
    /\ UNCHANGED <<seen, latest>>

SomeAnswer(u) == \E d \in queue[u].posting : Answered(u, d)

ForwarderStep == (Forward \/ \E u \in Url : SomeAnswer(u)) /\ UNCHANGED configVars

ForwarderNext == ForwarderStep \/ (ForwarderRestart /\ UNCHANGED configVars)

---------------------------------------------------------------------------
\* Properties

\* A destination sees the events one at a time and in the order of the bus, whatever was
\* dropped, failed or lost with a restart in between; and no delivery waits in a queue that no
\* worker empties. (enqueue, deliverAll, post.)
InOrder ==
    [][\A u \in Url :
          /\ Cardinality(queue'[u].posting) = IF queue'[u].there THEN 1 ELSE 0
          /\ \A d \in queue'[u].posting \ queue[u].posting :
                d.kind = "event" => d.event > latest[u]]_<<configVars, forwarderVars>>
====
