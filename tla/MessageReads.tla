---- MODULE MessageReads ----
(***************************************************************************)
(* GET /api/v1/messages and its export: filters, a limit and an offset over*)
(* the rows in the order of their timestamps, newest first, with messages  *)
(* stored and deleted between one page and the next.                       *)
(***************************************************************************)
EXTENDS Integers, FiniteSets, SequencesExt

CONSTANTS
    LastMessage,  \* bound: messages, numbered in the order they are stored
    OwnerOf,      \* the account of each
    Everyone,     \* an accountId that is not given
    Asked,        \* limits a client asks for; 0 and less are clamped too
    MaxLimit,     \* MAX_EXPORT_LIMIT
    MaxInstant    \* bound: instants

VARIABLES
    stored,     \* messages: id, timestamp and created_at
    last,       \* the id of the last one stored
    instant,
    export,     \* the request, or the next one: its filters, limit and offset
    got,        \* the messages the client has
    since,      \* history: the messages stored when the export began and not deleted since
    moved       \* history: those of them that may have come to stand before the offset

readVars == <<stored, last, instant, export, got, since, moved>>

NoExport == [step |-> "none"]

Clamp(limit) == IF limit < 1 THEN 1 ELSE IF limit > MaxLimit THEN MaxLimit ELSE limit

\* buildMessageWhere: what is not given does not filter.
Where(e, r) ==
    /\ e.account \in {Everyone, OwnerOf[r.id]}
    /\ e.from <= r.timestamp

Matching(e) == {r \in stored : Where(e, r)}

\* (slip) oldest first.
InOrder_OldestFirst(rows) == \A i, j \in DOMAIN rows : i < j => rows[i].timestamp <= rows[j].timestamp

InOrder(rows) == \A i, j \in DOMAIN rows : i < j => rows[i].timestamp >= rows[j].timestamp

\* ORDER BY timestamp DESC: among equals any order, and another one in the next query.
Orders(R) == {rows \in SetToSeqs(R) : InOrder(rows)}

---------------------------------------------------------------------------

ReadInit ==
    /\ stored = {} /\ last = 0 /\ instant = 0
    /\ export = NoExport
    /\ got = {} /\ since = {} /\ moved = {}

\* A message, received or sent; its timestamp may be older than what is stored.
StoreMessage ==
    /\ last < LastMessage
    /\ last' = last + 1
    /\ \E t \in 0 .. instant : stored' = stored \union {[id |-> last', timestamp |-> t, createdAt |-> instant]}
    /\ UNCHANGED <<instant, export, got, since, moved>>

\* deleteOlderThan, by created_at: of the messages of an export a newer one may go and an older one stay,
\* which then stands one place further to the front.
DeleteOld(cutoff) ==
    LET stays == {r \in stored : r.createdAt >= cutoff}
        goes == stored \ stays IN
    /\ goes # {}
    /\ stored' = stays
    /\ since' = since \intersect {r.id : r \in stays}
    /\ moved' = moved \union {i \in since' : \E q \in stays, s \in goes : q.id = i /\ s.timestamp > q.timestamp}
    /\ UNCHANGED <<last, instant, export, got>>

Passes ==
    /\ instant < MaxInstant
    /\ instant' = instant + 1
    /\ UNCHANGED <<stored, last, export, got, since, moved>>

\* The first request.
Export ==
    /\ export = NoExport
    /\ \E account \in {Everyone} \union {OwnerOf[m] : m \in 1 .. LastMessage}, from \in 0 .. 1, limit \in Asked :
           LET e == [step |-> "count", account |-> account, from |-> from, limit |-> limit, offset |-> 0, total |-> 0]
           IN export' = e /\ since' = {r.id : r \in Matching(e)} /\ moved' = {}
    /\ UNCHANGED <<stored, last, instant, got>>

\* SELECT COUNT(*), a statement of its own.
CountRows ==
    /\ export.step = "count"
    /\ export' = [export EXCEPT !.step = "rows", !.total = Cardinality(Matching(export))]
    /\ UNCHANGED <<stored, last, instant, got, since, moved>>

\* The messages that have the timestamp of the last one of a page: the next query may put others of
\* them before the offset.
TiedWithLast(page, R) ==
    {r \in R : page # <<>> /\ r.timestamp = page[Len(page)].timestamp}

\* SELECT ... LIMIT OFFSET, and the answer with the limit applied. The client is done with a page that is not full.
ReadRows ==
    /\ export.step = "rows"
    /\ \E rows \in Orders(Matching(export)) :
           LET end == export.offset + Clamp(export.limit)
               page == SubSeq(rows, export.offset + 1, IF end < Len(rows) THEN end ELSE Len(rows))
           IN /\ got' = got \union {r.id : r \in ToSet(page)}
              /\ export' = IF Len(page) < Clamp(export.limit) THEN [export EXCEPT !.step = "done"]
                           ELSE [export EXCEPT !.step = "count", !.offset = @ + Clamp(export.limit)]
              /\ moved' = IF end < Len(rows) THEN moved \union {r.id : r \in TiedWithLast(page, Matching(export))}
                          ELSE moved
    /\ UNCHANGED <<stored, last, instant, since>>

ReadNext ==
    \/ StoreMessage
    \/ \E cutoff \in 1 .. instant : DeleteOld(cutoff)
    \/ Passes
    \/ Export
    \/ CountRows \/ ReadRows

ReadSpec == ReadInit /\ [][ReadNext]_readVars

\* MAX_EXPORT_LIMIT lets at least one message through.
ReadsFit == MaxLimit \in Nat \ {0} /\ LastMessage \in Nat /\ Asked \subseteq Int

---------------------------------------------------------------------------
\* Properties

\* An export that follows the offset to a page that is not full has every message that was there
\* all along, whatever is stored between its pages; but for those a purge of newer messages moved
\* to the front meanwhile, and those that share their timestamp with the last one of a page.
\* (query, /messages/export.)
ExportsAll == export.step = "done" => since \ moved \subseteq got

\* The export's documentation: "use `offset` for the rest". Whoever does has all of them.
OffsetGivesTheRest == export.step = "done" => since \subseteq got
====
