# Messaging gateway: models and proofs

TLA+ for the gateway around a message: the connection or the webhook it arrives on, the pipeline and the
message log that must not lose, repeat or reorder it, the APIs it is read from, what
follows it (webhooks, alerts, the live stream, the media), what is sent in answer, and the database, the
files, the boot and the shutdown under all of it. TLC checks small
instances; TLAPS proves every safety property they have, for any number of accounts, messages and connections. What
must eventually happen is only model-checked.

Paths below are relative to `src/src` unless they say otherwise.

```
tlc -workers 2 -config MCPostgres.cfg MCPostgres     # a run; PROJECT.json lists them all
tlapm PostgresMessageLog_proofs.tla                  # the proofs
```

## 1. The system

The gateway receives messages from channel providers, stores them, and passes them on by WebSocket,
webhook and REST. It is one Node process: one event loop, so a function runs without interruption
from one `await` to the next, and anything may run in between. Postgres and the file system are
outside it.

| Part | State | Operations | What makes it correct | What is hard |
|---|---|---|---|---|
| **Message log**, `persistence/postgres-message-store.ts`, `sqlite-message-store.ts` | `messages` with `account_seq`, `account_counters` | `insertInbound`, `queryAfter`, `maxAccountSeq`, `minAccountSeq`, `deleteOlderThan`, `probeWrite` | one row per message, contiguous numbers that become visible in order, a retry is a duplicate | transactions of one account interleave, connections die with the server holding locks, COMMITs go unanswered, retention deletes meanwhile |
| **Catch-up and reads**, `connections/api/messages.controller.ts` | none (the consumer's cursor or offset) | `GET /messages?afterAccountSeq`, `GET /messages`, its export, the context of a conversation | nothing is skipped; a gap can be told from retention; an export is complete | several reads that are not one snapshot |
| **Migrations**, `persistence/migrations/` | `_migrations`, the tables | `run`, the scripts | no row is lost, the log starts from numbers without holes | gateways that start at once, or end in the middle |
| **Conversations**, `integrations/whatsapp/baileys/index.ts`, `core/routing/`, `persistence/persistence-subscriber.ts` | the account's queue, the cache of group names | `wireEvents`, `enrichEnvelope`, `send`, `getConversationHistory` | a conversation reads as it happened, whichever way its messages came | placeholders, copies, lookups, saves that come later |
| **Inbound webhooks**, `connections/api/inbound/` | none | one route per channel and event | what is answered with 200 was handed on | accounts and webhooks that change between lookup and hand-over |
| **Inbound pipeline**, `core/inbound/inbound-pipeline.ts` | a queue per account, `unsaved`, `writeOffs`, `heldRetryTimer` | `handle`, `process`, `persist`, `writeOff`, `replayFailed`, `recover`, `drain` | nothing accepted is lost, numbers follow the order of arrival, an event's number is in the log, queues move | every step awaits; outages, unanswered writes, shutdown and crash at any point |
| **Store guard**, `core/inbound/store-guard.ts` | `diversion`, `stopped`, `probeTimer`, `retryWaits` | `insert`, `insertOnce`, `open`, `probe`, `finishRecovery`, `stop` | the circuit opens on an outage and closes after it, once the failed log is in | a probe racing with messages, a pass and the shutdown |
| **Failed inbound log**, `persistence/failed-inbound-file.ts` | a JSON Lines file, a file of rejects, two turns | `append`, `replay`, `reject`, `keepOnly` | an entry leaves only when stored or rejected | appends during a pass, crashes inside a write |
| **Media**, `core/inbound/media-service.ts`, `persistence/media/` | `inFlight`, slots, media status of a row | `process`, `resumePendingMedia`, `markSkipped` | a media that is ready stays ready; pending media ends | status read before an await and written after it |
| **Retention**, `core/retention/retention-job.ts` | `running` | a pass a day | the rows and files that go are the oldest | runs beside everything else |
| **Baileys sockets**, `integrations/whatsapp/baileys/` | `sockets`, `connecting`, `ended`, `clearing`, timers | `connect`, `disconnect`, `closeConnection`, `clearSession`, `reconnect`, `closeAll` | one socket per account, none for an account that was closed, the others come back | each operation awaits, and any other may run meanwhile |
| **Accounts**, `infrastructure/config/in-memory-account.repository.ts`, `connections/api/accounts.controller.ts`, health checks | the accounts and their file | `save`, `update`, `observe`, `remove`; suspend, reactivate, reset | memory and file agree, and the file can be read back; a suspended account has no connection | a status read before an awaited write; what the API accepts and the start does not |
| **Webhooks**, `connections/webhooks/` | a queue per destination, the configuration file, outages | `send`, `deliverAll`, `drain`; `add`, `update`, `remove`; alerts | per-destination order, a bounded queue, every confirmed delivery answered, alerts repeat while down | the queue at its limit, overlapping writes of the file, an outage that changes while it is reported |
| **Live stream**, `connections/ws/`, `packages/sdk/src/events.ts` | clients; socket, timers, subscriptions | broadcast, heartbeat; connect, reconnect, watchdog | a client that misses events knows it has to catch up | sockets that close late |
| **Boot and shutdown**, `index.ts`, `infrastructure/graceful-shutdown.ts` | `started`, budgets, schedules | `main`, the steps in order, the hard stop | what was accepted is stored or in the failed log; every step gets its turn; success means success | a step cut off by its budget, a signal during the boot |

The rest (server, authentication, configuration, metrics, the SDK's requests, n8n nodes)
keeps no state between requests or only translates. `PROJECT.json` lists every part with the reason
it is not modelled, and every hazard with its line and the properties that cover it.

How they interact: Baileys calls `handle` (the providers that post webhooks go past the pipeline, straight to the forwarder); the pipeline calls the guard; the guard calls the store
and, when it fails, sends the message to the failed log through the pipeline; a stored message is
emitted on the event bus, which feeds the WebSocket and the webhooks. The guard's probe calls back
into the pipeline (`onAnswering`), which replays the failed log through the guard. The consumer that
missed an event sees a gap in `accountSeq` and reads it from the log.

## 2. The modules

| Module | Models | Uses |
|---|---|---|
| `MessageRows` | rows, what conflicts with what | |
| `MessageLog` | abstract: `insertInbound` and retention as atomic steps, what `MessageLogPort` promises | `MessageRows` |
| `PostgresMessageLog` | `insertInbound` statement by statement, on a set of connections | `MessageRows`, refines `MessageLog` |
| `SqliteMessageLog` | `insertInbound` in one step, retention in batches | `MessageRows`, refines `MessageLog` |
| `LogUpgrade` | the migrations, and what the script of the message log makes of the rows it finds | `MessageRows` |
| `MessageReads` | `GET /messages` and the export, by limit and offset | |
| `Conversations` | what Baileys hands over until it is in the log, what is sent and logged, and what a history reads | |
| `WebhookIntake` | what other providers post, until it is enqueued for the webhooks | |
| `CatchUp` | a consumer reading pages from the Postgres log | `PostgresMessageLog` |
| `InboundPipeline` | pipeline, guard, failed log, startup and shutdown, over an atomic log | |
| `FailedInboundLog` | abstract: what `core/inbound/failed-inbound-log.ts` promises | |
| `FailedInboundFile` | the failed log as a file, write by write, with kills and power cuts | refines `FailedInboundLog` |
| `AccountsFile` | an account in memory and in `accounts.yaml`, and what the next start makes of it | |
| `GracefulShutdown` | the boot, signals and crashes in it, the steps of the shutdown in their time | |
| `BaileysConnection` | one account: its sockets, the socket manager, the account's status in memory and in `accounts.yaml`, the API requests, checks and timers that work on them | |
| `WebhookConfigs` | the webhooks of an account, in memory and in `webhooks.json` | |
| `WebhookForwarder` | who gets an event, and the queue of each destination | `WebhookConfigs` |
| `ConnectionAlerts` | an account's outage and the alerts about it, through the same queues | `WebhookForwarder` |
| `LiveStream` | the SDK's event client and the broadcaster, over connections that fail | |
| `InboundMedia` | downloads with retries and slots, resume, files, retention | |
| `PostgresMessageLog_proofs` | theorems about the Postgres log and what is read of it (section 4) | `CatchUp` |
| `InboundPipeline_proofs` | about the pipeline: nothing is lost, and the order of arrival | `InboundPipeline` |
| `FailedInboundFile_proofs`, `BaileysConnection_proofs` | about the failed log's file, and the sockets of an account | the module each is named after |
| `Downstream_proofs` | about webhooks and alerts, and the live stream | `ConnectionAlerts`, `LiveStream` |
| `Messages_proofs` | about the upgrade, the export, and conversations | `LogUpgrade`, `MessageReads`, `Conversations` |
| `MediaAndIntake_proofs` | about the media, and what other providers post | `InboundMedia`, `WebhookIntake` |
| `Process_proofs` | about the shutdown, the file of accounts, and the SQLite log | `GracefulShutdown`, `AccountsFile`, `SqliteMessageLog` |
| `MCPostgres`, `MCCatchUp`, `MCInbound`, `MCStorage`, `MCConnection`, `MCDownstream` | the instances TLC checks | |

### Message log

A connection's `tx` says how far its `insertInbound` is: `begun` after `BEGIN`, `counted` after the
counter's statement (from here it holds the row lock), `conflict` when `ON CONFLICT DO NOTHING`
swallowed the insert, `recounted` after the counter was set to `MAX + 1`, `written` before `COMMIT`.
What a transaction writes stays in `tx` until `Commit` puts it into `rows` and `counters`: reads are
READ COMMITTED. `LoseConnection` is a statement that fails or times out: the gateway lets go of the
connection and the server still has the session, `orphaned` or, with the COMMIT sent, `doubtful`.
`EndSession` and `CommitUnanswered` are what the server may do with it. The duplicate's SELECT and
its ROLLBACK are one step, since nothing another session sees changes in between; if that ROLLBACK
fails the caller gets an error instead of the answer, which `LoseConnection` before it covers.
`answer` is what a caller heard last; the abstract log may lose it.

An envelope is its account and its WhatsApp id, which is all that deduplication reads. The global
`seq` is left out: it is an identity column nobody relies on to be contiguous. `clock` is what
`nowUTC()` returns; one gateway process writes, and its clock does not go back.

`CatchUp` adds the consumer of the documented protocol (`README.md`, `packages/sdk/README.md`): ask for
the messages after the cursor, process them, move the cursor. Each of the three reads is a step.

`SqliteMessageLog` needs no steps inside an insert: the driver is synchronous, so its transaction cannot be
interrupted. What can be is `deleteOlderThan`, which deletes `BatchSize` rows at a time and lets the event loop go on in
between. The statement names no order; `IsBatch` is the order of the index it is found by
(`idx_messages_created_at`). `CaughtUp` keeps a pass from starting while a counter is behind its rows: rows deleted then would leave
their numbers to be handed out again, in SQLite as in Postgres, and only a restored or hand-edited database has such a counter.

`LogUpgrade` has the migrations of both databases: the scripts that are not recorded are listed once and applied in order, each
with its record in one transaction; a script that another gateway applied meanwhile fails, and with it the start. Of the
scripts only the one of the message log changes rows: it keeps the best copy of each WhatsApp message, archives the others
and numbers what is left. `legacy` is the table before, for the property.

`MessageReads` is a client that follows the offset. The count and the rows are two reads. The rows come by `timestamp` alone, as the
query asks: those that share one may come in any order, another each time. Retention deletes by `created_at`, which is not the order of
the pages: history that is caught up is stored now with timestamps of long ago. `moved` is history: the messages a purge of
newer ones moved towards the front, and those that share their timestamp with the last one of a page that had more behind it.

### Inbound pipeline

One step runs from an `await` to the next. `worker[a]` is how far `process()` is with the head of its
account's queue; `circuit` holds the guard's fields; `pass` is the `replayFailed()` that is running
and `passes` who waits for one (`replayTurn`); `turn` is who waits for the file (`fileTurn`);
`recovery[r]` is a `recover()`: at its passes (`running`), with what `writeOffs` would tell it, or past them and waiting for
`resumePendingMedia()` (`resuming`), after which it may call `finishRecovery()` once more; there may be as many as `Recovery` has members; `left` is what `drain()` has
still to write off. `log` is the message log as `MessageLog` promises it: per account, the sequence of
stored messages, `accountSeq` being the position. Retention is not needed here and is left out.

`up` says whether the store takes writes. An attempt fails because it is down, because its answer is
lost after the COMMIT, because the store refuses the message (`Refused`: `PermanentStoreError`) or
because the message itself cannot be written (`Unstorable`: a `RangeError`); such an entry stays in the failed log for good, and
keeps what its account has behind it there, which `FailedLogEmpties` leaves out. A `Lid` message's
conversation is a LID: `enrich()` or a pass may resolve it to a conversation the account includes or
excludes, or not at all; after `LID_MAX_WAIT_MS` with a live socket it is rejected. `emitted[m]` is the
number the event carried, 0 for none.

`recover()` continues in the step that ends its pass: there are only microtasks between them. `finishRecovery()` ends whatever recovery
there is (`Finish`), its own or that of a later outage.
`arrived`, `emitted`, `filtered`, `gone`, `held` and `late` are history, for the properties; `late` and
`held` mark the messages that are documented, or found, to be overtaken.

Left out: an account deleted while its messages are in the failed log (`inbound-pipeline.ts:223`: they are discarded, as the
excluded ones are) or whose list changes meanwhile (line 235: a `Lid` message is judged by its conversation once), media, metrics, and a configuration without a message log or a failed log.

### Failed inbound log as a file

`file` is a sequence of lines, each a sequence of fragments: an entry, or `torn`, what a cut-off write
leaves of one. `cutShort` says that the last line has no end yet. A line reads back only if it is one
entry and nothing else. `turn` is `fileTurn`: the head has the file. An append is one step when it goes
through, and `HalfAppended` lists what is there when it does not, because the disk fails, the process is
killed or the power goes. A pass reads, hands over its lines one by one without having the file, writes
down the rejected ones, and rewrites the file with what stays and what was appended meanwhile.
`survivors` is what the path may hold after a power cut instead: what was there before a removal or a
rename that no flush of the directory followed, or before an append that was not flushed.

The pipeline model has the same log with these operations as steps that happen or fail as a whole; that
is what `ImplementsFailedLog` justifies. The pass runs again and again, as `retryHeldLater` sees to in
the pipeline (`FailedLogEmpties`). Left out: which line of the file of rejects an entry is on.

`NamesStay` is an assumption on the file system: flushing a new file makes its name stay too (ext4, XFS).
`append` creates the file and flushes it, but only the rewrites flush the directory. Without the
assumption `ImplementsFailedLog` does not hold: an append that resolved, a power cut, and the file is gone.

### Conversations

`queue` and `step` are the account's turn in the pipeline, with the awaits of `enrichEnvelope`; the log takes a WhatsApp message of an account
once. A message comes as a placeholder that could not be decrypted (`stub`), `empty`, or with its `content`, in any
kind of upsert and again. `at` is the gateway's clock when the message is mapped or sent, which is what the log's `timestamp` is; instants are
distinct. `request[q]` is a send: the account is the one named or the first that matches and is not suspended
(whether it has a socket is not asked), the answer comes before the row, and the row is left to an event handler. `Context` is the history
as `GET .../context` returns it: the newest by `timestamp`, oldest first.

What the code does and the property allows for: messages another device of the account sent (`fromMe`) are never in a thread; what is sent to
a LID stays under the LID; an outbound reaction is logged as the text of its emoji; a save that fails, or is under way
when the process exits, leaves no row, and the shutdown does not wait for it. Left out: wwebjs makes a contact's id (`@c.us`) of a group's when it sends,
and a history asked for without an account shows a group message once per account in the group.

### Inbound webhooks

`post[u]` is the handler of what a provider posted: the lookup of the account, then the lookup of its webhooks, then the
answer; accounts and webhooks may change between them, the process may end, and the answer may get lost, after which the provider posts it again. A body is
what the adapters and filters look at: the type of a wwebjs message, the kind and fields of a Telegram update. Nothing here goes through the
pipeline: these messages are not deduplicated and not stored (`README.md:58` says "Store all inbound and outbound
messages", `message-store.port.ts:86` "Every inbound message gets a per-account contiguous `accountSeq`"), an accepted one that no webhook wants and that finds no global URL goes nowhere, what an
account's filters exclude goes to the global URL, and updates of Telegram with no message in them are answered 400.
Deleting an account leaves its webhooks, which an account created with its id inherits.

### The file of accounts

`AccountsFile` follows one id through POST, PUT, DELETE and checks, in their turns, into memory and file, and through the schema
the start reads the file with: the union that takes the first member of the identity that matches, and the channel's own field from what is left. `unwritten` marks an
observation whose write failed: it stays in memory by design. `flawed` is history: the account was written with an identity its channel has no use for
(none of its own field, an empty address, a field of another channel that passes the union), or by a change that was checked
against an account that was deleted and created again while it waited (`gone`), which may leave it without credentials. The API accepts
all of these, and the instance sends them.

### Boot and shutdown

`boot` is how far `main()` is, `shutdown` what `createGracefulShutdown` holds. Time is counted in seconds from the first signal; a step's timer is due at
its own limit or at what is left of the total. `late` is how long the event loop has been late with a timer that was due. The times
of the steps add up to exactly the total, so with a loop that is late the hard stop may come before the last step; and a shutdown that begins
while the failed log is replayed closes the server before it listens, after which `listen()` fails and `main()` exits at once, drained or not
(`ListenFails`). The property says both.

### Connection of an account

`BaileysConnection` follows one account, since the manager's maps are keyed by account. `manager` holds what
those maps have for it: `entry` (`sockets`), `opening` (`connecting`, with who began), `ended`, `timer`, `clearing`,
`wired` (the handlers). `socket[s]` is what a Baileys socket is in truth, which the manager may not know: one that left
the map unclosed is still `open`. `status` and `onDisk` are the account's status in memory and in the file; `writes`
is `lastWrite`, the changes that take turns, the first in progress; `request[r]` is a handler that awaits.
`session` is whether a paired session is stored.

One step runs from an await that really waits (a file, the network, a timer, a turn) to the next. What
only waits for microtasks continues in the same step: `connectWired` up to the reading of the session, a
handler once its write is through, the reset's connect after the deletion. An observation whose turn has come
is applied before anything else. `Dropped` is `sockets.delete()` alone, `Shut` is `closeSocket`: the difference is what
`OneSocket` is about.

Nothing keeps two requests, a check, a timer and the boot about the same account apart, and neither does the model. Two histories name what
comes of it: `stray`, the sockets the end of a logout took out of the map while they were open, and `late`, that something was done for
an account that was another by then: a reset that connects after its deletion, a PUT that decides by the status it read before
its turn, a check that writes back the suspension it saw, the boot that connects from its list, and a deletion that forgets `ended` over a
socket or a backoff timer that came in between. A restart clears both, a suspension that goes through clears `late`.

Bounds: `faults` also counts the requests that take a slot (`call`), and a logout begins only while there is a socket left for the account's next
one (`Room`).

Left out: a status of `error` (no Baileys check returns it), updates that change no status, an auth directory
outside the root, pairing codes, the caches, two resets at once of the same account (`clearing` is a set, so the first to end opens
the door to a connect during the second).

### Webhooks and alerts

`configs` is the account's share of `FileWebhookConfigStore.configs`, `file` the file, `writes` the `writeFile()` calls, which
nothing keeps apart: one that meets another may leave a mixture. `queue[u]` is a destination's entry in
`queues` (`there`), what waits (`pending`) and the POSTs nobody has answered (`posting`); a worker
is the one POST it has under way. An event reaches the webhooks that match, else the global callback.

`outage` is the account's entry in `outages`. Times are told apart as far as the code compares them:
`long` (older than `DOWN_ALERT_AFTER_MS`), `up` (`no`, `since`, `stable` after `STABLE_CONNECTION_MS`),
`next` (`nextAlertAt`: `now`, after a `retry`'s wait, after the `repeat` interval). An alert in a queue remembers
whether its outage is the account's still (`of`), which is the `outage` object `alertIfDue` holds on to. `told` and
`said` are history. Left out: `ALERT_WEBHOOK_URL` not set; deleting an account, which does not
touch its webhooks (nothing calls `removeByAccountId` then, so an account created later with that id has them).

### Live stream

`client` is the SDK's fields, `socket[s]` a connection as the client has it, `server[s]` the server's entry for it, `up` the frames of the client
on their way. A connection that is `silent` passes nothing on and tells neither end; one that
the client dropped stays `closing` until its close arrives. `pings` is `supportsPing`: a browser shows no ping to its
page and arms no watchdog, so nobody tells it of a silent connection (`NeverTold`). Each send of a broadcast may fail. `asked` is what the
application last wished for, `behind` (history) that an event it listens for did not get to it over the connection it has. Left
out: sending over the socket, read-only keys, listeners, backoff delays, and what a frame of the server hands to which listener.

Two things of the code stay outside the properties: a timer that is pending when the application calls `connect()` is not cleared,
so after a refused key (4401) it makes one more attempt although the error says there will be none; and a frame
from a dropped connection is handed to the listeners like any other.

### Media

`job[j]` is a `run()`, with the await it is at; `row[m]` is the media's status in the log (`gone`: the row was deleted), `file[m]`
its file; `resume` is `resumePendingMedia()` with its cursor, `retention` a pass of the schedule. A pass of the resume does not
begin during another (the pipeline may start a second one; `inFlight` keeps them off the same media). `Ages` makes a
file old enough for retention only when its row is not pending: a gateway that is down, or retries, for longer than the retention period is left out.
There a pass may mark `expired` a media whose file was just stored again. When
`purgeOlderThan` fails halfway the removed ids are forgotten and the rows stay `ready`; the media
endpoint answers 410 for them, so `served` ends with the file.

## 3. What TLC checks

| Run | Properties | Bounds |
|---|---|---|
| `postgres_log` | `TypeOK`, `Unique`, `GapFree`, `ReusedOnlyWhenEmptied`, `NeverRefused`, `ImplementsMessageLog`, `EveryInsertEnds` | 2 accounts, 4 envelopes (two are one WhatsApp message, one, with no id, is stored above the counter), 2 connections, numbers to 3, 2 instants; 166 000 states |
| `number_reuse` | `NumbersNeverReused`, violated | 2 envelopes, no rows to begin with |
| `catch_up` | log: `NothingSkipped`, `AnswerExplainsItself`; conversation: `ThreadIsWhole`; media: `ReadyIsServed`, `PendingIsRemembered` | 1 account, 3 envelopes, 2 connections, page of 1; 3 messages received and 2 sent, 3 turns in the queue, 2 accounts, one fault; 2 media (one that cannot be restored), 2 runs, 1 slot, 1 retry, pages of 1; 2.0 million states |
| `inbound` | `TypeOK`, `NothingLost`, `OrderButForLate`, `NumberedEventsAreStored` | 3 messages of an account, one from a LID and one that is another redelivered; one retry; any three of two outages, a lost answer, a file failure, a shutdown or crash; two `recover()` at once, which are symmetric; 2.7 million states |
| `inbound_live` | `CircuitCloses`, `FailedLogEmpties`, `QueuesMove` | 3 messages: one the store refuses, a plain one, one no attempt can write; an outage, a lost answer, a shutdown or crash, one `recover()`, with fairness; 186 000 states |
| `shutdown_order` | `ArrivalOrder`, violated | 2 messages, an outage and a stop |
| `storage` | failed log: `ImplementsFailedLog`, `EntriesGetOut`; SQLite: `SqliteImplementsMessageLog`; upgrade: `UpgradeIsSound`; export: `ExportsAll`; accounts: `MemoryIsNextStart`; shutdown: `ShutdownIsOrderly` | 2 entries, save fails once, the disk twice, a kill, a power cut; 2 accounts, 5 envelopes, batches of 2; 2 gateways on every table of up to 3 rows of an account that one `WHERE` could confuse; 3 messages of 2 accounts, pages of 1 and 2; 2 changes in their turns, identities given, missing and of another channel, one fault; 5 steps in 10 seconds, one second late; 576 000 states |
| `export_offset` | `OffsetGivesTheRest`, violated | `storage`'s |
| `connections` | `OneSocket`, `SuspendedIsClosed`, `ConnectedIsWired`, `ComesBack`, `LostIsReported` | 2 sockets, 2 slots and two calls that take one, besides any number of connects and checks; one network fault, one fault of the host (a write, a deletion, a crash or a shutdown); 708 000 states |
| `suspended_open` | `SuspendedStaysClosed`, violated | the same |
| `one_socket` | `NeverTwoSockets`, violated | the same |
| `downstream` | configuration: `SavedWhenQuiet`; queues: `InOrder`; alerts: `AlertsKeepUp`, `LostIsTold`; live stream: `OneConnection`, `FiltersAgree`, `MissedIsNoticed`, `Reconnects`; intake: `AcceptedIsForwarded` | 2 webhooks, 2 destinations, 2 writes at once, 3 events, a queue of 1 besides the POST; 2 accounts, 2 connections, one frame on its way up, one fault, clients with and without pings; 4 updates posted up to twice, 2 webhooks, 4 kinds of account, one change; 348 000 states |

Why these bounds are enough to meet the interesting cases: two connections are enough for one to hold the counter while
the other waits, also while it catches up with rows above the counter; two WhatsApp ids and
one envelope without give every kind of conflict; a page of one puts a page boundary at every number.
In the pipeline three messages of an account are one written off, one behind it and one that would
overtake both, and a redelivery meets the first wherever that is; a retry limit of one has both the retry and its exhaustion. The file needs an entry in a pass and one that arrives
before, during or after it; two failures of the disk put a torn line and a failed pass, or two torn lines, into one behaviour. Faults come
in every order with the others and at every step; `inbound` has a second outage because only then may one `recover()` end the recovery of another, and any three
of its five faults, since four more at once are the same cases further apart. `inbound_live` has one `recover()` at a time: a probe waits until the one before has ended. Faults are bounded (`MaxFaults`, `MaxFailures`, `MaxMishaps`), messages are finite, so the
systems go quiet: their runs say `CHECK_DEADLOCK FALSE`. `connections` needs a second socket for the successor of
one that is still closing, and a second request for anything to overlap with a change, a logout or a clearing; any third would overlap with each of them in turn. The parts of
`downstream`, of `storage` and of `catch_up` share neither variables nor steps with each other but for
the queues that alerts and events share, which are in one part; their modules explore them one at a time (`part`), which
finds the same states of each as exploring them side by side. Batches of two leave a full and a last one in five rows; a table of the upgrade
has every mixture of received and sent, content and placeholder, age against place, and a WhatsApp id that repeats or not; a page of one moves its
boundary with every row that comes or goes. Three turns in a queue of one account are a placeholder or copy before, between and after what it is of. The times of
the shutdown are the code's, in whole seconds. A queue of one is full with the second delivery that waits; one slot makes the second download wait; a page of one puts the
cursor between the two media. A queue or lock that is stuck shows in the
liveness properties instead.

**Fairness.** `postgres_log`: a statement that can run runs, again and again (strong fairness per
connection, as Postgres grants a row lock in turn); a session the gateway let go of is ended
(`IDLE_IN_TRANSACTION_TIMEOUT_MS`). A connection is never obliged to begin. `inbound_live`: an await ends (that of `resumePendingMedia()` too), a timer that is set fires, the
store comes back, a gateway that is down is started again. Nothing obliges a message to arrive, a fault to happen or an
unresolved LID to resolve; `inbound_live` has no LID, since one that never resolves stays in the failed log
up to seven days and, with no socket, longer. `storage`: for the failed log alone, the disk and `save` answer, and a pass is
started again when none runs. `connections`: reads, writes, deletions and the logout's
5 s end, timers fire, the boot goes on, a stopped process is started, and health checks recur (strong fairness, as `setInterval`
does not care what else is under way at the time). No socket is obliged to open: `ComesBack` promises the attempt. `downstream`: POSTs end
(`WEBHOOK_TIMEOUT_MS`), the interval of the alerts recurs and time passes, and a destination that gets the alert again and again
answers 2xx some time (strong fairness: without it nobody can be told); reconnect and watchdog timers fire, the heartbeat recurs, a reachable
client answers a ping, a reachable server answers a connection, and whoever can hear of a close does. The other
parts have no liveness property and no fairness.

### What the runs show

* The counter's row lock does what its comment says: interleaved transactions are one atomic insert
  each, a duplicate consumes no number, a lost COMMIT answer leaves the row or nothing, a dead
  connection blocks the account only until the server ends its session.
* A consumer that follows the protocol skips nothing and can always tell a gap from retention.
* Through an outage, lost answers, a shutdown or a crash nothing that was accepted is lost
  but what a crash takes from memory and what neither log would take (reported LOST), and numbers keep
  the order of arrival except where the code's own documentation says they do not (`held`), and in the
  cases of a stopped guard and of one recovery that ends another, below (`late`).
* An entry of the failed log survives whatever interrupts a write: it is never glued to another, dropped
  by the rewrite or taken ahead of an older one, and a failure does not block the file.

**Finding: a number can be used again.** `insertInbound` takes a conflict with no row behind it for a
counter that has fallen behind. Retention can delete the duplicate between the two statements. When
it was also the account's last row, the counter goes back and numbers are handed out twice, against the
migration's comment. `MCReuse` shows it. Retention cuts in there in every run and in the proofs: `overtaken` marks the transactions it
does that to, and `ReusedOnlyWhenEmptied` says that nothing else makes a number come again. A consumer is safe until then
(`restarted`).

**Finding: order while draining.** `stop()` turns off both retries and the circuit. A message that
fails once is written off and the next of its account goes straight in; the first is stored at the next start,
with a later number. `MCInboundShutdown` shows it.

**One recovery ends another.** Nothing keeps a `recover()` from outliving its outage: a pass stuck in slow inserts while the circuit opens again and
the store comes back lets the old one finish the new recovery, with messages of the second outage still in the failed log, and so does the
`finishRecovery()` in the catch after `resumePendingMedia()`, however late that rejects. `OrderButForLate` is what holds besides these two: what they let pass is in `late`, nothing else is
overtaken.

**Finding: the offset does not give the rest.** `MCExport` shows both ways a message falls between two pages: a tie that changes places, and a purge by
`created_at`. `messages.controller.ts:276` says "use `offset` for the rest". `ExportsAll` is what an export does have.

* But for the two findings below an account has one socket and the manager knows it, through drops, lost sessions, resets, boots and checks; a
  connection that should be there comes back, with its handlers, and a lost session reaches the account's status. A failed write
  of the accounts' file never undoes a decision.
* The file of webhooks is right again after any change that was saved alone. Destinations get events one at a time in order;
  an alert dropped from a full queue is tried again, and the loss of a session is told although an alert about the
  drop before it was just delivered.
* The SDK's client has one connection and the filter the server has; it reconnects from every kind of failure, told or not, and
  whoever misses an event is told by losing the connection; but for a browser on a silent one, which nothing tells.
* A media that is ready stays served until retention takes it; what is pending is always somebody's.
* SQLite keeps the same promise as Postgres, retention in batches included; the upgrade loses no row, however many gateways
  start and wherever they end; a counter behind its rows costs an insert one more try, never two.
* A conversation reads as it happened, each message once, with its content, although Baileys hands it over as a placeholder, late or twice.
* What is answered with 200 to a provider has been handed to the webhooks, once for each 200.
* What is in memory is what the next start gets, as long as no account was given what the start refuses. A shutdown reports success only for a
  success and no schedule survives it.

**An account that keeps the next start from loading.** `POST /accounts` takes an email account without an identity and
writes one with an empty address, which the schema of the file refuses, and with it all accounts, against the comment of `commit()` in `in-memory-account.repository.ts:112`
("what is in memory is what the next start would load"). No run is kept for it: `NextStartLoads` in place of the
invariants of `MCExport.cfg` shows it in a few states. `MemoryIsNextStart` says of which accounts the comment is true (`flawed`).

**Not every message arrives in the standardized format.** SMS and email have no inbound adapter: their controllers
hand the provider's body on (`sms-webhook.controller.ts:60`, `Forwards`), while `README.md:268` says "Every inbound message, regardless of
platform, arrives in this standardized format". No run is kept for it.

**Beside the models.** Two queries disagree on what a participant is: `postgres-message-store.ts:271` counts each name a sender had,
`sqlite-message-store.ts:214` and `message-store.port.ts:185` ("Number of unique participants") the sender.

**Finding: a suspended account with an open connection.** `MCSuspended` shows the shortest way: the boot lists the accounts to connect once, and one that a
PUT suspends while the list is worked through is closed and then connected. The others are what `late` names: `PUT /accounts/:id` reads whether the account is suspended before
it waits for its turn to write, so one that suspends, sent while another reactivates, finds nothing to close; a check that began while the account was
suspended writes `suspended` over the reactivation that came in between (`apply-health-result.ts:8` keeps what it saw, the other way round); a reset does not look
again after its deletion. All against `README.md:161`: "`status: suspended` closes its connection".

**Finding: two sockets.** `disconnect()` deletes whatever entry the account has after the up to 5 s of its logout. A successor opened meanwhile (its own was
lost, somebody connected) stays open with nobody to close it, and the next connect opens a second beside it. `MCTwoSockets` shows it, against
`baileys-socket.manager.ts:114`. `OneSocket` says that nothing else leaves one open.

**A timer for nobody.** A retry that fails during a deletion sets its backoff timer (`baileys-socket.manager.ts:675`) after the deletion has cleared
them; `forgetAccount` then forgets the flag that would stop it, and the timer connects an account that is gone. It is part of `late`.

## 4. What is proved

Every theorem is about all values of the constants that satisfy the assumptions of its module, which TLC evaluates on
every instance, and whatever else the last column of this table names.

| Theorem | States | Assumes besides |
|---|---|---|
| `PostgresMessageLog_proofs!TypeCorrect` | `Spec => []TypeOK` | |
| `OneRowPerMessage` | `Spec => []Unique` | |
| `SecondInsertGoesIn` | `Spec => []NeverRefused` | |
| `NoNumberMissing` | `Spec => []GapFree` | `CountersCaughtUp` |
| `NumbersStayUsed` | `Spec => ReusedOnlyWhenEmptied` | `CountersCaughtUp` |
| `InsertIsAtomic` | `Spec => ImplementsMessageLog` | `CountersCaughtUp` |
| `NothingIsSkipped` | `CatchUpSpec => []NothingSkipped` | `CountersCaughtUp` |
| `AnswersExplainThemselves` | `CatchUpSpec => []AnswerExplainsItself` | `CountersCaughtUp` |
| `InboundPipeline_proofs!TypeCorrect` | `Spec => []TypeOK` | |
| `NothingIsLost` | `Spec => []NothingLost` | |
| `EventsCarryTheirOwnNumber` | `Spec => []NumberedEventsAreStored` | |
| `ArrivalOrderIsKept` | `Spec => []OrderButForLate` | |
| `FailedInboundFile_proofs!FileImplementsLog` | `Spec => ImplementsFailedLog` | `NamesStay` |
| `BaileysConnection_proofs!OneSocketAtMost` | `Spec => []OneSocket` | |
| `ConnectedAndHeard` | `Spec => []ConnectedIsWired` | |
| `SuspendedMeansClosed` | `Spec => []SuspendedIsClosed` | |
| `Downstream_proofs!SavedChangesStay` | `Together => []SavedWhenQuiet` | |
| `EventsInOrder` | `Together => InOrder` | |
| `AlertsAreKept` | `Together => []AlertsKeepUp` | |
| `OneConnectionAtMost` | `LiveSpec => []OneConnection` | |
| `FiltersAgreeWhenHeard` | `LiveSpec => []FiltersAgree` | |
| `Messages_proofs!UpgradeSound` | `UpgradeSpec => []UpgradeIsSound` | `TablesFit` |
| `ExportComplete` | `ReadSpec => []ExportsAll` | `ReadsFit` |
| `HistoryIsWhole` | `TalkSpec => []ThreadIsWhole` | `IdsDiffer` |
| `MediaAndIntake_proofs!ReadyServed` | `MediaSpec => []ReadyIsServed` | `MediaBounds` |
| `PendingRemembered` | `MediaSpec => []PendingIsRemembered` | `MediaBounds` |
| `AcceptedForwarded` | `IntakeSpec => []AcceptedIsForwarded` | |
| `Process_proofs!ShutdownOrderly` | `ShutdownSpec => []ShutdownIsOrderly` | `TimesFit` |
| `NextStartGetsMemory` | `FileSpec => []MemoryIsNextStart` | `ChannelsKnown` |
| `SqliteIsTheLog` | `SqliteSpec => SqliteImplementsMessageLog` | `CountersFit` |

What the assumptions stand for, and why they are there:

* `CountersCaughtUp`: counters start where the migration leaves them, which is what `LogUpgrade` shows of it. (In `CatchUp` and the
  refinement too: nothing is assumed of retention.)
* `NamesStay`: flushing a file makes its name stay (section 2).
* `CountersFit`: a counter is at the last number of its account or past it, or the next number it would give is taken. The migration
  leaves the first; older counters from a backup are the second, while the row of that number is there. With a counter behind and its
  next number free, a new row goes below old ones, with a hole between them.
* `TablesFit`: a legacy table is finite, one row per place, its columns typed. `MediaBounds`: at least one download slot, at
  least one row per page, as the code's defaults. `IdsDiffer`: what is sent has another id than what comes.
* `ReadsFit`, `ChannelsKnown`: types of constants. Pages have at least one row; channels have a field of their own.
* `TimesFit`: the times of all steps but the last leave some of the total, as the code's do.
* Those of the modules: an account's messages are its own (`AccountOfAssumption`); the initial rows are finitely many, one
  per message, their numbers without holes, as the migration leaves them (`InitialAssumption`); names of accounts, passes and recoveries are distinct (`NamesAssumption`,
  `FileAssumption`); there are finitely many webhooks to configure (`ConfigAssumption`); bounds are natural numbers.

The invariants the theorems rest on, and why each is needed:

**Postgres log.** The first three rest on `LockInv`: types; two connections never hold the lock of the same account (`LockExclusive`);
the row a transaction is about to commit conflicts with no committed row (`StillFree`); and `Unique`. `Unique`
alone is not inductive: a commit needs to know that the check made two statements ago still holds,
and it does because only the lock's holder adds rows of that account, and retention only removes them.
The last three rest on `NumberInv` besides: no row is above its account's counter (`CounterIsLast`); every number
from a row to the counter has its row (`Dense`), which is stronger than `GapFree` and inductive; higher
numbers were created later, so what retention takes is a prefix (`AgesInOrder`); and a lock holder has the
counter's next number, and a conflict it met is its own message unless retention took that (`overtaken`). Only then is the
catching-up branch taken, and it starts at 1 again only in an account that has no row left (`NextInLine`, `Follows`). `InsertIsAtomic` then maps `Commit` and `CommitUnanswered` to `Insert`, `FindDuplicate` to
`AnswerDuplicate`, `DeleteOlderThan` to `Purge`, and every other step to a stutter; a transaction that was `overtaken` is an `Insert` too.

**Catch-up.** `CatchUpIsTheLog` makes `NumberInv` available, and `LogOnlyGrowsAbove` says what a step of the log is to a reader: new
rows are above all that were there, old ones go from the bottom. `ReaderInv` says what each of the three reads still
knows when the next is made: nothing that is left is below the page and was not in it (`PageIsClosed`), the page has no
hole of its own (`PageHasNoJump`), and the last number is not behind the page (`LastIsNotBehind`).

**Inbound pipeline.** `NothingLost` is about where a message is, and it moves through eight places. `PipelineInv` says for each of them what
is true of a message there: queues hold accepted messages, and what a worker does is about the head of its own (`QueueInv`);
a message has one row at most, and an event with a number has its row (`LogInv`); whoever is in `fileTurn` is there once and is waiting
for it (`TurnInv`); a line of a running pass that is not kept is stored, rejected or settled otherwise, and what the pass has not yet
read is behind what it has (`PassInv`, `LineIsSafe`: this is why dropping lines at the end of a pass loses nothing, with appends
meanwhile); what `drain()` gathers is still in `unsaved` (`LeftInv`). It needs
neither fairness nor a bound: any number of outages, lost answers and crashes.

**Order of arrival.** `OrderInv` extends it by which of two messages of an account may be where. `QueueOrder`, `LeftOrder`, `FileOrder`, `LineOrder`
and `KeptInv` say that each place is in order and which place is behind which: memory behind the failed log, what drain() writes off
behind what a worker has, a line being stored ahead of both. `LogOrder` and `CallsInv` say the same of what is stored, or about to be,
except that it may have overtaken what is set aside. The heart is `CoverInv`, the reason a worker may go straight to
the store: unless the store is down or the circuit stopped, each entry of the failed log that may still be stored in order has a pass coming
that will be handed it, and it is the one that counts: the recovery's while recovering, the account's own or the startup's otherwise. `WritesInv`
keeps it for messages on their way into the file when a recovery reads it, `HeldBackInv` for entries kept because an earlier one failed (another recovery is to come for them, or all of them are in `late`),
`CallersInv` for the passes that wait for one another. When one `recover()` ends the recovery of another (`RecoveryCut`), the cover is gone, and what is
in the file then is what `late` lets pass.
Trying to prove it found a case the bounds had hidden: a LID that a pass has judged, with a crash before the file is rewritten, is judged anew
by the next start, when what it had behind is stored. With two crashes in a run TLC shows it too. Such lines count as
overtaken on their own account (`SetAside`), which is what the code does.

**Failed log's file.** `FileInv`: entries are appended once (`AskedInv`); whatever the path may hold, now or after a power cut,
has every unsettled entry on a line of its own, in the order of the appends (`DiskInv`, one predicate for `file` and each
member of `survivors`); and the lines a pass read are still the first of the file, its `kept` a subsequence of them that leaves out
only what is settled (`PassInv`). A kill in the middle of any write then lands in a member of a set about which the
same is known. Each step maps to `AppendEntry`, `Settle` or a stutter.

**Sockets of an account.** One induction for types, one for requests and the queue of writes (`RequestInv`: what a slot holds fits its step;
`WriteInv`: a change that waits belongs to the request that waits for it, and no two to the same), and one for the manager. `SocketInv` adds to
`OneSocket` that there is no entry while a socket is being opened, and that a timer waits only with none or a dead one: this is what a step that registers a
socket relies on. `WiredInv` is about whatever holds a connection (`Held`: a socket, one being opened, or a timer), which has its handlers unless it ended
closed. For suspension `ClosedInv` says that what an unwanted account still holds has ended closed, and that its socket is being closed by
a logout under way (`Closing`); `QueueInv` that only a deletion makes an account none. Nothing is assumed about which requests overlap: the steps
that break the promise are in `stray` and `late`.

**Webhooks and alerts.** `Together` interleaves the three parts that the run explores one after the other: changes of the
configuration, events through the queues, and the outage with its alerts in the same queues, restarts included. `Inv` says that the last write of a change
that had the file for itself is what it holds (`ConfigInv`), that the events of a destination in flight, waiting and still on the bus are in
order (`QueuesInv`), and where the alert is (`AlertsInv`). `InOrder` is an action property and follows from the invariant at each step. `Repeated`, a
recursive function over the numbers, is shown to be one by induction over a set of numbers.

**Live stream.** `OneConnection` needs that a socket the client dropped is no longer the one it has, and that timers belong to a client
without a socket. `FiltersFollow` is the strengthening of `FiltersAgree`, which is about moments when nothing is on its way: at any moment the
frames on their way up, applied in turn (`Becomes`), make of the server's filter what the client has asked for.

**Upgrade.** `UpgradeInv`: until the last script is recorded the table is `legacy`, afterwards it is what the script makes of `legacy`,
whichever gateway applied it. The rest is about the script. Which of two copies stays is a strict order on the copies of
a message, so there is a best one in a finite set and it is the archive's `keptId`. The numbers of an account are the count of rows not younger
than a row: they grow with age, so no two rows have the same, and as many different numbers from 1 to the count are all of them.

**Export.** `ReadInv` says where the rows are that the client is to have and has not got: but for those in `moved`, each has at least `offset` newer ones among
those that match (`AfterOffset`). A new row only adds to them, what a purge takes from before an older row puts that row into `moved`, and a page takes those with
less than `offset + limit` newer ones, but for the ties at its end, which are in `moved` too.

**Conversations.** `TalkInv`: everything that happened has one place among what happened (`PlaceInv`); a row is of it, as it happened, with all that was received before it
logged earlier (`RowInv`); and each message received but not logged has a copy in the queue, behind one of each earlier message
that is not logged either (`QueueInv`). Only the first copy counts, and only it need know the place and, after the
lookup, the phone's conversation: the log refuses the others. `WaitsInv` is about the group's name, which is waited for once.

**Media.** Slots are counted by who holds one, and nobody waits while one is free (`SlotInv`); no two calls work on one media, a file is there
before that is recorded, and what is about to be skipped is not ready (`CallsInv`: `inFlight` is what keeps the status
that was read before the await true after it); retention works on files nobody works on (`FilesInv`).

**Inbound webhooks.** What is about to be handed over has an account whose adapter understood it (`Understood`), whatever
became of the account since; for each post as many are handed over as were answered 200, lost answers included.

**Shutdown.** Steps are gone through in order, and a clean shutdown has only good ones behind it (`StepsInOrder`). Unless a timer was late, a step's timer is
due no later than the sum of the times up to it (`InTime`, with the recursive function `Elapsed`), so the next one still gets its turn.

**File of accounts.** `FileInv`: unless an observation could not be written, memory and file are the same, both an account the schema
takes back as it is unless it is `flawed`. Its core is `QueueInv`: a body that waits for its turn was checked against an account of the kind it will find, or
is marked as checked against one that is gone (`gone`).

**SQLite.** `SqliteInv`: in an account a higher number is a younger row in every order (`RowsByAge`), so a batch takes the lowest; no counter would
hand out a number below its rows (`NextIsAbove`); and while a pass is under way counters are not behind. Each batch maps to a purge of `MessageLog`.

Only model-checked:

* liveness, which the prover does not handle: `EveryInsertEnds`, `EntriesGetOut`, `CircuitCloses`, `FailedLogEmpties`, `QueuesMove`,
  `ComesBack`, `LostIsReported`, `LostIsTold`, `MissedIsNoticed`, `Reconnects`;
* `GapFree`, `ReusedOnlyWhenEmptied` and the refinement of the Postgres log when a counter starts behind its rows.

## 5. Plan

Done: the models of both message logs, the upgrade, catch-up and reads, the inbound pipeline, the failed log's file, the
connection of an account, its file, conversations, inbound and outbound webhooks, alerts, the live stream, the media, boot and
shutdown; the theorems of section 4.

Every safety property of the runs has its theorem, so what is left is to model more:

1. The live stream with the catch-up: a client that reconnects ends up with every message, whichever of the two it came by.
2. `FailedInboundLog` in place of the pipeline's own log, so that the order of arrival is proved of the file as it is on disk.

None of the modules has a recursive operator; `Repeated` of `WebhookForwarder` and `Elapsed` of `GracefulShutdown` are recursive functions.

Not modelled, and why: the generated API types and the SDK's requests, the n8n nodes, the server's wiring, authentication, configuration and metrics translate, configure or
count; Twilio, MessageBird and Brevo send one request for one message; search and statistics read once. They are where
most of the remaining lines are; none of them has a protocol a model would add to their tests.
