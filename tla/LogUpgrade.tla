---- MODULE LogUpgrade ----
(***************************************************************************)
(* The upgrade of a database to the message log: the scripts that are not  *)
(* recorded yet run in order, each with its record in one transaction, and *)
(* the last one dedupes and numbers the rows a gateway without a log left  *)
(* behind. Gateways may start at the same time, and end at any point.      *)
(***************************************************************************)
EXTENDS Integers, FiniteSets

CONSTANTS
    Starter,        \* gateways that start on the database
    Scripts,        \* how many scripts there are; the last one is message_log
    AccountId,      \* channel accounts
    NoWhatsAppId,   \* an envelope with no WhatsApp id
    Tables,         \* the tables an upgrade may find; a row's id is its place (rowid, or the seq of the rewrite)
    MaxMishaps      \* bound: gateways that end before they have started

VARIABLES
    legacy,            \* history: the rows before the upgrade
    messages,          \* the table of that name
    archive,           \* messages_dedupe_archive
    accountCounters,   \* account_counters
    recorded,          \* the scripts in _migrations
    starter,           \* per gateway, how far it is and the scripts it has to apply
    mishaps            \* how many have ended

upgradeVars == <<legacy, messages, archive, accountCounters, recorded, starter, mishaps>>

---------------------------------------------------------------------------
\* The script message_log

SameMessage(r, s) == r.account = s.account /\ r.waId = s.waId /\ r.waId # NoWhatsAppId

Older(r, s) == r.createdAt < s.createdAt \/ (r.createdAt = s.createdAt /\ r.id < s.id)

\* (slip) the oldest one stays.
Better_Oldest(r, s) == Older(r, s)

\* Content beats a placeholder, then the oldest by created_at, then the lowest place.
Better(r, s) ==
    \/ ~r.placeholder /\ s.placeholder
    \/ r.placeholder = s.placeholder /\ Older(r, s)

Kept(R, r) == CHOOSE k \in R : /\ k = r \/ SameMessage(k, r)
                               /\ \A s \in R : SameMessage(s, r) => s = k \/ Better(k, s)

Removed(R) == {r \in R : Kept(R, r) # r}

\* account_seq: contiguous from 1 over the inbound rows of the account, by age.
Numbered(R, r) ==
    [row |-> r, accountSeq |-> IF ~r.inbound THEN 0
        ELSE 1 + Cardinality({s \in R : s.account = r.account /\ s.inbound /\ Older(s, r)})]

MessageLogScript ==
    LET stays == messages \ Removed(messages)
        numbered == {Numbered(stays, r) : r \in stays}
    IN /\ archive' = {[row |-> r, keptId |-> Kept(messages, r).id] : r \in Removed(messages)}
       /\ messages' = numbered
       /\ accountCounters' = [a \in AccountId |-> Cardinality({n \in numbered : n.row.account = a /\ n.row.inbound})]

---------------------------------------------------------------------------
\* The gateways that start

NotStarted == [step |-> "idle", pending |-> {}]

UpgradeInit ==
    /\ legacy \in Tables /\ messages = legacy
    /\ archive = {} /\ accountCounters = [a \in AccountId |-> 0]
    /\ \E n \in 0 .. Scripts - 1 : recorded = 1 .. n /\ (n = 0 => legacy = {})
    /\ starter = [s \in Starter |-> NotStarted]
    /\ mishaps = 0

Moves(s, state) == starter' = [starter EXCEPT ![s] = state]

\* runMigrations(): a runner with a pool of its own, that lets no statement time out.
Runner(ids) == [step |-> "running", pending |-> ids]

\* What is applied already is read once.
CallRun(s) ==
    /\ starter[s].step = "idle"
    /\ Moves(s, Runner((1 .. Scripts) \ recorded))
    /\ UNCHANGED <<legacy, messages, archive, accountCounters, recorded, mishaps>>

Script(s) == CHOOSE n \in starter[s].pending : \A m \in starter[s].pending : n <= m

\* A script whose columns, tables or record are there already fails.
Applicable(s) ==
    /\ starter[s].step = "running" /\ starter[s].pending # {}
    /\ Script(s) \notin recorded

\* The script and its record, in one transaction.
Applied(s) ==
    /\ Applicable(s)
    /\ recorded' = recorded \union {Script(s)}
    /\ IF Script(s) = Scripts THEN MessageLogScript ELSE UNCHANGED <<messages, archive, accountCounters>>
    /\ UNCHANGED legacy

ApplyMigration(s) ==
    /\ Applied(s)
    /\ Moves(s, [starter[s] EXCEPT !.pending = @ \ {Script(s)}])
    /\ UNCHANGED mishaps

\* The start fails, and the gateway is started again.
ScriptFails(s) ==
    /\ starter[s].step = "running" /\ starter[s].pending # {} /\ ~Applicable(s)
    /\ Moves(s, NotStarted)
    /\ UNCHANGED <<legacy, messages, archive, accountCounters, recorded, mishaps>>

\* It ends in the middle of a script, which is rolled back, or of its COMMIT.
Ends(s) ==
    /\ starter[s].step = "running" /\ mishaps < MaxMishaps
    /\ mishaps' = mishaps + 1
    /\ Moves(s, NotStarted)
    /\ \/ UNCHANGED <<legacy, messages, archive, accountCounters, recorded>>
       \/ Applied(s)

Started(s) ==
    /\ starter[s].step = "running" /\ starter[s].pending = {}
    /\ Moves(s, [step |-> "started", pending |-> {}])
    /\ UNCHANGED <<legacy, messages, archive, accountCounters, recorded, mishaps>>

UpgradeNext ==
    \E s \in Starter :
        CallRun(s) \/ ApplyMigration(s) \/ ScriptFails(s) \/ Ends(s) \/ Started(s)

UpgradeSpec == UpgradeInit /\ [][UpgradeNext]_upgradeVars

\* There is a script, and a table is finite, with one row per place.
TablesFit ==
    /\ Scripts \in Nat \ {0}
    /\ \A T \in Tables :
           /\ IsFiniteSet(T)
           /\ \A r \in T : /\ r.id \in Nat /\ r.account \in AccountId /\ r.createdAt \in Nat
                           /\ r.inbound \in BOOLEAN /\ r.placeholder \in BOOLEAN
           /\ \A r, s \in T : r.id = s.id => r = s

---------------------------------------------------------------------------
\* Properties

Ids(rows) == {r.id : r \in rows}

Inbound == {n \in messages : n.row.inbound}

LogRows == {[id |-> n.row.id, accountSeq |-> n.accountSeq, createdAt |-> 0] : n \in Inbound}

\* The numbered table as the message log has it.
AsLog == INSTANCE MessageRows WITH
    Account <- AccountId,
    NoWaId <- NoWhatsAppId,
    Envelope <- Ids(legacy),
    AccountOf <- [i \in Ids(legacy) |-> (CHOOSE r \in legacy : r.id = i).account],
    WaIdOf <- [i \in Ids(legacy) |-> (CHOOSE r \in legacy : r.id = i).waId],
    InitialRows <- LogRows,
    InitialCounters <- accountCounters

\* However many gateways start at once and wherever they end, the table is either as it
\* was or what the message log expects: one row per message, numbers from 1 without holes
\* in the order of age, counters at the last of them. No row is lost: the archive names
\* the row that stayed for it, one of the same message, with content if any copy had it.
UpgradeIsSound ==
    IF Scripts \notin recorded
    THEN messages = legacy /\ archive = {} /\ \A s \in Starter : starter[s].step # "started"
    ELSE /\ {n.row : n \in messages} \union {d.row : d \in archive} = legacy
         /\ \A m, n \in messages : m = n \/ ~SameMessage(m.row, n.row)
         /\ \A m, n \in Inbound : Older(m.row, n.row) /\ m.row.account = n.row.account => m.accountSeq < n.accountSeq
         /\ AsLog!UniqueRows(LogRows) /\ AsLog!NoHoles(LogRows) /\ AsLog!CountersCaughtUp
         /\ \A d \in archive : \E n \in messages :
                /\ n.row.id = d.keptId /\ SameMessage(n.row, d.row)
                /\ n.row.placeholder => d.row.placeholder
====
