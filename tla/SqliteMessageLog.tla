---- MODULE SqliteMessageLog ----
(***************************************************************************)
(* The SQLite store. It runs on the event loop: an insert is one step, and *)
(* retention deletes a batch at a time and lets everything else in between.*)
(***************************************************************************)
EXTENDS MessageRows

CONSTANTS
    BatchSize,  \* RETENTION_DELETE_BATCH
    MaxSeq,     \* bound: numbers an account's counter may reach
    MaxClock    \* bound: instants

VARIABLES
    table,      \* messages, the rows that carry an account_seq; seq stands for the rowid too
    counters, answer,   \* as in MessageLog
    lastSeq,    \* message_seq_counter
    purging,    \* the cutoff of the deleteOlderThan() that is between two batches
    clock

sqliteVars == <<table, counters, answer, lastSeq, purging, clock>>

rows == {[id |-> r.id, accountSeq |-> r.accountSeq, createdAt |-> r.createdAt] : r \in table}

Log == INSTANCE MessageLog

NotPurging == 0

\* The upgrade numbers the rows it finds in their order.
SqliteInit ==
    /\ \E place \in [InitialRows -> 1 .. Cardinality(InitialRows)] :
           /\ \A r, s \in InitialRows : r # s => place[r] # place[s]
           /\ \A r, s \in InitialRows : AccountOf[r.id] = AccountOf[s.id] /\ r.accountSeq < s.accountSeq => place[r] < place[s]
           /\ table = {[id |-> r.id, accountSeq |-> r.accountSeq, createdAt |-> r.createdAt, seq |-> place[r]] : r \in InitialRows}
    /\ counters = InitialCounters
    /\ answer = Log!NoAnswer
    /\ lastSeq = Cardinality(InitialRows)
    /\ purging = NotPurging
    /\ clock = 0

---------------------------------------------------------------------------
\* insertInbound, a transaction nothing can come between

Bumped(e) == counters[AccountOf[e]] + 1

\* The row goes in under number n, with the next seq, and the counter stays at n.
InsertWith(e, n) ==
    /\ ~Conflicts(rows, e, n)
    /\ table' = table \union {[id |-> e, accountSeq |-> n, createdAt |-> clock, seq |-> lastSeq + 1]}
    /\ lastSeq' = lastSeq + 1
    /\ counters' = [counters EXCEPT ![AccountOf[e]] = n]
    /\ answer' = Log!Inserted(e, n)

InsertNew(e) == InsertWith(e, Bumped(e))

\* DuplicateMessage rolls the bump back.
InsertDuplicate(e) ==
    /\ Holding(rows, e) # {}
    /\ \E row \in Holding(rows, e) :
           /\ (\E r \in Holding(rows, e) : r.id = e) => row.id = e
           /\ answer' = Log!Duplicate(e, row)
    /\ UNCHANGED <<table, counters, lastSeq>>

\* The number is taken and the message is not stored: the counter catches up with the rows.
InsertResynced(e) ==
    /\ Holding(rows, e) = {} /\ Conflicts(rows, e, Bumped(e))
    /\ \E n \in 1 .. MaxSeq + 1 : PastAll(rows, AccountOf[e], n) /\ InsertWith(e, n)

InsertInbound(e) ==
    /\ counters[AccountOf[e]] < MaxSeq
    /\ InsertNew(e) \/ InsertDuplicate(e) \/ InsertResynced(e)
    /\ UNCHANGED <<purging, clock>>

---------------------------------------------------------------------------
\* Retention

Expired(cutoff) == {r \in table : r.createdAt < cutoff}

\* In the order of idx_messages_created_at.
Before(r, s) == r.createdAt < s.createdAt \/ (r.createdAt = s.createdAt /\ r.seq < s.seq)

\* (slip) whichever rows the scan meets first.
IsBatch_AnyOrder(batch, cutoff) ==
    IF Cardinality(Expired(cutoff)) < BatchSize THEN batch = Expired(cutoff)
    ELSE Cardinality(batch) = BatchSize

\* The statement names no order. What it deletes is found by the index over created_at.
IsBatch(batch, cutoff) ==
    IF Cardinality(Expired(cutoff)) < BatchSize THEN batch = Expired(cutoff)
    ELSE Cardinality(batch) = BatchSize /\ \A r \in batch, s \in Expired(cutoff) \ batch : Before(r, s)

\* A batch that is not full is the last one.
DeleteBatch(cutoff) ==
    /\ \E batch \in SUBSET Expired(cutoff) :
           /\ IsBatch(batch, cutoff)
           /\ table' = table \ batch
           /\ purging' = IF Cardinality(batch) < BatchSize THEN NotPurging ELSE cutoff
    /\ UNCHANGED <<counters, answer, lastSeq, clock>>

\* No pass starts while a counter is behind its rows: the numbers it deleted then would be given again.
CaughtUp == \A r \in table : r.accountSeq <= counters[AccountOf[r.id]]

CallDelete(cutoff) == CaughtUp /\ purging = NotPurging /\ Expired(cutoff) # {} /\ DeleteBatch(cutoff)

NextBatch == purging # NotPurging /\ DeleteBatch(purging)

\* The process ends: what is committed stays, the batches that were left are not taken.
Restart ==
    /\ purging # NotPurging
    /\ purging' = NotPurging
    /\ UNCHANGED <<table, counters, answer, lastSeq, clock>>

SqliteTick ==
    /\ clock < MaxClock
    /\ clock' = clock + 1
    /\ UNCHANGED <<table, counters, answer, lastSeq, purging>>

SqliteNext ==
    \/ \E e \in Envelope : InsertInbound(e)
    \/ \E cutoff \in 1 .. clock : CallDelete(cutoff)
    \/ NextBatch
    \/ Restart
    \/ SqliteTick

SqliteSpec == SqliteInit /\ [][SqliteNext]_sqliteVars

\* A counter is at the last number of its account or past it, or its next number is one that a row has.
CountersFit ==
    /\ MaxSeq \in Nat
    /\ \A r \in InitialRows :
           LET n == InitialCounters[AccountOf[r.id]]
           IN  r.accountSeq <= n \/ NumberTaken(InitialRows, AccountOf[r.id], n + 1)

---------------------------------------------------------------------------
\* Properties

\* The SQLite store is the log the port promises as well: with retention cut in batches,
\* inserts and a restart between them, and a counter behind its rows, an insert is
\* atomic, a duplicate consumes no number, and retention never leaves a hole inside an
\* account, not even between two batches.
SqliteImplementsMessageLog == Log!Init /\ [][Log!Next]_Log!vars
====
