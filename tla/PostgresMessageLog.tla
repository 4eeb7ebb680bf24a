---- MODULE PostgresMessageLog ----
(***************************************************************************)
(* insertInbound of the Postgres store, statement by statement, on several *)
(* connections at once: the counter's row lock, the duplicate's ROLLBACK,   *)
(* the counter that has fallen behind, a connection lost at any point with *)
(* the server left holding the transaction, a COMMIT whose answer never     *)
(* comes, and retention deleting rows meanwhile.                           *)
(***************************************************************************)
EXTENDS MessageRows

CONSTANTS
    Connection,   \* connections of the pool
    RetentionOn,  \* messageRetentionDays > 0
    MaxSeq,       \* bound: numbers an account's counter may reach
    MaxClock      \* bound: instants

VARIABLES
    rows, counters, answer,   \* as in MessageLog
    tx,      \* per connection, how far its insertInbound is and what it knows
    clock    \* what nowUTC() reads

vars == <<rows, counters, answer, tx, clock>>

Log == INSTANCE MessageLog

ASSUME BoundsAssumption ==
    /\ RetentionOn \in BOOLEAN
    /\ MaxSeq \in Nat
    /\ MaxClock \in Nat

\* The steps of a transaction. An orphaned or doubtful one has lost its client: the
\* server still has it open, and to a doubtful one the COMMIT had been sent.
Steps == {"idle", "begun", "counted", "conflict", "recounted", "written",
          "orphaned", "doubtful"}

\* From the counter's statement on, the transaction holds the lock of its account's
\* counter row.
Locking == Steps \ {"idle", "begun"}

\* overtaken is a history: since its INSERT met a conflict, retention has deleted rows of
\* its account.
Transaction ==
    [step : Steps, envelope : Envelope, number : Nat, createdAt : Nat, overtaken : BOOLEAN]

AccountIn(t) == AccountOf[t.envelope]

HoldsLock(c, a) == tx[c].step \in Locking /\ AccountIn(tx[c]) = a

RowOf(t) == [id |-> t.envelope, accountSeq |-> t.number, createdAt |-> t.createdAt]

\* A connection of the pool without a transaction.
IdleTx == [step |-> "idle", envelope |-> AnyEnvelope,
           number |-> 0, createdAt |-> 0, overtaken |-> FALSE]

Init ==
    /\ rows = InitialRows
    /\ counters = InitialCounters
    /\ answer = Log!NoAnswer
    /\ tx = [c \in Connection |-> IdleTx]
    /\ clock = 0

---------------------------------------------------------------------------
\* insertInbound

\* pool.connect and BEGIN. The bound counts every transaction that may still raise
\* the counter.
Begin(c, e) ==
    /\ tx[c].step = "idle"
    /\ counters[AccountOf[e]] < MaxSeq
    /\ tx' = [tx EXCEPT ![c].step = "begun", ![c].envelope = e]
    /\ UNCHANGED <<rows, counters, answer, clock>>

\* (slip) the counter is bumped without taking its row's lock.
LockFree_Ignored(c, a) == TRUE

LockFree(c, a) == \A d \in Connection \ {c} : ~HoldsLock(d, a)

\* (slip) the first number is 0.
Bump_FromZero(c) ==
    LET a == AccountIn(tx[c]) IN
    /\ tx[c].step = "begun"
    /\ LockFree(c, a)
    /\ tx' = [tx EXCEPT ![c].step = "counted", ![c].number = counters[a]]
    /\ UNCHANGED <<rows, counters, answer, clock>>

\* (slip) the number follows the account's last row.
Bump_FromRows(c) ==
    /\ tx[c].step = "begun"
    /\ LockFree(c, AccountIn(tx[c]))
    /\ \E n \in 1 .. MaxSeq + 1 :
           /\ PastAll(rows, AccountIn(tx[c]), n)
           /\ tx' = [tx EXCEPT ![c].step = "counted", ![c].number = n]
    /\ UNCHANGED <<rows, counters, answer, clock>>

\* (slip) the number comes from a sequence, outside the transaction.
Bump_AsSequence(c) ==
    LET a == AccountIn(tx[c]) IN
    /\ tx[c].step = "begun"
    /\ tx' = [tx EXCEPT ![c].step = "counted", ![c].number = counters[a] + 1]
    /\ counters' = [counters EXCEPT ![a] = @ + 1]
    /\ UNCHANGED <<rows, answer, clock>>

\* INSERT INTO account_counters ... ON CONFLICT DO UPDATE SET n = n + 1 RETURNING n:
\* waits for the row's lock, and what it writes stays in the transaction.
Bump(c) ==
    LET a == AccountIn(tx[c]) IN
    /\ tx[c].step = "begun"
    /\ LockFree(c, a)
    /\ tx' = [tx EXCEPT ![c].step = "counted", ![c].number = counters[a] + 1]
    /\ UNCHANGED <<rows, counters, answer, clock>>

\* (slip) a conflict is taken for an insert.
InsertRow_Blind(c) ==
    /\ tx[c].step = "counted"
    /\ tx' = [tx EXCEPT ![c].step = "written", ![c].createdAt = clock]
    /\ UNCHANGED <<rows, counters, answer, clock>>

\* INSERT INTO messages ... ON CONFLICT DO NOTHING, with created_at read as the
\* statement's values are built: after the lock is held.
InsertRow(c) ==
    LET t == tx[c] IN
    /\ t.step = "counted"
    /\ tx' = [tx EXCEPT ![c] =
                  IF Conflicts(rows, t.envelope, t.number)
                      THEN [t EXCEPT !.step = "conflict"]
                      ELSE [t EXCEPT !.step = "written", !.createdAt = clock]]
    /\ UNCHANGED <<rows, counters, answer, clock>>

\* (slip) a duplicate commits instead of rolling back, and its number is gone.
FindDuplicate_Commits(c) ==
    LET e == tx[c].envelope IN
    /\ tx[c].step = "conflict"
    /\ \E row \in Holding(rows, e) : answer' = Log!Duplicate(e, row)
    /\ counters' = [counters EXCEPT ![AccountOf[e]] = tx[c].number]
    /\ tx' = [tx EXCEPT ![c] = IdleTx]
    /\ UNCHANGED <<rows, clock>>

\* SELECT ... ORDER BY id = $1 DESC LIMIT 1 finds a row: the message is stored. The
\* ROLLBACK that follows takes the counter's bump back, and the caller hears which row
\* has the message. Nothing another session does between the two can tell them apart.
FindDuplicate(c) ==
    LET e == tx[c].envelope IN
    /\ tx[c].step = "conflict"
    /\ \E row \in Holding(rows, e) :
           /\ (\E r \in Holding(rows, e) : r.id = e) => row.id = e
           /\ answer' = Log!Duplicate(e, row)
    /\ tx' = [tx EXCEPT ![c] = IdleTx]
    /\ UNCHANGED <<rows, counters, clock>>

\* (slip) the counter catches up with MAX(account_seq), not with what follows it.
Resync_ToMax(c) ==
    /\ tx[c].step = "conflict"
    /\ Holding(rows, tx[c].envelope) = {}
    /\ \E n \in 1 .. MaxSeq :
           /\ PastAll(rows, AccountIn(tx[c]), n + 1)
           /\ tx' = [tx EXCEPT ![c].step = "recounted", ![c].number = n]
    /\ UNCHANGED <<rows, counters, answer, clock>>

\* It finds none, so the number was taken: the counter was behind. It catches up
\* with the rows, in the same transaction.
Resync(c) ==
    /\ tx[c].step = "conflict"
    /\ Holding(rows, tx[c].envelope) = {}
    /\ \E n \in 1 .. MaxSeq + 1 :
           /\ PastAll(rows, AccountIn(tx[c]), n)
           /\ tx' = [tx EXCEPT ![c].step = "recounted", ![c].number = n]
    /\ UNCHANGED <<rows, counters, answer, clock>>

\* The insert again under the new number. A conflict would be a PermanentStoreError:
\* NeverRefused says that the lock rules it out.
InsertAgain(c) ==
    LET t == tx[c] IN
    /\ t.step = "recounted"
    /\ ~Conflicts(rows, t.envelope, t.number)
    /\ tx' = [tx EXCEPT ![c].step = "written", ![c].createdAt = clock]
    /\ UNCHANGED <<rows, counters, answer, clock>>

Committed(t) ==
    /\ rows' = rows \union {RowOf(t)}
    /\ counters' = [counters EXCEPT ![AccountIn(t)] = t.number]

Commit(c) ==
    LET t == tx[c] IN
    /\ t.step = "written"
    /\ Committed(t)
    /\ answer' = Log!Inserted(t.envelope, t.number)
    /\ tx' = [tx EXCEPT ![c] = IdleTx]
    /\ UNCHANGED clock

---------------------------------------------------------------------------
\* Lost connections

\* A statement fails or takes longer than QUERY_TIMEOUT_MS: insertInbound rejects
\* and release(failure) discards the connection, with no ROLLBACK. The server may
\* have the session open still. When the COMMIT was the one, it may yet take effect.
LoseConnection(c) ==
    /\ tx[c].step \in {"begun", "counted", "conflict", "recounted", "written"}
    /\ tx' = [tx EXCEPT ![c] =
                  CASE @.step = "begun" -> IdleTx
                    [] @.step = "written" -> [@ EXCEPT !.step = "doubtful"]
                    [] OTHER -> [@ EXCEPT !.step = "orphaned"]]
    /\ UNCHANGED <<rows, counters, answer, clock>>

\* (slip) no idle-in-transaction limit: only a COMMIT in doubt is ever resolved.
EndSession_InDoubtOnly(c) ==
    /\ tx[c].step = "doubtful"
    /\ tx' = [tx EXCEPT ![c] = IdleTx]
    /\ UNCHANGED <<rows, counters, answer, clock>>

\* The server ends a session left idle inside its transaction
\* (IDLE_IN_TRANSACTION_TIMEOUT_MS), or sees the connection close: it rolls back.
\* The pool opens another connection in its place.
EndSession(c) ==
    /\ tx[c].step \in {"orphaned", "doubtful"}
    /\ tx' = [tx EXCEPT ![c] = IdleTx]
    /\ UNCHANGED <<rows, counters, answer, clock>>

\* The COMMIT reached the server and nobody hears of it.
CommitUnanswered(c) ==
    /\ tx[c].step = "doubtful"
    /\ Committed(tx[c])
    /\ tx' = [tx EXCEPT ![c] = IdleTx]
    /\ UNCHANGED <<answer, clock>>

---------------------------------------------------------------------------
\* The insert has met a conflict and is about to ask which row it was, or it has found
\* the counter behind and goes by the rows it has counted.
Unsettled(c) ==
    \/ tx[c].step = "conflict"
    \/ tx[c].step \in Locking /\ tx[c].number # counters[AccountIn(tx[c])] + 1

\* The transactions once these rows are gone.
Overtaking(deleted) ==
    [c \in Connection |->
        IF Unsettled(c) /\ AccountRows(deleted, AccountIn(tx[c])) # {}
            THEN [tx[c] EXCEPT !.overtaken = TRUE]
            ELSE tx[c]]

\* (slip) one row at a time, in no order.
DeleteOlderThan_Unordered(cutoff) ==
    /\ RetentionOn
    /\ \E r \in rows : r.createdAt < cutoff /\ rows' = rows \ {r}
    /\ tx' = Overtaking(rows \ rows')
    /\ UNCHANGED <<counters, answer, clock>>

\* DELETE FROM messages WHERE created_at < cutoff, one statement over what is committed.
\* Nothing keeps it from cutting in on an insert with an unsettled conflict.
DeleteOlderThan(cutoff) ==
    /\ RetentionOn
    /\ \E r \in rows : r.createdAt < cutoff
    /\ rows' = {r \in rows : r.createdAt >= cutoff}
    /\ tx' = Overtaking(rows \ rows')
    /\ UNCHANGED <<counters, answer, clock>>

Tick ==
    /\ clock < MaxClock
    /\ clock' = clock + 1
    /\ UNCHANGED <<rows, counters, answer, tx>>

Statement(c) ==
    \/ Bump(c)
    \/ InsertRow(c)
    \/ FindDuplicate(c)
    \/ Resync(c)
    \/ InsertAgain(c)
    \/ Commit(c)

ConnectionStep(c) ==
    \/ \E e \in Envelope : Begin(c, e)
    \/ Statement(c)
    \/ LoseConnection(c)
    \/ EndSession(c)
    \/ CommitUnanswered(c)

Next ==
    \/ \E c \in Connection : ConnectionStep(c)
    \/ \E cutoff \in 1 .. clock : DeleteOlderThan(cutoff)
    \/ Tick

Spec == Init /\ [][Next]_vars

\* A statement ends, and so does a session the gateway has let go of (the server's
\* idle-in-transaction limit). Which of the waiting transactions takes a lock that
\* comes free is the server's choice, and Postgres grants row locks in turn.
Fairness ==
    \A c \in Connection : SF_vars(Statement(c)) /\ WF_vars(EndSession(c))

FairSpec == Spec /\ Fairness

---------------------------------------------------------------------------
\* Properties

\* Types. Numbers start at 1, and a transaction that has written carries one.
TypeOK ==
    /\ rows \subseteq Row
    /\ counters \in [Account -> Nat]
    /\ answer \in Log!InsertResult
    /\ tx \in [Connection -> Transaction]
    /\ \A c \in Connection : tx[c].step \in Locking \ {"orphaned"} => tx[c].number > 0
    /\ clock \in Nat

\* Whatever connections are lost and whatever is retried, a message has one row, and
\* no two rows of an account share a number.
Unique == UniqueRows(rows)

\* accountSeq is contiguous: whatever rolled back, got lost or was deleted, no number
\* is missing between two rows of an account. Only what retention removed is absent, and
\* that lies below everything else.
GapFree == NoHoles(rows)

\* The second insert, after the counter caught up, finds its number free: the store
\* never gives a message up because of a counter that had fallen behind.
NeverRefused ==
    \A c \in Connection :
        tx[c].step = "recounted" => ~Conflicts(rows, tx[c].envelope, tx[c].number)

\* "Kept apart from `messages` so retention never makes a number get reused" (the
\* migrations, of account_counters): a row that commits is numbered above every number
\* its account has handed out.
NumbersNeverReused ==
    [][\A r \in rows' \ rows : r.accountSeq > counters[AccountOf[r.id]]]_vars

\* A transaction that retention has overtaken commits row r to an account without rows.
StartsAgain(r) ==
    /\ AccountRows(rows, AccountOf[r.id]) = {}
    /\ \E c \in Connection : tx[c].overtaken /\ tx[c].envelope = r.id /\ tx'[c] = IdleTx

\* Where that fails: of all the steps that may come between the statements of an insert,
\* only retention, between the INSERT that met a conflict and the SELECT after it, and only
\* when it leaves the account no row at all, makes the numbers start again.
ReusedOnlyWhenEmptied ==
    [][\A r \in rows' \ rows : r.accountSeq > counters[AccountOf[r.id]] \/ StartsAgain(r)]_vars

\* A transaction that retention has overtaken commits its row under the number it found
\* behind the account's rows: before they were deleted, or after.
CommitsOvertaken ==
    \E c \in Connection :
        LET t == tx[c] IN
        /\ t.overtaken
        /\ Holding(rows, t.envelope) = {}
        /\ t.number > counters[AccountIn(t)] \/ PastAll(rows, AccountIn(t), t.number)
        /\ Committed(t)
        /\ answer' = Log!Inserted(t.envelope, t.number) \/ UNCHANGED answer

\* Transactions that interleave statement by statement behave as insertInbound is
\* documented: one atomic insert, a duplicate that consumes no number, and an answer
\* that names the row. A lost answer leaves the row or nothing. Only a transaction that
\* retention has overtaken may choose another number than the atomic insert's.
ImplementsMessageLog == Log!Init /\ [][Log!Next \/ CommitsOvertaken]_<<rows, counters, answer>>

\* No insert waits for ever, whatever the server is left holding when a connection
\* is lost: the account's counter comes free again.
EveryInsertEnds == \A c \in Connection : tx[c].step # "idle" ~> tx[c].step = "idle"
====
