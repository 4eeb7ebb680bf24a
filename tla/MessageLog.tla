---- MODULE MessageLog ----
(***************************************************************************)
(* What MessageLogPort promises of insertInbound and deleteOlderThan: every *)
(* insert is one atomic step. This is also how the SQLite store works: its *)
(* transaction runs synchronously, so nothing can come between its steps.  *)
(***************************************************************************)
EXTENDS MessageRows

VARIABLES
    rows,       \* the committed rows that carry an account_seq
    counters,   \* account_counters.n per account, 0 for an account with none
    answer      \* the last InsertResult a caller got

vars == <<rows, counters, answer>>

\* An InsertResult, with the envelope it was asked for. storedId is optional.
InsertResult ==
    [envelope : Envelope, inserted : BOOLEAN, storedId : SUBSET Envelope, accountSeq : Nat]

NoAnswer == [envelope |-> AnyEnvelope, inserted |-> FALSE, storedId |-> {}, accountSeq |-> 0]

Inserted(e, n) ==
    [envelope |-> e, inserted |-> TRUE, storedId |-> {}, accountSeq |-> n]

Duplicate(e, row) ==
    [envelope |-> e, inserted |-> FALSE, storedId |-> {row.id}, accountSeq |-> row.accountSeq]

Init ==
    /\ rows = InitialRows
    /\ counters = InitialCounters
    /\ answer = NoAnswer

\* The number the next row of account a gets: the counter's next, or, when rows of
\* the account already have it, the one past them all.
NextNumber(a, n) ==
    IF NumberTaken(rows, a, counters[a] + 1)
        THEN PastAll(rows, a, n)
        ELSE n = counters[a] + 1

\* The row is committed; the caller hears of it or its answer is lost.
Insert(e) ==
    /\ Holding(rows, e) = {}
    /\ \E row \in rows' : /\ rows' = rows \union {row}
                          /\ row.id = e
                          /\ NextNumber(AccountOf[e], row.accountSeq)
                          /\ counters' = [counters EXCEPT ![AccountOf[e]] = row.accountSeq]
                          /\ \/ answer' = Inserted(e, row.accountSeq)
                             \/ UNCHANGED answer

\* A duplicate changes nothing and consumes no number.
AnswerDuplicate(e) ==
    /\ \E row \in Holding(rows, e) :
           /\ (\E r \in Holding(rows, e) : r.id = e) => row.id = e
           /\ answer' = Duplicate(e, row)
    /\ UNCHANGED <<rows, counters>>

\* Retention takes the lowest numbers of each account.
Purge ==
    /\ rows' \subseteq rows
    /\ \A r \in rows', s \in rows :
           AccountOf[r.id] = AccountOf[s.id] /\ s.accountSeq > r.accountSeq => s \in rows'
    /\ UNCHANGED <<counters, answer>>

Next ==
    \/ \E e \in Envelope : Insert(e) \/ AnswerDuplicate(e)
    \/ Purge

Spec == Init /\ [][Next]_vars
====
