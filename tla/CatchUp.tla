---- MODULE CatchUp ----
(***************************************************************************)
(* A consumer that catches up over GET /api/v1/messages?afterAccountSeq,   *)
(* while inserts and retention go on. The controller asks the store three  *)
(* things, one after the other, and the consumer moves its cursor to the    *)
(* last message it was given.                                              *)
(***************************************************************************)
EXTENDS PostgresMessageLog

CONSTANTS
    Watched,   \* the account the consumer reads
    PageLimit  \* the page size it asks for, already clamped

VARIABLES
    cursor,    \* the last number the consumer processed
    handled,   \* the envelopes it processed
    reading,   \* how far the controller is with its request
    restarted  \* history: whether the account's numbers have started again

consumerVars == <<cursor, handled, reading, restarted>>

allVars == <<vars, consumerVars>>

ASSUME ReaderAssumption == Watched \in Account /\ PageLimit \in Nat \ {0}

NotReading == [step |-> "idle", page |-> {}, last |-> 0, first |-> 0]

ReaderInit == cursor = 0 /\ handled = {} /\ reading = NotReading /\ restarted = FALSE

\* queryAfter: the first PageLimit rows past the cursor, in the order of their numbers.
RowsAfter(n) == {r \in AccountRows(rows, Watched) : r.accountSeq > n}

PageOf(candidates) ==
    {r \in candidates :
        Cardinality({s \in candidates : s.accountSeq < r.accountSeq}) < PageLimit}

ReadPage ==
    /\ reading.step = "idle"
    /\ reading' = [NotReading EXCEPT !.step = "page", !.page = PageOf(RowsAfter(cursor))]
    /\ UNCHANGED <<vars, cursor, handled, restarted>>

\* maxAccountSeq: read after the page so it is never behind a message in it.
ReadLast ==
    /\ reading.step = "page"
    /\ reading' = [reading EXCEPT !.step = "last", !.last = counters[Watched]]
    /\ UNCHANGED <<vars, cursor, handled, restarted>>

NumbersHeld == {r.accountSeq : r \in AccountRows(rows, Watched)}

\* minAccountSeq, 0 standing for its null.
ReadFirst ==
    /\ reading.step = "last"
    /\ reading' = [reading EXCEPT
                       !.step = "answered",
                       !.first = IF NumbersHeld = {} THEN 0
                                 ELSE CHOOSE n \in NumbersHeld : \A k \in NumbersHeld : n <= k]
    /\ UNCHANGED <<vars, cursor, handled, restarted>>

\* The consumer processes the page and keeps its last number as the cursor.
Consume ==
    /\ reading.step = "answered"
    /\ handled' = handled \union {r.id : r \in reading.page}
    /\ \E n \in {cursor} \union {r.accountSeq : r \in reading.page} :
           /\ \A r \in reading.page : r.accountSeq <= n
           /\ cursor' = n
    /\ reading' = NotReading
    /\ UNCHANGED <<vars, restarted>>

ReaderNext == ReadPage \/ ReadLast \/ ReadFirst \/ Consume

\* A row has come under a number the account has handed out before, in the one way there is.
NumbersRestart ==
    \E r \in AccountRows(rows' \ rows, Watched) : r.accountSeq <= counters[Watched] /\ StartsAgain(r)

CatchUpNext ==
    \/ Next /\ UNCHANGED <<cursor, handled, reading>> /\ restarted' = (restarted \/ NumbersRestart)
    \/ ReaderNext

CatchUpSpec == Init /\ ReaderInit /\ [][CatchUpNext]_allVars /\ Fairness

---------------------------------------------------------------------------
\* Properties

\* While the account's numbers have not started again, a row at or below the consumer's
\* cursor has been handed to it: an insert that commits late never appears behind a cursor
\* that has already passed.
NothingSkipped ==
    ~restarted => \A r \in AccountRows(rows, Watched) : r.accountSeq <= cursor => r.id \in handled

\* And the answer explains itself. The page holds no jump within; a jump from the cursor to
\* its first message is retention's, as firstAccountSeq shows; and lastAccountSeq is
\* not behind a message of the page.
AnswerExplainsItself ==
    ~restarted /\ reading.step = "answered" =>
        \A r \in reading.page :
            /\ r.accountSeq <= reading.last
            /\ \/ r.accountSeq = cursor + 1
               \/ \E s \in reading.page : s.accountSeq = r.accountSeq - 1
               \/ reading.first >= r.accountSeq
               \/ reading.first = 0
====
