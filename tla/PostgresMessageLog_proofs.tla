---- MODULE PostgresMessageLog_proofs ----
(***************************************************************************)
(* What holds of insertInbound for every number of accounts, envelopes and *)
(* connections. The argument is the counter's row lock: transactions that  *)
(* hold one at the same time are of different accounts, so nothing another *)
(* one commits can make a row that was free to insert conflict. On it      *)
(* rests the consumer that catches up by number: the second half, about    *)
(* CatchUp.                                                                *)
(***************************************************************************)
EXTENDS CatchUp, FiniteSetTheorems, WellFoundedInduction, TLAPS

---------------------------------------------------------------------------
\* Facts about the rows

LEMMA AccountOfEnvelope == ASSUME NEW e \in Envelope PROVE AccountOf[e] \in Account
BY AccountOfAssumption

LEMMA AnyEnvelopeIsOne == AnyEnvelope \in Envelope
BY AccountOfAssumption DEF AnyEnvelope

\* Rows only leave: what was free to insert still is.
LEMMA FewerRowsFewerConflicts ==
    ASSUME NEW R, NEW S \in SUBSET R, NEW e, NEW n, ~Conflicts(R, e, n)
    PROVE  ~Conflicts(S, e, n)
BY DEF Conflicts, Holding, NumberTaken, AccountRows

\* A row of another account conflicts with nothing.
LEMMA OtherAccountsRow ==
    ASSUME NEW R, NEW row, NEW e, NEW n, ~Conflicts(R, e, n), AccountOf[row.id] # AccountOf[e]
    PROVE  ~Conflicts(R \union {row}, e, n)
BY DEF Conflicts, Holding, NumberTaken, AccountRows, SameWaMessage

\* A row that conflicts with none keeps the table's unique indexes.
LEMMA UniqueRowsGrow ==
    ASSUME NEW R, UniqueRows(R), NEW row, ~Conflicts(R, row.id, row.accountSeq)
    PROVE  UniqueRows(R \union {row})
BY DEF UniqueRows, Conflicts, Holding, NumberTaken, AccountRows, SameWaMessage

LEMMA UniqueRowsShrink ==
    ASSUME NEW R, NEW S \in SUBSET R, UniqueRows(R)
    PROVE  UniqueRows(S)
BY DEF UniqueRows

---------------------------------------------------------------------------
\* Types

\* Committing a transaction that has a number adds a row and moves a counter.
LEMMA CommittedTypes ==
    ASSUME NEW t \in Transaction, t.number > 0, rows \subseteq Row,
           counters \in [Account -> Nat], Committed(t)
    PROVE  rows' \subseteq Row /\ counters' \in [Account -> Nat]
BY AccountOfEnvelope DEF Committed, RowOf, AccountIn, Transaction, Row

LEMMA TypeOKInit == Init => TypeOK
BY AnyEnvelopeIsOne, InitialAssumption
   DEF Init, TypeOK, IdleTx, Transaction, Steps, Locking, Log!NoAnswer, Log!InsertResult,
       Log!AnyEnvelope, AnyEnvelope

\* A statement moves one transaction and nothing else but the answer.
LEMMA TransactionTypes ==
    ASSUME TypeOK, NEW c \in Connection, NEW t \in Transaction,
           t.step \in Locking \ {"orphaned"} => t.number > 0,
           tx' = [tx EXCEPT ![c] = t],
           answer' \in Log!InsertResult, UNCHANGED <<rows, counters, clock>>
    PROVE  TypeOK'
BY DEF TypeOK

LEMMA TypeOKStep == TypeOK /\ [Next]_vars => TypeOK'
<1> SUFFICES ASSUME TypeOK, [Next]_vars PROVE TypeOK'
  OBVIOUS
<1>i. IdleTx \in Transaction /\ IdleTx.step = "idle"
  BY AnyEnvelopeIsOne DEF IdleTx, Transaction, Steps
<1>t. \A c \in Connection : tx[c] \in Transaction
  BY DEF TypeOK
<1>1. ASSUME NEW c \in Connection, NEW e \in Envelope, Begin(c, e) PROVE TypeOK'
  BY <1>1 DEF TypeOK, Begin, Transaction, Steps, Locking
<1>2. ASSUME NEW c \in Connection, Bump(c) PROVE TypeOK'
  <2>1. PICK n \in Nat \ {0} : n = counters[AccountOf[tx[c].envelope]] + 1
    BY <1>t, AccountOfEnvelope DEF TypeOK, Transaction
  <2>t. tx[c] \in Transaction
    BY <1>t
  <2> DEFINE t == [tx[c] EXCEPT !.step = "counted", !.number = n]
  <2>2. t \in Transaction /\ t.number > 0
    <3>1. t \in Transaction
      BY <2>t, <2>1 DEF Transaction, Steps
    <3>2. t.number = n
      BY <2>t DEF Transaction
    <3> QED
      BY <3>1, <3>2, <2>1
  <2>3. tx' = [tx EXCEPT ![c] = t]
    BY <1>2, <2>1 DEF Bump, AccountIn
  <2> HIDE DEF t
  <2> QED
    BY <1>2, <2>2, <2>3, TransactionTypes DEF TypeOK, Bump
<1>3. ASSUME NEW c \in Connection, InsertRow(c) PROVE TypeOK'
  <2>1. tx[c] \in Transaction /\ tx[c].number > 0 /\ clock \in Nat
    BY <1>3, <1>t DEF TypeOK, InsertRow, Steps, Locking
  <2>2. PICK t \in {[tx[c] EXCEPT !.step = "conflict"],
                    [tx[c] EXCEPT !.step = "written", !.createdAt = clock]} :
            tx' = [tx EXCEPT ![c] = t]
    BY <1>3 DEF InsertRow
  <2>3. t \in Transaction /\ t.number > 0
    BY <2>1, <2>2 DEF Transaction, Steps
  <2> QED
    BY <1>3, <2>2, <2>3, TransactionTypes DEF TypeOK, InsertRow
<1>4. ASSUME NEW c \in Connection, FindDuplicate(c) PROVE TypeOK'
  <2>1. answer' \in Log!InsertResult
    <3>1. PICK row \in rows : answer' = Log!Duplicate(tx[c].envelope, row)
      BY <1>4 DEF FindDuplicate, Holding
    <3>2. tx[c].envelope \in Envelope /\ row.id \in Envelope /\ row.accountSeq \in Nat
      BY <1>t DEF TypeOK, Transaction, Row
    <3> QED
      BY <3>1, <3>2 DEF Log!Duplicate, Log!InsertResult
  <2> QED
    BY <1>4, <1>i, <2>1, TransactionTypes DEF FindDuplicate, Locking
<1>5. ASSUME NEW c \in Connection, Resync(c) PROVE TypeOK'
  <2>1. PICK n \in 1 .. MaxSeq + 1 :
            tx' = [tx EXCEPT ![c].step = "recounted", ![c].number = n]
    BY <1>5 DEF Resync
  <2>2. n \in Nat \ {0}
    BY BoundsAssumption
  <2>t. tx[c] \in Transaction
    BY <1>t
  <2> DEFINE t == [tx[c] EXCEPT !.step = "recounted", !.number = n]
  <2>3. t \in Transaction /\ t.number > 0
    <3>1. t \in Transaction
      BY <2>t, <2>2 DEF Transaction, Steps
    <3>2. t.number = n
      BY <2>t DEF Transaction
    <3> QED
      BY <3>1, <3>2, <2>2
  <2>4. tx' = [tx EXCEPT ![c] = t]
    BY <2>1
  <2> HIDE DEF t
  <2> QED
    BY <1>5, <2>3, <2>4, TransactionTypes DEF TypeOK, Resync
<1>6. ASSUME NEW c \in Connection, InsertAgain(c) PROVE TypeOK'
  BY <1>6 DEF TypeOK, InsertAgain, Transaction, Steps, Locking
<1>7. ASSUME NEW c \in Connection, Commit(c) PROVE TypeOK'
  <2>1. tx[c] \in Transaction /\ tx[c].number > 0 /\ Committed(tx[c])
    BY <1>7, <1>t DEF TypeOK, Commit, Steps, Locking
  <2>2. rows' \subseteq Row /\ counters' \in [Account -> Nat]
    BY <2>1, CommittedTypes DEF TypeOK
  <2>3. answer' \in Log!InsertResult
    BY <1>7, <2>1 DEF Commit, Log!Inserted, Log!InsertResult, Transaction
  <2> QED
    BY <1>7, <1>i, <2>2, <2>3 DEF TypeOK, Commit, Locking
<1>8. ASSUME NEW c \in Connection, LoseConnection(c) PROVE TypeOK'
  <2>1. \/ tx' = [tx EXCEPT ![c] = IdleTx]
        \/ /\ tx[c].step = "written"
           /\ tx' = [tx EXCEPT ![c] = [tx[c] EXCEPT !.step = "doubtful"]]
        \/ tx' = [tx EXCEPT ![c] = [tx[c] EXCEPT !.step = "orphaned"]]
    BY <1>8 DEF TypeOK, LoseConnection, Transaction, Steps, Locking
  <2> QED
    BY <1>8, <1>i, <2>1 DEF TypeOK, LoseConnection, Transaction, Steps, Locking
<1>9. ASSUME NEW c \in Connection, EndSession(c) PROVE TypeOK'
  BY <1>9, <1>i DEF TypeOK, EndSession, Locking
<1>10. ASSUME NEW c \in Connection, CommitUnanswered(c) PROVE TypeOK'
  <2>1. tx[c] \in Transaction /\ tx[c].number > 0 /\ Committed(tx[c])
    BY <1>10, <1>t DEF TypeOK, CommitUnanswered, Steps, Locking
  <2>2. rows' \subseteq Row /\ counters' \in [Account -> Nat]
    BY <2>1, CommittedTypes DEF TypeOK
  <2> QED
    BY <1>10, <1>i, <2>2 DEF TypeOK, CommitUnanswered, Locking
<1>11. ASSUME NEW cutoff, DeleteOlderThan(cutoff) PROVE TypeOK'
  <2>1. /\ \A c \in Connection : tx'[c] \in {tx[c], [tx[c] EXCEPT !.overtaken = TRUE]}
        /\ tx' = [c \in Connection |-> tx'[c]]
        /\ rows' \subseteq rows /\ UNCHANGED <<counters, answer, clock>>
    BY <1>11 DEF DeleteOlderThan, Overtaking
  <2>2. ASSUME NEW c \in Connection
        PROVE  /\ tx'[c] \in Transaction
               /\ tx'[c].step \in Locking \ {"orphaned"} => tx'[c].number > 0
    <3>1. tx[c] \in Transaction /\ (tx[c].step \in Locking \ {"orphaned"} => tx[c].number > 0)
      BY DEF TypeOK
    <3> QED
      BY <2>1, <3>1 DEF Transaction
  <2> QED
    BY <2>1, <2>2 DEF TypeOK
<1>12. CASE Tick
  BY <1>12 DEF TypeOK, Tick
<1>13. CASE UNCHANGED vars
  BY <1>13 DEF TypeOK, vars
<1> QED
  BY <1>1, <1>2, <1>3, <1>4, <1>5, <1>6, <1>7, <1>8, <1>9, <1>10, <1>11, <1>12, <1>13
     DEF Next, ConnectionStep, Statement

\* Types are kept by every step, whatever is lost or deleted.
THEOREM TypeCorrect == Spec => []TypeOK
BY TypeOKInit, TypeOKStep, PTL DEF Spec

---------------------------------------------------------------------------
\* The counter's lock

\* Two transactions past the counter's statement are of different accounts.
LockExclusive ==
    \A c, d \in Connection :
        /\ c # d
        /\ tx[c].step \in Locking
        /\ tx[d].step \in Locking
        => AccountIn(tx[c]) # AccountIn(tx[d])

\* A row a transaction has written, or is about to, still conflicts with none.
StillFree ==
    \A c \in Connection :
        tx[c].step \in {"recounted", "written", "doubtful"} =>
            ~Conflicts(rows, tx[c].envelope, tx[c].number)

LockInv == TypeOK /\ LockExclusive /\ StillFree /\ Unique

LEMMA LockInvInit == Init => LockInv
BY TypeOKInit, InitialAssumption
   DEF Init, LockInv, LockExclusive, StillFree, Unique, IdleTx, Locking

\* One transaction moves on within its account and the rows stay.
LEMMA MovedOn ==
    ASSUME LockInv, NEW c \in Connection, NEW t, tx' = [tx EXCEPT ![c] = t],
           UNCHANGED rows,
           t.step \in Locking => AccountIn(t) = AccountIn(tx[c]) /\ tx[c].step \in Locking,
           t.step \in {"recounted", "written", "doubtful"} => ~Conflicts(rows, t.envelope, t.number)
    PROVE  LockExclusive' /\ StillFree' /\ Unique'
<1>1. /\ tx'[c] = t
      /\ \A d \in Connection \ {c} : tx'[d] = tx[d]
  BY DEF LockInv, TypeOK
<1>2. LockExclusive'
  BY <1>1 DEF LockInv, LockExclusive, AccountIn
<1>3. StillFree'
  BY <1>1 DEF LockInv, StillFree
<1> QED
  BY <1>2, <1>3 DEF LockInv, Unique

\* The transaction that holds an account's lock commits its row: the others are of
\* other accounts, so their rows stay free to insert.
LEMMA CommittedKeepsLock ==
    ASSUME LockInv, NEW c \in Connection, tx[c].step \in {"written", "doubtful"},
           Committed(tx[c]), tx' = [tx EXCEPT ![c] = IdleTx]
    PROVE  LockExclusive' /\ StillFree' /\ Unique'
<1>1. /\ tx'[c].step = "idle"
      /\ \A d \in Connection \ {c} : tx'[d] = tx[d]
  BY DEF LockInv, TypeOK, IdleTx
<1>2. LockExclusive'
  BY <1>1 DEF LockInv, LockExclusive, AccountIn, Locking
<1>3. StillFree'
  <2> SUFFICES ASSUME NEW d \in Connection, tx'[d].step \in {"recounted", "written", "doubtful"}
               PROVE  ~Conflicts(rows', tx'[d].envelope, tx'[d].number)
    BY DEF StillFree
  <2>1. d # c /\ tx'[d] = tx[d]
    BY <1>1
  <2>2. AccountOf[RowOf(tx[c]).id] # AccountOf[tx[d].envelope]
    BY <2>1 DEF LockInv, LockExclusive, AccountIn, Locking, Steps, RowOf
  <2>3. ~Conflicts(rows, tx[d].envelope, tx[d].number)
    BY <2>1 DEF LockInv, StillFree
  <2> QED
    BY <2>1, <2>2, <2>3, OtherAccountsRow DEF Committed
<1>4. Unique'
  <2>1. ~Conflicts(rows, RowOf(tx[c]).id, RowOf(tx[c]).accountSeq)
    BY DEF LockInv, StillFree, RowOf
  <2> QED
    BY <2>1, UniqueRowsGrow DEF LockInv, Unique, Committed
<1> QED
  BY <1>2, <1>3, <1>4

LEMMA LockInvStep == LockInv /\ [Next]_vars => LockInv'
<1> SUFFICES ASSUME LockInv, [Next]_vars PROVE LockInv'
  OBVIOUS
<1>t. TypeOK /\ TypeOK'
  BY TypeOKStep DEF LockInv
<1> SUFFICES LockExclusive' /\ StillFree' /\ Unique'
  BY <1>t DEF LockInv
<1>1. ASSUME NEW c \in Connection, NEW e \in Envelope, Begin(c, e)
      PROVE  LockExclusive' /\ StillFree' /\ Unique'
  <2> DEFINE t == [tx[c] EXCEPT !.step = "begun", !.envelope = e]
  <2>1. tx[c] \in Transaction
    BY <1>t DEF TypeOK
  <2>2. t.step = "begun" /\ tx' = [tx EXCEPT ![c] = t] /\ UNCHANGED rows
    BY <1>1, <2>1 DEF Begin, Transaction
  <2> HIDE DEF t
  <2> QED
    BY <2>2, MovedOn DEF Locking
<1>2. ASSUME NEW c \in Connection, Bump(c)
      PROVE  LockExclusive' /\ StillFree' /\ Unique'
  <2>1. \A d \in Connection \ {c} : tx[d].step \in Locking => AccountIn(tx[d]) # AccountIn(tx[c])
    BY <1>2 DEF Bump, LockFree, HoldsLock
  <2>2. /\ tx'[c].step = "counted"
        /\ AccountIn(tx'[c]) = AccountIn(tx[c])
        /\ \A d \in Connection \ {c} : tx'[d] = tx[d]
        /\ UNCHANGED rows
    BY <1>2, <1>t DEF Bump, TypeOK, Transaction, AccountIn
  <2>3. LockExclusive'
    BY <2>1, <2>2 DEF LockInv, LockExclusive, AccountIn
  <2>4. StillFree'
    BY <2>2 DEF LockInv, StillFree
  <2> QED
    BY <2>2, <2>3, <2>4 DEF LockInv, Unique
<1>3. ASSUME NEW c \in Connection, InsertRow(c)
      PROVE  LockExclusive' /\ StillFree' /\ Unique'
  <2>1. tx[c] \in Transaction /\ tx[c].step \in Locking /\ UNCHANGED rows
    BY <1>3, <1>t DEF InsertRow, TypeOK, Locking, Steps
  <2>2. CASE Conflicts(rows, tx[c].envelope, tx[c].number)
    <3> DEFINE t == [tx[c] EXCEPT !.step = "conflict"]
    <3>1. tx' = [tx EXCEPT ![c] = t]
      BY <1>3, <2>2 DEF InsertRow
    <3>2. t.step = "conflict" /\ t.envelope = tx[c].envelope
      BY <2>1 DEF Transaction
    <3> HIDE DEF t
    <3> QED
      BY <2>1, <3>1, <3>2, MovedOn DEF AccountIn
  <2>3. CASE ~Conflicts(rows, tx[c].envelope, tx[c].number)
    <3> DEFINE t == [tx[c] EXCEPT !.step = "written", !.createdAt = clock]
    <3>1. tx' = [tx EXCEPT ![c] = t]
      BY <1>3, <2>3 DEF InsertRow
    <3>2. t.envelope = tx[c].envelope /\ t.number = tx[c].number
      BY <2>1 DEF Transaction
    <3> HIDE DEF t
    <3> QED
      BY <2>1, <2>3, <3>1, <3>2, MovedOn DEF AccountIn
  <2> QED
    BY <2>2, <2>3
<1>4. ASSUME NEW c \in Connection, FindDuplicate(c)
      PROVE  LockExclusive' /\ StillFree' /\ Unique'
  BY <1>4, MovedOn DEF FindDuplicate, IdleTx, Locking
<1>5. ASSUME NEW c \in Connection, Resync(c)
      PROVE  LockExclusive' /\ StillFree' /\ Unique'
  <2>1. tx[c] \in Transaction /\ tx[c].step \in Locking /\ UNCHANGED rows
    BY <1>5, <1>t DEF Resync, TypeOK, Locking, Steps
  <2>2. PICK n \in 1 .. MaxSeq + 1 :
            /\ PastAll(rows, AccountIn(tx[c]), n)
            /\ tx' = [tx EXCEPT ![c].step = "recounted", ![c].number = n]
    BY <1>5 DEF Resync
  <2> DEFINE t == [tx[c] EXCEPT !.step = "recounted", !.number = n]
  <2>3. tx' = [tx EXCEPT ![c] = t]
    BY <2>2
  <2>4. t.envelope = tx[c].envelope /\ t.number = n
    BY <2>1 DEF Transaction
  <2>5. ~NumberTaken(rows, AccountIn(tx[c]), n)
    <3>1. \A r \in rows : r.accountSeq \in Nat
      BY <1>t DEF TypeOK, Row
    <3> QED
      BY <2>2, <3>1, BoundsAssumption DEF PastAll, NumberTaken, AccountRows
  <2>6. ~Conflicts(rows, tx[c].envelope, n)
    BY <1>5, <2>5 DEF Resync, Conflicts, AccountIn
  <2> HIDE DEF t
  <2> QED
    BY <2>1, <2>3, <2>4, <2>6, MovedOn DEF AccountIn
<1>6. ASSUME NEW c \in Connection, InsertAgain(c)
      PROVE  LockExclusive' /\ StillFree' /\ Unique'
  <2>1. tx[c] \in Transaction /\ tx[c].step \in Locking
    BY <1>6, <1>t DEF InsertAgain, TypeOK, Locking, Steps
  <2> DEFINE t == [tx[c] EXCEPT !.step = "written", !.createdAt = clock]
  <2>2. tx' = [tx EXCEPT ![c] = t]
    BY <1>6 DEF InsertAgain
  <2>3. t.envelope = tx[c].envelope /\ t.number = tx[c].number
    BY <2>1 DEF Transaction
  <2> HIDE DEF t
  <2> QED
    BY <1>6, <2>1, <2>2, <2>3, MovedOn DEF InsertAgain, AccountIn
<1>7. ASSUME NEW c \in Connection, Commit(c)
      PROVE  LockExclusive' /\ StillFree' /\ Unique'
  BY <1>7, CommittedKeepsLock DEF Commit
<1>8. ASSUME NEW c \in Connection, LoseConnection(c)
      PROVE  LockExclusive' /\ StillFree' /\ Unique'
  <2>1. tx[c] \in Transaction /\ UNCHANGED rows
    BY <1>8, <1>t DEF LoseConnection, TypeOK
  <2>2. CASE tx[c].step = "begun"
    BY <1>8, <2>1, <2>2, MovedOn DEF LoseConnection, IdleTx, Locking
  <2>3. CASE tx[c].step = "written"
    <3> DEFINE t == [tx[c] EXCEPT !.step = "doubtful"]
    <3>1. tx' = [tx EXCEPT ![c] = t]
      BY <1>8, <2>3 DEF LoseConnection
    <3>2. t.envelope = tx[c].envelope /\ t.number = tx[c].number
      BY <2>1 DEF Transaction
    <3>3. ~Conflicts(rows, tx[c].envelope, tx[c].number)
      BY <2>3 DEF LockInv, StillFree
    <3> HIDE DEF t
    <3> QED
      BY <2>1, <2>3, <3>1, <3>2, <3>3, MovedOn DEF AccountIn, Locking, Steps
  <2>4. CASE tx[c].step \in {"counted", "conflict", "recounted"}
    <3> DEFINE t == [tx[c] EXCEPT !.step = "orphaned"]
    <3>1. tx' = [tx EXCEPT ![c] = t]
      BY <1>8, <2>4 DEF LoseConnection
    <3>2. t.envelope = tx[c].envelope /\ t.step = "orphaned"
      BY <2>1 DEF Transaction
    <3> HIDE DEF t
    <3> QED
      BY <2>1, <2>4, <3>1, <3>2, MovedOn DEF AccountIn, Locking, Steps
  <2> QED
    BY <1>8, <2>2, <2>3, <2>4 DEF LoseConnection
<1>9. ASSUME NEW c \in Connection, EndSession(c)
      PROVE  LockExclusive' /\ StillFree' /\ Unique'
  BY <1>9, MovedOn DEF EndSession, IdleTx, Locking
<1>10. ASSUME NEW c \in Connection, CommitUnanswered(c)
       PROVE  LockExclusive' /\ StillFree' /\ Unique'
  BY <1>10, CommittedKeepsLock DEF CommitUnanswered
<1>11. ASSUME NEW cutoff, DeleteOlderThan(cutoff)
       PROVE  LockExclusive' /\ StillFree' /\ Unique'
  <2>0. rows' \subseteq rows
    BY <1>11 DEF DeleteOlderThan
  <2>1. ASSUME NEW c \in Connection
        PROVE  /\ tx'[c].step = tx[c].step /\ tx'[c].envelope = tx[c].envelope
               /\ tx'[c].number = tx[c].number
    <3>1. tx'[c] \in {tx[c], [tx[c] EXCEPT !.overtaken = TRUE]} /\ tx[c] \in Transaction
      BY <1>11, <1>t DEF DeleteOlderThan, Overtaking, TypeOK
    <3> QED
      BY <3>1 DEF Transaction
  <2>2. LockExclusive'
    BY <2>1 DEF LockInv, LockExclusive, AccountIn
  <2>3. StillFree'
    BY <2>0, <2>1, FewerRowsFewerConflicts DEF LockInv, StillFree
  <2>4. Unique'
    BY <2>0, UniqueRowsShrink DEF LockInv, Unique
  <2> QED
    BY <2>2, <2>3, <2>4
<1>12. ASSUME UNCHANGED <<rows, tx>> PROVE LockExclusive' /\ StillFree' /\ Unique'
  BY <1>12 DEF LockInv, LockExclusive, StillFree, Unique, AccountIn
<1> QED
  BY <1>1, <1>2, <1>3, <1>4, <1>5, <1>6, <1>7, <1>8, <1>9, <1>10, <1>11, <1>12
     DEF Next, ConnectionStep, Statement, Tick, vars

LEMMA LockInvAlways == Spec => []LockInv
BY LockInvInit, LockInvStep, PTL DEF Spec

\* A message never gets two rows, nor a number of an account two messages: in every
\* state, whatever counters the gateway starts with and whenever retention runs.
THEOREM OneRowPerMessage == Spec => []Unique
<1>1. LockInv => Unique
  BY DEF LockInv
<1> QED
  BY <1>1, LockInvAlways, PTL

\* The insert that follows a counter's catching up is never refused.
THEOREM SecondInsertGoesIn == Spec => []NeverRefused
<1>1. LockInv => NeverRefused
  BY DEF LockInv, StillFree, NeverRefused
<1> QED
  BY <1>1, LockInvAlways, PTL

---------------------------------------------------------------------------
\* The numbers an account's rows carry, and the atomic message log they implement, when the
\* counters start where the migration leaves them. Then a counter is always the number of its
\* account's last row, or of the last one retention took, and a conflict is always a duplicate;
\* but for a transaction that retention has overtaken, which may find no row of its account and
\* start its numbers again.

---------------------------------------------------------------------------
\* The inductive invariant

CounterIsLast == \A r \in rows : r.accountSeq <= counters[AccountOf[r.id]]

\* From any row of an account to its counter, every number has its row.
Dense ==
    \A r \in rows : \A n \in r.accountSeq .. counters[AccountOf[r.id]] :
        NumberTaken(rows, AccountOf[r.id], n)

\* A higher number was created later, and so is what is about to be committed: what
\* retention takes are an account's lowest numbers.
AgesInOrder ==
    /\ \A r, s \in rows :
           AccountOf[r.id] = AccountOf[s.id] /\ r.accountSeq <= s.accountSeq =>
               r.createdAt <= s.createdAt
    /\ \A r \in rows : r.createdAt <= clock
    /\ \A c \in Connection : tx[c].step \in {"written", "doubtful"} =>
           /\ tx[c].createdAt <= clock
           /\ \A r \in AccountRows(rows, AccountIn(tx[c])) : r.createdAt <= tx[c].createdAt

\* The number follows the counter, or starts again: the account has no row left.
Follows(t) ==
    \/ t.number = counters[AccountIn(t)] + 1
    \/ t.overtaken /\ AccountRows(rows, AccountIn(t)) = {} /\ t.number = 1

\* A transaction that holds the lock has the next number, and one that met a conflict
\* met its own message.
NextInLine ==
    \A c \in Connection :
        /\ tx[c].step \in {"counted", "conflict"} => tx[c].number = counters[AccountIn(tx[c])] + 1
        /\ tx[c].step = "conflict" => tx[c].overtaken \/ Holding(rows, tx[c].envelope) # {}
        /\ tx[c].step \in {"recounted", "written", "doubtful"} => Follows(tx[c])

NumberInv == CounterIsLast /\ Dense /\ AgesInOrder /\ NextInLine

LEMMA RowFacts ==
    ASSUME TypeOK, NEW r \in rows
    PROVE  /\ r.accountSeq \in Nat \ {0}
           /\ r.createdAt \in Nat
           /\ r.id \in Envelope
           /\ AccountOf[r.id] \in Account
           /\ counters[AccountOf[r.id]] \in Nat
BY AccountOfEnvelope DEF TypeOK, Row

LEMMA TxFacts ==
    ASSUME TypeOK, NEW c \in Connection
    PROVE  /\ tx[c] \in Transaction
           /\ tx[c].number \in Nat
           /\ tx[c].createdAt \in Nat
           /\ tx[c].envelope \in Envelope
           /\ AccountIn(tx[c]) \in Account
           /\ counters[AccountIn(tx[c])] \in Nat
BY AccountOfEnvelope DEF TypeOK, Transaction, AccountIn

LEMMA NumberInvInit == ASSUME CountersCaughtUp PROVE Init => NumberInv
<1> SUFFICES ASSUME Init PROVE NumberInv
  OBVIOUS
<1>t. TypeOK
  BY TypeOKInit
<1>1. CounterIsLast
  BY DEF Init, CounterIsLast, CountersCaughtUp
<1>2. Dense
  <2> SUFFICES ASSUME NEW r \in rows, NEW n \in r.accountSeq .. counters[AccountOf[r.id]]
               PROVE  NumberTaken(rows, AccountOf[r.id], n)
    BY DEF Dense
  <2>1. PICK s \in rows : AccountOf[s.id] = AccountOf[r.id]
                          /\ s.accountSeq = counters[AccountOf[r.id]]
    BY DEF Init, CountersCaughtUp, NumberTaken, AccountRows
  <2> QED
    BY <2>1, InitialAssumption DEF Init, NoHoles
<1>3. AgesInOrder
  BY <1>t, InitialAssumption DEF Init, AgesInOrder, IdleTx
<1>4. NextInLine
  BY DEF Init, NextInLine, IdleTx
<1> QED
  BY <1>1, <1>2, <1>3, <1>4 DEF NumberInv

\* A step of one transaction that commits nothing.
LEMMA NumbersMovedOn ==
    ASSUME TypeOK, NumberInv, NEW c \in Connection, NEW t \in Transaction,
           tx' = [tx EXCEPT ![c] = t],
           UNCHANGED <<rows, counters, clock>>,
           t.step \in {"counted", "conflict"} => t.number = counters[AccountIn(t)] + 1,
           t.step = "conflict" => t.overtaken \/ Holding(rows, t.envelope) # {},
           t.step \in {"recounted", "written", "doubtful"} => Follows(t),
           t.step \in {"written", "doubtful"} =>
               /\ t.createdAt <= clock
               /\ \A r \in AccountRows(rows, AccountIn(t)) : r.createdAt <= t.createdAt
    PROVE  NumberInv'
<1>1. /\ tx'[c] = t
      /\ \A d \in Connection \ {c} : tx'[d] = tx[d]
  BY DEF TypeOK
<1>2. CounterIsLast' /\ Dense'
  BY DEF NumberInv, CounterIsLast, Dense
<1>3. AgesInOrder'
  BY <1>1 DEF NumberInv, AgesInOrder
<1>4. NextInLine'
  BY <1>1 DEF NumberInv, NextInLine, Follows, AccountIn
<1> QED
  BY <1>2, <1>3, <1>4 DEF NumberInv

\* The holder of an account's lock commits its row under the next number, or under the first
\* where no row is left.
LEMMA NumbersCommitted ==
    ASSUME LockInv, NumberInv, NEW c \in Connection, tx[c].step \in {"written", "doubtful"},
           Committed(tx[c]), tx' = [tx EXCEPT ![c] = IdleTx], UNCHANGED clock
    PROVE  NumberInv'
<1> DEFINE a == AccountIn(tx[c])
           row == RowOf(tx[c])
           n == tx[c].number
<1>t. TypeOK
  BY DEF LockInv
<1>f. /\ a \in Account
      /\ counters[a] \in Nat
      /\ n \in Nat
      /\ n = counters[a] + 1 \/ AccountRows(rows, a) = {}
      /\ tx[c].createdAt \in Nat
      /\ clock \in Nat
  BY <1>t, TxFacts DEF NumberInv, NextInLine, Follows, TypeOK
<1>r. /\ AccountOf[row.id] = a
      /\ row.accountSeq = n
      /\ row.createdAt = tx[c].createdAt
  BY DEF RowOf, AccountIn
<1>1. /\ rows' = rows \union {row}
      /\ counters'[a] = n
      /\ \A b \in Account \ {a} : counters'[b] = counters[b]
  BY <1>t, <1>f DEF Committed, TypeOK
<1>2. /\ tx'[c].step = "idle"
      /\ \A d \in Connection \ {c} : tx'[d] = tx[d]
  BY <1>t DEF TypeOK, IdleTx
<1> HIDE DEF a, row, n
<1>0. ASSUME NEW r \in rows, AccountOf[r.id] = a PROVE n = counters[a] + 1 /\ r.accountSeq < n
  <2>1. n = counters[a] + 1
    BY <1>0, <1>f DEF AccountRows
  <2>2. r.accountSeq <= counters[a] /\ r.accountSeq \in Nat
    BY <1>0, <1>t, RowFacts DEF NumberInv, CounterIsLast
  <2> QED
    BY <2>1, <2>2, <1>f
<1>3. CounterIsLast'
  <2> SUFFICES ASSUME NEW r \in rows' PROVE r.accountSeq <= counters'[AccountOf[r.id]]
    BY DEF CounterIsLast
  <2>1. CASE r = row
    BY <2>1, <1>1, <1>r, <1>f
  <2>2. CASE r \in rows /\ AccountOf[r.id] = a
    BY <2>2, <1>0, <1>1, <1>f, <1>t, RowFacts
  <2>3. CASE r \in rows /\ AccountOf[r.id] # a
    BY <2>3, <1>1, <1>t, RowFacts DEF NumberInv, CounterIsLast
  <2> QED
    BY <2>1, <2>2, <2>3, <1>1
<1>4. Dense'
  <2> SUFFICES ASSUME NEW r \in rows', NEW k \in r.accountSeq .. counters'[AccountOf[r.id]]
               PROVE  NumberTaken(rows', AccountOf[r.id], k)
    BY DEF Dense
  <2>1. CASE r = row
    <3>1. k = row.accountSeq
      BY <2>1, <1>1, <1>r, <1>f
    <3> QED
      BY <2>1, <3>1, <1>1 DEF NumberTaken, AccountRows
  <2>2. CASE r \in rows /\ AccountOf[r.id] = a /\ k = n
    BY <2>2, <1>1, <1>r DEF NumberTaken, AccountRows
  <2>3. CASE r \in rows /\ k \in r.accountSeq .. counters[AccountOf[r.id]]
    <3>1. NumberTaken(rows, AccountOf[r.id], k)
      BY <2>3 DEF NumberInv, Dense
    <3> QED
      BY <3>1, <1>1 DEF NumberTaken, AccountRows
  <2> QED
    <3>1. CASE r \in rows /\ AccountOf[r.id] = a
      BY <3>1, <2>2, <2>3, <1>0, <1>1, <1>f, <1>t, RowFacts
    <3>2. CASE r \in rows /\ AccountOf[r.id] # a
      BY <3>2, <2>3, <1>1, <1>t, RowFacts
    <3> QED
      BY <2>1, <3>1, <3>2, <1>1
<1>5. AgesInOrder'
  <2>1. \A r \in rows : AccountOf[r.id] = a =>
            r.createdAt <= row.createdAt /\ r.accountSeq < row.accountSeq
    BY <1>0, <1>r DEF NumberInv, AgesInOrder, AccountRows, a
  <2>2. row.createdAt <= clock
    BY <1>r DEF NumberInv, AgesInOrder
  <2>3. \A r \in rows' : r.createdAt <= clock
    BY <2>2, <1>1 DEF NumberInv, AgesInOrder
  <2>4. ASSUME NEW r \in rows', NEW s \in rows', AccountOf[r.id] = AccountOf[s.id],
               r.accountSeq <= s.accountSeq
        PROVE  r.createdAt <= s.createdAt
    <3>1. CASE r \in rows /\ s \in rows
      BY <2>4, <3>1 DEF NumberInv, AgesInOrder
    <3>2. CASE r \in rows /\ s = row
      BY <2>4, <3>2, <2>1, <1>r
    <3>3. CASE r = row /\ s \in rows
      BY <2>4, <3>3, <2>1, <1>r, <1>f, <1>t, RowFacts
    <3>4. CASE r = row /\ s = row
      BY <3>4, <1>r, <1>f
    <3> QED
      BY <3>1, <3>2, <3>3, <3>4, <1>1
  <2>5. ASSUME NEW d \in Connection, tx'[d].step \in {"written", "doubtful"}
        PROVE  /\ tx'[d].createdAt <= clock
               /\ \A r \in AccountRows(rows', AccountIn(tx'[d])) : r.createdAt <= tx'[d].createdAt
    <3>1. d # c /\ tx'[d] = tx[d]
      BY <2>5, <1>2
    <3>2. AccountIn(tx[d]) # a
      BY <2>5, <3>1 DEF LockInv, LockExclusive, Locking, Steps, a
    <3>3. AccountRows(rows', AccountIn(tx[d])) = AccountRows(rows, AccountIn(tx[d]))
      BY <3>2, <1>1, <1>r DEF AccountRows
    <3> QED
      BY <2>5, <3>1, <3>3 DEF NumberInv, AgesInOrder
  <2> QED
    BY <2>3, <2>4, <2>5 DEF AgesInOrder
<1>6. NextInLine'
  <2> SUFFICES ASSUME NEW d \in Connection
               PROVE  /\ tx'[d].step \in {"counted", "conflict"} =>
                             tx'[d].number = counters'[AccountIn(tx'[d])] + 1
                      /\ tx'[d].step = "conflict" =>
                             tx'[d].overtaken \/ Holding(rows', tx'[d].envelope) # {}
                      /\ tx'[d].step \in {"recounted", "written", "doubtful"} =>
                             \/ tx'[d].number = counters'[AccountIn(tx'[d])] + 1
                             \/ /\ tx'[d].overtaken /\ AccountRows(rows', AccountIn(tx'[d])) = {}
                                /\ tx'[d].number = 1
    BY DEF NextInLine, Follows, AccountIn
  <2>1. CASE d = c
    BY <2>1, <1>2
  <2>2. CASE d # c /\ tx[d].step \in {"counted", "conflict", "recounted", "written", "doubtful"}
    <3>1. AccountIn(tx[d]) # a /\ AccountIn(tx[d]) \in Account
      BY <2>2, <1>t, TxFacts DEF LockInv, LockExclusive, Locking, Steps, a
    <3>2. Holding(rows, tx[d].envelope) # {} => Holding(rows', tx[d].envelope) # {}
      BY <1>1 DEF Holding
    <3>3. tx'[d] = tx[d]
      BY <2>2, <1>2
    <3>4. counters'[AccountIn(tx[d])] = counters[AccountIn(tx[d])]
      BY <3>1, <1>1
    <3>5. AccountRows(rows', AccountIn(tx[d])) = AccountRows(rows, AccountIn(tx[d]))
      BY <3>1, <1>1, <1>r DEF AccountRows
    <3> QED
      BY <3>2, <3>3, <3>4, <3>5 DEF NumberInv, NextInLine, Follows
  <2>3. CASE d # c /\ tx[d].step \notin {"counted", "conflict", "recounted", "written", "doubtful"}
    BY <2>3, <1>2
  <2> QED
    BY <2>1, <2>2, <2>3
<1> QED
  BY <1>3, <1>4, <1>5, <1>6 DEF NumberInv

\* Retention takes the lowest numbers of each account: what it leaves is all that is
\* at least as young.
LEMMA NumbersPurged ==
    ASSUME LockInv, NumberInv, NEW cutoff \in Nat, DeleteOlderThan(cutoff)
    PROVE  NumberInv'
<1>t. TypeOK
  BY DEF LockInv
<1>1. /\ rows' = {r \in rows : r.createdAt >= cutoff}
      /\ UNCHANGED <<counters, clock>>
  BY DEF DeleteOlderThan
<1>x. ASSUME NEW c \in Connection
      PROVE  /\ tx'[c].step = tx[c].step /\ tx'[c].envelope = tx[c].envelope
             /\ tx'[c].number = tx[c].number /\ tx'[c].createdAt = tx[c].createdAt
             /\ AccountIn(tx'[c]) = AccountIn(tx[c])
             /\ tx[c].overtaken => tx'[c].overtaken
             /\ tx[c].step = "conflict" /\ AccountRows(rows \ rows', AccountIn(tx[c])) # {} => tx'[c].overtaken
  <2>1. tx'[c] = IF Unsettled(c) /\ AccountRows(rows \ rows', AccountIn(tx[c])) # {}
                     THEN [tx[c] EXCEPT !.overtaken = TRUE] ELSE tx[c]
    BY DEF DeleteOlderThan, Overtaking
  <2>2. tx[c] \in Transaction
    BY <1>t, TxFacts
  <2>3. tx[c].step = "conflict" => Unsettled(c)
    BY DEF Unsettled
  <2> QED
    BY <2>1, <2>2, <2>3 DEF Transaction, AccountIn
<1>2. CounterIsLast'
  BY <1>1 DEF NumberInv, CounterIsLast
<1>3. Dense'
  <2> SUFFICES ASSUME NEW r \in rows', NEW n \in r.accountSeq .. counters[AccountOf[r.id]]
               PROVE  NumberTaken(rows', AccountOf[r.id], n)
    BY <1>1 DEF Dense
  <2>1. r \in rows /\ r.createdAt >= cutoff
    BY <1>1
  <2>2. PICK s \in rows : AccountOf[s.id] = AccountOf[r.id] /\ s.accountSeq = n
    BY <2>1 DEF NumberInv, Dense, NumberTaken, AccountRows
  <2>3. r.createdAt <= s.createdAt
    BY <2>1, <2>2, <1>t, RowFacts DEF NumberInv, AgesInOrder
  <2>4. s \in rows'
    BY <2>1, <2>2, <2>3, <1>1, <1>t, RowFacts
  <2> QED
    BY <2>2, <2>4 DEF NumberTaken, AccountRows
<1>4. AgesInOrder'
  <2>1. ASSUME NEW c \in Connection, tx'[c].step \in {"written", "doubtful"}
        PROVE  /\ tx'[c].createdAt <= clock
               /\ \A r \in AccountRows(rows', AccountIn(tx'[c])) : r.createdAt <= tx'[c].createdAt
    BY <1>1, <1>x, <2>1 DEF NumberInv, AgesInOrder, AccountRows
  <2> QED
    BY <1>1, <2>1 DEF NumberInv, AgesInOrder
<1>5. NextInLine'
  <2> SUFFICES ASSUME NEW c \in Connection
               PROVE  /\ tx'[c].step \in {"counted", "conflict"} =>
                             tx'[c].number = counters'[AccountIn(tx'[c])] + 1
                      /\ tx'[c].step = "conflict" =>
                             tx'[c].overtaken \/ Holding(rows', tx'[c].envelope) # {}
                      /\ tx'[c].step \in {"recounted", "written", "doubtful"} =>
                             \/ tx'[c].number = counters'[AccountIn(tx'[c])] + 1
                             \/ /\ tx'[c].overtaken /\ AccountRows(rows', AccountIn(tx'[c])) = {}
                                /\ tx'[c].number = 1
    BY DEF NextInLine, Follows, AccountIn
  <2>1. tx[c].step = "conflict" => tx'[c].overtaken \/ Holding(rows', tx[c].envelope) # {}
    <3>1. SUFFICES ASSUME tx[c].step = "conflict", Holding(rows', tx[c].envelope) = {}, ~tx[c].overtaken
                   PROVE  tx'[c].overtaken
      BY <1>x
    <3>2. PICK r \in Holding(rows, tx[c].envelope) : r \notin rows'
      BY <3>1 DEF NumberInv, NextInLine, Holding
    <3>3. r \in rows \ rows' /\ AccountOf[r.id] = AccountIn(tx[c])
      BY <3>2 DEF Holding, SameWaMessage, AccountIn
    <3> QED
      BY <1>x, <3>1, <3>3 DEF AccountRows
  <2>2. AccountRows(rows, AccountIn(tx[c])) = {} => AccountRows(rows', AccountIn(tx[c])) = {}
    BY <1>1 DEF AccountRows
  <2>3. counters' = counters
    BY <1>1
  <2> QED
    BY <1>x, <2>1, <2>2, <2>3 DEF NumberInv, NextInLine, Follows
<1> QED
  BY <1>2, <1>3, <1>4, <1>5 DEF NumberInv

\* The number past all the rows is the counter's next, or the first.
LEMMA PastAllFollows ==
    ASSUME TypeOK, NumberInv, NEW a \in Account, NEW n \in Nat, PastAll(rows, a, n)
    PROVE  n = counters[a] + 1 \/ (AccountRows(rows, a) = {} /\ n = 1)
<1>1. CASE AccountRows(rows, a) = {}
  BY <1>1 DEF PastAll, NumberTaken
<1>2. CASE AccountRows(rows, a) # {}
  <2>1. PICK r \in rows : AccountOf[r.id] = a
    BY <1>2 DEF AccountRows
  <2>2. /\ r.accountSeq \in Nat \ {0} /\ counters[a] \in Nat /\ r.accountSeq <= counters[a]
        /\ r.accountSeq < n
    BY <2>1, RowFacts DEF NumberInv, CounterIsLast, PastAll, AccountRows
  <2>3. NumberTaken(rows, a, counters[a])
    BY <2>1, <2>2 DEF NumberInv, Dense
  <2>4. counters[a] < n
    BY <2>3 DEF NumberTaken, PastAll
  <2>5. NumberTaken(rows, a, n - 1)
    BY <2>2 DEF PastAll
  <2>6. PICK s \in rows : AccountOf[s.id] = a /\ s.accountSeq = n - 1
    BY <2>5 DEF NumberTaken, AccountRows
  <2>7. n - 1 <= counters[a]
    BY <2>6 DEF NumberInv, CounterIsLast
  <2> QED
    BY <2>2, <2>4, <2>7
<1> QED
  BY <1>1, <1>2

\* The counter's next number is free, so a conflict is with the message itself.
LEMMA ConflictIsDuplicate ==
    ASSUME LockInv, NumberInv, NEW c \in Connection, tx[c].step = "counted",
           Conflicts(rows, tx[c].envelope, tx[c].number)
    PROVE  Holding(rows, tx[c].envelope) # {}
<1>t. TypeOK
  BY DEF LockInv
<1>1. tx[c].number = counters[AccountIn(tx[c])] + 1
  BY DEF NumberInv, NextInLine
<1>2. ~NumberTaken(rows, AccountOf[tx[c].envelope], tx[c].number)
  BY <1>t, <1>1, TxFacts, RowFacts
     DEF NumberInv, CounterIsLast, NumberTaken, AccountRows, AccountIn
<1> QED
  BY <1>2 DEF Conflicts

LEMMA NumberInvStep == LockInv /\ NumberInv /\ [Next]_vars => NumberInv'
<1> SUFFICES ASSUME LockInv, NumberInv, [Next]_vars PROVE NumberInv'
  OBVIOUS
<1>t. TypeOK
  BY DEF LockInv
<1>x. IdleTx \in Transaction /\ IdleTx.step = "idle"
  BY AnyEnvelopeIsOne DEF IdleTx, Transaction, Steps
<1>1. ASSUME NEW c \in Connection, NEW e \in Envelope, Begin(c, e) PROVE NumberInv'
  <2> DEFINE t == [tx[c] EXCEPT !.step = "begun", !.envelope = e]
  <2>1. tx[c] \in Transaction
    BY <1>t, TxFacts
  <2>2. t \in Transaction /\ t.step = "begun"
    BY <2>1 DEF Transaction, Steps
  <2>3. tx' = [tx EXCEPT ![c] = t] /\ UNCHANGED <<rows, counters, clock>>
    BY <1>1 DEF Begin
  <2> HIDE DEF t
  <2> QED
    BY <1>t, <2>2, <2>3, NumbersMovedOn
<1>2. ASSUME NEW c \in Connection, Bump(c) PROVE NumberInv'
  <2>1. PICK n \in Nat : n = counters[AccountIn(tx[c])] + 1
    BY <1>t, TxFacts
  <2> DEFINE t == [tx[c] EXCEPT !.step = "counted", !.number = n]
  <2>2. tx[c] \in Transaction
    BY <1>t, TxFacts
  <2>3. t \in Transaction
    BY <2>1, <2>2 DEF Transaction, Steps
  <2>4. t.step = "counted" /\ t.number = n /\ t.envelope = tx[c].envelope
    BY <2>2 DEF Transaction
  <2>5. tx' = [tx EXCEPT ![c] = t] /\ UNCHANGED <<rows, counters, clock>>
    BY <1>2, <2>1 DEF Bump
  <2> HIDE DEF t
  <2> QED
    BY <1>t, <2>1, <2>3, <2>4, <2>5, NumbersMovedOn DEF AccountIn
<1>3. ASSUME NEW c \in Connection, InsertRow(c) PROVE NumberInv'
  <2>1. /\ tx[c] \in Transaction
        /\ tx[c].step = "counted"
        /\ tx[c].number = counters[AccountIn(tx[c])] + 1
        /\ clock \in Nat
        /\ UNCHANGED <<rows, counters, clock>>
    BY <1>3, <1>t, TxFacts DEF InsertRow, NumberInv, NextInLine, TypeOK
  <2>2. CASE Conflicts(rows, tx[c].envelope, tx[c].number)
    <3> DEFINE t == [tx[c] EXCEPT !.step = "conflict"]
    <3>1. t \in Transaction /\ t.step = "conflict"
      BY <2>1 DEF Transaction, Steps
    <3>2. t.number = tx[c].number /\ t.envelope = tx[c].envelope
      BY <2>1 DEF Transaction
    <3>3. tx' = [tx EXCEPT ![c] = t]
      BY <1>3, <2>2 DEF InsertRow
    <3>4. Holding(rows, tx[c].envelope) # {}
      BY <2>1, <2>2, ConflictIsDuplicate
    <3> HIDE DEF t
    <3> QED
      BY <1>t, <2>1, <3>1, <3>2, <3>3, <3>4, NumbersMovedOn DEF AccountIn
  <2>3. CASE ~Conflicts(rows, tx[c].envelope, tx[c].number)
    <3> DEFINE t == [tx[c] EXCEPT !.step = "written", !.createdAt = clock]
    <3>1. t \in Transaction /\ t.step = "written"
      BY <2>1 DEF Transaction, Steps
    <3>2. t.number = tx[c].number /\ t.envelope = tx[c].envelope /\ t.createdAt = clock
      BY <2>1 DEF Transaction
    <3>3. tx' = [tx EXCEPT ![c] = t]
      BY <1>3, <2>3 DEF InsertRow
    <3>4. t.createdAt <= clock /\ \A r \in AccountRows(rows, AccountIn(t)) : r.createdAt <= t.createdAt
      BY <2>1, <3>2 DEF NumberInv, AgesInOrder, AccountRows
    <3>5. Follows(t)
      BY <2>1, <3>2 DEF AccountIn, Follows
    <3> HIDE DEF t
    <3> QED
      BY <1>t, <2>1, <3>1, <3>2, <3>3, <3>4, <3>5, NumbersMovedOn
  <2> QED
    BY <2>2, <2>3
<1>4. ASSUME NEW c \in Connection, FindDuplicate(c) PROVE NumberInv'
  BY <1>4, <1>t, <1>x, NumbersMovedOn DEF FindDuplicate
<1>5. ASSUME NEW c \in Connection, Resync(c) PROVE NumberInv'
  <2>1. /\ tx[c] \in Transaction /\ tx[c].step = "conflict" /\ tx[c].overtaken
        /\ AccountIn(tx[c]) \in Account
        /\ UNCHANGED <<rows, counters, clock>>
    BY <1>5, <1>t, TxFacts DEF Resync, NumberInv, NextInLine
  <2>2. PICK n \in 1 .. MaxSeq + 1 :
            /\ PastAll(rows, AccountIn(tx[c]), n)
            /\ tx' = [tx EXCEPT ![c].step = "recounted", ![c].number = n]
    BY <1>5 DEF Resync
  <2>3. n \in Nat
    BY BoundsAssumption
  <2>4. n = counters[AccountIn(tx[c])] + 1 \/ (AccountRows(rows, AccountIn(tx[c])) = {} /\ n = 1)
    BY <1>t, <2>1, <2>2, <2>3, PastAllFollows
  <2> DEFINE t == [tx[c] EXCEPT !.step = "recounted", !.number = n]
  <2>5. tx' = [tx EXCEPT ![c] = t]
    BY <2>2
  <2>6. t \in Transaction /\ t.step = "recounted" /\ t.number = n /\ t.envelope = tx[c].envelope
        /\ t.overtaken
    <3>1. t \in Transaction
      BY <2>1, <2>3 DEF Transaction, Steps
    <3> QED
      BY <2>1, <3>1 DEF Transaction
  <2> HIDE DEF t
  <2>7. Follows(t)
    BY <2>4, <2>6 DEF Follows, AccountIn
  <2> QED
    BY <1>t, <2>1, <2>5, <2>6, <2>7, NumbersMovedOn
<1>6. ASSUME NEW c \in Connection, InsertAgain(c) PROVE NumberInv'
  <2>1. /\ tx[c] \in Transaction /\ tx[c].step = "recounted" /\ Follows(tx[c])
        /\ clock \in Nat
        /\ UNCHANGED <<rows, counters, clock>>
    BY <1>6, <1>t, TxFacts DEF InsertAgain, NumberInv, NextInLine, TypeOK
  <2> DEFINE t == [tx[c] EXCEPT !.step = "written", !.createdAt = clock]
  <2>2. tx' = [tx EXCEPT ![c] = t]
    BY <1>6 DEF InsertAgain
  <2>3. /\ t \in Transaction /\ t.step = "written" /\ t.number = tx[c].number /\ t.envelope = tx[c].envelope
        /\ t.createdAt = clock /\ t.overtaken = tx[c].overtaken
    <3>1. t \in Transaction
      BY <2>1 DEF Transaction, Steps
    <3> QED
      BY <2>1, <3>1 DEF Transaction
  <2> HIDE DEF t
  <2>4. Follows(t)
    BY <2>1, <2>3 DEF Follows, AccountIn
  <2>5. t.createdAt <= clock /\ \A r \in AccountRows(rows, AccountIn(t)) : r.createdAt <= t.createdAt
    BY <2>1, <2>3 DEF NumberInv, AgesInOrder, AccountRows
  <2> QED
    BY <1>t, <2>1, <2>2, <2>3, <2>4, <2>5, NumbersMovedOn
<1>7. ASSUME NEW c \in Connection, Commit(c) PROVE NumberInv'
  BY <1>7, NumbersCommitted DEF Commit
<1>8. ASSUME NEW c \in Connection, LoseConnection(c) PROVE NumberInv'
  <2>1. tx[c] \in Transaction /\ UNCHANGED <<rows, counters, clock>>
    BY <1>8, <1>t, TxFacts DEF LoseConnection
  <2>2. CASE tx[c].step = "begun"
    BY <1>8, <1>t, <1>x, <2>1, <2>2, NumbersMovedOn DEF LoseConnection
  <2>3. CASE tx[c].step = "written"
    <3> DEFINE t == [tx[c] EXCEPT !.step = "doubtful"]
    <3>1. t \in Transaction /\ t.step = "doubtful"
      BY <2>1 DEF Transaction, Steps
    <3>2. /\ t.number = tx[c].number /\ t.envelope = tx[c].envelope /\ t.createdAt = tx[c].createdAt
          /\ t.overtaken = tx[c].overtaken
      BY <2>1 DEF Transaction
    <3>3. tx' = [tx EXCEPT ![c] = t]
      BY <1>8, <2>3 DEF LoseConnection
    <3>4. /\ Follows(tx[c])
          /\ tx[c].createdAt <= clock
          /\ \A r \in AccountRows(rows, AccountIn(tx[c])) : r.createdAt <= tx[c].createdAt
      BY <2>3 DEF NumberInv, NextInLine, AgesInOrder
    <3>5. AccountIn(t) = AccountIn(tx[c]) /\ Follows(t)
      BY <3>2, <3>4 DEF AccountIn, Follows
    <3> HIDE DEF t
    <3> QED
      BY <1>t, <2>1, <3>1, <3>2, <3>3, <3>4, <3>5, NumbersMovedOn
  <2>4. CASE tx[c].step \in {"counted", "conflict", "recounted"}
    <3> DEFINE t == [tx[c] EXCEPT !.step = "orphaned"]
    <3>1. t \in Transaction /\ t.step = "orphaned"
      BY <2>1 DEF Transaction, Steps
    <3>2. tx' = [tx EXCEPT ![c] = t]
      BY <1>8, <2>4 DEF LoseConnection
    <3> HIDE DEF t
    <3> QED
      BY <1>t, <2>1, <3>1, <3>2, NumbersMovedOn
  <2> QED
    BY <1>8, <2>2, <2>3, <2>4 DEF LoseConnection
<1>9. ASSUME NEW c \in Connection, EndSession(c) PROVE NumberInv'
  BY <1>9, <1>t, <1>x, NumbersMovedOn DEF EndSession
<1>10. ASSUME NEW c \in Connection, CommitUnanswered(c) PROVE NumberInv'
  BY <1>10, NumbersCommitted DEF CommitUnanswered
<1>11. ASSUME NEW cutoff \in 1 .. clock, DeleteOlderThan(cutoff) PROVE NumberInv'
  <2>1. cutoff \in Nat
    BY <1>t DEF TypeOK
  <2> QED
    BY <1>11, <2>1, NumbersPurged
<1>12. CASE Tick
  <2>1. CounterIsLast' /\ Dense' /\ NextInLine'
    BY <1>12 DEF Tick, NumberInv, CounterIsLast, Dense, NextInLine, Follows, AccountIn
  <2>2. AgesInOrder'
    BY <1>12, <1>t, TxFacts, RowFacts DEF Tick, NumberInv, AgesInOrder, AccountIn, TypeOK
  <2> QED
    BY <2>1, <2>2 DEF NumberInv
<1>13. CASE UNCHANGED vars
  BY <1>13 DEF vars, NumberInv, CounterIsLast, Dense, NextInLine, Follows, AgesInOrder, AccountIn
<1> QED
  BY <1>1, <1>2, <1>3, <1>4, <1>5, <1>6, <1>7, <1>8, <1>9, <1>10, <1>11, <1>12, <1>13
     DEF Next, ConnectionStep, Statement

LEMMA NumberInvAlways == ASSUME CountersCaughtUp PROVE Spec => [](LockInv /\ NumberInv)
BY LockInvInit, LockInvStep, NumberInvInit, NumberInvStep, PTL DEF Spec

---------------------------------------------------------------------------
\* What follows from it

\* Between two rows of an account no number is missing, whatever rolled back, got lost
\* with its connection or was deleted.
THEOREM NoNumberMissing == ASSUME CountersCaughtUp PROVE Spec => []GapFree
<1>1. LockInv /\ NumberInv => GapFree
  <2> SUFFICES ASSUME LockInv, NumberInv,
                      NEW r \in rows, NEW s \in rows, AccountOf[r.id] = AccountOf[s.id],
                      NEW n \in r.accountSeq .. s.accountSeq
               PROVE  NumberTaken(rows, AccountOf[r.id], n)
    BY DEF GapFree, NoHoles
  <2>1. n \in r.accountSeq .. counters[AccountOf[r.id]]
    BY RowFacts DEF LockInv, NumberInv, CounterIsLast
  <2> QED
    BY <2>1 DEF NumberInv, Dense
<1> QED
  BY <1>1, NumberInvAlways, PTL

\* A row comes with a number above the counter, or starts the numbers again.
LEMMA NewRowsAbove ==
    ASSUME LockInv, NumberInv, [Next]_vars
    PROVE  \A r \in rows' \ rows : r.accountSeq > counters[AccountOf[r.id]] \/ StartsAgain(r)
<1> DEFINE Above == \A r \in rows' \ rows : r.accountSeq > counters[AccountOf[r.id]] \/ StartsAgain(r)
<1>t. TypeOK
  BY DEF LockInv
<1>1. ASSUME NEW c \in Connection, tx[c].step \in {"written", "doubtful"}, Committed(tx[c]),
             tx' = [tx EXCEPT ![c] = IdleTx]
      PROVE  Above
  <2>1. /\ \/ tx[c].number > counters[AccountIn(tx[c])]
           \/ tx[c].overtaken /\ AccountRows(rows, AccountIn(tx[c])) = {}
        /\ tx'[c] = IdleTx
    BY <1>1, <1>t, TxFacts DEF NumberInv, NextInLine, Follows, TypeOK
  <2>2. \A r \in rows' \ rows : r = RowOf(tx[c])
    BY <1>1 DEF Committed
  <2>3. /\ RowOf(tx[c]).id = tx[c].envelope /\ RowOf(tx[c]).accountSeq = tx[c].number
        /\ AccountOf[RowOf(tx[c]).id] = AccountIn(tx[c])
    BY DEF RowOf, AccountIn
  <2> QED
    BY <2>1, <2>2, <2>3 DEF StartsAgain
<1>2. ASSUME rows' \subseteq rows PROVE Above
  BY <1>2
<1>3. \/ rows' \subseteq rows
      \/ \E c \in Connection : /\ tx[c].step \in {"written", "doubtful"} /\ Committed(tx[c])
                               /\ tx' = [tx EXCEPT ![c] = IdleTx]
  BY DEF Next, ConnectionStep, Statement, Begin, Bump, InsertRow, FindDuplicate, Resync,
     InsertAgain, Commit, LoseConnection, EndSession, CommitUnanswered, DeleteOlderThan,
     Tick, vars
<1> QED
  BY <1>1, <1>2, <1>3

\* A row that appears was committed by the holder of its account's lock, above the counter;
\* or by a transaction that retention has overtaken, when its account has no row left. No other
\* interleaving, lost connection, retry or deletion hands a number out twice.
THEOREM NumbersStayUsed == ASSUME CountersCaughtUp PROVE Spec => ReusedOnlyWhenEmptied
  BY NewRowsAbove, NumberInvAlways, PTL DEF Spec, ReusedOnlyWhenEmptied

---------------------------------------------------------------------------
\* The statements implement the atomic message log

\* Committing is the abstract insert: the number is the counter's next and it is free. Or
\* retention has overtaken the transaction, and it starts the account's numbers again.
LEMMA CommitIsInsert ==
    ASSUME LockInv, NumberInv, NEW c \in Connection, tx[c].step \in {"written", "doubtful"},
           Committed(tx[c]),
           \/ answer' = Log!Inserted(tx[c].envelope, tx[c].number)
           \/ UNCHANGED answer
    PROVE  Log!Next \/ CommitsOvertaken
<1> DEFINE e == tx[c].envelope
           row == RowOf(tx[c])
<1>t. TypeOK
  BY DEF LockInv
<1>1. e \in Envelope
  BY <1>t, TxFacts
<1>2. Holding(rows, e) = {} /\ ~NumberTaken(rows, AccountOf[e], tx[c].number)
  BY DEF LockInv, StillFree, Conflicts
<1>0. CASE tx[c].overtaken /\ AccountRows(rows, AccountIn(tx[c])) = {} /\ tx[c].number = 1
  <2>1. PastAll(rows, AccountIn(tx[c]), tx[c].number)
    BY <1>0 DEF PastAll
  <2> QED
    BY <1>0, <1>2, <2>1 DEF CommitsOvertaken
<1> SUFFICES ASSUME tx[c].number = counters[AccountOf[e]] + 1 PROVE Log!Next
  BY <1>0 DEF NumberInv, NextInLine, Follows, AccountIn
<1>4. row.id = e /\ row.accountSeq = tx[c].number
  BY DEF RowOf
<1>5. Log!NextNumber(AccountOf[e], row.accountSeq)
  BY <1>2, <1>4 DEF Log!NextNumber, Log!NumberTaken, NumberTaken, Log!AccountRows, AccountRows
<1>6. Log!Insert(e)
  <2>1. Log!Holding(rows, e) = {}
    BY <1>2 DEF Log!Holding, Holding, Log!SameWaMessage, SameWaMessage
  <2>2. /\ rows' = rows \union {row}
        /\ row \in rows'
        /\ counters' = [counters EXCEPT ![AccountOf[e]] = row.accountSeq]
    BY <1>4 DEF Committed, AccountIn
  <2> HIDE DEF row, e
  <2> QED
    BY <1>4, <1>5, <2>1, <2>2 DEF Log!Insert, e
<1> QED
  BY <1>1, <1>6 DEF Log!Next

\* insertInbound's statements on any number of connections implement the atomic insert
\* that MessageLogPort promises; everything before COMMIT is a stutter. Only a transaction that
\* retention has overtaken commits under another number than the atomic insert's.
THEOREM InsertIsAtomic == ASSUME CountersCaughtUp PROVE Spec => ImplementsMessageLog
<1>1. Init => Log!Init
  BY DEF Init, Log!Init
<1>2. LockInv /\ NumberInv /\ [Next]_vars => [Log!Next \/ CommitsOvertaken]_<<rows, counters, answer>>
  <2> SUFFICES ASSUME LockInv, NumberInv, [Next]_vars
               PROVE  [Log!Next \/ CommitsOvertaken]_<<rows, counters, answer>>
    OBVIOUS
  <2>t. TypeOK
    BY DEF LockInv
  <2>1. ASSUME NEW c \in Connection, Commit(c) PROVE Log!Next \/ CommitsOvertaken
    BY <2>1, CommitIsInsert DEF Commit
  <2>2. ASSUME NEW c \in Connection, CommitUnanswered(c) PROVE Log!Next \/ CommitsOvertaken
    BY <2>2, CommitIsInsert DEF CommitUnanswered
  <2>3. ASSUME NEW c \in Connection, FindDuplicate(c) PROVE Log!Next
    <3>1. tx[c].envelope \in Envelope
      BY <2>t, TxFacts
    <3>2. Log!Holding(rows, tx[c].envelope) = Holding(rows, tx[c].envelope)
      BY DEF Log!Holding, Holding, Log!SameWaMessage, SameWaMessage
    <3>3. Log!AnswerDuplicate(tx[c].envelope)
      BY <2>3, <3>2 DEF FindDuplicate, Log!AnswerDuplicate
    <3> QED
      BY <3>1, <3>3 DEF Log!Next
  <2>4. ASSUME NEW cutoff \in 1 .. clock, DeleteOlderThan(cutoff) PROVE Log!Next
    <3>1. rows' = {r \in rows : r.createdAt >= cutoff} /\ UNCHANGED <<counters, answer>>
      BY <2>4 DEF DeleteOlderThan
    <3>2. ASSUME NEW r \in rows', NEW s \in rows,
                 AccountOf[r.id] = AccountOf[s.id], s.accountSeq > r.accountSeq
          PROVE  s \in rows'
      <4>1. r \in rows /\ r.createdAt >= cutoff
        BY <3>1
      <4>2. r.createdAt <= s.createdAt
        BY <3>2, <4>1, <2>t, RowFacts DEF NumberInv, AgesInOrder
      <4> QED
        BY <4>1, <4>2, <3>1, <2>t, RowFacts DEF TypeOK
    <3> QED
      BY <3>1, <3>2 DEF Log!Next, Log!Purge
  <2>5. \/ UNCHANGED <<rows, counters, answer>>
        \/ \E c \in Connection : Commit(c) \/ CommitUnanswered(c) \/ FindDuplicate(c)
        \/ \E cutoff \in 1 .. clock : DeleteOlderThan(cutoff)
    BY DEF Next, ConnectionStep, Statement, Begin, Bump, InsertRow, Resync, InsertAgain,
       LoseConnection, EndSession, Tick, vars
  <2> QED
    BY <2>1, <2>2, <2>3, <2>4, <2>5
<1> QED
  BY <1>1, <1>2, NumberInvAlways, PTL DEF Spec, ImplementsMessageLog

---------------------------------------------------------------------------
(***************************************************************************)
(* What a consumer that catches up by number may rely on, for every page   *)
(* size and every number of accounts, envelopes and connections: nothing   *)
(* appears behind its cursor, and what a page lacks it can tell from the   *)
(* answer. Both rest on NumberInv: a row that appears while the controller *)
(* is between two of its questions is numbered above the account's         *)
(* counter, and so above everything the page and the cursor have seen.     *)
(***************************************************************************)

\* A set of numbers has a least one.
LEMMA LeastNumber ==
    ASSUME NEW S \in SUBSET Nat, S # {}
    PROVE  \E n \in S : \A k \in S : n <= k
<1> DEFINE Below(n) == {k \in S : k < n}
           Lows == {Below(n) : n \in S}
<1>n. S \subseteq Nat
  OBVIOUS
<1>1. ASSUME NEW n \in S PROVE IsFiniteSet(Below(n))
  <2>1. Below(n) \subseteq Nat /\ n \in Nat
    OBVIOUS
  <2>2. \A k \in Below(n) : k <= n
    BY <2>1
  <2> QED
    BY <2>1, <2>2, FS_BoundedSetOfNaturals
<1>2. Lows \subseteq FiniteSubsetsOf(S) /\ Lows # {}
  BY <1>1 DEF FiniteSubsetsOf
<1>3. PICK low \in Lows : \A other \in Lows : ~(<<other, low>> \in StrictSubsetOrdering(S))
  BY <1>2, FS_StrictSubsetOrderingWellFounded, WFMin
<1>4. PICK n \in S : low = Below(n)
  OBVIOUS
<1>5. ASSUME NEW k \in S, k < n PROVE FALSE
  <2>1. ASSUME NEW j \in S, j < k PROVE j < n
    BY <1>5, <1>n, <2>1
  <2>2. Below(k) \subseteq Below(n)
    BY <2>1
  <2>3. k \in Below(n) /\ k \notin Below(k)
    BY <1>5, <1>n
  <2>4. <<Below(k), Below(n)>> \in StrictSubsetOrdering(S)
    BY <2>2, <2>3 DEF StrictSubsetOrdering
  <2> QED
    BY <1>3, <1>4, <2>4
<1> QED
  BY <1>5, <1>n

---------------------------------------------------------------------------
\* The inductive invariant

Reading == [step : {"idle", "page", "last", "answered"}, page : SUBSET Row, last : Nat, first : Nat]

ReaderTypes ==
    /\ cursor \in Nat
    /\ reading \in Reading
    /\ reading.step = "idle" => reading.page = {}
    /\ IsFiniteSet(rows)

\* Neither the cursor nor a page is ahead of the counter, and a page is ahead of the cursor.
CursorBehind ==
    /\ cursor <= counters[Watched]
    /\ \A r \in reading.page : cursor < r.accountSeq /\ r.accountSeq <= counters[Watched]

\* A page has every row there is up to its last.
PageIsClosed ==
    \A q \in AccountRows(rows, Watched), r \in reading.page :
        cursor < q.accountSeq /\ q.accountSeq <= r.accountSeq =>
            \E s \in reading.page : s.id = q.id

\* Below a row of the page are the cursor, another of the page or nothing at all.
PageHasNoJump ==
    \A r \in reading.page :
        \/ r.accountSeq = cursor + 1
        \/ \E s \in reading.page : s.accountSeq = r.accountSeq - 1
        \/ \A q \in AccountRows(rows, Watched) : r.accountSeq <= q.accountSeq

LastIsNotBehind ==
    reading.step \in {"last", "answered"} => \A r \in reading.page : r.accountSeq <= reading.last

\* Until the account's numbers start again.
ReaderInv ==
    /\ restarted = FALSE
    /\ ReaderTypes
    /\ CursorBehind
    /\ PageIsClosed
    /\ PageHasNoJump
    /\ LastIsNotBehind
    /\ NothingSkipped
    /\ AnswerExplainsItself

---------------------------------------------------------------------------
\* The log moves on, the reader waits

\* Every step of the log takes rows away, or adds one above its account's counter, but for
\* those that start an account's numbers again.
LogOnlyGrowsAbove ==
    /\ \A r \in AccountRows(rows' \ rows, Watched) : r.accountSeq > counters[Watched]
    /\ counters[Watched] <= counters'[Watched]
    /\ IsFiniteSet(rows')

LEMMA LogMoves ==
    ASSUME LockInv, NumberInv, [Next]_vars, IsFiniteSet(rows), ~NumbersRestart
    PROVE  LogOnlyGrowsAbove
<1>t. TypeOK
  BY DEF LockInv
<1>w. Watched \in Account /\ counters[Watched] \in Nat
  BY <1>t, ReaderAssumption DEF TypeOK
<1>1. ASSUME NEW c \in Connection, tx[c].step \in {"written", "doubtful"}, Committed(tx[c])
      PROVE  LogOnlyGrowsAbove
  <2>1. /\ tx[c].number \in Nat /\ AccountIn(tx[c]) \in Account
        /\ rows' = rows \union {RowOf(tx[c])}
        /\ counters' = [counters EXCEPT ![AccountIn(tx[c])] = tx[c].number]
        /\ RowOf(tx[c]).accountSeq = tx[c].number /\ AccountOf[RowOf(tx[c]).id] = AccountIn(tx[c])
    BY <1>1, <1>t, TxFacts DEF Committed, RowOf, AccountIn
  <2>2. RowOf(tx[c]) \notin rows
    BY <1>1 DEF LockInv, StillFree, Conflicts, Holding, RowOf
  <2>3. CASE AccountIn(tx[c]) = Watched
    <3>1. RowOf(tx[c]) \in AccountRows(rows' \ rows, Watched)
      BY <2>1, <2>2, <2>3 DEF AccountRows
    <3>2. tx[c].number > counters[Watched]
      BY <1>w, <2>1, <3>1, NewRowsAbove DEF NumbersRestart, AccountRows
    <3>3. counters'[Watched] = tx[c].number
      BY <1>t, <1>w, <2>1, <2>3 DEF TypeOK
    <3> QED
      BY <1>w, <2>1, <3>2, <3>3, FS_AddElement DEF LogOnlyGrowsAbove, AccountRows
  <2>4. CASE AccountIn(tx[c]) # Watched
    <3>1. AccountRows(rows' \ rows, Watched) = {}
      BY <2>1, <2>4 DEF AccountRows
    <3>2. counters'[Watched] = counters[Watched]
      BY <1>t, <1>w, <2>1, <2>4 DEF TypeOK
    <3>3. IsFiniteSet(rows')
      BY <2>1, FS_AddElement
    <3>4. counters[Watched] <= counters'[Watched]
      BY <1>w, <3>2
    <3> QED
      BY <3>1, <3>3, <3>4 DEF LogOnlyGrowsAbove
  <2> QED
    BY <2>3, <2>4
<1>2. ASSUME rows' \subseteq rows, UNCHANGED counters PROVE LogOnlyGrowsAbove
  BY <1>2, <1>w, FS_Subset DEF LogOnlyGrowsAbove, AccountRows
<1>3. \/ rows' \subseteq rows /\ UNCHANGED counters
      \/ \E c \in Connection : tx[c].step \in {"written", "doubtful"} /\ Committed(tx[c])
  BY DEF Next, ConnectionStep, Statement, Begin, Bump, InsertRow, FindDuplicate, Resync,
     InsertAgain, Commit, LoseConnection, EndSession, CommitUnanswered, DeleteOlderThan,
     Tick, vars
<1> QED
  BY <1>1, <1>2, <1>3

\* Whatever the log does meanwhile, the page and the cursor are still right.
LEMMA ReaderWaits ==
    ASSUME TypeOK, TypeOK', ReaderInv, LogOnlyGrowsAbove, UNCHANGED <<cursor, handled, reading>>,
           restarted' = FALSE
    PROVE  ReaderInv'
<1>w. /\ counters[Watched] \in Nat /\ counters'[Watched] \in Nat
      /\ counters[Watched] <= counters'[Watched]
      /\ cursor \in Nat /\ cursor <= counters[Watched]
      /\ \A r \in reading.page : r \in Row /\ r.accountSeq \in Nat /\ r.accountSeq <= counters[Watched]
  BY ReaderAssumption DEF TypeOK, ReaderInv, ReaderTypes, Reading, CursorBehind, LogOnlyGrowsAbove, Row
<1>u. cursor' = cursor /\ handled' = handled /\ reading' = reading
  OBVIOUS
<1>q. ASSUME NEW q \in AccountRows(rows', Watched)
      PROVE  /\ q.accountSeq \in Nat
             /\ q \in AccountRows(rows, Watched) \/ q.accountSeq > counters[Watched]
  BY DEF LogOnlyGrowsAbove, AccountRows, TypeOK, Row
<1>1. ReaderTypes'
  BY <1>u DEF ReaderInv, ReaderTypes, LogOnlyGrowsAbove
<1>2. CursorBehind'
  BY <1>u, <1>w DEF ReaderInv, CursorBehind
<1>3. PageIsClosed'
  <2> SUFFICES ASSUME NEW q \in AccountRows(rows', Watched), NEW r \in reading.page,
                      cursor < q.accountSeq, q.accountSeq <= r.accountSeq
               PROVE  \E s \in reading.page : s.id = q.id
    BY <1>u DEF PageIsClosed
  <2>1. q \in AccountRows(rows, Watched)
    BY <1>q, <1>w
  <2> QED
    BY <2>1 DEF ReaderInv, PageIsClosed
<1>4. PageHasNoJump'
  <2> SUFFICES ASSUME NEW r \in reading.page,
                      \A q \in AccountRows(rows, Watched) : r.accountSeq <= q.accountSeq,
                      NEW q \in AccountRows(rows', Watched)
               PROVE  r.accountSeq <= q.accountSeq
    BY <1>u DEF ReaderInv, PageHasNoJump
  <2> QED
    BY <1>q, <1>w
<1>5. LastIsNotBehind' /\ AnswerExplainsItself'
  BY <1>u DEF ReaderInv, LastIsNotBehind, AnswerExplainsItself
<1>6. NothingSkipped'
  <2> SUFFICES ASSUME NEW q \in AccountRows(rows', Watched), q.accountSeq <= cursor
               PROVE  q.id \in handled
    BY <1>u DEF NothingSkipped
  <2>1. q \in AccountRows(rows, Watched)
    BY <1>q, <1>w
  <2> QED
    BY <2>1 DEF ReaderInv, NothingSkipped
<1> QED
  BY <1>1, <1>2, <1>3, <1>4, <1>5, <1>6 DEF ReaderInv

---------------------------------------------------------------------------
\* The reader's own steps

\* The first rows past the cursor are closed downwards: a row has no more below it than a
\* higher one has.
LEMMA PageOfIsClosed ==
    ASSUME NEW C \in SUBSET Row, IsFiniteSet(C), NEW r \in PageOf(C), NEW q \in C,
           q.accountSeq <= r.accountSeq
    PROVE  q \in PageOf(C)
<1> DEFINE Lower(x) == {s \in C : s.accountSeq < x.accountSeq}
<1>1. r \in C /\ Cardinality(Lower(r)) < PageLimit
  BY DEF PageOf
<1>2. ASSUME NEW s \in C, s.accountSeq < q.accountSeq PROVE s.accountSeq < r.accountSeq
  <2>1. s \in Row /\ q \in Row /\ r \in Row
    BY <1>1
  <2>2. s.accountSeq \in Nat /\ q.accountSeq \in Nat /\ r.accountSeq \in Nat
    BY <2>1 DEF Row
  <2> QED
    BY <1>2, <2>2
<1>3. Lower(q) \subseteq Lower(r) /\ Lower(r) \subseteq C
  BY <1>2
<1> HIDE DEF Lower
<1>4. IsFiniteSet(Lower(r)) /\ IsFiniteSet(Lower(q))
  BY <1>3, FS_Subset
<1>5. Cardinality(Lower(q)) <= Cardinality(Lower(r))
  BY <1>3, <1>4, FS_Subset
<1>6. Cardinality(Lower(q)) \in Nat /\ Cardinality(Lower(r)) \in Nat
  BY <1>4, FS_CardinalityType
<1>7. Cardinality(Lower(q)) < PageLimit
  BY <1>1, <1>5, <1>6, ReaderAssumption
<1> QED
  BY <1>7 DEF PageOf, Lower

LEMMA ReaderReadsPage ==
    ASSUME LockInv, NumberInv, ReaderInv, ReadPage
    PROVE  ReaderInv'
<1> DEFINE W == AccountRows(rows, Watched)
           C == RowsAfter(cursor)
<1>t. TypeOK
  BY DEF LockInv
<1>u. UNCHANGED <<rows, counters, cursor, handled, restarted>>
  BY DEF ReadPage, vars
<1>r. /\ reading'.step = "page"
      /\ reading'.page = PageOf(C)
      /\ reading' \in Reading
  <2>1. PageOf(C) \subseteq Row
    BY <1>t DEF PageOf, RowsAfter, AccountRows, TypeOK
  <2> QED
    BY <2>1 DEF ReadPage, NotReading, Reading
<1>c. /\ C \subseteq Row /\ C \subseteq rows
      /\ IsFiniteSet(C)
  <2>1. C \subseteq Row /\ C \subseteq rows
    BY <1>t DEF RowsAfter, AccountRows, TypeOK
  <2> QED
    BY <2>1, FS_Subset DEF ReaderInv, ReaderTypes
<1>p. ASSUME NEW r \in PageOf(C)
      PROVE  /\ r \in C /\ r \in W /\ r \in Row /\ r \in rows
             /\ cursor < r.accountSeq
             /\ r.accountSeq <= counters[Watched]
             /\ r.accountSeq \in Nat \ {0}
             /\ AccountOf[r.id] = Watched
  <2>1. r \in C /\ r \in W /\ r \in rows /\ cursor < r.accountSeq /\ AccountOf[r.id] = Watched
    BY DEF PageOf, RowsAfter, AccountRows
  <2> QED
    BY <2>1, <1>t DEF TypeOK, Row, NumberInv, CounterIsLast
<1>1. ReaderTypes'
  BY <1>u, <1>r DEF ReaderInv, ReaderTypes
<1>2. CursorBehind'
  BY <1>u, <1>r, <1>p DEF ReaderInv, CursorBehind
<1>3. PageIsClosed'
  <2> SUFFICES ASSUME NEW q \in W, NEW r \in PageOf(C), cursor < q.accountSeq, q.accountSeq <= r.accountSeq
               PROVE  q \in PageOf(C)
    BY <1>u, <1>r DEF PageIsClosed
  <2>1. q \in C
    BY <1>t DEF RowsAfter, AccountRows, TypeOK, Row
  <2> QED
    BY <2>1, <1>c, PageOfIsClosed
<1>4. PageHasNoJump'
  <2> SUFFICES ASSUME NEW r \in PageOf(C), r.accountSeq # cursor + 1,
                      NEW q \in W, ~(r.accountSeq <= q.accountSeq)
               PROVE  \E s \in PageOf(C) : s.accountSeq = r.accountSeq - 1
    BY <1>u, <1>r DEF PageHasNoJump
  <2>1. /\ r.accountSeq \in Nat /\ q.accountSeq \in Nat /\ cursor \in Nat
        /\ counters[Watched] \in Nat
        /\ cursor < r.accountSeq /\ r.accountSeq <= counters[Watched]
        /\ q \in rows /\ AccountOf[q.id] = Watched
    BY <1>p, <1>t, ReaderAssumption DEF AccountRows, TypeOK, Row, ReaderInv, ReaderTypes
  <2>2. r.accountSeq - 1 \in q.accountSeq .. counters[Watched] /\ cursor < r.accountSeq - 1
    BY <2>1
  <2>3. PICK s \in W : s.accountSeq = r.accountSeq - 1
    BY <2>1, <2>2 DEF NumberInv, Dense, NumberTaken
  <2>4. s \in C
    BY <2>2, <2>3 DEF RowsAfter
  <2>5. s.accountSeq <= r.accountSeq
    BY <2>1, <2>3
  <2> QED
    BY <2>3, <2>4, <2>5, <1>c, PageOfIsClosed
<1>7. reading'.step # "answered" /\ reading'.step # "last"
  BY <1>r
<1>5. LastIsNotBehind' /\ AnswerExplainsItself'
  <2>1. LastIsNotBehind'
    BY <1>7 DEF LastIsNotBehind
  <2>2. AnswerExplainsItself'
    BY <1>7, Zenon DEF AnswerExplainsItself
  <2> QED
    BY <2>1, <2>2
<1>6. NothingSkipped'
  BY <1>u DEF ReaderInv, NothingSkipped
<1>8. restarted' = FALSE
  BY <1>u DEF ReaderInv
<1> QED
  BY <1>1, <1>2, <1>3, <1>4, <1>5, <1>6, <1>8, Zenon DEF ReaderInv

LEMMA ReaderReadsLast ==
    ASSUME TypeOK, ReaderInv, ReadLast
    PROVE  ReaderInv'
<1>w. counters[Watched] \in Nat
  BY ReaderAssumption DEF TypeOK
<1>u. UNCHANGED <<rows, counters, cursor, handled, restarted>>
  BY DEF ReadLast, vars
<1>r. /\ reading'.step = "last"
      /\ reading'.page = reading.page
      /\ reading'.last = counters[Watched]
      /\ reading' \in Reading
  BY <1>w DEF ReadLast, ReaderInv, ReaderTypes, Reading
<1> QED
  BY <1>u, <1>r DEF ReaderInv, ReaderTypes, CursorBehind, PageIsClosed, PageHasNoJump, LastIsNotBehind,
     NothingSkipped, AnswerExplainsItself

LEMMA ReaderReadsFirst ==
    ASSUME TypeOK, ReaderInv, ReadFirst
    PROVE  ReaderInv'
<1>u. UNCHANGED <<rows, counters, cursor, handled, restarted>>
  BY DEF ReadFirst, vars
<1>0. NumbersHeld \subseteq Nat
  BY DEF NumbersHeld, AccountRows, TypeOK, Row
<1>r. /\ reading'.step = "answered"
      /\ reading'.page = reading.page
      /\ reading'.last = reading.last
      /\ reading' \in Reading
      /\ \/ reading'.first = 0
         \/ reading'.first \in NumbersHeld
  <2>1. CASE NumbersHeld = {}
    BY <2>1 DEF ReadFirst, ReaderInv, ReaderTypes, Reading
  <2>2. CASE NumbersHeld # {}
    <3> DEFINE first == CHOOSE n \in NumbersHeld : \A k \in NumbersHeld : n <= k
    <3>1. first \in NumbersHeld
      BY <2>2, <1>0, LeastNumber
    <3>2. first \in Nat
      BY <3>1, <1>0
    <3>3. reading' = [reading EXCEPT !.step = "answered", !.first = first]
      BY <2>2 DEF ReadFirst
    <3> HIDE DEF first
    <3> QED
      BY <3>1, <3>2, <3>3 DEF ReaderInv, ReaderTypes, Reading
  <2> QED
    BY <2>1, <2>2
<1>1. AnswerExplainsItself'
  <2> SUFFICES ASSUME NEW r \in reading.page
               PROVE  /\ r.accountSeq <= reading.last
                      /\ \/ r.accountSeq = cursor + 1
                         \/ \E s \in reading.page : s.accountSeq = r.accountSeq - 1
                         \/ reading'.first >= r.accountSeq
                         \/ reading'.first = 0
    BY <1>u, <1>r DEF AnswerExplainsItself
  <2>1. r.accountSeq <= reading.last
    BY DEF ReaderInv, LastIsNotBehind, ReadFirst
  <2>2. ASSUME \A q \in AccountRows(rows, Watched) : r.accountSeq <= q.accountSeq,
               reading'.first \in NumbersHeld
        PROVE  reading'.first >= r.accountSeq
    <3>1. PICK q \in AccountRows(rows, Watched) : reading'.first = q.accountSeq
      BY <2>2 DEF NumbersHeld
    <3>2. r \in Row /\ q \in Row
      BY DEF ReaderInv, ReaderTypes, Reading, AccountRows, TypeOK
    <3>3. r.accountSeq \in Nat /\ q.accountSeq \in Nat
      BY <3>2 DEF Row
    <3> QED
      BY <2>2, <3>1, <3>3
  <2> QED
    BY <1>r, <2>1, <2>2 DEF ReaderInv, PageHasNoJump
<1> QED
  BY <1>u, <1>r, <1>1 DEF ReaderInv, ReaderTypes, CursorBehind, PageIsClosed, PageHasNoJump,
     LastIsNotBehind, ReadFirst, NothingSkipped

\* The cursor moves to the page's last number: whatever is at or below it the page had.
LEMMA ReaderConsumes ==
    ASSUME TypeOK, ReaderInv, Consume
    PROVE  ReaderInv'
<1>u. UNCHANGED <<rows, counters, restarted>>
  BY DEF Consume, vars
<1>w. counters[Watched] \in Nat /\ cursor \in Nat
  BY ReaderAssumption DEF TypeOK, ReaderInv, ReaderTypes
<1>p. \A r \in reading.page : r.accountSeq \in Nat /\ cursor < r.accountSeq /\ r.accountSeq <= counters[Watched]
  BY DEF ReaderInv, ReaderTypes, Reading, CursorBehind, Row
<1>r. reading' = NotReading /\ reading' \in Reading
  BY DEF Consume, NotReading, Reading
<1>1. /\ handled' = handled \union {r.id : r \in reading.page}
      /\ cursor' \in {cursor} \union {r.accountSeq : r \in reading.page}
  BY DEF Consume
<1>2. cursor' \in Nat /\ cursor' <= counters[Watched]
  BY <1>1, <1>w, <1>p DEF ReaderInv, CursorBehind
<1>3. NothingSkipped'
  <2> SUFFICES ASSUME NEW q \in AccountRows(rows, Watched), q.accountSeq <= cursor'
               PROVE  q.id \in handled'
    BY <1>u DEF NothingSkipped
  <2>1. q.accountSeq \in Nat
    BY DEF AccountRows, TypeOK, Row
  <2>2. CASE q.accountSeq <= cursor
    BY <2>2, <1>1 DEF ReaderInv, NothingSkipped
  <2>3. CASE cursor < q.accountSeq
    <3>1. PICK r \in reading.page : cursor' = r.accountSeq
      BY <2>3, <2>1, <1>1, <1>w
    <3>2. PICK s \in reading.page : s.id = q.id
      BY <2>3, <3>1 DEF ReaderInv, PageIsClosed
    <3> QED
      BY <3>2, <1>1
  <2> QED
    BY <2>1, <2>2, <2>3, <1>w
<1> QED
  BY <1>u, <1>r, <1>2, <1>3 DEF NotReading, ReaderInv, ReaderTypes, CursorBehind, PageIsClosed, PageHasNoJump,
     LastIsNotBehind, AnswerExplainsItself

---------------------------------------------------------------------------
\* The consumer beside the log

LEMMA ReaderInvInit == Init /\ ReaderInit => ReaderInv
<1> SUFFICES ASSUME Init, ReaderInit PROVE ReaderInv
  OBVIOUS
<1>1. /\ rows \subseteq Row /\ IsFiniteSet(rows)
      /\ counters[Watched] \in Nat
  BY InitialAssumption, ReaderAssumption DEF Init
<1>2. \A r \in rows : ~(r.accountSeq <= 0)
  BY <1>1 DEF Row
<1> QED
  BY <1>1, <1>2 DEF ReaderInit, NotReading, ReaderInv, ReaderTypes, Reading, CursorBehind, PageIsClosed,
     PageHasNoJump, LastIsNotBehind, NothingSkipped, AnswerExplainsItself, AccountRows

LEMMA ReaderInvStep ==
    LockInv /\ LockInv' /\ NumberInv /\ (restarted = TRUE \/ ReaderInv) /\ [CatchUpNext]_allVars
    => (restarted = TRUE \/ ReaderInv)'
<1> SUFFICES ASSUME LockInv, LockInv', NumberInv, restarted = TRUE \/ ReaderInv, [CatchUpNext]_allVars
             PROVE  restarted' = TRUE \/ ReaderInv'
  OBVIOUS
<1>t. TypeOK /\ TypeOK'
  BY DEF LockInv
<1>r. restarted \in BOOLEAN
  BY DEF ReaderInv
<1>1. CASE Next /\ UNCHANGED <<cursor, handled, reading>> /\ restarted' = (restarted \/ NumbersRestart)
  <2>1. CASE restarted = TRUE \/ NumbersRestart
    BY <1>1, <2>1
  <2>2. CASE restarted = FALSE /\ ~NumbersRestart
    <3>1. ReaderInv /\ restarted' = FALSE
      BY <1>1, <2>2
    <3>2. LogOnlyGrowsAbove
      BY <1>1, <2>2, <3>1, LogMoves DEF ReaderInv, ReaderTypes
    <3> QED
      BY <1>1, <1>t, <3>1, <3>2, ReaderWaits
  <2> QED
    BY <1>r, <2>1, <2>2
<1>2. CASE ReaderNext
  <2>1. UNCHANGED restarted
    BY <1>2 DEF ReaderNext, ReadPage, ReadLast, ReadFirst, Consume
  <2>2. CASE ReaderInv
    BY <1>2, <1>t, <2>2, ReaderReadsPage, ReaderReadsLast, ReaderReadsFirst, ReaderConsumes DEF ReaderNext
  <2> QED
    BY <2>1, <2>2
<1>3. CASE UNCHANGED allVars
  BY <1>3 DEF allVars, consumerVars, vars, ReaderInv, ReaderTypes, CursorBehind, PageIsClosed, PageHasNoJump,
     LastIsNotBehind, NothingSkipped, AnswerExplainsItself
<1> QED
  BY <1>1, <1>2, <1>3 DEF CatchUpNext

\* Beside a consumer the log is the log still: what is proved of it holds here.
LEMMA CatchUpIsTheLog == CatchUpSpec => Spec
<1>1. [CatchUpNext]_allVars => [Next]_vars
  BY DEF CatchUpNext, ReaderNext, ReadPage, ReadLast, ReadFirst, Consume, allVars
<1> QED
  BY <1>1, PTL DEF CatchUpSpec, Spec

LEMMA ReaderInvAlways == ASSUME CountersCaughtUp PROVE CatchUpSpec => [](restarted = TRUE \/ ReaderInv)
<1>1. Init /\ ReaderInit => (restarted = TRUE \/ ReaderInv)
  BY ReaderInvInit
<1> QED
  BY <1>1, CatchUpIsTheLog, NumberInvAlways, ReaderInvStep, PTL DEF CatchUpSpec

\* GET /api/v1/messages?afterAccountSeq never leaves a message behind the consumer's cursor,
\* however many inserts commit, in whatever order, between a page and the next, as long as the
\* account's numbers have not started again.
THEOREM NothingIsSkipped == ASSUME CountersCaughtUp PROVE CatchUpSpec => []NothingSkipped
<1>1. (restarted = TRUE \/ ReaderInv) => NothingSkipped
  BY DEF ReaderInv, NothingSkipped
<1> QED
  BY <1>1, ReaderInvAlways, PTL

\* Between the three questions of one request the log may take and lose messages; the answer
\* explains itself all the same, as page, then lastAccountSeq, then firstAccountSeq are asked,
\* as long as the account's numbers have not started again.
THEOREM AnswersExplainThemselves == ASSUME CountersCaughtUp PROVE CatchUpSpec => []AnswerExplainsItself
<1>1. (restarted = TRUE \/ ReaderInv) => AnswerExplainsItself
  BY DEF ReaderInv, AnswerExplainsItself
<1> QED
  BY <1>1, ReaderInvAlways, PTL

====
