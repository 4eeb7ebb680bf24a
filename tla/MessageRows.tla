---- MODULE MessageRows ----
(***************************************************************************)
(* The rows of the message log and the questions its stores ask of them.  *)
(* An account's rows carry a per-account number, account_seq; what the     *)
(* envelope itself says is reduced to its account and its WhatsApp message *)
(* id, the two things deduplication looks at.                              *)
(***************************************************************************)
EXTENDS Integers, FiniteSets, TLC

CONSTANTS
    Account,          \* channel accounts
    Envelope,         \* envelope ids (UnifiedEnvelope.id)
    AccountOf,        \* the account an envelope belongs to
    WaIdOf,           \* what waMessageIdOf() reads in an envelope
    NoWaId,           \* its null: an envelope with no WhatsApp id, which never dedupes
    InitialRows,      \* what the table holds when the gateway starts
    InitialCounters   \* what account_counters holds then

Row == [id : Envelope, accountSeq : Nat \ {0}, createdAt : Nat]

AccountRows(R, a) == {r \in R : AccountOf[r.id] = a}

SameWaMessage(e, f) ==
    /\ AccountOf[e] = AccountOf[f]
    /\ WaIdOf[e] = WaIdOf[f]
    /\ WaIdOf[e] # NoWaId

\* The rows that already hold the message of envelope e: the same envelope, or
\* another one of the same account and WhatsApp message.
Holding(R, e) == {r \in R : r.id = e \/ SameWaMessage(r.id, e)}

NumberTaken(R, a, n) == \E r \in AccountRows(R, a) : r.accountSeq = n

\* The unique indexes an insert of e under number n would break (messages' primary
\* key, uq_messages_account_wa and uq_messages_account_seq): ON CONFLICT DO NOTHING.
Conflicts(R, e, n) == Holding(R, e) # {} \/ NumberTaken(R, AccountOf[e], n)

\* n is COALESCE(MAX(account_seq), 0) + 1 over the rows of account a.
PastAll(R, a, n) ==
    /\ \A r \in AccountRows(R, a) : r.accountSeq < n
    /\ n = 1 \/ NumberTaken(R, a, n - 1)

\* One row at most per number, per envelope and per WhatsApp message of an account.
UniqueRows(R) ==
    \A r, s \in R :
        \/ r = s
        \/ /\ r.id # s.id
           /\ ~SameWaMessage(r.id, s.id)
           /\ AccountOf[r.id] = AccountOf[s.id] => r.accountSeq # s.accountSeq

\* Between two rows of an account every number has its row.
NoHoles(R) ==
    \A r, s \in R : AccountOf[r.id] = AccountOf[s.id] =>
        \A n \in r.accountSeq .. s.accountSeq : NumberTaken(R, AccountOf[r.id], n)

ASSUME AccountOfAssumption == Envelope # {} /\ AccountOf \in [Envelope -> Account]

\* What a field that names an envelope holds while it names none.
AnyEnvelope == CHOOSE e \in Envelope : TRUE

ASSUME InitialAssumption ==
    /\ InitialRows \subseteq Row
    /\ IsFiniteSet(InitialRows)
    /\ \A r \in InitialRows : r.createdAt = 0
    /\ UniqueRows(InitialRows)
    /\ NoHoles(InitialRows)
    /\ InitialCounters \in [Account -> Nat]

\* The counters are where the migration leaves them: at the highest number of the
\* account. A counter behind its rows is the fault the stores repair on the way.
CountersCaughtUp ==
    \A r \in InitialRows :
        /\ r.accountSeq <= InitialCounters[AccountOf[r.id]]
        /\ NumberTaken(InitialRows, AccountOf[r.id], InitialCounters[AccountOf[r.id]])
====
