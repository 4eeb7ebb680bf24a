---- MODULE MCStorage ----
(***************************************************************************)
(* What the gateway keeps and reads back: the file of failed messages, the *)
(* SQLite log, the upgrade to a log, the export of messages, and the file  *)
(* of accounts; and the shutdown of the process that does it. They share   *)
(* no step, so a behaviour follows one of them, its part, while the others *)
(* stay as they began.                                                     *)
(***************************************************************************)
EXTENDS FailedInboundFile, SqliteMessageLog, LogUpgrade, MessageReads, AccountsFile, GracefulShutdown

CONSTANTS e1, e2

VARIABLE part

---------------------------------------------------------------------------
\* The values of the constants

OftenEnough == [save |-> 1, operation |-> 2, kill |-> 1, power |-> 1]

\* Of the SQLite log: envelopes "e1" and "e2" are one WhatsApp message that came twice, "f1" is
\* another account's, the others have no WhatsApp id. One counter is behind its rows.
Envelopes == {"e1", "e2", "e3", "e4", "f1"}

AccountOfEach == [e \in Envelopes |-> IF e = "f1" THEN "a2" ELSE "a1"]

WaIdOfEach == [e \in Envelopes |-> IF e \in {"e3", "e4"} THEN "none" ELSE "wa"]

FirstRows ==
    {[id |-> "e3", accountSeq |-> 1, createdAt |-> 0], [id |-> "e1", accountSeq |-> 2, createdAt |-> 0],
     [id |-> "f1", accountSeq |-> 1, createdAt |-> 0]}

FirstCounters == [a \in Account |-> IF a = "a1" THEN 0 ELSE 1]

\* Of the upgrade: up to three rows of one account and one of another, each of them received or sent,
\* with content or a placeholder, the third the same message or none, stored at once or not.
LegacyTables ==
    {{}} \union
    {{[id |-> i, account |-> "a1", waId |-> IF i = 3 /\ third = "other" THEN "none" ELSE "wa",
       inbound |-> i \in inbound, placeholder |-> i \in stubs, createdAt |-> times[i]] : i \in 1 .. 3}
     \union {[id |-> 4, account |-> "a2", waId |-> "wa", inbound |-> TRUE, placeholder |-> FALSE, createdAt |-> 1]} :
        inbound \in SUBSET (1 .. 3), stubs \in SUBSET (1 .. 3), third \in {"same", "other"},
        times \in {<<1, 1, 1>>, <<3, 2, 1>>, <<2, 1, 2>>}}

\* Of the reads.
Owners == <<"a1", "a2", "a1">>

\* Of the accounts: POST with an identity or none, PUT with one of another channel.
CreateIdentity == [telegram |-> {[absent |-> "none"]}, email |-> {[address |-> "given"], [absent |-> "none"]}]

UpdateIdentity == [telegram |-> {}, email |-> {[phoneNumber |-> "given"]}]

\* Of the shutdown: the code's times, in seconds.
StepTimes == <<2, 1, 4, 2, 1>>

\* What the theorems suppose of the constants holds of these.
ASSUME InstancesFit == CountersFit /\ TablesFit /\ ReadsFit /\ ChannelsKnown /\ TimesFit

---------------------------------------------------------------------------
failedVars == vars

storageVars == <<failedVars, sqliteVars, upgradeVars, readVars, fileVars, shutdownVars, part>>

StorageInit ==
    /\ part \in {"failed", "sqlite", "upgrade", "reads", "accounts", "shutdown"}
    /\ Init /\ SqliteInit /\ UpgradeInit /\ ReadInit /\ FileInit
    /\ ShutdownInit
    /\ part # "upgrade" => legacy = {} /\ recorded = {}
    /\ part # "sqlite" => \A r \in table : r.seq = r.accountSeq \/ r.id = "f1"

StorageNext ==
    /\ UNCHANGED part
    /\ \/ /\ part = "failed" /\ Next
          /\ UNCHANGED <<sqliteVars, upgradeVars, readVars, fileVars, shutdownVars>>
       \/ /\ part = "sqlite" /\ SqliteNext
          /\ UNCHANGED <<failedVars, upgradeVars, readVars, fileVars, shutdownVars>>
       \/ /\ part = "upgrade" /\ UpgradeNext
          /\ UNCHANGED <<failedVars, sqliteVars, readVars, fileVars, shutdownVars>>
       \/ /\ part = "reads" /\ ReadNext
          /\ UNCHANGED <<failedVars, sqliteVars, upgradeVars, fileVars, shutdownVars>>
       \/ /\ part = "accounts" /\ FileNext
          /\ UNCHANGED <<failedVars, sqliteVars, upgradeVars, readVars, shutdownVars>>
       \/ /\ part = "shutdown" /\ ShutdownNext
          /\ UNCHANGED <<failedVars, sqliteVars, upgradeVars, readVars, fileVars>>

\* Nothing that fairness is about is enabled in a part that stays as it began.
StorageSpec == StorageInit /\ [][StorageNext]_storageVars /\ Fairness
====
