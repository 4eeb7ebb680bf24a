---- MODULE MCCatchUp ----
(***************************************************************************)
(* What is read of messages while they come: the log of one account by a   *)
(* consumer that follows its numbers, a conversation by its history, or    *)
(* media. A behaviour follows one of the three, its part. In the log two   *)
(* envelopes are one WhatsApp message that came twice; the third has no    *)
(* WhatsApp id.                                                            *)
(***************************************************************************)
EXTENDS CatchUp, Conversations, InboundMedia

CONSTANTS a1, e1, e2, e3, c1, c2, wa, none

VARIABLE part

---------------------------------------------------------------------------
\* The values of the constants

MCAccountOf == (e1 :> a1) @@ (e2 :> a1) @@ (e3 :> a1)

MCWaIdOf == (e1 :> wa) @@ (e2 :> wa) @@ (e3 :> none)

MCInitialRows == {}

MCInitialCounters == [a \in Account |-> 0]

\* An image under a LID, a text in a group, a status; a reaction to the contact sent by the
\* account that receives, and a video to the group by whichever account may.
MCChat == <<"lid", "group", "status">>

MCBody == <<"image", "text", "text", "reaction", "video">>

MCFrom == (4 :> "receiver") @@ (5 :> "routing")

MCTo == (4 :> "phone") @@ (5 :> "group")

MCAccounts == <<"receiver", "second">>

MCProvider == ("receiver" :> "baileys") @@ ("second" :> "wwebjs-api")

\* What the theorems suppose of the constants holds of these.
ASSUME InstancesFit == IdsDiffer /\ MediaBounds

---------------------------------------------------------------------------
ReadingInit == part \in {"log", "talk", "media"} /\ Init /\ ReaderInit /\ TalkInit /\ MediaInit

ReadingNext ==
    /\ UNCHANGED part
    /\ \/ part = "log" /\ CatchUpNext /\ UNCHANGED <<talkVars, mediaVars>>
       \/ part = "talk" /\ TalkNext /\ UNCHANGED <<allVars, mediaVars>>
       \/ part = "media" /\ MediaNext /\ UNCHANGED <<allVars, talkVars>>

ReadingSpec == ReadingInit /\ [][ReadingNext]_<<allVars, talkVars, mediaVars, part>>
====
