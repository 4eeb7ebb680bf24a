---- MODULE Conversations ----
(***************************************************************************)
(* The two ends of a conversation on WhatsApp: what Baileys hands over,    *)
(* its way through the account's queue into the log, and what is sent, by  *)
(* an account that is named or chosen and through its provider, and logged *)
(* afterwards. The queue and the log never fail here: InboundPipeline has  *)
(* that.                                                                   *)
(***************************************************************************)
EXTENDS Integers, SequencesExt

CONSTANTS
    Received,   \* the WhatsApp messages that come to the receiving account
    Chat,       \* the chat of each: "phone", "lid" (the same contact), "group" or "status"
    Body,       \* the content of each
    FromMe,     \* those another device of the account sent
    Request,    \* requests to send; Body has their content too
    From,       \* the account each names, or Routing
    To,         \* the chat each goes to
    Routing,    \* any account that matches the criteria
    Accounts,   \* the accounts that match them, in the order of the repository; the first one receives
    Provider,   \* of each: "baileys", which receives, "wwebjs-api" or "telegram-bot-api"
    MaxTurns,   \* bound: messages that take a turn in the queue, copies included
    MaxFaults   \* bound: saves that fail, payloads that cannot be stored, accounts that change

VARIABLES
    turns,      \* how many took a turn
    queue,      \* envelopes in the queue of the account
    step,       \* what process() awaits for the head
    saved,      \* the rows of the log, in their order
    groupName,  \* the group's entry in groupNameCache
    usable,     \* per account: "active", "suspended", or "offline" (active, but cannot reach WhatsApp)
    request,    \* how far each is
    faults,
    happened,   \* history: messages received with content or sent, in the order of their timestamps
    lookedUp,   \* history: messages of a LID whose phone was found in time
    waits       \* history: waits for the group's name since its entry last ran out

talkVars == <<turns, queue, step, saved, groupName, usable, request, faults, happened, lookedUp, waits>>

Receiver == Head(Accounts)

---------------------------------------------------------------------------
\* Content, as far as the log and the media tell it apart

Downloadable == {"image", "audio", "video", "document", "sticker"}

\* mapMessage: an edit is what it became, and what it does not know a text that says so.
Mapped(body) ==
    CASE body = "edited" -> "text"
      [] body \in Downloadable \union {"location", "contact", "reaction", "poll"} -> body
      [] OTHER -> "text"

\* mapWhatsAppMessageToContent: media are not downloaded yet.
Content(type) == [type |-> type, media |-> IF type \in Downloadable THEN "id" ELSE "none"]

\* What an adapter asks its provider to send: Baileys by kind, wwebjs any media as a media, Telegram
\* by kind but for reactions, and all of them the rest as text.
BaileysMessage(type) ==
    IF type \in (Downloadable \ {"sticker"}) \union {"location", "reaction"} THEN type ELSE "text"

WwebjsBody(type) ==
    CASE type \in Downloadable \ {"sticker"} -> "media" [] type = "location" -> type [] OTHER -> "text"

TelegramCall(type) ==
    IF type \in (Downloadable \ {"sticker"}) \union {"location"} THEN type ELSE "text"

AskedOf(account, type) ==
    CASE Provider[account] = "baileys" -> BaileysMessage(type)
      [] Provider[account] = "wwebjs-api" -> WwebjsBody(type)
      [] OTHER -> TelegramCall(type)

\* outboundContentToMessageContent: a reaction is logged as the text of its emoji.
OutboundContent(type) ==
    CASE type \in Downloadable \ {"sticker"} -> [type |-> type, media |-> "url"]
      [] type = "location" -> [type |-> type, media |-> "none"]
      [] OTHER -> [type |-> "text", media |-> "none"]

---------------------------------------------------------------------------

TalkInit ==
    /\ turns = 0
    /\ queue = <<>> /\ step = "idle"
    /\ saved = <<>>
    /\ groupName = "unknown"
    /\ usable = [a \in ToSet(Accounts) |-> "active"]
    /\ request = [q \in Request |-> [step |-> "new"]]
    /\ faults = 0
    /\ happened = <<>> /\ lookedUp = {} /\ waits = 0

Fault == faults < MaxFaults /\ faults' = faults + 1

Now == Len(happened) + 1

---------------------------------------------------------------------------
\* Receiving

IsInboundUpsert(type) == type \in {"notify", "append"}

IsOurs(m) == m \in FromMe \/ Chat[m] = "status"

\* (slip) a placeholder is a message like any other.
Skipped_Empty(shape) == shape = "empty"

\* baileysInboundSkipReason: a placeholder for what could not be decrypted, or no content.
Skipped(shape) == shape \in {"stub", "empty"}

InboundEnvelope(m, shape) ==
    [message |-> m, waId |-> m, direction |-> "inbound", account |-> Receiver, conversation |-> Chat[m], at |-> Now,
     content |-> Content(IF shape = "content" THEN Mapped(Body[m]) ELSE "text")]

\* An upsert brings a message live, caught up on a reconnect, or for another reason; decrypted
\* or not, once or again. What is not skipped takes its turn at once, before the next message.
Upsert(m, type, shape) ==
    /\ IsInboundUpsert(type) /\ ~IsOurs(m) /\ ~Skipped(shape)
    /\ turns < MaxTurns /\ turns' = turns + 1
    /\ queue' = Append(queue, InboundEnvelope(m, shape))
    /\ happened' = IF Contains(happened, m) THEN happened ELSE Append(happened, m)
    /\ UNCHANGED <<step, saved, groupName, usable, request, faults, lookedUp, waits>>

HeadGoesOn(next) ==
    /\ step' = next
    /\ UNCHANGED <<turns, saved, usable, request, faults, happened>>

\* The rows of the account with that WhatsApp id.
Holds(account, id) == {i \in DOMAIN saved : saved[i].account = account /\ saved[i].waId = id}

\* enrichEnvelope: a LID and a group without a name are looked up, which takes a socket.
TakeTurn ==
    /\ step = "idle" /\ queue # <<>>
    /\ HeadGoesOn(CASE Head(queue).conversation = "lid" -> "lid"
                    [] Head(queue).conversation = "group" /\ groupName = "unknown" -> "group"
                    [] OTHER -> "log")
    /\ waits' = IF step' = "group" THEN waits + 1 ELSE waits
    /\ UNCHANGED <<queue, groupName, lookedUp>>

\* The phone takes the LID's place, if WhatsApp's mapping has it by now and answers in time.
LidAnswers ==
    /\ step = "lid"
    /\ HeadGoesOn("log")
    /\ \/ /\ usable[Receiver] = "active"
          /\ queue' = [queue EXCEPT ![1].conversation = "phone"]
          /\ lookedUp' = IF Holds(Receiver, Head(queue).message) = {} THEN lookedUp \union {Head(queue).message} ELSE lookedUp
       \/ UNCHANGED <<queue, lookedUp>>
    /\ UNCHANGED <<groupName, waits>>

\* A miss is kept as well, for a while.
GroupAnswers ==
    /\ step = "group"
    /\ HeadGoesOn("log")
    /\ groupName' \in IF usable[Receiver] = "active" THEN {"name", "missed"} ELSE {"missed"}
    /\ UNCHANGED <<queue, lookedUp, waits>>

\* GROUP_CACHE_TTL or GROUP_MISS_TTL is over.
GroupRunsOut ==
    /\ groupName # "unknown"
    /\ groupName' = "unknown" /\ waits' = 0
    /\ UNCHANGED <<turns, queue, step, saved, usable, request, faults, happened, lookedUp>>

\* The log takes a WhatsApp message of an account once, whichever way it went.
StoreHead ==
    /\ step = "log"
    /\ saved' = IF Holds(Head(queue).account, Head(queue).waId) = {} THEN Append(saved, Head(queue)) ELSE saved
    /\ queue' = Tail(queue) /\ step' = "idle"
    /\ UNCHANGED <<turns, groupName, usable, request, faults, happened, lookedUp, waits>>

---------------------------------------------------------------------------
\* Sending

Sending(q, state) ==
    /\ request' = [request EXCEPT ![q] = state]
    /\ UNCHANGED <<turns, queue, step, groupName, usable, lookedUp, waits>>

\* findByRoutingRules: the first that matches and is not suspended, connected or not.
Chosen(q) ==
    IF From[q] # Routing THEN {From[q]}
    ELSE LET able == {i \in DOMAIN Accounts : usable[Accounts[i]] # "suspended"}
         IN {Accounts[i] : i \in {k \in able : \A n \in able : k <= n}}

\* Only Baileys sends through a connection of the gateway's own.
Reaches(a) == usable[a] = "active" \/ (usable[a] = "offline" /\ Provider[a] # "baileys")

\* send(): an account that is not active is refused, one without a socket fails.
Send(q) ==
    /\ request[q].step = "new"
    /\ \/ \E a \in Chosen(q) : Reaches(a) /\ Sending(q, [step |-> "sending", account |-> a])
       \/ (\A a \in Chosen(q) : ~Reaches(a)) /\ Sending(q, [step |-> "over"])
    /\ UNCHANGED <<saved, faults, happened>>

\* The provider refuses, or does not answer; nothing tries again.
SendFails(q) ==
    /\ request[q].step = "sending"
    /\ Sending(q, [step |-> "over"])
    /\ UNCHANGED <<saved, faults, happened>>

\* The caller is answered, and the log is left to an event. Only Baileys hands back the payload,
\* which may be beyond storing.
Sent(q) ==
    LET account == request[q].account IN
    /\ request[q].step = "sending"
    /\ \E raw \in BOOLEAN :
           /\ raw => Provider[account] = "baileys"
           /\ IF raw \/ Provider[account] # "baileys" THEN UNCHANGED faults ELSE Fault
           /\ Sending(q, [step |-> "sent", account |-> account, at |-> Now, raw |-> raw, asked |-> AskedOf(account, Body[q])])
    /\ happened' = Append(happened, q)
    /\ UNCHANGED saved

\* With the payload goes the id WhatsApp will ask for.
OutboundRow(q) ==
    [message |-> q, direction |-> "outbound", account |-> request[q].account, conversation |-> To[q], at |-> request[q].at,
     content |-> OutboundContent(Body[q]), waId |-> IF request[q].raw THEN q ELSE 0]

Save(q) ==
    /\ request[q].step = "sent"
    /\ saved' = Append(saved, OutboundRow(q))
    /\ Sending(q, [request[q] EXCEPT !.step = "saved"])
    /\ UNCHANGED <<faults, happened>>

\* What the subscriber cannot store is only logged.
SaveFails(q) ==
    /\ request[q].step = "sent" /\ Fault
    /\ Sending(q, [step |-> "over"])
    /\ UNCHANGED <<saved, happened>>

\* An account is suspended, reactivated, or its connection comes and goes.
Change(a) ==
    /\ Fault
    /\ \E state \in {"active", "suspended", "offline"} \ {usable[a]} : usable' = [usable EXCEPT ![a] = state]
    /\ UNCHANGED <<turns, queue, step, saved, groupName, request, happened, lookedUp, waits>>

TalkNext ==
    \/ \E m \in Received, type \in {"notify", "append", "other"}, shape \in {"stub", "empty", "content"} : Upsert(m, type, shape)
    \/ TakeTurn \/ LidAnswers \/ GroupAnswers \/ GroupRunsOut \/ StoreHead
    \/ \E q \in Request : Send(q) \/ SendFails(q) \/ Sent(q) \/ Save(q) \/ SaveFails(q)
    \/ \E a \in ToSet(Accounts) : Change(a)

TalkSpec == TalkInit /\ [][TalkNext]_talkVars

\* No WhatsApp id is that of a message without one (0), and what is sent is not what comes.
IdsDiffer == 0 \notin Received \union Request /\ Received \intersect Request = {}

---------------------------------------------------------------------------
\* What is read

\* createBaileysMessageLookup: what a socket may have to send again.
Lookup(account, id) == {saved[i].message : i \in Holds(account, id)}

\* ORDER BY timestamp, LIMIT: the newest of some messages, oldest first.
Newest(messages, limit) ==
    LET byTime == SetToSortSeq(messages, LAMBDA r, s : r.at < s.at)
    IN IF Len(byTime) <= limit THEN byTime ELSE SubSeq(byTime, Len(byTime) - limit + 1, Len(byTime))

\* getConversationHistory: the rows of the receiver's conversation.
History(conversation) ==
    {i \in DOMAIN saved : saved[i].account = Receiver /\ saved[i].conversation = conversation}

\* getContext: the newest of them in an assistant's words.
AIMessage(row) ==
    [message |-> row.message, at |-> row.at, role |-> IF row.direction = "outbound" THEN "assistant" ELSE "user"]

Context(conversation, limit) == Newest({AIMessage(saved[i]) : i \in History(conversation)}, limit)

---------------------------------------------------------------------------
\* Properties

Saved(q) == q \in Request /\ request[q].step = "saved"

\* The chat a message belongs to, as far as the gateway can know.
ChatOf(m) == IF m \in Request THEN To[m] ELSE IF m \in lookedUp THEN "phone" ELSE Chat[m]

InThread(m, conversation) ==
    ChatOf(m) = conversation /\ (m \in Received \/ (Saved(m) /\ request[m].account = Receiver))

Thread(conversation) ==
    {[message |-> happened[p], at |-> p, role |-> IF happened[p] \in Request THEN "assistant" ELSE "user"] :
        p \in {n \in DOMAIN happened : InThread(happened[n], conversation)}}

Logged(m) == Holds(Receiver, m) # {}

ReceivedRows == {i \in DOMAIN saved : saved[i].message \in Received}

\* Messages are logged in the order in which they first came with content, each once and
\* with that content, although placeholders come before it, copies after it, and lookups
\* hold up some of them. ("Nothing here may await", baileys/index.ts.)
LoggedInTurn ==
    /\ \A i \in ReceivedRows :
           /\ saved[i].at \in DOMAIN happened /\ happened[saved[i].at] = saved[i].message
           /\ saved[i].content = Content(Mapped(Body[saved[i].message]))
           /\ \A p \in 1 .. saved[i].at : happened[p] \in Received => Logged(happened[p])
    /\ \A i, k \in ReceivedRows : i < k => saved[i].at < saved[k].at
    /\ queue = <<>> => \A p \in DOMAIN happened : happened[p] \in Received => Logged(happened[p])

\* What is logged of a message that was sent is what the provider was asked for, but for a reaction.
LoggedAsSent ==
    \A i \in DOMAIN saved : saved[i].message \in Request =>
        \/ saved[i].content.type = request[saved[i].message].asked
        \/ request[saved[i].message].asked = "reaction"
        \/ request[saved[i].message].asked = "media" /\ saved[i].content.media # "none"

\* Whatever came, was sent and was saved in which order: once the queue is empty the history
\* of a contact is what happened with it, in that order, each in its role, under the phone
\* although some came under a LID; what was sent through Baileys with its payload can be looked
\* up as soon as it is saved; and a group that does not resolve holds the queue up once. ("so
\* conversationId matches outbound", "a burst from it must not wait once per message",
\* baileys/index.ts.)
ThreadIsWhole ==
    /\ LoggedInTurn /\ LoggedAsSent
    /\ queue = <<>> => \A c \in {"phone", "group"}, limit \in 1 .. 2 : Context(c, limit) = Newest(Thread(c), limit)
    /\ \A q \in Request : Saved(q) /\ request[q].raw => Lookup(request[q].account, q) = {q}
    /\ waits <= 1
====
