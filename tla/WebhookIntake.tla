---- MODULE WebhookIntake ----
(***************************************************************************)
(* What providers post to /webhooks for an account: the controller looks   *)
(* the account up, makes an envelope of the payload where the provider has *)
(* an adapter, hands it to the account's webhooks that subscribe to it, or *)
(* to the global one, and answers. What is not answered with 200 may be    *)
(* posted again.                                                           *)
(***************************************************************************)
EXTENDS Integers, TLC, SequencesExt

CONSTANTS
    Incoming,    \* what providers have to post
    Route,       \* of each, the path it is posted to: [channel |-> c, event |-> "inbound" or "status"]
    Target,      \* the account in that path
    Payload,     \* its body: the type of a wwebjs message, the kind and fields of a Telegram update
    ChannelAccount,
    Webhook,     \* the webhooks an account may have: [events, filters, enabled]
    Global,      \* whether there is a WEBHOOK_CALLBACK_URL
    Providers,   \* the accounts there may be: [channel, provider]
    MaxPosts,    \* bound: posts of an update
    MaxChanges   \* bound: accounts and webhooks created, changed or deleted, answers lost, and restarts

VARIABLES
    accounts,   \* the account behind each id, or NoAccount
    webhooks,   \* per id, the webhooks it has: deleting the account leaves them
    post,       \* how far the handler of each update is
    answer,     \* what its provider has seen of it
    posts, changes,
    handed,     \* history: what was enqueued, in order
    accepted    \* history: how often each was answered with 200, whether the answer arrived or not

intakeVars == <<accounts, webhooks, post, answer, posts, changes, handed, accepted>>

NoAccount == [channel |-> "none", provider |-> "none"]

NotPosted == [step |-> "none"]

IntakeInit ==
    /\ accounts \in [ChannelAccount -> Providers]
    /\ webhooks \in [ChannelAccount -> {{}} \union {{w} : w \in Webhook}]
    /\ post = [u \in Incoming |-> NotPosted]
    /\ answer = [u \in Incoming |-> "none"]
    /\ posts = [u \in Incoming |-> 0] /\ changes = 0
    /\ handed = <<>>
    /\ accepted = [u \in Incoming |-> 0]

---------------------------------------------------------------------------
\* What an adapter makes of a payload

\* The registry's bundles: Baileys receives by itself, SMS and email have no adapter.
HasConnection(provider) == provider = "baileys"

HasInboundAdapter(provider) == provider \in {"baileys", "wwebjs-api", "telegram-bot-api"}

\* mapMessage of wwebjs.mapper.ts.
WwebjsMessage(type) ==
    CASE type \in {"image", "video", "document", "sticker", "reaction"} -> type
      [] type \in {"ptt", "audio"} -> "audio"
      [] type \in {"location", "live_location"} -> "location"
      [] type \in {"vcard", "multi_vcard"} -> "contact"
      [] type \in {"e2e_notification", "notification", "notification_template", "gp2"} -> "system"
      [] type = "call_log" -> "call"
      [] OTHER -> "text"

\* mapWhatsAppMessageToContent has no content for a call.
WhatsAppContent(type) == IF type = "call" THEN "unknown" ELSE type

\* What a message of an update may carry, in the order mapTelegramMessageToContent looks for it.
TelegramFields == <<"text", "photo", "audio", "voice", "video", "document", "sticker", "location", "contact">>

TelegramContent(fields) ==
    LET found == SelectSeq(TelegramFields, LAMBDA f : f \in fields) IN
    CASE found = <<>> -> "unknown"
      [] found # <<>> /\ Head(found) = "photo" -> "image"
      [] found # <<>> /\ Head(found) = "voice" -> "audio"
      [] OTHER -> Head(found)

TelegramKinds == {"message", "edited_message", "channel_post", "edited_channel_post"}

\* parseIncoming throws for a wwebjs payload without an id and an update without a message.
Parses(provider, payload) ==
    IF provider = "wwebjs-api" THEN payload.type # "none" ELSE payload.kind \in TelegramKinds

ContentOf(provider, payload) ==
    IF provider = "wwebjs-api" THEN WhatsAppContent(WwebjsMessage(payload.type)) ELSE TelegramContent(payload.fields)

\* What the filters look at: per path, its values. A raw body has none of the paths of an envelope.
EnvelopeOf(account, content) ==
    (<<"direction">> :> {"inbound"}) @@ (<<"channel">> :> {account.channel}) @@ (<<"content", "type">> :> {content})

\* The body of a status, of an SMS or an email, forwarded as it came.
RawBody == <<>>

---------------------------------------------------------------------------
\* matchesFilter

MaxFilterDepth == 5

Value(data, path) == IF Len(path) <= MaxFilterDepth /\ path \in DOMAIN data THEN data[path] ELSE {}

MatchesFilter(data, filter) ==
    /\ "fromMe" \in DOMAIN filter => filter.fromMe = (Value(data, <<"direction">>) = {"outbound"})
    /\ \A path \in DOMAIN filter.include : Value(data, path) \intersect filter.include[path] # {}
    /\ \A path \in DOMAIN filter.exclude : Value(data, path) \intersect filter.exclude[path] = {}

---------------------------------------------------------------------------
\* The handlers

Post(u) ==
    /\ post[u].step = "none" /\ answer[u] # "ok" /\ posts[u] < MaxPosts
    /\ posts' = [posts EXCEPT ![u] = @ + 1]
    /\ post' = [post EXCEPT ![u] = [step |-> "posted"]]
    /\ answer' = [answer EXCEPT ![u] = "none"]
    /\ UNCHANGED <<accounts, webhooks, changes, handed, accepted>>

\* The answer may get lost.
Responds(u, status) ==
    /\ accepted' = IF status = "ok" THEN [accepted EXCEPT ![u] = @ + 1] ELSE accepted
    /\ \/ answer' = [answer EXCEPT ![u] = status] /\ UNCHANGED changes
       \/ answer' = [answer EXCEPT ![u] = "lost"] /\ changes < MaxChanges /\ changes' = changes + 1

Rejects(u) ==
    /\ Responds(u, "refused")
    /\ post' = [post EXCEPT ![u] = NotPosted]
    /\ UNCHANGED handed

Forwards(u, account, standard, data) ==
    /\ post' = [post EXCEPT ![u] = [step |-> "forwarding", account |-> account, standard |-> standard, data |-> data]]
    /\ UNCHANGED <<answer, changes, handed, accepted>>

\* A message of another channel than the path's is refused, a status is taken from any account.
Takes(account, route) ==
    /\ account # NoAccount
    /\ route.event = "inbound" => account.channel = route.channel
    /\ route.event = "inbound" /\ route.channel = "whatsapp" => ~HasConnection(account.provider)
    /\ route.event = "inbound" /\ route.channel \in {"whatsapp", "telegram"} => HasInboundAdapter(account.provider)

\* Messages of WhatsApp and Telegram become envelopes, anything else goes on as it came.
Handle(u) ==
    LET account == accounts[Target[u]]
        adapted == Route[u].event = "inbound" /\ Route[u].channel \in {"whatsapp", "telegram"}
    IN
    /\ post[u].step = "posted"
    /\ IF ~Takes(account, Route[u]) THEN Rejects(u)
       ELSE IF ~adapted THEN Forwards(u, account, FALSE, RawBody)
       ELSE IF Parses(account.provider, Payload[u])
       THEN Forwards(u, account, TRUE, EnvelopeOf(account, ContentOf(account.provider, Payload[u])))
       ELSE Rejects(u)
    /\ UNCHANGED <<accounts, webhooks, posts>>

\* forwardRaw: the webhooks that match, or the global one when none does.
Matching(u, data) ==
    {w \in webhooks[Target[u]] :
        /\ w.enabled
        /\ Route[u].event \in w.events
        /\ Route[u].event = "inbound" => MatchesFilter(data, w.filters)}

Destinations(u, data) ==
    IF Matching(u, data) # {} THEN Matching(u, data) ELSE IF Global THEN {"global"} ELSE {}

Delivery(u) ==
    [update |-> u, account |-> post[u].account, standard |-> post[u].standard,
     to |-> Destinations(u, post[u].data)]

\* (slip) the caller is answered without waiting for the webhooks to be looked up.
Enqueues_Unawaited(u) ==
    \/ /\ post[u].step = "forwarding" /\ Responds(u, "ok")
       /\ post' = [post EXCEPT ![u].step = "answered"]
       /\ UNCHANGED <<accounts, webhooks, posts, handed>>
    \/ /\ post[u].step = "answered"
       /\ handed' = Append(handed, Delivery(u))
       /\ post' = [post EXCEPT ![u] = NotPosted]
       /\ UNCHANGED <<accounts, webhooks, posts, answer, changes, accepted>>

\* forward() enqueues and never waits for a webhook; the answer follows.
Enqueues(u) ==
    /\ post[u].step = "forwarding"
    /\ handed' = Append(handed, Delivery(u))
    /\ Responds(u, "ok")
    /\ post' = [post EXCEPT ![u] = NotPosted]
    /\ UNCHANGED <<accounts, webhooks, posts>>

---------------------------------------------------------------------------
\* What happens meanwhile

Changes == changes < MaxChanges /\ changes' = changes + 1

\* An account is deleted, or created with the id of one that was.
ChangeAccount(a) ==
    /\ Changes
    /\ \E account \in IF accounts[a] = NoAccount THEN Providers ELSE {NoAccount} :
           accounts' = [accounts EXCEPT ![a] = account]
    /\ UNCHANGED <<webhooks, post, answer, posts, handed, accepted>>

ChangeWebhooks(a) ==
    /\ Changes
    /\ \E ws \in SUBSET Webhook : webhooks' = [webhooks EXCEPT ![a] = ws]
    /\ UNCHANGED <<accounts, post, answer, posts, handed, accepted>>

\* Requests in progress are never answered.
Restart ==
    /\ Changes
    /\ post' = [u \in Incoming |-> NotPosted]
    /\ UNCHANGED <<accounts, webhooks, answer, posts, handed, accepted>>

IntakeNext ==
    \/ \E u \in Incoming : Post(u) \/ Handle(u) \/ Enqueues(u)
    \/ \E a \in ChannelAccount : ChangeAccount(a) \/ ChangeWebhooks(a)
    \/ Restart

IntakeSpec == IntakeInit /\ [][IntakeNext]_intakeVars

---------------------------------------------------------------------------
\* Properties

HandedOver(u) == {i \in DOMAIN handed : handed[i].update = u}

\* Whatever is deleted, changed or restarted in between, an update that was answered with 200
\* has been handed over, once for each time it was; one that no adapter understands never is,
\* and the provider of one that was accepted has no reason to post it again unless the answer
\* got lost. ("await deps.webhookForwarder.forward(envelope)" before the answer.)
AcceptedIsForwarded ==
    \A u \in Incoming :
        /\ Cardinality(HandedOver(u)) = accepted[u]
        /\ answer[u] = "ok" => accepted[u] >= 1
        /\ \A i \in HandedOver(u) :
               LET d == handed[i] IN
               /\ d.account # NoAccount
               /\ d.standard => Parses(d.account.provider, Payload[u])

\* Every inbound message, regardless of platform, arrives in the standardized format.
ArrivesStandardized == \A i \in DOMAIN handed : Route[handed[i].update].event = "inbound" => handed[i].standard
====
