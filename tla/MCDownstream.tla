---- MODULE MCDownstream ----
(***************************************************************************)
(* What follows a message: the webhooks, also of what providers post, the  *)
(* alerts and the live stream. They share neither state nor steps, so a    *)
(* behaviour follows one of them, its part, while the others stay as they  *)
(* began.                                                                  *)
(***************************************************************************)
EXTENDS ConnectionAlerts, LiveStream, WebhookIntake

CONSTANTS c1, c2, u1, u2, w1, w2, a1, a2, s1, s2

VARIABLE part

---------------------------------------------------------------------------
\* The values of the constants

\* The webhook of the second identity takes the second event only.
Subscriptions == [e \in 1..3 |-> IF e = 2 THEN {c1, c2} ELSE {c1}]

\* The sets of accounts an application asks for: all of them, or one.
Filters == {{}, {a1}}

\* What is posted for one account, of any provider: a voice message of wwebjs, a photo and a button
\* of Telegram, and an SMS; a webhook for everything, and one for texts and images that come in.
MCTarget == [u \in 1 .. 4 |-> "a"]

MCRoute == [u \in 1 .. 4 |-> [channel |-> <<"whatsapp", "telegram", "telegram", "sms">>[u], event |-> "inbound"]]

MCPayload ==
    <<[type |-> "ptt"], [kind |-> "message", fields |-> {"photo", "caption"}],
      [kind |-> "callback_query", fields |-> {}], <<>>>>

NoFilter == [include |-> <<>>, exclude |-> <<>>]

TextsAndImages == [fromMe |-> FALSE, include |-> <<"content", "type">> :> {"text", "image"}, exclude |-> <<>>]

MCWebhook ==
    {[events |-> {"inbound", "status"}, filters |-> NoFilter, enabled |-> TRUE],
     [events |-> {"inbound"}, filters |-> TextsAndImages, enabled |-> TRUE]}

MCProviders ==
    {[channel |-> "whatsapp", provider |-> "wwebjs-api"], [channel |-> "whatsapp", provider |-> "baileys"],
     [channel |-> "telegram", provider |-> "telegram-bot-api"], [channel |-> "sms", provider |-> "twilio"]}

---------------------------------------------------------------------------
webVars == <<configVars, forwarderVars, alertVars>>

vars == <<webVars, liveVars, intakeVars, part>>

\* Alerts are followed for an account without webhooks, or with one.
NoWebhook == configs = <<>>
OneWebhook == DOMAIN configs = {c1} /\ configs[c1] = [url |-> u2, enabled |-> TRUE]

Init ==
    /\ part \in {"configurations", "webhooks", "alerts", "live", "intake"}
    /\ ConfigInit /\ ForwarderInit /\ AlertInit
    /\ LiveInit /\ IntakeInit
    /\ part \notin {"configurations", "webhooks"} => NoWebhook \/ (part = "alerts" /\ OneWebhook)
    /\ part # "live" => client.subscriptions = {} /\ client.pings
    /\ part # "intake" => webhooks["a"] = {} /\ accounts["a"].channel = "sms"

Next ==
    /\ UNCHANGED part
    /\ \/ /\ part = "configurations" /\ ConfigNext
          /\ UNCHANGED <<forwarderVars, alertVars, liveVars, intakeVars>>
       \/ /\ part = "webhooks" /\ ForwarderNext
          /\ UNCHANGED <<alertVars, liveVars, intakeVars>>
       \/ /\ part = "alerts" /\ AlertNext
          /\ UNCHANGED <<liveVars, intakeVars>>
       \/ /\ part = "live" /\ LiveNext
          /\ UNCHANGED <<webVars, intakeVars>>
       \/ /\ part = "intake" /\ IntakeNext
          /\ UNCHANGED <<webVars, liveVars>>

\* Nothing that fairness is about is enabled in a part that stays as it began.
Spec ==
    /\ Init /\ [][Next]_vars
    /\ AlertFairness
    /\ LiveFairness
====
