\* Two webhooks and two destinations, queues of one besides what is being posted, three
\* events; two accounts, two connections, one fault.
CONSTANTS
  c1 = c1
  c2 = c2
  u1 = u1
  u2 = u2
  w1 = w1
  w2 = w2
  a1 = a1
  a2 = a2
  s1 = s1
  s2 = s2
  Config = {c1, c2}
  Url = {u1, u2}
  Writer = {w1, w2}
  GlobalUrl = u1
  LastEvent = 3
  Subscribed <- Subscriptions
  Unserializable = {}
  Capacity = 1
  AlertUrl = u1
  Listening = {c1}
  Account = {a1, a2}
  Asked <- Filters
  Socket = {s1, s2}
  NoSocket = none
  AutoReconnect = TRUE
  MaxFrames = 1
  MaxFaults = 1
  Incoming = {1, 2, 3, 4}
  ChannelAccount = {"a"}
  Target <- MCTarget
  Route <- MCRoute
  Payload <- MCPayload
  Webhook <- MCWebhook
  Global = TRUE
  Providers <- MCProviders
  MaxPosts = 2
  MaxChanges = 1
SPECIFICATION Spec
INVARIANTS SavedWhenQuiet AlertsKeepUp OneConnection FiltersAgree AcceptedIsForwarded
PROPERTIES InOrder LostIsTold MissedIsNoticed Reconnects
CHECK_DEADLOCK FALSE
