\* One part at a time. Retention on, counters where they belong.
CONSTANTS
  a1 = a1
  e1 = e1
  e2 = e2
  e3 = e3
  c1 = c1
  c2 = c2
  wa = wa
  none = none
  Account = {a1}
  Envelope = {e1, e2, e3}
  Connection = {c1, c2}
  AccountOf <- MCAccountOf
  WaIdOf <- MCWaIdOf
  NoWaId = none
  InitialRows <- MCInitialRows
  InitialCounters <- MCInitialCounters
  RetentionOn = TRUE
  MaxSeq = 2
  MaxClock = 1
  Watched = a1
  PageLimit = 1
  Received = {1, 2, 3}
  Chat <- MCChat
  Body <- MCBody
  FromMe = {}
  Request = {4, 5}
  From <- MCFrom
  To <- MCTo
  Routing = "routing"
  Accounts <- MCAccounts
  Provider <- MCProvider
  MaxTurns = 3
  MaxFaults = 1
  LastMedia = 2
  Job = {"j1", "j2"}
  Concurrency = 1
  Retries = 1
  BatchSize = 1
  Unrestorable = {2}
SPECIFICATION ReadingSpec
INVARIANTS NothingSkipped AnswerExplainsItself ThreadIsWhole ReadyIsServed PendingIsRemembered
CHECK_DEADLOCK FALSE
