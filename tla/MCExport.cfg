\* The export of three messages, pages of one and two, with whatever is stored and purged between them.
CONSTANTS
  e1 = e1
  e2 = e2
  Entry = {e1, e2}
  NamesStay = TRUE
  MaxFaults <- OftenEnough
  Account = {"a1", "a2"}
  Envelope <- Envelopes
  AccountOf <- AccountOfEach
  WaIdOf <- WaIdOfEach
  NoWaId = "none"
  InitialRows <- FirstRows
  InitialCounters <- FirstCounters
  BatchSize = 2
  MaxSeq = 4
  MaxClock = 2
  Starter = {"g1", "g2"}
  Scripts = 2
  AccountId = {"a1", "a2"}
  NoWhatsAppId = "none"
  Tables <- LegacyTables
  MaxMishaps = 1
  LastMessage = 3
  OwnerOf <- Owners
  Everyone = "everyone"
  Asked = {1, 9}
  MaxLimit = 2
  MaxInstant = 2
  Channel = {"telegram", "email"}
  NewIdentity <- CreateIdentity
  PutIdentity <- UpdateIdentity
  MaxQueue = 2
  MaxFailures = 1
  MaxTime <- StepTimes
  Total = 10
  MaxLate = 1
SPECIFICATION StorageSpec
INVARIANT OffsetGivesTheRest
CHECK_DEADLOCK FALSE
