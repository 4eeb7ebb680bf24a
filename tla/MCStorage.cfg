\* One part at a time. Of the failed log two entries; save fails once, the disk twice, a kill and a power
\* cut. Of the rest two accounts, two gateways that start, three messages, two changes of an account that
\* wait, and one failure each.
CONSTANTS
  e1 = e1
  e2 = e2
  Entry = {e1, e2}
  NamesStay = TRUE
  MaxFaults <- OftenEnough
  Account = {"a1", "a2"}
  Envelope <- Envelopes
  AccountOf <- AccountOfEach
  WaIdOf <- WaIdOfEach
  NoWaId = "none"
  InitialRows <- FirstRows
  InitialCounters <- FirstCounters
  BatchSize = 2
  MaxSeq = 4
  MaxClock = 2
  Starter = {"g1", "g2"}
  Scripts = 2
  AccountId = {"a1", "a2"}
  NoWhatsAppId = "none"
  Tables <- LegacyTables
  MaxMishaps = 1
  LastMessage = 3
  OwnerOf <- Owners
  Everyone = "everyone"
  Asked = {1, 9}
  MaxLimit = 2
  MaxInstant = 2
  Channel = {"telegram", "email"}
  NewIdentity <- CreateIdentity
  PutIdentity <- UpdateIdentity
  MaxQueue = 2
  MaxFailures = 1
  MaxTime <- StepTimes
  Total = 10
  MaxLate = 1
SPECIFICATION StorageSpec
INVARIANTS UpgradeIsSound ExportsAll MemoryIsNextStart ShutdownIsOrderly
PROPERTIES ImplementsFailedLog EntriesGetOut SqliteImplementsMessageLog
CHECK_DEADLOCK FALSE
