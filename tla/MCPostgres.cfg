\* Two accounts, a counter behind its row, lost connections and retention, with fairness.
CONSTANTS
  a1 = a1
  a2 = a2
  e1 = e1
  e2 = e2
  e3 = e3
  e4 = e4
  f1 = f1
  c1 = c1
  c2 = c2
  c3 = c3
  wa = wa
  none = none
  Account = {a1, a2}
  Envelope = {e1, e2, e3, f1}
  Connection = {c1, c2}
  AccountOf <- MCAccountOf
  WaIdOf <- MCWaIdOf
  NoWaId = none
  InitialRows <- StoredRow
  InitialCounters <- NoCounters
  RetentionOn = TRUE
  MaxSeq = 3
  MaxClock = 1
SPECIFICATION FairSpec
INVARIANTS TypeOK Unique GapFree NeverRefused
PROPERTIES ReusedOnlyWhenEmptied ImplementsMessageLog EveryInsertEnds
CHECK_DEADLOCK FALSE
