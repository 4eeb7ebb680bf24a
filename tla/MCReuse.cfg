\* Retention cuts in between a conflicting INSERT and the SELECT after it.
CONSTANTS
  a1 = a1
  a2 = a2
  e1 = e1
  e2 = e2
  e3 = e3
  e4 = e4
  f1 = f1
  c1 = c1
  c2 = c2
  c3 = c3
  wa = wa
  none = none
  Account = {a1, a2}
  Envelope = {e1, e2}
  Connection = {c1, c2}
  AccountOf <- MCAccountOf
  WaIdOf <- MCWaIdOf
  NoWaId = none
  InitialRows <- NoRows
  InitialCounters <- NoCounters
  RetentionOn = TRUE
  MaxSeq = 3
  MaxClock = 1
SPECIFICATION Spec
PROPERTIES NumbersNeverReused
CHECK_DEADLOCK FALSE
