\* Two requests at a time, with checks, timers and lost connections in between, in any order.
CONSTANTS
  s1 = s1
  s2 = s2
  r1 = r1
  r2 = r2
  Socket = {s1, s2}
  Request = {r1, r2}
  NoSocket = none
  Retry = TRUE
  MaxFaults <- Faults
SPECIFICATION FairSpec
INVARIANTS OneSocket SuspendedIsClosed ConnectedIsWired
PROPERTIES ComesBack LostIsReported
CHECK_DEADLOCK FALSE
