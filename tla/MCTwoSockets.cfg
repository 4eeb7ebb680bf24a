\* A logout, and what reaches the account while it is waited for.
CONSTANTS
  s1 = s1
  s2 = s2
  r1 = r1
  r2 = r2
  Socket = {s1, s2}
  Request = {r1, r2}
  NoSocket = none
  Retry = TRUE
  MaxFaults <- Faults
SPECIFICATION Spec
INVARIANTS NeverTwoSockets
CHECK_DEADLOCK FALSE
