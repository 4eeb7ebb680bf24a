\* Two changes of the account at a time, and what goes on meanwhile.
CONSTANTS
  s1 = s1
  s2 = s2
  r1 = r1
  r2 = r2
  Socket = {s1, s2}
  Request = {r1, r2}
  NoSocket = none
  Retry = TRUE
  MaxFaults <- Faults
SPECIFICATION Spec
INVARIANTS SuspendedStaysClosed
CHECK_DEADLOCK FALSE
