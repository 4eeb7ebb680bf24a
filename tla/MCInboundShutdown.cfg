\* One outage and one shutdown.
CONSTANTS
  a1 = a1
  r1 = r1
  r2 = r2
  Account = {a1}
  Message = {1, 2}
  AccountOf <- OneAccount
  WaIdOf <- AllDifferent
  Lid = {}
  Refused = {}
  Unstorable = {}
  Recovery = {r1}
  MaxRetries = 1
  MaxFaults <- OutageAndStop
SPECIFICATION Spec
INVARIANTS ArrivalOrder
CHECK_DEADLOCK FALSE
