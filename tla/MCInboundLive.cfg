\* With fairness: a message the store refuses, a plain one, and one no attempt can write.
CONSTANTS
  a1 = a1
  r1 = r1
  r2 = r2
  Account = {a1}
  Message = {1, 2, 3}
  AccountOf <- OneAccount
  WaIdOf <- AllDifferent
  Lid = {}
  Refused = {1}
  Unstorable = {3}
  Recovery = {r1}
  MaxRetries = 1
  MaxFaults <- AllButFile
SPECIFICATION FairSpec
PROPERTIES CircuitCloses FailedLogEmpties QueuesMove
CHECK_DEADLOCK FALSE
