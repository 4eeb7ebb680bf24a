\* Two messages and the first once more; the second came from a LID. Any three of five faults.
CONSTANTS
  a1 = a1
  r1 = r1
  r2 = r2
  Account = {a1}
  Message = {1, 2, 3}
  AccountOf <- OneAccount
  WaIdOf <- Redelivered
  Lid = {2}
  Refused = {}
  Unstorable = {}
  Recovery = {r1, r2}
  MaxRetries = 1
  MaxFaults <- AnyThree
SYMMETRY RecoveriesAlike
SPECIFICATION Spec
INVARIANTS TypeOK NothingLost OrderButForLate NumberedEventsAreStored
CHECK_DEADLOCK FALSE
