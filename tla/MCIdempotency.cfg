SPECIFICATION FairSpec
CONSTANTS
  k1 = k1
  k2 = k2
  r1 = r1
  r2 = r2
  r3 = r3
  r4 = r4
  r5 = r5
  Requests = {r1, r2, r3, r4, r5}
  Keys = {k1, k2}
  KeyOf <- KeysOfRequests
  Transactional = {k2}
  None = None
  MaxFaults = 1
  MaxExpiries = 1
CHECK_DEADLOCK FALSE
INVARIANTS
  TypeOK
  ExecutionClosesTheKey
  TransactionalIsExactlyOnce
  OneWinnerPerLapse
PROPERTIES
  ReservationsEnd
