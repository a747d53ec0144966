\* Clients that send one request at a time and finish within the lock's TTL.
CONSTANTS
  u1 = u1
  u2 = u2
  w1 = w1
  w2 = w2
  unit1 = unit1
  Users <- TwoUsers
  Workers <- TwoWorkers
  Units <- OneUnit
  Directions <- OneDirection
  MaxAttempts = 2
  MaxRequests = 5
  SerialClients = TRUE
  TtlCoversCreate = TRUE
SPECIFICATION FairSpec
INVARIANTS TypeOK AtMostOneActive NoWaitCycle NoticesAndUnitsCommitted
PROPERTIES LiveLockLeavesWithItsUser EveryRequestEnds
CHECK_DEADLOCK FALSE
