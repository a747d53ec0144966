\* A client that repeats its create request while the first is in flight.
CONSTANTS
  u1 = u1
  u2 = u2
  w1 = w1
  w2 = w2
  unit1 = unit1
  Users <- TwoUsers
  Workers <- TwoWorkers
  Units <- OneUnit
  Directions <- OneDirection
  MaxAttempts = 2
  MaxRequests = 4
  SerialClients = FALSE
  TtlCoversCreate = TRUE
SPECIFICATION Spec
INVARIANT AtMostOneActive
CHECK_DEADLOCK FALSE
