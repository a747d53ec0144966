\* One process and one user; a fault in between, or none.
SPECIFICATION Spec

CONSTANTS
  w1 = w1
  w2 = w2
  Users <- OneUser
  Workers <- OneWorker
  MaxRequests = 3
  MaxEvents = 1

INVARIANT OneDevicePerUser

CHECK_DEADLOCK FALSE
