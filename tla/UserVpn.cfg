\* Two processes, two users: overlapping requests, two kinds of trouble.
SPECIFICATION Spec

CONSTANTS
  w1 = w1
  w2 = w2
  Users <- TwoUsers
  Workers <- TwoWorkers
  MaxRequests = 3
  MaxEvents = 2

INVARIANTS
  TypeOK
  LastMailWorks
  TemporaryMustChange

PROPERTIES
  NamesGoWithReason
  JobKeepsWelcomed

SYMMETRY AnyWorker

CHECK_DEADLOCK FALSE
