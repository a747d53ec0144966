\* Two users, the second with an enforced second factor, three phones, two processes.
SPECIFICATION Spec

CONSTANTS
  u1 = u1
  u2 = u2
  p1 = p1
  p2 = p2
  p3 = p3
  w1 = w1
  w2 = w2
  Users <- TwoUsers
  Enforced <- SecondUser
  Phones <- ThreePhones
  Workers <- TwoWorkers
  MaxRequests = 6
  MaxLinks = 2

SYMMETRY Alike

INVARIANTS
  TypeOK
  EndedIsOver
  SecretIsConfirmed

CHECK_DEADLOCK FALSE
