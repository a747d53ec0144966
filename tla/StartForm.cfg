\* One operator's form: three visits, one restart, one kind of trouble (as often as it likes).
SPECIFICATION FairSpec

CONSTANTS
  MaxVisits = 3
  MaxEpochs = 2
  MaxCalls = 3
  MaxEvents = 1

INVARIANTS
  TypeOK
  ReadyHoldsLock
  NoLockLeftBehind
  OneInspection
  OldAnswersStayOut

PROPERTIES
  SpinnersEnd

CHECK_DEADLOCK FALSE
