\* Two processes, one fault on one of two tasks; the other must not notice.
CONSTANTS
  t1 = t1
  t2 = t2
  p1 = p1
  p2 = p2
  Tasks <- TwoTasks
  Workers <- TwoWorkers
  MaxAttempts = 2
  MaxFaults = 1
  Losses = TRUE
SPECIFICATION FairSpec
INVARIANTS
  TypeOK
  WorkDoneOncePerFault
  AttemptsExplained
PROPERTIES
  TasksEnd
\* Every task has ended, or is left behind, and no message is under way.
CHECK_DEADLOCK FALSE
