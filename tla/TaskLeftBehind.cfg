\* One statement fails or one process dies; no message is lost.
CONSTANTS
  t1 = t1
  t2 = t2
  p1 = p1
  p2 = p2
  Tasks <- OneTask
  Workers <- TwoWorkers
  MaxAttempts = 3
  MaxFaults = 1
  Losses = FALSE
SPECIFICATION Spec
INVARIANT ExhaustedMeansEnded
\* The task has ended and no message is under way.
CHECK_DEADLOCK FALSE
