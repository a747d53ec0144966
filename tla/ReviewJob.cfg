\* Two overlapping runs of the job, a lead, two inspections.
CONSTANTS
  i1 = i1
  i2 = i2
  lead1 = lead1
  admin = admin
  beat = beat
  http = http
  Inspections <- TwoInspections
  Leads <- OneLead
  JobActor = admin
  Jobs <- TwoRuns
  MaxDecisions = 1
  MaxFaults = 1
SPECIFICATION FairSpec
INVARIANTS TypeOK HistoryExplainsRow LogCountsApprovals
PROPERTIES ImplementsLedger 
CHECK_DEADLOCK FALSE
