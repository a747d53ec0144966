\* One request at a time per device; calls fail and the process dies.
CONSTANTS
  d1 = d1
  d2 = d2
  d3 = d3
  r1 = r1
  r2 = r2
  Devices <- ThreeDevices
  Requests <- TwoRequests
  LastIp = 2
  MaxKeys = 3
  MaxFaults = 2
  CreateFirst = TRUE
  SerialDevices = TRUE
SPECIFICATION Spec
SYMMETRY Symmetry
INVARIANTS TypeOK RoutedKeyIsCurrent RepliesAreTrue NoForeignRoute
PROPERTY ImplementsRegistry
CHECK_DEADLOCK FALSE
