\* A revocation that overlaps a rotation; nothing fails.
CONSTANTS
  d1 = d1
  d2 = d2
  d3 = d3
  r1 = r1
  r2 = r2
  Devices <- TwoDevices
  Requests <- TwoRequests
  LastIp = 2
  MaxKeys = 2
  MaxFaults = 0
  CreateFirst = TRUE
  SerialDevices = FALSE
SPECIFICATION Spec
SYMMETRY Symmetry
INVARIANT RevokeRemovesPeer
CHECK_DEADLOCK FALSE
