SPECIFICATION Spec
CONSTANTS
  c1 = c1
  c2 = c2
  Call = {c1}
  MaxRevision = 3
  MaxFaults = 0
INVARIANTS ReviewHasPacket
CHECK_DEADLOCK FALSE
