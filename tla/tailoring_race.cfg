SPECIFICATION FairSpec
CONSTANTS
  c1 = c1
  c2 = c2
  Call = {c1, c2}
  MaxRuns = 1
  MaxFaults = 0
PROPERTIES TransitionsLegal
CHECK_DEADLOCK FALSE
