SPECIFICATION Spec
CONSTANTS
  c1 = c1
  c2 = c2
  w1 = w1
  w2 = w2
  Web = {c1}
  Operator = {}
  Worker = {w1}
  MovesTo = {"paused", "applying"}
  MaxVersions = 2
  MaxTasks = 2
  MaxKeys = 1
  MaxPortals = 1
  MaxChanges = 2
CHECK_DEADLOCK FALSE
INVARIANTS StaysAttached
