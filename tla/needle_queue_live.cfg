SPECIFICATION FairSpec
CONSTANTS
  w1 = w1
  w2 = w2
  l1 = l1
  l2 = l2
  c1 = c1
  c2 = c2
  Application = {"a1", "a2"}
  Client = {c1}
  Worker = {w1, w2}
  Label = {l1}
  LabelOf <- SharedLabel
  OnceWorker = {w2}
  NoLabel = NoLabel
  NoApplication = NoApplication
  HeartbeatFresh = 0
  StaleQueued = 1
  StaleProcessing = 1
  TimelyPolling = FALSE
  MaxTasks = 2
  MaxFaults = 1
PROPERTIES QueuedLeavesQueue ProcessingSettles
