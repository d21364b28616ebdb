SPECIFICATION RetrySpec
CONSTANTS
  w1 = w1
  w2 = w2
  l1 = l1
  l2 = l2
  c1 = c1
  c2 = c2
  Application = {"a1"}
  Client = {c1}
  Worker = {w1}
  Label = {l1}
  LabelOf <- SingleWorker
  OnceWorker = {}
  NoLabel = NoLabel
  NoApplication = NoApplication
  HeartbeatFresh = 1
  StaleQueued = 1
  StaleProcessing = 1
  TimelyPolling = TRUE
  MaxTasks = 2
  MaxFaults = 1
PROPERTIES OrphanIsReplaced
