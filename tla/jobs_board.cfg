CONSTANTS
  Run = {r1, r2, r3}
  Key = {k1}
  Posting = {p1}
  Starter = {s1, s2}
  RecordsOf <- Records
  Verdicts <- Decisions
  Answers = {"live", "dead"}
  MaxJobs = 2
  MaxApplications = 2
  r1 = r1
  r2 = r2
  r3 = r3
  s1 = s1
  s2 = s2
  p1 = p1
SPECIFICATION MCSpec
CHECK_DEADLOCK FALSE
INVARIANTS TypeOK UserDecisionStands OneJobPerPosting KeyOnce EndedRunsAreWhole MovesAreExplained StartedOnce
