SPECIFICATION FairSpec
CONSTANTS
  c1 = c1
  c2 = c2
  Call = {c1, c2}
  MaxRuns = 2
  MaxFaults = 1
INVARIANTS TypeOK ReviewedRunHasDraft RevisionsFollowDrafts PausedSaysWhy
PROPERTIES LegalUnlessOvertaken DraftSettles
CHECK_DEADLOCK FALSE
