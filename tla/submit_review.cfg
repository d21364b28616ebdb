SPECIFICATION Spec
CONSTANTS
  c1 = c1
  c2 = c2
  Call = {c1, c2}
  MaxRevision = 3
  MaxFaults = 1
SYMMETRY Symmetry
INVARIANTS TypeOK ReviewedIsCurrent CountersCurrent
PROPERTIES LegalUnlessOvertaken SubmissionHasPacket
CHECK_DEADLOCK FALSE
