CONSTANTS
  Prs = {p1}
  CiStatuses = {"failure"}
  Faults = {"files"}
  MaxRev = 4
  MaxOpened = 1
  MaxCrashes = 0
SPECIFICATION Spec
CHECK_DEADLOCK FALSE
INVARIANTS
  MergeReported
