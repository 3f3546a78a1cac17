CONSTANTS
  TrunkNames <- FirstTrunkNames
  NoRef = NoRef
  MaxTrunk = 1
  MaxWork = 0
  MaxFailures = 0
SPECIFICATION PreCheckSpec
CHECK_DEADLOCK FALSE
INVARIANT
  ReadyHasCommits
