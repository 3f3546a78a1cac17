CONSTANTS
  t1 = t1
  task = t1
  Tasks = {t1}
  SessionIds = {s1, s2}
  OperatorSessions = {}
  NoSession = NoSession
  PrRefs = {p1}
  NoPr = NoPr
  PollTraces = {x1}
  CONTINUATION_CAP = 2
  Keys <- MCKeys
  Workers = 2
  Faults = {}
  MaxCrashes = 0
  MaxBacklog = 2
SPECIFICATION RunSpec
CHECK_DEADLOCK FALSE
INVARIANTS
  ResumeNeedsOnlyTask
