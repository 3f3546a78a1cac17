CONSTANTS
  t1 = t1
  task = t1
  Tasks = {t1}
  SessionIds = {s1, s2, s3}
  OperatorSessions = {s3}
  NoSession = NoSession
  PrRefs = {p1}
  NoPr = NoPr
  PollTraces = {}
  CONTINUATION_CAP = 2
  Keys <- MCKeys
  Workers = 2
  Faults = {}
  MaxCrashes = 0
  MaxBacklog = 2
SPECIFICATION FairRunSpec
CHECK_DEADLOCK FALSE
PROPERTIES
  ExitIsSettled
