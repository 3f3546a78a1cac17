CONSTANTS
  Searches = {s1, s2, s3}
  CooldownSecs = 2
  MaxClock = 3
  SearchFaults = {"backend", "publish"}

  p0 = p0
  Pages = {p0, p1, p2, p3}
  Root = p0
  Linkings <- MCLinkings
  Depths = {1, 2}
  PageLimits = {2, 4}
  MaxPolls = 2
  AnswerSize = 2
  CrawlFaults = {"page", "job"}

  i1 = i1
  Runs = {r1, r2}
  Ids = {i1, i2}
  Candidates <- MCCandidates
  Polled = {"tavily"}
  MaxAttempts = 1
  ResearchFaults = {"call", "disk", "publish", "crash"}

  e1 = e1
  MaxBuild = 3
  Entries = {e1, e2, e3}
  TagsOf <- MCTagsOf
  SkillOrder <- MCSkillOrder
  Threshold = 2
  SearchLimit = 2
  WatchFaults = {"read", "publish"}

  Bodies <- MCBodies
  MaxBody = 3
  InstallIds = {"x", "y"}
  MaxNotified = 3
  MaxTries = 4
  NtfyFaults = {"curl", "busy", "file"}

  Watched = {k1}
  IdleSecs = 2
  LoopLength = 2
  Signatures = {"x", "y"}
  MaxNow = 2
  MaxSaid = 3
  StallFaults = {"publish"}

  FetchTasks = {t1, t2}
  MaxTrunkRev = 2
  MaxCounts = 4
  FetchFaults = {"fetch", "count", "publish"}

  Writes = {w1, w2}
  Backoffs = 2
  MaxPending = 3
  MaxWriteEnds = 1
  WriteFaults = {"load", "run", "half", "publish", "event"}

  NodeOrder <- MCNodeOrder
  PrPaths = {x, y}
  MaxMerges = 2
  PrSyncFaults = {"publish", "graph"}

  MaxDirs = 2
  MaxEdits = 3
  SkillWatchFaults = {"publish"}

  SkillFiles <- MCSkillFiles
  StemOf <- MCStemOf
  SkillNames = {"a", "b"}
  EvolveFaults = {"read", "adapter"}

  Prs = {q1}
  CiStatuses = {"failure"}
  Faults = {"fetch", "files", "publish", "update", "ci", "denied"}
  MaxRev = 3
  MaxOpened = 1
  MaxCrashes = 2

  Targets <- MCTargets
  StrategyOf <- MCStrategyOf
  UiServer = "ui-server"
  Cron = cron
  Operators = {o1}
  Requests = {u1}
  TouchSets <- MCTouchSets
  Lists <- MCLists
  Edited = {"repo"}
  MaxCommits = 2
  MaxAsks = 3
  MaxDeployFaults = 1
  DeployFaults = {"cli", "bundle", "agent", "swap", "death"}

  Tasks = {t1}
  SessionIds = {s1, s2}
  NoSession = NoSession
  PrRefs = {p1, p2}
  NoPr = NoPr
  CONTINUATION_CAP = 2
  Keys = {k1, k2, k3, k4, k5, k6, k7}

  TrunkNames <- FirstTrunkNames
  NoRef = NoRef
  MaxTrunk = 1
  MaxWork = 1
  MaxFailures = 1

  Pickers = {v1, v2}
  GraphWrites = {g1, g2}
  NoPicker = NoPicker
  MaxLines = 3
  MaxAgain = 1

  a1 = a1
  a2 = a2
  a3 = a3
  Artifacts = {a1, a2, a3}
  KindOf <- MCKindOf
  Blank <- MCBlank
  Callers = {c1, c2}
  ListPage = 1
  ThreadPage = 1
  MaxReviewAsks = 2
  MaxReviewFaults = 1

  GraphTasks = {t1}
  MaxPublished = 4
  MaxCommands = 2
  GraphFaults = {"git", "line"}
SPECIFICATION DaemonsSpec
CHECK_DEADLOCK FALSE
INVARIANTS
  DaemonsTypeOK
  DaemonsSafety
  GraphRestored
  OnlyChangesTold
  ReviewsAccounted
  ActedOncePerCause
  StreamTypeOK
  TerminalOutcome
  ReviewHasPr
PROPERTIES
  CooldownKept
  StatusGraph
  TerminalIsFinal
