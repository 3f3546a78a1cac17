CONSTANTS
  r1 = r1
  r2 = r2
  Creates = {q1, q2}
  Repos = {r1, r2}
  OriginRepos = {r1}
  ProjectOf <- MCProjectOf
  Window = 2
  MaxRestarts = 1
  TreeFaults = {"fetch", "resolve", "prepare", "publish"}

  Pickers = {s1, s2}
  PickerFaults = {"launch", "publish", "disk", "signal"}
  MaxDeaths = 1

  Messages = {"a", "b"}
  ModeOf <- MCModeOf
  StatusFaults = {"status"}

  Successive = 2
  MaxLines = 1

  OpenCalls = {o1, o2}
  MaxCommits = 2
  MaxPulls = 2
  CommandFaults = {"refused", "timeout", "publish"}

  PatchServices = {a, b}
  MaxVersion = 2
  MaxStaged = 3
  MaxAsked = 1
  MaxAgentDeaths = 1
  PatchFaults = {"install", "health", "swap", "drain", "publish"}

  ToolCalls = {k1, k2}
  MaxSwaps = 2
  RoutingFaults = {"refresh", "drain"}

  Events = {"exited", "failed"}
  EndEvents = {"exited"}
  GroupOf <- MCGroupOf
  SessionOf <- MCSessionOf
  GroupOrder <- MCGroupOrder
  NoEvent = NoEvent
  JournalFaults = {"write", "newline"}
  MaxFalls = 1
  MaxRebuilds = 2

  Toggles = {t1, t2}
  Spawns = {c1, w1}
  FromWeb = {w1}
  DispatchFaults = {"put"}

  Callers = {m1, m2}
  MaxFacts = 2
  MaxCalls = 4

  QuotaLimit = 3
  Cadence = 2
  Multiplier = 150
  MonthlyCap = 5
  CostPerUse = 2
  MaxEntries = 4
  MaxTicks = 4
SPECIFICATION ServicesSpec
CHECK_DEADLOCK FALSE
INVARIANTS
  ServicesTypeOK
  PreparedWhenAnswered
  PickerSafety
  PickerIoSafety
  PullSafety
  RouteHasProcess
  RoutedSafety
  JournalSafety
  ReadersSafety
PROPERTIES
  ServicesSteps
