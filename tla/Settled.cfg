CONSTANTS
  Pickers = {s1}
  PickerFaults = {"launch", "disk"}
  MaxDeaths = 1

  Messages = {"a", "b"}
  ModeOf <- MCModeOf
  StatusFaults = {"status"}

  PatchServices = {a, b}
  MaxVersion = 2
  MaxStaged = 2
  MaxAsked = 1
  MaxAgentDeaths = 0
  PatchFaults = {"install", "health", "swap", "drain"}

  Events = {"exited", "failed"}
  EndEvents = {"exited"}
  GroupOf <- MCGroupOf
  SessionOf <- MCSessionOf
  GroupOrder <- MCGroupOrder
  NoEvent = NoEvent
  JournalFaults = {"write", "newline"}
  MaxFalls = 1
  MaxRebuilds = 0

  Callers = {m1, m2}
  MaxFacts = 2
  MaxCalls = 2

  Prs = {p1}
  CiStatuses = {"failure"}
  Faults = {"update", "ci", "denied"}
  MaxRev = 3
  MaxOpened = 1
  MaxCrashes = 2

  i1 = i1
  Runs = {r1}
  Ids = {i1}
  Candidates <- MCCandidates
  Polled = {"tavily"}
  MaxAttempts = 1
  ResearchFaults = {"call", "disk", "publish"}
SPECIFICATION SettledSpec
CHECK_DEADLOCK FALSE
PROPERTIES
  EndIsTold
  PendingEnds
  PatchSettles
  EventReachesDisk
  SnapshotCatchesUp
  MergeSettled
  ResearchEnds
