CONSTANTS
  t1 = t1
  s1 = s1
  s2 = s2
  p1 = p1
  kRequested = kRequested
  kSpawned = kSpawned
  kOpened = kOpened
  kContinue = kContinue
  kExited = kExited
  kSpawned2 = kSpawned2
  Tasks = {t1}
  SessionIds = {s1, s2}
  NoSession = NoSession
  PrRefs = {p1}
  NoPr = NoPr
  CONTINUATION_CAP = 2
  Keys = {kRequested, kSpawned, kOpened, kContinue, kExited, kSpawned2}
  Journal <- MCJournal
  Procs = {d1, d2}
  SnapshotEvery = 2
SPECIFICATION StoreRunSpec
SYMMETRY Symmetry
CHECK_DEADLOCK FALSE
INVARIANTS
  StoreTypeOK
  StoreSafety
  KeyOnce
  AloneMatchesJournal
PROPERTIES
  StreamImplemented
