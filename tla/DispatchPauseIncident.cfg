CONSTANTS
  Toggles = {t1, t2}
  Spawns = {c1}
  FromWeb = {}
  DispatchFaults = {}
SPECIFICATION DispatchSpec
CHECK_DEADLOCK FALSE
INVARIANTS
  IncidentPauses
