SPECIFICATION Spec
CONSTANTS
  o1 = o1  o2 = o2  p1 = p1  p2 = p2
  Procs = {p1, p2}
  Channels <- MCChannels
  Key <- MCKey
  Objects = {o1, o2}
  ObjectOf <- MCObjectOf
  Severities = {2, 3}
  CalibWindows = 1
  Quiet = 1
  Cooldown = 1
  MinSeverity = 2
  MaxClock = 4
  MaxWindows = 7
  MaxQueue = 1
  MaxRestarts = 1
  MaxLosses = 1
  Scenarios <- MCScenarios
INVARIANTS
  TypeOK
  IndexConsistent
  RowsFollowEngine
  EventRowsFollow
  AlertedOrExcused
PROPERTIES
  ReviewStands
  EventsClose
CHECK_DEADLOCK FALSE
