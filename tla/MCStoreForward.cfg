SPECIFICATION Spec
CONSTANTS
  Cap = 3
  Hwm = 2
  MaxMsgs = 5
  MaxFaults = 2
INVARIANTS
  TypeOK
  Accounted
  FlagFollowsLink
  OnlyAsideOvertaken
  OldestGoFirst
PROPERTY
  BacklogGoesOut
CHECK_DEADLOCK FALSE
