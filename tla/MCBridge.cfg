SPECIFICATION Spec
CONSTANTS
  Cap = 2
  SeqSpace = 8
  NoRecord = noRecord
  Record <- MCRecord
  RecordAt <- MCRecordAt
  Client = {c1}
  Wants <- MCBridgeWants
  Bridge = {c1}
  MaxProduced = 10
  MaxEpoch = 2
  MaxFaults = 2
INVARIANTS
  NoSilentGap
PROPERTIES
  EventuallySynced
CHECK_DEADLOCK FALSE
