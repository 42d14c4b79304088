SPECIFICATION Spec
CONSTANTS
  Cap = 2
  SeqSpace = 8
  NoRecord = noRecord
  Record <- MCRecord
  RecordAt <- MCRecordAt
  Client = {c1}
  Wants <- MCWants
  Bridge = {}
  MaxProduced = 10
  MaxEpoch = 2
  MaxFaults = 2
INVARIANTS
  TypeOK
  InOrder
  Genuine
  OnlyWanted
  NoSilentGap
  NoOrphan
PROPERTIES
  EventuallySynced
CHECK_DEADLOCK FALSE
