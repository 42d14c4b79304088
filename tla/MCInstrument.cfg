SPECIFICATION Spec
CONSTANTS
  AdxlWait = 2
  Blink = 3
  RetryTicks = 2
  Half = 4
  StallTicks = 2
  SeqSpace = 4
  MaxFaults = 2
INVARIANTS
  TypeOK
  Resyncs
  LossCounted
  SdRetried
PROPERTY
  StreamRestarts
