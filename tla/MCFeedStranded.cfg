SPECIFICATION Spec
CONSTANTS
  FeedBacklog = 3
  MaxBurst = 2
  MaxPacked = 8
  MaxFaults = 3
PROPERTY
  GoesOut
