SPECIFICATION Spec
CONSTANTS
  c1 = c1
  Client <- OneClient
  BatchSize <- Frames2111
  CacheCapacity = 3
  QueueDepth = 1
  MaxLag = 1
  MaxSubscribers = 1
  ExtractorFails = FALSE
  MaxRestarts = 0
INVARIANTS
  NoGaps
CHECK_DEADLOCK FALSE
