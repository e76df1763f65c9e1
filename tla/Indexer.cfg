SPECIFICATION FairIndexerSpec
CONSTANTS
  c1 = c1
  Client <- OneClient
  BatchSize <- Frames12201
  CacheCapacity = 3
  QueueDepth = 1
  MaxLag = 0
  MaxSubscribers = 1
  ExtractorFails = TRUE
  MaxRestarts = 1
  alice = alice
  pool = pool
  Consumers <- Either
  Link = c1
  Account <- Accounts
  EventOf <- EventOf12201
  MaxBatchEvents = 2
  PoolActor = pool
  DrainsPool = TRUE
  EpochLength = 2
  BaseEpoch = 1
  FreeTier = 2
  AmountMax = 9
  MaxReconnects = 2
  MaxStarts = 2
  MaxMishaps = 1
INVARIANTS
    WholeBatchesInOrder
    
    ViewsMatchCursor
    
    
PROPERTIES
    StopEndsAll
    
CHECK_DEADLOCK FALSE
