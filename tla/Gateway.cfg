SPECIFICATION FairSpec
CONSTANTS
  Client = {1, 2}
  Scenario <- MCScenario
INVARIANTS
    
    OneFramePerSubmit
    PoolBounded
    RateWindow
CHECK_DEADLOCK FALSE
