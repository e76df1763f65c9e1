SPECIFICATION FairSpec
CONSTANTS
  Conn = {1, 2}
  Scenario <- MCScenario
  Actor = {0, 1, 2, 3}
  FreeTier = 2
  ActionCost = 1
  StartEpoch = 1
  EpochLength = 2
  MaxTopUp = 2
  U64Max = 4
  Strict = TRUE
  Balance <- MCBalance
  Consent <- MCConsent
INVARIANTS
    AnswersAreTrue
    BudgetBacked
PROPERTIES
    RoundRobin
    ShutdownCompletes
CHECK_DEADLOCK FALSE
