SPECIFICATION SystemSpec
CONSTANTS
    LastIndex = 3
    StateCommit = {"g", "s"}
    ActionsRoot = {"a"}
    GenesisCommit = "g"
    ZeroCommit = "zero"
    ZeroActions = "zero"
    Bond = 80
    DisputeWindow = 2
    SubmissionInterval = 1
    MaxOutstanding = 2
    MaxActionsPerBatch = 2
    LastBlock = 6
    LastActiveBlock = 6
    LastHaltBlock = 0
    MaxDepth = 2
    Step <- MCStep
    NoStep = NoStep
    NoClaim = NoClaim
    MaxGames = 2
    Challengers = {"ch"}
    Sequencer = "seq"
    Treasury = "tre"
    ZeroAddress = "nobody"
    ChallengeBond = 10
    ResponseTimeout = 1
    StepInterval = 0
    CallersNameOpenedGames = TRUE
INVARIANT FinalisedStaysCanonical
CHECK_DEADLOCK FALSE
