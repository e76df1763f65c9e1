SPECIFICATION FairSystemSpec
CONSTANTS
    LastIndex = 4
    StateCommit = {"g", "s"}
    ActionsRoot = {"a"}
    GenesisCommit = "g"
    ZeroCommit = "zero"
    ZeroActions = "zero"
    Bond = 80
    DisputeWindow = 2
    SubmissionInterval = 1
    MaxOutstanding = 1
    MaxActionsPerBatch = 4
    LastBlock = 14
    LastActiveBlock = 2
    LastHaltBlock = 1
    MaxDepth = 2
    Step <- MCStep
    NoStep = NoStep
    NoClaim = NoClaim
    MaxGames = 1
    Challengers = {"ch"}
    Sequencer = "seq"
    Treasury = "tre"
    ZeroAddress = "nobody"
    ChallengeBond = 10
    ResponseTimeout = 2
    StepInterval = 1
    CallersNameOpenedGames = TRUE
INVARIANTS
    MoverHasABlock
PROPERTIES
    ImplementsKernelGame
    EveryGameSettles
    EveryBondLeaves
CHECK_DEADLOCK FALSE
