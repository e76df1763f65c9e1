CONSTANTS
    StateCommit = {0, 1}
    ActionsRoot = {"zero", "log"}
    ZeroActions = "zero"
    Log = "log"
    NoStep = NoStep
    LastIndex = 3
    MaxDepth = 2
    ZeroCommit = 0
    NoClaim = NoClaim
    Step <- MCStep
    Truth <- MCReplay
    Disputes <- MCDisputes
    LastOpenBlock = 2
    ResponseTimeout = 2
    ConfirmationDepth = 1
    BlocksPerIteration = 2
    MaxAttempts = 2
    FaultPlans <- MCCrashThenSend
    None = None
SPECIFICATION ObserverSpec
INVARIANT OneCallPerMove
CHECK_DEADLOCK FALSE
