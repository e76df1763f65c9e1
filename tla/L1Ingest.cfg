SPECIFICATION FairSpec
CONSTANTS
    alice = alice
    bob = bob
    Event = {1, 2, 3}
    Address <- Addresses
    ConfirmationDepth = 1
    WindowCapacity = 2
    BlocksPerIteration = 2
    MaterialiseDeposits = TRUE
    FirstActorId = 4
    Worlds <- AllWorlds
    MaxReorgs = 1
    OperatorRestarts = TRUE
INVARIANTS
    AdmittedIsPrefix
    OneIdPerAddress
    
PROPERTIES
    ForwardedWhenSourceFails
CHECK_DEADLOCK FALSE
