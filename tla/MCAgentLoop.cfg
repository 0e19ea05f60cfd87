SPECIFICATION FairAgent
CONSTANTS
    MaxTurns = 3
    MaxToolCalls = 4
    MaxPerTurn = 2
    Tolerance = 1
    Base = 4
    Pool = 4
    MinDelegation = 2
    Requested = 3
    MaxConsults = 2
    Headroom = 2
    MaxCompress = 1
    Batches <- MCBatches
    Costs = {1, 2}
INVARIANTS
    TypeOKAgent
    OverdraftIsBounded
PROPERTIES
    CallsAreAccounted
    NobodyWaitsForever
CHECK_DEADLOCK FALSE
