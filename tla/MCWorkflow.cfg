SPECIFICATION FairWorkflow
CONSTANTS
    a = a
    b = b
    c = c
    p = p
    q = q
    Steps <- MCSteps
    Words <- MCWords
    Plans <- MCPlans
    MaxRetries = 3
    MaxRounds = 3
INVARIANTS
    TypeOK
    GateHolds
    WorkIsWhole
    HonestResult
PROPERTIES
    WorkflowReturns
CHECK_DEADLOCK FALSE
