SPECIFICATION FairSpec
CONSTANTS
    TaskKinds <- MCTaskKinds
    MaxRetries = 2
    Duration = 3
    TokenCap = 1
    AttemptTokens = 1
INVARIANTS
    TypeOK
    CommitVerified
    CompletedSurvivesCrash
PROPERTIES
    TaskEnds
    MeetsContract
CHECK_DEADLOCK FALSE
