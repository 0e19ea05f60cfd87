SPECIFICATION FairSpec
CONSTANTS
    Callers = {c1, c2, c3, c4, c5}
    MaxConcurrent = 2
INVARIANTS
    TypeOK
    NoLostWakeup
PROPERTIES
    NobodyIsPassedOver
    ParkedCallSettles
CHECK_DEADLOCK FALSE
