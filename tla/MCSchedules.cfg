SPECIFICATION Spec
CONSTANTS
    a = a
    b = b
    Schedules = {a}
    MaxTicks = 2
    Crons = {0, 1}
    Limit = 2
    Market = FALSE
    NoRow = NoRow
    MaxTime = 3
    MaxRequests = 3
    MaxCrashes = 1
CHECK_DEADLOCK FALSE
INVARIANT TypeOK
PROPERTY RunnerRevivesNothing
PROPERTY DueTimePasses
