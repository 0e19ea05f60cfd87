SPECIFICATION FairSpec
CONSTANTS
    s1 = s1
    s2 = s2
    t1 = t1
    t2 = t2
    Requests = {r1, r2, r3}
    Slots <- MCSlots
    Tasks = {t1, t2}
    TaskOf <- MCTaskOf
    NoSlot = NoSlot
    MaxCrashes = 1
    MaxFaults = 1
INVARIANTS
    TypeOK
    SlotsMatchRows
PROPERTIES
    DecisionReachesItsRow
    RequestSettles
CHECK_DEADLOCK FALSE
