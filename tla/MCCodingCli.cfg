SPECIFICATION FairCli
CONSTANTS
    ask = ask
    auto = auto
    task = task
    Requests = {ask, auto}
    Slots = {ask, auto}
    AutoPrompts = {auto}
    Tasks = {task}
    TaskOf <- MCTaskOf
    NoSlot = NoSlot
    MaxCrashes = 0
    MaxFaults = 1
INVARIANTS
    TypeOKCli
    NothingOnTrust
PROPERTIES
    EndIsFinal
    HeadlessRunReturns
CHECK_DEADLOCK FALSE
