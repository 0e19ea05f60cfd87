SPECIFICATION DispatchFairSpec
CONSTANTS
    Callers <- MCTasks
    Batches <- MCBatches
    BatchTasks <- MCBatchTasks
    CanaryFirst <- MCCanaryFirst
    Files <- MCFiles
    FilesOf <- MCFilesOf
    MaxConcurrent = 2
    NoTask = NoTask
    t1 = t1
    t2 = t2
    t3 = t3
    t4 = t4
    t5 = t5
    t6 = t6
    b1 = b1
    b2 = b2
    f = f
    g = g
INVARIANTS
    DispatchTypeOK
    BatchIsSound
PROPERTIES
    EveryBatchEnds
CHECK_DEADLOCK FALSE
