CONSTANTS
    w1 = w1
    w2 = w2
    UsageWorkers = {w1, w2}
    EntryKindChoices <- MCKinds
    StreamReadCount = 2
    ReclaimCount = 1
    FlushMinBatch = 2
    MaxConsecutiveErrors = 2
    MaxUsageFaults = 1
    UsageEvents <- MCEvents
    HourTicks = 2
    ReportLimit = 2
    MaxFlushes = 2
SPECIFICATION UsageSpec
INVARIANTS
    AckedIsStored
    

    
CHECK_DEADLOCK FALSE
