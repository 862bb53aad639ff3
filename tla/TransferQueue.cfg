SPECIFICATION MCSpec
CONSTANTS
    MaxJobs = 2
    Connections = {s, f}
    SftpConnections = {s}
    LimitChoices <- MCLimitChoices
    MaxSets = 1
    MAX_RETRIES = 1
INVARIANTS TypeOK SlotConservation NoLostWakeup StartsInOrder
PROPERTIES StartsWithinLimits CancelIsKept LifecycleSafety EveryTransferSettles
CHECK_DEADLOCK FALSE
