SPECIFICATION FairSpec
CONSTANTS
    Transfers = {t1, t2}
    Conns = {c1, c2}
    FileSize = 2
    ChannelSize = 1
    POOL_MAX_IDLE = 1
    MAX_RETRIES = 1
    MaxFaults = 2
INVARIANTS IdleInSync ConnectionsAccounted DoneIsWhole
PROPERTIES TransferSettles
CHECK_DEADLOCK FALSE
