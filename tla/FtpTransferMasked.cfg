SPECIFICATION Spec
CONSTANTS
    Transfers = {t1}
    Conns = {c1, c2}
    FileSize = 2
    ChannelSize = 1
    POOL_MAX_IDLE = 1
    MAX_RETRIES = 1
    MaxFaults = 1
PROPERTIES TransientIsRetried
CHECK_DEADLOCK FALSE
