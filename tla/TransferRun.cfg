SPECIFICATION FairSpec
CONSTANTS
    FileSize = 3
    Capacity = 2
    MAX_RETRIES = 2
    MaxRequests = 3
INVARIANTS DoneIsExact LeftoverIsBeginning SkippedIsComplete
PROPERTIES OnlyRetriesMisalign AttemptEnds
CHECK_DEADLOCK FALSE
