SPECIFICATION FairSpec
CONSTANTS
    Drops = {d1, d2}
    DropSize = 3
    Limits = {1, 2}
    MaxChanges = 2
INVARIANTS LimiterExact SomeoneWillWake OneImportAtATime
PROPERTIES SettledStays EveryDropEnds
CHECK_DEADLOCK FALSE
