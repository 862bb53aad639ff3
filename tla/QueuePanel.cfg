SPECIFICATION Spec
CONSTANTS
    MaxJobs = 2
    MAX_RETRIES = 1
    Dropped = {d1, d2}
INVARIANTS TallyExact QuietMeansReported RowsFollow
PROPERTIES ReportsAtRest
CHECK_DEADLOCK FALSE
