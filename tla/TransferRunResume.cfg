SPECIFICATION Spec
CONSTANTS
    FileSize = 2
    Capacity = 1
    MAX_RETRIES = 1
    MaxRequests = 1
PROPERTIES ResumeAtLength
CHECK_DEADLOCK FALSE
