CONSTANTS
    NoJob = NoJob
    Jobs = {image}
    Images = {image}
    Workers = {w1, w2}
    MaxAttempts = 2
    StuckTimeout = 0
    MaxTime = 9
    Budget = 3
SPECIFICATION LiveSpec
PROPERTIES
    NoClaimLastsForever
    AllJobsSettle
CHECK_DEADLOCK FALSE
