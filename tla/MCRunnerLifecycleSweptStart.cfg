SPECIFICATION Spec
CONSTANTS
    MaxClaims = 2
    RetryMax = 1
    MaxCrashes = 0
    HasJob = TRUE
    OtherJobs = FALSE
    Administrator = FALSE
    Loops = {"sweeper"}
    LeaseExpires = FALSE
    WriteFails = FALSE
INVARIANT OneRunnerPerRequest
CHECK_DEADLOCK FALSE
