SPECIFICATION Spec
CONSTANTS
    MaxClaims = 2
    RetryMax = 1
    MaxCrashes = 1
    HasJob = TRUE
    OtherJobs = FALSE
    Administrator = FALSE
    Loops = {}
    LeaseExpires = FALSE
    WriteFails = FALSE
INVARIANT CleanedUpAfterCompletion
CHECK_DEADLOCK FALSE
