SPECIFICATION Spec
CONSTANTS
    MaxClaims = 2
    RetryMax = 2
    MaxCrashes = 0
    HasJob = TRUE
    OtherJobs = FALSE
    Administrator = FALSE
    Loops = {"reconciler"}
    LeaseExpires = FALSE
    WriteFails = FALSE
INVARIANT ExitedWithoutJobRetried
CHECK_DEADLOCK FALSE
