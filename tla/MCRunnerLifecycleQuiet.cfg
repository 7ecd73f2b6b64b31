SPECIFICATION Spec
CONSTANTS
    MaxClaims = 2
    RetryMax = 1
    MaxCrashes = 0
    HasJob = TRUE
    OtherJobs = TRUE
    Administrator = FALSE
    Loops = {}
    LeaseExpires = TRUE
    WriteFails = FALSE
INVARIANT TypeOK
INVARIANT LeaseIsWorked
PROPERTY CompletedIsFinal
PROPERTY StaleExitIgnored
CHECK_DEADLOCK FALSE
