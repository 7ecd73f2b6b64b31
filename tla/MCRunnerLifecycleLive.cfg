SPECIFICATION FairSpec
CONSTANTS
    MaxClaims = 1
    RetryMax = 0
    MaxCrashes = 1
    HasJob = TRUE
    OtherJobs = FALSE
    Administrator = TRUE
    Loops = {"sweeper"}
    LeaseExpires = FALSE
    WriteFails = FALSE
PROPERTY InFlightSettles
PROPERTY TerminationOwnerKept
PROPERTY CapacityAsked
CHECK_DEADLOCK FALSE
