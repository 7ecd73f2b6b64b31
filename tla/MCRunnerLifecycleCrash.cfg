SPECIFICATION Spec
CONSTANTS
    MaxClaims = 3
    RetryMax = 1
    MaxCrashes = 1
    HasJob = TRUE
    OtherJobs = FALSE
    Administrator = FALSE
    Loops = {"reconciler"}
    LeaseExpires = FALSE
    WriteFails = TRUE
INVARIANT OneRunnerPerRequest
INVARIANT SandboxAccounted
CHECK_DEADLOCK FALSE
