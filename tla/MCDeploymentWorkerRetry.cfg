CONSTANTS
    h1 = h1
    h2 = h2
    Handlers = {h1, h2}
    MaxRevisions = 3
    MaxRequests = 2
    MaxCrashes = 0
SPECIFICATION Spec
CHECK_DEADLOCK FALSE
PROPERTY RetryAfterCleanup
