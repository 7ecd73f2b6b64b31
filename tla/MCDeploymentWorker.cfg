CONSTANTS
    h1 = h1
    h2 = h2
    Handlers = {h1, h2}
    MaxRevisions = 2
    MaxRequests = 2
    MaxCrashes = 1
SPECIFICATION FairSpec
CHECK_DEADLOCK FALSE
PROPERTY MovesAsTabled
INVARIANT SandboxReachable
INVARIANT OneSandbox
PROPERTY FailureKept
PROPERTY RunningUndisturbed
PROPERTY Settles
