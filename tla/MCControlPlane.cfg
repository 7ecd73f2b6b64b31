SPECIFICATION ControlPlaneSpec
CONSTANTS
    Jobs = {"job"}
    Labels = {"x", "windows"}
    WindowsLabel = "windows"
    Wanted <- MCWanted
    Catalogue <- MCCatalogue
    Names = {1, 2, 3}
    Templates = {1, 2}
    Groups = {0, 1}
    EditedKeys <- MCEditedKeys
    LabelSets = {{"x"}, {"x", "windows"}}
    Handlers = {1, 2}
    Editors = {1, 2}
    MaxBusy = 2
    MaxEdits = 2
    MaxClaims = 2
    MaxRevivals = 1
    Requests = {"r1", "r2"}
    Sponsors = {"org", "org2"}
    Limits = {0, 1, 2}
    MaxStarts = 2
    MaxRetries = 1
    MaxChanges = 3
    Keyed = {"key"}
    Unkeyed = {"random"}
    Bodies = {"here", "elsewhere"}
    ScopeOf <- MCScopeOf
    Plans = {"p", "q"}
    Calls = {"c1", "c2"}
    MaxConcurrent = 1
    MaxEvents = 2
    MaxBytes = 3
    Sizes = {1, 2}
    MaxVersions = 3
CHECK_DEADLOCK FALSE
INVARIANT InFlightUnderItsSpec
INVARIANT AdmittedCopyIsCurrent
INVARIANT CleanupFindsItsService
INVARIANT ApprovalHasItsPolicy
INVARIANT ScopeWithinLimit
INVARIANT BudgetKept
PROPERTY NoEditLost
PROPERTY RepeatedDeliveryHarmless
PROPERTY SponsorGrants
PROPERTY HistoryKept
PROPERTY AnsweredWithItsOwn
