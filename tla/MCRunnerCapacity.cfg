SPECIFICATION Spec
CONSTANTS
    r1 = r1
    r2 = r2
    r3 = r3
    all = all
    p1 = p1
    a1 = a1
    Request = {r1, r2, r3}
    Global = all
    Profile = {p1}
    Account = {a1}
    Repository = {}
    ScopesOf <- MCScopesOf
    FixedLimit <- MCLimit
    ProfileLimits = {0, 1}
    MaxStarted = 2
INVARIANT FixedLimitsRespected
INVARIANT NothingLeaks
PROPERTY AdmissionIsAtomic
