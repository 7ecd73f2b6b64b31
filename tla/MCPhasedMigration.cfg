SPECIFICATION MCSpec
CONSTANTS
    Requests = 3
    Jobs = {j}
    NoJob = NoJob
    Vals <- MCVals
    Absent = Absent
    Tables = {t}
    Content <- MCContent
    Empty = 0
    Precision = 2
    BatchSize = 1
    MaxFinal = 2
    MayLose = {"seal"}
    MaxWrites = 3
    MaxEvents = 4
INVARIANT OneWriter
INVARIANT BatchesApply
INVARIANT VerifyPasses
INVARIANT HistoryWhole
INVARIANT EventIdsApart
PROPERTY ServedAsOne
