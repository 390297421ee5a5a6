\* Nothing fails, but a message is delivered twice and a row is cancelled.
SPECIFICATION FairSpec
CONSTANTS
    Keys = {k1}
    EnrollmentKeys = {}
    Regions = {other}
    OtherRegion = other
    NoConfig = NoConfig
    RowIds = {i1}
    Routers = {r1}
    Workers = {w1, w2}
    RetryLimits = {1}
    MaxRetries = 3
    UniqueIndex = TRUE
    PromptSave = TRUE
    MaxFaults = 0
    MaxDuplicates = 1
    MaxCancels = 1
    MaxEdits = 0
INVARIANTS NoRowStranded SuccessWasAccepted
PROPERTIES EveryRowSettles
CHECK_DEADLOCK FALSE
