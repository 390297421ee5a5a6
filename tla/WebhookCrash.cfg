\* A process dies between two steps.
SPECIFICATION Spec
CONSTANTS
    Keys = {k1}
    EnrollmentKeys = {k1}
    Regions = {us, other}
    OtherRegion = other
    NoConfig = NoConfig
    RowIds = {i1}
    Routers = {r1}
    Workers = {w1}
    RetryLimits = {1}
    MaxRetries = 3
    UniqueIndex = TRUE
    PromptSave = TRUE
    MaxFaults = 1
    MaxDuplicates = 0
    MaxCancels = 0
    MaxEdits = 0
INVARIANT NoRowStranded
CHECK_DEADLOCK FALSE
