\* One row is tried as often as the largest limit allows, and limits change.
SPECIFICATION Spec
CONSTANTS
    Keys = {k1}
    EnrollmentKeys = {k1}
    Regions = {other}
    OtherRegion = other
    NoConfig = NoConfig
    RowIds = {i1}
    Routers = {r1}
    Workers = {w1}
    RetryLimits = {0, 10}
    MaxRetries = 10
    UniqueIndex = TRUE
    PromptSave = TRUE
    MaxFaults = 1
    MaxDuplicates = 0
    MaxCancels = 0
    MaxEdits = 1
INVARIANT AttemptsCountPosts
PROPERTY BackoffGrows
CHECK_DEADLOCK FALSE
