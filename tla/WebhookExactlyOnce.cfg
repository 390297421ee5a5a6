\* One message per row, the worker saves within the countdown; processes crash.
SPECIFICATION Spec
CONSTANTS
    Keys = {k1}
    EnrollmentKeys = {k1}
    Regions = {us, other}
    OtherRegion = other
    NoConfig = NoConfig
    RowIds = {i1, i2}
    Routers = {r1, r2}
    Workers = {w1, w2}
    RetryLimits = {1}
    MaxRetries = 3
    UniqueIndex = TRUE
    PromptSave = TRUE
    MaxFaults = 1
    MaxDuplicates = 0
    MaxCancels = 0
    MaxEdits = 1
INVARIANT OneWorkerPerRow
PROPERTIES SettledForGood ImplementsDelivery
SYMMETRY ProcessSymmetry
CHECK_DEADLOCK FALSE
