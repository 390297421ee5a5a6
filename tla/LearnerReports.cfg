\* One configuration; tasks fail, die and run into each other.
SPECIFICATION FairSpec
CONSTANTS
    Enrollments = {e1}
    Configs = {c1}
    Workers = {w1, w2}
    MaxGrade = 1
    CompareGrades = TRUE
    SendIncomplete = FALSE
    MaxChanges = 1
    MaxSingles = 1
    MaxForced = 1
    MaxFailures = 2
    MaxDeaths = 1
INVARIANTS TransmittedWasReported ReportsBounded
PROPERTY EveryCompletionReported
