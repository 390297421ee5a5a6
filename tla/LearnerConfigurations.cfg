\* Two configurations of one channel; one request fails.
SPECIFICATION Spec
CONSTANTS
    Enrollments = {e1}
    Configs = {c1, c2}
    Workers = {w1}
    MaxGrade = 0
    CompareGrades = TRUE
    SendIncomplete = FALSE
    MaxChanges = 0
    MaxSingles = 0
    MaxForced = 0
    MaxFailures = 1
    MaxDeaths = 0
INVARIANT TransmittedWasReported
