SPECIFICATION Spec
CONSTANTS
    CanvasKeys = {x}
    CanvasVersions = 2
    CanvasReporters = {r1, r2}
    CanvasCleaners = {d1, d2}
    CanvasLearners = {l}
    CanvasGradeKeys = {k}
    CanvasOwnKey = own
    CanvasPageLimit = 2
    CanvasMaxAssignments = 3
    BbVersions = 2
    BbMaxContents = 2
    BbLearners = {l1}
    BbGrades = {7, 9}
    BbNoGrade = none
    BbEnrolmentsPage = 1
    BbPageLimit = 1
    BbMaxColumns = 3
    MoodleVersions = 2
    DegreedCustomers = {c1, c2}
    DegreedRetries = 1
    DegreedMaxIds = 2
    BbTokenWorkers = {p, q}
    BbTokenViews = {v}
    BbTokenEditors = {e}
    BbTokenNone = none
    BbTokens = 4
    BbTokenEdits = 2
    PctRegions = {eu, other}
    PctOther = other
    PctNone = none
    PctWorkers = {p, q}
    PctLifetimes = {3, 4}
    PctBuffer = 3
    PctDelay = 1
    LearnTasks = {p, q}
    LearnSeconds = {0, 1, 2}
    LearnNone = none
    LearnTtl = 2
    LearnDelay = 1
    MigIds = {1, 2}
    MigAbsent = none
    MigWrites = 1
    MigTroubles = 1
SYMMETRY ClientsSymmetry
INVARIANTS
    TypeOK
    PctTokenIsFresh
    LearningTimeIsRecent
PROPERTIES
    CanvasOkMeansDone
    AssignmentsKeptAndFound
    BbCourseIsWhole
    
    MoodleOkMeansDone
    DegreedOkMeansDone
    BbTokensTakeTurns
    MigrationIsRepeatable
CHECK_DEADLOCK FALSE
