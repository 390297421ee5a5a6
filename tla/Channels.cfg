SPECIFICATION Spec
CONSTANTS
    SapCourses = {a, b}
    SapRefusable = {a}
    SapRetries = 1
    SapLimit = 1
    SapJobsADay = 2
    SapChanges = 2
    SapDeaths = 1
    SapStudents = 3
    SapPageSize = 1
    SapMoves = 4
    SapReports = 1
    CsodContents = {a, b}
    CsodWithout = {}
    CsodPullers = {p}
    CsodHeaders = {TRUE}
    CsodLosesAnswers = FALSE
    CsodChanges = 2
    CsodDeaths = 1
    CsodOverlaps = 1
    CsodConfigs = {c1, c2}
    CsodOauth = {c2}
    CsodLearners = {l}
    CsodLinks <- Links
    CsodLaunches = 2
    aCourse = k
    XapiCustomers = {c}
    XapiRuns = {r}
    XapiCourse <- CourseOfRun
    XapiOwners <- OwnersOfRun
    XapiNone = none
    XapiProcs = {p, q}
    XapiTroubles = 1
    TpaOrgs = {o1, o2}
    TpaBudgets = {g1, g2}
    TpaOtherGroups = {f}
    TpaNone = none
    TpaLogins = {p, q}
    TpaChanges = 4
    SubSections = {a, b}
    SubGrades = {1, 2}
    SubNone = none
    SubBulk = bulk
    SubSingles = {p}
    SubChanges = 2
    SubTroubles = 1
INVARIANTS
    TypeOK
    XapiRecordsWereTold
PROPERTIES
    TpaOthersUntouched
    TpaInSync
    SubsectionsReported
    SapInSync
    InactiveAreUnlinked
    CsodInSync
    CsodCompletionsReported
    XapiCompletionsTold
CHECK_DEADLOCK FALSE
