------------------------------- MODULE MCClients -------------------------------
(***************************************************************************)
(* The clients of other services, and the legacy tables, for TLC.  They work  *)
(* for different customers and share no state, so that one run explores them  *)
(* side by side: a behaviour is one of one client, chosen at the start, and   *)
(* the number of states is the sum of the clients', not the product.          *)
(***************************************************************************)
EXTENDS CanvasCourses, CanvasGradebook, BlackboardCourses, BlackboardGrades, BlackboardTokens,
        MoodleClient, Degreed2Client, PercipioTokens, LearningTimes, LegacyMigration

VARIABLE client

canvasClientVars == <<canvasVars, gradebookVars>>
blackboardVars == <<bbCoursesVars, bbGradesVars, bbTokenVars>>
otherVars == <<pctVars, learnVars, migVars>>
clientVars == <<canvasClientVars, blackboardVars, moodleVars, degreedVars, otherVars, client>>

Clients == {"canvas courses", "canvas grades", "blackboard courses", "blackboard grades",
            "blackboard tokens", "moodle", "degreed2", "percipio", "snowflake",
            "legacy tables"}

\* A client that stays as it is starts in one state only.
Init ==
    /\ client \in Clients
    /\ CanvasCourseInit /\ GradebookInit /\ BbCoursesInit /\ BbGradesInit /\ BbTokenInit
    /\ MoodleInit /\ DegreedInit /\ PctInit /\ LearnInit /\ MigInit
    /\ client = "percipio" \/ pctActive = {}
    /\ client = "snowflake" \/ learnStored = LearnNone

CanvasCoursesNext ==
    /\ client = "canvas courses" /\ CanvasCourseNext
    /\ UNCHANGED <<gradebookVars, blackboardVars, moodleVars, degreedVars, otherVars>>
CanvasGradesNext ==
    /\ client = "canvas grades" /\ GradebookNext
    /\ UNCHANGED <<canvasVars, blackboardVars, moodleVars, degreedVars, otherVars>>
BlackboardCoursesNext ==
    /\ client = "blackboard courses" /\ BbCoursesNext
    /\ UNCHANGED <<canvasClientVars, bbGradesVars, bbTokenVars, moodleVars, degreedVars, otherVars>>
BlackboardGradesNext ==
    /\ client = "blackboard grades" /\ BbGradesNext
    /\ UNCHANGED <<canvasClientVars, bbCoursesVars, bbTokenVars, moodleVars, degreedVars, otherVars>>
BlackboardTokensNext ==
    /\ client = "blackboard tokens" /\ BbTokenNext
    /\ UNCHANGED <<canvasClientVars, bbCoursesVars, bbGradesVars, moodleVars, degreedVars, otherVars>>
MoodleClientNext ==
    /\ client = "moodle" /\ MoodleNext
    /\ UNCHANGED <<canvasClientVars, blackboardVars, degreedVars, otherVars>>
DegreedClientNext ==
    /\ client = "degreed2" /\ DegreedNext
    /\ UNCHANGED <<canvasClientVars, blackboardVars, moodleVars, otherVars>>
PercipioNext ==
    /\ client = "percipio" /\ PctNext
    /\ UNCHANGED <<canvasClientVars, blackboardVars, moodleVars, degreedVars, learnVars, migVars>>
SnowflakeNext ==
    /\ client = "snowflake" /\ LearnNext
    /\ UNCHANGED <<canvasClientVars, blackboardVars, moodleVars, degreedVars, pctVars, migVars>>
LegacyTablesNext ==
    /\ client = "legacy tables" /\ MigNext
    /\ UNCHANGED <<canvasClientVars, blackboardVars, moodleVars, degreedVars, pctVars, learnVars>>

Next ==
    /\ UNCHANGED client
    /\ \/ CanvasCoursesNext \/ CanvasGradesNext
       \/ BlackboardCoursesNext \/ BlackboardGradesNext \/ BlackboardTokensNext
       \/ MoodleClientNext \/ DegreedClientNext
       \/ PercipioNext \/ SnowflakeNext \/ LegacyTablesNext

Spec == Init /\ [][Next]_clientVars

\* Every client's state is of its type.
TypeOK ==
    /\ CanvasCourseTypeOK /\ GradebookTypeOK
    /\ BbCoursesTypeOK /\ BbGradesTypeOK /\ BbTokenTypeOK
    /\ MoodleTypeOK /\ DegreedTypeOK /\ PctTypeOK /\ LearnTypeOK /\ MigTypeOK

\* Reports and clean-ups are interchangeable.
ClientsSymmetry == Permutations(CanvasReporters) \cup Permutations(CanvasCleaners)
=============================================================================
