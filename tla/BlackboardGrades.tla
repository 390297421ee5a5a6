-------------------------- MODULE BlackboardGrades --------------------------
(***************************************************************************)
(* The grade half of the Blackboard client (blackboard/client.py): a report   *)
(* finds the course, the learner's enrolment and, page by page, the grade     *)
(* column, which it creates when it is not found, and sets the learner's      *)
(* grade in it.  One task reports for a column at a time; teachers have       *)
(* columns of their own.                                                       *)
(***************************************************************************)
EXTENDS Integers, Sequences, SequencesExt

CONSTANTS
    BbLearners, BbGrades, BbNoGrade,
    BbEnrolmentsPage,   \* how many enrolments Blackboard lists; more pages are not read
    BbPageLimit,        \* PAGE_TRAVERSAL_LIMIT: 250 pages, of one column each here
    BbMaxColumns        \* bound: columns a course may get, its gradebook's last page that is read and one more

ASSUME BbGradesAssumption ==
    /\ BbLearners # {} /\ BbGrades # {}
    /\ BbEnrolmentsPage \in Nat /\ BbPageLimit \in Nat /\ BbMaxColumns \in Nat

VARIABLES
    bbColumns,          \* the columns of the gradebook, in the order they are listed
    bbEnrolled,         \* the learners enrolled in the course, in the order they are listed
    bbReport,           \* the report under way
    bbReported          \* the grade of each learner's last report that was answered

bbGradesVars == <<bbColumns, bbEnrolled, bbReport, bbReported>>

BbIdle == {"ok", "failed"}
BbShown == BbGrades \cup {BbNoGrade}

\* The final grade's column and a subsection's have external ids, a teacher's has not.
\* Blackboard includes a column in the calculation of the course grade, or does not.
BbKinds == {"final", "subsection"}
BbColumn == [kind : BbKinds \cup {"teacher"}, counts : BOOLEAN, grades : [BbLearners -> BbShown]]

BbGradesTypeOK ==
    /\ Len(bbColumns) <= BbMaxColumns
    /\ \A n \in DOMAIN bbColumns : bbColumns[n] \in BbColumn
    /\ \A n \in DOMAIN bbEnrolled : bbEnrolled[n] \in BbLearners
    /\ bbReport \in [learner : BbLearners, kind : BbKinds, grade : BbGrades, page : 1 .. BbMaxColumns + 1,
                     column : 0 .. BbMaxColumns,
                     pc : {"course", "enrolment", "list", "correct", "create", "submit", "answer"} \cup BbIdle]
    /\ bbReported \in [BbLearners \X BbKinds -> BbShown]

BbGradesInit ==
    /\ bbColumns = <<>>
    /\ bbEnrolled = <<>>
    /\ bbReport = [learner |-> CHOOSE l \in BbLearners : TRUE, kind |-> "final",
                   grade |-> CHOOSE g \in BbGrades : TRUE,
                   page |-> 1, column |-> 0, pc |-> "failed"]
    /\ bbReported = [r \in BbLearners \X BbKinds |-> BbNoGrade]

BbReportGoto(pc) == bbReport' = [bbReport EXCEPT !.pc = pc]

BbReportBegin(l, k, g) ==
    /\ bbReport.pc \in BbIdle
    /\ bbReport' = [learner |-> l, kind |-> k, grade |-> g, page |-> 1, column |-> 0, pc |-> "course"]
    /\ UNCHANGED <<bbColumns, bbEnrolled, bbReported>>

\* Any request may fail, and the course or the learner may not be found: ClientError.
BbReportFails ==
    /\ bbReport.pc \notin BbIdle
    /\ BbReportGoto("failed")
    /\ UNCHANGED <<bbColumns, bbEnrolled, bbReported>>

\* _resolve_blackboard_course_id finds the course by its externalId.
BbResolveCourse ==
    /\ bbReport.pc = "course"
    /\ BbReportGoto("enrolment")
    /\ UNCHANGED <<bbColumns, bbEnrolled, bbReported>>

\* _get_bb_user_id_from_enrollments looks at the first page of the enrolments only.
BbFindEnrolment ==
    /\ bbReport.pc = "enrolment"
    /\ \E n \in DOMAIN bbEnrolled : n <= BbEnrolmentsPage /\ bbEnrolled[n] = bbReport.learner
    /\ BbReportGoto("list")
    /\ UNCHANGED <<bbColumns, bbEnrolled, bbReported>>

\* The column is found.  It may have the legacy value of includeInCalculations, which
\* is corrected.
BbColumnFound(n) ==
    bbReport' = [bbReport EXCEPT !.column = n,
        !.pc = IF bbColumns[n].counts /\ bbReport.kind # "final" THEN "correct" ELSE "submit"]

BbOnPage == bbReport.page <= Len(bbColumns) /\ bbColumns[bbReport.page].kind = bbReport.kind

\* Fault: as many pages are read as the limit says (< for <=).
BbFindColumn_Limit ==
    /\ bbReport.pc = "list"
    /\ IF BbOnPage THEN BbColumnFound(bbReport.page)
       ELSE IF bbReport.page < Len(bbColumns) /\ bbReport.page < BbPageLimit
       THEN bbReport' = [bbReport EXCEPT !.page = @ + 1]
       ELSE BbReportGoto("create")
    /\ UNCHANGED <<bbColumns, bbEnrolled, bbReported>>

\* _get_or_create_integrated_grade_column reads one page: the column is on it, or there
\* is a next page, or there is none, or one more than the limit has been read.
BbFindColumn ==
    /\ bbReport.pc = "list"
    /\ IF BbOnPage THEN BbColumnFound(bbReport.page)
       ELSE IF bbReport.page < Len(bbColumns) /\ bbReport.page <= BbPageLimit
       THEN bbReport' = [bbReport EXCEPT !.page = @ + 1]
       ELSE BbReportGoto("create")
    /\ UNCHANGED <<bbColumns, bbEnrolled, bbReported>>

BbCorrectColumn ==
    /\ bbReport.pc = "correct"
    /\ bbColumns' = [bbColumns EXCEPT ![bbReport.column].counts = FALSE]
    /\ BbReportGoto("submit")
    /\ UNCHANGED <<bbEnrolled, bbReported>>

BbAppend(kind, counts) ==
    /\ Len(bbColumns) < BbMaxColumns
    /\ bbColumns' = Append(bbColumns, [kind |-> kind, counts |-> counts,
                                       grades |-> [l \in BbLearners |-> BbNoGrade]])

\* The column is created; its id is in the answer, which may get lost.
BbCreateColumn ==
    /\ bbReport.pc = "create"
    /\ BbAppend(bbReport.kind, bbReport.kind = "final")
    /\ \/ bbReport' = [bbReport EXCEPT !.pc = "submit", !.column = Len(bbColumns) + 1]
       \/ BbReportGoto("failed")
    /\ UNCHANGED <<bbEnrolled, bbReported>>

\* _submit_grade_to_blackboard sets the grade; the answer repeats it, ...
BbSubmitGrade ==
    /\ bbReport.pc = "submit"
    /\ bbColumns' = [bbColumns EXCEPT ![bbReport.column].grades[bbReport.learner] = bbReport.grade]
    /\ BbReportGoto("answer")
    /\ UNCHANGED <<bbEnrolled, bbReported>>

\* ... or gets lost (BbReportFails).
BbAnswered ==
    /\ bbReport.pc = "answer"
    /\ BbReportGoto("ok")
    /\ bbReported' = [bbReported EXCEPT ![<<bbReport.learner, bbReport.kind>>] = bbReport.grade]
    /\ UNCHANGED <<bbColumns, bbEnrolled>>

\* Someone is enrolled in Blackboard; a teacher adds a column, or, between reports,
\* changes what counts.
BbEnrol(l) ==
    /\ \A n \in DOMAIN bbEnrolled : bbEnrolled[n] # l
    /\ bbEnrolled' = Append(bbEnrolled, l)
    /\ UNCHANGED <<bbColumns, bbReport, bbReported>>

BbTeacherAdds ==
    /\ BbAppend("teacher", TRUE)
    /\ UNCHANGED <<bbEnrolled, bbReport, bbReported>>

BbTeacherIncludes(n) ==
    /\ bbReport.pc \in BbIdle
    /\ bbColumns' = [bbColumns EXCEPT ![n].counts = ~@]
    /\ UNCHANGED <<bbEnrolled, bbReport, bbReported>>

BbReportStep ==
    BbResolveCourse \/ BbFindEnrolment \/ BbFindColumn \/ BbCorrectColumn \/ BbCreateColumn \/ BbSubmitGrade \/ BbAnswered

BbGradesNext ==
    \/ \E l \in BbLearners, k \in BbKinds, g \in BbGrades : BbReportBegin(l, k, g)
    \/ BbReportStep \/ BbReportFails
    \/ \E l \in BbLearners : BbEnrol(l)
    \/ BbTeacherAdds
    \/ \E n \in DOMAIN bbColumns : BbTeacherIncludes(n)

BbGradesSpec == BbGradesInit /\ [][BbGradesNext]_bbGradesVars

-----------------------------------------------------------------------------
(* Properties *)

\* What Blackboard shows for a learner: the grade in the first of the columns.
BbGradeShown(l, k) ==
    LET columns == {n \in DOMAIN bbColumns : bbColumns[n].kind = k}
    IN  IF columns = {} THEN BbNoGrade
        ELSE bbColumns[CHOOSE n \in columns : \A m \in columns : n <= m].grades[l]

Gradebook == INSTANCE GradeReporting
    WITH Learners <- BbLearners \X BbKinds, Grades <- BbGrades, NoGrade <- BbNoGrade,
         shown <- [r \in BbLearners \X BbKinds |-> BbGradeShown(r[1], r[2])],
         confirmed <- bbReported

\* Grades are reported as GradeReporting promises: whatever fails on the way, the
\* column that is listed first has the grade that was answered last, or a later one
\* whose answer was lost (create_course_completion).  This is so as long as the column lies
\* within the pages that are read, as BbMaxColumns makes sure: one further down is made again
\* by every report.
BlackboardReportsGrades == Gradebook!GradeReportingSpec

\* A learner enrolled in the course is found (_get_bb_user_id_from_enrollments: "a
\* user's Blackboard ID").  Fails: only the first page of the enrolments is read.
EnrolledAreFound ==
    \A n \in DOMAIN bbEnrolled :
        bbReport.pc = "enrolment" /\ bbEnrolled[n] = bbReport.learner => n <= BbEnrolmentsPage
=============================================================================
