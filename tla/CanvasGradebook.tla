--------------------------- MODULE CanvasGradebook ---------------------------
(***************************************************************************)
(* The grade half of the Canvas client (canvas/client.py): completions and   *)
(* subsection grades are submissions to assignments of a Canvas course, which *)
(* are looked for page by page and created when they are not found; a command *)
(* removes the duplicates that come of it.  Tasks of several kinds report at  *)
(* the same time, clean-ups take no lock and may overlap, and the teachers    *)
(* have assignments of their own.                                             *)
(***************************************************************************)
EXTENDS Integers, Sequences, SequencesExt

CONSTANTS
    CanvasReporters,     \* tasks that report grades through a Canvas client
    CanvasCleaners,      \* tasks that clean up the duplicates
    CanvasLearners,
    CanvasGradeKeys,     \* integration ids: a course run's or a subsection's
    CanvasOwnKey,        \* "null": an assignment the channel did not make
    CanvasPageLimit,     \* 150: pages that are read of a list, of one item each here
    CanvasMaxAssignments \* bound: assignments ever made

ASSUME CanvasGradebookAssumption ==
    /\ CanvasLearners # {} /\ CanvasGradeKeys # {} /\ CanvasOwnKey \notin CanvasGradeKeys
    /\ CanvasPageLimit \in Nat /\ CanvasMaxAssignments \in Nat

VARIABLES
    assignments,         \* the course's assignments, in the order Canvas lists them
    canvasMade,          \* how many were ever made: the last one's id
    canvasLinked,        \* learners linked to the enterprise
    canvasUsers,         \* learners with an account and an enrolment in Canvas
    canvasReport,        \* the reports under way
    canvasDedupe         \* the clean-ups

gradebookVars == <<assignments, canvasMade, canvasLinked, canvasUsers, canvasReport, canvasDedupe>>

CanvasIds == 1 .. CanvasMaxAssignments
CanvasKeysListed == CanvasGradeKeys \cup {CanvasOwnKey}
CanvasIdle == {"ok", "failed"}

\* What a clean-up keeps in mind of an assignment.
DedupeHeard == [id : CanvasIds, key : CanvasKeysListed, stamp : CanvasIds]
DedupeBlank == [pc |-> "idle", page |-> 1, newest |-> {}, doomed |-> {}, raced |-> {}]

\* What is left of a report that is over: its answer.
ReportOver(pc) ==
    [learner |-> CHOOSE l \in CanvasLearners : TRUE, key |-> CHOOSE k \in CanvasGradeKeys : TRUE,
     page |-> 1, assignment |-> 0, raced |-> FALSE, pc |-> pc]

\* raced (of a report): the list changed since it was asked for.  raced (of a clean-up): the
\* ids of which another clean-up has removed an assignment since it began.
GradebookTypeOK ==
    /\ \A n \in DOMAIN assignments :
           assignments[n] \in [id : CanvasIds, key : CanvasKeysListed,
                               stamp : CanvasIds, graded : SUBSET CanvasLearners]
    /\ canvasMade \in 0 .. CanvasMaxAssignments
    /\ canvasLinked \subseteq CanvasLearners /\ canvasUsers \subseteq CanvasLearners
    /\ canvasReport \in [CanvasReporters ->
           [learner : CanvasLearners, key : CanvasGradeKeys, page : Nat, assignment : 0 .. CanvasMaxAssignments,
            raced : BOOLEAN, pc : {"user", "course", "list", "create", "submit"} \cup CanvasIdle]]
    /\ canvasDedupe \in [CanvasCleaners ->
           [pc : {"idle", "list", "remove"}, page : Nat, newest : SUBSET DedupeHeard,
            doomed : SUBSET CanvasIds, raced : SUBSET CanvasKeysListed]]

GradebookInit ==
    /\ assignments = <<>>
    /\ canvasMade = 0
    /\ canvasLinked = CanvasLearners /\ canvasUsers = CanvasLearners
    /\ canvasReport = [r \in CanvasReporters |-> ReportOver("failed")]
    /\ canvasDedupe = [d \in CanvasCleaners |-> DedupeBlank]

CanvasListed(i) == \E n \in DOMAIN assignments : assignments[n].id = i
CanvasPosition(i) == CHOOSE n \in DOMAIN assignments : assignments[n].id = i
CanvasAssignment(i) == assignments[CanvasPosition(i)]

-----------------------------------------------------------------------------
(* Reporting a grade: create_course_completion, create_assessment_reporting *)

ReportGoto(r, pc) == canvasReport' = [canvasReport EXCEPT ![r].pc = pc]
ReportEnds(r, pc) == canvasReport' = [canvasReport EXCEPT ![r] = ReportOver(pc)]

\* With its assignment known, a report needs the list no more.
ReportFinds(report, i) ==
    [learner |-> report.learner, key |-> report.key, page |-> 1, assignment |-> i, raced |-> FALSE, pc |-> "submit"]

\* The list changes under a report that looks for its assignment.
ReportRaced(report) == [report EXCEPT !.raced = @ \/ report.pc \in {"list", "create"}]
ReportsRaced(r, report) ==
    [q \in CanvasReporters |-> IF q # r THEN ReportRaced(canvasReport[q]) ELSE report]

ReportBegin(r, l, k) ==
    /\ canvasReport[r].pc \in CanvasIdle
    /\ canvasReport' = [canvasReport EXCEPT ![r] =
           [learner |-> l, key |-> k, page |-> 1, assignment |-> 0, raced |-> FALSE, pc |-> "user"]]
    /\ UNCHANGED <<assignments, canvasMade, canvasLinked, canvasUsers, canvasDedupe>>

\* Any request of a report may fail before it has changed anything.
ReportFails(r) ==
    /\ canvasReport[r].pc \notin CanvasIdle
    /\ ReportEnds(r, "failed")
    /\ UNCHANGED <<assignments, canvasMade, canvasLinked, canvasUsers, canvasDedupe>>

\* _search_for_canvas_user_by_email.  A learner Canvas does not know is unlinked from
\* the enterprise; the error raised next is swallowed, and the courses of the user
\* "None" are asked for, which fails (ReportFails).
ReportUser(r) ==
    /\ canvasReport[r].pc = "user"
    /\ ReportGoto(r, "course")
    /\ canvasLinked' = IF canvasReport[r].learner \in canvasUsers
                       THEN canvasLinked ELSE canvasLinked \ {canvasReport[r].learner}
    /\ UNCHANGED <<assignments, canvasMade, canvasUsers, canvasDedupe>>

ReportCourse(r) ==
    /\ canvasReport[r].pc = "course"
    /\ canvasReport[r].learner \in canvasUsers
    /\ canvasReport[r].learner \in canvasLinked
    /\ ReportGoto(r, "list")
    /\ UNCHANGED <<assignments, canvasMade, canvasLinked, canvasUsers, canvasDedupe>>

\* Fault: only the first page of the assignments is looked at.
ReportList_FirstPage(r) ==
    /\ canvasReport[r].pc = "list"
    /\ LET page == canvasReport[r].page IN
       IF page <= Len(assignments) /\ assignments[page].key = canvasReport[r].key
       THEN canvasReport' = [canvasReport EXCEPT ![r] = ReportFinds(@, assignments[page].id)]
       ELSE ReportGoto(r, "create")
    /\ UNCHANGED <<assignments, canvasMade, canvasLinked, canvasUsers, canvasDedupe>>

\* _handle_canvas_assignment_retrieval reads one page: the assignment is on it, or
\* there is a next page, or there is none (or 150 have been read) and it is created.
ReportList(r) ==
    /\ canvasReport[r].pc = "list"
    /\ LET page == canvasReport[r].page IN
       IF page <= Len(assignments) /\ assignments[page].key = canvasReport[r].key
       THEN canvasReport' = [canvasReport EXCEPT ![r] = ReportFinds(@, assignments[page].id)]
       ELSE IF page < Len(assignments) /\ page < CanvasPageLimit
       THEN canvasReport' = [canvasReport EXCEPT ![r].page = page + 1]
       ELSE ReportGoto(r, "create")
    /\ UNCHANGED <<assignments, canvasMade, canvasLinked, canvasUsers, canvasDedupe>>

CanvasAppend(k) ==
    /\ canvasMade < CanvasMaxAssignments
    /\ canvasMade' = canvasMade + 1
    /\ assignments' = Append(assignments, [id |-> canvasMade + 1, key |-> k,
                                           stamp |-> canvasMade + 1, graded |-> {}])

\* The assignment is created; its id is in the answer, which may get lost.
ReportCreate(r) ==
    /\ canvasReport[r].pc = "create"
    /\ CanvasAppend(canvasReport[r].key)
    /\ \E report \in {ReportFinds(canvasReport[r], canvasMade + 1), ReportOver("failed")} :
           canvasReport' = ReportsRaced(r, report)
    /\ UNCHANGED <<canvasLinked, canvasUsers, canvasDedupe>>

\* The submission: 404 if the assignment has been removed meanwhile.
ReportSubmit(r) ==
    /\ canvasReport[r].pc = "submit"
    /\ IF CanvasListed(canvasReport[r].assignment)
       THEN /\ assignments' = [assignments EXCEPT ![CanvasPosition(canvasReport[r].assignment)].graded =
                                   @ \cup {canvasReport[r].learner}]
            /\ \E pc \in CanvasIdle : ReportEnds(r, pc)
       ELSE ReportEnds(r, "failed") /\ UNCHANGED assignments
    /\ UNCHANGED <<canvasMade, canvasLinked, canvasUsers, canvasDedupe>>

-----------------------------------------------------------------------------
(* cleanup_duplicate_assignment_records, and the people in Canvas *)

DedupeBegin(d) ==
    /\ canvasDedupe[d].pc = "idle"
    /\ canvasDedupe' = [canvasDedupe EXCEPT ![d] = [DedupeBlank EXCEPT !.pc = "list"]]
    /\ UNCHANGED <<assignments, canvasMade, canvasLinked, canvasUsers, canvasReport>>

\* What clean-up c keeps, so far, of the assignments with a's integration id.
DedupeHeld(c, a) == {h \in c.newest : h.key = a.key}

AssignmentIds(set) == {h.id : h \in set}

\* _parse_unique_newest_assignments: of the assignments with one integration id the
\* one updated last is kept, among those read so far.
DedupeParse(c, a) ==
    IF DedupeHeld(c, a) = {}
    THEN [c EXCEPT !.newest = @ \cup {a}]
    ELSE IF \A h \in DedupeHeld(c, a) : h.stamp < a.stamp
    THEN [c EXCEPT !.newest = (@ \ DedupeHeld(c, a)) \cup {a},
                   !.doomed = @ \cup AssignmentIds(DedupeHeld(c, a))]
    ELSE [c EXCEPT !.doomed = @ \cup {a.id}]

\* A page that cannot be read ends the reading, not the clean-up.
DedupeList(d) ==
    /\ canvasDedupe[d].pc = "list"
    /\ \/ canvasDedupe' = [canvasDedupe EXCEPT ![d].pc = "remove"]
       \/ LET page == canvasDedupe[d].page
              read == IF page > Len(assignments) THEN canvasDedupe[d]
                      ELSE DedupeParse(canvasDedupe[d],
                                       [id |-> assignments[page].id, key |-> assignments[page].key,
                                        stamp |-> assignments[page].stamp])
          IN  canvasDedupe' = [canvasDedupe EXCEPT ![d] =
                                  IF page < Len(assignments) /\ page < CanvasPageLimit
                                  THEN [read EXCEPT !.page = page + 1]
                                  ELSE [read EXCEPT !.pc = "remove"]]
    /\ UNCHANGED <<assignments, canvasMade, canvasLinked, canvasUsers, canvasReport>>

\* The clean-ups once d is done with assignment i; the others are raced by its removal.
DedupeDone(d, i) == [canvasDedupe[d] EXCEPT !.doomed = @ \ {i}]
DedupesRaced(d, i) ==
    [e \in CanvasCleaners |->
        IF e = d THEN DedupeDone(d, i)
        ELSE IF canvasDedupe[e].pc = "idle" THEN canvasDedupe[e]
        ELSE [canvasDedupe[e] EXCEPT !.raced = @ \cup {CanvasAssignment(i).key}]]

\* _bulk_remove_course_assignments: the ones that cannot be removed are skipped.
DedupeRemove(d, i) ==
    /\ canvasDedupe[d].pc = "remove" /\ i \in canvasDedupe[d].doomed
    /\ \/ /\ CanvasListed(i)
          /\ assignments' = RemoveAt(assignments, CanvasPosition(i))
          /\ canvasReport' = [r \in CanvasReporters |-> ReportRaced(canvasReport[r])]
          /\ canvasDedupe' = DedupesRaced(d, i)
       \/ /\ canvasDedupe' = [canvasDedupe EXCEPT ![d] = DedupeDone(d, i)]
          /\ UNCHANGED <<assignments, canvasReport>>
    /\ UNCHANGED <<canvasMade, canvasLinked, canvasUsers>>

DedupeEnd(d) ==
    /\ canvasDedupe[d].pc = "remove" /\ canvasDedupe[d].doomed = {}
    /\ canvasDedupe' = [canvasDedupe EXCEPT ![d] = DedupeBlank]
    /\ UNCHANGED <<assignments, canvasMade, canvasLinked, canvasUsers, canvasReport>>

\* A teacher makes an assignment, or edits one, which becomes the newest.
TeacherCreates ==
    /\ CanvasAppend(CanvasOwnKey)
    /\ UNCHANGED <<canvasLinked, canvasUsers, canvasReport, canvasDedupe>>

TeacherEdits(n) ==
    /\ canvasMade < CanvasMaxAssignments
    /\ canvasMade' = canvasMade + 1
    /\ assignments' = [assignments EXCEPT ![n].stamp = canvasMade + 1]
    /\ UNCHANGED <<canvasLinked, canvasUsers, canvasReport, canvasDedupe>>

\* A learner leaves Canvas.
LearnerLeaves(l) ==
    /\ canvasUsers' = canvasUsers \ {l}
    /\ UNCHANGED <<assignments, canvasMade, canvasLinked, canvasReport, canvasDedupe>>

GradebookNext ==
    \/ \E r \in CanvasReporters, l \in canvasLinked, k \in CanvasGradeKeys : ReportBegin(r, l, k)
    \/ \E r \in CanvasReporters :
           \/ ReportUser(r) \/ ReportCourse(r) \/ ReportList(r) \/ ReportCreate(r)
           \/ ReportSubmit(r) \/ ReportFails(r)
    \/ \E d \in CanvasCleaners : DedupeBegin(d) \/ DedupeList(d) \/ DedupeEnd(d)
    \/ \E d \in CanvasCleaners, i \in CanvasIds : DedupeRemove(d, i)
    \/ TeacherCreates
    \/ \E n \in DOMAIN assignments : TeacherEdits(n)
    \/ \E l \in CanvasLearners : LearnerLeaves(l)

GradebookSpec == GradebookInit /\ [][GradebookNext]_gradebookVars

-----------------------------------------------------------------------------
(* Properties *)

CanvasKeysHeld == {assignments[n].key : n \in DOMAIN assignments}

\* A grade's assignment is kept and is found again: an integration id loses its last
\* assignment only to a clean-up under which another clean-up removed an assignment of the
\* same id, whatever is reported and edited while it reads the list and removes from it
\* (cleanup_duplicate_assignment_records), and a second one is made only when
\* the list changed under the report, or is longer than the pages that are read
\* (_handle_canvas_assignment_retrieval).
AssignmentsKeptAndFound ==
    [][/\ \A k \in CanvasKeysHeld \ CanvasKeysHeld' :
             \E d \in CanvasCleaners : canvasDedupe[d].pc = "remove" /\ k \in canvasDedupe[d].raced
       /\ \A r \in CanvasReporters :
             canvasReport[r].pc = "create" /\ Len(assignments') > Len(assignments)
                 /\ canvasReport'[r].pc \in {"submit", "failed"} =>
                 \/ canvasReport[r].raced
                 \/ \A n \in 1 .. Len(assignments) :
                        n <= CanvasPageLimit => assignments[n].key # canvasReport[r].key]_gradebookVars

\* "Remove all but the most recent, unique assessments" (cleanup_duplicate_assignment_records).
\* Fails: two clean-ups with an edit between their readings keep different ones, and
\* remove each other's.
DedupeKeepsOne == [][CanvasKeysHeld \cap CanvasGradeKeys \subseteq CanvasKeysHeld']_gradebookVars

\* What is removed is a duplicate of an assignment of the channel's ("duplicate
\* assignments (ID's) that need to be deleted", canvas/client.py).  Fails: assignments
\* the teachers made have no integration id, and are taken for duplicates of each other.
DedupeRemovesDuplicates ==
    \A d \in CanvasCleaners : \A i \in canvasDedupe[d].doomed :
        CanvasListed(i) => CanvasAssignment(i).key # CanvasOwnKey

\* A grade that was reported stays in Canvas.  Fails: reports find the duplicate that is
\* listed first, the clean-up keeps the one that was edited last.
DedupeKeepsGrades ==
    [][\A n \in DOMAIN assignments : \A l \in assignments[n].graded :
          \E m \in DOMAIN assignments' :
              assignments'[m].key = assignments[n].key /\ l \in assignments'[m].graded]_gradebookVars
=============================================================================
