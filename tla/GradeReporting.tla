--------------------------- MODULE GradeReporting ---------------------------
(***************************************************************************)
(* What an LMS client promises about grades: a report that is answered has   *)
(* recorded the grade, one that fails may or may not have, and nothing but a *)
(* report changes what the LMS shows for a learner.                           *)
(***************************************************************************)
CONSTANTS Learners, Grades, NoGrade

VARIABLES shown,      \* the grade the LMS shows for each learner
          confirmed   \* the grade of the last report of a learner that was answered

GradeReportingInit ==
    /\ shown = [l \in Learners |-> NoGrade]
    /\ confirmed = [l \in Learners |-> NoGrade]

\* The report arrives, ...
Record(l, g) ==
    /\ shown' = [shown EXCEPT ![l] = g]
    /\ UNCHANGED confirmed

\* ... and is answered: the LMS shows the grade.
Confirm(l) ==
    /\ confirmed' = [confirmed EXCEPT ![l] = shown[l]]
    /\ UNCHANGED shown

GradeReportingNext == \E l \in Learners : Confirm(l) \/ \E g \in Grades : Record(l, g)

GradeReportingSpec == GradeReportingInit /\ [][GradeReportingNext]_<<shown, confirmed>>
=============================================================================
