--------------------------- MODULE SubsectionGrades ---------------------------
(***************************************************************************)
(* Grades of subsections (transmit_subsection_learner_data,                   *)
(* transmit_single_subsection_learner_data and the exporters and transmitters *)
(* behind them): a bulk task, kept single by its lock, and tasks without a    *)
(* lock, one for each subsection completed.  One learner with consent in one  *)
(* course, one channel with assessment level support.                         *)
(***************************************************************************)
EXTENDS Naturals

CONSTANTS
    SubSections,       \* the subsections of the course
    SubGrades,         \* percentages above 0
    SubNone,           \* no subsection
    SubBulk,           \* the bulk task
    SubSingles,        \* tasks for one subsection that may run at a time
    SubChanges,        \* bound: how often a subsection is graded
    SubTroubles        \* bound: refused reports, lost answers, deaths of a task

ASSUME SubAssumption == SubChanges \in Nat /\ SubTroubles \in Nat

VARIABLES
    subGrade,          \* the platform's grade of each subsection; 0: none, or zero
    subLatest,         \* the grade of the latest audit with is_transmitted; 0: there is none
    subShown,          \* the grade the learning management system shows; 0: none
    subSignals,        \* calls of the single task the broker holds
    subTask,           \* what each task is doing
    subChanges,        \* gradings so far
    subTroubles,       \* troubles so far
    subUnsure          \* subsections of which a report crossed another, or whose answer is lost

subVars == <<subGrade, subLatest, subShown, subSignals, subTask, subChanges, subTroubles, subUnsure>>

SubTasks == {SubBulk} \cup SubSingles
SubAnyGrade == SubGrades \cup {0}
SubBlank == [s \in SubSections |-> 0]
SubIdle == [pc |-> "idle", read |-> SubBlank, todo |-> {}, item |-> SubNone, ok |-> FALSE]

SubTypeOK ==
    /\ subGrade \in [SubSections -> SubAnyGrade]
    /\ subLatest \in [SubSections -> SubAnyGrade]
    /\ subShown \in [SubSections -> SubAnyGrade]
    /\ subSignals \subseteq [section : SubSections, grade : SubGrades]
    /\ subTask \in [SubTasks -> [pc : {"idle", "next", "send", "save"}, read : [SubSections -> SubAnyGrade],
           todo : SUBSET SubSections, item : SubSections \cup {SubNone}, ok : BOOLEAN]]
    /\ subChanges \in 0 .. SubChanges
    /\ subTroubles \in 0 .. SubTroubles
    /\ subUnsure \subseteq SubSections

SubInit ==
    /\ subGrade = SubBlank /\ subLatest = SubBlank /\ subShown = SubBlank
    /\ subSignals = {} /\ subTask = [p \in SubTasks |-> SubIdle]
    /\ subChanges = 0 /\ subTroubles = 0 /\ subUnsure = {}

-----------------------------------------------------------------------------
(* The platform: a subsection is graded, and its completion is signalled *)

SubRegrade(s, g) ==
    /\ subChanges < SubChanges /\ g # subGrade[s]
    /\ subGrade' = [subGrade EXCEPT ![s] = g]
    /\ subSignals' = IF g > 0 THEN subSignals \cup {[section |-> s, grade |-> g]} ELSE subSignals
    /\ subChanges' = subChanges + 1
    /\ UNCHANGED <<subLatest, subShown, subTask, subTroubles, subUnsure>>

-----------------------------------------------------------------------------
(* The tasks: transmit_subsection_learner_data and transmit_single_...  *)

\* The records the exporter makes of the grades it reads: a grade that is not above 0
\* is not one to report.
SubRecords == {s \in SubSections : subGrade[s] > 0}

SubExport == [SubIdle EXCEPT !.pc = "next", !.read = subGrade, !.todo = SubRecords]

SubMove(p, task) == subTask' = [subTask EXCEPT ![p] = task]

SubStartBulk ==
    /\ subTask[SubBulk].pc = "idle" /\ SubRecords # {}
    /\ SubMove(SubBulk, SubExport)
    /\ UNCHANGED <<subGrade, subLatest, subShown, subSignals, subChanges, subTroubles, subUnsure>>

\* is_already_transmitted
SubTransmitted(s, g) == subLatest[s] = g

\* Unless the signalled grade is the latest one transmitted, the task exports every
\* subsection the learner has attempted.
SubStartSingle(p, signal) ==
    /\ signal \in subSignals /\ subTask[p].pc = "idle"
    /\ subSignals' = subSignals \ {signal}
    /\ SubMove(p, IF SubTransmitted(signal.section, signal.grade) \/ SubRecords = {} THEN SubIdle
                  ELSE SubExport)
    /\ UNCHANGED <<subGrade, subLatest, subShown, subChanges, subTroubles, subUnsure>>

\* Fault: a subsection is skipped whenever anything was transmitted for it.
SubSkips_Any(p, s) == p = SubBulk /\ subLatest[s] > 0

\* The bulk task looks for an audit once more; the single task sends every record.
SubSkips(p, s) == p = SubBulk /\ SubTransmitted(s, subTask[p].read[s])

SubPick(p, s) ==
    LET task == subTask[p]
        rest == task.todo \ {s}
        after == IF rest = {} THEN SubIdle ELSE [task EXCEPT !.todo = rest]
    IN  /\ task.pc = "next" /\ s \in task.todo
        /\ SubMove(p, IF SubSkips(p, s) THEN after
                      ELSE [task EXCEPT !.pc = "send", !.todo = rest, !.item = s])
        /\ UNCHANGED <<subGrade, subLatest, subShown, subSignals, subChanges, subTroubles, subUnsure>>

SubShows(p) == subShown' = [subShown EXCEPT ![subTask[p].item] = subTask[p].read[subTask[p].item]]

\* A report of the same subsection has been accepted and its audit is not saved yet.
SubCrossed(p) ==
    \E q \in SubTasks \ {p} :
        subTask[q].pc = "save" /\ subTask[q].ok /\ subTask[q].item = subTask[p].item

SubAccepted(p) ==
    LET s == subTask[p].item IN
    /\ subTask[p].pc = "send"
    /\ SubShows(p)
    /\ SubMove(p, [subTask[p] EXCEPT !.pc = "save", !.ok = TRUE])
    /\ subUnsure' = IF SubCrossed(p) THEN subUnsure \cup {s} ELSE subUnsure \ {s}
    /\ UNCHANGED <<subGrade, subLatest, subSignals, subChanges, subTroubles>>

SubTrouble == subTroubles < SubTroubles /\ subTroubles' = subTroubles + 1

\* The client raises a ClientError, or answers 400 or more.
SubRejected(p) ==
    /\ subTask[p].pc = "send" /\ SubTrouble
    /\ SubMove(p, [subTask[p] EXCEPT !.pc = "save", !.ok = FALSE])
    /\ UNCHANGED <<subGrade, subLatest, subShown, subSignals, subChanges, subUnsure>>

\* The report arrives and its answer does not: any other exception ends the task, and no
\* audit is saved.
SubAnswerLost(p) ==
    /\ subTask[p].pc = "send" /\ SubTrouble
    /\ SubShows(p)
    /\ subUnsure' = subUnsure \cup {subTask[p].item}
    /\ SubMove(p, SubIdle)
    /\ UNCHANGED <<subGrade, subLatest, subSignals, subChanges>>

\* The audit is a new row, so the one saved last is the latest.
SubSave(p) ==
    LET task == subTask[p] IN
    /\ task.pc = "save"
    /\ subLatest' = IF task.ok THEN [subLatest EXCEPT ![task.item] = task.read[task.item]] ELSE subLatest
    /\ SubMove(p, IF task.todo = {} THEN SubIdle
                  ELSE [task EXCEPT !.pc = "next", !.item = SubNone, !.ok = FALSE])
    /\ UNCHANGED <<subGrade, subShown, subSignals, subChanges, subTroubles, subUnsure>>

SubDies(p) ==
    /\ subTask[p].pc # "idle" /\ SubTrouble
    /\ subUnsure' = IF subTask[p].ok THEN subUnsure \cup {subTask[p].item} ELSE subUnsure
    /\ SubMove(p, SubIdle)
    /\ UNCHANGED <<subGrade, subLatest, subShown, subSignals, subChanges>>

-----------------------------------------------------------------------------

SubStep(p) == SubAccepted(p) \/ SubSave(p) \/ \E s \in SubSections : SubPick(p, s)

SubNext ==
    \/ SubStartBulk
    \/ \E s \in SubSections, g \in SubAnyGrade : SubRegrade(s, g)
    \/ \E p \in SubSingles, signal \in subSignals : SubStartSingle(p, signal)
    \/ \E p \in SubTasks : SubStep(p) \/ SubRejected(p) \/ SubAnswerLost(p) \/ SubDies(p)

SubSpec == SubInit /\ [][SubNext]_subVars

SubFairSpec == SubSpec /\ WF_subVars(SubStartBulk) /\ \A p \in SubTasks : WF_subVars(SubStep(p))

-----------------------------------------------------------------------------
(* Properties *)

\* Whatever tasks ran side by side, with grades they read before others reported newer
\* ones, the learning management system ends up with the platform's grade of every
\* subsection with one above 0 (assessment_level_transmit), unless the last report of it
\* crossed another or its answer was lost.
SubsectionsReported ==
    <>[](\A s \in SubSections : subGrade[s] = 0 \/ subShown[s] = subGrade[s] \/ s \in subUnsure)

\* The same of those subsections too.  Fails: an audit of another grade hides that the
\* report arrived, or arrived later, and the bulk task skips the subsection for good.
AllSubsectionsReported ==
    <>[](\A s \in SubSections : subGrade[s] = 0 \/ subShown[s] = subGrade[s])

\* A grade taken back to 0 is reported too.  Fails: the exporter takes 0 for no grade.
SubZeroReported == <>[](\A s \in SubSections : subShown[s] = subGrade[s] \/ s \in subUnsure)

\* "only sends the data for that sub-section" (transmit_single_subsection_learner_data).
\* Fails: it exports every subsection the learner has attempted, those transmitted
\* before included.
SubSingleSendsOne ==
    \A p \in SubSingles : subTask[p].pc = "send" =>
        ~SubTransmitted(subTask[p].item, subTask[p].read[subTask[p].item])
=============================================================================
