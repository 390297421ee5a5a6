---------------------------- MODULE LearnerData ----------------------------
(***************************************************************************)
(* Completions of the learners of one customer, reported to the             *)
(* configurations it has of one push channel (Degreed2, Canvas, Blackboard, *)
(* Moodle, SAP): exporters/learner_data.py collects the enrollments still   *)
(* to be reported and makes an audit record for each, transmitters/         *)
(* learner_data.py sends it and saves the answer.                           *)
(*                                                                         *)
(* Three tasks do this: the scheduled one for all enrollments of a          *)
(* configuration and the one an operator forces for an enrollment, which    *)
(* share a lock for each configuration, and the one a passed course starts, *)
(* which goes over all configurations without a lock.                       *)
(***************************************************************************)
EXTENDS Integers

CONSTANTS
    Enrollments,     \* enterprise course enrollments of the customer
    Configs,         \* its configurations of the channel
    Workers,         \* Celery workers
    MaxGrade,        \* bound: grades, 0 for a learner without one
    CompareGrades,   \* INCLUDE_GRADE_FOR_COMPLETION_AUDIT_CHECK of the channel
    SendIncomplete,  \* enable_incomplete_progress_transmission
    MaxChanges,      \* bound: grades and consents changed
    MaxSingles,      \* bound: tasks started by a passed course
    MaxForced,       \* bound: tasks an operator forces
    MaxFailures,     \* bound: requests that fail, courses not found
    MaxDeaths        \* bound: workers that die

ASSUME LearnerAssumption ==
    /\ Enrollments # {} /\ Configs # {}
    /\ MaxGrade \in Nat /\ CompareGrades \in BOOLEAN /\ SendIncomplete \in BOOLEAN
    /\ MaxChanges \in Nat /\ MaxSingles \in Nat /\ MaxForced \in Nat
    /\ MaxFailures \in Nat /\ MaxDeaths \in Nat

VARIABLES
    learner,   \* each enrollment's progress and consent
    audit,     \* the one LearnerDataTransmissionAudit of each enrollment
    task,      \* the task each worker is in
    last,      \* what each configuration's LMS was told last of an enrollment
    reports,   \* history: how often it was told
    spent      \* how much of each bound is used

vars == <<learner, audit, task, last, reports, spent>>
-----------------------------------------------------------------------------
Grade == 0..MaxGrade
NoGrade == 0
Pass == -1      \* the grade 'Pass', equal to no grade of a record

Learner == [completed : BOOLEAN, grade : Grade, consent : BOOLEAN]

\* The course is part of the enrollment: a unique index admits one record for it.
Audit == [stored : BOOLEAN, config : Configs, completed : BOOLEAN, grade : Grade,
          transmitted : BOOLEAN]
Report == [told : BOOLEAN, completed : BOOLEAN, grade : Grade]

AConfig == CHOOSE c \in Configs : TRUE
AnEnrollment == CHOOSE e \in Enrollments : TRUE
NoAudit == [stored |-> FALSE, config |-> AConfig, completed |-> FALSE, grade |-> NoGrade,
            transmitted |-> FALSE]
NoReport == [told |-> FALSE, completed |-> FALSE, grade |-> NoGrade]

\* A task goes over the configurations left, for each over the enrollments in todo,
\* and holds a copy of the record of enrollment e.
TaskKind == {"bulk", "forced", "single"}
TaskPC == {"idle", "collect", "export", "send", "save"}
Task == [kind : TaskKind, pc : TaskPC, scope : SUBSET Enrollments, left : SUBSET Configs,
         config : Configs, todo : SUBSET Enrollments, e : Enrollments, copy : Audit,
         ok : BOOLEAN]
Idle == [kind |-> "bulk", pc |-> "idle", scope |-> {}, left |-> {}, config |-> AConfig,
         todo |-> {}, e |-> AnEnrollment, copy |-> NoAudit, ok |-> FALSE]

Bounds == {"changes", "singles", "forced", "failures", "deaths"}
Spend(what, bound) ==
    /\ spent[what] < bound
    /\ spent' = [spent EXCEPT ![what] = @ + 1]
-----------------------------------------------------------------------------
\* Fault: a record that was not transmitted counts.
AlreadyTransmitted_Any(e, c, grade) ==
    /\ audit[e].stored /\ audit[e].config = c
    /\ CompareGrades => audit[e].grade = grade

\* is_already_transmitted: the configuration has a record that was transmitted.
AlreadyTransmitted(e, c, grade) ==
    /\ audit[e].stored /\ audit[e].config = c /\ audit[e].transmitted
    /\ CompareGrades => audit[e].grade = grade

\* _filter_out_pre_transmitted_enrollments: the grade asked for is not the learner's.
Filtered(kind, e, c) ==
    /\ kind # "forced"
    /\ AlreadyTransmitted(e, c, IF kind = "single" THEN Pass ELSE NoGrade)

\* get_learner_data_records: the record there is, as it is and whichever
\* configuration made it, or else a new one, not stored yet.
Record(e, c) ==
    IF audit[e].stored THEN audit[e]
    ELSE [stored |-> FALSE, config |-> c, completed |-> learner[e].completed,
          grade |-> learner[e].grade, transmitted |-> FALSE]

\* Fault: nothing is skipped once a record has been made.
Skipped_Incomplete(kind, r, e, c) == ~r.completed /\ ~SendIncomplete

\* A record the transmitter does not send.
Skipped(kind, r, e, c) ==
    \/ ~r.completed /\ ~SendIncomplete
    \/ kind # "forced" /\ AlreadyTransmitted(e, c, r.grade)
-----------------------------------------------------------------------------
Init ==
    /\ learner = [e \in Enrollments |-> [completed |-> FALSE, grade |-> NoGrade,
                                         consent |-> TRUE]]
    /\ audit = [e \in Enrollments |-> NoAudit]
    /\ task = [w \in Workers |-> Idle]
    /\ last = [p \in Enrollments \X Configs |-> NoReport]
    /\ reports = [p \in Enrollments \X Configs |-> 0]
    /\ spent = [b \in Bounds |-> 0]
-----------------------------------------------------------------------------
(* The tasks start.                                                        *)

\* The lock of a configuration.
Locked(c) ==
    \E v \in Workers : task[v].pc # "idle" /\ task[v].kind # "single" /\ task[v].config = c

StartTask(w, kind, scope, configs, c) ==
    /\ task[w].pc = "idle"
    /\ task' = [task EXCEPT ![w] = [Idle EXCEPT !.kind = kind, !.pc = "collect",
                                    !.scope = scope, !.left = configs, !.config = c]]

StartBulk(w, c) ==
    /\ ~Locked(c)
    /\ StartTask(w, "bulk", Enrollments, {c}, c)
    /\ UNCHANGED <<learner, audit, last, reports, spent>>

StartForced(w, c, e) ==
    /\ ~Locked(c)
    /\ Spend("forced", MaxForced)
    /\ StartTask(w, "forced", {e}, {c}, c)
    /\ UNCHANGED <<learner, audit, last, reports>>

StartSingle(w, e) ==
    /\ learner[e].completed
    /\ Spend("singles", MaxSingles)
    /\ StartTask(w, "single", {e}, Configs, AConfig)
    /\ UNCHANGED <<learner, audit, last, reports>>
-----------------------------------------------------------------------------
(* export and transmit, for one configuration after the other.             *)

\* _determine_enrollments_permitted.
Collect(w, c) ==
    /\ task[w].pc = "collect" /\ c \in task[w].left
    /\ LET t == task[w]
           permitted == {e \in t.scope : learner[e].consent /\ ~Filtered(t.kind, e, c)}
       IN task' = [task EXCEPT ![w] =
            [t EXCEPT !.pc = "export", !.config = c, !.left = t.left \ {c},
                      !.todo = permitted]]
    /\ UNCHANGED <<learner, audit, last, reports, spent>>

Without(t, e) == [t EXCEPT !.todo = t.todo \ {e}]

\* The generator reaches enrollment e and the transmitter looks at its record.
Pick(w, e) ==
    /\ task[w].pc = "export" /\ e \in task[w].todo
    /\ LET t == Without(task[w], e)
           r == Record(e, t.config)
       IN task' = [task EXCEPT ![w] =
            IF Skipped(t.kind, r, e, t.config) THEN t
            ELSE [t EXCEPT !.pc = "send", !.e = e, !.copy = r]]
    /\ UNCHANGED <<learner, audit, last, reports, spent>>

\* The course is not found, or the learner has no id in the LMS: nothing to report.
PickFails(w, e) ==
    /\ task[w].pc = "export" /\ e \in task[w].todo
    /\ Spend("failures", MaxFailures)
    /\ task' = [task EXCEPT ![w] = Without(task[w], e)]
    /\ UNCHANGED <<learner, audit, last, reports>>

\* The customer's LMS takes the report in.
Told(w) ==
    LET p == <<task[w].e, task[w].config>>
    IN /\ last' = [last EXCEPT ![p] = [told |-> TRUE, completed |-> task[w].copy.completed,
                                       grade |-> task[w].copy.grade]]
       /\ reports' = [reports EXCEPT ![p] = @ + 1]

Untold == UNCHANGED <<last, reports>>

\* It answers below 300.
SendAccepted(w) ==
    /\ task[w].pc = "send"
    /\ Told(w)
    /\ task' = [task EXCEPT ![w] = [task[w] EXCEPT !.pc = "save", !.ok = TRUE]]
    /\ UNCHANGED <<learner, audit, spent>>

\* It answers an error, or the client raises a ClientError.
SendRejected(w) ==
    /\ task[w].pc = "send"
    /\ Spend("failures", MaxFailures)
    /\ Told(w) \/ Untold
    /\ task' = [task EXCEPT ![w] = [task[w] EXCEPT !.pc = "save", !.ok = FALSE]]
    /\ UNCHANGED <<learner, audit>>

\* The client raises something else: the task ends, with nothing saved.
SendRaises(w) ==
    /\ task[w].pc = "send"
    /\ Spend("failures", MaxFailures)
    /\ Told(w) \/ Untold
    /\ task' = [task EXCEPT ![w] = Idle]
    /\ UNCHANGED <<learner, audit>>

\* On to the next enrollment.
GoOn(t) == [t EXCEPT !.pc = "export", !.e = AnEnrollment, !.copy = NoAudit, !.ok = FALSE]

\* Fault: is_transmitted whatever the answer.
Save_AnyAnswer(w) ==
    /\ task[w].pc = "save"
    /\ audit' = [audit EXCEPT ![task[w].e] =
                   [task[w].copy EXCEPT !.stored = TRUE, !.transmitted = TRUE]]
    /\ task' = [task EXCEPT ![w] = GoOn(task[w])]
    /\ UNCHANGED <<learner, last, reports, spent>>

\* learner_data.save(): all of the copy; a second record for the enrollment
\* violates the unique index and the task ends.
Save(w) ==
    /\ task[w].pc = "save"
    /\ IF ~task[w].copy.stored /\ audit[task[w].e].stored
       THEN /\ task' = [task EXCEPT ![w] = Idle]
            /\ UNCHANGED audit
       ELSE /\ audit' = [audit EXCEPT ![task[w].e] =
                           [task[w].copy EXCEPT !.stored = TRUE, !.transmitted = task[w].ok]]
            /\ task' = [task EXCEPT ![w] = GoOn(task[w])]
    /\ UNCHANGED <<learner, last, reports, spent>>

EndConfig(w) ==
    /\ task[w].pc = "export" /\ task[w].todo = {}
    /\ task' = [task EXCEPT ![w] =
                  IF task[w].left = {} THEN Idle ELSE [task[w] EXCEPT !.pc = "collect"]]
    /\ UNCHANGED <<learner, audit, last, reports, spent>>

\* The worker dies; its lock is taken to have expired.
Die(w) ==
    /\ task[w].pc # "idle"
    /\ Spend("deaths", MaxDeaths)
    /\ task' = [task EXCEPT ![w] = Idle]
    /\ UNCHANGED <<learner, audit, last, reports>>
-----------------------------------------------------------------------------
(* The learners.                                                           *)

Complete(e) ==
    /\ ~learner[e].completed
    /\ \E g \in Grade :
         learner' =
           [learner EXCEPT ![e] = [learner[e] EXCEPT !.completed = TRUE, !.grade = g]]
    /\ UNCHANGED <<audit, task, last, reports, spent>>

Regrade(e, g) ==
    /\ learner[e].grade # g
    /\ Spend("changes", MaxChanges)
    /\ learner' = [learner EXCEPT ![e] = [learner[e] EXCEPT !.grade = g]]
    /\ UNCHANGED <<audit, task, last, reports>>

ChangeConsent(e) ==
    /\ Spend("changes", MaxChanges)
    /\ learner' =
         [learner EXCEPT ![e] = [learner[e] EXCEPT !.consent = ~learner[e].consent]]
    /\ UNCHANGED <<audit, task, last, reports>>
-----------------------------------------------------------------------------
Work(w) ==
    \/ \E c \in Configs : Collect(w, c)
    \/ \E e \in Enrollments : Pick(w, e) \/ PickFails(w, e)
    \/ SendAccepted(w) \/ SendRejected(w) \/ SendRaises(w)
    \/ Save(w) \/ EndConfig(w)

Environment ==
    \E e \in Enrollments :
        Complete(e) \/ (\E g \in Grade : Regrade(e, g)) \/ ChangeConsent(e)

Next ==
    \/ \E w \in Workers, c \in Configs : StartBulk(w, c)
    \/ \E w \in Workers, c \in Configs, e \in Enrollments : StartForced(w, c, e)
    \/ \E w \in Workers, e \in Enrollments : StartSingle(w, e)
    \/ \E w \in Workers : Work(w) \/ Die(w)
    \/ Environment

Spec == Init /\ [][Next]_vars

\* A task that has started goes on, and the scheduled one of each configuration
\* starts again and again.
Fairness ==
    /\ \A w \in Workers : WF_vars(Work(w))
    /\ \A c \in Configs : SF_vars(\E w \in Workers : StartBulk(w, c))

FairSpec == Spec /\ Fairness
-----------------------------------------------------------------------------
TypeOK ==
    /\ learner \in [Enrollments -> Learner]
    /\ audit \in [Enrollments -> Audit]
    /\ task \in [Workers -> Task]
    /\ last \in [Enrollments \X Configs -> Report]
    /\ reports \in [Enrollments \X Configs -> Nat]
    /\ spent \in [Bounds -> Nat]

\* A record marked as transmitted, for which its enrollment is skipped from then on,
\* was taken in by the LMS of the configuration it names (transmit).
TransmittedWasReported ==
    \A e \in Enrollments : audit[e].transmitted => last[<<e, audit[e].config>>].told

\* An accepted report about to be saved was taken in by the configuration at hand.
AcceptedWasTold ==
    \A w \in Workers :
        task[w].pc = "save" /\ task[w].ok => last[<<task[w].e, task[w].config>>].told

\* Nobody is reported again and again: each fault, each forced task and each
\* unlocked task adds one report at most to the one that is due.
ReportsBounded ==
    \A p \in Enrollments \X Configs :
        reports[p] <= 1 + spent["failures"] + spent["deaths"] + spent["forced"] + spent["singles"]

\* Every completion of a learner who consents is reported to every configuration,
\* whatever fails, dies, or saves over what another task has saved.
EveryCompletionReported ==
    \A e \in Enrollments, c \in Configs :
        learner[e].completed /\ learner[e].consent
            ~> last[<<e, c>>].completed \/ ~learner[e].consent
=============================================================================
