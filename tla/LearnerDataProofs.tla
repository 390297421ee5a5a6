-------------------------- MODULE LearnerDataProofs --------------------------
(***************************************************************************)
(* What holds of LearnerData for every set of enrollments and workers.      *)
(***************************************************************************)
EXTENDS LearnerData, FiniteSets, FiniteSetTheorems, TLAPS

LEMMA Defaults == NoAudit \in Audit /\ NoReport \in Report /\ Idle \in Task
<1>1. AConfig \in Configs /\ AnEnrollment \in Enrollments
    BY LearnerAssumption DEF AConfig, AnEnrollment
<1>2. NoGrade \in Grade
    BY LearnerAssumption DEF NoGrade, Grade
<1>3. NoAudit \in Audit /\ NoReport \in Report
    BY <1>1, <1>2 DEF NoAudit, NoReport, Audit, Report
<1> QED
    BY <1>1, <1>3 DEF Idle, Task, TaskKind, TaskPC

\* The types of the parts a step reads.
LEMMA Parts ==
    ASSUME TypeOK, NEW w \in Workers
    PROVE  /\ task[w] \in Task
           /\ task[w].e \in Enrollments /\ task[w].config \in Configs
           /\ task[w].copy \in Audit /\ task[w].ok \in BOOLEAN
           /\ task[w].scope \in SUBSET Enrollments /\ task[w].todo \in SUBSET Enrollments
           /\ task[w].left \in SUBSET Configs
           /\ <<task[w].e, task[w].config>> \in Enrollments \X Configs
BY DEF TypeOK, Task

LEMMA SpendType ==
    ASSUME TypeOK, NEW b \in Bounds, NEW n, Spend(b, n)
    PROVE  spent' \in [Bounds -> Nat]
BY DEF TypeOK, Spend

\* A worker whose task is replaced by one of the right type.
LEMMA TaskType ==
    ASSUME TypeOK, NEW w \in Workers, NEW t \in Task, task' = [task EXCEPT ![w] = t]
    PROVE  task' \in [Workers -> Task]
BY DEF TypeOK

LEMMA ToldType ==
    ASSUME TypeOK, NEW w \in Workers, Told(w)
    PROVE  /\ last' \in [Enrollments \X Configs -> Report]
           /\ reports' \in [Enrollments \X Configs -> Nat]
<1> DEFINE p == <<task[w].e, task[w].config>>
           r == [told |-> TRUE, completed |-> task[w].copy.completed,
                 grade |-> task[w].copy.grade]
<1>1. p \in Enrollments \X Configs /\ r \in Report
    BY Parts DEF Audit, Report
<1>2. last' = [last EXCEPT ![p] = r] /\ reports' = [reports EXCEPT ![p] = @ + 1]
    BY DEF Told
<1> HIDE DEF p, r
<1> QED
    BY <1>1, <1>2 DEF TypeOK

\* The step from a record to the record the transmitter saves.
LEMMA RecordType ==
    ASSUME TypeOK, NEW e \in Enrollments, NEW c \in Configs
    PROVE  Record(e, c) \in Audit
BY DEF TypeOK, Record, Audit, Learner

\* A task as the steps change it.
LEMMA TaskStarts ==
    ASSUME NEW t \in Task, NEW kind \in TaskKind, NEW S \in SUBSET Enrollments,
           NEW C \in SUBSET Configs, NEW c \in Configs
    PROVE  [t EXCEPT !.kind = kind, !.pc = "collect", !.scope = S, !.left = C, !.config = c]
             \in Task
BY DEF Task, TaskPC

LEMMA TaskExports ==
    ASSUME NEW t \in Task, NEW c \in Configs, NEW C \in SUBSET Configs,
           NEW S \in SUBSET Enrollments
    PROVE  [t EXCEPT !.pc = "export", !.config = c, !.left = C, !.todo = S] \in Task
BY DEF Task, TaskPC

LEMMA TaskShrinks ==
    ASSUME NEW t \in Task, NEW e \in Enrollments
    PROVE  Without(t, e) \in Task
BY DEF Task, Without

LEMMA TaskSends ==
    ASSUME NEW t \in Task, NEW e \in Enrollments, NEW r \in Audit
    PROVE  [t EXCEPT !.pc = "send", !.e = e, !.copy = r] \in Task
BY DEF Task, TaskPC

LEMMA TaskAnswered ==
    ASSUME NEW t \in Task
    PROVE  /\ [t EXCEPT !.pc = "save", !.ok = TRUE] \in Task
           /\ [t EXCEPT !.pc = "save", !.ok = FALSE] \in Task
BY DEF Task, TaskPC

LEMMA TaskGoesOn ==
    ASSUME NEW t \in Task
    PROVE  GoOn(t) \in Task
<1>1. AnEnrollment \in Enrollments
    BY LearnerAssumption DEF AnEnrollment
<1> QED
    BY <1>1, Defaults DEF Task, TaskPC, GoOn

LEMMA TaskCollects ==
    ASSUME NEW t \in Task
    PROVE  [t EXCEPT !.pc = "collect"] \in Task
BY DEF Task, TaskPC

LEMMA StartType ==
    ASSUME TypeOK, NEW w \in Workers, NEW kind \in TaskKind, NEW S \in SUBSET Enrollments,
           NEW C \in SUBSET Configs, NEW c \in Configs, StartTask(w, kind, S, C, c)
    PROVE  task' \in [Workers -> Task]
<1>1. [Idle EXCEPT !.kind = kind, !.pc = "collect", !.scope = S, !.left = C, !.config = c]
        \in Task
  <2> DEFINE idle == Idle
  <2>1. idle \in Task
    BY Defaults
  <2> HIDE DEF idle
  <2>2. [idle EXCEPT !.kind = kind, !.pc = "collect", !.scope = S, !.left = C, !.config = c]
          \in Task
    BY <2>1, TaskStarts
  <2> QED
    BY <2>2 DEF idle
<1> QED
    BY <1>1, TaskType DEF StartTask

LEMMA WorkType ==
    ASSUME TypeOK, NEW w \in Workers, Work(w)
    PROVE  TypeOK'
<1> DEFINE t == task[w]
<1>0. /\ t \in Task /\ t.config \in Configs
      /\ t.todo \in SUBSET Enrollments /\ t.left \in SUBSET Configs
    BY Parts
<1>1. ASSUME NEW c \in Configs, Collect(w, c) PROVE TypeOK'
  <2> DEFINE todo == {e \in t.scope : learner[e].consent /\ ~Filtered(t.kind, e, c)}
             left == t.left \ {c}
  <2>1. todo \in SUBSET Enrollments /\ left \in SUBSET Configs
    BY Parts
  <2>2. task' = [task EXCEPT ![w] =
                  [t EXCEPT !.pc = "export", !.config = c, !.left = left, !.todo = todo]]
    BY <1>1 DEF Collect
  <2> HIDE DEF t, todo, left
  <2>3. [t EXCEPT !.pc = "export", !.config = c, !.left = left, !.todo = todo] \in Task
    BY <1>0, <2>1, TaskExports
  <2>4. task' \in [Workers -> Task]
    BY <2>2, <2>3, TaskType
  <2> QED
    BY <1>1, <2>4 DEF TypeOK, Collect
<1>2. ASSUME NEW e \in Enrollments PROVE Without(t, e) \in Task
    BY <1>0, TaskShrinks
<1>11. ASSUME NEW e \in Enrollments, Pick(w, e) PROVE TypeOK'
  <2> DEFINE u == Without(t, e)
             r == Record(e, u.config)
  <2>1. u \in Task /\ u.config \in Configs
    BY <1>2 DEF Task
  <2>2. r \in Audit
    BY <2>1, RecordType
  <2>3. \/ task' = [task EXCEPT ![w] = u]
        \/ task' = [task EXCEPT ![w] = [u EXCEPT !.pc = "send", !.e = e, !.copy = r]]
    BY <1>11 DEF Pick
  <2> HIDE DEF u, r
  <2>4. [u EXCEPT !.pc = "send", !.e = e, !.copy = r] \in Task
    BY <2>1, <2>2, TaskSends
  <2>5. task' \in [Workers -> Task]
    BY <2>1, <2>3, <2>4, TaskType
  <2> QED
    BY <1>11, <2>5 DEF TypeOK, Pick
<1>3. ASSUME NEW e \in Enrollments, PickFails(w, e) PROVE TypeOK'
  <2>2. task' \in [Workers -> Task]
    BY <1>2, <1>3, TaskType DEF PickFails
  <2>3. spent' \in [Bounds -> Nat]
    BY <1>3, SpendType DEF PickFails, Bounds
  <2> QED
    BY <1>3, <2>2, <2>3 DEF TypeOK, PickFails
<1>4. /\ [t EXCEPT !.pc = "save", !.ok = TRUE] \in Task
      /\ [t EXCEPT !.pc = "save", !.ok = FALSE] \in Task
    BY <1>0, TaskAnswered
<1>5. CASE SendAccepted(w)
  <2>1. task' \in [Workers -> Task]
    BY <1>4, <1>5, TaskType DEF SendAccepted
  <2> QED
    BY <1>5, <2>1, ToldType DEF TypeOK, SendAccepted
<1>6. ASSUME Told(w) \/ Untold
      PROVE  /\ last' \in [Enrollments \X Configs -> Report]
             /\ reports' \in [Enrollments \X Configs -> Nat]
    BY <1>6, ToldType DEF TypeOK, Untold
<1>7. CASE SendRejected(w)
  <2>1. task' \in [Workers -> Task]
    BY <1>4, <1>7, TaskType DEF SendRejected
  <2>2. spent' \in [Bounds -> Nat]
    BY <1>7, SpendType DEF SendRejected, Bounds
  <2> QED
    BY <1>6, <1>7, <2>1, <2>2 DEF TypeOK, SendRejected
<1>8. CASE SendRaises(w)
  <2>1. task' \in [Workers -> Task]
    BY <1>8, Defaults, TaskType DEF SendRaises
  <2>2. spent' \in [Bounds -> Nat]
    BY <1>8, SpendType DEF SendRaises, Bounds
  <2> QED
    BY <1>6, <1>8, <2>1, <2>2 DEF TypeOK, SendRaises
<1>9. CASE Save(w)
  <2>1. GoOn(t) \in Task
    BY <1>0, TaskGoesOn
  <2>2. task' \in [Workers -> Task]
    BY <1>9, <2>1, Defaults, TaskType DEF Save
  <2>3. [t.copy EXCEPT !.stored = TRUE, !.transmitted = t.ok] \in Audit
    BY Parts DEF Audit
  <2>4. audit' \in [Enrollments -> Audit]
    BY <1>9, <2>3, Parts DEF TypeOK, Save
  <2> QED
    BY <1>9, <2>2, <2>4 DEF TypeOK, Save
<1>10. CASE EndConfig(w)
  <2>1. [t EXCEPT !.pc = "collect"] \in Task
    BY <1>0, TaskCollects
  <2>2. task' \in [Workers -> Task]
    BY <1>10, <2>1, Defaults, TaskType DEF EndConfig
  <2> QED
    BY <1>10, <2>2 DEF TypeOK, EndConfig
<1> QED
    BY <1>1, <1>3, <1>11, <1>5, <1>7, <1>8, <1>9, <1>10 DEF Work

LEMMA TypeStep ==
    ASSUME TypeOK, [Next]_vars
    PROVE  TypeOK'
<1>1. ASSUME NEW w \in Workers, NEW c \in Configs, StartBulk(w, c) PROVE TypeOK'
  <2>1. task' \in [Workers -> Task]
    BY <1>1, StartType DEF StartBulk, TaskKind
  <2> QED
    BY <1>1, <2>1 DEF TypeOK, StartBulk
<1>2. ASSUME NEW w \in Workers, NEW c \in Configs, NEW e \in Enrollments, StartForced(w, c, e)
      PROVE  TypeOK'
  <2>1. task' \in [Workers -> Task]
    BY <1>2, StartType DEF StartForced, TaskKind
  <2>2. spent' \in [Bounds -> Nat]
    BY <1>2, SpendType DEF StartForced, Bounds
  <2> QED
    BY <1>2, <2>1, <2>2 DEF TypeOK, StartForced
<1>3. ASSUME NEW w \in Workers, NEW e \in Enrollments, StartSingle(w, e) PROVE TypeOK'
  <2>0. AConfig \in Configs
    BY LearnerAssumption DEF AConfig
  <2>1. task' \in [Workers -> Task]
    BY <1>3, <2>0, StartType DEF StartSingle, TaskKind
  <2>2. spent' \in [Bounds -> Nat]
    BY <1>3, SpendType DEF StartSingle, Bounds
  <2> QED
    BY <1>3, <2>1, <2>2 DEF TypeOK, StartSingle
<1>4. ASSUME NEW w \in Workers, Work(w) PROVE TypeOK'
    BY <1>4, WorkType
<1>5. ASSUME NEW w \in Workers, Die(w) PROVE TypeOK'
  <2>1. task' \in [Workers -> Task]
    BY <1>5, Defaults, TaskType DEF Die
  <2>2. spent' \in [Bounds -> Nat]
    BY <1>5, SpendType DEF Die, Bounds
  <2> QED
    BY <1>5, <2>1, <2>2 DEF TypeOK, Die
<1>6. CASE Environment
  <2>1. PICK e \in Enrollments :
          Complete(e) \/ (\E g \in Grade : Regrade(e, g)) \/ ChangeConsent(e)
    BY <1>6 DEF Environment
  <2>2. learner[e] \in Learner
    BY DEF TypeOK
  <2>3. CASE Complete(e)
    <3>1. PICK g \in Grade : learner' = [learner EXCEPT ![e] = [learner[e] EXCEPT !.completed = TRUE, !.grade = g]]
      BY <2>3 DEF Complete
    <3>2. [learner[e] EXCEPT !.completed = TRUE, !.grade = g] \in Learner
      BY <2>2 DEF Learner
    <3>3. learner' \in [Enrollments -> Learner]
      BY <3>1, <3>2 DEF TypeOK
    <3> QED
      BY <2>3, <3>3 DEF TypeOK, Complete
  <2>4. ASSUME NEW g \in Grade, Regrade(e, g) PROVE TypeOK'
    <3>1. spent' \in [Bounds -> Nat]
      BY <2>4, SpendType DEF Regrade, Bounds
    <3> QED
      BY <2>2, <2>4, <3>1 DEF TypeOK, Regrade, Learner
  <2>5. CASE ChangeConsent(e)
    <3>1. spent' \in [Bounds -> Nat]
      BY <2>5, SpendType DEF ChangeConsent, Bounds
    <3>2. (~learner[e].consent) \in BOOLEAN
      OBVIOUS
    <3>3. [learner[e] EXCEPT !.consent = ~learner[e].consent] \in Learner
      BY <2>2, <3>2 DEF Learner
    <3> QED
      BY <2>5, <3>1, <3>3 DEF TypeOK, ChangeConsent
  <2> QED
    BY <2>1, <2>3, <2>4, <2>5
<1>7. CASE UNCHANGED vars
    BY <1>7 DEF TypeOK, vars
<1> QED
    BY <1>1, <1>2, <1>3, <1>4, <1>5, <1>6, <1>7 DEF Next

\* The state is well typed in every run.
THEOREM TypeCorrect == Spec => []TypeOK
<1>1. Init => TypeOK
  <2> SUFFICES ASSUME Init PROVE TypeOK
    OBVIOUS
  <2>1. NoGrade \in Grade
    BY LearnerAssumption DEF NoGrade, Grade
  <2> QED
    BY <2>1, Defaults DEF Init, TypeOK, Learner
<1>2. TypeOK /\ [Next]_vars => TypeOK'
    BY TypeStep
<1> QED
    BY <1>1, <1>2, PTL DEF Spec
-----------------------------------------------------------------------------
(* With one configuration, nobody is skipped unreported.                   *)

OneConfig == \A c, d \in Configs : c = d

\* TransmittedWasReported needs to know of the answers not saved yet.
Reported == TransmittedWasReported /\ AcceptedWasTold

\* What the LMS was told stays told, and nothing else about a task or a record
\* is changed for the worse.
LEMMA ReportedKept ==
    ASSUME TypeOK, Reported,
           \A p \in Enrollments \X Configs : last[p].told => last'[p].told,
           \A e \in Enrollments : audit'[e] = audit[e],
           \A w \in Workers : \/ task'[w] = task[w]
                              \/ task'[w].pc # "save"
                              \/ ~task'[w].ok
    PROVE  Reported'
<1>1. TransmittedWasReported'
  <2> SUFFICES ASSUME NEW e \in Enrollments, audit'[e].transmitted
               PROVE  last'[<<e, audit'[e].config>>].told
    BY DEF TransmittedWasReported
  <2>1. last[<<e, audit[e].config>>].told
    BY DEF Reported, TransmittedWasReported
  <2>2. <<e, audit[e].config>> \in Enrollments \X Configs
    BY DEF TypeOK, Audit
  <2> QED
    BY <2>1, <2>2
<1>2. AcceptedWasTold'
  <2> SUFFICES ASSUME NEW w \in Workers, task'[w].pc = "save", task'[w].ok
               PROVE  last'[<<task'[w].e, task'[w].config>>].told
    BY DEF AcceptedWasTold
  <2>1. task'[w] = task[w]
    OBVIOUS
  <2>2. last[<<task[w].e, task[w].config>>].told
    BY <2>1 DEF Reported, AcceptedWasTold
  <2> QED
    BY <2>1, <2>2, Parts
<1> QED
    BY <1>1, <1>2 DEF Reported

\* A step that puts the worker anywhere but before an accepted save, and leaves the
\* records and what was told alone.
LEMMA ReportedElsewhere ==
    ASSUME TypeOK, Reported, NEW w \in Workers, NEW t,
           task' = [task EXCEPT ![w] = t], t.pc # "save" \/ ~t.ok,
           UNCHANGED audit,
           \A p \in Enrollments \X Configs : last[p].told => last'[p].told
    PROVE  Reported'
<1>1. ASSUME NEW v \in Workers
      PROVE  task'[v] = task[v] \/ task'[v].pc # "save" \/ ~task'[v].ok
    BY DEF TypeOK
<1> QED
    BY <1>1, ReportedKept

LEMMA ToldGrows ==
    ASSUME TypeOK, NEW w \in Workers, Told(w) \/ Untold
    PROVE  \A p \in Enrollments \X Configs : last[p].told => last'[p].told
<1>1. CASE Told(w)
  <2> DEFINE q == <<task[w].e, task[w].config>>
             r == [told |-> TRUE, completed |-> task[w].copy.completed,
                   grade |-> task[w].copy.grade]
  <2>1. last' = [last EXCEPT ![q] = r]
    BY <1>1 DEF Told
  <2>2. r.told
    OBVIOUS
  <2> HIDE DEF q, r
  <2> QED
    BY <2>1, <2>2 DEF TypeOK
<1>2. CASE Untold
    BY <1>2 DEF Untold
<1> QED
    BY <1>1, <1>2

LEMMA ToldNow ==
    ASSUME TypeOK, NEW w \in Workers, Told(w)
    PROVE  last'[<<task[w].e, task[w].config>>].told
<1> DEFINE q == <<task[w].e, task[w].config>>
           r == [told |-> TRUE, completed |-> task[w].copy.completed,
                 grade |-> task[w].copy.grade]
<1>1. last' = [last EXCEPT ![q] = r] /\ q \in Enrollments \X Configs
    BY Parts DEF Told
<1>2. r.told
    OBVIOUS
<1>3. last'[q] = r
  <2> HIDE DEF q, r
  <2> QED
    BY <1>1 DEF TypeOK
<1> QED
    BY <1>2, <1>3

LEMMA ReportedStep ==
    ASSUME OneConfig, TypeOK, Reported, [Next]_vars
    PROVE  Reported'
<1>0. Idle.pc = "idle"
    BY DEF Idle
<1>1. ASSUME NEW w \in Workers, NEW kind, NEW scope, NEW configs, NEW c,
             StartTask(w, kind, scope, configs, c), UNCHANGED <<audit, last>>
      PROVE  Reported'
  <2> DEFINE t == [Idle EXCEPT !.kind = kind, !.pc = "collect", !.scope = scope,
                               !.left = configs, !.config = c]
  <2>1. t.pc = "collect"
    BY DEF Idle
  <2>2. task' = [task EXCEPT ![w] = t]
    BY <1>1 DEF StartTask
  <2> HIDE DEF t
  <2> QED
    BY <1>1, <2>1, <2>2, ReportedElsewhere
<1>2. ASSUME NEW w \in Workers, NEW c \in Configs, StartBulk(w, c) PROVE Reported'
    BY <1>1, <1>2 DEF StartBulk
<1>3. ASSUME NEW w \in Workers, NEW c \in Configs, NEW e \in Enrollments, StartForced(w, c, e)
      PROVE  Reported'
    BY <1>1, <1>3 DEF StartForced
<1>4. ASSUME NEW w \in Workers, NEW e \in Enrollments, StartSingle(w, e) PROVE Reported'
    BY <1>1, <1>4 DEF StartSingle
<1>5. ASSUME NEW w \in Workers, NEW c \in Configs, Collect(w, c) PROVE Reported'
  <2> DEFINE t == task[w]
             todo == {e \in t.scope : learner[e].consent /\ ~Filtered(t.kind, e, c)}
             left == t.left \ {c}
             u == [t EXCEPT !.pc = "export", !.config = c, !.left = left, !.todo = todo]
  <2>1. task' = [task EXCEPT ![w] = u]
    BY <1>5 DEF Collect
  <2>2. u.pc = "export"
    <3>1. t \in Task
      BY Parts
    <3> HIDE DEF t, todo, left
    <3> QED
      BY <3>1 DEF Task
  <2>3. UNCHANGED <<audit, last>>
    BY <1>5 DEF Collect
  <2> HIDE DEF u
  <2> QED
    BY <2>1, <2>2, <2>3, ReportedElsewhere
<1>6. ASSUME NEW w \in Workers, NEW e \in Enrollments, task[w].pc = "export"
      PROVE  Without(task[w], e).pc = "export"
  <2>1. task[w] \in Task
    BY Parts
  <2> QED
    BY <1>6, <2>1 DEF Without, Task
<1>7. ASSUME NEW w \in Workers, NEW e \in Enrollments, Pick(w, e) PROVE Reported'
  <2> DEFINE t == Without(task[w], e)
             r == Record(e, t.config)
             u == [t EXCEPT !.pc = "send", !.e = e, !.copy = r]
  <2>1. t \in Task /\ t.pc = "export"
    BY <1>6, <1>7, Parts, TaskShrinks DEF Pick
  <2>2. task' = [task EXCEPT ![w] = t] \/ task' = [task EXCEPT ![w] = u]
    BY <1>7 DEF Pick
  <2>3. u.pc = "send"
    <3> HIDE DEF t, r
    <3> QED
      BY <2>1 DEF Task
  <2>4. UNCHANGED <<audit, last>>
    BY <1>7 DEF Pick
  <2> HIDE DEF t, u
  <2> QED
    BY <2>1, <2>2, <2>3, <2>4, ReportedElsewhere
<1>8. ASSUME NEW w \in Workers, NEW e \in Enrollments, PickFails(w, e) PROVE Reported'
    BY <1>6, <1>8, ReportedElsewhere DEF PickFails
<1>9. ASSUME NEW w \in Workers
      PROVE  /\ [task[w] EXCEPT !.pc = "save", !.ok = FALSE].ok = FALSE
             /\ [task[w] EXCEPT !.pc = "save", !.ok = TRUE].e = task[w].e
             /\ [task[w] EXCEPT !.pc = "save", !.ok = TRUE].config = task[w].config
  <2> DEFINE t == task[w]
  <2>1. t \in Task
    BY Parts
  <2> HIDE DEF t
  <2>2. /\ [t EXCEPT !.pc = "save", !.ok = FALSE].ok = FALSE
        /\ [t EXCEPT !.pc = "save", !.ok = TRUE].e = t.e
        /\ [t EXCEPT !.pc = "save", !.ok = TRUE].config = t.config
    BY <2>1 DEF Task
  <2> QED
    BY <2>2 DEF t
<1>10. ASSUME NEW w \in Workers, SendAccepted(w) PROVE Reported'
  <2> DEFINE u == [task[w] EXCEPT !.pc = "save", !.ok = TRUE]
  <2>1. task' = [task EXCEPT ![w] = u] /\ u.e = task[w].e /\ u.config = task[w].config
    BY <1>9, <1>10 DEF SendAccepted
  <2>2. audit' = audit /\ Told(w)
    BY <1>10 DEF SendAccepted
  <2>3. \A p \in Enrollments \X Configs : last[p].told => last'[p].told
    BY <2>2, ToldGrows
  <2>4. last'[<<task[w].e, task[w].config>>].told
    BY <2>2, ToldNow
  <2> HIDE DEF u
  <2>5. task'[w] = u /\ \A v \in Workers \ {w} : task'[v] = task[v]
    BY <2>1 DEF TypeOK
  <2>6. ASSUME NEW v \in Workers, task'[v].pc = "save", task'[v].ok
        PROVE  last'[<<task'[v].e, task'[v].config>>].told
    <3>1. CASE v = w
      BY <2>1, <2>4, <2>5, <3>1
    <3>2. CASE v # w
      <4>1. task'[v] = task[v]
        BY <2>5, <3>2
      <4>2. last[<<task[v].e, task[v].config>>].told
        BY <2>6, <4>1 DEF Reported, AcceptedWasTold
      <4> QED
        BY <2>3, <4>1, <4>2, Parts
    <3> QED
      BY <3>1, <3>2
  <2>7. ASSUME NEW e \in Enrollments, audit[e].transmitted
        PROVE  last'[<<e, audit[e].config>>].told
    <3>1. <<e, audit[e].config>> \in Enrollments \X Configs
      BY DEF TypeOK, Audit
    <3> QED
      BY <2>3, <2>7, <3>1 DEF Reported, TransmittedWasReported
  <2> QED
    BY <2>2, <2>6, <2>7 DEF Reported, AcceptedWasTold, TransmittedWasReported
<1>11. ASSUME NEW w \in Workers, SendRejected(w) PROVE Reported'
  <2> DEFINE u == [task[w] EXCEPT !.pc = "save", !.ok = FALSE]
  <2>1. task' = [task EXCEPT ![w] = u] /\ ~u.ok
    BY <1>9, <1>11 DEF SendRejected
  <2>2. audit' = audit /\ (Told(w) \/ Untold)
    BY <1>11 DEF SendRejected
  <2> HIDE DEF u
  <2> QED
    BY <2>1, <2>2, ToldGrows, ReportedElsewhere
<1>12. ASSUME NEW w \in Workers, SendRaises(w) PROVE Reported'
    BY <1>0, <1>12, ToldGrows, ReportedElsewhere DEF SendRaises
<1>13. ASSUME NEW w \in Workers PROVE GoOn(task[w]).pc = "export"
  <2> DEFINE t == task[w]
  <2>1. t \in Task
    BY Parts
  <2> HIDE DEF t
  <2>2. GoOn(t).pc = "export"
    BY <2>1 DEF Task, GoOn
  <2> QED
    BY <2>2 DEF t
<1>14. ASSUME NEW w \in Workers, Save(w) PROVE Reported'
  <2>1. CASE UNCHANGED audit /\ task' = [task EXCEPT ![w] = Idle]
    BY <1>0, <1>14, <2>1, ReportedElsewhere DEF Save
  <2>2. CASE /\ audit' = [audit EXCEPT ![task[w].e] =
                   [task[w].copy EXCEPT !.stored = TRUE, !.transmitted = task[w].ok]]
             /\ task' = [task EXCEPT ![w] = GoOn(task[w])]
    <3> DEFINE x == task[w].e
               k == task[w].copy
               ok == task[w].ok
               r == [k EXCEPT !.stored = TRUE, !.transmitted = ok]
    <3>1. x \in Enrollments /\ k \in Audit /\ ok \in BOOLEAN
      BY Parts
    <3>2. audit' = [audit EXCEPT ![x] = r]
      BY <2>2
    <3>3. r \in Audit /\ r.transmitted = ok
      <4> HIDE DEF k, ok
      <4> QED
        BY <3>1 DEF Audit
    <3>4. ok => last[<<x, task[w].config>>].told
      BY <1>14 DEF Save, Reported, AcceptedWasTold
    <3>5. r.config = task[w].config
      BY <3>3, Parts DEF OneConfig, Audit
    <3> HIDE DEF x, k, ok, r
    <3>6. TransmittedWasReported'
      <4> SUFFICES ASSUME NEW e \in Enrollments, audit'[e].transmitted
                   PROVE  last[<<e, audit'[e].config>>].told
        BY <1>14 DEF TransmittedWasReported, Save
      <4>1. CASE e = x
        BY <3>1, <3>2, <3>3, <3>4, <3>5, <4>1 DEF TypeOK
      <4>2. CASE e # x
        BY <3>2, <4>2 DEF TypeOK, Reported, TransmittedWasReported
      <4> QED
        BY <4>1, <4>2
    <3>7. \A v \in Workers : task'[v] = task[v] \/ task'[v].pc # "save"
      BY <1>13, <2>2 DEF TypeOK
    <3>8. AcceptedWasTold'
      BY <1>14, <3>7 DEF Reported, AcceptedWasTold, Save
    <3> QED
      BY <3>6, <3>8 DEF Reported
  <2> QED
    BY <1>14, <2>1, <2>2 DEF Save
<1>15. ASSUME NEW w \in Workers, EndConfig(w) PROVE Reported'
  <2> DEFINE t == [task[w] EXCEPT !.pc = "collect"]
  <2>1. t.pc = "collect"
    <3> DEFINE u == task[w]
    <3>1. u \in Task
      BY Parts
    <3> HIDE DEF u
    <3>2. [u EXCEPT !.pc = "collect"].pc = "collect"
      BY <3>1 DEF Task
    <3> QED
      BY <3>2 DEF u
  <2>2. task' = [task EXCEPT ![w] = Idle] \/ task' = [task EXCEPT ![w] = t]
    BY <1>15 DEF EndConfig
  <2>3. UNCHANGED <<audit, last>>
    BY <1>15 DEF EndConfig
  <2> HIDE DEF t
  <2> QED
    BY <1>0, <2>1, <2>2, <2>3, ReportedElsewhere
<1>16. ASSUME NEW w \in Workers, Die(w) PROVE Reported'
    BY <1>0, <1>16, ReportedElsewhere DEF Die
<1>17. CASE UNCHANGED <<audit, task, last>>
    BY <1>17, ReportedKept
<1>18. CASE Environment
    BY <1>17, <1>18 DEF Environment, Complete, Regrade, ChangeConsent
<1>19. CASE UNCHANGED vars
    BY <1>17, <1>19 DEF vars
<1> QED
    BY <1>2, <1>3, <1>4, <1>5, <1>7, <1>8, <1>10, <1>11, <1>12, <1>14, <1>15, <1>16,
       <1>18, <1>19
    DEF Next, Work

\* Of a customer with one configuration, an enrollment that is skipped from now on,
\* because its record is marked as transmitted, has been reported to that configuration.
THEOREM SkippedWasReported ==
    ASSUME OneConfig
    PROVE  Spec => []TransmittedWasReported
<1>1. Init => Reported
  <2> SUFFICES ASSUME Init PROVE Reported
    OBVIOUS
  <2>1. TransmittedWasReported
    BY DEF Init, TransmittedWasReported, NoAudit
  <2>2. AcceptedWasTold
    BY DEF Init, AcceptedWasTold, Idle
  <2> QED
    BY <2>1, <2>2 DEF Reported
<1>2. TypeOK /\ Reported /\ [Next]_vars => Reported'
    BY OneConfig, ReportedStep
<1>3. Spec => []TypeOK
    BY TypeCorrect
<1>4. Reported => TransmittedWasReported
    BY DEF Reported
<1> QED
    BY <1>1, <1>2, <1>3, <1>4, PTL DEF Spec
-----------------------------------------------------------------------------
(* With one configuration, nobody is reported again and again.             *)

\* A task that is neither idle nor without a lock: there is one at most.
Holds(t) == t.pc # "idle" /\ t.kind # "single"
OneLocked == \A v, w \in Workers : Holds(task[v]) /\ Holds(task[w]) => v = w

\* A task goes once over the configuration and once over each enrollment.
Sound(t) ==
    /\ t.pc \in {"export", "send", "save"} => t.left = {}
    /\ t.pc \in {"send", "save"} => t.e \notin t.todo

OnePass ==
    /\ OneLocked
    /\ \A w \in Workers : Sound(task[w])
    /\ \A e \in Enrollments : audit[e].transmitted => audit[e].stored

\* A task of one enrollment that may still report e, or has to save that it failed to.
Claim(t, e) ==
    /\ t.kind # "bulk"
    /\ \/ t.pc = "collect"
       \/ t.pc \in {"export", "send", "save"} /\ e \in t.todo
       \/ t.pc = "send" /\ t.e = e
       \/ t.pc = "save" /\ ~t.ok /\ t.e = e
Claims(e) == {w \in Workers : Claim(task[w], e)}

\* A scheduled task about to report e, or to save that it failed to; one whose report of
\* e was accepted; and one that found no record of e.
InBulk(t) == t.kind = "bulk" /\ t.pc \in {"send", "save"}
BulkSends(t, e) == InBulk(t) /\ t.e = e /\ (t.pc = "save" => ~t.ok)
BulkAccepted(t, e) == InBulk(t) /\ t.e = e /\ t.pc = "save" /\ t.ok
BulkNew(t, e) == InBulk(t) /\ t.e = e /\ (t.pc = "save" => t.ok) /\ ~t.copy.stored

\* The scheduled task reports e now or, as its record says nothing else, the next time;
\* and the time after that, if the record it has yet to make is made by another task.
Due(e) ==
    \/ \E w \in Workers : BulkSends(task[w], e)
    \/ ~audit[e].transmitted /\ ~\E w \in Workers : BulkAccepted(task[w], e)
Again(e) ==
    /\ audit[e].stored /\ ~audit[e].transmitted
    /\ \E w \in Workers : BulkNew(task[w], e)

Num(b) == IF b THEN 1 ELSE 0
Faults == spent["failures"] + spent["deaths"] + spent["forced"] + spent["singles"]
Owed(e) == Cardinality(Claims(e)) + Num(Due(e)) + Num(Again(e))

\* The reports made and those that may follow without another fault.
ReportsOwed ==
    \A e \in Enrollments, c \in Configs :
        IsFiniteSet(Claims(e)) /\ reports[<<e, c>>] + Owed(e) <= 1 + Faults

\* The fields of a task as the steps change it.
LEMMA IdleFields == Idle.kind = "bulk" /\ Idle.pc = "idle" /\ ~InBulk(Idle) /\ ~Holds(Idle)
BY DEF Idle, InBulk, Holds

LEMMA StartFields ==
    ASSUME NEW kind, NEW S, NEW C, NEW c
    PROVE  LET t == [Idle EXCEPT !.kind = kind, !.pc = "collect", !.scope = S, !.left = C,
                                 !.config = c]
           IN t.kind = kind /\ t.pc = "collect"
BY DEF Idle

LEMMA CollectFields ==
    ASSUME NEW t \in Task, NEW c \in Configs, NEW C, NEW S
    PROVE  LET u == [t EXCEPT !.pc = "export", !.config = c, !.left = C, !.todo = S]
           IN u.kind = t.kind /\ u.pc = "export" /\ u.left = C /\ u.todo = S
BY DEF Task

LEMMA WithoutFields ==
    ASSUME NEW t \in Task, NEW e \in Enrollments
    PROVE  /\ Without(t, e).kind = t.kind /\ Without(t, e).pc = t.pc
           /\ Without(t, e).left = t.left /\ Without(t, e).config = t.config
           /\ Without(t, e).todo = t.todo \ {e}
BY DEF Task, Without

LEMMA SendFields ==
    ASSUME NEW t \in Task, NEW e \in Enrollments, NEW r \in Audit
    PROVE  LET u == [t EXCEPT !.pc = "send", !.e = e, !.copy = r]
           IN /\ u.kind = t.kind /\ u.pc = "send" /\ u.left = t.left /\ u.todo = t.todo
              /\ u.e = e /\ u.copy = r
BY DEF Task

LEMMA AnswerFields ==
    ASSUME NEW t \in Task, NEW ok \in BOOLEAN
    PROVE  LET u == [t EXCEPT !.pc = "save", !.ok = ok]
           IN /\ u.kind = t.kind /\ u.pc = "save" /\ u.left = t.left /\ u.todo = t.todo
              /\ u.e = t.e /\ u.copy = t.copy /\ u.ok = ok
BY DEF Task

LEMMA GoOnFields ==
    ASSUME NEW t \in Task
    PROVE  /\ GoOn(t).kind = t.kind /\ GoOn(t).pc = "export"
           /\ GoOn(t).left = t.left /\ GoOn(t).todo = t.todo
BY DEF Task, GoOn

\* A step that changes the task of one worker.
LEMMA OnePassMoves ==
    ASSUME TypeOK, OnePass, NEW w \in Workers, NEW t, task' = [task EXCEPT ![w] = t],
           Holds(t) => Holds(task[w]), Sound(t),
           \A e \in Enrollments : audit'[e].transmitted => audit'[e].stored
    PROVE  OnePass'
<1>1. \A v \in Workers : task'[v] = IF v = w THEN t ELSE task[v]
    BY DEF TypeOK
<1>2. \A v \in Workers : Holds(task'[v]) => Holds(task[v])
    BY <1>1
<1>3. \A v \in Workers : Sound(task'[v])
    BY <1>1 DEF OnePass
<1> QED
    BY <1>2, <1>3 DEF OnePass, OneLocked

LEMMA ClaimsMove ==
    ASSUME TypeOK, NEW w \in Workers, NEW t, task' = [task EXCEPT ![w] = t],
           NEW e \in Enrollments, IsFiniteSet(Claims(e))
    PROVE  /\ IsFiniteSet(Claims(e)')
           /\ Cardinality(Claims(e)) \in Nat /\ Cardinality(Claims(e)') \in Nat
           /\ Cardinality(Claims(e)') + Num(Claim(task[w], e))
                = Cardinality(Claims(e)) + Num(Claim(t, e))
<1>1. \A v \in Workers : task'[v] = IF v = w THEN t ELSE task[v]
    BY DEF TypeOK
<1> DEFINE S == Claims(e)
<1>2. Claims(e)' = IF Claim(t, e) THEN S \cup {w} ELSE S \ {w}
    BY <1>1 DEF Claims
<1>3. w \in S <=> Claim(task[w], e)
    BY DEF Claims
<1> HIDE DEF S
<1>4. IsFiniteSet(S)
    BY DEF S
<1>5. /\ IsFiniteSet(S \cup {w})
      /\ Cardinality(S \cup {w}) = IF w \in S THEN Cardinality(S) ELSE Cardinality(S) + 1
    BY <1>4, FS_AddElement
<1>6. /\ IsFiniteSet(S \ {w})
      /\ Cardinality(S \ {w}) = IF w \in S THEN Cardinality(S) - 1 ELSE Cardinality(S)
    BY <1>4, FS_RemoveElement
<1>7. IsFiniteSet(Claims(e)') /\ Cardinality(S) \in Nat /\ Cardinality(Claims(e)') \in Nat
    BY <1>2, <1>4, <1>5, <1>6, FS_CardinalityType
<1>8. Cardinality(Claims(e)') + Num(Claim(task[w], e)) = Cardinality(S) + Num(Claim(t, e))
    BY <1>2, <1>3, <1>5, <1>6, <1>7 DEF Num
<1> QED
    BY <1>7, <1>8 DEF S

\* Where the scheduled task is not involved, its part does not change; where it is, it
\* is the only one.
LEMMA BulkStays ==
    ASSUME TypeOK, NEW w \in Workers, NEW t, task' = [task EXCEPT ![w] = t],
           ~InBulk(task[w]), ~InBulk(t), NEW e \in Enrollments
    PROVE  /\ (\E v \in Workers : BulkSends(task'[v], e))
                <=> (\E v \in Workers : BulkSends(task[v], e))
           /\ (\E v \in Workers : BulkAccepted(task'[v], e))
                <=> (\E v \in Workers : BulkAccepted(task[v], e))
           /\ (\E v \in Workers : BulkNew(task'[v], e))
                <=> (\E v \in Workers : BulkNew(task[v], e))
<1>1. \A v \in Workers : task'[v] = IF v = w THEN t ELSE task[v]
    BY DEF TypeOK
<1> QED
    BY <1>1 DEF BulkSends, BulkAccepted, BulkNew

LEMMA BulkAlone ==
    ASSUME TypeOK, OneLocked, NEW w \in Workers, NEW t, task' = [task EXCEPT ![w] = t],
           task[w].kind = "bulk", task[w].pc # "idle", NEW e \in Enrollments
    PROVE  /\ (\E v \in Workers : BulkSends(task[v], e)) <=> BulkSends(task[w], e)
           /\ (\E v \in Workers : BulkSends(task'[v], e)) <=> BulkSends(t, e)
           /\ (\E v \in Workers : BulkAccepted(task[v], e)) <=> BulkAccepted(task[w], e)
           /\ (\E v \in Workers : BulkAccepted(task'[v], e)) <=> BulkAccepted(t, e)
           /\ (\E v \in Workers : BulkNew(task[v], e)) <=> BulkNew(task[w], e)
           /\ (\E v \in Workers : BulkNew(task'[v], e)) <=> BulkNew(t, e)
<1>1. \A v \in Workers : task'[v] = IF v = w THEN t ELSE task[v]
    BY DEF TypeOK
<1>2. \A v \in Workers : InBulk(task[v]) => v = w
    BY DEF InBulk, OneLocked, Holds
<1> QED
    BY <1>1, <1>2 DEF BulkSends, BulkAccepted, BulkNew

\* The budget covers a step that leaves the records and the scheduled task alone, if it
\* covers what the task reports and claims.
LEMMA OwedElsewhere ==
    ASSUME TypeOK, TypeOK', ReportsOwed, NEW w \in Workers, NEW t,
           task' = [task EXCEPT ![w] = t], audit' = audit,
           ~InBulk(task[w]), ~InBulk(t),
           \A e \in Enrollments, c \in Configs :
              reports'[<<e, c>>] + Num(Claim(t, e)) + Faults
                <= reports[<<e, c>>] + Num(Claim(task[w], e)) + Faults'
    PROVE  ReportsOwed'
<1> SUFFICES ASSUME NEW e \in Enrollments, NEW c \in Configs
             PROVE  /\ IsFiniteSet(Claims(e)')
                    /\ reports'[<<e, c>>] + Owed(e)' <= 1 + Faults'
    BY DEF ReportsOwed
<1> DEFINE p == <<e, c>>
<1>1. IsFiniteSet(Claims(e)) /\ reports[p] + Owed(e) <= 1 + Faults
    BY DEF ReportsOwed
<1>2. /\ IsFiniteSet(Claims(e)')
      /\ Cardinality(Claims(e)) \in Nat /\ Cardinality(Claims(e)') \in Nat
      /\ Cardinality(Claims(e)') + Num(Claim(task[w], e))
           = Cardinality(Claims(e)) + Num(Claim(t, e))
    BY <1>1, ClaimsMove
<1>3. Due(e)' = Due(e) /\ Again(e)' = Again(e)
    BY BulkStays DEF Due, Again
<1>4. reports'[p] + Num(Claim(t, e)) + Faults <= reports[p] + Num(Claim(task[w], e)) + Faults'
    OBVIOUS
<1>5. reports[p] \in Nat /\ reports'[p] \in Nat /\ Faults \in Nat /\ Faults' \in Nat
    BY DEF TypeOK, Faults, Bounds
<1>6. \A b : Num(b) \in {0, 1}
    BY DEF Num
<1> HIDE DEF p
<1>7. reports'[p] + Owed(e)' <= 1 + Faults'
    BY <1>1, <1>2, <1>3, <1>4, <1>5, <1>6 DEF Owed
<1> QED
    BY <1>2, <1>7 DEF p

\* What the budget has to cover for a scheduled task t that e, with record a, is due.
DueBy(a, t, e) == BulkSends(t, e) \/ (~a.transmitted /\ ~BulkAccepted(t, e))
AgainBy(a, t, e) == a.stored /\ ~a.transmitted /\ BulkNew(t, e)

LEMMA OwedByBulk ==
    ASSUME TypeOK, TypeOK', OnePass, ReportsOwed, NEW w \in Workers, NEW t,
           task' = [task EXCEPT ![w] = t],
           task[w].kind = "bulk", task[w].pc # "idle", t.kind = "bulk",
           \A e \in Enrollments, c \in Configs :
              reports'[<<e, c>>] + Num(DueBy(audit'[e], t, e)) + Num(AgainBy(audit'[e], t, e))
                  + Faults
                <= reports[<<e, c>>] + Num(DueBy(audit[e], task[w], e))
                     + Num(AgainBy(audit[e], task[w], e)) + Faults'
    PROVE  ReportsOwed'
<1> SUFFICES ASSUME NEW e \in Enrollments, NEW c \in Configs
             PROVE  /\ IsFiniteSet(Claims(e)')
                    /\ reports'[<<e, c>>] + Owed(e)' <= 1 + Faults'
    BY DEF ReportsOwed
<1> DEFINE p == <<e, c>>
<1>1. IsFiniteSet(Claims(e)) /\ reports[p] + Owed(e) <= 1 + Faults
    BY DEF ReportsOwed
<1>2. ~Claim(task[w], e) /\ ~Claim(t, e)
    BY DEF Claim
<1>3. /\ IsFiniteSet(Claims(e)')
      /\ Cardinality(Claims(e)) \in Nat /\ Cardinality(Claims(e)') \in Nat
      /\ Cardinality(Claims(e)') + Num(Claim(task[w], e))
           = Cardinality(Claims(e)) + Num(Claim(t, e))
    BY <1>1, ClaimsMove
<1>4. Cardinality(Claims(e)') = Cardinality(Claims(e))
    BY <1>2, <1>3 DEF Num
<1>5. /\ Due(e) = DueBy(audit[e], task[w], e) /\ Due(e)' = DueBy(audit'[e], t, e)
      /\ Again(e) = AgainBy(audit[e], task[w], e) /\ Again(e)' = AgainBy(audit'[e], t, e)
    BY BulkAlone DEF Due, Again, DueBy, AgainBy, OnePass
<1>6. reports[p] \in Nat /\ reports'[p] \in Nat /\ Faults \in Nat /\ Faults' \in Nat
    BY DEF TypeOK, Faults, Bounds
<1>7. \A b : Num(b) \in {0, 1}
    BY DEF Num
<1>8. reports'[p] + Num(Due(e)') + Num(Again(e)') + Faults
        <= reports[p] + Num(Due(e)) + Num(Again(e)) + Faults'
    BY <1>5
<1> HIDE DEF p
<1>9. reports'[p] + Owed(e)' <= 1 + Faults'
    BY <1>1, <1>3, <1>4, <1>6, <1>7, <1>8 DEF Owed
<1> QED
    BY <1>3, <1>9 DEF p

LEMMA FaultsGrow ==
    ASSUME TypeOK
    PROVE  /\ Faults \in Nat
           /\ UNCHANGED spent => Faults' = Faults
           /\ \A b \in {"failures", "deaths", "forced", "singles"} : \A n :
                 Spend(b, n) => Faults' = Faults + 1
           /\ \A n : Spend("changes", n) => Faults' = Faults
<1>1. spent \in [Bounds -> Nat]
    BY DEF TypeOK
<1> QED
    BY <1>1 DEF Faults, Spend, Bounds

LEMMA ReportsGrow ==
    ASSUME OneConfig, TypeOK, NEW w \in Workers, NEW e \in Enrollments, NEW c \in Configs
    PROVE  /\ reports[<<e, c>>] \in Nat
           /\ Untold => reports'[<<e, c>>] = reports[<<e, c>>]
           /\ Told(w) => reports'[<<e, c>>] = reports[<<e, c>>] + Num(task[w].e = e)
<1> DEFINE p == <<e, c>>
           q == <<task[w].e, task[w].config>>
<1>1. p \in Enrollments \X Configs /\ q \in Enrollments \X Configs
    BY Parts
<1>2. p = q <=> task[w].e = e
    BY Parts DEF OneConfig
<1>3. Told(w) => reports' = [reports EXCEPT ![q] = @ + 1]
    BY DEF Told
<1>4. Untold => reports' = reports
    BY DEF Untold
<1> HIDE DEF p, q
<1>5. Told(w) => reports'[p] = reports[p] + Num(p = q)
    BY <1>1, <1>3 DEF TypeOK, Num
<1>6. reports[p] \in Nat
    BY <1>1 DEF TypeOK
<1>7. Told(w) => reports'[p] = reports[p] + Num(task[w].e = e)
    BY <1>2, <1>5 DEF Num
<1> QED
    BY <1>4, <1>6, <1>7 DEF p

LEMMA OnePassStep ==
    ASSUME OneConfig, TypeOK, OnePass, [Next]_vars
    PROVE  OnePass'
<1>0. \A e \in Enrollments : audit[e].transmitted => audit[e].stored
    BY DEF OnePass
<1>1. ASSUME NEW w \in Workers, NEW kind, NEW S, NEW C, NEW c \in Configs,
             StartTask(w, kind, S, C, c), kind # "single" => ~Locked(c), UNCHANGED audit
      PROVE  OnePass'
  <2> DEFINE t == [Idle EXCEPT !.kind = kind, !.pc = "collect", !.scope = S, !.left = C,
                               !.config = c]
  <2>1. t.kind = kind /\ t.pc = "collect"
    BY StartFields
  <2>2. task' = [task EXCEPT ![w] = t] /\ task[w].pc = "idle"
    BY <1>1 DEF StartTask
  <2> HIDE DEF t
  <2>3. \A v \in Workers : task'[v] = IF v = w THEN t ELSE task[v]
    BY <2>2 DEF TypeOK
  <2>4. Sound(t)
    BY <2>1 DEF Sound
  <2>5. kind # "single" => \A v \in Workers : ~Holds(task[v])
    BY <1>1, Parts DEF Locked, Holds, OneConfig
  <2>6. OneLocked'
    BY <2>1, <2>3, <2>5 DEF OneLocked, Holds, OnePass
  <2>7. \A v \in Workers : Sound(task'[v])
    BY <2>3, <2>4 DEF OnePass
  <2> QED
    BY <1>0, <1>1, <2>6, <2>7 DEF OnePass
<1>2. ASSUME NEW w \in Workers, NEW c \in Configs, StartBulk(w, c) PROVE OnePass'
    BY <1>1, <1>2 DEF StartBulk
<1>3. ASSUME NEW w \in Workers, NEW c \in Configs, NEW e \in Enrollments, StartForced(w, c, e)
      PROVE  OnePass'
    BY <1>1, <1>3 DEF StartForced
<1>4. ASSUME NEW w \in Workers, NEW e \in Enrollments, StartSingle(w, e) PROVE OnePass'
  <2>1. AConfig \in Configs
    BY LearnerAssumption DEF AConfig
  <2> QED
    BY <1>1, <1>4, <2>1 DEF StartSingle
<1>5. ASSUME NEW w \in Workers, task' = [task EXCEPT ![w] = Idle], UNCHANGED audit PROVE OnePass'
  <2>1. Sound(Idle) /\ ~Holds(Idle)
    BY IdleFields DEF Sound
  <2> QED
    BY <1>0, <1>5, <2>1, OnePassMoves
<1>6. ASSUME NEW w \in Workers, NEW c \in Configs, Collect(w, c) PROVE OnePass'
  <2> DEFINE t == task[w]
             left == t.left \ {c}
             todo == {e \in t.scope : learner[e].consent /\ ~Filtered(t.kind, e, c)}
             u == [t EXCEPT !.pc = "export", !.config = c, !.left = left, !.todo = todo]
  <2>1. task' = [task EXCEPT ![w] = u] /\ UNCHANGED audit /\ t.pc = "collect"
    BY <1>6 DEF Collect
  <2>2. left = {}
    BY Parts DEF OneConfig
  <2>3. t \in Task
    BY Parts
  <2> HIDE DEF t, todo, left
  <2>4. u.kind = t.kind /\ u.pc = "export" /\ u.left = {}
    BY <2>2, <2>3, CollectFields
  <2> HIDE DEF u
  <2>5. Holds(u) => Holds(t)
    BY <2>1, <2>4 DEF Holds
  <2>6. Sound(u)
    BY <2>4 DEF Sound
  <2> QED
    BY <1>0, <2>1, <2>5, <2>6, OnePassMoves DEF t
<1>7. ASSUME NEW w \in Workers, NEW e \in Enrollments, task[w].pc = "export"
      PROVE  /\ Without(task[w], e) \in Task
             /\ Holds(Without(task[w], e)) => Holds(task[w])
             /\ Sound(Without(task[w], e))
  <2>1. task[w] \in Task /\ Sound(task[w])
    BY Parts DEF OnePass
  <2>2. /\ Without(task[w], e).kind = task[w].kind /\ Without(task[w], e).pc = task[w].pc
        /\ Without(task[w], e).left = task[w].left
    BY <2>1, WithoutFields
  <2> QED
    BY <1>7, <2>1, <2>2, TaskShrinks DEF Holds, Sound
<1>8. ASSUME NEW w \in Workers, NEW e \in Enrollments, Pick(w, e) PROVE OnePass'
  <2> DEFINE t == Without(task[w], e)
             r == Record(e, t.config)
             u == [t EXCEPT !.pc = "send", !.e = e, !.copy = r]
  <2>1. /\ task' = [task EXCEPT ![w] = t] \/ task' = [task EXCEPT ![w] = u]
        /\ UNCHANGED audit /\ task[w].pc = "export"
    BY <1>8 DEF Pick
  <2>2. t \in Task /\ (Holds(t) => Holds(task[w])) /\ Sound(t)
    BY <1>7, <2>1
  <2>3. t.pc = "export" /\ e \notin t.todo /\ t.config \in Configs
    <3>1. task[w] \in Task /\ t.pc = task[w].pc /\ t.todo = task[w].todo \ {e}
          /\ t.config = task[w].config
      BY WithoutFields, Parts
    <3> HIDE DEF t
    <3> QED
      BY <2>1, <3>1, Parts
  <2>4. r \in Audit
    BY <2>3, RecordType
  <2> HIDE DEF t, r
  <2>5. u.kind = t.kind /\ u.pc = "send" /\ u.left = t.left /\ u.todo = t.todo /\ u.e = e
    BY <2>2, <2>4, SendFields
  <2> HIDE DEF u
  <2>6. (Holds(u) => Holds(task[w])) /\ Sound(u)
    BY <2>2, <2>3, <2>5 DEF Holds, Sound
  <2> QED
    BY <1>0, <2>1, <2>2, <2>6, OnePassMoves
<1>9. ASSUME NEW w \in Workers, NEW e \in Enrollments, PickFails(w, e) PROVE OnePass'
    BY <1>0, <1>7, <1>9, OnePassMoves DEF PickFails
<1>10. ASSUME NEW w \in Workers, NEW ok \in BOOLEAN, task[w].pc = "send", UNCHANGED audit,
              task' = [task EXCEPT ![w] = [task[w] EXCEPT !.pc = "save", !.ok = ok]]
       PROVE  OnePass'
  <2> DEFINE t == task[w]
             u == [t EXCEPT !.pc = "save", !.ok = ok]
  <2>1. t \in Task /\ Sound(t)
    BY Parts DEF OnePass
  <2>2. task' = [task EXCEPT ![w] = u] /\ t.pc = "send"
    BY <1>10
  <2> HIDE DEF t
  <2>3. u.kind = t.kind /\ u.pc = "save" /\ u.left = t.left /\ u.todo = t.todo /\ u.e = t.e
    BY <2>1, AnswerFields
  <2> HIDE DEF u
  <2>4. (Holds(u) => Holds(t)) /\ Sound(u)
    BY <2>1, <2>2, <2>3 DEF Holds, Sound
  <2> QED
    BY <1>0, <1>10, <2>2, <2>4, OnePassMoves DEF t
<1>11. ASSUME NEW w \in Workers, SendAccepted(w) \/ SendRejected(w) \/ SendRaises(w) PROVE OnePass'
    BY <1>5, <1>10, <1>11 DEF SendAccepted, SendRejected, SendRaises
<1>12. ASSUME NEW w \in Workers, Save(w) PROVE OnePass'
  <2>1. CASE UNCHANGED audit /\ task' = [task EXCEPT ![w] = Idle]
    BY <1>5, <2>1
  <2>2. CASE /\ audit' = [audit EXCEPT ![task[w].e] =
                   [task[w].copy EXCEPT !.stored = TRUE, !.transmitted = task[w].ok]]
             /\ task' = [task EXCEPT ![w] = GoOn(task[w])]
    <3> DEFINE r == [task[w].copy EXCEPT !.stored = TRUE, !.transmitted = task[w].ok]
               u == GoOn(task[w])
    <3>1. r.stored = TRUE
      <4> DEFINE k == task[w].copy
                 ok == task[w].ok
      <4>1. k \in Audit
        BY Parts
      <4> HIDE DEF k, ok
      <4>2. [k EXCEPT !.stored = TRUE, !.transmitted = ok].stored = TRUE
        BY <4>1 DEF Audit
      <4> QED
        BY <4>2 DEF k, ok
    <3>2. audit' = [audit EXCEPT ![task[w].e] = r]
      BY <2>2
    <3> HIDE DEF r
    <3>3. \A e \in Enrollments : audit'[e] = r \/ audit'[e] = audit[e]
      BY <3>2 DEF TypeOK
    <3>4. task[w] \in Task /\ Sound(task[w]) /\ task[w].pc = "save"
      BY <1>12, Parts DEF OnePass, Save
    <3>5. /\ u.kind = task[w].kind /\ u.pc = "export"
          /\ u.left = task[w].left /\ u.todo = task[w].todo
      BY <3>4, GoOnFields
    <3>6. task' = [task EXCEPT ![w] = u]
      BY <2>2
    <3> HIDE DEF u
    <3>7. (Holds(u) => Holds(task[w])) /\ Sound(u)
      BY <3>4, <3>5 DEF Holds, Sound
    <3> QED
      BY <1>0, <3>1, <3>3, <3>6, <3>7, OnePassMoves
  <2> QED
    BY <1>12, <2>1, <2>2 DEF Save
<1>13. ASSUME NEW w \in Workers, EndConfig(w) PROVE OnePass'
  <2>1. task[w].left = {}
    BY <1>13 DEF EndConfig, OnePass, Sound
  <2> QED
    BY <1>5, <1>13, <2>1 DEF EndConfig
<1>14. ASSUME NEW w \in Workers, Die(w) PROVE OnePass'
    BY <1>5, <1>14 DEF Die
<1>15. CASE Environment \/ UNCHANGED vars
  <2>1. UNCHANGED <<task, audit>>
    BY <1>15 DEF Environment, Complete, Regrade, ChangeConsent, vars
  <2> QED
    BY <2>1 DEF OnePass, OneLocked
<1> QED
    BY <1>2, <1>3, <1>4, <1>6, <1>8, <1>9, <1>11, <1>12, <1>13, <1>14, <1>15 DEF Next, Work

\* The steps of a task that leave the records alone.
LEMMA OwedKept ==
    ASSUME OneConfig, TypeOK, TypeOK', OnePass, ReportsOwed, NEW w \in Workers, NEW t,
           task' = [task EXCEPT ![w] = t], UNCHANGED audit, ~InBulk(task[w]), ~InBulk(t),
           \/ Untold /\ Faults' >= Faults
                /\ \A e \in Enrollments : Claim(t, e) => Claim(task[w], e)
           \/ Untold /\ Faults' = Faults + 1
           \/ Told(w) /\ Faults' = Faults /\ Claim(task[w], task[w].e)
                /\ \A e \in Enrollments : Claim(t, e) => Claim(task[w], e) /\ task[w].e # e
           \/ Told(w) /\ Faults' = Faults + 1
                /\ \A e \in Enrollments : Claim(t, e) => Claim(task[w], e)
    PROVE  ReportsOwed'
<1>1. ASSUME NEW e \in Enrollments, NEW c \in Configs
      PROVE  reports'[<<e, c>>] + Num(Claim(t, e)) + Faults
               <= reports[<<e, c>>] + Num(Claim(task[w], e)) + Faults'
  <2>1. /\ reports[<<e, c>>] \in Nat
        /\ Untold => reports'[<<e, c>>] = reports[<<e, c>>]
        /\ Told(w) => reports'[<<e, c>>] = reports[<<e, c>>] + Num(task[w].e = e)
    BY ReportsGrow
  <2>2. Faults \in Nat /\ Faults' \in Nat
    BY DEF TypeOK, Faults, Bounds
  <2> DEFINE r == reports[<<e, c>>]
             rr == reports'[<<e, c>>]
             before == Claim(task[w], e)
             after == Claim(t, e)
             same == task[w].e = e
  <2>3. \/ rr = r /\ Faults' >= Faults /\ (after => before)
        \/ rr = r /\ Faults' = Faults + 1
        \/ rr = r + Num(same) /\ Faults' = Faults /\ (after => before /\ ~same) /\ (same => before)
        \/ rr = r + Num(same) /\ Faults' = Faults + 1 /\ (after => before)
    <3>1. Claim(task[w], task[w].e) => (same => before)
      OBVIOUS
    <3> QED
      BY <2>1, <3>1
  <2> HIDE DEF before, after, same, r, rr
  <2>4. r \in Nat
    BY <2>1 DEF r
  <2>5. rr + Num(after) + Faults <= r + Num(before) + Faults'
    BY <2>2, <2>3, <2>4 DEF Num
  <2> QED
    BY <2>5 DEF before, after, r, rr
<1> QED
    BY <1>1, OwedElsewhere

LEMMA OwedUntold ==
    ASSUME OneConfig, TypeOK, TypeOK', OnePass, ReportsOwed, NEW w \in Workers, NEW t,
           task' = [task EXCEPT ![w] = t], UNCHANGED audit, ~InBulk(task[w]), ~InBulk(t),
           Untold, Faults' \in {Faults, Faults + 1},
           Faults' = Faults => \A e \in Enrollments : Claim(t, e) => Claim(task[w], e)
    PROVE  ReportsOwed'
<1>1. Faults \in Nat
    BY FaultsGrow
<1>2. CASE Faults' = Faults + 1
    BY <1>2, OwedKept
<1>3. CASE Faults' = Faults
  <2>1. Faults' >= Faults /\ \A e \in Enrollments : Claim(t, e) => Claim(task[w], e)
    BY <1>1, <1>3
  <2> QED
    BY <2>1, OwedKept
<1> QED
    BY <1>2, <1>3

\* The steps of a scheduled task that reports an enrollment or saves the answer.
LEMMA OwedBulk ==
    ASSUME OneConfig, TypeOK, TypeOK', OnePass, ReportsOwed, NEW w \in Workers, NEW t,
           task' = [task EXCEPT ![w] = t],
           task[w].kind = "bulk", task[w].pc # "idle", t.kind = "bulk",
           \A e \in Enrollments :
              LET due == DueBy(audit[e], task[w], e)
                  again == AgainBy(audit[e], task[w], e)
                  due2 == DueBy(audit'[e], t, e)
                  again2 == AgainBy(audit'[e], t, e)
              IN \/ Untold /\ Faults' = Faults /\ Num(due2) + Num(again2) <= Num(due) + Num(again)
                 \/ /\ Told(w) /\ Faults' = Faults
                    /\ Num(due2) + Num(again2) + Num(task[w].e = e) <= Num(due) + Num(again)
                 \/ Untold /\ Faults' = Faults + 1 /\ ~again2
                 \/ /\ Told(w) /\ Faults' = Faults + 1 /\ ~again2
                    /\ due2 \/ task[w].e = e => due
    PROVE  ReportsOwed'
<1>1. ASSUME NEW e \in Enrollments, NEW c \in Configs
      PROVE  reports'[<<e, c>>] + Num(DueBy(audit'[e], t, e)) + Num(AgainBy(audit'[e], t, e))
                 + Faults
               <= reports[<<e, c>>] + Num(DueBy(audit[e], task[w], e))
                    + Num(AgainBy(audit[e], task[w], e)) + Faults'
  <2> DEFINE due == DueBy(audit[e], task[w], e)
             again == AgainBy(audit[e], task[w], e)
             due2 == DueBy(audit'[e], t, e)
             again2 == AgainBy(audit'[e], t, e)
             r == reports[<<e, c>>]
             rr == reports'[<<e, c>>]
             same == task[w].e = e
  <2>1. /\ r \in Nat
        /\ Untold => rr = r
        /\ Told(w) => rr = r + Num(same)
    BY ReportsGrow
  <2>2. Faults \in Nat /\ Faults' \in Nat
    BY DEF TypeOK, Faults, Bounds
  <2>3. \/ Untold /\ Faults' = Faults /\ Num(due2) + Num(again2) <= Num(due) + Num(again)
        \/ Told(w) /\ Faults' = Faults /\ Num(due2) + Num(again2) + Num(same) <= Num(due) + Num(again)
        \/ Untold /\ Faults' = Faults + 1 /\ ~again2
        \/ Told(w) /\ Faults' = Faults + 1 /\ ~again2 /\ (due2 \/ same => due)
    OBVIOUS
  <2> HIDE DEF due, again, due2, again2, r, rr, same
  <2>4. \A b : Num(b) \in {0, 1}
    BY DEF Num
  <2>5. /\ Untold => rr + Num(due2) + Num(again2) + Faults <= r + Num(due) + Num(again) + Faults'
        /\ Told(w) => rr + Num(due2) + Num(again2) + Faults <= r + Num(due) + Num(again) + Faults'
    BY <2>1, <2>2, <2>3, <2>4 DEF Num
  <2>6. rr + Num(due2) + Num(again2) + Faults <= r + Num(due) + Num(again) + Faults'
    BY <2>3, <2>5
  <2> QED
    BY <2>6 DEF due, again, due2, again2, r, rr
<1> QED
    BY <1>1, OwedByBulk

\* The record that a save makes.
LEMMA SavedRecord ==
    ASSUME TypeOK, NEW w \in Workers,
           audit' = [audit EXCEPT ![task[w].e] =
                       [task[w].copy EXCEPT !.stored = TRUE, !.transmitted = task[w].ok]]
    PROVE  /\ audit'[task[w].e].stored /\ audit'[task[w].e].transmitted = task[w].ok
           /\ \A e \in Enrollments : e # task[w].e => audit'[e] = audit[e]
<1> DEFINE x == task[w].e
           k == task[w].copy
           ok == task[w].ok
           r == [k EXCEPT !.stored = TRUE, !.transmitted = ok]
<1>1. x \in Enrollments /\ k \in Audit /\ ok \in BOOLEAN
    BY Parts
<1>2. audit' = [audit EXCEPT ![x] = r]
    OBVIOUS
<1> HIDE DEF x, k, ok
<1>3. r.stored = TRUE /\ r.transmitted = ok
    BY <1>1 DEF Audit
<1> HIDE DEF r
<1>4. audit'[x] = r /\ \A e \in Enrollments : e # x => audit'[e] = audit[e]
    BY <1>1, <1>2 DEF TypeOK
<1> QED
    BY <1>3, <1>4 DEF x, ok

\* A task of one enrollment that saves over what the others have saved.
LEMMA OwedSave ==
    ASSUME TypeOK, TypeOK', OnePass, ReportsOwed, NEW w \in Workers,
           task[w].pc = "save", task[w].kind # "bulk",
           audit' = [audit EXCEPT ![task[w].e] =
                       [task[w].copy EXCEPT !.stored = TRUE, !.transmitted = task[w].ok]],
           task' = [task EXCEPT ![w] = GoOn(task[w])], UNCHANGED <<reports, spent>>
    PROVE  ReportsOwed'
<1> DEFINE x == task[w].e
           t == GoOn(task[w])
<1>1. /\ t.kind = task[w].kind /\ t.pc = "export" /\ t.todo = task[w].todo
      /\ Sound(task[w])
    BY Parts, GoOnFields DEF OnePass
<1>2. task' = [task EXCEPT ![w] = t]
    OBVIOUS
<1> HIDE DEF t
<1>3. ~InBulk(task[w]) /\ ~InBulk(t)
    BY <1>1 DEF InBulk
<1>4. /\ audit'[x].stored /\ audit'[x].transmitted = task[w].ok
      /\ \A e \in Enrollments : e # x => audit'[e] = audit[e]
    BY SavedRecord
<1> SUFFICES ASSUME NEW e \in Enrollments, NEW c \in Configs
             PROVE  /\ IsFiniteSet(Claims(e)')
                    /\ reports'[<<e, c>>] + Owed(e)' <= 1 + Faults'
    BY DEF ReportsOwed
<1>5. IsFiniteSet(Claims(e)) /\ reports[<<e, c>>] + Owed(e) <= 1 + Faults
    BY DEF ReportsOwed
<1>6. /\ IsFiniteSet(Claims(e)')
      /\ Cardinality(Claims(e)) \in Nat /\ Cardinality(Claims(e)') \in Nat
      /\ Cardinality(Claims(e)') + Num(Claim(task[w], e))
           = Cardinality(Claims(e)) + Num(Claim(t, e))
    BY <1>2, <1>5, ClaimsMove, ZenonT(40)
<1> DEFINE sends == \E v \in Workers : BulkSends(task[v], e)
           accepted == \E v \in Workers : BulkAccepted(task[v], e)
           new == \E v \in Workers : BulkNew(task[v], e)
<1>7. /\ Due(e) = (sends \/ (~audit[e].transmitted /\ ~accepted))
      /\ Again(e) = (audit[e].stored /\ ~audit[e].transmitted /\ new)
    BY DEF Due, Again
<1>8. /\ Due(e)' = (sends \/ (~audit'[e].transmitted /\ ~accepted))
      /\ Again(e)' = (audit'[e].stored /\ ~audit'[e].transmitted /\ new)
    BY <1>2, <1>3, BulkStays DEF Due, Again
<1>9. new => sends \/ accepted
    BY DEF BulkNew, BulkSends, BulkAccepted
<1>10. /\ Claim(t, e) <=> e \in task[w].todo
       /\ Claim(task[w], e) <=> e \in task[w].todo \/ (~task[w].ok /\ x = e)
       /\ x \notin task[w].todo
    BY <1>1 DEF Claim, Sound
<1> HIDE DEF sends, accepted, new, x
<1>11. Cardinality(Claims(e)') + Num(Due(e)') + Num(Again(e)')
         <= Cardinality(Claims(e)) + Num(Due(e)) + Num(Again(e))
  <2>1. CASE e # x
    <3>1. audit'[e] = audit[e] /\ (Claim(t, e) <=> Claim(task[w], e))
      BY <1>4, <1>10, <2>1
    <3>2. Num(Due(e)') = Num(Due(e)) /\ Num(Again(e)') = Num(Again(e))
      BY <1>7, <1>8, <3>1
    <3>3. Num(Claim(t, e)) = Num(Claim(task[w], e)) /\ Num(Claim(t, e)) \in {0, 1}
      BY <3>1 DEF Num
    <3>4. Num(Due(e)) \in {0, 1} /\ Num(Again(e)) \in {0, 1}
      BY DEF Num
    <3> QED
      BY <1>6, <3>2, <3>3, <3>4
  <2>2. CASE e = x /\ task[w].ok
    <3>1. ~Again(e)' /\ (Due(e)' => Due(e))
      BY <1>4, <1>7, <1>8, <2>2
    <3>2. Claim(t, e) <=> Claim(task[w], e)
      BY <1>10, <2>2
    <3>3. Num(Claim(t, e)) = Num(Claim(task[w], e)) /\ Num(Claim(t, e)) \in {0, 1}
      BY <3>2 DEF Num
    <3>4. Num(Due(e)') + Num(Again(e)') <= Num(Due(e)) + Num(Again(e))
      BY <3>1 DEF Num
    <3>5. \A b : Num(b) \in {0, 1}
      BY DEF Num
    <3> QED
      BY <1>6, <3>3, <3>4, <3>5
  <2>3. CASE e = x /\ ~task[w].ok
    <3>1. Due(e)' /\ Again(e)' => Due(e)
      BY <1>7, <1>8, <1>9
    <3>2. Num(Claim(t, e)) = 0 /\ Num(Claim(task[w], e)) = 1
      BY <1>10, <2>3 DEF Num
    <3>3. Num(Due(e)') + Num(Again(e)') <= 1 + Num(Due(e)) + Num(Again(e))
      BY <3>1 DEF Num
    <3>4. \A b : Num(b) \in {0, 1}
      BY DEF Num
    <3> QED
      BY <1>6, <3>2, <3>3, <3>4
  <2> QED
    BY <2>1, <2>2, <2>3
<1>12. /\ reports'[<<e, c>>] = reports[<<e, c>>] /\ reports[<<e, c>>] \in Nat
       /\ Faults' = Faults /\ Faults \in Nat
    BY FaultsGrow DEF TypeOK
<1>13. \A b : Num(b) \in {0, 1}
    BY DEF Num
<1> QED
    BY <1>5, <1>6, <1>11, <1>12, <1>13 DEF Owed

LEMMA OwedStep ==
    ASSUME OneConfig, TypeOK, TypeOK', OnePass, ReportsOwed, [Next]_vars
    PROVE  ReportsOwed'
<1>0. /\ Faults \in Nat
      /\ UNCHANGED spent => Faults' = Faults
      /\ \A b \in {"failures", "deaths", "forced", "singles"} : \A n : Spend(b, n) => Faults' = Faults + 1
      /\ \A n : Spend("changes", n) => Faults' = Faults
    BY FaultsGrow
<1>1. ASSUME NEW w \in Workers, NEW kind, NEW S, NEW C, NEW c, StartTask(w, kind, S, C, c),
             UNCHANGED <<audit, last, reports>>,
             (kind = "bulk" /\ Faults' = Faults) \/ Faults' = Faults + 1
      PROVE  ReportsOwed'
  <2> DEFINE t == [Idle EXCEPT !.kind = kind, !.pc = "collect", !.scope = S, !.left = C,
                               !.config = c]
  <2>1. t.kind = kind /\ t.pc = "collect"
    BY StartFields
  <2>2. task' = [task EXCEPT ![w] = t] /\ task[w].pc = "idle"
    BY <1>1 DEF StartTask
  <2> HIDE DEF t
  <2>3. ~InBulk(task[w]) /\ ~InBulk(t)
    BY <2>1, <2>2 DEF InBulk
  <2>4. kind = "bulk" => \A e \in Enrollments : ~Claim(t, e)
    BY <2>1 DEF Claim
  <2>5. Faults' \in {Faults, Faults + 1} /\ (Faults' = Faults => kind = "bulk")
    BY <1>0, <1>1
  <2> QED
    BY <1>1, <2>2, <2>3, <2>4, <2>5, OwedUntold DEF Untold
<1>2. ASSUME NEW w \in Workers, NEW c \in Configs, StartBulk(w, c) PROVE ReportsOwed'
    BY <1>0, <1>1, <1>2 DEF StartBulk
<1>3. ASSUME NEW w \in Workers, NEW c \in Configs, NEW e \in Enrollments, StartForced(w, c, e)
      PROVE  ReportsOwed'
    BY <1>0, <1>1, <1>3 DEF StartForced
<1>4. ASSUME NEW w \in Workers, NEW e \in Enrollments, StartSingle(w, e) PROVE ReportsOwed'
    BY <1>0, <1>1, <1>4 DEF StartSingle
\* A task that ends claims nothing any more.
<1>5. \A e \in Enrollments : /\ ~Claim(Idle, e) /\ ~BulkSends(Idle, e) /\ ~BulkAccepted(Idle, e)
                             /\ ~BulkNew(Idle, e)
    BY IdleFields DEF Claim, BulkSends, BulkAccepted, BulkNew
<1>6. ASSUME NEW w \in Workers, task' = [task EXCEPT ![w] = Idle], UNCHANGED audit,
             task[w].pc # "idle",
             (Untold /\ Faults' = Faults /\ ~InBulk(task[w])) \/ (Untold /\ Faults' = Faults + 1)
               \/ (Told(w) /\ Faults' = Faults + 1 /\ task[w].pc = "send")
      PROVE  ReportsOwed'
  <2>1. CASE ~InBulk(task[w])
    <3>1. ~InBulk(Idle) /\ \A e \in Enrollments : ~Claim(Idle, e)
      BY <1>5, IdleFields
    <3>2. CASE Untold
      BY <1>6, <2>1, <3>1, <3>2, OwedUntold
    <3>3. CASE Told(w) /\ Faults' = Faults + 1
      BY <1>6, <2>1, <3>1, <3>3, OwedKept
    <3> QED
      BY <1>6, <3>2, <3>3
  <2>2. CASE InBulk(task[w])
    <3>1. task[w].kind = "bulk"
      BY <2>2 DEF InBulk
    <3>2. \A e \in Enrollments : ~AgainBy(audit'[e], Idle, e)
      BY <1>5 DEF AgainBy
    <3>3. task[w].pc = "send" => \A e \in Enrollments :
             DueBy(audit'[e], Idle, e) \/ task[w].e = e => DueBy(audit[e], task[w], e)
      BY <1>5, <1>6, <2>2 DEF DueBy, BulkSends, BulkAccepted
    <3> QED
      BY <1>6, <2>2, <3>1, <3>2, <3>3, IdleFields, OwedBulk
  <2> QED
    BY <2>1, <2>2
<1>7. ASSUME NEW w \in Workers, NEW c \in Configs, Collect(w, c) PROVE ReportsOwed'
  <2> DEFINE t == task[w]
             left == t.left \ {c}
             todo == {e \in t.scope : learner[e].consent /\ ~Filtered(t.kind, e, c)}
             u == [t EXCEPT !.pc = "export", !.config = c, !.left = left, !.todo = todo]
  <2>1. /\ task' = [task EXCEPT ![w] = u] /\ UNCHANGED audit /\ t.pc = "collect"
        /\ Untold /\ Faults' = Faults
    BY <1>0, <1>7 DEF Collect, Untold
  <2>2. t \in Task
    BY Parts
  <2> HIDE DEF t, todo, left
  <2>3. u.kind = t.kind /\ u.pc = "export"
    BY <2>2, CollectFields
  <2> HIDE DEF u
  <2>4. ~InBulk(t) /\ ~InBulk(u) /\ \A e \in Enrollments : Claim(u, e) => Claim(t, e)
    BY <2>1, <2>3 DEF InBulk, Claim
  <2> QED
    BY <2>1, <2>4, OwedUntold DEF t
<1>8. ASSUME NEW w \in Workers, NEW e \in Enrollments, task[w].pc = "export",
             task' = [task EXCEPT ![w] = Without(task[w], e)], UNCHANGED audit, Untold,
             Faults' = Faults \/ Faults' = Faults + 1
      PROVE  ReportsOwed'
  <2> DEFINE t == Without(task[w], e)
  <2>1. t.kind = task[w].kind /\ t.pc = task[w].pc /\ t.todo = task[w].todo \ {e}
    BY Parts, WithoutFields
  <2>2. task' = [task EXCEPT ![w] = t]
    BY <1>8
  <2> HIDE DEF t
  <2>3. ~InBulk(task[w]) /\ ~InBulk(t) /\ \A d \in Enrollments : Claim(t, d) => Claim(task[w], d)
    BY <1>8, <2>1 DEF InBulk, Claim
  <2> QED
    BY <1>8, <2>2, <2>3, OwedUntold
<1>9. ASSUME NEW w \in Workers, NEW e \in Enrollments, PickFails(w, e) PROVE ReportsOwed'
    BY <1>0, <1>8, <1>9 DEF PickFails, Untold
<1>10. ASSUME NEW w \in Workers, NEW x \in Enrollments, Pick(w, x) PROVE ReportsOwed'
  <2> DEFINE t == Without(task[w], x)
             r == Record(x, t.config)
             u == [t EXCEPT !.pc = "send", !.e = x, !.copy = r]
  <2>1. /\ UNCHANGED audit /\ Untold /\ Faults' = Faults
        /\ task[w].pc = "export" /\ x \in task[w].todo
    BY <1>0, <1>10 DEF Pick, Untold
  <2>2. CASE task' = [task EXCEPT ![w] = t]
    BY <1>8, <2>1, <2>2
  <2>3. CASE ~Skipped(t.kind, r, x, t.config) /\ task' = [task EXCEPT ![w] = u]
    <3>1. t \in Task /\ t.kind = task[w].kind /\ t.todo = task[w].todo \ {x} /\ t.config \in Configs
      <4>1. task[w] \in Task /\ task[w].config \in Configs
        BY Parts
      <4>2. /\ t \in Task /\ t.kind = task[w].kind /\ t.todo = task[w].todo \ {x}
            /\ t.config = task[w].config
        BY <4>1, WithoutFields, TaskShrinks
      <4> QED
        BY <4>1, <4>2
    <3>2. r \in Audit
      BY <3>1, RecordType
    <3>3. r.stored = audit[x].stored /\ (audit[x].stored => r = audit[x])
      BY DEF Record, TypeOK, Audit
    <3>4. u.kind = t.kind /\ u.pc = "send" /\ u.todo = t.todo /\ u.e = x /\ u.copy = r
      <4> HIDE DEF t, r
      <4> QED
        BY <3>1, <3>2, SendFields
    <3>5. t.kind # "forced" => ~AlreadyTransmitted(x, t.config, r.grade)
      BY <2>3 DEF Skipped
    <3>6. task' = [task EXCEPT ![w] = u]
      BY <2>3
    <3> HIDE DEF t, r, u
    <3>7. CASE t.kind # "bulk"
      <4>1. ~InBulk(task[w]) /\ ~InBulk(u)
        BY <3>1, <3>4, <3>7 DEF InBulk
      <4>2. \A d \in Enrollments : Claim(u, d) => Claim(task[w], d)
        BY <2>1, <3>1, <3>4, <3>7 DEF Claim
      <4> QED
        BY <2>1, <3>6, <4>1, <4>2, OwedUntold
    <3>8. CASE t.kind = "bulk"
      <4>1. audit[x].config = t.config
        BY <3>1 DEF OneConfig, TypeOK, Audit
      <4>2. audit[x].transmitted => audit[x].stored
        BY DEF OnePass
      <4>3. ~audit[x].transmitted
        BY <3>3, <3>5, <3>8, <4>1, <4>2 DEF AlreadyTransmitted
      <4>4. ASSUME NEW d \in Enrollments
            PROVE  /\ DueBy(audit'[d], u, d) => DueBy(audit[d], task[w], d)
                   /\ ~AgainBy(audit'[d], u, d)
        <5>1. CASE d = x
          BY <2>1, <3>3, <3>4, <4>3, <5>1 DEF DueBy, AgainBy, BulkSends, BulkAccepted, BulkNew, InBulk
        <5>2. CASE d # x
          BY <2>1, <3>4, <5>2 DEF DueBy, AgainBy, BulkSends, BulkAccepted, BulkNew, InBulk
        <5> QED
          BY <5>1, <5>2
      <4>5. \A d \in Enrollments : Num(DueBy(audit'[d], u, d)) + Num(AgainBy(audit'[d], u, d))
               <= Num(DueBy(audit[d], task[w], d)) + Num(AgainBy(audit[d], task[w], d))
        BY <4>4 DEF Num
      <4> QED
        BY <2>1, <3>1, <3>4, <3>6, <3>8, <4>5, OwedBulk
    <3> QED
      BY <3>7, <3>8
  <2> QED
    BY <1>10, <2>2, <2>3 DEF Pick
<1>11. ASSUME NEW w \in Workers, NEW ok \in BOOLEAN, task[w].pc = "send", UNCHANGED audit,
              task' = [task EXCEPT ![w] = [task[w] EXCEPT !.pc = "save", !.ok = ok]],
              \/ ok /\ Told(w) /\ Faults' = Faults
              \/ ~ok /\ (Told(w) \/ Untold) /\ Faults' = Faults + 1
       PROVE  ReportsOwed'
  <2> DEFINE t == task[w]
             u == [t EXCEPT !.pc = "save", !.ok = ok]
  <2>1. t \in Task /\ Sound(t)
    BY Parts DEF OnePass
  <2>2. task' = [task EXCEPT ![w] = u] /\ t.pc = "send"
    BY <1>11
  <2> HIDE DEF t
  <2>3. /\ u.kind = t.kind /\ u.pc = "save" /\ u.todo = t.todo /\ u.e = t.e
        /\ u.copy = t.copy /\ u.ok = ok
    BY <2>1, AnswerFields
  <2> HIDE DEF u
  <2>4. CASE t.kind # "bulk"
    <3>1. ~InBulk(t) /\ ~InBulk(u)
      BY <2>3, <2>4 DEF InBulk
    <3>2. \A e \in Enrollments : Claim(u, e) => Claim(t, e)
      BY <2>2, <2>3 DEF Claim
    <3>3. ok => \A e \in Enrollments : Claim(u, e) => t.e # e
      BY <2>1, <2>2, <2>3 DEF Claim, Sound
    <3>4. Claim(t, t.e)
      BY <2>2, <2>4 DEF Claim
    <3> QED
      BY <1>0, <1>11, <2>2, <3>1, <3>2, <3>3, <3>4, OwedKept DEF t
  <2>5. CASE t.kind = "bulk"
    <3>1. ASSUME NEW e \in Enrollments
          PROVE  /\ t.e = e => DueBy(audit[e], t, e)
                 /\ DueBy(audit'[e], u, e) => DueBy(audit[e], t, e)
                 /\ ok /\ t.e = e => ~DueBy(audit'[e], u, e)
                 /\ AgainBy(audit'[e], u, e) => AgainBy(audit[e], t, e)
                 /\ ~ok => ~AgainBy(audit'[e], u, e)
      BY <1>11, <2>2, <2>3, <2>5 DEF DueBy, AgainBy, BulkSends, BulkAccepted, BulkNew, InBulk
    <3>2. ok => \A e \in Enrollments :
             Num(DueBy(audit'[e], u, e)) + Num(AgainBy(audit'[e], u, e)) + Num(t.e = e)
               <= Num(DueBy(audit[e], t, e)) + Num(AgainBy(audit[e], t, e))
      BY <3>1 DEF Num
    <3>3. u.kind = "bulk" /\ t.pc # "idle"
      BY <2>2, <2>3, <2>5
    <3> QED
      BY <1>11, <2>2, <2>5, <3>1, <3>2, <3>3, OwedBulk DEF t
  <2> QED
    BY <2>4, <2>5
<1>12. ASSUME NEW w \in Workers, SendAccepted(w) PROVE ReportsOwed'
    BY <1>0, <1>11, <1>12 DEF SendAccepted
<1>13. ASSUME NEW w \in Workers, SendRejected(w) PROVE ReportsOwed'
    BY <1>0, <1>11, <1>13 DEF SendRejected
<1>14. ASSUME NEW w \in Workers, SendRaises(w) PROVE ReportsOwed'
    BY <1>0, <1>6, <1>14 DEF SendRaises
<1>15. ASSUME NEW w \in Workers, Save(w) PROVE ReportsOwed'
  <2> DEFINE x == task[w].e
  <2>1. UNCHANGED spent /\ Untold /\ Faults' = Faults /\ task[w].pc = "save"
    BY <1>0, <1>15 DEF Save, Untold
  <2>2. CASE /\ ~task[w].copy.stored /\ audit[x].stored
             /\ UNCHANGED audit /\ task' = [task EXCEPT ![w] = Idle]
    <3>1. CASE ~InBulk(task[w])
      BY <1>6, <2>1, <2>2, <3>1
    <3>2. CASE InBulk(task[w])
      <4>1. ASSUME NEW e \in Enrollments
            PROVE  /\ ~AgainBy(audit'[e], Idle, e)
                   /\ DueBy(audit'[e], Idle, e)
                        => DueBy(audit[e], task[w], e) \/ AgainBy(audit[e], task[w], e)
        BY <1>5, <2>1, <2>2, <3>2 DEF DueBy, AgainBy, BulkSends, BulkAccepted, BulkNew
      <4>2. \A e \in Enrollments :
               Num(DueBy(audit'[e], Idle, e)) + Num(AgainBy(audit'[e], Idle, e))
                 <= Num(DueBy(audit[e], task[w], e)) + Num(AgainBy(audit[e], task[w], e))
        BY <4>1 DEF Num
      <4> QED
        BY <2>1, <2>2, <3>2, <4>2, IdleFields, OwedBulk DEF InBulk
    <3> QED
      BY <3>1, <3>2
  <2>3. CASE /\ audit' = [audit EXCEPT ![task[w].e] =
                   [task[w].copy EXCEPT !.stored = TRUE, !.transmitted = task[w].ok]]
             /\ task' = [task EXCEPT ![w] = GoOn(task[w])]
    <3>1. CASE task[w].kind # "bulk"
      BY <1>15, <2>1, <2>3, <3>1, OwedSave DEF Save
    <3>2. CASE task[w].kind = "bulk"
      <4> DEFINE u == GoOn(task[w])
      <4>1. u.kind = "bulk" /\ u.pc = "export" /\ task' = [task EXCEPT ![w] = u]
        BY <2>3, <3>2, Parts, GoOnFields
      <4> HIDE DEF u
      <4>2. /\ audit'[x].stored /\ audit'[x].transmitted = task[w].ok
            /\ \A e \in Enrollments : e # x => audit'[e] = audit[e]
        BY <2>3, SavedRecord
      <4>3. ASSUME NEW e \in Enrollments
            PROVE  /\ ~AgainBy(audit'[e], u, e)
                   /\ DueBy(audit'[e], u, e) => DueBy(audit[e], task[w], e)
        <5>1. CASE e = x
          BY <2>1, <3>2, <4>1, <4>2, <5>1
             DEF DueBy, AgainBy, BulkSends, BulkAccepted, BulkNew, InBulk
        <5>2. CASE e # x
          BY <2>1, <3>2, <4>1, <4>2, <5>2
             DEF DueBy, AgainBy, BulkSends, BulkAccepted, BulkNew, InBulk
        <5> QED
          BY <5>1, <5>2
      <4>4. \A e \in Enrollments :
               Num(DueBy(audit'[e], u, e)) + Num(AgainBy(audit'[e], u, e))
                 <= Num(DueBy(audit[e], task[w], e)) + Num(AgainBy(audit[e], task[w], e))
        BY <4>3 DEF Num
      <4> QED
        BY <2>1, <3>2, <4>1, <4>4, OwedBulk
    <3> QED
      BY <3>1, <3>2
  <2> QED
    BY <1>15, <2>2, <2>3 DEF Save
<1>16. ASSUME NEW w \in Workers, EndConfig(w) PROVE ReportsOwed'
  <2>1. task[w].pc = "export" /\ ~InBulk(task[w])
    BY <1>16 DEF EndConfig, InBulk
  <2>2. task[w].left = {}
    BY <2>1 DEF OnePass, Sound
  <2> QED
    BY <1>0, <1>6, <1>16, <2>1, <2>2 DEF EndConfig, Untold
<1>17. ASSUME NEW w \in Workers, Die(w) PROVE ReportsOwed'
    BY <1>0, <1>6, <1>17 DEF Die, Untold
<1>18. CASE Environment \/ UNCHANGED vars
  <2>1. UNCHANGED <<task, audit, reports>> /\ Faults' = Faults
    BY <1>0, <1>18 DEF Environment, Complete, Regrade, ChangeConsent, vars
  <2> QED
    BY <2>1 DEF ReportsOwed, Owed, Claims, Due, Again
<1> QED
    BY <1>2, <1>3, <1>4, <1>7, <1>9, <1>10, <1>12, <1>13, <1>14, <1>15, <1>16, <1>17, <1>18
    DEF Next, Work

\* Of a customer with one configuration, no enrollment is reported more than once but for
\* the requests that fail, the workers that die, the tasks an operator forces and those
\* that run without a lock: each costs one more report at most, whatever the order in
\* which they read, report and save over each other.
THEOREM ReportedOnceAndForFaults ==
    ASSUME OneConfig
    PROVE  Spec => []ReportsBounded
<1> DEFINE I == OnePass /\ ReportsOwed
<1>1. Init => I
  <2> SUFFICES ASSUME Init PROVE I
    OBVIOUS
  <2>1. \A w \in Workers : task[w] = Idle
    BY DEF Init
  <2>2. \A e \in Enrollments : ~audit[e].transmitted /\ ~audit[e].stored
    BY DEF Init, NoAudit
  <2>3. OnePass
    BY <2>1, <2>2, IdleFields DEF OnePass, OneLocked, Sound
  <2>4. ASSUME NEW e \in Enrollments, NEW c \in Configs
        PROVE  IsFiniteSet(Claims(e)) /\ reports[<<e, c>>] + Owed(e) <= 1 + Faults
    <3>1. Claims(e) = {}
      BY <2>1, IdleFields DEF Claims, Claim
    <3>2. IsFiniteSet(Claims(e)) /\ Cardinality(Claims(e)) = 0
      BY <3>1, FS_EmptySet
    <3>3. ~Again(e)
      BY <2>2 DEF Again
    <3>4. reports[<<e, c>>] = 0 /\ Faults = 0
      BY DEF Init, Faults, Bounds
    <3>5. Num(Due(e)) \in {0, 1} /\ Num(Again(e)) = 0
      BY <3>3 DEF Num
    <3> QED
      BY <3>2, <3>4, <3>5 DEF Owed
  <2> QED
    BY <2>3, <2>4 DEF ReportsOwed
<1>2. TypeOK /\ TypeOK' /\ I /\ [Next]_vars => I'
    BY OneConfig, OnePassStep, OwedStep
<1>3. TypeOK /\ I => ReportsBounded
  <2> SUFFICES ASSUME TypeOK, I PROVE ReportsBounded
    OBVIOUS
  <2>1. Faults \in Nat
    BY FaultsGrow
  <2>2. 1 + Faults = 1 + spent["failures"] + spent["deaths"] + spent["forced"] + spent["singles"]
    BY DEF TypeOK, Faults, Bounds
  <2>3. ASSUME NEW e \in Enrollments, NEW c \in Configs
        PROVE  reports[<<e, c>>] <= 1 + Faults
    <3>1. IsFiniteSet(Claims(e)) /\ reports[<<e, c>>] + Owed(e) <= 1 + Faults
      BY DEF ReportsOwed
    <3>2. reports[<<e, c>>] \in Nat /\ Cardinality(Claims(e)) \in Nat
      BY <3>1, FS_CardinalityType DEF TypeOK
    <3>3. Num(Due(e)) \in {0, 1} /\ Num(Again(e)) \in {0, 1}
      BY DEF Num
    <3> QED
      BY <2>1, <3>1, <3>2, <3>3 DEF Owed
  <2> HIDE DEF Faults
  <2> QED
    BY <2>2, <2>3 DEF ReportsBounded
<1>4. Spec => []TypeOK
    BY TypeCorrect
<1> HIDE DEF I
<1> QED
    BY <1>1, <1>2, <1>3, <1>4, PTL DEF Spec
=============================================================================
