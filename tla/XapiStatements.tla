---------------------------- MODULE XapiStatements ----------------------------
(***************************************************************************)
(* xAPI statements about one learner (xapi/): the command that tells the      *)
(* customers' learning record stores (LRS) of enrollments, the command that   *)
(* tells them of completions, and the audit records both work from.  Nothing  *)
(* keeps two runs of a command apart.                                         *)
(***************************************************************************)
EXTENDS Naturals, FiniteSets

CONSTANTS
    XapiCustomers,     \* the learner's customers, each with an active XAPILRSConfiguration
    XapiRuns,          \* course runs
    XapiCourse,        \* the course of each run
    XapiOwners,        \* the customers with an EnterpriseCourseEnrollment of the learner in each run
    XapiNone,          \* no audit record, no enterprise enrollment
    XapiProcs,         \* processes that run commands
    XapiTroubles       \* bound: commands that raise or die

VARIABLES
    xapiEnrolled,      \* the runs the learner is enrolled in,
    xapiOld,           \*   those of them longer ago than --days, and
    xapiPassed,        \*   those passed
    xapiAudits,        \* the XAPILearnerDataTransmissionAudit of each course id
    xapiTold,          \* the statements each LRS has accepted
    xapiCommand,       \* the command of each process
    xapiTroubles       \* how many commands have failed

xapiVars == <<xapiEnrolled, xapiOld, xapiPassed, xapiAudits, xapiTold, xapiCommand, xapiTroubles>>

XapiCourses == {XapiCourse[r] : r \in XapiRuns}
XapiIds == XapiRuns \cup XapiCourses

\* enterprise_course_enrollment_id: of one customer, for one run.
XapiEnrollments == {e \in XapiRuns \X XapiCustomers : e[2] \in XapiOwners[e[1]]}
XapiAudit == [enrollment : XapiEnrollments \cup {XapiNone}, completed : BOOLEAN]

ASSUME XapiAssumption ==
    /\ XapiOwners \in [XapiRuns -> SUBSET XapiCustomers]
    /\ XapiNone \notin XapiAudit
    /\ XapiTroubles \in Nat

\* pc: where the item being handled is; run: the course run it is about, id: the course id
\* that is told, todo: the items after it, customers: the customers after this one.
XapiCommands ==
    [verb : {"registered", "completed"}, customers : SUBSET XapiCustomers,
     customer : XapiCustomers \cup {XapiNone}, pc : {"idle", "list", "next", "send", "save"},
     todo : SUBSET (XapiIds \X XapiRuns), id : XapiIds \cup {XapiNone}, run : XapiRuns \cup {XapiNone}]

XapiIdle == [verb |-> "registered", customers |-> {}, customer |-> XapiNone, pc |-> "idle",
             todo |-> {}, id |-> XapiNone, run |-> XapiNone]

XapiTypeOK ==
    /\ xapiEnrolled \subseteq XapiRuns /\ xapiOld \subseteq xapiEnrolled /\ xapiPassed \subseteq xapiEnrolled
    /\ xapiAudits \in [XapiIds -> XapiAudit \cup {XapiNone}]
    /\ xapiTold \in [XapiCustomers -> SUBSET ({"registered", "completed"} \X XapiIds)]
    /\ xapiCommand \in [XapiProcs -> XapiCommands]
    /\ xapiTroubles \in 0 .. XapiTroubles

XapiInit ==
    /\ xapiEnrolled = {} /\ xapiOld = {} /\ xapiPassed = {}
    /\ xapiAudits = [i \in XapiIds |-> XapiNone]
    /\ xapiTold = [c \in XapiCustomers |-> {}]
    /\ xapiCommand = [p \in XapiProcs |-> XapiIdle]
    /\ xapiTroubles = 0

-----------------------------------------------------------------------------
(* The lists the commands work through *)

\* An audit record of this customer's enrollments.
XapiIsOf(audit, c) == audit # XapiNone /\ audit.enrollment # XapiNone /\ audit.enrollment[2] = c

\* get_course_enrollments: the learner's enrollments of the last --days, whichever customer
\* they were for, without those that have a record.
XapiUntold(c) == {r \in xapiEnrolled \ xapiOld : ~XapiIsOf(xapiAudits[r], c)}

\* get_xapi_transmission_queryset.
XapiUncompleted(c) == {i \in XapiIds : XapiIsOf(xapiAudits[i], c) /\ ~xapiAudits[i].completed}

\* Fault: only the enrollments of the last --days are looked at.
XapiPassedItems_Recent(c) ==
    {<<i, xapiAudits[i].enrollment[1]>> : i \in
        {j \in XapiUncompleted(c) : xapiAudits[j].enrollment[1] \in xapiPassed \ xapiOld}}

\* get_course_completions: the grade is that of the enrollment the record names.
XapiPassedItems(c) ==
    {<<i, xapiAudits[i].enrollment[1]>> : i \in
        {j \in XapiUncompleted(c) : xapiAudits[j].enrollment[1] \in xapiPassed}}

\* An enrollment is told of the course first, then of the run.
XapiItems(verb, c) ==
    IF verb = "completed" THEN XapiPassedItems(c)
    ELSE {<<XapiCourse[r], r>> : r \in XapiUntold(c)}

-----------------------------------------------------------------------------
(* The commands *)

XapiWorld == <<xapiEnrolled, xapiOld, xapiPassed>>

\* The command is run for one customer, or for all of them.
XapiBegin(p, verb, customers) ==
    /\ xapiCommand[p].pc = "idle"
    /\ xapiCommand' = [xapiCommand EXCEPT ![p] = [@ EXCEPT !.verb = verb, !.customers = customers, !.pc = "list"]]
    /\ UNCHANGED <<XapiWorld, xapiAudits, xapiTold, xapiTroubles>>

XapiList(p, c) ==
    LET cmd == xapiCommand[p] IN
    /\ cmd.pc = "list" /\ c \in cmd.customers
    /\ xapiCommand' = [xapiCommand EXCEPT ![p] =
           [cmd EXCEPT !.customers = @ \ {c}, !.customer = c, !.todo = XapiItems(cmd.verb, c), !.pc = "next"]]
    /\ UNCHANGED <<XapiWorld, xapiAudits, xapiTold, xapiTroubles>>

XapiEnd(p) ==
    /\ xapiCommand[p].pc = "list" /\ xapiCommand[p].customers = {}
    /\ xapiCommand' = [xapiCommand EXCEPT ![p] = XapiIdle]
    /\ UNCHANGED <<XapiWorld, xapiAudits, xapiTold, xapiTroubles>>

XapiTake(p, item) ==
    LET cmd == xapiCommand[p] IN
    /\ cmd.pc = "next" /\ item \in cmd.todo
    /\ xapiCommand' = [xapiCommand EXCEPT ![p] =
           [cmd EXCEPT !.todo = @ \ {item}, !.id = item[1], !.run = item[2], !.pc = "send"]]
    /\ UNCHANGED <<XapiWorld, xapiAudits, xapiTold, xapiTroubles>>

XapiNextCustomer(p) ==
    /\ xapiCommand[p].pc = "next" /\ xapiCommand[p].todo = {}
    /\ xapiCommand' = [xapiCommand EXCEPT ![p].pc = "list"]
    /\ UNCHANGED <<XapiWorld, xapiAudits, xapiTold, xapiTroubles>>

\* The LRS answers 200.
XapiAccepted(p) ==
    LET cmd == xapiCommand[p] IN
    /\ cmd.pc = "send"
    /\ xapiTold' = [xapiTold EXCEPT ![cmd.customer] = @ \cup {<<cmd.verb, cmd.id>>}]
    /\ xapiCommand' = [xapiCommand EXCEPT ![p].pc = "save"]
    /\ UNCHANGED <<XapiWorld, xapiAudits, xapiTroubles>>

\* Fault: whatever the LRS answers is recorded.
XapiRefused_Saved(p) ==
    /\ xapiCommand[p].pc = "send"
    /\ xapiCommand' = [xapiCommand EXCEPT ![p].pc = "save"]
    /\ UNCHANGED <<XapiWorld, xapiAudits, xapiTold, xapiTroubles>>

\* Any other answer (is_success_response): the run is not told of when the course was refused.
XapiRefused(p) ==
    /\ xapiCommand[p].pc = "send"
    /\ xapiCommand' = [xapiCommand EXCEPT ![p].pc = "next"]
    /\ UNCHANGED <<XapiWorld, xapiAudits, xapiTold, xapiTroubles>>

\* get_enterprise_course_enrollment_id.
XapiEnrollment(r, c) == IF c \in XapiOwners[r] THEN <<r, c>> ELSE XapiNone

\* get_or_create of an enrollment's record: one that exists is left as it is.
XapiSaveEnrollment(p) ==
    LET cmd == xapiCommand[p] IN
    /\ cmd.pc = "save" /\ cmd.verb = "registered"
    /\ xapiAudits' = IF xapiAudits[cmd.id] # XapiNone THEN xapiAudits
                     ELSE [xapiAudits EXCEPT ![cmd.id] =
                              [enrollment |-> XapiEnrollment(cmd.run, cmd.customer), completed |-> FALSE]]
    /\ xapiCommand' = [xapiCommand EXCEPT ![p] =
           IF cmd.id = cmd.run THEN [cmd EXCEPT !.pc = "next"] ELSE [cmd EXCEPT !.id = cmd.run, !.pc = "send"]]
    /\ UNCHANGED <<XapiWorld, xapiTold, xapiTroubles>>

\* save_xapi_learner_data_transmission_audit of a completion.
XapiSaveCompletion(p) ==
    LET cmd == xapiCommand[p] IN
    /\ cmd.pc = "save" /\ cmd.verb = "completed"
    /\ xapiAudits' = [xapiAudits EXCEPT ![cmd.id].completed = TRUE]
    /\ xapiCommand' = [xapiCommand EXCEPT ![p].pc = "next"]
    /\ UNCHANGED <<XapiWorld, xapiTold, xapiTroubles>>

\* The catalog or the connection to the LRS raises, or the process dies: the rest of this
\* customer and all customers after it are left.
XapiTrouble(p) ==
    /\ xapiCommand[p].pc # "idle" /\ xapiTroubles < XapiTroubles
    /\ xapiCommand' = [xapiCommand EXCEPT ![p] = XapiIdle]
    /\ xapiTroubles' = xapiTroubles + 1
    /\ UNCHANGED <<XapiWorld, xapiAudits, xapiTold>>

-----------------------------------------------------------------------------
(* The learner *)

XapiEnroll(r) ==
    /\ xapiEnrolled' = xapiEnrolled \cup {r}
    /\ UNCHANGED <<xapiOld, xapiPassed, xapiAudits, xapiTold, xapiCommand, xapiTroubles>>

XapiPass(r) ==
    /\ r \in xapiEnrolled
    /\ xapiPassed' = xapiPassed \cup {r}
    /\ UNCHANGED <<xapiEnrolled, xapiOld, xapiAudits, xapiTold, xapiCommand, xapiTroubles>>

\* The enrollment is older than --days.
XapiAge(r) ==
    /\ r \in xapiEnrolled
    /\ xapiOld' = xapiOld \cup {r}
    /\ UNCHANGED <<xapiEnrolled, xapiPassed, xapiAudits, xapiTold, xapiCommand, xapiTroubles>>

XapiStep(p) ==
    \/ \E c \in XapiCustomers : XapiList(p, c)
    \/ \E item \in XapiIds \X XapiRuns : XapiTake(p, item)
    \/ XapiEnd(p) \/ XapiNextCustomer(p) \/ XapiAccepted(p) \/ XapiRefused(p)
    \/ XapiSaveEnrollment(p) \/ XapiSaveCompletion(p)

XapiNext ==
    \/ \E p \in XapiProcs :
          \/ XapiStep(p) \/ XapiTrouble(p)
          \/ \E verb \in {"registered", "completed"} :
                XapiBegin(p, verb, XapiCustomers) \/ \E c \in XapiCustomers : XapiBegin(p, verb, {c})
    \/ \E r \in XapiRuns : XapiEnroll(r) \/ XapiPass(r) \/ XapiAge(r)

XapiSpec == XapiInit /\ [][XapiNext]_xapiVars

\* The command for completions is run again and again, and no statement is refused forever.
XapiFairness ==
    /\ \A p \in XapiProcs : WF_xapiVars(XapiStep(p))
    /\ SF_xapiVars(\E p \in XapiProcs : XapiBegin(p, "completed", XapiCustomers))
    /\ \A c \in XapiCustomers, i \in XapiIds :
          SF_xapiVars(\E p \in XapiProcs :
              /\ xapiCommand[p].customer = c /\ xapiCommand[p].id = i /\ xapiCommand[p].verb = "completed"
              /\ XapiAccepted(p))

XapiFairSpec == XapiSpec /\ XapiFairness

-----------------------------------------------------------------------------
(* Properties *)

\* An LRS that has been told of a completion was told of the enrollment before: the
\* completion is sent from the record that an accepted enrollment leaves
\* (get_xapi_transmission_queryset).  And a record is marked completed only if the LRS of
\* its own customer accepted the statement.
XapiRecordsWereTold ==
    \A c \in XapiCustomers, i \in XapiIds :
        /\ <<"completed", i>> \in xapiTold[c] => <<"registered", i>> \in xapiTold[c]
        /\ XapiIsOf(xapiAudits[i], c) /\ xapiAudits[i].completed => <<"completed", i>> \in xapiTold[c]

\* Once an enrollment is on record and its run passed, the LRS is told of the completion,
\* although commands are refused, raise, die and meet each other.
XapiCompletionsTold ==
    <>[](\A e \in XapiEnrollments, i \in XapiIds :
            xapiAudits[i] # XapiNone /\ xapiAudits[i].enrollment = e /\ e[1] \in xapiPassed
                => <<"completed", i>> \in xapiTold[e[2]])

\* Every enrollment that is passed is told of to its customer, once both commands ran.
\* Fails: the record is unique for the learner and the course id, so that a second customer
\* of the learner finds the record of the first and its own LRS never hears of the completion.
XapiRecordIsItsOwn ==
    \A c \in XapiCustomers, r \in XapiRuns :
        c \in XapiOwners[r] /\ <<"registered", r>> \in xapiTold[c] /\ (\A p \in XapiProcs : xapiCommand[p].pc = "idle")
            /\ xapiTroubles = 0
            => XapiIsOf(xapiAudits[r], c)
=============================================================================
