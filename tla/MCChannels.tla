------------------------------ MODULE MCChannels ------------------------------
(***************************************************************************)
(* The tasks of SAP SuccessFactors, Cornerstone and xAPI, the budget groups  *)
(* and the grades of subsections for TLC.  As in MCClients, a behaviour is     *)
(* one of one component, chosen at the start.                                 *)
(***************************************************************************)
EXTENDS SapContent, SapLearners, CornerstoneContent, CornerstoneCompletions, XapiStatements,
        TpaBudgetGroups, SubsectionGrades, Sequences, SequencesExt

CONSTANT aCourse   \* the course the xAPI runs are runs of

VARIABLE channel

sapVars == <<sapContentVars, sapLearnerVars>>
csodVars == <<csodContentVars, csodLearnerVars>>
channelVars == <<sapVars, csodVars, xapiVars, tpaVars, subVars, channel>>

Channels == {"sap content", "sap learners", "cornerstone content", "cornerstone completions", "xapi",
             "budget groups", "subsections"}

\* Every customer of Cornerstone has the learner, every customer of xAPI enrolled the learner.
Links == [l \in CsodLearners |-> CsodConfigs]
CourseOfRun == [r \in XapiRuns |-> aCourse]
OwnersOfRun == [r \in XapiRuns |-> XapiCustomers]

Init ==
    /\ channel \in Channels
    /\ SapContentInit /\ SapLearnersInit /\ CsodContentInit /\ CsodCompletionsInit
    /\ XapiInit /\ TpaInit /\ SubInit

SapContentOnly(A) ==
    /\ channel = "sap content" /\ A
    /\ UNCHANGED <<sapLearnerVars, csodVars, xapiVars, tpaVars, subVars, channel>>
SapLearnersOnly(A) ==
    /\ channel = "sap learners" /\ A
    /\ UNCHANGED <<sapContentVars, csodVars, xapiVars, tpaVars, subVars, channel>>
CsodContentOnly(A) ==
    /\ channel = "cornerstone content" /\ A
    /\ UNCHANGED <<sapVars, csodLearnerVars, xapiVars, tpaVars, subVars, channel>>
CsodCompletionsOnly(A) ==
    /\ channel = "cornerstone completions" /\ A
    /\ UNCHANGED <<sapVars, csodContentVars, xapiVars, tpaVars, subVars, channel>>
XapiOnly(A) ==
    /\ channel = "xapi" /\ A
    /\ UNCHANGED <<sapVars, csodVars, tpaVars, subVars, channel>>
TpaOnly(A) ==
    /\ channel = "budget groups" /\ A
    /\ UNCHANGED <<sapVars, csodVars, xapiVars, subVars, channel>>
SubOnly(A) ==
    /\ channel = "subsections" /\ A
    /\ UNCHANGED <<sapVars, csodVars, xapiVars, tpaVars, channel>>

Next ==
    \/ SapContentOnly(SapContentNext) \/ SapLearnersOnly(SapLearnersNext)
    \/ CsodContentOnly(CsodContentNext) \/ CsodCompletionsOnly(CsodCompletionsNext)
    \/ XapiOnly(XapiNext) \/ TpaOnly(TpaNext) \/ SubOnly(SubNext)

\* A behaviour is one component's, so that the k-th conditions of all components can be
\* one: only the disjunct of that component is ever enabled.
Course == SetToSeq(SapCourses)
Content == SetToSeq(CsodContents)
Puller == SetToSeq(CsodPullers)
Config == SetToSeq(CsodConfigs)
Receiver == SetToSeq(CsodConfigs \X CsodLearners)
Process == SetToSeq(XapiProcs)
Login == SetToSeq(TpaLogins)
Task == SetToSeq(SubTasks)
Statement == SetToSeq(XapiCustomers \X XapiIds)
Page == 0 .. SapStudents

Weak(k) ==
    \/ k = 1 /\ SapContentOnly(SapJobProgress)
    \/ SapLearnersOnly(\/ k = 1 /\ SapScanStep
                       \/ k = 2 /\ SapDeactivate)
    \/ CsodContentOnly(\/ k = 1 /\ CsodJobMarks
                       \/ k = 2 /\ CsodJobEnds
                       \/ k - 2 \in DOMAIN Puller /\ \E since \in CsodHeaders : CsodPullReads(Puller[k - 2], since)
                       \/ k - 2 - Len(Puller) \in DOMAIN Puller /\ CsodPullFails(Puller[k - 2 - Len(Puller)]))
    \/ CsodCompletionsOnly(k \in DOMAIN Config /\ CsodTaskStep(Config[k]))
    \/ XapiOnly(k \in DOMAIN Process /\ XapiStep(Process[k]))
    \/ TpaOnly(\/ k = 1 /\ \E p, q \in TpaLogins : TpaDeadlock(p, q)
               \/ k - 1 \in DOMAIN Login /\ TpaStep(Login[k - 1]))
    \/ SubOnly(\/ k = 1 /\ SubStartBulk
               \/ k - 1 \in DOMAIN Task /\ SubStep(Task[k - 1]))

Strong(k) ==
    \/ SapContentOnly(k \in DOMAIN Course /\ SapTaken(Course[k]))
    \/ SapLearnersOnly(k - 1 \in Page /\ sapScan.skip = (k - 1) * SapPageSize /\ SapReadPage)
    \/ CsodContentOnly(\/ k \in DOMAIN Content /\ CsodJobBuilds(Content[k])
                       \/ k - Len(Content) \in DOMAIN Puller /\ CsodPullAnswered(Puller[k - Len(Content)]))
    \/ CsodCompletionsOnly(k \in DOMAIN Receiver /\ csodTask[Receiver[k][1]].learner = Receiver[k][2]
                              /\ CsodSendAccepted(Receiver[k][1]))
    \/ XapiOnly(\/ k = 1 /\ \E p \in XapiProcs : XapiBegin(p, "completed", XapiCustomers)
                \/ k - 1 \in DOMAIN Statement /\ \E p \in XapiProcs :
                      /\ <<xapiCommand[p].customer, xapiCommand[p].id>> = Statement[k - 1]
                      /\ xapiCommand[p].verb = "completed" /\ XapiAccepted(p))

Fairness == \A k \in 1 .. 4 : WF_channelVars(Weak(k)) /\ SF_channelVars(Strong(k))

Spec == Init /\ [][Next]_channelVars /\ Fairness

\* Every component's state is of its type.
TypeOK ==
    /\ SapContentTypeOK /\ SapLearnersTypeOK /\ CsodContentTypeOK
    /\ CsodCompletionsTypeOK /\ XapiTypeOK
    /\ TpaTypeOK /\ SubTypeOK
=============================================================================
