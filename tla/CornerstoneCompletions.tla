------------------------ MODULE CornerstoneCompletions ------------------------
(***************************************************************************)
(* Completions for Cornerstone (cornerstone/client.py, utils.py, models.py,  *)
(* exporters/learner_data.py, api/v1/cornerstone/views.py).  A learner who    *)
(* launches a course from Cornerstone leaves a record with a callback, and a  *)
(* session token, which the configuration keeps; the task that reports        *)
(* completions needs both, unless the customer uses OAuth.  Learners launch   *)
(* while tasks run.                                                            *)
(***************************************************************************)
EXTENDS Naturals

CONSTANTS
    CsodConfigs,       \* Cornerstone configurations, each of a customer of its own
    CsodOauth,         \* the ones with client credentials (uses_oauth_completion_auth)
    CsodLearners,
    CsodLinks,         \* the configurations whose customers a learner is linked to
    CsodLaunches       \* bound: launches, each with a session token of its own

ASSUME CsodCompletionsAssumption == CsodLearners # {} /\ CsodLaunches \in Nat

VARIABLES
    csodRecord,        \* the record of each learner and the course, unique for the two
    csodToken,         \* the session token of each configuration, or 0
    csodLaunched,      \* the last launch of each learner from each configuration, or 0
    csodLive,          \* the session tokens Cornerstone takes
    csodCompleted,     \* learners who have completed the course
    csodTask,          \* each configuration's task
    csodTold           \* the completions Cornerstone has recorded

csodLearnerVars ==
    <<csodRecord, csodToken, csodLaunched, csodLive, csodCompleted, csodTask, csodTold>>

CsodToken == 0 .. CsodLaunches
CsodNoConfig == "none"

\* launch stands for what a launch leaves in a record: token, callback and user's guid.
CsodRecord == [config : CsodConfigs \cup {CsodNoConfig}, launch : CsodToken,
               graded : BOOLEAN, transmitted : BOOLEAN]

CsodCompletionsTypeOK ==
    /\ csodRecord \in [CsodLearners -> CsodRecord]
    /\ csodToken \in [CsodConfigs -> CsodToken]
    /\ csodLaunched \in [CsodConfigs \X CsodLearners -> CsodToken]
    /\ csodLive \subseteq CsodToken
    /\ csodCompleted \subseteq CsodLearners
    /\ \A c \in CsodConfigs :
           /\ csodTask[c].pc \in {"idle", "next", "send", "save"} /\ csodTask[c].todo \subseteq CsodLearners
           /\ csodTask[c].token \in CsodToken /\ csodTask[c].ok \in BOOLEAN
           /\ csodTask[c].learner \in CsodLearners /\ csodTask[c].record \in CsodRecord
    /\ csodTold \subseteq CsodConfigs \X CsodLearners

CsodCompletionsInit ==
    /\ csodRecord = [l \in CsodLearners |->
           [config |-> CsodNoConfig, launch |-> 0, graded |-> FALSE, transmitted |-> FALSE]]
    /\ csodToken = [c \in CsodConfigs |-> 0]
    /\ csodLaunched = [p \in CsodConfigs \X CsodLearners |-> 0]
    /\ csodLive = {} /\ csodCompleted = {} /\ csodTold = {}
    /\ csodTask = [c \in CsodConfigs |->
           [pc |-> "idle", todo |-> {}, token |-> 0, ok |-> FALSE,
            learner |-> CHOOSE l \in CsodLearners : TRUE,
            record |-> [config |-> CsodNoConfig, launch |-> 0, graded |-> FALSE, transmitted |-> FALSE]]]

-----------------------------------------------------------------------------
(* A launch: CornerstoneLearnerInformationView.post *)

CsodLaunchCount == IF csodLive = {} THEN 0 ELSE CHOOSE t \in csodLive : \A u \in csodLive : u <= t

\* create_cornerstone_learner_data looks the record up with its configuration and
\* creates it if it is not found; a record of another configuration makes that violate
\* the unique index, which is logged, and the answer is 200 all the same.
CsodLaunch(c, l) ==
    /\ c \in CsodLinks[l] /\ CsodLaunchCount < CsodLaunches
    /\ LET t == CsodLaunchCount + 1 IN
       /\ csodToken' = [csodToken EXCEPT ![c] = t]
       /\ csodLive' = csodLive \cup {t}
       /\ csodLaunched' = [csodLaunched EXCEPT ![<<c, l>>] = t]
       /\ csodRecord' = IF csodRecord[l].config \in {CsodNoConfig, c}
                        THEN [csodRecord EXCEPT ![l].config = c, ![l].launch = t]
                        ELSE csodRecord
    /\ UNCHANGED <<csodCompleted, csodTask, csodTold>>

\* A session ends; the last one has not.
CsodExpires(t) ==
    /\ t \in csodLive /\ t < CsodLaunchCount
    /\ csodLive' = csodLive \ {t}
    /\ UNCHANGED <<csodRecord, csodToken, csodLaunched, csodCompleted, csodTask, csodTold>>

CsodComplete(l) ==
    /\ csodCompleted' = csodCompleted \cup {l}
    /\ UNCHANGED <<csodRecord, csodToken, csodLaunched, csodLive, csodTask, csodTold>>

-----------------------------------------------------------------------------
(* The task of a configuration *)

\* The configuration is loaded, with its session token.
CsodTaskBegins(c) ==
    /\ csodTask[c].pc = "idle"
    /\ csodTask' = [csodTask EXCEPT ![c].pc = "next", ![c].token = csodToken[c],
                                    ![c].todo = {l \in csodCompleted : c \in CsodLinks[l]}]
    /\ UNCHANGED <<csodRecord, csodToken, csodLaunched, csodLive, csodCompleted, csodTold>>

\* get_learner_data_records updates the record of the configuration, in memory; there is
\* nothing to send without one, or when its grade has been transmitted.
CsodPick(c, l) ==
    /\ csodTask[c].pc = "next" /\ l \in csodTask[c].todo
    /\ LET record == csodRecord[l]
           due == record.config = c /\ ~(record.transmitted /\ record.graded)
       IN  csodTask' = [csodTask EXCEPT ![c].todo = @ \ {l}, ![c].learner = l,
                            ![c].record = [record EXCEPT !.graded = TRUE],
                            ![c].pc = IF due THEN "send" ELSE "next"]
    /\ UNCHANGED <<csodRecord, csodToken, csodLaunched, csodLive, csodCompleted, csodTold>>

CsodTaskEnds(c) ==
    /\ csodTask[c].pc = "next" /\ csodTask[c].todo = {}
    /\ csodTask' = [csodTask EXCEPT ![c].pc = "idle"]
    /\ UNCHANGED <<csodRecord, csodToken, csodLaunched, csodLive, csodCompleted, csodTold>>

\* Fault: completions go to the callback with the token of the record.
CsodAuthorized_Record(c) == c \in CsodOauth \/ csodTask[c].record.launch \in csodLive

\* A completion goes to the transcript API with the client's own token, or to the
\* callback with the session token of the configuration, or of the record.
CsodAuthorized(c) ==
    c \in CsodOauth
        \/ (IF csodTask[c].token # 0 THEN csodTask[c].token ELSE csodTask[c].record.launch) \in csodLive

CsodSendAccepted(c) ==
    /\ csodTask[c].pc = "send" /\ CsodAuthorized(c)
    /\ csodTask' = [csodTask EXCEPT ![c].pc = "save", ![c].ok = TRUE]
    /\ csodTold' = csodTold \cup {<<c, csodTask[c].learner>>}
    /\ UNCHANGED <<csodRecord, csodToken, csodLaunched, csodLive, csodCompleted>>

\* Refused, or an error that ends the task before the record is saved.
CsodSendFails(c) ==
    /\ csodTask[c].pc = "send"
    /\ \/ csodTask' = [csodTask EXCEPT ![c].pc = "save", ![c].ok = FALSE]
       \/ csodTask' = [csodTask EXCEPT ![c].pc = "idle", ![c].todo = {}]
    /\ UNCHANGED <<csodRecord, csodToken, csodLaunched, csodLive, csodCompleted, csodTold>>

\* The record is saved whole, as it was picked.
CsodSave(c) ==
    /\ csodTask[c].pc = "save"
    /\ csodRecord' = [csodRecord EXCEPT ![csodTask[c].learner] =
                         [csodTask[c].record EXCEPT !.transmitted = csodTask[c].ok]]
    /\ csodTask' = [csodTask EXCEPT ![c].pc = "next"]
    /\ UNCHANGED <<csodToken, csodLaunched, csodLive, csodCompleted, csodTold>>

CsodTaskStep(c) ==
    \/ CsodTaskBegins(c) \/ CsodTaskEnds(c) \/ CsodSendAccepted(c) \/ CsodSendFails(c) \/ CsodSave(c)
    \/ \E l \in CsodLearners : CsodPick(c, l)

CsodCompletionsNext ==
    \/ \E c \in CsodConfigs, l \in CsodLearners : CsodLaunch(c, l)
    \/ \E c \in CsodConfigs : CsodTaskStep(c)
    \/ \E l \in CsodLearners : CsodComplete(l)
    \/ \E t \in 1 .. CsodLaunches : CsodExpires(t)

CsodCompletionsSpec == CsodCompletionsInit /\ [][CsodCompletionsNext]_csodLearnerVars

\* Tasks run every day; Cornerstone does not refuse a learner's completion for ever.
CsodCompletionsFairness ==
    \A c \in CsodConfigs :
        /\ WF_csodLearnerVars(CsodTaskStep(c))
        /\ \A l \in CsodLearners :
               SF_csodLearnerVars(csodTask[c].learner = l /\ CsodSendAccepted(c))

CsodCompletionsFairSpec == CsodCompletionsSpec /\ CsodCompletionsFairness

-----------------------------------------------------------------------------
(* Properties *)

\* The completion of a learner who launched the course is recorded in Cornerstone, as
\* long as someone's launch gives the configuration a token that is still taken, or it
\* uses OAuth: whatever is refused, and although records are saved as they were before
\* a launch (create_course_completion).
CsodCompletionsReported ==
    <>[](\A c \in CsodConfigs, l \in CsodLearners :
            l \in csodCompleted /\ csodRecord[l].config = c
                => <<c, l>> \in csodTold \/ (c \notin CsodOauth /\ csodToken[c] \notin csodLive))

\* "An endpoint to save a cornerstone learner information" (post): what was launched was
\* saved.  Fails: a record of the learner with another customer's configuration stands
\* in the way for good.
CsodLaunchIsSaved ==
    \A c \in CsodConfigs, l \in CsodLearners : csodLaunched[c, l] # 0 => csodRecord[l].config = c

\* The record has the callback of the learner's last launch.  Fails: the task saves the
\* one it picked.
CsodLastLaunchKept ==
    \A l \in CsodLearners :
        csodRecord[l].config # CsodNoConfig => csodRecord[l].launch = csodLaunched[csodRecord[l].config, l]
=============================================================================
