----------------------------- MODULE SapLearners -----------------------------
(***************************************************************************)
(* Learners of a SAP SuccessFactors customer (sap_success_factors/           *)
(* exporters/learner_data.py, transmitters/learner_data.py, client.py): a     *)
(* task reads SAP's inactive learners page by page and unlinks them, and a    *)
(* completion that SAP refuses because its account is inactive deactivates    *)
(* the learner, by saving the whole record of the link.                       *)
(***************************************************************************)
EXTENDS Naturals, FiniteSets

CONSTANTS
    SapStudents,       \* how many: SAP lists them in the order of their numbers
    SapPageSize,       \* $top: 500
    SapMoves,          \* bound: changes of a learner's state in SAP
    SapReports         \* bound: completions that SAP refuses

ASSUME SapLearnersAssumption ==
    /\ SapStudents \in Nat /\ SapPageSize \in Nat \ {0}
    /\ SapMoves \in Nat /\ SapReports \in Nat

VARIABLES
    sapInactive,       \* the students that are inactive in SAP
    sapMoves,          \* how often a student's state has changed
    sapLink,           \* the EnterpriseCustomerUser of each student
    sapScan,           \* the task that unlinks
    sapReport          \* the refused completion being handled

sapLearnerVars == <<sapInactive, sapMoves, sapLink, sapScan, sapReport>>

SapStudent == 1 .. SapStudents
SapLink == [linked : BOOLEAN, active : BOOLEAN]

SapLearnersTypeOK ==
    /\ sapInactive \subseteq SapStudent /\ sapMoves \in 0 .. SapMoves
    /\ sapLink \in [SapStudent -> SapLink]
    /\ sapScan.pc \in {"idle", "page", "unlink"}
    /\ sapScan.skip \in 0 .. SapStudents + SapPageSize /\ sapScan.found \subseteq SapStudent
    /\ sapReport.student \in 0 .. SapStudents /\ sapReport.count \in 0 .. SapReports
    /\ sapReport.link \in SapLink

SapLearnersInit ==
    /\ sapInactive = {} /\ sapMoves = 0
    /\ sapLink = [s \in SapStudent |-> [linked |-> TRUE, active |-> TRUE]]
    /\ sapScan = [pc |-> "idle", skip |-> 0, found |-> {}]
    /\ sapReport = [student |-> 0, count |-> 0, link |-> [linked |-> TRUE, active |-> TRUE]]

-----------------------------------------------------------------------------
(* unlink_learners *)

SapScanBegins ==
    /\ sapScan.pc = "idle"
    /\ sapScan' = [pc |-> "page", skip |-> 0, found |-> {}]
    /\ UNCHANGED <<sapInactive, sapMoves, sapLink, sapReport>>

\* A student's place in SAP's list, from 0.
SapRank(s) == Cardinality({t \in sapInactive : t < s})

SapPage == {s \in sapInactive : SapRank(s) \in sapScan.skip .. sapScan.skip + SapPageSize - 1}

\* Fault: a page that is full is taken for the last one.
SapReadPage_Last ==
    /\ sapScan.pc = "page"
    /\ sapScan' = [sapScan EXCEPT !.pc = "unlink", !.found = @ \cup SapPage]
    /\ UNCHANGED <<sapInactive, sapMoves, sapLink, sapReport>>

\* Fault: the next page is asked for as long as anyone is inactive.
SapReadPage_Endless ==
    /\ sapScan.pc = "page"
    /\ sapScan' = [sapScan EXCEPT !.found = @ \cup SapPage, !.skip = @ + SapPageSize,
           !.pc = IF sapInactive # {} THEN "page" ELSE "unlink"]
    /\ UNCHANGED <<sapInactive, sapMoves, sapLink, sapReport>>

\* _call_search_students_recursively asks for the next page as long as $count is larger
\* than what the pages so far could hold.  The list may have changed since the last page.
SapReadPage ==
    /\ sapScan.pc = "page"
    /\ sapScan' = [sapScan EXCEPT !.found = @ \cup SapPage, !.skip = @ + SapPageSize,
           !.pc = IF Cardinality(sapInactive) > sapScan.skip + SapPageSize THEN "page" ELSE "unlink"]
    /\ UNCHANGED <<sapInactive, sapMoves, sapLink, sapReport>>

SapScanIdle == sapScan' = [pc |-> "idle", skip |-> 0, found |-> {}]

\* An error of SAP's, or of the connection: nobody is unlinked.
SapReadFails ==
    /\ sapScan.pc = "page"
    /\ SapScanIdle
    /\ UNCHANGED <<sapInactive, sapMoves, sapLink, sapReport>>

\* unlink_user, for each of them: linked and active are cleared.
SapUnlink(s) ==
    /\ sapScan.pc = "unlink" /\ s \in sapScan.found
    /\ sapScan' = [sapScan EXCEPT !.found = @ \ {s}]
    /\ sapLink' = [sapLink EXCEPT ![s] = [linked |-> FALSE, active |-> FALSE]]
    /\ UNCHANGED <<sapInactive, sapMoves, sapReport>>

SapScanEnds ==
    /\ sapScan.pc = "unlink" /\ sapScan.found = {}
    /\ SapScanIdle
    /\ UNCHANGED <<sapInactive, sapMoves, sapLink, sapReport>>

-----------------------------------------------------------------------------
(* handle_transmission_error, and the people in SAP *)

\* SAP refuses a completion: "user account is inactive".  The link is read, ...
SapReportRefused(s) ==
    /\ sapReport.student = 0 /\ sapReport.count < SapReports
    /\ s \in sapInactive /\ sapLink[s].linked
    /\ sapReport' = [student |-> s, count |-> sapReport.count + 1, link |-> sapLink[s]]
    /\ UNCHANGED <<sapInactive, sapMoves, sapLink, sapScan>>

\* ... and saved as it was read, but inactive.
SapDeactivate ==
    /\ sapReport.student # 0
    /\ sapLink' = [sapLink EXCEPT ![sapReport.student] = [sapReport.link EXCEPT !.active = FALSE]]
    /\ sapReport' = [sapReport EXCEPT !.student = 0]
    /\ UNCHANGED <<sapInactive, sapMoves, sapScan>>

\* A student becomes inactive in SAP, or active again; one who is active signs in and is
\* linked.
SapMoved(s) ==
    /\ sapMoves < SapMoves
    /\ sapMoves' = sapMoves + 1
    /\ sapInactive' = IF s \in sapInactive THEN sapInactive \ {s} ELSE sapInactive \cup {s}
    /\ UNCHANGED <<sapLink, sapScan, sapReport>>

SapSignsIn(s) ==
    /\ s \notin sapInactive
    /\ sapLink' = [sapLink EXCEPT ![s] = [linked |-> TRUE, active |-> TRUE]]
    /\ UNCHANGED <<sapInactive, sapMoves, sapScan, sapReport>>

SapLearnersNext ==
    \/ SapScanBegins \/ SapReadPage \/ SapReadFails \/ SapScanEnds \/ SapDeactivate
    \/ \E s \in SapStudent : SapUnlink(s) \/ SapReportRefused(s) \/ SapMoved(s) \/ SapSignsIn(s)

SapLearnersSpec == SapLearnersInit /\ [][SapLearnersNext]_sapLearnerVars

\* The task is queued every day and runs; no page of the list fails every time.
SapScanStep == SapScanBegins \/ SapReadPage \/ SapScanEnds \/ \E s \in SapStudent : SapUnlink(s)

SapLearnersFairness ==
    /\ WF_sapLearnerVars(SapScanStep) /\ WF_sapLearnerVars(SapDeactivate)
    /\ \A n \in 0 .. SapStudents : SF_sapLearnerVars(sapScan.skip = n * SapPageSize /\ SapReadPage)

SapLearnersFairSpec == SapLearnersSpec /\ SapLearnersFairness

-----------------------------------------------------------------------------
(* Properties *)

\* A learner who is inactive in SAP and stays so is unlinked, although SAP's list moves
\* under the pages that are read of it and a refused completion may save an old link
\* over the new one (unlink_learners).
InactiveAreUnlinked ==
    <>[](\A s \in SapStudent : s \in sapInactive => ~sapLink[s].linked)

\* Who has been unlinked stays so until signing in again (unlink_learners).  Fails: the
\* link that handle_transmission_error saves is the one it read.
UnlinkedUntilSignIn ==
    [][\A s \in SapStudent :
          ~sapLink[s].linked /\ sapLink'[s].linked => sapReport.student # s]_sapLearnerVars

\* "Unlink inactive enterprise learners" (ic_unlink_inactive_sap_learners).  Fails: who
\* was reactivated since the list was read is unlinked too.
OnlyInactiveUnlinked ==
    [][\A s \in SapStudent : sapLink[s].linked /\ ~sapLink'[s].linked => s \in sapInactive]_sapLearnerVars
=============================================================================
