------------------------------ MODULE SapContent ------------------------------
(***************************************************************************)
(* Content for SAP SuccessFactors (sap_success_factors/client.py,            *)
(* transmitters/content_metadata.py, exporters/content_metadata.py).  SAP     *)
(* limits how often it may be called, so that a job sends one kind of change: *)
(* deletions if there are any, otherwise updates, otherwise creations, and    *)
(* of those only so many.  A change is one POST of the course, whatever its   *)
(* kind, and is tried again a few times when it is throttled.                 *)
(***************************************************************************)
EXTENDS Naturals

CONSTANTS
    SapCourses,
    SapRefusable,      \* courses SAP may begin to refuse, for good
    SapRetries,        \* ENTERPRISE_SAPSF_MAX_RETRIES
    SapLimit,          \* INTEGRATED_CHANNELS_API_CHUNK_TRANSMISSION_LIMIT, in chunks of one
    SapJobsADay,       \* how many jobs are queued in 24 hours
    SapChanges,        \* bound: how often the catalog changes a course
    SapDeaths          \* bound: how many jobs a worker's death cuts short

ASSUME SapContentAssumption ==
    /\ SapCourses # {} /\ SapRefusable \subseteq SapCourses
    /\ SapRetries \in Nat /\ SapLimit \in Nat /\ SapJobsADay \in Nat
    /\ SapChanges \in Nat /\ SapDeaths \in Nat

VARIABLES
    sapCatalog,        \* each course's version in the catalog, or 0, and how often it changed
    sapAudit,          \* the version the audits say was sent, and how many jobs a failure rests
    sapCourse,         \* the version SAP has, or 0 for INACTIVE
    sapRefused,        \* the courses SAP refuses
    sapJob             \* the job under way

sapContentVars == <<sapCatalog, sapAudit, sapCourse, sapRefused, sapJob>>

SapVersion == 0 .. SapChanges

SapContentTypeOK ==
    /\ sapCatalog \in [SapCourses -> [version : SapVersion, changes : SapVersion]]
    /\ sapAudit \in [SapCourses -> [sent : SapVersion, rest : 0 .. SapJobsADay]]
    /\ sapCourse \in [SapCourses -> SapVersion]
    /\ sapRefused \subseteq SapRefusable
    /\ sapJob.pc \in {"idle", "next", "post"}
    /\ sapJob.batch \in SUBSET SapCourses /\ sapJob.course \in SapCourses
    /\ sapJob.deaths \in 0 .. SapDeaths
    /\ sapJob.left \in 0 .. SapLimit /\ sapJob.attempts \in 0 .. SapRetries
    /\ sapJob.payload \in [SapCourses -> SapVersion]

SapContentInit ==
    /\ sapCatalog = [c \in SapCourses |-> [version |-> 0, changes |-> 0]]
    /\ sapAudit = [c \in SapCourses |-> [sent |-> 0, rest |-> 0]]
    /\ sapCourse = [c \in SapCourses |-> 0]
    /\ sapRefused = {}
    /\ sapJob = [pc |-> "idle", batch |-> {}, course |-> CHOOSE c \in SapCourses : TRUE,
                 left |-> 0, attempts |-> 0, deaths |-> 0, payload |-> [c \in SapCourses |-> 0]]

-----------------------------------------------------------------------------
(* A job *)

\* Another job: failures have rested that much longer.
SapRested(audit) == [c \in SapCourses |-> [audit[c] EXCEPT !.rest = IF @ = 0 THEN 0 ELSE @ - 1]]

\* Fault: a failure is due again at the next job.
SapDue_Restless(audit, kind) ==
    {c \in SapCourses :
        /\ audit[c].sent # sapCatalog[c].version
        /\ kind = CASE audit[c].sent = 0 -> "create"
                    [] sapCatalog[c].version = 0 -> "delete"
                    [] OTHER -> "update"}

\* What the exporter hands over: the courses due a kind of change.  One that failed is
\* left alone for a day.
SapDue(audit, kind) ==
    {c \in SapCourses :
        /\ audit[c].rest = 0
        /\ audit[c].sent # sapCatalog[c].version
        /\ kind = CASE audit[c].sent = 0 -> "create"
                    [] sapCatalog[c].version = 0 -> "delete"
                    [] OTHER -> "update"}

\* transmit: "in DELETE, UPDATE, CREATE order", one of them in a job.
SapBatch(audit) ==
    IF SapDue(audit, "delete") # {} THEN SapDue(audit, "delete")
    ELSE IF SapDue(audit, "update") # {} THEN SapDue(audit, "update")
    ELSE SapDue(audit, "create")

SapJobBegins ==
    /\ sapJob.pc = "idle"
    /\ sapAudit' = SapRested(sapAudit)
    /\ sapJob' = [sapJob EXCEPT !.pc = "next", !.batch = SapBatch(sapAudit'), !.left = SapLimit,
                                !.payload = [c \in SapCourses |-> sapCatalog[c].version]]
    /\ UNCHANGED <<sapCatalog, sapCourse, sapRefused>>

SapJobEnded == [sapJob EXCEPT !.pc = "idle", !.batch = {}, !.left = 0, !.attempts = 0,
                              !.payload = [c \in SapCourses |-> 0]]

\* _transmit_action takes the next chunk, up to the limit.
SapNextChunk ==
    /\ sapJob.pc = "next"
    /\ \/ /\ sapJob.batch # {} /\ sapJob.left > 0
          /\ \E c \in sapJob.batch :
                 sapJob' = [sapJob EXCEPT !.pc = "post", !.course = c, !.attempts = 0,
                                          !.batch = @ \ {c}, !.left = @ - 1]
       \/ /\ sapJob.batch = {} \/ sapJob.left = 0
          /\ sapJob' = SapJobEnded
    /\ UNCHANGED <<sapCatalog, sapAudit, sapCourse, sapRefused>>

\* The audit of the chunk is saved, as it was answered.
SapSaved(ok) ==
    /\ sapJob' = [sapJob EXCEPT !.pc = "next"]
    /\ sapAudit' = [sapAudit EXCEPT ![sapJob.course] =
           IF ok THEN [sent |-> sapJob.payload[sapJob.course], rest |-> 0]
           ELSE [@ EXCEPT !.rest = SapJobsADay]]

\* _sync_content_metadata: SAP takes the course, with status ACTIVE or INACTIVE, ...
SapAccepts ==
    /\ sapJob.pc = "post" /\ sapJob.course \notin sapRefused
    /\ sapCourse' = [sapCourse EXCEPT ![sapJob.course] = sapJob.payload[sapJob.course]]
    /\ SapSaved(TRUE)
    /\ UNCHANGED <<sapCatalog, sapRefused>>

\* ... takes it, and the answer is lost, ...
SapAnswerLost ==
    /\ sapJob.pc = "post" /\ sapJob.course \notin sapRefused
    /\ sapCourse' = [sapCourse EXCEPT ![sapJob.course] = sapJob.payload[sapJob.course]]
    /\ SapSaved(FALSE)
    /\ UNCHANGED <<sapCatalog, sapRefused>>

\* ... throttles the client (429), which sleeps and tries again; when it has tried once
\* more than MAX_RETRIES the 429 is the answer, ...
SapThrottles ==
    /\ sapJob.pc = "post"
    /\ IF sapJob.attempts < SapRetries
       THEN sapJob' = [sapJob EXCEPT !.attempts = @ + 1] /\ UNCHANGED sapAudit
       ELSE SapSaved(FALSE)
    /\ UNCHANGED <<sapCatalog, sapCourse, sapRefused>>

\* ... or does not take it; nor is it sent when no token can be had.
SapRejects ==
    /\ sapJob.pc = "post"
    /\ SapSaved(FALSE)
    /\ UNCHANGED <<sapCatalog, sapCourse, sapRefused>>

\* The worker dies.
SapDies ==
    /\ sapJob.pc # "idle" /\ sapJob.deaths < SapDeaths
    /\ sapJob' = [SapJobEnded EXCEPT !.deaths = @ + 1]
    /\ UNCHANGED <<sapCatalog, sapAudit, sapCourse, sapRefused>>

\* The catalog gets a course, changes it or loses it; SAP begins to refuse one.
SapCatalogChanges(c) ==
    /\ sapCatalog[c].changes < SapChanges
    /\ \E v \in {0, sapCatalog[c].changes + 1} :
           /\ v # sapCatalog[c].version
           /\ sapCatalog' = [sapCatalog EXCEPT ![c] = [version |-> v, changes |-> @.changes + 1]]
    /\ UNCHANGED <<sapAudit, sapCourse, sapRefused, sapJob>>

SapRefuses(c) ==
    /\ sapRefused' = sapRefused \cup {c}
    /\ UNCHANGED <<sapCatalog, sapAudit, sapCourse, sapJob>>

SapContentNext ==
    \/ SapJobBegins \/ SapNextChunk \/ SapAccepts \/ SapAnswerLost \/ SapThrottles \/ SapRejects \/ SapDies
    \/ \E c \in SapCourses : SapCatalogChanges(c)
    \/ \E c \in SapRefusable : SapRefuses(c)

SapContentSpec == SapContentInit /\ [][SapContentNext]_sapContentVars

\* Jobs are queued again and again and run; a course that SAP does not refuse is not
\* always rejected, whichever kind of change it is posted for.
SapJobProgress == SapJobBegins \/ SapNextChunk \/ SapThrottles \/ SapAccepts \/ SapRejects
SapTaken(c) == sapJob.course = c /\ SapAccepts

SapContentFairness ==
    /\ WF_sapContentVars(SapJobProgress)
    /\ \A c \in SapCourses : SF_sapContentVars(SapTaken(c))

SapContentFairSpec == SapContentSpec /\ SapContentFairness

-----------------------------------------------------------------------------
(* Properties *)

\* No kind of change is starved by another: although a job sends only one kind, and a
\* course that SAP refuses may stay due for ever, every other course ends up as the
\* catalog has it (transmit), but for one withdrawn while SAP's answer to its creation
\* is lost (ContentSync).  It takes more than one job a day: a refused deletion takes
\* up the first of each.
SapInSync ==
    <>[](\A c \in SapCourses \ SapRefusable :
            \/ sapCourse[c] = sapCatalog[c].version
            \/ sapCatalog[c].version = 0 /\ sapAudit[c].sent = 0)
=============================================================================
