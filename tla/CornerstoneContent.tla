-------------------------- MODULE CornerstoneContent --------------------------
(***************************************************************************)
(* Content for Cornerstone, which pulls it (cornerstone/views.py,            *)
(* exporters/content_metadata.py, transmitters/content_metadata.py).  The     *)
(* scheduled job compares the catalog with the audits, marks the audits that  *)
(* need a change and stores their payloads; it sends nothing.  A pull is a    *)
(* request of Cornerstone's: in one transaction it reads the marked audits,   *)
(* saves them as sent, and answers with their payloads.  Both save whole      *)
(* records.  Every change is answered 200 by the client, which does nothing.  *)
(* The transaction is the host's ATOMIC_REQUESTS, which the LMS sets; the view *)
(* opens none of its own.                                                     *)
(***************************************************************************)
EXTENDS Naturals

CONSTANTS
    CsodContents,
    CsodWithout,       \* contents the catalog service returns no metadata for
    CsodPullers,       \* requests of Cornerstone's that may be open at a time
    CsodHeaders,       \* whether requests have If-Modified-Since: {TRUE}, or BOOLEAN
    CsodLosesAnswers,  \* whether the answer to a request may get lost
    CsodChanges,       \* bound: how often the catalog changes a content
    CsodOverlaps,      \* bound: payloads stored while a request is open
    CsodDeaths         \* bound: jobs that are cut short

ASSUME CsodContentAssumption ==
    /\ CsodHeaders \subseteq BOOLEAN
    /\ CsodChanges \in Nat /\ CsodOverlaps \in Nat /\ CsodDeaths \in Nat

VARIABLES
    csodCatalog,       \* each content's version in the catalog, or 0, and how often it changed
    csodAudit,         \* the audits
    csodJob,           \* the scheduled job: its copies of the audits it has yet to save
    csodPull,          \* the requests: their copies of the marked audits
    csodCourse         \* what Cornerstone lists: the version of each content, or 0

csodContentVars == <<csodCatalog, csodAudit, csodJob, csodPull, csodCourse>>

CsodVersion == 0 .. CsodChanges
CsodMarks == {"create", "update", "delete"}

\* payload is the version channel_metadata was made of, or 0 for null; version is
\* content_last_changed.
CsodAudit == [stored : BOOLEAN, created : BOOLEAN, deleted : BOOLEAN, marked : CsodMarks \cup {"none"},
              version : CsodVersion, payload : CsodVersion, active : BOOLEAN]

CsodNoAudit == [stored |-> FALSE, created |-> FALSE, deleted |-> FALSE, marked |-> "none",
                version |-> 0, payload |-> 0, active |-> TRUE]

CsodNewAudit(v) == [CsodNoAudit EXCEPT !.stored = TRUE, !.marked = "create", !.version = v]

CsodNoItems == [c \in {} |-> CsodNoAudit]

CsodItemsOK(items) == DOMAIN items \subseteq CsodContents /\ \A c \in DOMAIN items : items[c] \in CsodAudit

CsodContentTypeOK ==
    /\ csodCatalog \in [CsodContents -> [version : CsodVersion, changes : CsodVersion]]
    /\ csodAudit \in [CsodContents -> CsodAudit]
    /\ csodJob.pc \in {"idle", "build"} /\ csodJob.overlaps \in 0 .. CsodOverlaps /\ csodJob.deaths \in 0 .. CsodDeaths
    /\ CsodItemsOK(csodJob.items)
    /\ \A p \in CsodPullers : csodPull[p].pc \in {"idle", "open"} /\ CsodItemsOK(csodPull[p].items)
    /\ csodCourse \in [CsodContents -> CsodVersion]

CsodContentInit ==
    /\ csodCatalog = [c \in CsodContents |-> [version |-> 0, changes |-> 0]]
    /\ csodAudit = [c \in CsodContents |-> CsodNoAudit]
    /\ csodJob = [pc |-> "idle", items |-> CsodNoItems, overlaps |-> 0, deaths |-> 0]
    /\ csodPull = [p \in CsodPullers |-> [pc |-> "idle", since |-> FALSE, items |-> CsodNoItems]]
    /\ csodCourse = [c \in CsodContents |-> 0]

-----------------------------------------------------------------------------
(* The job: ContentMetadataExporter.export *)

\* _get_catalog_content_keys: with nothing but status 200.
CsodKnown(c) == csodAudit[c].stored /\ csodAudit[c].created /\ ~csodAudit[c].deleted

CsodOffered(c) == csodCatalog[c].version # 0

\* The audit as _check_matched_content_to_create saves it: a new one, one that was
\* deleted and is as good as new, or the one of a creation that was not pulled yet.
CsodMarkCreate(c) ==
    IF ~csodAudit[c].stored \/ csodAudit[c].deleted
    THEN CsodNewAudit(csodCatalog[c].version)
    ELSE [csodAudit[c] EXCEPT !.marked = "create"]

CsodToUpdate ==
    {c \in CsodContents : CsodKnown(c) /\ CsodOffered(c)
        /\ (csodAudit[c].marked = "update" \/ csodAudit[c].version < csodCatalog[c].version)}

CsodToCreate == {c \in CsodContents : ~CsodKnown(c) /\ CsodOffered(c)}
CsodToDelete == {c \in CsodContents : CsodKnown(c) /\ ~CsodOffered(c)}

\* _get_catalog_diff: the audits are marked and saved.
CsodJobMarks ==
    /\ csodJob.pc = "idle"
    /\ LET marked == [c \in CsodContents |->
               CASE c \in CsodToCreate -> CsodMarkCreate(c)
                 [] c \in CsodToUpdate -> [csodAudit[c] EXCEPT !.marked = "update"]
                 [] c \in CsodToDelete -> [csodAudit[c] EXCEPT !.marked = "delete"]
                 [] OTHER -> csodAudit[c]]
       IN  /\ csodAudit' = marked
           /\ csodJob' = [csodJob EXCEPT !.pc = "build",
                          !.items = [c \in CsodToCreate \cup CsodToUpdate \cup CsodToDelete |-> marked[c]]]
    /\ UNCHANGED <<csodCatalog, csodPull, csodCourse>>

CsodWithoutItem(items, c) == [d \in DOMAIN items \ {c} |-> items[d]]

\* The record that is saved with its payload: what is deleted keeps the one it has.
CsodBuilt(c) ==
    IF csodJob.items[c].marked = "delete" THEN csodJob.items[c]
    ELSE [csodJob.items[c] EXCEPT !.payload = csodCatalog[c].version, !.active = TRUE,
                                  !.version = csodCatalog[c].version]

CsodRequestOpen == \E p \in CsodPullers : csodPull[p].pc = "open"

\* _build_action_payload: the metadata has been asked for; without it nothing is saved.
CsodJobBuilds(c) ==
    /\ csodJob.pc = "build" /\ c \in DOMAIN csodJob.items
    /\ CsodRequestOpen => csodJob.overlaps < CsodOverlaps
    /\ csodJob' = [csodJob EXCEPT !.items = CsodWithoutItem(@, c),
                                  !.overlaps = IF CsodRequestOpen THEN @ + 1 ELSE @]
    /\ csodAudit' = IF csodJob.items[c].marked # "delete" /\ (c \in CsodWithout \/ ~CsodOffered(c))
                    THEN csodAudit ELSE [csodAudit EXCEPT ![c] = CsodBuilt(c)]
    /\ UNCHANGED <<csodCatalog, csodPull, csodCourse>>

\* transmit does nothing.
CsodJobEnds ==
    /\ csodJob.pc = "build" /\ csodJob.items = CsodNoItems
    /\ csodJob' = [csodJob EXCEPT !.pc = "idle"]
    /\ UNCHANGED <<csodCatalog, csodAudit, csodPull, csodCourse>>

\* The worker dies, or the catalog service does not answer.
CsodJobDies ==
    /\ csodJob.pc = "build" /\ csodJob.deaths < CsodDeaths
    /\ csodJob' = [csodJob EXCEPT !.pc = "idle", !.items = CsodNoItems, !.deaths = @ + 1]
    /\ UNCHANGED <<csodCatalog, csodAudit, csodPull, csodCourse>>

-----------------------------------------------------------------------------
(* A pull: CornerstoneCoursesListView.get *)

CsodMarkedContents == {c \in CsodContents : csodAudit[c].marked # "none"}

\* export_for_web_polling.  since: Cornerstone sends If-Modified-Since.
CsodPullReads(p, since) ==
    /\ csodPull[p].pc = "idle"
    /\ csodPull' = [csodPull EXCEPT ![p] =
           [pc |-> "open", since |-> since, items |-> [c \in CsodMarkedContents |-> csodAudit[c]]]]
    /\ UNCHANGED <<csodCatalog, csodAudit, csodJob, csodCourse>>

CsodClosed == [pc |-> "idle", since |-> FALSE, items |-> CsodNoItems]

\* Fault: what is deleted is handed over as it was.
CsodSent_Active(a) ==
    CASE a.marked = "create" -> [a EXCEPT !.created = TRUE, !.marked = "none"]
      [] a.marked = "update" -> [a EXCEPT !.marked = "none"]
      [] a.marked = "delete" -> [a EXCEPT !.deleted = TRUE, !.marked = "none"]

\* _transmit_action: what is deleted gets IsActive = False before.
CsodSent(a) ==
    CASE a.marked = "create" -> [a EXCEPT !.created = TRUE, !.marked = "none"]
      [] a.marked = "update" -> [a EXCEPT !.marked = "none"]
      [] a.marked = "delete" -> [a EXCEPT !.deleted = TRUE, !.active = FALSE, !.marked = "none"]

\* A payload that is null has no LastModifiedUTC to compare and no IsActive to clear: the
\* request ends with an error, and with it its transaction.
CsodBreaks(p) ==
    \E c \in DOMAIN csodPull[p].items :
        csodPull[p].items[c].payload = 0 /\ (csodPull[p].since \/ csodPull[p].items[c].marked = "delete")

\* Cornerstone lists what it is sent, unless it is inactive; a null it cannot list.
CsodLists(p, c) ==
    LET sent == CsodSent(csodPull[p].items[c])
    IN  IF sent.payload = 0 THEN csodCourse[c] ELSE IF sent.active THEN sent.payload ELSE 0

CsodPullAnswered(p) ==
    /\ csodPull[p].pc = "open" /\ ~CsodBreaks(p)
    /\ csodPull' = [csodPull EXCEPT ![p] = CsodClosed]
    /\ csodAudit' = [c \in CsodContents |->
           IF c \in DOMAIN csodPull[p].items THEN CsodSent(csodPull[p].items[c]) ELSE csodAudit[c]]
    /\ \/ csodCourse' = [c \in CsodContents |->
              IF c \in DOMAIN csodPull[p].items THEN CsodLists(p, c) ELSE csodCourse[c]]
       \/ CsodLosesAnswers /\ UNCHANGED csodCourse
    /\ UNCHANGED <<csodCatalog, csodJob>>

CsodPullFails(p) ==
    /\ csodPull[p].pc = "open"
    /\ csodPull' = [csodPull EXCEPT ![p] = CsodClosed]
    /\ UNCHANGED <<csodCatalog, csodAudit, csodJob, csodCourse>>

\* The catalog gets a content, changes it or loses it.
CsodCatalogChanges(c) ==
    /\ csodCatalog[c].changes < CsodChanges
    /\ \E v \in {0, csodCatalog[c].changes + 1} :
           /\ v # csodCatalog[c].version
           /\ csodCatalog' = [csodCatalog EXCEPT ![c] = [version |-> v, changes |-> @.changes + 1]]
    /\ UNCHANGED <<csodAudit, csodJob, csodPull, csodCourse>>

CsodContentNext ==
    \/ CsodJobMarks \/ CsodJobEnds \/ CsodJobDies
    \/ \E c \in CsodContents : CsodJobBuilds(c) \/ CsodCatalogChanges(c)
    \/ \E p \in CsodPullers :
           \/ \E since \in CsodHeaders : CsodPullReads(p, since)
           \/ CsodPullAnswered(p) \/ CsodPullFails(p)

CsodContentSpec == CsodContentInit /\ [][CsodContentNext]_csodContentVars

\* The job runs every day; Cornerstone pulls every day and
\* not all of its requests fail.
CsodContentFairness ==
    /\ WF_csodContentVars(CsodJobMarks) /\ WF_csodContentVars(CsodJobEnds)
    /\ \A c \in CsodContents : SF_csodContentVars(CsodJobBuilds(c))
    /\ \A p \in CsodPullers : WF_csodContentVars(\E since \in CsodHeaders : CsodPullReads(p, since))
    /\ \A p \in CsodPullers : SF_csodContentVars(CsodPullAnswered(p))
    /\ \A p \in CsodPullers : WF_csodContentVars(CsodPullFails(p))

CsodContentFairSpec == CsodContentSpec /\ CsodContentFairness

-----------------------------------------------------------------------------
(* Properties *)

CsodUpToDate(c) == csodCourse[c] = csodCatalog[c].version

\* Marked for creation, without a payload, and no longer in the catalog: no job looks
\* at the audit again, and every request with the header breaks on it.
CsodStuck(c) == csodAudit[c].marked = "create" /\ csodAudit[c].payload = 0 /\ ~CsodOffered(c)

\* Cornerstone lists every content as the catalog has it in the end, although jobs end
\* early, requests fail, and each saves what the other has saved meanwhile; unless
\* there is a content it is stuck on.  It takes the header: a request without it that
\* reads an audit the job has marked but not yet given its payload hands over a null,
\* and saves the audit as sent.
CsodInSync ==
    \/ <>[](\A c \in CsodContents : CsodUpToDate(c))
    \/ <>[](\E c \in CsodContents : CsodStuck(c))

\* "Get a list of all catalog courses to share on cornerstone" (course-list): the list
\* can be had.  Fails: a job that ends between marking a content and storing its
\* payload, and a catalog that loses the content before the next one, leave an audit
\* that breaks every request from then on.
CsodListCanBeHad == <>[](\A c \in CsodContents : ~CsodStuck(c))
=============================================================================
