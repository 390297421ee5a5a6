----------------------------- MODULE ContentSync -----------------------------
(***************************************************************************)
(* Content metadata synchronisation of one channel configuration: the job   *)
(* transmit_content_metadata compares what the customer's catalogs offer    *)
(* with its own audit records (exporters/content_metadata.py), sends the    *)
(* difference to the customer's LMS in chunks (transmitters/                *)
(* content_metadata.py) and saves each answer in the records (models.py).   *)
(* Meanwhile catalogs change, are linked and unlinked, and another task     *)
(* records which audits have been orphaned.                                 *)
(*                                                                         *)
(* The export of a catalog is one step: it reads and writes records only    *)
(* this job writes.  The payloads hold copies of the records; each chunk    *)
(* saves its copies whole.                                                  *)
(***************************************************************************)
EXTENDS Integers, FiniteSets

CONSTANTS
    Contents,        \* content keys
    Catalogs,        \* enterprise catalogs
    MaxPayload,      \* max_payload_count of the export
    ChunkSize,       \* transmission_chunk_size of the configuration
    ChunkLimit,      \* INTEGRATED_CHANNELS_API_CHUNK_TRANSMISSION_LIMIT of the channel
    RemoveOrphans,   \* ALLOW_ORPHANED_CONTENT_REMOVAL
    Fallible,        \* actions whose requests may fail
    LateAnswers,     \* may a request that seems to have failed have been carried out?
    LinksMidJob,     \* may catalogs be linked or unlinked while a job runs?
    MaxVersion,      \* bound: changes of a content's metadata
    MaxFailures,     \* bound: failed requests, missing metadata
    MaxCrashes,      \* bound: jobs that die
    MaxOffers,       \* bound: contents added to or removed from a catalog
    MaxLinks         \* bound: catalogs linked to or unlinked from the customer

Actions == {"delete", "create", "update"}

ASSUME SyncAssumption ==
    /\ Contents # {} /\ Catalogs # {} /\ IsFiniteSet(Contents)
    /\ MaxPayload \in Nat \ {0} /\ ChunkSize \in Nat \ {0} /\ ChunkLimit \in Nat \ {0}
    /\ RemoveOrphans \in BOOLEAN /\ LateAnswers \in BOOLEAN
    /\ LinksMidJob \in BOOLEAN /\ Fallible \subseteq Actions
    /\ MaxVersion \in Nat /\ MaxFailures \in Nat /\ MaxCrashes \in Nat
    /\ MaxOffers \in Nat /\ MaxLinks \in Nat

VARIABLES
    offered,   \* the contents of each catalog
    linked,    \* the catalogs of the customer
    version,   \* how often a content's metadata has changed
    remote,    \* what the customer's LMS holds: a version of a content, or Absent
    audit,     \* the ContentMetadataItemTransmission of each content
    orphan,    \* the OrphanedContentTransmissions record of each audit
    job,       \* the running job
    spent      \* how much of each bound is used

vars == <<offered, linked, version, remote, audit, orphan, job, spent>>
-----------------------------------------------------------------------------
Absent == -1
Version == 0..MaxVersion
ACatalog == CHOOSE c \in Catalogs : TRUE

\* created, updated and deleted say that the remote_*_at timestamp is set;
\* errored that remote_errored_at is, a day ago ("old") or less ("recent").
Audit == [stored : BOOLEAN, catalog : Catalogs, created : BOOLEAN, updated : BOOLEAN,
          deleted : BOOLEAN, errored : {"no", "recent", "old"},
          status : {"none", "ok", "failed"}, marked : Actions \cup {"none"},
          version : Version]
OrphanState == {"none", "unresolved", "resolved"}

\* A job goes over its catalogs, then sends its deletes, creates and updates.
\* items[a] maps the contents still to be sent to copies of their audits.
PC == {"idle", "export"} \cup Actions
Payload(p) == DOMAIN p \subseteq Contents /\ \A x \in DOMAIN p : p[x] \in Audit
IdleJob == [pc |-> "idle", todo |-> {}, items |-> [a \in Actions |-> [x \in {} |-> x]],
            sent |-> 0, removed |-> {}]

NewAudit(c, v) ==
    [stored |-> TRUE, catalog |-> c, created |-> FALSE, updated |-> FALSE,
     deleted |-> FALSE, errored |-> "no", status |-> "none", marked |-> "create",
     version |-> v]
NoAudit == [NewAudit(ACatalog, 0) EXCEPT !.stored = FALSE, !.marked = "none"]

Bounds == {"failures", "crashes", "offers", "links"}
Spend(what, bound) ==
    /\ spent[what] < bound
    /\ spent' = [spent EXCEPT ![what] = @ + 1]
-----------------------------------------------------------------------------
(* The queries on an audit record a.                                       *)

\* A failure of the last 24 hours is not tried again, unless the customer has
\* been modified since.
MayRetry(a) == a.errored # "recent"

\* Fault: the query of the failed records is forgotten.
Existing_NoFailed(a) == a.stored /\ a.created /\ ~a.deleted /\ a.status # "failed"

\* _get_catalog_content_keys: created, and neither deleted nor failed; or failed
\* to be updated or deleted.
Existing(a) ==
    /\ a.stored /\ a.created
    /\ \/ ~a.deleted /\ a.status # "failed"
       \/ (a.deleted \/ a.updated) /\ a.status = "failed"

DeletedBefore(a) == a.stored /\ a.deleted /\ MayRetry(a)

IncompleteCreate(a) ==
    /\ a.stored /\ ~a.updated /\ ~a.deleted
    /\ \/ ~a.created /\ a.errored = "no"
       \/ a.created /\ a.status = "failed" /\ MayRetry(a)

IncompleteUpdate(a) ==
    /\ a.stored /\ a.created /\ a.updated /\ ~a.deleted
    /\ a.status = "failed" /\ MayRetry(a)

IncompleteDelete(a) ==
    a.stored /\ a.created /\ a.deleted /\ a.status = "failed" /\ MayRetry(a)

\* There is a record and neither query finds it: saving a second one violates
\* unique_together and the export raises.
CreateRefused(a) == a.stored /\ ~DeletedBefore(a) /\ ~IncompleteCreate(a)

\* prepare_to_recreate leaves remote_errored_at as it is.
Recreated(a, c, v) == [NewAudit(c, v) EXCEPT !.errored = a.errored]

CreateAudit(a, c, v) ==
    IF DeletedBefore(a) THEN Recreated(a, c, v)
    ELSE IF IncompleteCreate(a) THEN [a EXCEPT !.marked = "create"]
    ELSE NewAudit(c, v)

\* Fault: the mark left by a truncated export is not looked at.
NeedsUpdate_Unmarked(a, c, v) ==
    \/ IncompleteUpdate(a)
    \/ a.stored /\ a.catalog = c /\ a.created /\ ~a.deleted /\ MayRetry(a) /\ a.version < v

NeedsUpdate(a, c, v) ==
    \/ IncompleteUpdate(a)
    \/ /\ a.stored /\ a.catalog = c /\ a.created /\ ~a.deleted /\ MayRetry(a)
       /\ (a.marked = "update" \/ a.version < v)

\* Fault: the window is applied to the failed deletes only.
NeedsDelete_AnyTime(a, c) == IncompleteDelete(a) \/ (a.stored /\ a.catalog = c)

NeedsDelete(a, c) ==
    \/ IncompleteDelete(a)
    \/ a.stored /\ a.catalog = c /\ MayRetry(a)
-----------------------------------------------------------------------------
Init ==
    /\ offered \in [Catalogs -> SUBSET Contents]
    /\ linked = Catalogs
    /\ version = [x \in Contents |-> 0]
    /\ remote = [x \in Contents |-> Absent]
    /\ audit = [x \in Contents |-> NoAudit]
    /\ orphan = [x \in Contents |-> "none"]
    /\ job = IdleJob
    /\ spent = [b \in Bounds |-> 0]

\* The job starts; its lock keeps a second one of this configuration away.
StartSync ==
    /\ job.pc = "idle"
    /\ job' = [job EXCEPT !.pc = "export", !.todo = linked]
    /\ UNCHANGED <<offered, linked, version, remote, audit, orphan, spent>>
-----------------------------------------------------------------------------
(* The export.  get_catalog_diff compares the contents of a catalog with the*)
(* keys transmitted for it.                                                 *)

Count(items) == Cardinality(DOMAIN items["delete"]) + Cardinality(DOMAIN items["create"])
                + Cardinality(DOMAIN items["update"])

Keys(c) == {x \in Contents : Existing(audit[x]) /\ audit[x].catalog = c}
Matched(c) == offered[c] \cap Keys(c)
ToDelete(c) == {x \in Keys(c) \ offered[c] : NeedsDelete(audit[x], c)}
ToUpdate(c) == {x \in Matched(c) : NeedsUpdate(audit[x], c, version[x])}

\* New to the catalog but known as an orphan: its audit changes catalog, no more.
Adopted(c) == {x \in offered[c] \ Keys(c) : orphan[x] = "unresolved"}
ToCreate(c) == {x \in (offered[c] \ Keys(c)) \ Adopted(c) : ~Existing(audit[x])}
Refused(c) == {x \in ToCreate(c) : CreateRefused(audit[x])}

Adopt(c) == orphan' = [x \in Contents |-> IF x \in Adopted(c) THEN "resolved" ELSE orphan[x]]

\* Fault: an adopted audit keeps the catalog it is leaving.
Prepared_NotMoved(c, S) ==
    [x \in Contents |->
        IF x \in S THEN CreateAudit(audit[x], c, version[x])
        ELSE IF S # ToCreate(c) THEN audit[x]
        ELSE IF x \in ToUpdate(c) THEN [audit[x] EXCEPT !.marked = "update"]
        ELSE IF x \in ToDelete(c) THEN [audit[x] EXCEPT !.marked = "delete"]
        ELSE audit[x]]

\* The audits once the contents in S have been prepared for their creation.
Prepared(c, S) ==
    [x \in Contents |->
        IF x \in Adopted(c) THEN [audit[x] EXCEPT !.catalog = c]
        ELSE IF x \in S THEN CreateAudit(audit[x], c, version[x])
        ELSE IF S # ToCreate(c) THEN audit[x]
        ELSE IF x \in ToUpdate(c) THEN [audit[x] EXCEPT !.marked = "update"]
        ELSE IF x \in ToDelete(c) THEN [audit[x] EXCEPT !.marked = "delete"]
        ELSE audit[x]]

\* truncate_item_dicts: creates first, then updates, then deletes.
Smaller(m, n) == IF m < n THEN m ELSE n
Truncations(C, U, D, max) ==
    LET nc == Smaller(Cardinality(C), max)
        nu == Smaller(Cardinality(U), max - nc)
        nd == Smaller(Cardinality(D), max - nc - nu)
    IN {t \in (SUBSET C) \X (SUBSET U) \X (SUBSET D) :
           Cardinality(t[1]) = nc /\ Cardinality(t[2]) = nu /\ Cardinality(t[3]) = nd}

\* dict.update: the payload gains, or gets anew, the audits of the contents in S.
Extend(payload, S, audits) ==
    [x \in DOMAIN payload \cup S |-> IF x \in S THEN audits[x] ELSE payload[x]]

\* One catalog.  What is truncated stays marked; what is sent is stored with the
\* catalog and the version it is sent for, unless the catalog service returns no
\* metadata for it.
ExportCatalog(c) ==
    /\ job.pc = "export" /\ c \in job.todo /\ Count(job.items) < MaxPayload
    /\ Refused(c) = {}
    /\ \E t \in Truncations(ToCreate(c), ToUpdate(c), ToDelete(c), MaxPayload) :
       \E missing \in SUBSET (t[1] \cup t[2]) :
         LET sent == (t[1] \cup t[2]) \ missing
             marked == Prepared(c, ToCreate(c))
             stored == [x \in Contents |-> IF x \notin sent THEN marked[x] ELSE
                          [marked[x] EXCEPT !.catalog = c, !.version = version[x]]]
             part(a) == CASE a = "create" -> t[1] \ missing
                          [] a = "update" -> t[2] \ missing
                          [] a = "delete" -> t[3]
         IN /\ audit' = stored
            /\ job' = [job EXCEPT
                 !.todo = @ \ {c},
                 !.items = [a \in Actions |-> Extend(@[a], part(a), stored)]]
            /\ IF missing = {} THEN UNCHANGED spent ELSE Spend("failures", MaxFailures)
    /\ Adopt(c)
    /\ UNCHANGED <<offered, linked, version, remote>>

\* The save of a second record raises and ends the job, after some of the other
\* contents have been prepared.
ExportAborts(c) ==
    /\ job.pc = "export" /\ c \in job.todo /\ Count(job.items) < MaxPayload
    /\ Refused(c) # {}
    /\ \E S \in SUBSET (ToCreate(c) \ Refused(c)) : audit' = Prepared(c, S)
    /\ Adopt(c)
    /\ job' = IdleJob
    /\ UNCHANGED <<offered, linked, version, remote, spent>>

\* If there is room, the orphans join the deletes.
ExportOrphans ==
    /\ job.pc = "export"
    /\ job.todo = {} \/ Count(job.items) >= MaxPayload
    /\ LET unresolved == {x \in Contents : RemoveOrphans /\ orphan[x] = "unresolved"}
           room == MaxPayload - Count(job.items)
           n == IF room > 0 THEN Smaller(Cardinality(unresolved), room) ELSE 0
       IN \E S \in SUBSET unresolved :
            /\ Cardinality(S) = n
            /\ job' = [job EXCEPT !.pc = "delete", !.todo = {},
                                  !.items["delete"] = Extend(@, S, audit)]
    /\ UNCHANGED <<offered, linked, version, remote, audit, orphan, spent>>
-----------------------------------------------------------------------------
(* The transmission: deletes, then creates, then updates.                   *)

Chunks(a) ==
    {S \in SUBSET DOMAIN job.items[a] :
        Cardinality(S) = Smaller(ChunkSize, Cardinality(DOMAIN job.items[a]))}

\* What the LMS holds after it has carried out action a for the contents in S.
Carried(a, S) ==
    [x \in Contents |-> IF x \notin S THEN remote[x]
                        ELSE IF a = "delete" THEN Absent ELSE job.items[a][x].version]

\* The copy of an audit as saved after its request.
Saved(i, a, ok) ==
    [i EXCEPT !.status = IF ok THEN "ok" ELSE "failed",
              !.created = @ \/ a = "create",
              !.updated = @ \/ a = "update",
              !.deleted = @ \/ a = "delete",
              !.errored = IF ok THEN "no" ELSE "recent",
              !.marked = IF ok THEN "none" ELSE @]

Answered(a, S, ok) ==
    /\ audit' = [x \in Contents |-> IF x \in S THEN Saved(job.items[a][x], a, ok)
                                    ELSE audit[x]]
    /\ job' = [job EXCEPT
         !.items[a] = [x \in DOMAIN @ \ S |-> @[x]],
         !.sent = @ + 1,
         !.removed = IF ok /\ a = "delete" THEN @ \cup S ELSE @]
    /\ UNCHANGED <<offered, linked, version, orphan>>

\* Fault: the limit on the number of chunks is forgotten.
ChunkSucceeds_Unlimited(a, S) ==
    /\ job.pc = a /\ S \in Chunks(a) /\ S # {}
    /\ a = "update" => \A x \in S : remote[x] # Absent
    /\ remote' = Carried(a, S)
    /\ Answered(a, S, TRUE)
    /\ UNCHANGED spent

\* The LMS answers below 300.  It does not update what it does not hold.
ChunkSucceeds(a, S) ==
    /\ job.pc = a /\ job.sent < ChunkLimit /\ S \in Chunks(a) /\ S # {}
    /\ a = "update" => \A x \in S : remote[x] # Absent
    /\ remote' = Carried(a, S)
    /\ Answered(a, S, TRUE)
    /\ UNCHANGED spent

\* It answers an error, or not at all: because it does not hold the content, or
\* for any other reason.
ChunkFails(a, S) ==
    /\ job.pc = a /\ job.sent < ChunkLimit /\ S \in Chunks(a) /\ S # {}
    /\ \/ /\ a # "create" /\ \E x \in S : remote[x] = Absent
          /\ UNCHANGED <<remote, spent>>
       \/ /\ a \in Fallible /\ Spend("failures", MaxFailures)
          /\ remote' = remote \/ (LateAnswers /\ remote' = Carried(a, S))
    /\ Answered(a, S, FALSE)

\* No chunk is left, or no more may be sent.  The orphans deleted are resolved.
EndAction(a) ==
    /\ job.pc = a
    /\ DOMAIN job.items[a] = {} \/ job.sent = ChunkLimit
    /\ orphan' = IF a # "delete" THEN orphan
                 ELSE [x \in Contents |-> IF x \in job.removed /\ orphan[x] = "unresolved"
                                          THEN "resolved" ELSE orphan[x]]
    /\ job' = IF a = "update" THEN IdleJob
              ELSE [job EXCEPT !.pc = IF a = "delete" THEN "create" ELSE "update",
                               !.sent = 0, !.removed = {}, !.items[a] = [x \in {} |-> x]]
    /\ UNCHANGED <<offered, linked, version, remote, audit, spent>>

\* The worker dies, in the midst of a request if LateAnswers.
JobDies ==
    /\ job.pc # "idle"
    /\ Spend("crashes", MaxCrashes)
    /\ \/ remote' = remote
       \/ /\ LateAnswers /\ job.pc \in Actions /\ job.sent < ChunkLimit
          /\ \E S \in Chunks(job.pc) : remote' = Carried(job.pc, S)
    /\ job' = IdleJob
    /\ UNCHANGED <<offered, linked, version, audit, orphan>>
-----------------------------------------------------------------------------
(* Around the job.                                                         *)

\* A day later, in a new process (LAST_24_HRS is computed when the module is
\* imported), or after the customer has been modified.
DayPasses(x) ==
    /\ job.pc = "idle" /\ audit[x].errored = "recent"
    /\ audit' = [audit EXCEPT ![x].errored = "old"]
    /\ UNCHANGED <<offered, linked, version, remote, orphan, job, spent>>

Orphaned(x) ==
    audit[x].stored /\ audit[x].created /\ ~audit[x].deleted /\ audit[x].catalog \notin linked

\* mark_orphaned_content_metadata_audit: get_or_create looks for a record of the
\* audit, resolved or not.
MarkOrphans ==
    /\ \E x \in Contents : Orphaned(x) /\ orphan[x] = "none"
    /\ orphan' = [x \in Contents |-> IF Orphaned(x) /\ orphan[x] = "none"
                                     THEN "unresolved" ELSE orphan[x]]
    /\ UNCHANGED <<offered, linked, version, remote, audit, job, spent>>

\* A content is added to a catalog or removed from it.
ChangeOffer(c, x) ==
    /\ Spend("offers", MaxOffers)
    /\ offered' = [offered EXCEPT ![c] = IF x \in @ THEN @ \ {x} ELSE @ \cup {x}]
    /\ UNCHANGED <<linked, version, remote, audit, orphan, job>>

\* A catalog is taken from the customer, or given back.
ChangeLink(c) ==
    /\ LinksMidJob \/ job.pc = "idle"
    /\ Spend("links", MaxLinks)
    /\ linked' = IF c \in linked THEN linked \ {c} ELSE linked \cup {c}
    /\ UNCHANGED <<offered, version, remote, audit, orphan, job>>

ChangeContent(x) ==
    /\ version[x] < MaxVersion
    /\ version' = [version EXCEPT ![x] = @ + 1]
    /\ UNCHANGED <<offered, linked, remote, audit, orphan, job, spent>>
-----------------------------------------------------------------------------
Send(a, S) == ChunkSucceeds(a, S) \/ ChunkFails(a, S)

SyncStep ==
    \/ \E c \in Catalogs : ExportCatalog(c) \/ ExportAborts(c)
    \/ ExportOrphans
    \/ \E a \in Actions, S \in SUBSET Contents : Send(a, S)
    \/ \E a \in Actions : EndAction(a)

Environment ==
    \/ \E c \in Catalogs, x \in Contents : ChangeOffer(c, x)
    \/ \E c \in Catalogs : ChangeLink(c)
    \/ \E x \in Contents : ChangeContent(x)

Next ==
    \/ StartSync \/ SyncStep \/ JobDies
    \/ MarkOrphans
    \/ \E x \in Contents : DayPasses(x)
    \/ Environment

Spec == Init /\ [][Next]_vars

\* The job and the orphan task are scheduled again and again and a started job goes
\* on; days pass, though never in the midst of a job.  Nothing says that a request
\* succeeds: failures are bounded instead.
Fairness ==
    /\ WF_vars(StartSync) /\ WF_vars(SyncStep) /\ WF_vars(MarkOrphans)
    /\ \A x \in Contents : SF_vars(DayPasses(x))

FairSpec == Spec /\ Fairness
-----------------------------------------------------------------------------
TypeOK ==
    /\ offered \in [Catalogs -> SUBSET Contents]
    /\ linked \subseteq Catalogs
    /\ version \in [Contents -> Version]
    /\ remote \in [Contents -> Version \cup {Absent}]
    /\ audit \in [Contents -> Audit]
    /\ orphan \in [Contents -> OrphanState]
    /\ job.pc \in PC /\ job.todo \subseteq Catalogs
    /\ \A a \in Actions : Payload(job.items[a])
    /\ job.sent \in 0..ChunkLimit /\ job.removed \subseteq Contents
    /\ spent \in [Bounds -> Nat]

Wanted(x) == \E c \in linked : x \in offered[c]

\* What the LMS holds is what the catalogs of the customer offer, up to date.
InSync == \A x \in Contents : remote[x] = IF Wanted(x) THEN version[x] ELSE Absent

\* Once catalogs stop changing and requests stop failing, the job brings the LMS
\* in line with the catalogs and keeps it so: whatever failed, was truncated, cut
\* off by the chunk limit or lost with a job is found again from the records.
EventuallyInSync == <>[]InSync

\* Nothing the LMS holds is forgotten: its audit is one the export counts as
\* existing, so that it can still be updated and deleted.
NothingForgotten == \A x \in Contents : remote[x] # Absent => Existing(audit[x])

\* No request is made that is not due: a content is not created at the LMS while it is
\* there, not for another catalog and not after a failure, and a request that failed is
\* not sent again within a day.
RequestsAreDue ==
    [][\A a \in Actions, S \in SUBSET Contents :
          Send(a, S) => \A x \in S : /\ a = "create" => remote[x] = Absent
                                    /\ audit[x].errored # "recent"]_vars
=============================================================================
