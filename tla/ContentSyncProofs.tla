-------------------------- MODULE ContentSyncProofs --------------------------
(***************************************************************************)
(* What holds of ContentSync for every set of contents and catalogs, every   *)
(* limit and every number of changes, failures and deaths.                   *)
(***************************************************************************)
EXTENDS ContentSync, TLAPS

\* The job as a record: TypeOK says the same of its fields.
Payloads == UNION {[S -> Audit] : S \in SUBSET Contents}
Jobs == [pc : PC, todo : SUBSET Catalogs, items : [Actions -> Payloads],
         sent : 0..ChunkLimit, removed : SUBSET Contents]

Typed == TypeOK /\ job \in Jobs

-----------------------------------------------------------------------------
(* The operators the steps are built from *)

LEMMA Constants ==
    /\ MaxVersion \in Nat /\ ChunkLimit \in Nat \ {0} /\ ACatalog \in Catalogs
    /\ Absent \notin Version /\ 0 \in Version
BY SyncAssumption DEF ACatalog, Absent, Version

LEMMA NewAuditType ==
    ASSUME NEW c \in Catalogs, NEW v \in Version
    PROVE  NewAudit(c, v) \in Audit
BY DEF NewAudit, Audit, Actions

LEMMA NoAuditType == NoAudit \in Audit
<1>1. NewAudit(ACatalog, 0) \in Audit
    BY Constants, NewAuditType
<1> QED
    BY <1>1 DEF NoAudit, Audit

LEMMA EmptyPayload == [x \in {} |-> x] \in Payloads
<1>1. [x \in {} |-> x] \in [{} -> Audit]
    OBVIOUS
<1> QED
    BY <1>1 DEF Payloads

LEMMA IdleJobType == IdleJob \in Jobs
BY EmptyPayload, Constants DEF IdleJob, Jobs, PC

LEMMA PayloadParts ==
    ASSUME NEW p \in Payloads
    PROVE  /\ DOMAIN p \subseteq Contents
           /\ p \in [DOMAIN p -> Audit]
           /\ \A x \in DOMAIN p : p[x] \in Audit
BY DEF Payloads

LEMMA APayload ==
    ASSUME NEW S \in SUBSET Contents, NEW p \in [S -> Audit]
    PROVE  p \in Payloads
BY DEF Payloads

LEMMA ExtendType ==
    ASSUME NEW p \in Payloads, NEW S \in SUBSET Contents, NEW audits \in [Contents -> Audit]
    PROVE  /\ Extend(p, S, audits) \in Payloads
           /\ DOMAIN Extend(p, S, audits) = DOMAIN p \cup S
           /\ \A x \in S : Extend(p, S, audits)[x] = audits[x]
           /\ \A x \in DOMAIN p \ S : Extend(p, S, audits)[x] = p[x]
<1> DEFINE e == Extend(p, S, audits)
           T == DOMAIN p \cup S
<1>1. T \in SUBSET Contents /\ e = [x \in T |-> IF x \in S THEN audits[x] ELSE p[x]]
    BY PayloadParts DEF Extend
<1>2. e \in [T -> Audit]
    BY <1>1, PayloadParts
<1> HIDE DEF e, T
<1>3. e \in Payloads
    BY <1>1, <1>2, APayload
<1> QED
    BY <1>1, <1>3 DEF e, T

LEMMA CreateAuditType ==
    ASSUME NEW a \in Audit, NEW c \in Catalogs, NEW v \in Version
    PROVE  CreateAudit(a, c, v) \in Audit
<1>1. Recreated(a, c, v) \in Audit
    BY DEF Recreated, NewAudit, Audit, Actions
<1>2. [a EXCEPT !.marked = "create"] \in Audit
    BY DEF Audit, Actions
<1> QED
    BY <1>1, <1>2, NewAuditType DEF CreateAudit

LEMMA PreparedType ==
    ASSUME TypeOK, NEW c \in Catalogs, NEW S \in SUBSET Contents
    PROVE  Prepared(c, S) \in [Contents -> Audit]
<1> SUFFICES ASSUME NEW x \in Contents PROVE Prepared(c, S)[x] \in Audit
    BY DEF Prepared
<1>1. audit[x] \in Audit /\ version[x] \in Version
    BY DEF TypeOK
<1>2. /\ CreateAudit(audit[x], c, version[x]) \in Audit
      /\ [audit[x] EXCEPT !.catalog = c] \in Audit
      /\ [audit[x] EXCEPT !.marked = "update"] \in Audit
      /\ [audit[x] EXCEPT !.marked = "delete"] \in Audit
    BY <1>1, CreateAuditType DEF Audit, Actions
<1> QED
    BY <1>1, <1>2 DEF Prepared

LEMMA SavedType ==
    ASSUME NEW i \in Audit, NEW a \in Actions, NEW ok \in BOOLEAN
    PROVE  Saved(i, a, ok) \in Audit
<1> DEFINE status == IF ok THEN "ok" ELSE "failed"
           created == i.created \/ a = "create"
           updated == i.updated \/ a = "update"
           deleted == i.deleted \/ a = "delete"
           errored == IF ok THEN "no" ELSE "recent"
           marked == IF ok THEN "none" ELSE i.marked
<1>1. created \in BOOLEAN /\ updated \in BOOLEAN /\ deleted \in BOOLEAN
    OBVIOUS
<1>2. status \in {"none", "ok", "failed"} /\ errored \in {"no", "recent", "old"}
    OBVIOUS
<1>3. marked \in Actions \cup {"none"}
    BY DEF Audit
<1>4. Saved(i, a, ok) = [i EXCEPT !.status = status, !.created = created, !.updated = updated,
                                  !.deleted = deleted, !.errored = errored, !.marked = marked]
    BY DEF Saved
<1> HIDE DEF status, created, updated, deleted, errored, marked
<1> QED
    BY <1>1, <1>2, <1>3, <1>4 DEF Audit

LEMMA SpendType ==
    ASSUME TypeOK, NEW b \in Bounds, NEW n, Spend(b, n)
    PROVE  spent' \in [Bounds -> Nat]
BY DEF TypeOK, Spend

LEMMA CarriedType ==
    ASSUME Typed, NEW a \in Actions, NEW S, S \subseteq DOMAIN job.items[a]
    PROVE  Carried(a, S) \in [Contents -> Version \cup {Absent}]
<1> SUFFICES ASSUME NEW x \in Contents PROVE Carried(a, S)[x] \in Version \cup {Absent}
    BY DEF Carried
<1>1. job.items[a] \in Payloads
    BY DEF Typed, Jobs
<1>2. x \in S => job.items[a][x].version \in Version
    BY <1>1, PayloadParts DEF Audit
<1>3. remote[x] \in Version \cup {Absent}
    BY DEF Typed, TypeOK
<1> QED
    BY <1>2, <1>3 DEF Carried

\* The audits as an export that sends the contents in S stores them, and the payloads.
Exported(c, S) ==
    [x \in Contents |-> IF x \notin S THEN Prepared(c, ToCreate(c))[x] ELSE
        [Prepared(c, ToCreate(c))[x] EXCEPT !.catalog = c, !.version = version[x]]]

Part(a, C, U, D) == IF a = "create" THEN C ELSE IF a = "update" THEN U ELSE D

\* An export sends a part of what is to be created, updated and deleted.
LEMMA ExportParts ==
    ASSUME NEW c \in Catalogs, ExportCatalog(c)
    PROVE  \E C \in SUBSET ToCreate(c), U \in SUBSET ToUpdate(c), D \in SUBSET ToDelete(c) :
              /\ audit' = Exported(c, C \cup U)
              /\ job' = [job EXCEPT !.todo = @ \ {c},
                            !.items = [a \in Actions |-> Extend(@[a], Part(a, C, U, D), audit')]]
              /\ UNCHANGED spent \/ Spend("failures", MaxFailures)
<1> PICK t \in Truncations(ToCreate(c), ToUpdate(c), ToDelete(c), MaxPayload) :
       \E missing \in SUBSET (t[1] \cup t[2]) :
         LET sent == (t[1] \cup t[2]) \ missing
             marked == Prepared(c, ToCreate(c))
             stored == [x \in Contents |-> IF x \notin sent THEN marked[x] ELSE
                          [marked[x] EXCEPT !.catalog = c, !.version = version[x]]]
             part(a) == CASE a = "create" -> t[1] \ missing
                          [] a = "update" -> t[2] \ missing
                          [] a = "delete" -> t[3]
         IN /\ audit' = stored
            /\ job' = [job EXCEPT
                 !.todo = @ \ {c},
                 !.items = [a \in Actions |-> Extend(@[a], part(a), stored)]]
            /\ IF missing = {} THEN UNCHANGED spent ELSE Spend("failures", MaxFailures)
    BY DEF ExportCatalog
<1> PICK missing \in SUBSET (t[1] \cup t[2]) :
         LET sent == (t[1] \cup t[2]) \ missing
             marked == Prepared(c, ToCreate(c))
             stored == [x \in Contents |-> IF x \notin sent THEN marked[x] ELSE
                          [marked[x] EXCEPT !.catalog = c, !.version = version[x]]]
             part(a) == CASE a = "create" -> t[1] \ missing
                          [] a = "update" -> t[2] \ missing
                          [] a = "delete" -> t[3]
         IN /\ audit' = stored
            /\ job' = [job EXCEPT
                 !.todo = @ \ {c},
                 !.items = [a \in Actions |-> Extend(@[a], part(a), stored)]]
            /\ IF missing = {} THEN UNCHANGED spent ELSE Spend("failures", MaxFailures)
    OBVIOUS
<1> DEFINE C == t[1] \ missing
           U == t[2] \ missing
           D == t[3]
           stored == [x \in Contents |-> IF x \notin (t[1] \cup t[2]) \ missing
                          THEN Prepared(c, ToCreate(c))[x]
                          ELSE [Prepared(c, ToCreate(c))[x] EXCEPT !.catalog = c, !.version = version[x]]]
           part(a) == CASE a = "create" -> t[1] \ missing
                        [] a = "update" -> t[2] \ missing
                        [] a = "delete" -> t[3]
<1>1. C \in SUBSET ToCreate(c) /\ U \in SUBSET ToUpdate(c) /\ D \in SUBSET ToDelete(c)
    BY DEF Truncations
<1>2. (t[1] \cup t[2]) \ missing = C \cup U
    OBVIOUS
<1>3. /\ audit' = stored
      /\ job' = [job EXCEPT !.todo = @ \ {c},
                            !.items = [a \in Actions |-> Extend(@[a], part(a), stored)]]
      /\ IF missing = {} THEN UNCHANGED spent ELSE Spend("failures", MaxFailures)
    BY Zenon
<1>4. stored = Exported(c, C \cup U)
    BY <1>2 DEF Exported
<1>5. \A a \in Actions : part(a) = Part(a, C, U, D)
    BY DEF Part, Actions
<1> HIDE DEF stored, part, C, U, D
<1>6. [a \in Actions |-> Extend(job.items[a], part(a), stored)]
        = [a \in Actions |-> Extend(job.items[a], Part(a, C, U, D), audit')]
    BY <1>3, <1>5
<1>7. job' = [job EXCEPT !.todo = @ \ {c},
                 !.items = [a \in Actions |-> Extend(@[a], Part(a, C, U, D), audit')]]
    BY <1>3, <1>6, Zenon
<1> QED
    BY <1>1, <1>3, <1>4, <1>7

\* Everything but the catalog, the mark and the version.
SameHistory(a, b) ==
    /\ a.stored = b.stored /\ a.created = b.created /\ a.updated = b.updated
    /\ a.deleted = b.deleted /\ a.status = b.status /\ a.errored = b.errored

\* Everything but the time of the last error.
SameButErrored(a, b) ==
    /\ a.stored = b.stored /\ a.created = b.created /\ a.updated = b.updated
    /\ a.deleted = b.deleted /\ a.status = b.status /\ a.catalog = b.catalog

\* What is prepared to be created has no creation that went well behind it.
Fresh(a) == a.stored /\ ~a.deleted /\ ~Existing(a) /\ MayRetry(a)

LEMMA SameExisting ==
    ASSUME NEW a, NEW b, SameHistory(a, b)
    PROVE  Existing(a) = Existing(b) /\ MayRetry(a) = MayRetry(b)
BY DEF SameHistory, Existing, MayRetry

LEMMA SameFresh ==
    ASSUME NEW a, NEW b, SameHistory(a, b), Fresh(b)
    PROVE  Fresh(a)
BY DEF SameHistory, Existing, MayRetry, Fresh

\* CreateAudit prepares a record that is not refused.
LEMMA CreatedFresh ==
    ASSUME NEW a \in Audit, NEW c \in Catalogs, NEW v \in Version, ~Existing(a), ~CreateRefused(a)
    PROVE  Fresh(CreateAudit(a, c, v))
<1>1. CASE DeletedBefore(a)
    <2>1. /\ Recreated(a, c, v).stored /\ ~Recreated(a, c, v).deleted /\ ~Recreated(a, c, v).created
          /\ Recreated(a, c, v).errored = a.errored
        BY DEF Recreated, NewAudit
    <2> QED
        BY <1>1, <2>1 DEF CreateAudit, DeletedBefore, Fresh, Existing, MayRetry
<1>2. CASE ~DeletedBefore(a) /\ IncompleteCreate(a)
    <2>1. SameHistory([a EXCEPT !.marked = "create"], a)
        BY DEF SameHistory, Audit
    <2>2. Fresh(a)
        BY <1>2 DEF IncompleteCreate, Fresh, MayRetry
    <2> QED
        BY <1>2, <2>1, <2>2, SameFresh DEF CreateAudit
<1>3. CASE ~DeletedBefore(a) /\ ~IncompleteCreate(a)
    BY <1>3 DEF CreateAudit, NewAudit, Fresh, Existing, MayRetry
<1> QED
    BY <1>1, <1>2, <1>3

\* The export changes what has happened to a record only where it prepares a creation.
LEMMA PreparedAudits ==
    ASSUME TypeOK, NEW c \in Catalogs, NEW S \in SUBSET (ToCreate(c) \ Refused(c)),
           NEW x \in Contents
    PROVE  /\ x \in S => Fresh(Prepared(c, S)[x])
           /\ x \notin S => /\ SameHistory(Prepared(c, S)[x], audit[x])
                            /\ Prepared(c, S)[x].catalog \in {audit[x].catalog, c}
<1>1. audit[x] \in Audit /\ version[x] \in Version
    BY DEF TypeOK
<1>2. x \in S => x \notin Adopted(c) /\ ~Existing(audit[x]) /\ ~CreateRefused(audit[x])
    BY DEF ToCreate, Refused
<1>3. ASSUME x \in S PROVE Fresh(Prepared(c, S)[x])
    BY <1>1, <1>2, <1>3, CreatedFresh DEF Prepared
<1>4. /\ SameHistory([audit[x] EXCEPT !.catalog = c], audit[x])
      /\ SameHistory([audit[x] EXCEPT !.marked = "update"], audit[x])
      /\ SameHistory([audit[x] EXCEPT !.marked = "delete"], audit[x])
      /\ SameHistory(audit[x], audit[x])
    BY <1>1 DEF SameHistory, Audit
<1>5. /\ [audit[x] EXCEPT !.catalog = c].catalog = c
      /\ [audit[x] EXCEPT !.marked = "update"].catalog = audit[x].catalog
      /\ [audit[x] EXCEPT !.marked = "delete"].catalog = audit[x].catalog
    BY <1>1 DEF Audit
<1>6. ASSUME x \notin S
      PROVE  Prepared(c, S)[x] \in {[audit[x] EXCEPT !.catalog = c], [audit[x] EXCEPT !.marked = "update"],
                                    [audit[x] EXCEPT !.marked = "delete"], audit[x]}
    BY <1>6 DEF Prepared
<1> QED
    BY <1>3, <1>4, <1>5, <1>6

LEMMA ExportedAudits ==
    ASSUME TypeOK, NEW c \in Catalogs, Refused(c) = {}, NEW S \in SUBSET Contents, NEW x \in Contents
    PROVE  /\ x \in ToCreate(c) => Fresh(Exported(c, S)[x])
           /\ x \notin ToCreate(c) => /\ SameHistory(Exported(c, S)[x], audit[x])
                                      /\ Exported(c, S)[x].catalog \in {audit[x].catalog, c}
           /\ x \in S => Exported(c, S)[x].catalog = c
<1> DEFINE p == Prepared(c, ToCreate(c))[x]
           e == Exported(c, S)[x]
<1>1. ToCreate(c) \subseteq Contents
    BY DEF ToCreate, Refused, TypeOK
<1>2. p \in Audit
    BY <1>1, PreparedType
<1>3. /\ x \in ToCreate(c) => Fresh(p)
      /\ x \notin ToCreate(c) => SameHistory(p, audit[x]) /\ p.catalog \in {audit[x].catalog, c}
    BY PreparedAudits
<1>4. e = IF x \notin S THEN p ELSE [p EXCEPT !.catalog = c, !.version = version[x]]
    BY DEF Exported
<1> HIDE DEF p, e
<1>5. SameHistory(e, p) /\ e.catalog \in {p.catalog, c} /\ (x \in S => e.catalog = c)
    BY <1>2, <1>4 DEF SameHistory, Audit
<1>6. x \in ToCreate(c) => Fresh(e)
    BY <1>3, <1>5, SameFresh
<1>7. x \notin ToCreate(c) => SameHistory(e, audit[x]) /\ e.catalog \in {audit[x].catalog, c}
    BY <1>3, <1>5 DEF SameHistory
<1> QED
    BY <1>5, <1>6, <1>7 DEF e

LEMMA ExportedType ==
    ASSUME TypeOK, NEW c \in Catalogs, NEW S \in SUBSET Contents
    PROVE  Exported(c, S) \in [Contents -> Audit]
<1> SUFFICES ASSUME NEW x \in Contents PROVE Exported(c, S)[x] \in Audit
    BY DEF Exported
<1>1. ToCreate(c) \subseteq Contents
    BY DEF ToCreate, TypeOK
<1>2. Prepared(c, ToCreate(c))[x] \in Audit
    BY <1>1, PreparedType
<1>3. version[x] \in Version
    BY DEF TypeOK
<1> HIDE DEF Prepared
<1>4. [Prepared(c, ToCreate(c))[x] EXCEPT !.catalog = c, !.version = version[x]] \in Audit
    BY <1>2, <1>3 DEF Audit
<1> QED
    BY <1>2, <1>4 DEF Exported
-----------------------------------------------------------------------------
(* What the steps rely on *)

\* The copies in the payloads are of records in the state their request is for.
PayloadsFit ==
    /\ \A x \in DOMAIN job.items["delete"] : remote[x] # Absent =>
          job.items["delete"][x].stored /\ job.items["delete"][x].created
    /\ \A x \in DOMAIN job.items["create"] :
          remote[x] = Absent /\ job.items["create"][x].stored /\ ~job.items["create"][x].deleted
    /\ \A x \in DOMAIN job.items["update"] :
          /\ job.items["update"][x].stored /\ job.items["update"][x].created
          /\ ~job.items["update"][x].deleted
    /\ job.pc \in {"create", "update"} => DOMAIN job.items["delete"] = {}

\* No record in a payload has failed within a day; no two payloads share a content;
\* and while the export goes on, what is to be created does not exist, what is to be
\* updated or deleted does, for a catalog that has been exported.
PayloadsDue ==
    /\ \A a \in Actions : \A x \in DOMAIN job.items[a] : audit[x].errored # "recent"
    /\ \A a, b \in Actions : a # b => DOMAIN job.items[a] \cap DOMAIN job.items[b] = {}
    /\ job.pc = "idle" => \A a \in Actions : DOMAIN job.items[a] = {}
    /\ job.pc = "export" =>
          /\ \A x \in DOMAIN job.items["create"] : ~Existing(audit[x])
          /\ \A a \in {"update", "delete"} : \A x \in DOMAIN job.items[a] :
                Existing(audit[x]) /\ audit[x].catalog \notin job.todo

-----------------------------------------------------------------------------
(* Type correctness *)

LEMMA JobParts ==
    ASSUME NEW j \in Jobs
    PROVE  /\ j.pc \in PC /\ j.todo \subseteq Catalogs
           /\ \A a \in Actions : j.items[a] \in Payloads /\ Payload(j.items[a])
           /\ j.items \in [Actions -> Payloads]
           /\ j.sent \in 0..ChunkLimit /\ j.removed \subseteq Contents
<1>1. \A a \in Actions : j.items[a] \in Payloads
    BY DEF Jobs
<1> QED
    BY <1>1, PayloadParts DEF Jobs, Payload

LEMMA NewItems ==
    ASSUME NEW j \in Jobs, NEW a \in Actions, NEW p \in Payloads
    PROVE  [j.items EXCEPT ![a] = p] \in [Actions -> Payloads]
BY JobParts

LEMMA ChunkParts ==
    ASSUME Typed, NEW a \in Actions, NEW S, S \in Chunks(a)
    PROVE  S \subseteq DOMAIN job.items[a] /\ S \subseteq Contents
BY JobParts DEF Chunks, Typed, Payload

LEMMA AnsweredType ==
    ASSUME Typed, NEW a \in Actions, NEW S, S \in Chunks(a), NEW ok \in BOOLEAN,
           job.sent < ChunkLimit, Answered(a, S, ok)
    PROVE  audit' \in [Contents -> Audit] /\ job' \in Jobs
<1> DEFINE i == job.items[a]
           left == [x \in DOMAIN i \ S |-> i[x]]
           removed == IF ok /\ a = "delete" THEN job.removed \cup S ELSE job.removed
<1>1. i \in Payloads /\ DOMAIN i \subseteq Contents /\ \A x \in DOMAIN i : i[x] \in Audit
    BY JobParts, PayloadParts DEF Typed
<1>2. S \subseteq DOMAIN i
    BY ChunkParts
<1>3. audit' \in [Contents -> Audit]
    <2>1. \A x \in Contents : audit[x] \in Audit
        BY DEF Typed, TypeOK
    <2>2. \A x \in S : Saved(i[x], a, ok) \in Audit
        BY <1>1, <1>2, SavedType
    <2>3. audit' = [x \in Contents |-> IF x \in S THEN Saved(i[x], a, ok) ELSE audit[x]]
        BY DEF Answered
    <2> HIDE DEF i
    <2> QED
        BY <2>1, <2>2, <2>3
<1>4. left \in Payloads
    <2>1. DOMAIN i \ S \in SUBSET Contents /\ left \in [DOMAIN i \ S -> Audit]
        BY <1>1
    <2> QED
        BY <2>1, APayload
<1>5. [job.items EXCEPT ![a] = left] \in [Actions -> Payloads]
    BY <1>4, NewItems DEF Typed
<1>6. job.sent + 1 \in 0..ChunkLimit
    BY Constants, JobParts DEF Typed
<1>7. removed \in SUBSET Contents
    BY <1>1, <1>2, JobParts DEF Typed
<1>8. job' = [job EXCEPT !.items = [job.items EXCEPT ![a] = left], !.sent = job.sent + 1,
                         !.removed = removed]
    BY DEF Answered, Typed, Jobs
<1> HIDE DEF left, removed
<1> QED
    BY <1>3, <1>5, <1>6, <1>7, <1>8 DEF Typed, Jobs

LEMMA ExportCatalogType ==
    ASSUME Typed, NEW c \in Catalogs, ExportCatalog(c)
    PROVE  audit' \in [Contents -> Audit] /\ job' \in Jobs /\ spent' \in [Bounds -> Nat]
<1> PICK C \in SUBSET ToCreate(c), U \in SUBSET ToUpdate(c), D \in SUBSET ToDelete(c) :
        /\ audit' = Exported(c, C \cup U)
        /\ job' = [job EXCEPT !.todo = @ \ {c},
                      !.items = [a \in Actions |-> Extend(@[a], Part(a, C, U, D), audit')]]
        /\ UNCHANGED spent \/ Spend("failures", MaxFailures)
    BY ExportParts
<1>1. C \subseteq Contents /\ U \subseteq Contents /\ D \subseteq Contents
    BY DEF ToCreate, ToUpdate, ToDelete, Matched, Keys, Typed, TypeOK
<1>2. audit' \in [Contents -> Audit]
    BY <1>1, ExportedType DEF Typed
<1>3. [a \in Actions |-> Extend(job.items[a], Part(a, C, U, D), audit')] \in [Actions -> Payloads]
    <2> SUFFICES ASSUME NEW a \in Actions
                 PROVE  Extend(job.items[a], Part(a, C, U, D), audit') \in Payloads
        OBVIOUS
    <2>1. Part(a, C, U, D) \in SUBSET Contents
        BY <1>1 DEF Part
    <2> QED
        BY <1>2, <2>1, JobParts, ExtendType DEF Typed
<1>4. job' \in Jobs
    BY <1>3 DEF Typed, Jobs
<1>5. spent' \in [Bounds -> Nat]
    BY SpendType DEF Typed, TypeOK, Bounds
<1> QED
    BY <1>2, <1>4, <1>5

LEMMA OrphansType ==
    ASSUME Typed, ExportOrphans
    PROVE  job' \in Jobs
<1> PICK S \in SUBSET Contents :
        job' = [job EXCEPT !.pc = "delete", !.todo = {}, !.items["delete"] = Extend(@, S, audit)]
    BY DEF ExportOrphans
<1>1. Extend(job.items["delete"], S, audit) \in Payloads
    BY ExtendType, JobParts DEF Typed, TypeOK, Actions
<1>2. [job.items EXCEPT !["delete"] = Extend(job.items["delete"], S, audit)] \in [Actions -> Payloads]
    BY <1>1, NewItems DEF Typed, Actions
<1> DEFINE items == [job.items EXCEPT !["delete"] = Extend(job.items["delete"], S, audit)]
<1>3. job' = [job EXCEPT !.pc = "delete", !.todo = {}, !.items = items]
    BY DEF Typed, Jobs
<1> HIDE DEF items
<1> QED
    BY <1>2, <1>3 DEF Typed, Jobs, PC, items, Actions

LEMMA EndActionType ==
    ASSUME Typed, NEW a \in Actions, EndAction(a)
    PROVE  job' \in Jobs /\ orphan' \in [Contents -> OrphanState]
<1>1. orphan' \in [Contents -> OrphanState]
    BY DEF EndAction, Typed, TypeOK, OrphanState
<1> DEFINE items == [job.items EXCEPT ![a] = [x \in {} |-> x]]
           pc == IF a = "delete" THEN "create" ELSE "update"
<1>2. items \in [Actions -> Payloads]
    BY EmptyPayload, NewItems DEF Typed
<1>3. pc \in PC
    BY DEF PC, Actions
<1>4. a # "update" => job' = [job EXCEPT !.pc = pc, !.sent = 0, !.removed = {}, !.items = items]
    BY DEF EndAction, Typed, Jobs
<1> HIDE DEF items, pc
<1>5. a # "update" => job' \in Jobs
    <2>1. 0 \in 0..ChunkLimit /\ {} \in SUBSET Contents
        BY Constants
    <2>2. [job EXCEPT !.pc = pc, !.sent = 0, !.removed = {}, !.items = items] \in Jobs
        BY <1>2, <1>3, <2>1 DEF Typed, Jobs
    <2> QED
        BY <1>4, <2>2
<1>6. a = "update" => job' = IdleJob
    BY DEF EndAction
<1> QED
    BY <1>1, <1>5, <1>6, IdleJobType

LEMMA InitTyped == Init => Typed
<1> SUFFICES ASSUME Init PROVE Typed
    OBVIOUS
<1>1. job \in Jobs
    BY IdleJobType DEF Init
<1>2. audit \in [Contents -> Audit]
    BY NoAuditType DEF Init
<1>3. version \in [Contents -> Version] /\ spent \in [Bounds -> Nat]
    BY Constants DEF Init
<1> QED
    BY <1>1, <1>2, <1>3, JobParts DEF Init, Typed, TypeOK, OrphanState

LEMMA TypedParts ==
    ASSUME Typed
    PROVE  /\ offered \in [Catalogs -> SUBSET Contents] /\ linked \in SUBSET Catalogs
           /\ version \in [Contents -> Version]
           /\ remote \in [Contents -> Version \cup {Absent}]
           /\ audit \in [Contents -> Audit] /\ orphan \in [Contents -> OrphanState]
           /\ job \in Jobs /\ spent \in [Bounds -> Nat]
BY DEF Typed, TypeOK

LEMMA TypedStep == Typed /\ [Next]_vars => Typed'
<1> DEFINE Goal == /\ (offered \in [Catalogs -> SUBSET Contents])' /\ (linked \in SUBSET Catalogs)'
                   /\ (version \in [Contents -> Version])'
                   /\ (remote \in [Contents -> Version \cup {Absent}])'
                   /\ (audit \in [Contents -> Audit])' /\ (orphan \in [Contents -> OrphanState])'
                   /\ (job \in Jobs)' /\ (spent \in [Bounds -> Nat])'
<1> SUFFICES ASSUME Typed, [Next]_vars PROVE Goal
    BY JobParts DEF Typed, TypeOK
<1> USE TypedParts
<1>1. CASE StartSync
    BY <1>1 DEF StartSync, Jobs, PC
<1>2. ASSUME NEW c \in Catalogs, ExportCatalog(c) \/ ExportAborts(c) PROVE Goal
    <2>1. CASE ExportCatalog(c)
        BY <2>1, ExportCatalogType DEF ExportCatalog, Adopt, OrphanState
    <2>2. CASE ExportAborts(c)
        <3>1. audit' \in [Contents -> Audit]
            <4>1. ToCreate(c) \subseteq Contents
                BY DEF ToCreate
            <4> QED
                BY <2>2, <4>1, PreparedType DEF ExportAborts, Typed
        <3> QED
            BY <2>2, <3>1, IdleJobType DEF ExportAborts, Adopt, OrphanState
    <2> QED
        BY <1>2, <2>1, <2>2
<1>3. CASE ExportOrphans
    BY <1>3, OrphansType DEF ExportOrphans
<1>4. ASSUME NEW a \in Actions, NEW S \in SUBSET Contents, Send(a, S) PROVE Goal
    <2>1. S \in Chunks(a) /\ job.sent < ChunkLimit
        BY <1>4 DEF Send, ChunkSucceeds, ChunkFails
    <2>2. Answered(a, S, TRUE) \/ Answered(a, S, FALSE)
        BY <1>4 DEF Send, ChunkSucceeds, ChunkFails
    <2>3. audit' \in [Contents -> Audit] /\ job' \in Jobs
        BY <2>1, <2>2, AnsweredType
    <2>4. UNCHANGED <<offered, linked, version, orphan>>
        BY <2>2 DEF Answered
    <2>5. Carried(a, S) \in [Contents -> Version \cup {Absent}]
        BY <2>1, ChunkParts, CarriedType
    <2>6. remote' \in [Contents -> Version \cup {Absent}]
        BY <1>4, <2>5 DEF Send, ChunkSucceeds, ChunkFails
    <2>7. spent' \in [Bounds -> Nat]
        BY <1>4, SpendType DEF Send, ChunkSucceeds, ChunkFails, Typed, Bounds
    <2> QED
        BY <2>3, <2>4, <2>6, <2>7
<1>5. ASSUME NEW a \in Actions, EndAction(a) PROVE Goal
    BY <1>5, EndActionType DEF EndAction
<1>6. CASE JobDies
    <2>1. remote' = remote \/ \E S \in Chunks(job.pc) : job.pc \in Actions /\ remote' = Carried(job.pc, S)
        BY <1>6 DEF JobDies
    <2>2. remote' \in [Contents -> Version \cup {Absent}]
        BY <2>1, ChunkParts, CarriedType
    <2>3. spent' \in [Bounds -> Nat]
        BY <1>6, SpendType DEF JobDies, Typed, Bounds
    <2> QED
        BY <1>6, <2>2, <2>3, IdleJobType DEF JobDies
<1>7. CASE MarkOrphans
    BY <1>7 DEF MarkOrphans, OrphanState
<1>8. ASSUME NEW x \in Contents, DayPasses(x) PROVE Goal
    <2>1. [audit[x] EXCEPT !.errored = "old"] \in Audit
        BY SMTT(40) DEF Audit
    <2> QED
        BY <1>8, <2>1 DEF DayPasses
<1>9. CASE Environment
    <2>1. ASSUME NEW c \in Catalogs, NEW x \in Contents, ChangeOffer(c, x) PROVE Goal
        BY <2>1, SpendType DEF ChangeOffer, Typed, Bounds
    <2>2. ASSUME NEW c \in Catalogs, ChangeLink(c) PROVE Goal
        BY <2>2, SpendType DEF ChangeLink, Typed, Bounds
    <2>3. ASSUME NEW x \in Contents, ChangeContent(x) PROVE Goal
        <3>1. version[x] + 1 \in Version
            BY <2>3, Constants DEF ChangeContent, Version
        <3> QED
            BY <2>3, <3>1 DEF ChangeContent
    <2> QED
        BY <1>9, <2>1, <2>2, <2>3 DEF Environment
<1>10. CASE UNCHANGED vars
    BY <1>10 DEF vars
<1> QED
    BY <1>1, <1>2, <1>3, <1>4, <1>5, <1>6, <1>7, <1>8, <1>9, <1>10 DEF Next, SyncStep

\* The records, the payloads and the job keep their types, whatever fails, dies or is late.
THEOREM TypeCorrect == Spec => []TypeOK
<1>1. Init => Typed
    BY InitTyped
<1>2. Typed /\ [Next]_vars => Typed'
    BY TypedStep
<1>3. Typed => TypeOK
    BY DEF Typed
<1> QED
    BY <1>1, <1>2, <1>3, PTL DEF Spec
-----------------------------------------------------------------------------
(* What the steps do to the payloads *)

LEMMA IdleItems == IdleJob.pc = "idle" /\ \A a \in Actions : DOMAIN IdleJob.items[a] = {}
BY DEF IdleJob

LEMMA ExportItems ==
    ASSUME Typed, NEW c \in Catalogs, ExportCatalog(c)
    PROVE  \E C \in SUBSET ToCreate(c), U \in SUBSET ToUpdate(c), D \in SUBSET ToDelete(c) :
              /\ audit' = Exported(c, C \cup U)
              /\ job'.pc = "export" /\ job'.todo = job.todo \ {c}
              /\ \A a \in Actions :
                    /\ DOMAIN job'.items[a] = DOMAIN job.items[a] \cup Part(a, C, U, D)
                    /\ \A x \in Part(a, C, U, D) : job'.items[a][x] = audit'[x]
                    /\ \A x \in DOMAIN job.items[a] \ Part(a, C, U, D) :
                          job'.items[a][x] = job.items[a][x]
<1> PICK C \in SUBSET ToCreate(c), U \in SUBSET ToUpdate(c), D \in SUBSET ToDelete(c) :
        /\ audit' = Exported(c, C \cup U)
        /\ job' = [job EXCEPT !.todo = @ \ {c},
                      !.items = [a \in Actions |-> Extend(@[a], Part(a, C, U, D), audit')]]
        /\ UNCHANGED spent \/ Spend("failures", MaxFailures)
    BY ExportParts
<1>1. C \subseteq Contents /\ U \subseteq Contents /\ D \subseteq Contents
    BY DEF ToCreate, ToUpdate, ToDelete, Matched, Keys, Typed, TypeOK
<1>2. audit' \in [Contents -> Audit]
    BY <1>1, ExportedType DEF Typed
<1>3. /\ job'.pc = "export" /\ job'.todo = job.todo \ {c}
      /\ \A a \in Actions : job'.items[a] = Extend(job.items[a], Part(a, C, U, D), audit')
    BY DEF Typed, Jobs, ExportCatalog
<1>4. ASSUME NEW a \in Actions
      PROVE  /\ DOMAIN job'.items[a] = DOMAIN job.items[a] \cup Part(a, C, U, D)
             /\ \A x \in Part(a, C, U, D) : job'.items[a][x] = audit'[x]
             /\ \A x \in DOMAIN job.items[a] \ Part(a, C, U, D) :
                   job'.items[a][x] = job.items[a][x]
    <2>1. Part(a, C, U, D) \in SUBSET Contents
        BY <1>1 DEF Part
    <2>2. job.items[a] \in Payloads
        BY JobParts DEF Typed
    <2> DEFINE e == Extend(job.items[a], Part(a, C, U, D), audit')
    <2>3. /\ DOMAIN e = DOMAIN job.items[a] \cup Part(a, C, U, D)
          /\ \A x \in Part(a, C, U, D) : e[x] = audit'[x]
          /\ \A x \in DOMAIN job.items[a] \ Part(a, C, U, D) : e[x] = job.items[a][x]
        BY <1>2, <2>1, <2>2, ExtendType
    <2> HIDE DEF e
    <2>4. job'.items[a] = e
        BY <1>3 DEF e
    <2> QED
        BY <2>3, <2>4
<1> QED
    BY <1>3, <1>4

LEMMA OrphansItems ==
    ASSUME Typed, ExportOrphans
    PROVE  \E S \in SUBSET Contents :
              /\ job'.pc = "delete"
              /\ S # {} => RemoveOrphans
              /\ DOMAIN job'.items["delete"] = DOMAIN job.items["delete"] \cup S
              /\ \A x \in S : job'.items["delete"][x] = audit[x]
              /\ \A x \in DOMAIN job.items["delete"] \ S :
                    job'.items["delete"][x] = job.items["delete"][x]
              /\ \A a \in {"create", "update"} : job'.items[a] = job.items[a]
<1> PICK S \in SUBSET {x \in Contents : RemoveOrphans /\ orphan[x] = "unresolved"} :
        job' = [job EXCEPT !.pc = "delete", !.todo = {}, !.items["delete"] = Extend(@, S, audit)]
    BY DEF ExportOrphans
<1>1. S \in SUBSET Contents /\ (S # {} => RemoveOrphans)
    OBVIOUS
<1>2. /\ job'.pc = "delete"
      /\ job'.items["delete"] = Extend(job.items["delete"], S, audit)
      /\ \A a \in {"create", "update"} : job'.items[a] = job.items[a]
    BY DEF Typed, Jobs, Actions
<1>3. job.items["delete"] \in Payloads /\ audit \in [Contents -> Audit]
    BY JobParts, TypedParts DEF Typed, Actions
<1> DEFINE e == Extend(job.items["delete"], S, audit)
<1>4. /\ DOMAIN e = DOMAIN job.items["delete"] \cup S
      /\ \A x \in S : e[x] = audit[x]
      /\ \A x \in DOMAIN job.items["delete"] \ S : e[x] = job.items["delete"][x]
    BY <1>1, <1>3, ExtendType
<1>5. job'.items["delete"] = e
    BY <1>2
<1> HIDE DEF e
<1> QED
    BY <1>1, <1>2, <1>4, <1>5

LEMMA AnsweredItems ==
    ASSUME Typed, NEW a \in Actions, NEW S, NEW ok, Answered(a, S, ok)
    PROVE  /\ job'.pc = job.pc /\ job'.todo = job.todo
           /\ DOMAIN job'.items[a] = DOMAIN job.items[a] \ S
           /\ \A x \in DOMAIN job.items[a] \ S : job'.items[a][x] = job.items[a][x]
           /\ \A b \in Actions : b # a => job'.items[b] = job.items[b]
<1> DEFINE left == [x \in DOMAIN job.items[a] \ S |-> job.items[a][x]]
<1>1. job' = [job EXCEPT !.items = [job.items EXCEPT ![a] = left], !.sent = @ + 1,
                 !.removed = IF ok /\ a = "delete" THEN @ \cup S ELSE @]
    BY DEF Answered, Typed, Jobs
<1>2. job'.pc = job.pc /\ job'.todo = job.todo /\ job'.items = [job.items EXCEPT ![a] = left]
    BY <1>1 DEF Typed, Jobs
<1>3. job'.items[a] = left /\ \A b \in Actions : b # a => job'.items[b] = job.items[b]
    BY <1>2, JobParts DEF Typed
<1> QED
    BY <1>2, <1>3

LEMMA EndActionItems ==
    ASSUME Typed, NEW a \in Actions, EndAction(a)
    PROVE  /\ \A b \in Actions : DOMAIN job'.items[b] \subseteq DOMAIN job.items[b]
           /\ \A b \in Actions : \A x \in DOMAIN job'.items[b] : job'.items[b][x] = job.items[b][x]
           /\ DOMAIN job'.items[a] = {}
           /\ job.pc = a
           /\ job'.pc = IF a = "delete" THEN "create" ELSE IF a = "create" THEN "update" ELSE "idle"
           /\ a = "update" => job' = IdleJob
<1>1. CASE a = "update"
    BY <1>1, IdleItems DEF EndAction
<1>2. CASE a # "update"
    <2> DEFINE empty == [x \in {} |-> x]
               pc == IF a = "delete" THEN "create" ELSE "update"
    <2>1. job' = [job EXCEPT !.pc = pc, !.sent = 0, !.removed = {},
                             !.items = [job.items EXCEPT ![a] = empty]]
        BY <1>2 DEF EndAction, Typed, Jobs
    <2> HIDE DEF pc
    <2>2. job'.pc = pc /\ job'.items = [job.items EXCEPT ![a] = empty]
        BY <2>1 DEF Typed, Jobs
    <2>3. DOMAIN empty = {}
        OBVIOUS
    <2> HIDE DEF empty
    <2>4. job'.items[a] = empty /\ \A b \in Actions : b # a => job'.items[b] = job.items[b]
        BY <2>2, JobParts DEF Typed
    <2> QED
        BY <1>2, <2>2, <2>3, <2>4 DEF pc, EndAction, Actions
<1> QED
    BY <1>1, <1>2

-----------------------------------------------------------------------------
(* Nothing at the LMS is forgotten *)

LEMMA SavedFields ==
    ASSUME NEW i \in Audit, NEW a \in Actions, NEW ok \in BOOLEAN
    PROVE  /\ Saved(i, a, ok).stored = i.stored
           /\ Saved(i, a, ok).created <=> (i.created \/ a = "create")
           /\ Saved(i, a, ok).updated <=> (i.updated \/ a = "update")
           /\ Saved(i, a, ok).deleted <=> (i.deleted \/ a = "delete")
           /\ Saved(i, a, ok).status = IF ok THEN "ok" ELSE "failed"
BY DEF Saved, Audit

LEMMA ForgottenExport ==
    ASSUME Typed, NothingForgotten, PayloadsFit, NEW c \in Catalogs, ExportCatalog(c)
    PROVE  NothingForgotten' /\ PayloadsFit'
<1> PICK C \in SUBSET ToCreate(c), U \in SUBSET ToUpdate(c), D \in SUBSET ToDelete(c) :
        /\ audit' = Exported(c, C \cup U)
        /\ job'.pc = "export" /\ job'.todo = job.todo \ {c}
        /\ \A a \in Actions :
              /\ DOMAIN job'.items[a] = DOMAIN job.items[a] \cup Part(a, C, U, D)
              /\ \A x \in Part(a, C, U, D) : job'.items[a][x] = audit'[x]
              /\ \A x \in DOMAIN job.items[a] \ Part(a, C, U, D) :
                    job'.items[a][x] = job.items[a][x]
    BY ExportItems
<1>1. /\ \A x \in ToCreate(c) : x \in Contents /\ ~Existing(audit[x])
      /\ \A x \in ToUpdate(c) \cup ToDelete(c) : x \in Contents /\ Existing(audit[x])
      /\ \A x \in ToUpdate(c) : audit[x].stored /\ audit[x].created /\ ~audit[x].deleted
      /\ ToCreate(c) \subseteq Contents /\ ToUpdate(c) \subseteq Contents /\ ToDelete(c) \subseteq Contents
    BY DEF ToCreate, ToUpdate, ToDelete, Matched, Keys, NeedsUpdate, IncompleteUpdate, Typed, TypeOK
<1>2. ASSUME NEW x \in Contents
      PROVE  /\ x \in ToCreate(c) => Fresh(audit'[x])
             /\ x \notin ToCreate(c) => SameHistory(audit'[x], audit[x])
    BY <1>1, ExportedAudits DEF Typed, ExportCatalog
<1>3. remote' = remote
    BY DEF ExportCatalog
<1>4. NothingForgotten'
    BY <1>1, <1>2, <1>3, SameExisting DEF NothingForgotten
<1>5. \A x \in ToCreate(c) : remote[x] = Absent /\ audit'[x].stored /\ ~audit'[x].deleted
    BY <1>1, <1>2 DEF NothingForgotten, Fresh
<1>6. \A x \in ToUpdate(c) : audit'[x].stored /\ audit'[x].created /\ ~audit'[x].deleted
    BY <1>1, <1>2 DEF SameHistory
<1>7. \A x \in ToDelete(c) : audit'[x].stored /\ audit'[x].created
    BY <1>1, <1>2 DEF SameHistory, Existing
<1>8. /\ Part("create", C, U, D) = C /\ Part("update", C, U, D) = U
      /\ Part("delete", C, U, D) = D
    BY DEF Part
<1>9. \A x \in DOMAIN job'.items["create"] :
         remote[x] = Absent /\ job'.items["create"][x].stored /\ ~job'.items["create"][x].deleted
    BY <1>5, <1>8, ZenonT(40) DEF PayloadsFit, Actions
<1>10. \A x \in DOMAIN job'.items["update"] :
         /\ job'.items["update"][x].stored /\ job'.items["update"][x].created
         /\ ~job'.items["update"][x].deleted
    BY <1>6, <1>8, ZenonT(40) DEF PayloadsFit, Actions
<1>11. \A x \in DOMAIN job'.items["delete"] : remote[x] # Absent =>
          job'.items["delete"][x].stored /\ job'.items["delete"][x].created
    BY <1>7, <1>8 DEF PayloadsFit, Actions
<1>12. PayloadsFit'
    BY <1>3, <1>9, <1>10, <1>11 DEF PayloadsFit
<1> QED
    BY <1>4, <1>12

LEMMA ForgottenAborts ==
    ASSUME Typed, NothingForgotten, NEW c \in Catalogs, ExportAborts(c)
    PROVE  NothingForgotten' /\ PayloadsFit'
<1> PICK S \in SUBSET (ToCreate(c) \ Refused(c)) : audit' = Prepared(c, S)
    BY DEF ExportAborts
<1>1. remote' = remote /\ job' = IdleJob
    BY DEF ExportAborts
<1>2. \A x \in S : ~Existing(audit[x])
    BY DEF ToCreate
<1>3. \A x \in Contents : x \notin S => SameHistory(audit'[x], audit[x])
    BY PreparedAudits DEF Typed
<1>4. NothingForgotten'
    BY <1>1, <1>2, <1>3, SameExisting DEF NothingForgotten
<1>5. PayloadsFit'
    BY <1>1, IdleItems DEF PayloadsFit, Actions
<1> QED
    BY <1>4, <1>5

LEMMA ForgottenOrphans ==
    ASSUME Typed, NothingForgotten, PayloadsFit, ExportOrphans
    PROVE  NothingForgotten' /\ PayloadsFit'
<1> PICK S \in SUBSET Contents :
        /\ job'.pc = "delete"
        /\ DOMAIN job'.items["delete"] = DOMAIN job.items["delete"] \cup S
        /\ \A x \in S : job'.items["delete"][x] = audit[x]
        /\ \A x \in DOMAIN job.items["delete"] \ S :
              job'.items["delete"][x] = job.items["delete"][x]
        /\ \A a \in {"create", "update"} : job'.items[a] = job.items[a]
    BY OrphansItems
<1>1. remote' = remote /\ audit' = audit
    BY DEF ExportOrphans
<1>2. \A x \in S : remote[x] # Absent => audit[x].stored /\ audit[x].created
    BY DEF NothingForgotten, Existing
<1> QED
    BY <1>1, <1>2 DEF NothingForgotten, PayloadsFit

LEMMA ForgottenSend ==
    ASSUME ~LateAnswers, Typed, NothingForgotten, PayloadsFit,
           NEW a \in Actions, NEW S \in SUBSET Contents, Send(a, S)
    PROVE  NothingForgotten' /\ PayloadsFit'
<1>1. job.pc = a /\ S \subseteq DOMAIN job.items[a]
    BY ChunkParts DEF Send, ChunkSucceeds, ChunkFails
<1> DEFINE copy(x) == job.items[a][x]
<1>2. \A x \in S : copy(x) \in Audit
    BY <1>1, JobParts, PayloadParts DEF Typed
<1>3. PICK ok \in BOOLEAN :
         /\ Answered(a, S, ok)
         /\ remote' = IF ok THEN Carried(a, S) ELSE remote
         /\ ok /\ a = "update" => \A x \in S : remote[x] # Absent
    BY DEF Send, ChunkSucceeds, ChunkFails
<1>4. \A x \in Contents : audit'[x] = IF x \in S THEN Saved(copy(x), a, ok) ELSE audit[x]
    BY <1>3 DEF Answered
<1>5. \A x \in Contents \ S : remote'[x] = remote[x]
    BY <1>3 DEF Carried
<1>6. ok /\ a = "delete" => \A x \in S : remote'[x] = Absent
    BY <1>3 DEF Carried
<1>7. ASSUME NEW x \in S, remote'[x] # Absent PROVE Existing(audit'[x])
    <2>1. Saved(copy(x), a, ok).stored = copy(x).stored
        BY <1>2, SavedFields
    <2> DEFINE s == Saved(copy(x), a, ok)
    <2>2. /\ s.created <=> (copy(x).created \/ a = "create")
          /\ s.updated <=> (copy(x).updated \/ a = "update")
          /\ s.deleted <=> (copy(x).deleted \/ a = "delete")
          /\ s.status = IF ok THEN "ok" ELSE "failed"
        BY <1>2, SavedFields
    <2>3. audit'[x] = s
        BY <1>4
    <2> HIDE DEF s, copy
    <2>4. CASE a = "delete"
        <3>1. ~ok /\ remote[x] # Absent
            BY <1>3, <1>6, <1>7, <2>4
        <3>2. copy(x).stored /\ copy(x).created
            BY <1>1, <2>4, <3>1 DEF PayloadsFit, copy
        <3> QED
            BY <2>1, <2>2, <2>3, <2>4, <3>1, <3>2 DEF Existing, s
    <2>5. CASE a = "create"
        <3>1. remote[x] = Absent /\ copy(x).stored /\ ~copy(x).deleted
            BY <1>1, <2>5 DEF PayloadsFit, copy
        <3>2. ok
            BY <1>3, <1>7, <3>1
        <3> QED
            BY <2>1, <2>2, <2>3, <2>5, <3>1, <3>2 DEF Existing, s
    <2>6. CASE a = "update"
        <3>1. copy(x).stored /\ copy(x).created /\ ~copy(x).deleted
            BY <1>1, <2>6 DEF PayloadsFit, copy
        <3> QED
            BY <2>1, <2>2, <2>3, <2>6, <3>1 DEF Existing, s
    <2> QED
        BY <2>4, <2>5, <2>6 DEF Actions
<1>8. NothingForgotten'
    BY <1>4, <1>5, <1>7 DEF NothingForgotten
<1>9. /\ job'.pc = job.pc
      /\ DOMAIN job'.items[a] = DOMAIN job.items[a] \ S
      /\ \A x \in DOMAIN job.items[a] \ S : job'.items[a][x] = job.items[a][x]
      /\ \A b \in Actions : b # a => job'.items[b] = job.items[b]
    BY <1>3, AnsweredItems
<1>10. \A x \in DOMAIN job'.items["create"] : remote'[x] = Absent
    <2> SUFFICES ASSUME NEW x \in DOMAIN job'.items["create"] PROVE remote'[x] = Absent
        OBVIOUS
    <2>1. x \in DOMAIN job.items["create"] /\ x \in Contents /\ (a = "create" => x \notin S)
        BY <1>9, JobParts DEF Actions, Typed, Payload
    <2>2. remote[x] = Absent
        BY <2>1 DEF PayloadsFit
    <2>3. CASE x \notin S
        BY <1>5, <2>1, <2>2, <2>3
    <2>4. CASE x \in S
        <3>1. a = "update" => ~ok
            BY <2>2, <2>4, <1>3
        <3> QED
            BY <1>3, <1>6, <2>1, <2>2, <2>4, <3>1 DEF Actions
    <2> QED
        BY <2>3, <2>4
<1>11. \A x \in DOMAIN job'.items["delete"] : remote'[x] # Absent => remote[x] # Absent
    <2>1. CASE a = "delete"
        BY <1>5, <1>9, <2>1, JobParts DEF Typed, Payload, Actions
    <2>2. CASE a # "delete"
        <3>1. DOMAIN job.items["delete"] = {}
            BY <1>1, <2>2 DEF PayloadsFit, Actions
        <3> QED
            BY <1>9, <2>2, <3>1 DEF Actions
    <2> QED
        BY <2>1, <2>2
<1>12. PayloadsFit'
    BY <1>1, <1>5, <1>9, <1>10, <1>11 DEF PayloadsFit, Actions
<1> QED
    BY <1>8, <1>12

LEMMA ForgottenEnd ==
    ASSUME Typed, NothingForgotten, PayloadsFit, NEW a \in Actions, EndAction(a)
    PROVE  NothingForgotten' /\ PayloadsFit'
<1>1. remote' = remote /\ audit' = audit
    BY DEF EndAction
<1>2. /\ \A b \in Actions : DOMAIN job'.items[b] \subseteq DOMAIN job.items[b]
      /\ \A b \in Actions : \A x \in DOMAIN job'.items[b] : job'.items[b][x] = job.items[b][x]
      /\ DOMAIN job'.items[a] = {}
      /\ job.pc = a
      /\ job'.pc = IF a = "delete" THEN "create" ELSE IF a = "create" THEN "update" ELSE "idle"
    BY EndActionItems
<1>3. job'.pc \in {"create", "update"} => DOMAIN job'.items["delete"] = {}
    BY <1>2 DEF PayloadsFit, Actions
<1> QED
    BY <1>1, <1>2, <1>3 DEF NothingForgotten, PayloadsFit, Actions

LEMMA ForgottenStep ==
    ASSUME ~LateAnswers, Typed, NothingForgotten, PayloadsFit, [Next]_vars
    PROVE  NothingForgotten' /\ PayloadsFit'
<1> DEFINE Goal == NothingForgotten' /\ PayloadsFit'
<1>1. CASE StartSync
    <2>1. UNCHANGED <<remote, audit>> /\ job'.items = job.items /\ job'.pc = "export"
        BY <1>1 DEF StartSync, Typed, Jobs
    <2> QED
        BY <2>1 DEF NothingForgotten, PayloadsFit
<1>2. CASE \E c \in Catalogs : ExportCatalog(c) \/ ExportAborts(c)
    BY <1>2, ForgottenExport, ForgottenAborts
<1>3. CASE ExportOrphans
    BY <1>3, ForgottenOrphans
<1>4. CASE \E a \in Actions, S \in SUBSET Contents : Send(a, S)
    BY <1>4, ForgottenSend
<1>5. CASE \E a \in Actions : EndAction(a)
    BY <1>5, ForgottenEnd
<1>6. CASE JobDies
    <2>1. UNCHANGED <<remote, audit>> /\ job' = IdleJob
        BY <1>6 DEF JobDies
    <2> QED
        BY <2>1, IdleItems DEF NothingForgotten, PayloadsFit, Actions
<1>7. CASE MarkOrphans \/ Environment
    <2>1. UNCHANGED <<remote, audit, job>>
        BY <1>7 DEF MarkOrphans, Environment, ChangeOffer, ChangeLink, ChangeContent
    <2> QED
        BY <2>1 DEF NothingForgotten, PayloadsFit
<1>8. ASSUME NEW y \in Contents, DayPasses(y) PROVE Goal
    <2>1. UNCHANGED <<remote, job>> /\ audit' = [audit EXCEPT ![y].errored = "old"]
        BY <1>8 DEF DayPasses
    <2>2. \A x \in Contents : SameButErrored(audit'[x], audit[x])
        BY <2>1, TypedParts DEF SameButErrored, Audit
    <2> QED
        BY <2>1, <2>2 DEF NothingForgotten, PayloadsFit, Existing, SameButErrored
<1>9. CASE UNCHANGED vars
    BY <1>9 DEF vars, NothingForgotten, PayloadsFit
<1> QED
    BY <1>1, <1>2, <1>3, <1>4, <1>5, <1>6, <1>7, <1>8, <1>9 DEF Next, SyncStep

\* What the LMS holds can still be updated and deleted, whatever fails, is truncated or
\* dies and whichever catalogs change: unless a request that seems to have failed was
\* carried out, the records of what it holds stay among those the export compares.
THEOREM HeldStaysKnown == ~LateAnswers => (Spec => []NothingForgotten)
<1> DEFINE I == Typed /\ NothingForgotten /\ PayloadsFit
<1> SUFFICES ASSUME ~LateAnswers PROVE Spec => []NothingForgotten
    OBVIOUS
<1>1. Init => I
    <2> SUFFICES ASSUME Init PROVE I
        OBVIOUS
    <2>1. \A x \in Contents : remote[x] = Absent
        BY DEF Init
    <2>2. job = IdleJob
        BY DEF Init
    <2> QED
        BY <2>1, <2>2, InitTyped, IdleItems DEF NothingForgotten, PayloadsFit, Actions
<1>2. I /\ [Next]_vars => I'
    BY TypedStep, ForgottenStep
<1>3. I => NothingForgotten
    OBVIOUS
<1> QED
    BY <1>1, <1>2, <1>3, PTL DEF Spec

-----------------------------------------------------------------------------
(* Requests are due *)

LEMMA DueExport ==
    ASSUME Typed, PayloadsDue, NEW c \in Catalogs, ExportCatalog(c)
    PROVE  PayloadsDue'
<1> PICK C \in SUBSET ToCreate(c), U \in SUBSET ToUpdate(c), D \in SUBSET ToDelete(c) :
        /\ audit' = Exported(c, C \cup U)
        /\ job'.pc = "export" /\ job'.todo = job.todo \ {c}
        /\ \A a \in Actions :
              /\ DOMAIN job'.items[a] = DOMAIN job.items[a] \cup Part(a, C, U, D)
              /\ \A x \in Part(a, C, U, D) : job'.items[a][x] = audit'[x]
              /\ \A x \in DOMAIN job.items[a] \ Part(a, C, U, D) :
                    job'.items[a][x] = job.items[a][x]
    BY ExportItems
<1>1. job.pc = "export" /\ c \in job.todo
    BY DEF ExportCatalog
<1>2. /\ \A x \in ToCreate(c) : x \in Contents /\ ~Existing(audit[x])
      /\ \A x \in ToUpdate(c) \cup ToDelete(c) : /\ x \in Contents /\ Existing(audit[x])
                                                 /\ MayRetry(audit[x]) /\ audit[x].catalog = c
      /\ ToUpdate(c) \cap ToDelete(c) = {}
      /\ ToCreate(c) \subseteq Contents /\ ToUpdate(c) \subseteq Contents
      /\ ToDelete(c) \subseteq Contents
    BY DEF ToCreate, ToUpdate, ToDelete, Matched, Keys, NeedsUpdate, IncompleteUpdate,
           NeedsDelete, IncompleteDelete, Typed, TypeOK
<1>3. ASSUME NEW x \in Contents
      PROVE  /\ x \in ToCreate(c) => ~Existing(audit'[x]) /\ MayRetry(audit'[x])
             /\ x \notin ToCreate(c) => /\ Existing(audit'[x]) = Existing(audit[x])
                                        /\ MayRetry(audit'[x]) = MayRetry(audit[x])
                                        /\ audit'[x].catalog \in {audit[x].catalog, c}
    <2>1. /\ x \in ToCreate(c) => Fresh(audit'[x])
          /\ x \notin ToCreate(c) => /\ SameHistory(audit'[x], audit[x])
                                     /\ audit'[x].catalog \in {audit[x].catalog, c}
        BY <1>2, ExportedAudits DEF Typed, ExportCatalog
    <2>2. SameHistory(audit'[x], audit[x]) => /\ Existing(audit'[x]) = Existing(audit[x])
                                              /\ MayRetry(audit'[x]) = MayRetry(audit[x])
        BY SameExisting
    <2> QED
        BY <2>1, <2>2 DEF Fresh
<1>4. /\ \A x \in DOMAIN job.items["create"] : ~Existing(audit[x])
      /\ \A a \in {"update", "delete"} : \A x \in DOMAIN job.items[a] :
            Existing(audit[x]) /\ audit[x].catalog \notin job.todo
      /\ \A a \in Actions : DOMAIN job.items[a] \subseteq Contents
      /\ \A a \in Actions : \A x \in DOMAIN job.items[a] : MayRetry(audit[x])
    BY <1>1, JobParts DEF PayloadsDue, MayRetry, Typed, Payload
<1>5. /\ DOMAIN job'.items["create"] = DOMAIN job.items["create"] \cup C
      /\ DOMAIN job'.items["update"] = DOMAIN job.items["update"] \cup U
      /\ DOMAIN job'.items["delete"] = DOMAIN job.items["delete"] \cup D
    BY DEF Part, Actions
<1>6. ASSUME NEW x \in DOMAIN job'.items["create"]
      PROVE  ~Existing(audit'[x]) /\ MayRetry(audit'[x])
    BY <1>2, <1>3, <1>4, <1>5 DEF Actions
<1>7. ASSUME NEW x \in DOMAIN job'.items["update"] \cup DOMAIN job'.items["delete"]
      PROVE  Existing(audit'[x]) /\ MayRetry(audit'[x]) /\ audit'[x].catalog \notin job'.todo
    <2>1. x \in Contents /\ Existing(audit[x]) /\ MayRetry(audit[x])
          /\ (audit[x].catalog \notin job.todo \/ audit[x].catalog = c)
        BY <1>2, <1>4, <1>5 DEF Actions
    <2> QED
        BY <1>2, <1>3, <2>1
<1>8. DOMAIN job'.items["update"] \cap DOMAIN job'.items["delete"] = {}
    <2>1. DOMAIN job.items["update"] \cap DOMAIN job.items["delete"] = {}
        BY DEF PayloadsDue, Actions
    <2> QED
        BY <1>1, <1>2, <1>4, <1>5, <2>1
<1>9. \A x \in DOMAIN job'.items["create"] :
         x \notin DOMAIN job'.items["update"] \cup DOMAIN job'.items["delete"]
    BY <1>6, <1>7
<1>10. \A a, b \in Actions : a # b => DOMAIN job'.items[a] \cap DOMAIN job'.items[b] = {}
    BY <1>8, <1>9 DEF Actions
<1>11. \A a \in Actions : \A x \in DOMAIN job'.items[a] : audit'[x].errored # "recent"
    BY <1>6, <1>7 DEF MayRetry, Actions
<1> QED
    BY <1>6, <1>7, <1>10, <1>11 DEF PayloadsDue

LEMMA DueSend ==
    ASSUME Typed, PayloadsDue, NEW a \in Actions, NEW S \in SUBSET Contents, Send(a, S)
    PROVE  PayloadsDue'
<1>1. job.pc = a /\ S \subseteq DOMAIN job.items[a]
    BY ChunkParts DEF Send, ChunkSucceeds, ChunkFails
<1>2. PICK ok \in BOOLEAN : Answered(a, S, ok)
    BY DEF Send, ChunkSucceeds, ChunkFails
<1>3. \A x \in Contents \ S : audit'[x] = audit[x]
    BY <1>2 DEF Answered
<1>4. /\ job'.pc = a
      /\ DOMAIN job'.items[a] = DOMAIN job.items[a] \ S
      /\ \A b \in Actions : b # a => job'.items[b] = job.items[b]
    BY <1>1, <1>2, AnsweredItems
<1>5. ASSUME NEW b \in Actions
      PROVE  DOMAIN job'.items[b] \subseteq DOMAIN job.items[b] \cap (Contents \ S)
    BY <1>1, <1>4, JobParts DEF PayloadsDue, Typed, Payload
<1>6. \A b \in Actions : \A x \in DOMAIN job'.items[b] : audit'[x].errored # "recent"
    BY <1>3, <1>5 DEF PayloadsDue
<1>7. \A b, d \in Actions : b # d => DOMAIN job'.items[b] \cap DOMAIN job'.items[d] = {}
    <2> SUFFICES ASSUME NEW b \in Actions, NEW d \in Actions, b # d
                 PROVE  DOMAIN job'.items[b] \cap DOMAIN job'.items[d] = {}
        OBVIOUS
    <2>1. DOMAIN job.items[b] \cap DOMAIN job.items[d] = {}
        BY DEF PayloadsDue
    <2> QED
        BY <1>5, <2>1
<1> QED
    BY <1>4, <1>6, <1>7 DEF PayloadsDue, Actions

LEMMA DueEnd ==
    ASSUME Typed, PayloadsDue, NEW a \in Actions, EndAction(a)
    PROVE  PayloadsDue'
<1>1. audit' = audit
    BY DEF EndAction
<1>2. /\ \A b \in Actions : DOMAIN job'.items[b] \subseteq DOMAIN job.items[b]
      /\ job'.pc \in {"create", "update", "idle"}
      /\ job'.pc = "idle" => \A b \in Actions : DOMAIN job'.items[b] = {}
    BY EndActionItems, IdleItems DEF Actions
<1>3. \A b, d \in Actions : b # d => DOMAIN job'.items[b] \cap DOMAIN job'.items[d] = {}
    <2> SUFFICES ASSUME NEW b \in Actions, NEW d \in Actions, b # d
                 PROVE  DOMAIN job'.items[b] \cap DOMAIN job'.items[d] = {}
        OBVIOUS
    <2>1. DOMAIN job.items[b] \cap DOMAIN job.items[d] = {}
        BY DEF PayloadsDue
    <2> QED
        BY <1>2, <2>1
<1> QED
    BY <1>1, <1>2, <1>3 DEF PayloadsDue

\* A job that is not running has nothing to send.
LEMMA DueIdle ==
    ASSUME job' = IdleJob
    PROVE  PayloadsDue'
BY IdleItems DEF PayloadsDue, Actions

LEMMA DueStep ==
    ASSUME ~RemoveOrphans, Typed, PayloadsDue, [Next]_vars
    PROVE  PayloadsDue'
<1>1. CASE StartSync
    <2>1. audit' = audit /\ job'.items = job.items /\ job.pc = "idle" /\ job'.pc = "export"
        BY <1>1 DEF StartSync, Typed, Jobs
    <2>2. \A a \in Actions : DOMAIN job'.items[a] = {}
        BY <2>1 DEF PayloadsDue
    <2> QED
        BY <2>1, <2>2 DEF PayloadsDue, Actions
<1>2. CASE \E c \in Catalogs : ExportCatalog(c) \/ ExportAborts(c)
    BY <1>2, DueExport, DueIdle DEF ExportAborts
<1>3. CASE ExportOrphans
    <2>1. audit' = audit
        BY <1>3 DEF ExportOrphans
    <2>2. /\ job'.pc = "delete"
          /\ \A a \in Actions : DOMAIN job'.items[a] = DOMAIN job.items[a]
        BY <1>3, OrphansItems DEF Actions
    <2> QED
        BY <2>1, <2>2 DEF PayloadsDue
<1>4. CASE \E a \in Actions, S \in SUBSET Contents : Send(a, S)
    BY <1>4, DueSend
<1>5. CASE \E a \in Actions : EndAction(a)
    BY <1>5, DueEnd
<1>6. CASE JobDies
    BY <1>6, DueIdle DEF JobDies
<1>7. CASE MarkOrphans \/ Environment \/ UNCHANGED vars
    <2>1. UNCHANGED <<audit, job>>
        BY <1>7 DEF MarkOrphans, Environment, ChangeOffer, ChangeLink, ChangeContent, vars
    <2> QED
        BY <2>1 DEF PayloadsDue
<1>8. CASE \E x \in Contents : DayPasses(x)
    <2>1. job' = job /\ \A a \in Actions : DOMAIN job.items[a] = {}
        BY <1>8 DEF DayPasses, PayloadsDue
    <2> QED
        BY <1>8, <2>1 DEF PayloadsDue, DayPasses, Actions
<1> QED
    BY <1>1, <1>2, <1>3, <1>4, <1>5, <1>6, <1>7, <1>8 DEF Next, SyncStep

\* Nothing is created at the LMS that it holds, and no request is repeated within a day of
\* its failure, whichever catalog asks for it.  ALLOW_ORPHANED_CONTENT_REMOVAL breaks the
\* second half: an orphan whose creation has just failed is deleted at once.
THEOREM OnlyDueRequests == ~LateAnswers /\ ~RemoveOrphans => (Spec => RequestsAreDue)
<1> DEFINE I == Typed /\ NothingForgotten /\ PayloadsFit /\ PayloadsDue
           Due == \A a \in Actions, S \in SUBSET Contents :
                     Send(a, S) => \A x \in S : /\ a = "create" => remote[x] = Absent
                                               /\ audit[x].errored # "recent"
<1> SUFFICES ASSUME ~LateAnswers, ~RemoveOrphans PROVE Spec => RequestsAreDue
    OBVIOUS
<1>1. Init => I
    <2> SUFFICES ASSUME Init PROVE I
        OBVIOUS
    <2>1. (\A x \in Contents : remote[x] = Absent) /\ job = IdleJob
        BY DEF Init
    <2> QED
        BY <2>1, InitTyped, IdleItems DEF NothingForgotten, PayloadsFit, PayloadsDue, Actions
<1>2. I /\ [Next]_vars => I'
    BY TypedStep, ForgottenStep, DueStep
<1>3. I => Due
    <2> SUFFICES ASSUME I, NEW a \in Actions, NEW S \in SUBSET Contents, Send(a, S), NEW x \in S
                 PROVE  (a = "create" => remote[x] = Absent) /\ audit[x].errored # "recent"
        OBVIOUS
    <2>1. x \in DOMAIN job.items[a]
        BY ChunkParts DEF Send, ChunkSucceeds, ChunkFails
    <2> QED
        BY <2>1 DEF PayloadsFit, PayloadsDue
<1>4. I => [Due]_vars
    BY <1>3
<1> HIDE DEF I
<1> QED
    BY <1>1, <1>2, <1>4, PTL DEF Spec, RequestsAreDue
=============================================================================
