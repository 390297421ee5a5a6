---------------------------- MODULE Degreed2Client ----------------------------
(***************************************************************************)
(* The Degreed2 client (degreed2/client.py) and the command that assigns      *)
(* skills with it: customers have a course each, with the same key, in their  *)
(* own Degreed.  Degreed's id of a course is looked up and cached for a day,  *)
(* requests that are throttled (429) are made again a few times, and skills   *)
(* follow the content.  The tasks of several customers run at the same time.  *)
(***************************************************************************)
EXTENDS Naturals

CONSTANTS
    DegreedCustomers,
    DegreedRetries,     \* ENTERPRISE_DEGREED2_MAX_RETRIES
    DegreedMaxIds       \* bound: ids that are ever given to a course

ASSUME DegreedAssumption == DegreedRetries \in Nat /\ DegreedMaxIds \in Nat

VARIABLES
    degreedCourse,      \* each customer's course in Degreed: its id, or 0, and its payload
    degreedIds,         \* how many ids Degreed has given away: they are never used again
    degreedCache,       \* the id cached for the course key, or 0
    degreedCall         \* each customer's call

degreedVars == <<degreedCourse, degreedIds, degreedCache, degreedCall>>

DegreedId == 0 .. DegreedMaxIds
DegreedPayload == {"none", "old", "new"}
DegreedAnswers == {"ok", "failed"}

DegreedTypeOK ==
    /\ degreedCourse \in [DegreedCustomers -> [id : DegreedId, payload : DegreedPayload]]
    /\ degreedIds \in DegreedId /\ degreedCache \in DegreedId
    /\ degreedCall \in [DegreedCustomers ->
           [op : {"create", "update", "delete", "assign"}, id : DegreedId, attempts : 0 .. DegreedRetries,
            done : DegreedAnswers,
            pc : {"post", "fetch", "patch", "delete", "catalog", "fetchSkills", "skills"} \cup DegreedAnswers]]

DegreedInit ==
    /\ degreedCourse = [c \in DegreedCustomers |-> [id |-> 0, payload |-> "none"]]
    /\ degreedIds = 0 /\ degreedCache = 0
    /\ degreedCall = [c \in DegreedCustomers |->
           [op |-> "delete", id |-> 0, attempts |-> 0, done |-> "ok", pc |-> "failed"]]

-----------------------------------------------------------------------------
(* Requests *)

DegreedGoto(c, pc) == degreedCall' = [degreedCall EXCEPT ![c].pc = pc, ![c].attempts = 0]

\* Skills come last: what happens to them does not change the status of the content.
DegreedThenSkills(c, status) ==
    degreedCall' = [degreedCall EXCEPT ![c].pc = "catalog", ![c].done = status, ![c].attempts = 0]

\* The payload of a creation or an update is a new one.
DegreedBegin(c, op) ==
    /\ degreedCall[c].pc \in DegreedAnswers
    /\ degreedCall' = [degreedCall EXCEPT ![c] =
           [op |-> op, id |-> 0, attempts |-> 0, done |-> "ok",
            pc |-> CASE op = "create" -> "post" [] op = "assign" -> "fetchSkills" [] OTHER -> "fetch"]]
    /\ degreedCourse' = [degreedCourse EXCEPT ![c].payload =
           IF @ = "new" /\ op \in {"create", "update"} THEN "old" ELSE @]
    /\ UNCHANGED <<degreedIds, degreedCache>>

\* A request is about to be made: an id that is in the cache needs none.
DegreedRequesting(c) ==
    /\ degreedCall[c].pc \in {"post", "fetch", "patch", "delete", "fetchSkills", "skills"}
    /\ degreedCall[c].pc \in {"fetch", "fetchSkills"} => degreedCache = 0

\* Every request asks for a token first, when the last one has expired; without one it
\* raises, which the assignment of skills swallows.
DegreedNoToken(c) ==
    /\ DegreedRequesting(c)
    /\ DegreedGoto(c, IF degreedCall[c].pc \in {"fetchSkills", "skills"} THEN degreedCall[c].done ELSE "failed")
    /\ UNCHANGED <<degreedCourse, degreedIds, degreedCache>>

\* Fault: one attempt too many.
DegreedThrottled_OneMore(c) ==
    /\ DegreedRequesting(c)
    /\ degreedCall[c].attempts <= DegreedRetries
    /\ degreedCall' = [degreedCall EXCEPT ![c].attempts = @ + 1]
    /\ UNCHANGED <<degreedCourse, degreedIds, degreedCache>>

\* _get, _post, _patch and _delete: a throttled request is made again after a pause, up
\* to the limit; after that its status is 429, like any other error.
DegreedThrottled(c) ==
    /\ DegreedRequesting(c)
    /\ degreedCall[c].attempts < DegreedRetries
    /\ degreedCall' = [degreedCall EXCEPT ![c].attempts = @ + 1]
    /\ UNCHANGED <<degreedCourse, degreedIds, degreedCache>>

\* create: 201, or 409 and the course is updated instead, or an error; the answer to a
\* creation may get lost.
DegreedPost(c) ==
    /\ degreedCall[c].pc = "post"
    /\ \/ DegreedGoto(c, "failed") /\ UNCHANGED <<degreedCourse, degreedIds>>
       \/ degreedCourse[c].id # 0 /\ DegreedGoto(c, "fetch") /\ UNCHANGED <<degreedCourse, degreedIds>>
       \/ /\ degreedCourse[c].id = 0 /\ degreedIds < DegreedMaxIds
          /\ degreedIds' = degreedIds + 1
          /\ degreedCourse' = [degreedCourse EXCEPT ![c] =
                                   [id |-> degreedIds + 1, payload |-> "new"]]
          /\ DegreedThenSkills(c, "ok") \/ DegreedGoto(c, "failed")
    /\ UNCHANGED degreedCache

DegreedAfterFetch(c) ==
    CASE degreedCall[c].pc = "fetchSkills" -> "skills"
      [] degreedCall[c].op = "delete" -> "delete"
      [] OTHER -> "patch"

\* fetch_degreed_course_id: the id in the cache, whoever put it there, or the one
\* Degreed has, which is put there.  Skills swallow a ClientError, nothing else.
DegreedFetch(c) ==
    /\ degreedCall[c].pc \in {"fetch", "fetchSkills"}
    /\ LET found(i) == degreedCall' = [degreedCall EXCEPT ![c].id = i, ![c].attempts = 0,
                                                          ![c].pc = DegreedAfterFetch(c)]
       IN  \/ degreedCache # 0 /\ found(degreedCache) /\ UNCHANGED degreedCache
           \/ /\ degreedCache = 0 /\ degreedCourse[c].id # 0
              /\ found(degreedCourse[c].id)
              /\ degreedCache' = degreedCourse[c].id
           \/ /\ degreedCache = 0
              /\ DegreedGoto(c, "failed")
                    \/ (degreedCall[c].pc = "fetchSkills" /\ DegreedGoto(c, degreedCall[c].done))
              /\ UNCHANGED degreedCache
    /\ UNCHANGED <<degreedCourse, degreedIds>>

\* The id is one this customer's Degreed knows.
DegreedKnown(c) == degreedCall[c].id = degreedCourse[c].id

\* Fault: the status of the content is not the one its request got.
DegreedPatch_Ok(c) ==
    /\ degreedCall[c].pc = "patch"
    /\ DegreedThenSkills(c, "ok")
    /\ degreedCourse' = [degreedCourse EXCEPT ![c].payload = IF DegreedKnown(c) THEN "new" ELSE @]
    /\ UNCHANGED <<degreedIds, degreedCache>>

\* update: whatever its status, skills follow.
DegreedPatch(c) ==
    /\ degreedCall[c].pc = "patch"
    /\ \/ /\ DegreedKnown(c)
          /\ degreedCourse' = [degreedCourse EXCEPT ![c].payload = "new"]
          /\ DegreedThenSkills(c, "ok") \/ DegreedGoto(c, "failed")
       \/ (DegreedThenSkills(c, "failed") \/ DegreedGoto(c, "failed")) /\ UNCHANGED degreedCourse
    /\ UNCHANGED <<degreedIds, degreedCache>>

\* The cache is not told.
DegreedDelete(c) ==
    /\ degreedCall[c].pc = "delete"
    /\ \/ /\ DegreedKnown(c)
          /\ degreedCourse' = [degreedCourse EXCEPT ![c] = [id |-> 0, payload |-> "none"]]
          /\ DegreedGoto(c, "ok") \/ DegreedGoto(c, "failed")
       \/ DegreedGoto(c, "failed") /\ UNCHANGED degreedCourse
    /\ UNCHANGED <<degreedIds, degreedCache>>

\* _fetch_and_assign_skills_to_course asks the catalog first, outside of the try; a
\* course may have no skills.
DegreedCatalog(c) ==
    /\ degreedCall[c].pc = "catalog"
    /\ \E pc \in {"failed", degreedCall[c].done, "fetchSkills"} : DegreedGoto(c, pc)
    /\ UNCHANGED <<degreedCourse, degreedIds, degreedCache>>

\* The PATCH of the skills: its errors are swallowed, those of the connection too.
DegreedSkills(c) ==
    /\ degreedCall[c].pc = "skills"
    /\ DegreedGoto(c, degreedCall[c].done)
    /\ UNCHANGED <<degreedCourse, degreedIds, degreedCache>>

\* A day passes.
DegreedCacheExpires ==
    /\ degreedCache' = 0
    /\ UNCHANGED <<degreedCourse, degreedIds, degreedCall>>

DegreedStep(c) ==
    \/ DegreedNoToken(c) \/ DegreedThrottled(c) \/ DegreedPost(c) \/ DegreedFetch(c) \/ DegreedPatch(c)
    \/ DegreedDelete(c) \/ DegreedCatalog(c) \/ DegreedSkills(c)

DegreedNext ==
    \/ \E c \in DegreedCustomers, op \in {"create", "update", "delete", "assign"} : DegreedBegin(c, op)
    \/ \E c \in DegreedCustomers : DegreedStep(c)
    \/ DegreedCacheExpires

DegreedSpec == DegreedInit /\ [][DegreedNext]_degreedVars

-----------------------------------------------------------------------------
(* Properties *)

\* Content that is answered without error is what Degreed has: created or updated, it
\* is new; deleted, it is gone; whoever's id was in the cache.
DegreedOkMeansDone ==
    [][\A c \in DegreedCustomers :
          degreedCall[c].pc \notin DegreedAnswers /\ degreedCall'[c].pc = "ok" =>
              CASE degreedCall[c].op = "delete" -> degreedCourse'[c].id = 0
                [] degreedCall[c].op = "assign" -> TRUE
                [] OTHER -> degreedCourse'[c].payload = "new"]_degreedVars

\* "Fetch the 'id' of a course ... from cache first" (fetch_degreed_course_id): the id
\* is the one of the customer's course.  Fails: the cache is not the customer's own, and
\* it outlives the course.
DegreedOwnId ==
    \A c \in DegreedCustomers : degreedCall[c].pc \in {"patch", "delete", "skills"} => DegreedKnown(c)

\* What becomes of the skills does not fail the content.  Fails: the catalog's and the
\* connection's errors are not swallowed.
DegreedSkillsNeverFail ==
    [][\A c \in DegreedCustomers :
          degreedCall[c].pc \in {"catalog", "fetchSkills"} /\ degreedCall'[c].pc = "failed"
              => degreedCall[c].done = "failed" \/ degreedCall[c].op = "assign"]_degreedVars
=============================================================================
