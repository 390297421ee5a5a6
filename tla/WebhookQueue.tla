---------------------------- MODULE WebhookQueue ----------------------------
(***************************************************************************)
(* The outbound webhook queue of one enterprise customer: events are        *)
(* routed to rows of WebhookTransmissionQueue (services/webhook_routing.py),*)
(* each new row is handed to Celery (handlers.py, tasks.py) and the task    *)
(* process_webhook_queue posts it, retries it and saves what happened.      *)
(*                                                                         *)
(* A worker keeps a copy of the row in memory between its reads and its     *)
(* writes, so the row may change under it.  Every database statement, every *)
(* publication of a message and every HTTP request is an action of its own. *)
(***************************************************************************)
EXTENDS Naturals

CONSTANTS
    Keys,             \* deduplication keys (user, course, event type, day)
    EnrollmentKeys,   \* those of event type 'course_enrollment'
    Regions,          \* user regions, OtherRegion among them
    OtherRegion,      \* the region 'OTHER'
    NoConfig,         \* "no active configuration", not a region
    RowIds,           \* primary keys of the queue table
    Routers,          \* processes that route events: bus consumers, enrichment tasks
    Workers,          \* Celery workers of the webhook queue
    RetryLimits,      \* values webhook_retry_attempts may have
    MaxRetries,       \* the largest its validator admits
    UniqueIndex,      \* does the database build the conditional unique index?
    PromptSave,       \* does a worker save before its retry's countdown elapses?
    MaxFaults,        \* bound: process crashes, broker and database errors
    MaxDuplicates,    \* bound: messages the broker delivers once more
    MaxCancels,       \* bound: rows an operator cancels in the admin
    MaxEdits          \* bound: edits of a webhook configuration

ASSUME KeysAssumption == Keys # {} /\ RowIds # {} /\ EnrollmentKeys \subseteq Keys
ASSUME RegionsAssumption == OtherRegion \in Regions /\ NoConfig \notin Regions
ASSUME RetriesAssumption ==
    MaxRetries \in Nat /\ 3 <= MaxRetries /\ RetryLimits \subseteq 0..MaxRetries
ASSUME FlagsAssumption == UniqueIndex \in BOOLEAN /\ PromptSave \in BOOLEAN
ASSUME BoundsAssumption ==
    /\ MaxFaults \in Nat /\ MaxDuplicates \in Nat
    /\ MaxCancels \in Nat /\ MaxEdits \in Nat

VARIABLES
    row,        \* the queue table
    ready,      \* ready[i]: messages process_webhook_queue(i) a worker may take
    delayed,    \* delayed[i]: retries of i whose countdown is running
    config,     \* the webhook configuration of each region
    router,     \* each router's progress in route_webhook_by_region
    worker,     \* each worker's progress in process_webhook_queue
    form,       \* the row an operator has open in the admin
    posts,      \* history: requests sent for a row
    accepted,   \* history: requests the customer's endpoint took in
    spent       \* how much of each bound is used

vars == <<row, ready, delayed, config, router, worker, form, posts, accepted, spent>>
-----------------------------------------------------------------------------
Active == {"pending", "processing", "success"}
Status == Active \cup {"failed", "cancelled"}

Config == [active : BOOLEAN, retries : RetryLimits, enrolls : BOOLEAN]

RouterPC == {"idle", "create", "publish"}
WorkerPC == {"idle", "mark", "lookup", "send", "rejected", "raised", "save"}

AKey == CHOOSE k \in Keys : TRUE
NoRow == [key |-> AKey, region |-> OtherRegion,
          status |-> "none", attempts |-> 0, delay |-> 0]
AnId == CHOOSE i \in RowIds : TRUE

IdleRouter == [pc |-> "idle", id |-> AnId, item |-> NoRow]
IdleWorker == [pc |-> "idle", id |-> AnId, item |-> NoRow, limit |-> 0]
NoForm == [open |-> FALSE, id |-> AnId, item |-> NoRow]

\* The configuration used for a region: its own if active, else OTHER's.
Lookup(r) == IF config[r].active THEN r
             ELSE IF config[OtherRegion].active THEN OtherRegion ELSE NoConfig

\* The conditional unique index refuses to store row i with this key and status.
Conflict(i, k, s) ==
    /\ UniqueIndex
    /\ s \in Active
    /\ \E j \in RowIds \ {i} : row[j].key = k /\ row[j].status \in Active

\* Fault in Backoff: the cap at an hour is forgotten.
Backoff_Uncapped(n) == 15 * 2^n

\* The countdown of the retry that follows attempt n, in seconds.
\* (30 * 2^(n-1), capped at an hour.)
Backoff(n) == LET d == 15 * 2^n IN IF d < 3600 THEN d ELSE 3600
Delays == {0} \cup {Backoff(n) : n \in 0..MaxRetries}

\* "none" is the status of a primary key that is not in the table yet.  A row
\* keeps, of next_retry_at, the seconds it lay ahead when it was set.
Row == [key : Keys, region : Regions, status : Status \cup {"none"},
        attempts : Nat, delay : Delays]

RouterState == [pc : RouterPC, id : RowIds, item : Row]
WorkerState == [pc : WorkerPC, id : RowIds, item : Row, limit : 0..MaxRetries]
FormState == [open : BOOLEAN, id : RowIds, item : Row]

\* webhook_retry_attempts when the configuration could not be read.
DefaultRetries == 3

Bounds == {"faults", "duplicates", "cancels", "edits"}
Spend(what, bound) ==
    /\ spent[what] < bound
    /\ spent' = [spent EXCEPT ![what] = @ + 1]
-----------------------------------------------------------------------------
Init ==
    /\ row = [i \in RowIds |-> NoRow]
    /\ ready = [i \in RowIds |-> 0]
    /\ delayed = [i \in RowIds |-> 0]
    /\ config \in [Regions -> Config]
    /\ router = [r \in Routers |-> IdleRouter]
    /\ worker = [w \in Workers |-> IdleWorker]
    /\ form = NoForm
    /\ posts = [i \in RowIds |-> 0]
    /\ accepted = [i \in RowIds |-> 0]
    /\ spent = [b \in Bounds |-> 0]
-----------------------------------------------------------------------------
(* Routing an event.                                                       *)

\* The configuration is found and the get of get_or_create matches no row.  In
\* every other case (no configuration, enrollments disabled, one row or several
\* rows with the key) the function returns or raises and nothing changes.
RouteEvent(r, k, region) ==
    /\ router[r].pc = "idle"
    /\ Lookup(region) # NoConfig
    /\ k \in EnrollmentKeys => config[Lookup(region)].enrolls
    /\ \A i \in RowIds : row[i].status # "none" => row[i].key # k
    /\ router' = [router EXCEPT ![r] =
                    [pc |-> "create", id |-> AnId,
                     item |-> [key |-> k, region |-> region, status |-> "pending",
                               attempts |-> 0, delay |-> 0]]]
    /\ UNCHANGED <<row, ready, delayed, config, worker, form, posts, accepted, spent>>

\* The create of get_or_create inserts a row.
InsertRow(r) ==
    /\ router[r].pc = "create"
    /\ \E i \in RowIds :
         /\ row[i].status = "none"
         /\ ~Conflict(i, router[r].item.key, "pending")
         /\ row' = [row EXCEPT ![i] = router[r].item]
         /\ router' = [router EXCEPT ![r] = [@ EXCEPT !.pc = "publish", !.id = i]]
    /\ UNCHANGED <<ready, delayed, config, worker, form, posts, accepted, spent>>

\* Fault in InsertRefused: "if created" is forgotten, the row found is published.
InsertRefused_Published(r) ==
    /\ router[r].pc = "create"
    /\ \E i, j \in RowIds :
         /\ row[i].status = "none" /\ Conflict(i, router[r].item.key, "pending")
         /\ row[j].key = router[r].item.key /\ row[j].status \in Active
         /\ router' = [router EXCEPT ![r] = [@ EXCEPT !.pc = "publish", !.id = j]]
    /\ UNCHANGED <<row, ready, delayed, config, worker, form, posts, accepted, spent>>

\* The create violates the index: get_or_create fetches the other row instead.
InsertRefused(r) ==
    /\ router[r].pc = "create"
    /\ \E i \in RowIds :
         row[i].status = "none" /\ Conflict(i, router[r].item.key, "pending")
    /\ router' = [router EXCEPT ![r] = IdleRouter]
    /\ UNCHANGED <<row, ready, delayed, config, worker, form, posts, accepted, spent>>

\* created is True: process_webhook_queue.delay(queue_item.id).
PublishTask(r) ==
    /\ router[r].pc = "publish"
    /\ ready' = [ready EXCEPT ![router[r].id] = @ + 1]
    /\ router' = [router EXCEPT ![r] = IdleRouter]
    /\ UNCHANGED <<row, delayed, config, worker, form, posts, accepted, spent>>

\* The process dies, or the insert or the delay raises and is only logged.
RouterFault(r) ==
    /\ router[r].pc # "idle"
    /\ Spend("faults", MaxFaults)
    /\ router' = [router EXCEPT ![r] = IdleRouter]
    /\ UNCHANGED <<row, ready, delayed, config, worker, form, posts, accepted>>
-----------------------------------------------------------------------------
(* process_webhook_queue.                                                  *)

\* Worker w goes on at pc, with this copy of its row and this retry limit.
GoOn(w, pc, item, limit) ==
    [worker EXCEPT ![w] = [pc |-> pc, id |-> worker[w].id, item |-> item, limit |-> limit]]

\* Worker w sets the status of its copy of the row and goes on at pc.
Decide(w, status, pc) ==
    GoOn(w, pc, [worker[w].item EXCEPT !.status = status], worker[w].limit)

\* A worker takes a message and reads the row; a settled row is left alone.
FetchRow(w, i) ==
    /\ worker[w].pc = "idle"
    /\ ready[i] > 0
    /\ ready' = [ready EXCEPT ![i] = @ - 1]
    /\ worker' = IF row[i].status \in {"success", "cancelled"} THEN worker
                 ELSE [worker EXCEPT ![w] =
                         [pc |-> "mark", id |-> i, item |-> row[i], limit |-> 0]]
    /\ UNCHANGED <<row, delayed, config, router, form, posts, accepted, spent>>

\* save(update_fields): the counter is incremented in memory, then written.
\* An IntegrityError here is outside the try and ends the task.
MarkProcessing(w) ==
    /\ worker[w].pc = "mark"
    /\ LET i == worker[w].id
           marked(r) == [r EXCEPT !.status = "processing",
                                  !.attempts = worker[w].item.attempts + 1]
       IN IF Conflict(i, row[i].key, "processing")
          THEN /\ worker' = [worker EXCEPT ![w] = IdleWorker]
               /\ UNCHANGED row
          ELSE /\ row' = [row EXCEPT ![i] = marked(row[i])]
               /\ worker' = GoOn(w, "lookup", marked(worker[w].item), 0)
    /\ UNCHANGED <<ready, delayed, config, router, form, posts, accepted, spent>>

\* The configuration in force now, not the one the event was routed by.  Without
\* one the failure is permanent: no retry is scheduled.
LookupConfig(w) ==
    /\ worker[w].pc = "lookup"
    /\ LET c == Lookup(worker[w].item.region)
       IN worker' = IF c = NoConfig
                    THEN Decide(w, "failed", "save")
                    ELSE GoOn(w, "send", worker[w].item, config[c].retries)
    /\ UNCHANGED <<row, ready, delayed, config, router, form, posts, accepted, spent>>

\* Reading the configuration raises: config is unset and 3 retries are allowed.
LookupRaises(w) ==
    /\ worker[w].pc = "lookup"
    /\ Spend("faults", MaxFaults)
    /\ worker' = GoOn(w, "raised", [worker[w].item EXCEPT !.status = "failed"],
                       DefaultRetries)
    /\ UNCHANGED <<row, ready, delayed, config, router, form, posts, accepted>>

\* The endpoint answers 2xx.
SendAccepted(w) ==
    /\ worker[w].pc = "send"
    /\ posts' = [posts EXCEPT ![worker[w].id] = @ + 1]
    /\ accepted' = [accepted EXCEPT ![worker[w].id] = @ + 1]
    /\ worker' = Decide(w, "success", "save")
    /\ UNCHANGED <<row, ready, delayed, config, router, form, spent>>

SendRejected_Success(w) ==
    /\ worker[w].pc = "send"
    /\ posts' = [posts EXCEPT ![worker[w].id] = @ + 1]
    /\ worker' = Decide(w, "success", "save")
    /\ UNCHANGED <<row, ready, delayed, config, router, form, accepted, spent>>

\* The endpoint answers anything else.
SendRejected(w) ==
    /\ worker[w].pc = "send"
    /\ posts' = [posts EXCEPT ![worker[w].id] = @ + 1]
    /\ worker' = Decide(w, "failed", "rejected")
    /\ UNCHANGED <<row, ready, delayed, config, router, form, accepted, spent>>

\* No token could be had, or no answer came: the endpoint may have taken the
\* request in, or never seen it.
SendRaises(w) ==
    /\ worker[w].pc = "send"
    /\ \E sent, taken \in {0, 1} :
         /\ taken <= sent
         /\ posts' = [posts EXCEPT ![worker[w].id] = @ + sent]
         /\ accepted' = [accepted EXCEPT ![worker[w].id] = @ + taken]
    /\ worker' = Decide(w, "failed", "raised")
    /\ UNCHANGED <<row, ready, delayed, config, router, form, spent>>

\* Fault in ScheduleRetry: next_retry_at is set but no task is queued; the
\* attempts are not compared with the limit.
ScheduleRetry_Unpublished(w) ==
    /\ worker[w].pc \in {"rejected", "raised"}
    /\ worker[w].item.attempts <= worker[w].limit
    /\ worker' = Decide(w, "pending", "save")
    /\ UNCHANGED <<row, ready, delayed, config, router, form, posts, accepted, spent>>

ScheduleRetry_Unlimited(w) ==
    /\ worker[w].pc \in {"rejected", "raised"}
    /\ delayed' = [delayed EXCEPT ![worker[w].id] = @ + 1]
    /\ worker' = Decide(w, "pending", "save")
    /\ UNCHANGED <<row, ready, config, router, form, posts, accepted, spent>>

\* _schedule_retry: the retry is published first, the row is saved later.
ScheduleRetry(w) ==
    /\ worker[w].pc \in {"rejected", "raised"}
    /\ worker[w].item.attempts <= worker[w].limit
    /\ delayed' = [delayed EXCEPT ![worker[w].id] = @ + 1]
    /\ worker' = GoOn(w, "save", [worker[w].item EXCEPT
                                 !.status = "pending",
                                 !.delay = Backoff(worker[w].item.attempts)],
                       worker[w].limit)
    /\ UNCHANGED <<row, ready, config, router, form, posts, accepted, spent>>

\* Fault in GiveUp: apply_async stands outside the if; the task ends unsaved.
GiveUp_Requeued(w) ==
    /\ worker[w].pc \in {"rejected", "raised"}
    /\ worker[w].item.attempts > worker[w].limit
    /\ delayed' = [delayed EXCEPT ![worker[w].id] = @ + 1]
    /\ worker' = Decide(w, "failed", "save")
    /\ UNCHANGED <<row, ready, config, router, form, posts, accepted, spent>>

GiveUp_Unsaved(w) ==
    /\ worker[w].pc \in {"rejected", "raised"}
    /\ worker[w].item.attempts > worker[w].limit
    /\ worker' = [worker EXCEPT ![w] = IdleWorker]
    /\ UNCHANGED <<row, ready, delayed, config, router, form, posts, accepted, spent>>

\* _schedule_retry when no attempts remain: the row stays failed.
GiveUp(w) ==
    /\ worker[w].pc \in {"rejected", "raised"}
    /\ worker[w].item.attempts > worker[w].limit
    /\ worker' = Decide(w, "failed", "save")
    /\ UNCHANGED <<row, ready, delayed, config, router, form, posts, accepted, spent>>

\* apply_async raises.  After an HTTP answer the except clause tries once more;
\* from the except clause itself the exception ends the task, unsaved.
RetryRaises(w) ==
    /\ worker[w].pc \in {"rejected", "raised"}
    /\ worker[w].item.attempts <= worker[w].limit
    /\ Spend("faults", MaxFaults)
    /\ worker' = IF worker[w].pc = "rejected" THEN Decide(w, "failed", "raised")
                  ELSE [worker EXCEPT ![w] = IdleWorker]
    /\ UNCHANGED <<row, ready, delayed, config, router, form, posts, accepted>>

\* queue_item.save(): every field is written from the copy in memory.
SaveRow(w) ==
    /\ worker[w].pc = "save"
    /\ LET i == worker[w].id
           item == worker[w].item
       IN row' = IF Conflict(i, item.key, item.status) THEN row
                 ELSE [row EXCEPT ![i] = item]
    /\ worker' = [worker EXCEPT ![w] = IdleWorker]
    /\ UNCHANGED <<ready, delayed, config, router, form, posts, accepted, spent>>

\* The worker process dies, or its save raises; the message is already acknowledged.
WorkerFault(w) ==
    /\ worker[w].pc # "idle"
    /\ Spend("faults", MaxFaults)
    /\ worker' = [worker EXCEPT ![w] = IdleWorker]
    /\ UNCHANGED <<row, ready, delayed, config, router, form, posts, accepted>>
-----------------------------------------------------------------------------
(* The broker, and the operator in the Django admin.                        *)

\* A retry becomes deliverable.  The shortest countdown is 30 seconds: under
\* PromptSave the worker that published the retry has saved by then.
CountdownElapses(i) ==
    /\ delayed[i] > 0
    /\ PromptSave => \A w \in Workers : ~(worker[w].pc = "save" /\ worker[w].id = i)
    /\ delayed' = [delayed EXCEPT ![i] = @ - 1]
    /\ ready' = [ready EXCEPT ![i] = @ + 1]
    /\ UNCHANGED <<row, config, router, worker, form, posts, accepted, spent>>

\* The broker delivers a message again.
Redeliver(i) ==
    /\ ready[i] > 0
    /\ Spend("duplicates", MaxDuplicates)
    /\ ready' = [ready EXCEPT ![i] = @ + 1]
    /\ UNCHANGED <<row, delayed, config, router, worker, form, posts, accepted>>

\* The change form of a row is rendered with the values it has now ...
OpenForm(i) ==
    /\ ~form.open
    /\ row[i].status # "none"
    /\ spent["cancels"] < MaxCancels
    /\ form' = [open |-> TRUE, id |-> i, item |-> row[i]]
    /\ UNCHANGED <<row, ready, delayed, config, router, worker, posts, accepted, spent>>

\* ... and saved with those values and the status 'cancelled'.
SubmitCancel ==
    /\ form.open
    /\ Spend("cancels", MaxCancels)
    /\ row' = [row EXCEPT ![form.id] = [form.item EXCEPT !.status = "cancelled"]]
    /\ form' = NoForm
    /\ UNCHANGED <<ready, delayed, config, router, worker, posts, accepted>>

EditConfig(r, c) ==
    /\ config[r] # c
    /\ Spend("edits", MaxEdits)
    /\ config' = [config EXCEPT ![r] = c]
    /\ UNCHANGED <<row, ready, delayed, router, worker, form, posts, accepted>>
-----------------------------------------------------------------------------
RouterStep(r) ==
    \/ InsertRow(r) \/ InsertRefused(r) \/ PublishTask(r)

WorkerStep(w) ==
    \/ MarkProcessing(w) \/ LookupConfig(w)
    \/ SendAccepted(w) \/ SendRejected(w) \/ SendRaises(w)
    \/ ScheduleRetry(w) \/ GiveUp(w) \/ SaveRow(w)

Fault ==
    \/ \E r \in Routers : RouterFault(r)
    \/ \E w \in Workers : LookupRaises(w) \/ RetryRaises(w) \/ WorkerFault(w)
    \/ \E i \in RowIds : Redeliver(i)

Operator ==
    \/ \E i \in RowIds : OpenForm(i)
    \/ SubmitCancel
    \/ \E r \in Regions, c \in Config : EditConfig(r, c)

Next ==
    \/ \E r \in Routers, k \in Keys, region \in Regions : RouteEvent(r, k, region)
    \/ \E r \in Routers : RouterStep(r)
    \/ \E w \in Workers, i \in RowIds : FetchRow(w, i)
    \/ \E w \in Workers : WorkerStep(w)
    \/ \E i \in RowIds : CountdownElapses(i)
    \/ Fault
    \/ Operator

Spec == Init /\ [][Next]_vars

\* Celery keeps its workers running and delivers every message to one of them;
\* a router that has begun goes on.  Events, faults and operators owe nothing.
Fairness ==
    /\ \A r \in Routers : WF_vars(RouterStep(r))
    /\ \A w \in Workers : WF_vars(WorkerStep(w))
    /\ \A i \in RowIds : WF_vars(\E w \in Workers : FetchRow(w, i))
    /\ \A i \in RowIds : WF_vars(CountdownElapses(i))

FairSpec == Spec /\ Fairness
-----------------------------------------------------------------------------
TypeOK ==
    /\ row \in [RowIds -> Row]
    /\ ready \in [RowIds -> Nat]
    /\ delayed \in [RowIds -> Nat]
    /\ config \in [Regions -> Config]
    /\ router \in [Routers -> RouterState]
    /\ worker \in [Workers -> WorkerState]
    /\ form \in FormState
    /\ posts \in [RowIds -> Nat]
    /\ accepted \in [RowIds -> Nat]
    /\ spent \in [Bounds -> Nat]

Open(i) == row[i].status \in {"pending", "processing"}
Busy(w, i) == worker[w].pc # "idle" /\ worker[w].id = i

\* What will still move row i: a message, a running task, or a router about to
\* publish.
HasCarrier(i) ==
    \/ ready[i] > 0 \/ delayed[i] > 0
    \/ \E w \in Workers : Busy(w, i)
    \/ \E r \in Routers : router[r].pc = "publish" /\ router[r].id = i

\* While nothing fails, an unfinished row is never left without a message or a
\* task, whatever the broker delivers twice: there is no sweeper that would find
\* it by next_retry_at.
NoRowStranded == \A i \in RowIds : Open(i) => HasCarrier(i)

\* Two tasks never work on one row: nothing in process_webhook_queue excludes
\* them (it takes no lock and does not test for 'processing'), only the flow of
\* messages does.
OneWorkerPerRow ==
    \A i \in RowIds : \A v, w \in Workers : Busy(v, i) /\ Busy(w, i) => v = w

\* attempt_count, kept by read-modify-write, never falls behind the requests
\* sent, so no row is sent more often than the retries configured allow.
AttemptsCountPosts ==
    \A i \in RowIds : posts[i] <= row[i].attempts /\ row[i].attempts <= MaxRetries + 1

\* A row says 'success' only if the endpoint did take the request in.
SuccessWasAccepted ==
    \A i \in RowIds : row[i].status = "success" => accepted[i] > 0

\* A row that has succeeded or failed for good is not touched again.
SettledForGood ==
    [][\A i \in RowIds : row[i].status \in {"success", "failed"} => row'[i] = row[i]]_vars

\* Each retry saved lies further ahead than the one before it, until the delay is
\* an hour, and none lies further: the attempts that set it survive in the row.
BackoffGrows ==
    [][\A i \in RowIds : row[i].status = "processing" /\ row'[i].status = "pending" =>
          /\ row'[i].delay > row[i].delay \/ row'[i].delay = 3600
          /\ row'[i].delay <= 3600]_vars

\* Every queued row is eventually settled.
EveryRowSettles == \A i \in RowIds : Open(i) ~> ~Open(i)
-----------------------------------------------------------------------------
(* The inductive invariant behind the properties above, for a broker that   *)
(* delivers each message once, workers that save within the countdown and   *)
(* operators who cancel nothing.                                            *)

Quiet(i) == ready[i] = 0 /\ delayed[i] = 0

\* At most one message stands for a row, none for a row that is settled.
MessageOnce ==
    \A i \in RowIds : ready[i] + delayed[i] <= 1 /\ (~Quiet(i) => Open(i))

\* No message stands for a row a task works on, except the retry the task has
\* published and not yet saved; and the row is open.
TaskHoldsRow ==
    \A w \in Workers : worker[w].pc # "idle" =>
        /\ Open(worker[w].id)
        /\ ready[worker[w].id] = 0
        /\ delayed[worker[w].id] =
              IF worker[w].pc = "save" /\ worker[w].item.status = "pending" THEN 1 ELSE 0

\* No message stands for a row its router has still to publish, and no task has it.
RouterHoldsRow ==
    \A r \in Routers : router[r].pc = "publish" =>
        /\ Quiet(router[r].id)
        /\ row[router[r].id].status = "pending"
        /\ row[router[r].id].attempts = 0
        /\ \A w \in Workers : ~Busy(w, router[r].id)

OneRouterPerRow ==
    \A q, r \in Routers :
        router[q].pc = "publish" /\ router[r].pc = "publish" /\ router[q].id = router[r].id
            => q = r

\* The copy a worker holds is the row, but for what it has decided and not saved.
CopyIsFresh ==
    \A w \in Workers : worker[w].pc # "idle" =>
        /\ worker[w].item.key = row[worker[w].id].key
        /\ worker[w].item.attempts = row[worker[w].id].attempts
        /\ worker[w].pc = "mark" => worker[w].item = row[worker[w].id]
        /\ worker[w].pc # "mark" => row[worker[w].id].status = "processing"
        /\ worker[w].pc \in {"rejected", "raised"} => worker[w].item.status = "failed"
        /\ worker[w].pc = "save" => worker[w].item.status \in {"pending", "success", "failed"}

\* A message or a router still to be worked off leaves room for one attempt more.
RoomForAttempt ==
    /\ \A i \in RowIds :
         /\ row[i].attempts <= MaxRetries + 1
         /\ row[i].status = "none" => row[i].attempts = 0
         /\ ~Quiet(i) => row[i].attempts <= MaxRetries
    /\ \A w \in Workers : worker[w].pc = "mark" => worker[w].item.attempts <= MaxRetries

\* A request still to be sent is already counted.
PostsCounted ==
    /\ \A i \in RowIds : posts[i] <= row[i].attempts
    /\ \A w \in Workers : worker[w].pc \in {"lookup", "send"} =>
         posts[worker[w].id] < worker[w].item.attempts

\* Success, saved or about to be, was accepted.
AcceptedBeforeSuccess ==
    /\ SuccessWasAccepted
    /\ \A w \in Workers : worker[w].pc = "save" /\ worker[w].item.status = "success" =>
         accepted[worker[w].id] > 0

\* Rows enter the table untried; nobody duplicates a message or cancels a row.
Undisturbed ==
    /\ \A r \in Routers : router[r].pc = "create" =>
         router[r].item.status = "pending" /\ router[r].item.attempts = 0
    /\ ~form.open

Inv ==
    /\ TypeOK
    /\ OneWorkerPerRow /\ MessageOnce /\ TaskHoldsRow /\ RouterHoldsRow /\ OneRouterPerRow
    /\ CopyIsFresh /\ RoomForAttempt /\ PostsCounted /\ AcceptedBeforeSuccess
    /\ Undisturbed
=============================================================================
