# Formal models of enterprise-integrated-channels

TLA+ specifications of the parts of this repository in which the order of events
matters, checked with TLC on small instances and proved about with TLAPS.
Paths are relative to `src/channel_integrations/`; *integrated_channel/* is
shortened to `ic/`.

## The system

The application reports what happens at an enterprise customer's learners to that
customer's own systems. It runs as Django processes, event bus consumers and Celery
workers over one database; it talks to the LMS of each customer over HTTP.

| Component | State | Operations | Hard because of |
|---|---|---|---|
| Outbound webhooks: `ic/handlers.py`, `ic/services/webhook_routing.py`, `ic/tasks.py` (from 420), `ic/models.py` (from 1027) | `WebhookTransmissionQueue`, `EnterpriseWebhookConfiguration`, messages and countdowns in the broker | route an event to a row, publish it, process it, schedule a retry; the admin cancels rows and edits configurations | several processes per row and no lock; the row is read, kept over an HTTP request and saved whole; messages delivered twice; retries published before the row is saved; crashes |
| Content metadata: `ic/exporters/content_metadata.py`, `ic/transmitters/content_metadata.py`, `ic/models.py` (from 646) | `ContentMetadataItemTransmission` (an audit for each content), `OrphanedContentTransmissions`, the contents at the customer's LMS | export (difference of catalogs and audits), transmission in chunks, marking, adopting and removing orphans | work is failed, truncated, cut off or lost at any point and must be found again from six timestamps and a status; a 24 hour retry window; catalogs change meanwhile |
| Learner completions: `ic/exporters/learner_data.py`, `ic/transmitters/learner_data.py`, each channel's `exporters/learner_data.py` | `…LearnerDataTransmissionAudit`, one record per enrollment and course | the scheduled, the forced and the single task: collect, export, send, save | two tasks on one enrollment, one of them without the lock; whole-record saves; requests that fail after having been taken in |
| Task lock and scheduling: `locked` in `ic/tasks.py`, `ic/management/commands/` | a key in the cache for each function and configuration | queue, acquire or drop, end, expire | dead workers, expiry, tasks dropped rather than delayed |
| Grades of subsections: the bulk and the single task in `ic/tasks.py`, `assessment_level_export` and `assessment_level_transmit` | one audit for each grade sent | collect, skip what was sent, send, save | the single tasks take no lock; each works from grades it read at its start |
| Organisation groups: `ic/services/org_group_sync_service.py`, `ic/services/tpa_org_id_service.py`, `ic/pipeline.py`, `api/v1/tpa_org_allowlist/` | groups, memberships, the allow-list | synchronise at login, administer the list | concurrent logins that lock each other's rows, and edits |
| Percipio tokens: `ic/percipio_auth.py` | a token in the cache | get, fetch, store | expiry between look-up and use; a cache shared by regions |
| Learning time: `ic/snowflake_client.py`, `enrich_and_send_completion_webhook` | a value or a failure in the cache | ask, cache, route | several tasks ask for one value and overwrite each other's answers; a failure is kept like an answer |
| Canvas: `canvas/client.py`, `canvas/utils.py` | courses and assignments at Canvas | find, create, update, conclude a course; find or create an assignment, submit a grade; remove duplicates | sequences of requests that stop half way; lists read in pages while they change; clean-ups that overlap; people who edit the same courses |
| Blackboard: `blackboard/client.py`, `blackboard/views.py` | courses, contents, grade columns at Blackboard; the refresh token in the configuration | the same, and refresh the token | a creation of three requests that is taken back; a token that is replaced at each use |
| Moodle: `moodle/client.py` | a course and a grade at Moodle | create, update, hide a course; report a grade | errors in answers of 200; a request repeated with a new token |
| Degreed2: `degreed2/client.py` | a course at Degreed, the cache of its id | create, update, delete, assign skills | throttling; an id that is cached for all customers and outlives its course |
| SAP SuccessFactors: `sap_success_factors/` | courses and learners at SAP, links of learners | send one kind of change a job; unlink inactive learners | starvation of one kind by another; pages of a list that moves |
| Cornerstone: `cornerstone/` | audits, a record and a session token for each launch | mark, hand over on a pull; report a completion | lost answers; pulls, jobs and launches that save over each other |
| xAPI: `xapi/` | one audit for a learner and a course id | tell of enrollments, tell of completions | two commands on one record; statements that are refused |
| Legacy tables: `ic_migrate_data_from_legacy_app`, `ic_truncate_destination_tables` | the tables of both applications | copy, empty | foreign keys, ids in use, commands that die and are run again |
| Region detection, REST views, admin forms, structured logging, other scripts | – | pure functions, CRUD, logs, one-off scripts | – |

The event bus and Django signals call the handlers, the handlers call the routing
and publish tasks; management commands publish one task per configuration; tasks
share state only through the database and, for the lock, the cache.

What makes each correct:

* webhooks – an event is sent a bounded number of times, settled once, never by two
  workers at a time, `success` only if the endpoint took it in, and no row stays
  open with nothing left to move it;
* content – whatever fails, the LMS ends up with what the catalogs offer; nothing
  it holds is forgotten by the audits; nothing is created twice;
* completions – each is reported in the end; nobody is skipped unreported or
  reported again and again;
* lock – one task of a kind per configuration, every lock is given back, no
  configuration starves;
* clients – what is answered without error is done; what fails half way is taken back
  or found again; nothing is made twice unless two tasks raced;
* SAP, Cornerstone, xAPI, subsections – what the platform has arrives in the end,
  in the order it must (an enrollment before its completion);
* tokens – a token in use is one the service takes, and the last one is not lost;
* groups – a learner ends up in the budget of the org signed in with, and in no other
  that the allow-list names; other groups are left alone;
* migration – the new rows are kept and, run again, every legacy row arrives.

## Modules

| Module | What it is |
|---|---|
| `WebhookQueue` | the queue of one customer, every statement, publication and request an action |
| `WebhookDelivery` | the abstract promise: enqueued, sent boundedly while open, concluded once |
| `WebhookRefinement` | the mapping of the first to the second |
| `WebhookQueueProofs` | its theorems |
| `MCWebhookQueue` | for TLC, with the properties that do *not* hold |
| `ContentSync`, `MCContentSync`, `ContentSyncProofs` | the job of one configuration, its records, catalogs and LMS |
| `LearnerData`, `MCLearnerData`, `LearnerDataProofs` | reporting of completions to the configurations of one channel |
| `TaskLock`, `TaskLockProofs` | the lock around the two above |
| `SubsectionGrades` | the tasks that report grades of subsections |
| `CanvasCourses`, `CanvasGradebook` | the Canvas client: content, and grades with the clean-up of duplicates |
| `BlackboardCourses`, `BlackboardGrades`, `BlackboardTokens` | the Blackboard client: content, grades, its refresh token |
| `GradeReporting` | the abstract promise of a client about grades, which `BlackboardGrades` implements |
| `MoodleClient`, `Degreed2Client` | the clients of these two |
| `SapContent`, `SapLearners` | the tasks of SAP SuccessFactors |
| `CornerstoneContent`, `CornerstoneCompletions` | the job and the pull; launches and the completion task |
| `XapiStatements` | the two xAPI commands |
| `TpaBudgetGroups` | logins, the allow-list and the budget groups |
| `PercipioTokens`, `LearningTimes` | what a webhook needs from outside: a token, the learning time |
| `LegacyMigration` | the two commands that move the legacy tables |
| `MCClients` | for TLC: the clients, tokens, learning time and migration side by side |
| `MCChannels` | for TLC: SAP, Cornerstone, xAPI, groups and subsections side by side |
| `ServicesProofs` | theorems on `PercipioTokens`, `LearningTimes` and `LegacyMigration` |
| `BlackboardProofs` | theorems on the three models of the Blackboard client |
| `ClientsProofs` | theorems on the clients of Canvas, Moodle and Degreed2, and on `MCClients` |
| `ChannelsProofs` | theorems on `XapiStatements` and `TpaBudgetGroups`, and on `MCChannels` |

`TaskLock` is what allows `ContentSync` to have a single job and `LearnerData` to
have one locked task per configuration (`Locked`): the theorem `TasksExclude` is
the assumption they make. `ContentSync` and `LearnerData` see a request to an LMS as
one step that is carried out, refused or carried out without an answer; the models of
the clients open that step up.

`MCClients` and `MCChannels` put components that share no state into one
specification: a variable says which one the behaviour is of, the others stay as they
start, and the number of states is the sum of the components'. No composition is
lost by it, since none of them reads what another writes.

Operators whose name has a suffix such as `GiveUp_Requeued` are faulty
variants used to test the properties; nothing but those tests uses them.

### WebhookQueue

`row[i]` is a row of `WebhookTransmissionQueue` by primary key (status `none`: not
in the table). `ready[i]` and `delayed[i]` count the messages
`process_webhook_queue(i)` a worker may take and those whose countdown runs.
`router[r]` is a process in `route_webhook_by_region`, between the *get* and the
*insert* of `get_or_create` (`create`) or between the commit and `delay()`
(`publish`). `worker[w]` is a worker in `process_webhook_queue`, with its copy of the
row (`item`):

| `pc` | where in `ic/tasks.py` | actions leaving it |
|---|---|---|
| `idle` | before 595 | `FetchRow` |
| `mark` | 601–607 | `MarkProcessing` |
| `lookup` | 609–624 | `LookupConfig`, `LookupRaises` |
| `send` | 626–645 | `SendAccepted`, `SendRejected`, `SendRaises` |
| `rejected` | `_schedule_retry` called at 657 | `ScheduleRetry`, `GiveUp`, `RetryRaises` |
| `raised` | `_schedule_retry` called in the `except` clause | the same |
| `save` | 671 | `SaveRow` |

`RetryRaises` models `apply_async` failing inside the `try` (the `except` clause then
schedules again) and inside the `except` (the task ends with nothing saved).
`form` is the admin form of a row, rendered before and written back after other
changes. `posts` and `accepted` are history variables. `UniqueIndex` says whether the
database builds the conditional unique index: SQLite and PostgreSQL do, MySQL does
not. `PromptSave` says that a worker saves the row before the 30 seconds or more of
its retry's countdown are over.

### ContentSync

One configuration. The export of one catalog is one action (`ExportCatalog`): it
reads and writes records that only this job, excluded by the lock, writes. The
predicates `Existing`, `DeletedBefore`, `IncompleteCreate`, `IncompleteUpdate`,
`IncompleteDelete`, `NeedsUpdate`, `NeedsDelete` are the queries of
`exporters/content_metadata.py` and `models.py` on one record. The payload
(`job.items`) holds *copies* of audits; each chunk is one action and saves its copies
whole, over what has been changed meanwhile. Timestamps are kept as set or not set;
`remote_errored_at` as none, within the last 24 hours or older (`DayPasses`).
`remote[x]` is the version of a content the LMS holds. `MarkOrphans` is the task of
that name, `Adopt` and `ExportOrphans` what the export does with the marks.

### LearnerData

`audit[e]` is *the* record of an enrollment: a unique index on enrollment and course
admits one per channel, whichever configuration made it. A task goes over its
configurations (`left`) and the enrollments permitted (`todo`); `Pick` is one turn of
the export generator and the transmitter's checks, `SendAccepted`, `SendRejected`,
`SendRaises` the request and its three outcomes, `Save` the save of the whole copy
with the unique index that may refuse it. A rejected or lost answer may or may not
have been taken in (`Told(w) \/ Untold`). `last` and `reports` record what the LMS
was told.

### TaskLock

`cache[k]` is the remaining lifetime of a key, `queue` the tasks in the broker,
`running` the task of each worker. `Acquire` is `cache.add` succeeding, `Drop` a task
that finds the key, `EndTask` the `finally` clause, which deletes the key whoever set
it. The key is made of keyword arguments only.

### SubsectionGrades

`subTask[p]` is the bulk task (`SubBulk`, one by its lock) or a task for one subsection
(no lock): the grades it read (`read`), the subsections it has to go over (`todo`), the
one it is at (`item`). `next` is the loop of the transmitter, in which `SubPick` skips
what `is_already_transmitted` finds; `send` the request; `save` the save of the audit,
a new row for each report. `subLatest` is the grade of the last transmitted audit, `subShown`
what the LMS shows. `SubRegrade` is the platform, whose completions the broker holds in
`subSignals`. `subUnsure` is a history variable: the subsections whose last report crossed
another or lost its answer.

### CanvasCourses, CanvasGradebook

`canvasCall.pc` is the request a call of the transmitter is at (`canvas/client.py`):
`session` (`_create_session`), `find` (`find_course_by_course_id`), `post` and `put`
(`_post`, `_put`), `details` (`_update_course_details`), `conclude` (the DELETE with
`event: conclude`), or its answer, a status below 400 (`ok`), an error or no status at
all (`none`). `canvasCourse` is what Canvas has; `CanvasEdited` is a person there.

`canvasReport[r].pc`: `user` and `course` are the look-ups, which unlink a learner Canvas
does not know, `list` one page of the assignments, `create` and `submit` the two POSTs;
`raced` is a history variable, set when the list changed while the report was at `list` or
`create`; a report keeps of what it has read what its next steps need (`ReportFinds`,
`ReportOver`).
`canvasDedupe[d]` is a task that runs `cleanup_duplicate_assignment_records`: the newest
assignment of each integration id so far, those to be removed, then the removals. The task
(`ic/tasks.py:294`) takes no lock, so that several overlap; `raced` is a history variable,
the integration ids of which another clean-up has removed an assignment since this one
began. Assignments carry the order of their last edit (`stamp`).

### BlackboardCourses, BlackboardGrades, BlackboardTokens

`bbCall.pc` is the next request (`blackboard/client.py`): `course`, `content`, `child`
create; `dropContent`, `dropCourse` take back; `patch`, `list`, `unlist`, `content`,
`child` update, and `remove` deletes. `BbRequest` gives each its three outcomes. `clean`
is a history variable, false once an answer was lost or taking back failed.

`bbReport.pc` is the request a report is at: `course`, `enrolment`, `list` (one page of
columns), `correct` (the PATCH that takes a subsection's column out of the calculation),
`create`, `submit`, and `answer` between Blackboard's storing of the grade and the
client's reading of its answer. `Gradebook` maps the columns to `GradeReporting`: what is
shown is the grade in the first listed column with the external id.

`bbTokenActor[a].pc` is `ask` between the read of the row and Blackboard's answer and
`save` between the answer and the save. Workers hold the lock of the row
(`bbTokenLock`) for both; the OAuth view holds no lock while it asks; editors save the
whole row they read. `bbTokenValid` is the one token that Blackboard takes. `BbTokenLost`
is a worker or a view that gets the new token and does not save it: it dies, the answer is
lost, or a field is missing from it (the view's `log_auth_response` raises a `KeyError`,
which becomes an error page).

### MoodleClient, Degreed2Client

`moodleCall.pc`: `find` (`get_course_id`), `post` (the content request), `module` and
`user` (what a grade looks up), `submit`. `MoodleWrapped` is `moodle_request_wrapper`: a
request with an expired token is made again with a new one, and what comes of that is not
read (`blind`, a history variable, marks that it was an error). `run` is the operation a call
has turned into (a creation that finds its course updates it, an update that does not
creates it); `creating` says that it has been within `create`, where a name that is taken
is a success (`taken`). A grade that Moodle answers with 0 is a success whether it was
recorded or not ("Zero also doesn't necessarily mean success, but we have nothing else to
go on", `moodle/client.py:171`): `zero` marks one that was not.

`degreedCall[c].pc`: `post`, `fetch` (the id, through the cache), `patch`, `delete`, then
`catalog` and `skills` (`assign_course_skills`); `fetchSkills` is where the command for
skills starts. `attempts` counts the throttled repetitions. `degreedCache` has one entry
for all customers, as its key has no customer in it.

### PercipioTokens, LearningTimes

`pctWorker[w].pc`: `token` (the look-up in the cache), `fetch` (the request to the
region's endpoint), `answer` (the token has been issued and the answer is on its way),
`post` (the webhook with the token). All times are what is left of them; `PctTick` lets a
unit pass for everything. `learnTask[t].pc`: `ready`, `query` (Snowflake is asked), `cache`
(its answer is on the way to the cache), `route`, which may fail and ends the task either
way. `learnCache` keeps 0 for a failure or for no value, as the code does. `learnSince` is a
history variable: the time since Snowflake's value changed or a query failed.

### LegacyMigration

`migCopy` is a run of `ic_migrate_data_from_legacy_app`, its tables `todo` in the order of
`get_model_mapping` (`MigOrder`), and how many runs of every table went without trouble
since the legacy application last added a row and since the last truncation (`runs`: a run
that fails, dies or is of some tables does not count, and takes nothing from the count);
`MigCopyTable` is the `INSERT IGNORE
… SELECT` of one table, which keeps the rows whose ids are taken and drops those whose
foreign key is missing. `migEmpty` is the truncation command. `MigWrite` and `MigAnswer`
are both applications at work meanwhile, `MigTableFails` a statement that fails or a
command that dies.

### SapContent, SapLearners

`sapJob` is a job: the kind of change it chose makes its `batch`, `next` takes a course
from it as long as the limit allows (`left`), `post` is the request and its retries
(`attempts`). `sapAudit[c].rest` counts the jobs until a failure is tried again (24
hours); `sapCourse` is the version SAP has.

`sapScan` is `unlink_learners`: `page` reads one page of inactive students at `skip`,
`unlink` goes through `found`. `sapReport` is `handle_transmission_error` between its read
of a link and its save of the whole of it. `SapMoved` is SAP, `SapSignsIn` the learner.

### CornerstoneContent, CornerstoneCompletions

`CsodJobMarks` is the export, which sets the mark of each audit that needs a change;
`CsodJobBuilds(c)` stores the payload of one of them and saves the job's copy;
`CsodPullReads`, `CsodPullAnswered`, `CsodPullFails` are a request of Cornerstone's, one
transaction in `cornerstone/views.py`: it reads copies, and saves them when it answers.
The view opens no transaction; that a request is one rests on `ATOMIC_REQUESTS` of the LMS
that hosts the application. Without it a request that breaks would leave the marks it has
taken away.
`since` is whether the request has `If-Modified-Since`.

`csodRecord[l]` is the record of a learner and the course, `CsodLaunch` the POST of
`CornerstoneLearnerInformationView`, `csodTask[c]` the task that reports: `CsodPick` finds
the record, `send` is the POST to the callback, `save` saves the copy. `CsodExpires` ends
a session token.

### XapiStatements

`xapiCommand[p]` goes over `customers`, the items `todo` of one of them, and for each from
`next` over `send` to `save`: an accepted enrollment creates the audit, an accepted
completion marks it. `XapiTrouble` is a command that raises or is killed. `xapiTold` is
what each LRS has accepted.

### TpaBudgetGroups

`tpaLogin[p]` is the transaction of `sync_learner_budget_group`, statement by statement:
look up the entry (`idle` → `group`), find its group (`group` → `join`), create or
restore the membership (`join` → `stale`), list the stale ones (`stale` → `drop`), remove
them (`drop` → `commit`), commit. Uncommitted writes are kept with the login and are seen
by itself only; `TpaLocked` are the rows it has written, on which others wait, and
`TpaDeadlock` the database ending one of two that wait for each other. `TpaMove` is a
learner whose org changed; the other actions of the environment are the allow-list's
views and the administrators. `TpaSetEntry` has the serializer's check of the group.

## What is checked

| Run | Instance | Properties | Shows |
|---|---|---|---|
| `webhook_exactly_once` | 1 key, 2 rows, 2 routers, 2 workers, 1 crash or error, 1 edit | `OneWorkerPerRow` `SettledForGood` `ImplementsDelivery` | racing and crashing processes never share a row, leave settled rows alone and keep the abstract promise |
| `webhook_retries` | 1 row, limits 0 and 10, 1 edit, 1 crash | `AttemptsCountPosts` `BackoffGrows` | all eleven attempts, the delay reaching its cap, the limit changing between attempts |
| `webhook_redelivery` | 1 row, 2 workers, 1 duplicate, 1 cancellation, fair | `NoRowStranded` `SuccessWasAccepted` `EveryRowSettles` | two tasks of one row and a cancellation under a worker strand nothing |
| `webhook_crash` | 1 row, 1 fault | `NoRowStranded` **violated** | see Findings |
| `content_audits` | 2 contents, 2 catalogs, chunk limit 1, everything may fail, die, change, be unlinked mid-job | `TypeOK` `NothingForgotten` `RequestsAreDue` | the records never lose a content, create one twice or retry too early |
| `content_backlog` | 2 contents, 1 catalog, chunk limit 1, 3 failures with late answers, 1 crash, fair | `EventuallyInSync` | work cut off, failed or lost is found again |
| `content_unlinked` | 2 contents, 2 catalogs, one of them unlinked between jobs, 1 change of the offer, one update fails, orphans removed, fair | `EventuallyInSync` | adoption, removal and updates of what has moved |
| `task_lock` | 2 functions (one queued by keyword, one not), 2 configurations, 2 workers, 2 deaths, fair | `OnePerConfiguration` `LocksAreReleased` `EveryConfigurationServed` | exclusion, release and progress |
| `learner_reports` | 1 enrollment, 1 configuration, 2 workers, 2 failures, 1 death, 1 forced and 1 single task, 1 change, fair | `TransmittedWasReported` `ReportsBounded` `EveryCompletionReported` | nobody skipped unreported, nobody reported without end, everybody reported |
| `learner_configurations` | 1 enrollment, 2 configurations, 1 failure | `TransmittedWasReported` **violated** | see Findings |
| `clients` | `MCClients`: each client with every outcome of every request | see below | what a client answers is true, tokens and ids are the right ones, copies end complete |
| `channels` | `MCChannels`: two courses, three students, two Cornerstone configurations, two processes of each kind, faults, changes and deaths, fair | see below | the other side ends up with what the platform has, in the right order |

The type invariants of `WebhookQueue`, `TaskLock` and `LearnerData` are in no run: they are
theorems. The properties of `clients`, by module, besides `TypeOK`:

| Module | Property | Says |
|---|---|---|
| `CanvasCourses` | `CanvasOkMeansDone` | a call answered below 400 has done what it was called for, except to a course deleted in Canvas |
| `CanvasGradebook` | `AssignmentsKeptAndFound` | a clean-up removes the last assignment of an integration id only if another clean-up has removed one of that id since it began, whatever is reported and edited meanwhile; a second assignment is made only when the list changed while a report looked for its own, or is longer than the pages read |
| `BlackboardCourses` | `BbCourseIsWhole` | there are never two items, whatever failed before; success is complete; a failed creation is taken back unless an answer was lost |
| `BlackboardGrades` | `BlackboardReportsGrades` | the abstract promise of `GradeReporting` (refinement) |
| `BlackboardTokens` | `BbTokensTakeTurns` | under the row's lock a worker uses the token Blackboard takes; the connection is lost only with a new token that the worker or view that got it does not save, or by a save of an older copy |
| `MoodleClient` | `MoodleOkMeansDone` | a success is one, unless a name was taken, a repeated request was not read, or a grade was answered with 0 and not kept |
| `Degreed2Client` | `DegreedOkMeansDone` | the same, whoever's id was in the cache |
| `PercipioTokens` | `PctTokenIsFresh` | no token expires under a request |
| `LearningTimes` | `LearningTimeIsRecent` | whichever task's answer is cached last, what tasks read in the cache is what Snowflake has, unless that changed or failed within the hour and the time of one answer |
| `LegacyMigration` | `MigrationIsRepeatable` | two complete runs leave no legacy row behind, whatever runs failed, stopped or were partial before and between them, if the new application has no rows of its own; nothing but a truncation takes away or changes a new row |

and those of `channels`:

| Module | Property | Says |
|---|---|---|
| `SapContent` | `SapInSync` | no kind of change starves another, nor a refused course the rest |
| `SapLearners` | `InactiveAreUnlinked` | whoever stays inactive is unlinked, although the pages move and old links are saved |
| `CornerstoneContent` | `CsodInSync` | Cornerstone lists what the catalog has, although job and pull save over each other, unless a request breaks for ever (`CsodStuck`) |
| `CornerstoneCompletions` | `CsodCompletionsReported` | whoever launched and completed is recorded as long as a token is taken |
| `XapiStatements` | `XapiRecordsWereTold` | an LRS hears of the enrollment first; completed means told |
| | `XapiCompletionsTold` | what is on record and passed is told in the end |
| `TpaBudgetGroups` | `TpaInSync` | the learner ends up in the group of the org, and in no other the allow-list names |
| | `TpaOthersUntouched` | no login touches other groups |
| `SubsectionGrades` | `SubsectionsReported` | the LMS ends up with the platform's grades, except of those whose last report crossed another or lost its answer |

### Bounds

Every bound is a constant whose name starts with `Max` (or `Fallible`,
`LateAnswers`, `LinksMidJob`: which faults are switched on). They limit the
*environment*, faults, edits, changes, never the code. Their sizes:

* Rows of different keys, contents of different names and different enrollments
  interact only through workers, catalogs and limits; two suffice to have one in the
  way of the other. Two routers and two workers make every pair of steps interleave.
  `learner_reports` has one enrollment because its records are independent and its
  two workers then always collide on it; the theorems hold for any number.
* One fault is enough for a row to be stranded or a record to be lost; the runs that
  are to pass allow as many as the state space allows (three failures and a crash in
  `content_backlog`), since recovering from one while another happens is the hard case.
* `MaxRetries = 10` in `webhook_retries` is the real limit of the validator, which
  the delay's cap of an hour needs (it is reached at the eighth attempt); elsewhere 3,
  the default.
* `ChunkLimit = 1` and `MaxPayload` of 1 or 2 with two contents make every export be
  truncated or cut off. `content_unlinked` has no such limit, since `content_backlog`
  has; it holds as well with one catalog whose offer changes three times, a payload of
  1 and failing creations (`Catalogs = {c1}`, `MaxPayload = ChunkSize = 1`,
  `RemoveOrphans = FALSE`, `Fallible = {"create", "update"}`, `MaxFailures = 1`,
  `MaxOffers = 3`, `MaxLinks = 0`).
* Where a list is read in pages the pages have one element and the limit on pages is 1
  or 2 (`BbPageLimit`, `CanvasPageLimit`, `SapPageSize`), so that three elements already
  lie on several pages and behind the last one read.
* In `MCClients` a course and a grade suffice: a client works on one at a time, and what
  it does to another is independent; but for two customers at Degreed2, who share the
  cache, and two workers at Percipio, Snowflake and Blackboard, who race. Canvas has two
  reports and two clean-ups, which are interchangeable (`ClientsSymmetry`), with room for an
  edit between the readings of the clean-ups.
  Two payloads tell an update that arrived from one that did not. Requests fail and
  answers are lost any number of times. `BbTokens` (tokens given out),
  `CanvasMaxAssignments`, `BbMaxColumns`, `BbMaxContents`, `DegreedMaxIds` bound what the
  other side hands out; `LearnDelay` is the time an answer of Snowflake's takes to the cache; an action that needs one more is not taken. `BbMaxColumns = 3` is
  more than a bound: every column that a second report looks for is then within the two
  pages read, without which `BlackboardReportsGrades` is false (see the deviations).
* In `MCChannels` the names in `Changes`, `Deaths`, `Moves`, `Reports`, `Troubles`,
  `Launches` and `Overlaps` bound what people and failures do. `TpaChanges = 4` is the least with which
  a login can leave a group behind: two entries and two moves of the learner.
  `SapJobsADay = 2` says that a failure rests for more than one job; with one it comes
  first in every job (see the deviations).

Deadlock is not looked for (`CHECK_DEADLOCK FALSE`) in the webhook queue, which stops
when all events are settled, and in `clients` and `channels`, where ids, tokens and
changes run out and tasks that are done stop. In the other models something is always
scheduled.

### Fairness

* `WebhookQueue`: a started task, a published message and a running countdown go on
  (Celery workers run). Nothing obliges the environment to send events, operators to
  act or faults to happen.
* `ContentSync`: the job and the orphan task are scheduled again and again (they are
  cron commands), a started job goes on, and days pass, strongly fair because a day
  ends between jobs (`LAST_24_HRS` is fixed when a process imports the module). No
  request is assumed to succeed; failures are bounded instead, so the claim is "once
  failures stop".
* `LearnerData`: a started task goes on; the scheduled task of each configuration is
  started again and again although a lock may turn it away now and then.
* `TaskLock`: commands are scheduled, tasks end, time passes, every message is
  eventually taken by a worker, which may drop it. That the lock is free when it
  is taken is *not* assumed.
* The clients (`MCClients`) have no liveness property and no fairness: what they answer is
  checked, whenever they answer.
* `SapContent`: jobs are queued and go on; a course SAP does not refuse is not rejected
  every time (strong). `SapLearners`: the task is queued, each page can be read some time.
* `CornerstoneContent`: the job is queued and each payload is stored some time (strong,
  since jobs die); Cornerstone pulls, and not all of its requests fail (strong).
  `CornerstoneCompletions`: tasks are queued and go on; no completion that is authorised
  is refused for ever (strong).
* `XapiStatements`: processes go on, the command for completions is run again and again,
  no statement is refused for ever (strong).
* `TpaBudgetGroups`: the learner signs in again and again, the database ends deadlocks.
* `SubsectionGrades`: the bulk task is queued again and again, tasks go on; nothing obliges
  the broker to deliver a single task.

Each of these modules states its own condition (`SapContentFairSpec`, …). `MCChannels`
merges them: a behaviour is one component's for good, only that one's actions are ever
enabled, and so one condition `Weak(k)` may stand for the `k`-th weak condition of every
component, and `Strong(k)` for the strong ones.

## What is proved

All constants are arbitrary within their named assumptions (`…Assumption`); the
assumptions of a theorem beyond those are in its statement.

**WebhookQueueProofs.** `TypeCorrect` and `SuccessIsTrue` need nothing. Five assume
`Quietly` (`MaxDuplicates = 0`, `MaxCancels = 0`, `PromptSave`): each message is
delivered once, a worker saves within the countdown, nobody cancels; without these the
properties are false (two tasks then hold one row). Crashes, broker and database
errors, edits and the number of everything are unlimited. `OneWorkerPerRow` is not
inductive: whether a second worker can take a row depends on the messages about it.
`Inv` therefore says that at most one message stands for a row (`MessageOnce`), none
while a task or a router holds it but for the retry just published (`TaskHoldsRow`,
`RouterHoldsRow`, `OneRouterPerRow`), that a worker's copy agrees with the row but for
what it has decided (`CopyIsFresh`), and, for the counting, `RoomForAttempt`,
`PostsCounted`, `AcceptedBeforeSuccess`. From it follow `TasksExcludeEachOther`,
`AttemptsBounded`, `SettledRowsStay` and, action by action, `QueueImplementsDelivery`.
`DelaysGrow` adds `DelaysFollow`: no row and no worker's copy has a delay longer than its
attempts account for, and a copy about to be saved has set it. That powers of two grow
cannot be shown by induction here; `PowersGrow` counts subsets instead (2^n sets of n
elements, all of them subsets of n + 1).
`SuccessIsTrue` takes late saves, duplicates and cancellations: every copy of a row that
says `success`, in a worker too, is of a row whose request was taken in
(`SuccessBacked`). `NoRowIsStranded` assumes `NothingFails` (`MaxFaults = 0`,
`PromptSave`), the opposite of what `webhook_crash` shows, and allows duplicates and
cancellations; its invariant is `Carried`: the unique index holds the rows of a key apart
(`IndexHolds`), copies keep their keys, a task that saves `pending` has a retry waiting
(`RetryInFlight`), and every message is of a row that is there.

**ContentSyncProofs.** `TypeCorrect` needs nothing. `HeldStaysKnown` assumes
`~LateAnswers` (no request that seems to have failed was carried out), without which
`NothingForgotten` is false. It is not inductive: the job saves copies of the records it
exported. `PayloadsFit` says what each copy may be: of an existing record, or of one to
be created that the LMS does not hold. `OnlyDueRequests` adds `PayloadsDue`: no copy has
failed within a day and no two payloads share a content; it also assumes `~RemoveOrphans`,
since with ALLOW_ORPHANED_CONTENT_REMOVAL an orphan whose creation has just failed is
deleted at once.

**TaskLockProofs.** `TypeCorrect`; `TasksExclude` under `~Overrun` from
`LockInv == TypeOK /\ LockedWhileRunning /\ OnePerKey` (the lock of a running task is
in the cache, and two running tasks have different locks, which is stronger than
`OnePerConfiguration` because tasks queued without keywords share a key);
`LocksReleased`, which needs no `~Overrun`: the end of a task may delete the lock of
another, never leave one.

**LearnerDataProofs.** `TypeCorrect`; `SkippedWasReported` for a customer with one
configuration (`OneConfig`), by the invariant `Reported`, which adds
`AcceptedWasTold`: a worker about to save an accepted answer has told the
configuration it is working for. With two configurations the theorem is false
(`learner_configurations`): the record's configuration and the one at hand differ.
`ReportedOnceAndForFaults`, also under `OneConfig`, proves `ReportsBounded` by an account:
the reports made of an enrollment and those still owed, one for each task that may yet send
it (`Claims`) and up to two for the scheduled task that finds its record unsent (`Due`,
`Again`), are never more than one and the faults spent (`ReportsOwed`); a fault pays for
the claim it opens. A task passes each enrollment once (`OnePass`), and one task is locked
at a time (`OneLocked`).

**ServicesProofs.** `TokensStayFresh` assumes `PctInTime`: twice the longest a request
may take is at most the buffer of the cache, and less than a token's life. The buffer is 60
seconds (`ic/percipio_auth.py:26`), the timeout of a token request 10 and that of a webhook
30 by default (`ic/models.py:1058`), so it holds of the defaults; a customer who sets the
timeout above 30 (up to 300 are allowed) is outside the theorem, and a token may then expire
on its way. `PctInv` follows a token from the answer to the
cache to the worker: its age is bounded by what its answer has taken so far.
`LearningTimesAreRecent` is about tasks that ask at once and cache their answers in any
order: an answer is as old as the task has held it and a cached one that and what has gone
of its time to live, so both differ from Snowflake's value only if that changed, or a query
failed, no longer ago (`LearnHeld`, `LearnKept`). It assumes nothing beyond the bound
`LearnDelay` on how long an answer is held. `MigrationsRepeat` needs the
most: nothing is emptied while something is copied (`MigApart`), every legacy audit points
to a record of its own (`MigSound`), the new tables hold copies of legacy rows only
(`MigCopied`), the full runs so far say which tables are whole (`MigReached`), and what a
run under way has done says which it adds (`MigProgress`).

**BlackboardProofs.** `WorkersKeepTheToken`, from `BbTokenHeld`: the worker that has the row
locked holds the row as it is, and a token that was used is older than the valid one. It
holds of any mixture of workers, views and editors, their deaths and lost answers included.
`CoursesStayWhole`, from `BbStage`: what the course, its item and its child are at each
request of a call. `GradesAreReported`, the refinement of `GradeReporting`, step by step: a
request maps to the recording of a grade, to the answer, or to a stutter. Its invariant
`BbReportKnows` says what a report knows of the columns it has read; it assumes
`BbPagesSuffice` (no more columns than the pages read can show), and is false with one more
(see the deviations).

**ClientsProofs.** `CanvasMeansIt`, `MoodleMeansIt`, `DegreedMeansIt` and `AssignmentsStay`
say what an answer without error is worth. Each rests on what a call may rely on
while others act between its requests (`CanvasCallRelies`, `MoodleRelies`,
`DegreedRelies`); for the gradebook, that what a clean-up keeps of an id is still there and never among what
it removes, whichever pages it has read, until another clean-up has removed one of that id,
and that a report whose list is still the one it
began with has missed nothing on them (`AssignmentsApart`, `DedupeKnows`, `ReportKnows`).
`MoodleMeansIt` excepts the answers the client cannot judge, a 0 among them; what it says is
that no error Moodle did report for a grade is overlooked the first time.

**ChannelsProofs.** `StatementsInOrder`, from two facts that keep each other: a record is
what an accepted enrollment has left (`XapiRecordsFollow`), and a command sends a
completion only from a record of its customer's (`XapiCommandsRely`).
`OtherGroupsUntouched`, from `TpaNamesBudgets`: a login holds budgets only, also after the
allow-list it read has changed.

**The compositions.** `ClientsSideBySide` and `ChannelsSideBySide` show that the
specification TLC runs implies that of every component in it, so that the theorems above
hold of each component there too, and `ClientsTyped` and `ChannelsTyped` their types. Most
types are not inductive: that SAP's list is not read beyond its end takes the test that
asks for a next page and the count of the students; that what Cornerstone is sent is
defined at all takes that a request has copies of marked audits only (`CsodPullState`); a
task about to send a grade has a subsection at hand (`SubTyped`).

Only model-checked: everything under fairness, which the prover cannot treat:
`EveryRowSettles`, `EventuallyInSync`, `EveryConfigurationServed`,
`EveryCompletionReported`, `XapiCompletionsTold`, `TpaInSync`, `SubsectionsReported`,
`SapInSync`, `InactiveAreUnlinked`, `CsodInSync`, `CsodCompletionsReported`. Every
invariant and every action property of a passing run, and both refinements, are proved. The
properties that do not hold (the findings and deviations) are refuted by TLC on the
instances named there.

## Findings

Two runs show the code doing other than its documentation says.

* **A crash strands a row** (`webhook_crash`). "Queue for webhook transmissions to
  ensure reliable delivery" (`ic/models.py:1154`). A process that dies after storing a
  row and before publishing its task, or after marking it `processing`, leaves it
  there: `next_retry_at` is written and read nowhere, and a later event of the same
  day finds the row and publishes nothing.
* **Two configurations share a completion record** (`learner_configurations`).
  `get_learner_data_records` looks it up without `plugin_configuration_id`: the second
  configuration sends the first one's failed record and marks it transmitted under
  the first one's id; the first then skips the enrollment as "already sent".

### Other known deviations

Each property is stated in the module named. It is refuted with the constants of the
run in the second column, changed as the third says.

| Property | Start from | Change | What happens |
|---|---|---|---|
| `SettledNotReprocessed` (`MCWebhookQueue`) | `webhook_crash` | `Workers = {w1, w2}`, `MaxFaults = 0`, `MaxCancels = 1` | a row cancelled after the worker read it is marked `processing` and sent (`ic/tasks.py:600`) |
| `OneRowPerKey` (`MCWebhookQueue`) | `webhook_exactly_once` | `MaxFaults = 0` | two routers store two rows when the first has failed before the second insert (`webhook_routing.py:74`) |
| `DelaysAsCommented` (`MCWebhookQueue`) | `webhook_crash` | `RetryLimits = {3}`, `MaxFaults = 0` | 30, 60, 120 s where the comment says "30s, 120s, 300s" (`ic/tasks.py:679`) |
| `PayloadWithinMax` (`MCContentSync`) | `content_audits` | `Contents = {x, y, z}`, `ChunkLimit = 9`, all `Max` bounds of faults 0 | each catalog is truncated to the whole maximum (`exporters/content_metadata.py:538`) |
| `OrphansWereSent` (`MCContentSync`) | `content_unlinked` | `Contents = {x}`, `RemoveOrphans = FALSE`, `Fallible = {"create"}`, `MaxOffers = 0` | a creation that failed has `remote_created_at` set and is taken for an orphan (`ic/models.py:270`) |
| `OrphansAreMarked` (`MCContentSync`) | `content_unlinked` | `Contents = {x}`, `RemoveOrphans = FALSE`, `MaxOffers = 0`, `MaxLinks = 2`, `MaxFailures = 0` | `get_or_create` finds the resolved record of an earlier time (`ic/tasks.py:206`) |
| `OrphansLostTheirCatalog` (`MCContentSync`) | `content_unlinked` | `Contents = {x}`, `MaxOffers = 0`, `MaxLinks = 2`, `MaxFailures = 0` | the catalog is linked again and its contents are removed all the same (`exporters/content_metadata.py:579`) |
| `EventuallyInSync` (`ContentSync`) | `content_backlog` | `MaxOffers = 2`, `Fallible = {}`, `LateAnswers = FALSE` | an update lost with its job is forgotten when the content goes and comes back |
| `EventuallyInSync` | `content_unlinked` | `Contents = {x}`, `Fallible = {"create"}`, `LateAnswers = TRUE`, `MaxLinks = 0` | a creation whose answer was lost is not deleted when the content is withdrawn |
| `EventuallyInSync` | `content_unlinked` | `Contents = {x}`, `Fallible = {"delete"}`, `MaxOffers = 2`, `MaxLinks = 0` | a content whose deletion failed and that is offered again counts as existing, so it is not created, and is not updated since `remote_deleted_at` is set (`exporters/content_metadata.py:203`) |
| `EventuallyInSync` | `content_unlinked` | `Contents = {x}`, `LinksMidJob = TRUE`, `MaxOffers = 1`, `MaxFailures = 0` | the job saves its copy over an audit adopted or orphaned meanwhile |
| `EveryConfigurationServed` for every `j` (`TaskLock`) | `task_lock` | drop `j[1] \in Keyword` | `ic_transmit_subsection_learner_data.py:57` passes positional arguments: one lock for all configurations, and a locked task is dropped |
| `OnePerConfiguration` (`TaskLock`) | `task_lock` | `Overrun = TRUE` | a task outlives its lock, and its end deletes the lock of the next |
| `RegradesReported` (`MCLearnerData`) | `learner_reports` | `Workers = {w1}`, no faults | the record made first keeps the first grade (`degreed2/exporters/learner_data.py:69`) |
| `EveryCompletionReported` (`LearnerData`) | `learner_reports` | `SendIncomplete = TRUE` | the record stored while the course was incomplete is sent for ever after |

Of the clients (start from `clients`) and the channels (start from `channels`):

| Property | Module | Change | What happens |
|---|---|---|---|
| `CanvasAlwaysAStatus` | `CanvasCourses` | – | a creation that finds its course and whose details fail returns no status, which the transmitter compares with 300 (`canvas/client.py:496`) |
| `CanvasCreateSendsLatest` | `CanvasCourses` | – | a creation that finds its course publishes it with the old payload (`canvas/client.py:71`) |
| `DedupeKeepsOne` | `CanvasGradebook` | – | "remove all but the most recent, unique assessments" (`canvas/client.py:278`): the task takes no lock and judges by the list it has read (`ic/tasks.py:294`); when an assignment is edited between the readings of two runs, each removes the one the other keeps |
| `DedupeKeepsGrades` | `CanvasGradebook` | – | reports use the duplicate that is listed first, the clean-up keeps the one edited last (`canvas/client.py:451`) |
| `DedupeRemovesDuplicates` | `CanvasGradebook` | – | the assignments of teachers have no integration id and count as duplicates of each other (`canvas/client.py:451`) |
| `BbExistingIsComplete` | `BlackboardCourses` | – | a course whose creation could not be taken back is never completed (`blackboard/client.py:66`) |
| `EnrolledAreFound` | `BlackboardGrades` | `BbLearners = {l1, l2}` | only the first page of enrolments is read (`blackboard/client.py:687`) |
| `BlackboardReportsGrades` | `BlackboardGrades` | `BbMaxColumns = 4` | a column behind the last page that is read is made again by each report (`blackboard/client.py:709`) |
| `BbEditKeepsToken` | `BlackboardTokens` | – | an edit of the configuration waits for the worker that refreshes the token, then puts the used one back (`api/v1/blackboard/serializers.py:16`) |
| `BbSwitchedOffStays` | `BlackboardTokens` | – | the OAuth view saves the configuration as it was before the code was exchanged (`blackboard/views.py:88`) |
| `MoodleOkIsGraded` | `MoodleClient` | – | an error in the answer to a repeated request is a success (`moodle/client.py:95`), and so is a 0 (`moodle/client.py:171`) |
| `MoodleUpdateShows` | `MoodleClient` | – | a deletion whose answer was lost has hidden the course; updates leave it hidden (`moodle/client.py:683`) |
| `DegreedOwnId` | `Degreed2Client` | – | the cached id is another customer's, or that of a course since deleted (`degreed2/client.py:190`) |
| `DegreedSkillsNeverFail` | `Degreed2Client` | – | errors of the catalog and the connection fail the content that was sent (`degreed2/client.py:344`) |
| `PctTokenIsItsOwn` | `PercipioTokens` | `PctLifetimes = {3, 6}` | the cache knows the item's region, not the configuration that stood in for it (`ic/percipio_auth.py:43`) |
| `CompletionIsRouted` | `LearningTimes` | – | "webhook should still be sent": the routing itself fails, the error is raised again and the task is not repeated (`ic/tasks.py:574`) |
| `LearningTimeAgrees` | `LearningTimes` | – | a learning time of 0 is sent by the task that asks, and left out by those that find it cached (`ic/snowflake_client.py:87`) |
| `FirstRunCompletes` | `LegacyMigration` | – | content audits are copied before the records they point to, and dropped (`ic_migrate_data_from_legacy_app.py:202`) |
| `MigratedPointToTheirOwn` | `LegacyMigration` | `MigWrites = 2` | an audit points to a row of the new application that has the id |
| `MigRecordsExist` | `LegacyMigration` | `MigWrites = 2` | `--only-models` empties the records alone, without foreign key checks (`ic_truncate_destination_tables.py:164`) |
| `MigratedAgrees` | `LegacyMigration` | `MigWrites = 2` | what the legacy application changes after the first run is not copied |
| `SapInSync` | `SapContent` | `SapJobsADay = 1` | a course that is refused for good comes first in every job, and the rest waits (`sap_success_factors/transmitters/content_metadata.py:48`) |
| `UnlinkedUntilSignIn` | `SapLearners` | – | a refused completion saves the link it read before the learner was unlinked (`sap_success_factors/transmitters/learner_data.py:45`) |
| `OnlyInactiveUnlinked` | `SapLearners` | – | who was reactivated since the list was read is unlinked too (`sap_success_factors/exporters/learner_data.py:158`) |
| `CsodListCanBeHad` | `CornerstoneContent` | – | an audit marked without a payload whose content then leaves the catalog breaks every request (`cornerstone/views.py:103`) |
| `CsodInSync` | `CornerstoneContent` | `CsodHeaders = {TRUE, FALSE}` | a request without `If-Modified-Since` hands over a null, recorded as sent |
| `CsodInSync` | `CornerstoneContent` | `CsodLosesAnswers = TRUE` | what is handed over in an answer that is lost is recorded as sent (`cornerstone/views.py:149`) |
| `CsodLaunchIsSaved` | `CornerstoneCompletions` | – | the record of another customer's configuration stands in the way for good (`cornerstone/utils.py:28`) |
| `CsodLastLaunchKept` | `CornerstoneCompletions` | – | the task saves the callback it picked over that of a later launch |
| `XapiRecordIsItsOwn` | `XapiStatements` | `XapiCustomers = {c, d}` | a second customer of the learner finds the record of the first (`xapi/models.py:71`) |
| `TpaOneBudget` | `TpaBudgetGroups` | – | a group whose entry is mapped elsewhere or deleted is no longer among those cleaned up (`ic/services/org_group_sync_service.py:102`) |
| `AllSubsectionsReported` | `SubsectionGrades` | – | an audit of another grade hides that a report arrived, or arrived later (`ic/transmitters/learner_data.py:182`) |
| `SubZeroReported` | `SubsectionGrades` | – | a grade taken back to 0 is taken for none (`canvas/exporters/learner_data.py:79`) |
| `SubSingleSendsOne` | `SubsectionGrades` | – | the task for one subsection sends all of the learner's (`ic/exporters/learner_data.py:143`) |

Seen in the code and left in the models without a property of their own: Moodle's
deletion of a course that is not there returns a `Response`, which the transmitter cannot
take apart (`MoodleFoundNone`); the clean-up of duplicates answers 200 when a page could
not be read (`DedupeList`); a Canvas course whose details failed after its creation
stays unpublished and is answered as created (`CanvasDetails`); an enrollment
recorded without an enterprise enrollment is told again at each run, and never completed;
an LRS is told of the enrollment in a second run of a course as of the first, but the record
of the course goes on naming the first run, whose grade alone completes it.

`TpaOthersUntouched` is one reading of what `_cleanup_stale_memberships` promises
(`ic/services/org_group_sync_service.py:106`: "Only ever touches groups that are themselves
referenced by a TpaOrgAllowlist row"). Its next words, "never budget groups that were
assigned manually rather than by this sync", read literally spare also a membership that an
administrator gave by hand in a budget group the allow-list names. The code keeps no note of
who gave a membership and removes it; its tests and the model take "manually" of groups that
no entry names.

## Not modelled, and why

* Formatting: what a title, a description or a payload looks like. A payload is a version
  in every model.
* The dry-run modes; `force_retrieve_all_catalogs`; the switches that disable a
  configuration's reporting: they skip what the models do.
* In `ContentSync`: a second configuration of the channel (its audits are marked as
  orphans too: `fetch_orphaned_content_audits` has no `plugin_configuration_id`
  filter); answers from 300 to 399; a chunk of which only some records are saved
  when the process dies; the admin clearing `remote_deleted_at`.
* In `TaskLock`: a cache that evicts keys.
* Canvas' OAuth view and Cornerstone's and SAP's access tokens: each is fetched and kept
  by one client object, and none replaces another. Cornerstone's transcripts by OAuth
  are one request in `CornerstoneCompletions`.
* The commands that fill in, reset or remove columns and rows of audits: each is one
  pass run by hand, whose result is a query.
* Region detection (a function of the learner's SSO record), the REST API (CRUD and
  listings), the admin (but for the forms that are actions above), logging (write-only)
  and the adapters to the LMS and the catalogs, whose answers are inputs.

## Plan

1. Done: webhook queue with refinement and proofs; content synchronisation; task lock;
   learner completions, with proofs.
2. Done: organisation groups and the allow-list; tokens (Percipio, Blackboard); the
   clients of Canvas, Blackboard, Moodle and Degreed2; SAP SuccessFactors; Cornerstone;
   xAPI; grades of subsections; learning time; the migration.
3. Done: theorems for every safety property that a passing run checks, the refinements
   and the compositions.
4. Two configurations of one channel in `ContentSync`.
