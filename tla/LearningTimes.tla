---------------------------- MODULE LearningTimes ----------------------------
(***************************************************************************)
(* The learning time added to a completion webhook (handlers.py, tasks.py     *)
(* enrich_and_send_completion_webhook, snowflake_client.py): every change of a *)
(* passing grade queues a task that asks Snowflake, through a cache that keeps *)
(* an answer and a failure alike for an hour.  One learner and course.         *)
(***************************************************************************)
EXTENDS Naturals, FiniteSets

CONSTANTS
    LearnTasks,        \* deliveries of the task
    LearnSeconds,      \* learning times that Snowflake may hold, 0 among them
    LearnNone,         \* no value
    LearnTtl,          \* LEARNING_TIME_CACHE_TTL, in units of time
    LearnDelay         \* bound: time between Snowflake's answer and its place in the cache

ASSUME LearnAssumption ==
    /\ 0 \in LearnSeconds /\ LearnSeconds \subseteq Nat /\ LearnNone \notin LearnSeconds
    /\ LearnTtl \in Nat /\ LearnDelay \in Nat

VARIABLES
    learnStored,       \* the value in Snowflake
    learnCache,        \* the cached value, and how long it still is
    learnTask,         \* where each task is, the value it has, and for how long it kept an answer
    learnRow,          \* the payload of the queue row, once there is one
    learnSince         \* time since Snowflake's value last changed, or a query of it last failed

learnVars == <<learnStored, learnCache, learnTask, learnRow, learnSince>>

LearnValue == LearnSeconds \cup {LearnNone}
LearnState ==
    [pc : {"ready", "query", "cache", "route", "done"}, value : LearnValue, held : 0 .. LearnDelay]

\* An age is counted up to the bound of LearningTimeIsRecent.
LearnAges == 0 .. LearnTtl + LearnDelay

LearnTypeOK ==
    /\ learnStored \in LearnValue /\ learnSince \in LearnAges
    /\ learnCache \in [value : LearnValue, left : 0 .. LearnTtl]
    /\ learnTask \in [LearnTasks -> LearnState]
    /\ learnRow \in [routed : BOOLEAN, value : LearnValue]

LearnInit ==
    /\ learnStored \in LearnValue /\ learnSince = 0
    /\ learnCache = [value |-> LearnNone, left |-> 0]
    /\ learnTask = [t \in LearnTasks |-> [pc |-> "ready", value |-> LearnNone, held |-> 0]]
    /\ learnRow = [routed |-> FALSE, value |-> LearnNone]

LearnGoes(t, pc, value) ==
    learnTask' = [learnTask EXCEPT ![t] = [pc |-> pc, value |-> value, held |-> 0]]

-----------------------------------------------------------------------------
(* The task *)

\* Fault: an entry that is read lives on for another hour.
LearnHit_Renewed(t) ==
    /\ learnTask[t].pc = "ready" /\ learnCache.left > 0
    /\ LearnGoes(t, "route", IF learnCache.value = 0 THEN LearnNone ELSE learnCache.value)
    /\ learnCache' = [learnCache EXCEPT !.left = LearnTtl]
    /\ UNCHANGED <<learnStored, learnRow, learnSince>>

\* get_learning_time: a cached 0 stands for no value.
LearnHit(t) ==
    /\ learnTask[t].pc = "ready" /\ learnCache.left > 0
    /\ LearnGoes(t, "route", IF learnCache.value = 0 THEN LearnNone ELSE learnCache.value)
    /\ UNCHANGED <<learnStored, learnCache, learnRow, learnSince>>

LearnMiss(t) ==
    /\ learnTask[t].pc = "ready" /\ learnCache.left = 0
    /\ LearnGoes(t, "query", LearnNone)
    /\ UNCHANGED <<learnStored, learnCache, learnRow, learnSince>>

LearnAnswer(t) ==
    /\ learnTask[t].pc = "query"
    /\ LearnGoes(t, "cache", learnStored)
    /\ UNCHANGED <<learnStored, learnCache, learnRow, learnSince>>

\* Snowflake fails, or what is done with its answer: no value, which is cached as well.
LearnFail(t) ==
    /\ learnTask[t].pc \in {"query", "cache"}
    /\ LearnGoes(t, "cache", LearnNone)
    /\ learnSince' = 0
    /\ UNCHANGED <<learnStored, learnCache, learnRow>>

\* How a value, or none, is kept in the cache.
LearnAsCached(value) == IF value = LearnNone THEN 0 ELSE value

\* cache.set, whatever another task has put there; the value is returned as it is.
LearnCached(t) ==
    /\ learnTask[t].pc = "cache"
    /\ learnCache' = [value |-> LearnAsCached(learnTask[t].value), left |-> LearnTtl]
    /\ LearnGoes(t, "route", learnTask[t].value)
    /\ UNCHANGED <<learnStored, learnRow, learnSince>>

\* The switch is off, or the cache fails: the completion goes on without a learning time.
LearnWithout(t) ==
    /\ learnTask[t].pc \in {"ready", "cache"}
    /\ LearnGoes(t, "route", LearnNone)
    /\ UNCHANGED <<learnStored, learnCache, learnRow, learnSince>>

\* route_webhook_by_region: get_or_create keeps the payload of a row that is there.
LearnRoute(t) ==
    /\ learnTask[t].pc = "route"
    /\ learnRow' = IF learnRow.routed THEN learnRow ELSE [routed |-> TRUE, value |-> learnTask[t].value]
    /\ LearnGoes(t, "done", LearnNone)
    /\ UNCHANGED <<learnStored, learnCache, learnSince>>

\* The user or the customer is gone, no configuration matches, or the database fails: the
\* error is raised, and the task ends with nothing routed.
LearnRouteFails(t) ==
    /\ learnTask[t].pc = "route"
    /\ LearnGoes(t, "done", LearnNone)
    /\ UNCHANGED <<learnStored, learnCache, learnRow, learnSince>>

\* The grade changes again, or the task is delivered once more.
LearnAgain(t) ==
    /\ learnTask[t].pc = "done"
    /\ LearnGoes(t, "ready", LearnNone)
    /\ UNCHANGED <<learnStored, learnCache, learnRow, learnSince>>

-----------------------------------------------------------------------------
(* Time and Snowflake *)

LearnHolds(t) == learnTask[t].pc = "cache"

\* No task keeps an answer for longer than the bound.
LearnTick ==
    /\ \A t \in LearnTasks : LearnHolds(t) => learnTask[t].held < LearnDelay
    /\ learnTask' = [t \in LearnTasks |->
           IF LearnHolds(t) THEN [learnTask[t] EXCEPT !.held = @ + 1] ELSE learnTask[t]]
    /\ learnCache' = IF learnCache.left <= 1 THEN [value |-> LearnNone, left |-> 0]
                     ELSE [learnCache EXCEPT !.left = @ - 1]
    /\ learnSince' = IF learnSince + 1 \in LearnAges THEN learnSince + 1 ELSE learnSince
    /\ UNCHANGED <<learnStored, learnRow>>

LearnGrows(value) ==
    /\ IF learnStored = LearnNone THEN TRUE ELSE value > learnStored
    /\ learnStored' = value /\ learnSince' = 0
    /\ UNCHANGED <<learnCache, learnTask, learnRow>>

LearnStep(t) ==
    \/ LearnHit(t) \/ LearnMiss(t) \/ LearnAnswer(t) \/ LearnFail(t) \/ LearnCached(t)
    \/ LearnWithout(t) \/ LearnRoute(t) \/ LearnRouteFails(t)

LearnNext ==
    \/ LearnTick
    \/ \E value \in LearnSeconds : LearnGrows(value)
    \/ \E t \in LearnTasks : LearnStep(t) \/ LearnAgain(t)

LearnSpec == LearnInit /\ [][LearnNext]_learnVars

-----------------------------------------------------------------------------
(* Properties *)

\* "Learning time is cached to minimize database load", a failure like an answer
\* (get_learning_time), for an hour: however often the completion is sent, and whichever of two
\* tasks puts its answer into the cache last, what the tasks read there is what Snowflake holds,
\* unless it changed or Snowflake failed within the time to live and the time one answer
\* took to the cache.
LearningTimeIsRecent ==
    learnCache.left > 0 =>
        \/ learnCache.value = LearnAsCached(learnStored)
        \/ learnSince < LearnTtl + LearnDelay

\* "Log error but continue - webhook should still be sent": no task ends before the
\* completion is routed.  Fails: the routing may fail as well, and the task is not
\* repeated then.
CompletionIsRouted == \A t \in LearnTasks : learnTask[t].pc = "done" => learnRow.routed

\* A webhook says nothing of the learning time only if Snowflake knew nothing, or failed
\* lately.  Fails: a learning time of 0 is sent by the task that asks for it and left out
\* by those that find it in the cache.
LearningTimeAgrees ==
    [][\A t \in LearnTasks :
          LearnHit(t) /\ learnCache.value = learnStored => learnTask'[t].value = learnStored]_learnVars
=============================================================================
