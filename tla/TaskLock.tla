------------------------------ MODULE TaskLock ------------------------------
(***************************************************************************)
(* The tasks that work on one channel configuration and the lock that keeps *)
(* a second one of the same configuration away (tasks.py, locked).  A       *)
(* management command queues a task for each configuration; a worker that   *)
(* finds the lock in the cache drops its task.  The lock expires.           *)
(***************************************************************************)
EXTENDS Naturals

CONSTANTS
    Functions,    \* the locked tasks in use
    Configs,      \* channel configurations: a channel_code and a channel_pk
    None,         \* no configuration
    Workers,      \* Celery workers
    Expiry,       \* TASK_LOCK_EXPIRY_SECONDS, in ticks
    Overrun,      \* may a task outlive its lock?
    MaxQueued,    \* bound: tasks of one kind in the broker
    MaxDeaths     \* bound: workers that die with a task

LockedTasks == {"transmit_content_metadata", "transmit_learner_data",
                "transmit_subsection_learner_data"}

ASSUME LockAssumption ==
    /\ Functions \subseteq LockedTasks /\ None \notin Configs
    /\ Expiry \in Nat \ {0} /\ Overrun \in BOOLEAN
    /\ MaxQueued \in Nat /\ MaxDeaths \in Nat

VARIABLES
    queue,     \* tasks in the broker
    cache,     \* what is left of the lifetime of each lock, 0 if it is not there
    running,   \* the task each worker is in
    deaths     \* workers that died with a task

vars == <<queue, cache, running, deaths>>

Jobs == Functions \X Configs
NoJob == <<None, None>>
-----------------------------------------------------------------------------
\* Fault: the key leaves the configuration out.
Key_NoConfig(j) == <<j[1], None>>

\* The lock's key is made of keyword arguments: the commands that queue the first
\* two tasks use them, ic_transmit_subsection_learner_data passes positional ones.
Keyword == {"transmit_content_metadata", "transmit_learner_data"}
Key(j) == <<j[1], IF j[1] \in Keyword THEN j[2] ELSE None>>

Keys == Functions \X (Configs \cup {None})
Running(j) == \E w \in Workers : running[w] = j

Init ==
    /\ queue = [j \in Jobs |-> 0]
    /\ cache = [k \in Keys |-> 0]
    /\ running = [w \in Workers |-> NoJob]
    /\ deaths = 0

\* A management command queues a task for every configuration.
Command(f) ==
    /\ \A c \in Configs : queue[<<f, c>>] < MaxQueued
    /\ queue' = [j \in Jobs |-> IF j[1] = f THEN queue[j] + 1 ELSE queue[j]]
    /\ UNCHANGED <<cache, running, deaths>>

Take(w, j) ==
    /\ running[w] = NoJob /\ queue[j] > 0
    /\ queue' = [queue EXCEPT ![j] = @ - 1]

\* Fault: the key is set, there or not (cache.set for cache.add).
Acquire_Overwrites(w, j) ==
    /\ Take(w, j)
    /\ cache' = [cache EXCEPT ![Key(j)] = Expiry]
    /\ running' = [running EXCEPT ![w] = j]
    /\ UNCHANGED deaths

\* cache.add succeeds and the task is run.
Acquire(w, j) ==
    /\ Take(w, j)
    /\ cache[Key(j)] = 0
    /\ cache' = [cache EXCEPT ![Key(j)] = Expiry]
    /\ running' = [running EXCEPT ![w] = j]
    /\ UNCHANGED deaths

\* The lock is there already: the task is dropped.
Drop(w, j) ==
    /\ Take(w, j)
    /\ cache[Key(j)] > 0
    /\ UNCHANGED <<cache, running, deaths>>

\* Fault: the key is not deleted when the task raises.
EndTask_KeptOnError(w) ==
    /\ running[w] # NoJob
    /\ cache' \in {cache, [cache EXCEPT ![Key(running[w])] = 0]}
    /\ running' = [running EXCEPT ![w] = NoJob]
    /\ UNCHANGED <<queue, deaths>>

\* The task returns or raises; either way the key is deleted, whoever set it.
EndTask(w) ==
    /\ running[w] # NoJob
    /\ cache' = [cache EXCEPT ![Key(running[w])] = 0]
    /\ running' = [running EXCEPT ![w] = NoJob]
    /\ UNCHANGED <<queue, deaths>>

\* The worker dies and leaves the key behind.
Die(w) ==
    /\ running[w] # NoJob /\ deaths < MaxDeaths
    /\ deaths' = deaths + 1
    /\ running' = [running EXCEPT ![w] = NoJob]
    /\ UNCHANGED <<queue, cache>>

\* Time passes, for every lock.
Less(n) == IF n > 0 THEN n - 1 ELSE 0

Tick ==
    /\ \E k \in Keys : cache[k] > 0
    /\ Overrun \/ \A w \in Workers : running[w] # NoJob => cache[Key(running[w])] > 1
    /\ cache' = [k \in Keys |-> Less(cache[k])]
    /\ UNCHANGED <<queue, running, deaths>>

Next ==
    \/ \E f \in Functions : Command(f)
    \/ \E w \in Workers, j \in Jobs : Acquire(w, j) \/ Drop(w, j)
    \/ \E w \in Workers : EndTask(w) \/ Die(w)
    \/ Tick

Spec == Init /\ [][Next]_vars

\* The commands are scheduled, tasks end, time passes, and every message is
\* eventually looked at by a worker, which may find it locked.
Fairness ==
    /\ \A f \in Functions : WF_vars(Command(f))
    /\ \A j \in Jobs : SF_vars(\E w \in Workers : Acquire(w, j) \/ Drop(w, j))
    /\ \A w \in Workers : WF_vars(EndTask(w))
    /\ WF_vars(Tick)

FairSpec == Spec /\ Fairness
-----------------------------------------------------------------------------
TypeOK ==
    /\ queue \in [Jobs -> 0..MaxQueued]
    /\ cache \in [Keys -> 0..Expiry]
    /\ running \in [Workers -> Jobs \cup {NoJob}]
    /\ deaths \in 0..MaxDeaths

\* Two tasks of one kind never work on one configuration at a time, dead workers
\* and dropped tasks included (tasks.py, locked).
OnePerConfiguration ==
    \A v, w \in Workers : v # w /\ running[v] # NoJob => running[v] # running[w]

\* Unless a worker has died, a lock is held for a task that is running: whichever
\* way a task ends, it leaves the way free for the next one (locked, finally).
LocksAreReleased ==
    deaths = 0 => \A k \in Keys : cache[k] > 0 =>
                     \E w \in Workers : running[w] # NoJob /\ Key(running[w]) = k

\* The lock of a running task is there, so that another one is dropped.
LockedWhileRunning ==
    \A w \in Workers : running[w] # NoJob => cache[Key(running[w])] > 0

\* However tasks are dropped, raise or die, each configuration is worked on again
\* and again by the tasks whose lock is its own: a lock keeps none out for good.
EveryConfigurationServed == \A j \in Jobs : j[1] \in Keyword => []<>Running(j)
=============================================================================
