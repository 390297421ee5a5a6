--------------------------- MODULE TaskLockProofs ---------------------------
(***************************************************************************)
(* What holds of TaskLock for every set of configurations and workers.      *)
(***************************************************************************)
EXTENDS TaskLock, TLAPS

LEMMA KeyOfJob == \A j \in Jobs : Key(j) \in Keys
BY DEF Jobs, Keys, Key

LEMMA NoJobIsNoJob == NoJob \notin Jobs
BY LockAssumption DEF Jobs, NoJob

\* A worker in a task: the task's lock is one of the cache's.
LEMMA RunningKey ==
    ASSUME TypeOK, NEW w \in Workers, running[w] # NoJob
    PROVE  running[w] \in Jobs /\ Key(running[w]) \in Keys
BY KeyOfJob DEF TypeOK

LEMMA TypeStep == TypeOK /\ [Next]_vars => TypeOK'
<1> SUFFICES ASSUME TypeOK, [Next]_vars PROVE TypeOK'
    OBVIOUS
<1> USE DEF TypeOK
<1>1. ASSUME NEW f \in Functions, Command(f) PROVE TypeOK'
  <2>1. ASSUME NEW j \in Jobs, j[1] = f PROVE queue[j] + 1 \in 0..MaxQueued
    <3>1. j = <<f, j[2]>> /\ j[2] \in Configs
        BY <2>1 DEF Jobs
    <3>2. queue[j] < MaxQueued
        BY <1>1, <3>1 DEF Command
    <3> QED
        BY <3>2, LockAssumption
  <2> QED
    BY <1>1, <2>1 DEF Command
<1>2. ASSUME NEW w \in Workers, NEW j \in Jobs, Take(w, j)
      PROVE  queue' \in [Jobs -> 0..MaxQueued]
    BY <1>2, LockAssumption DEF Take
<1>3. ASSUME NEW w \in Workers, NEW j \in Jobs, Acquire(w, j) PROVE TypeOK'
  <2>1. Expiry \in 0..Expiry
    BY LockAssumption
  <2> QED
    BY <1>2, <1>3, <2>1, KeyOfJob DEF Acquire
<1>4. ASSUME NEW w \in Workers, NEW j \in Jobs, Drop(w, j) PROVE TypeOK'
    BY <1>2, <1>4 DEF Drop
<1>5. ASSUME NEW w \in Workers, EndTask(w) PROVE TypeOK'
  <2>1. 0 \in 0..Expiry
    BY LockAssumption
  <2>2. cache' \in [Keys -> 0..Expiry]
    BY <1>5, <2>1 DEF EndTask
  <2>3. running' \in [Workers -> Jobs \cup {NoJob}]
    BY <1>5 DEF EndTask
  <2> QED
    BY <1>5, <2>2, <2>3 DEF EndTask
<1>6. ASSUME NEW w \in Workers, Die(w) PROVE TypeOK'
    BY <1>6, LockAssumption DEF Die
<1>7. ASSUME Tick PROVE TypeOK'
    BY <1>7, LockAssumption DEF Tick, Less
<1>8. CASE UNCHANGED vars
    BY <1>8 DEF vars
<1> QED
    BY <1>1, <1>3, <1>4, <1>5, <1>6, <1>7, <1>8 DEF Next

LEMMA InitType == Init => TypeOK
BY LockAssumption DEF Init, TypeOK

\* The state is well typed, however many workers die and tasks outlive their locks.
THEOREM TypeCorrect == Spec => []TypeOK
BY InitType, TypeStep, PTL DEF Spec
-----------------------------------------------------------------------------
\* Two running tasks have different locks.
OnePerKey ==
    \A v, w \in Workers : v # w /\ running[v] # NoJob /\ running[w] # NoJob =>
        Key(running[v]) # Key(running[w])

LockInv == TypeOK /\ LockedWhileRunning /\ OnePerKey

LEMMA LockInit == Init => LockInv
BY InitType DEF Init, LockInv, LockedWhileRunning, OnePerKey

LEMMA LockStep == LockInv /\ ~Overrun /\ [Next]_vars => LockInv'
<1> SUFFICES ASSUME LockInv, ~Overrun, [Next]_vars PROVE LockInv'
    OBVIOUS
<1> USE DEF LockInv
<1>t. TypeOK'
    BY TypeStep
<1>1. ASSUME NEW f \in Functions, Command(f) PROVE LockInv'
    BY <1>1, <1>t DEF Command, LockedWhileRunning, OnePerKey
<1>2. ASSUME NEW w \in Workers, NEW j \in Jobs, Acquire(w, j) PROVE LockInv'
  <2>1. running' = [running EXCEPT ![w] = j] /\ cache[Key(j)] = 0
        /\ cache' = [cache EXCEPT ![Key(j)] = Expiry]
    BY <1>2 DEF Acquire
  <2>2. \A v \in Workers : v # w => running'[v] = running[v]
    BY <2>1 DEF TypeOK
  <2>3. running'[w] = j /\ cache'[Key(j)] > 0
    BY <2>1, KeyOfJob, LockAssumption DEF TypeOK
  <2>4. \A v \in Workers : running[v] # NoJob => Key(running[v]) # Key(j)
    BY <2>1 DEF LockedWhileRunning
  <2>5. LockedWhileRunning'
    BY <2>1, <2>2, <2>3, <2>4, RunningKey DEF LockedWhileRunning, TypeOK
  <2>6. OnePerKey'
    BY <2>2, <2>3, <2>4 DEF OnePerKey
  <2> QED
    BY <1>t, <2>5, <2>6
<1>3. ASSUME NEW w \in Workers, NEW j \in Jobs, Drop(w, j) PROVE LockInv'
    BY <1>3, <1>t DEF Drop, LockedWhileRunning, OnePerKey
<1>4. ASSUME NEW w \in Workers, EndTask(w) PROVE LockInv'
  <2>1. running' = [running EXCEPT ![w] = NoJob] /\ running[w] # NoJob
        /\ cache' = [cache EXCEPT ![Key(running[w])] = 0]
    BY <1>4 DEF EndTask
  <2>2. running'[w] = NoJob /\ \A v \in Workers : v # w => running'[v] = running[v]
    BY <2>1 DEF TypeOK
  <2>3. OnePerKey'
    BY <2>2 DEF OnePerKey
  <2>4. LockedWhileRunning'
    BY <2>1, <2>2, RunningKey DEF LockedWhileRunning, OnePerKey, TypeOK
  <2> QED
    BY <1>t, <2>3, <2>4
<1>5. ASSUME NEW w \in Workers, Die(w) PROVE LockInv'
    BY <1>5, <1>t DEF Die, LockedWhileRunning, OnePerKey, TypeOK
<1>6. ASSUME Tick PROVE LockInv'
  <2>1. OnePerKey'
    BY <1>6 DEF Tick, OnePerKey
  <2>2. ASSUME NEW w \in Workers, running[w] # NoJob PROVE cache'[Key(running[w])] > 0
    <3>1. cache[Key(running[w])] \in Nat /\ cache[Key(running[w])] > 1
        BY <1>6, <2>2, RunningKey DEF Tick, TypeOK
    <3> QED
        BY <1>6, <2>2, <3>1, RunningKey DEF Tick, Less
  <2>3. LockedWhileRunning'
    BY <1>6, <2>2 DEF Tick, LockedWhileRunning
  <2> QED
    BY <1>t, <2>1, <2>3
<1>7. CASE UNCHANGED vars
    BY <1>7, <1>t DEF vars, LockedWhileRunning, OnePerKey
<1> QED
    BY <1>1, <1>2, <1>3, <1>4, <1>5, <1>6, <1>7 DEF Next

\* As long as no task outlives its lock, no two tasks of one kind are in the same
\* configuration: for any number of workers and deaths, and however the tasks are
\* queued (tasks.py, locked).
THEOREM TasksExclude == ~Overrun /\ Spec => []OnePerConfiguration
<1>1. LockInv => OnePerConfiguration
    BY DEF LockInv, OnePerKey, OnePerConfiguration
<1>2. ASSUME ~Overrun PROVE Spec => []OnePerConfiguration
  <2>1. LockInv /\ [Next]_vars => LockInv'
    BY <1>2, LockStep
  <2> QED
    BY <1>1, <2>1, LockInit, PTL DEF Spec
<1> QED
    BY <1>2
-----------------------------------------------------------------------------
LEMMA ReleaseStep == TypeOK /\ LocksAreReleased /\ [Next]_vars => LocksAreReleased'
<1> SUFFICES ASSUME TypeOK, LocksAreReleased, [Next]_vars, deaths' = 0,
                    NEW k \in Keys, cache'[k] > 0
             PROVE  \E w \in Workers : running'[w] # NoJob /\ Key(running'[w]) = k
    BY DEF LocksAreReleased
<1>1. ASSUME deaths = 0, cache[k] > 0
      PROVE  \E w \in Workers : running[w] # NoJob /\ Key(running[w]) = k
    BY <1>1 DEF LocksAreReleased
<1>2. ASSUME NEW f \in Functions, Command(f)
      PROVE  \E w \in Workers : running'[w] # NoJob /\ Key(running'[w]) = k
    BY <1>1, <1>2 DEF Command
<1>3. ASSUME NEW v \in Workers, NEW j \in Jobs, Acquire(v, j)
      PROVE  \E w \in Workers : running'[w] # NoJob /\ Key(running'[w]) = k
  <2>1. deaths = 0 /\ running'[v] = j /\ running[v] = NoJob
    BY <1>3 DEF Acquire, Take, TypeOK
  <2>2. CASE k = Key(j)
    BY <2>1, <2>2, NoJobIsNoJob
  <2>3. CASE k # Key(j)
    <3>1. cache[k] > 0
        BY <1>3, <2>3 DEF Acquire, TypeOK
    <3>2. PICK w \in Workers : running[w] # NoJob /\ Key(running[w]) = k
        BY <1>1, <2>1, <3>1
    <3>3. running'[w] = running[w]
        BY <1>3, <2>1, <3>2 DEF Acquire, TypeOK
    <3> QED
        BY <3>2, <3>3
  <2> QED
    BY <2>2, <2>3
<1>4. ASSUME NEW v \in Workers, NEW j \in Jobs, Drop(v, j)
      PROVE  \E w \in Workers : running'[w] # NoJob /\ Key(running'[w]) = k
    BY <1>1, <1>4 DEF Drop
<1>5. ASSUME NEW v \in Workers, EndTask(v)
      PROVE  \E w \in Workers : running'[w] # NoJob /\ Key(running'[w]) = k
  <2>1. k # Key(running[v]) /\ cache[k] > 0 /\ deaths = 0
    BY <1>5 DEF EndTask, TypeOK
  <2>2. PICK w \in Workers : running[w] # NoJob /\ Key(running[w]) = k
    BY <1>1, <2>1
  <2>3. running'[w] = running[w]
    BY <1>5, <2>1, <2>2 DEF EndTask, TypeOK
  <2> QED
    BY <2>2, <2>3
<1>6. ASSUME NEW v \in Workers, Die(v) PROVE FALSE
    BY <1>6, LockAssumption DEF Die, TypeOK
<1>7. ASSUME Tick
      PROVE  \E w \in Workers : running'[w] # NoJob /\ Key(running'[w]) = k
  <2>1. cache[k] > 0
    BY <1>7 DEF Tick, Less, TypeOK
  <2> QED
    BY <1>1, <1>7, <2>1 DEF Tick
<1>8. CASE UNCHANGED vars
    BY <1>1, <1>8 DEF vars
<1> QED
    BY <1>2, <1>3, <1>4, <1>5, <1>6, <1>7, <1>8 DEF Next

\* Until a worker dies, a lock in the cache belongs to a task that is running, also
\* when tasks raise or outlive their locks (tasks.py, locked).
THEOREM LocksReleased == Spec => []LocksAreReleased
<1>1. Init => TypeOK /\ LocksAreReleased
    BY InitType DEF Init, LocksAreReleased
<1>2. TypeOK /\ LocksAreReleased /\ [Next]_vars => (TypeOK /\ LocksAreReleased)'
    BY TypeStep, ReleaseStep
<1> QED
    BY <1>1, <1>2, PTL DEF Spec
=============================================================================
