------------------------- MODULE WebhookQueueProofs -------------------------
(***************************************************************************)
(* What holds of WebhookQueue for every set of keys, rows and processes.    *)
(***************************************************************************)
EXTENDS WebhookRefinement, FiniteSetTheorems, TLAPS

\* The records the initial state and the idle processes are made of.
LEMMA Defaults ==
    /\ NoRow \in Row
    /\ IdleRouter \in RouterState
    /\ IdleWorker \in WorkerState
    /\ NoForm \in FormState
<1>1. AKey \in Keys
    BY KeysAssumption DEF AKey
<1>2. AnId \in RowIds
    BY KeysAssumption DEF AnId
<1>3. NoRow \in Row
    BY <1>1, RegionsAssumption DEF NoRow, Row, Delays, Status
<1>4. 0 \in 0..MaxRetries
    BY RetriesAssumption
<1> QED
    BY <1>2, <1>3, <1>4
    DEF IdleRouter, IdleWorker, NoForm, RouterPC, WorkerPC, RouterState, WorkerState, FormState

\* A worker that goes on with a row of the right type keeps its type.
LEMMA GoOnType ==
    ASSUME TypeOK, NEW w \in Workers, NEW pc \in WorkerPC, NEW item \in Row,
           NEW limit \in 0..MaxRetries
    PROVE  GoOn(w, pc, item, limit) \in [Workers -> WorkerState]
<1>1. worker[w].id \in RowIds
    BY DEF TypeOK, WorkerState
<1>2. [pc |-> pc, id |-> worker[w].id, item |-> item, limit |-> limit] \in WorkerState
    BY <1>1 DEF WorkerState
<1> QED
    BY <1>2 DEF TypeOK, GoOn

LEMMA DecideType ==
    ASSUME TypeOK, NEW w \in Workers, NEW status \in Status, NEW pc \in WorkerPC
    PROVE  Decide(w, status, pc) \in [Workers -> WorkerState]
<1>1. worker[w].item \in Row /\ worker[w].limit \in 0..MaxRetries
    BY DEF TypeOK, WorkerState
<1>2. [worker[w].item EXCEPT !.status = status] \in Row
    BY <1>1 DEF Row
<1> QED
    BY <1>1, <1>2, GoOnType DEF Decide

LEMMA IdleType ==
    ASSUME TypeOK, NEW w \in Workers
    PROVE  [worker EXCEPT ![w] = IdleWorker] \in [Workers -> WorkerState]
BY Defaults DEF TypeOK

LEMMA TypeStep == TypeOK /\ [Next]_vars => TypeOK'
<1> SUFFICES ASSUME TypeOK, [Next]_vars PROVE TypeOK'
  OBVIOUS
<1>1. ASSUME NEW r \in Routers, NEW k \in Keys, NEW region \in Regions,
             RouteEvent(r, k, region)
      PROVE  TypeOK'
  <2>1. [key |-> k, region |-> region, status |-> "pending", attempts |-> 0,
         delay |-> 0] \in Row
    BY DEF Row, Status, Active, Delays
  <2> QED
    BY <1>1, <2>1, Defaults DEF TypeOK, RouteEvent, RouterPC, IdleRouter, RouterState
<1>2. ASSUME NEW r \in Routers, RouterStep(r) PROVE TypeOK'
  <2>1. CASE InsertRow(r)
    <3>1. router[r].item \in Row
      BY DEF TypeOK, RouterState
    <3>2. PICK i \in RowIds :
            /\ row' = [row EXCEPT ![i] = router[r].item]
            /\ router' = [router EXCEPT ![r] = [@ EXCEPT !.pc = "publish", !.id = i]]
      BY <2>1 DEF InsertRow
    <3>3. [router[r] EXCEPT !.pc = "publish", !.id = i] \in RouterState
      BY DEF TypeOK, RouterState, RouterPC
    <3> QED
      BY <2>1, <3>1, <3>2, <3>3 DEF TypeOK, InsertRow
  <2>2. CASE InsertRefused(r)
    BY <2>2, Defaults DEF TypeOK, InsertRefused
  <2>3. CASE PublishTask(r)
    BY <2>3, Defaults DEF TypeOK, PublishTask, RouterState
  <2> QED
    BY <1>2, <2>1, <2>2, <2>3 DEF RouterStep
<1>3. ASSUME NEW w \in Workers, NEW i \in RowIds, FetchRow(w, i) PROVE TypeOK'
  <2>1. 0 \in 0..MaxRetries
    BY RetriesAssumption
  <2>2. [pc |-> "mark", id |-> i, item |-> row[i], limit |-> 0] \in WorkerState
    BY <2>1 DEF TypeOK, WorkerState, WorkerPC
  <2> QED
    BY <1>3, <2>2 DEF TypeOK, FetchRow
<1>4. ASSUME NEW w \in Workers, WorkerStep(w) PROVE TypeOK'
  <2> DEFINE item == worker[w].item
             i == worker[w].id
  <2>0. /\ item \in Row /\ i \in RowIds /\ row[i] \in Row
        /\ worker[w].limit \in 0..MaxRetries
    BY DEF TypeOK, WorkerState
  <2>1. CASE MarkProcessing(w)
    <3>1. item.attempts + 1 \in Nat /\ 0 \in 0..MaxRetries
      BY <2>0, RetriesAssumption DEF Row
    <3>2. ASSUME NEW r \in Row
          PROVE  [r EXCEPT !.status = "processing", !.attempts = item.attempts + 1] \in Row
      BY <3>1 DEF Row, Status, Active
    <3>3. /\ [row[i] EXCEPT !.status = "processing", !.attempts = item.attempts + 1] \in Row
          /\ [item EXCEPT !.status = "processing", !.attempts = item.attempts + 1] \in Row
      BY <2>0, <3>2
    <3>4. CASE Conflict(i, row[i].key, "processing")
      BY <2>1, <3>4, IdleType DEF TypeOK, MarkProcessing
    <3>5. CASE ~Conflict(i, row[i].key, "processing")
      <4>1. /\ row' = [row EXCEPT ![i] = [@ EXCEPT !.status = "processing",
                                                 !.attempts = item.attempts + 1]]
            /\ worker' = GoOn(w, "lookup", [item EXCEPT !.status = "processing",
                                             !.attempts = item.attempts + 1], 0)
        BY <2>1, <3>5 DEF MarkProcessing
      <4>2. worker' \in [Workers -> WorkerState]
        BY <3>1, <3>3, <4>1, GoOnType DEF WorkerPC
      <4> QED
        BY <2>1, <3>3, <4>1, <4>2 DEF TypeOK, MarkProcessing
    <3> QED
      BY <3>4, <3>5
  <2>2. CASE LookupConfig(w)
    <3>1. CASE Lookup(item.region) = NoConfig
      <4>1. worker' \in [Workers -> WorkerState]
        BY <2>2, <3>1, DecideType DEF LookupConfig, WorkerPC, Status
      <4> QED
        BY <2>2, <4>1 DEF TypeOK, LookupConfig
    <3>2. CASE Lookup(item.region) # NoConfig
      <4>1. Lookup(item.region) \in Regions
        BY <2>0, <3>2, RegionsAssumption DEF Lookup, Row
      <4>2. config[Lookup(item.region)].retries \in 0..MaxRetries
        BY <4>1, RetriesAssumption DEF TypeOK, Config
      <4>3. worker' \in [Workers -> WorkerState]
        BY <2>0, <2>2, <3>2, <4>2, GoOnType DEF LookupConfig, WorkerPC
      <4> QED
        BY <2>2, <4>3 DEF TypeOK, LookupConfig
    <3> QED
      BY <3>1, <3>2
  <2>3. CASE SendAccepted(w)
    <3>1. worker' \in [Workers -> WorkerState]
      BY <2>3, DecideType DEF SendAccepted, WorkerPC, Status, Active
    <3> QED
      BY <2>0, <2>3, <3>1 DEF TypeOK, SendAccepted
  <2>4. CASE SendRejected(w)
    <3>1. worker' \in [Workers -> WorkerState]
      BY <2>4, DecideType DEF SendRejected, WorkerPC, Status
    <3> QED
      BY <2>0, <2>4, <3>1 DEF TypeOK, SendRejected
  <2>5. CASE SendRaises(w)
    <3>1. worker' \in [Workers -> WorkerState]
      BY <2>5, DecideType DEF SendRaises, WorkerPC, Status
    <3> QED
      BY <2>0, <2>5, <3>1 DEF TypeOK, SendRaises
  <2>6. CASE ScheduleRetry(w)
    <3>1. item.attempts \in 0..MaxRetries
      BY <2>0, <2>6, RetriesAssumption DEF ScheduleRetry, Row
    <3>2. Backoff(item.attempts) \in Delays
      BY <3>1 DEF Delays
    <3>3. [item EXCEPT !.status = "pending", !.delay = Backoff(item.attempts)] \in Row
      BY <2>0, <3>2 DEF Row, Status, Active
    <3>4. worker' \in [Workers -> WorkerState]
      BY <2>0, <2>6, <3>3, GoOnType DEF ScheduleRetry, WorkerPC
    <3> QED
      BY <2>0, <2>6, <3>4 DEF TypeOK, ScheduleRetry
  <2>7. CASE GiveUp(w)
    <3>1. worker' \in [Workers -> WorkerState]
      BY <2>7, DecideType DEF GiveUp, WorkerPC, Status
    <3> QED
      BY <2>7, <3>1 DEF TypeOK, GiveUp
  <2>8. CASE SaveRow(w)
    BY <2>0, <2>8, IdleType DEF TypeOK, SaveRow
  <2> QED
    BY <1>4, <2>1, <2>2, <2>3, <2>4, <2>5, <2>6, <2>7, <2>8 DEF WorkerStep
<1>5. ASSUME NEW i \in RowIds, CountdownElapses(i) PROVE TypeOK'
  BY <1>5 DEF TypeOK, CountdownElapses
<1>6. CASE Fault
  <2>1. ASSUME NEW r \in Routers, RouterFault(r) PROVE TypeOK'
    BY <2>1, Defaults DEF TypeOK, RouterFault, Spend, Bounds
  <2>2. ASSUME NEW w \in Workers, LookupRaises(w) PROVE TypeOK'
    <3>1. [worker[w].item EXCEPT !.status = "failed"] \in Row
      BY DEF TypeOK, WorkerState, Row, Status
    <3>2. worker' \in [Workers -> WorkerState]
      <4>1. DefaultRetries \in 0..MaxRetries /\ "raised" \in WorkerPC
        BY RetriesAssumption DEF DefaultRetries, WorkerPC
      <4> QED
        BY <2>2, <3>1, <4>1, GoOnType DEF LookupRaises
    <3> QED
      BY <2>2, <3>2 DEF TypeOK, LookupRaises, Spend, Bounds
  <2>3. ASSUME NEW w \in Workers, RetryRaises(w) PROVE TypeOK'
    <3>1. worker' \in [Workers -> WorkerState]
      BY <2>3, DecideType, IdleType DEF RetryRaises, WorkerPC, Status
    <3> QED
      BY <2>3, <3>1 DEF TypeOK, RetryRaises, Spend, Bounds
  <2>4. ASSUME NEW w \in Workers, WorkerFault(w) PROVE TypeOK'
    BY <2>4, Defaults DEF TypeOK, WorkerFault, Spend, Bounds
  <2>5. ASSUME NEW i \in RowIds, Redeliver(i) PROVE TypeOK'
    BY <2>5 DEF TypeOK, Redeliver, Spend, Bounds
  <2> QED
    BY <1>6, <2>1, <2>2, <2>3, <2>4, <2>5 DEF Fault
<1>7. CASE Operator
  <2>1. ASSUME NEW i \in RowIds, OpenForm(i) PROVE TypeOK'
    BY <2>1 DEF TypeOK, OpenForm, FormState
  <2>2. CASE SubmitCancel
    <3>1. form.id \in RowIds /\ [form.item EXCEPT !.status = "cancelled"] \in Row
      BY DEF TypeOK, FormState, Row, Status
    <3> QED
      BY <2>2, <3>1, Defaults DEF TypeOK, SubmitCancel, Spend, Bounds
  <2>3. ASSUME NEW r \in Regions, NEW c \in Config, EditConfig(r, c) PROVE TypeOK'
    BY <2>3 DEF TypeOK, EditConfig, Spend, Bounds
  <2> QED
    BY <1>7, <2>1, <2>2, <2>3 DEF Operator
<1>8. CASE UNCHANGED vars
  BY <1>8 DEF TypeOK, vars
<1> QED
  BY <1>1, <1>2, <1>3, <1>4, <1>5, <1>6, <1>7, <1>8 DEF Next

\* Every variable keeps its type: the steps of the routers, the workers, the
\* broker and the operator are total on the states they are enabled in.
THEOREM TypeCorrect == Spec => []TypeOK
<1>1. Init => TypeOK
    BY Defaults DEF Init, TypeOK
<1>2. TypeOK /\ [Next]_vars => TypeOK'
    BY TypeStep
<1> QED
    BY <1>1, <1>2, PTL DEF Spec
-----------------------------------------------------------------------------
\* The broker delivers once, workers save in time, nothing is cancelled.
Quietly == MaxDuplicates = 0 /\ MaxCancels = 0 /\ PromptSave

\* A task goes on with its row, counting what it sends and publishing at most
\* the one retry its copy of the row then says is pending.
TaskGoesOn(w) ==
    LET i == worker[w].id
        now == worker[w]
        next == worker'[w]
    IN /\ now.pc \in {"lookup", "send", "rejected", "raised"}
       /\ \A v \in Workers \ {w} : worker'[v] = worker[v]
       /\ next.id = i
       /\ next.pc \in {"send", "rejected", "raised", "save"}
       /\ next.item.key = now.item.key
       /\ next.item.attempts = now.item.attempts
       /\ next.pc \in {"rejected", "raised"} => next.item.status = "failed"
       /\ next.pc = "save" => next.item.status \in {"pending", "success", "failed"}
       /\ UNCHANGED <<row, ready, router, form>>
       /\ delayed' = IF next.pc = "save" /\ next.item.status = "pending"
                      THEN [delayed EXCEPT ![i] = @ + 1] ELSE delayed
       /\ next.pc = "save" /\ next.item.status = "pending" => now.item.attempts <= MaxRetries
       /\ \A j \in RowIds : accepted[j] <= accepted'[j] /\ (j # i => posts'[j] = posts[j])
       /\ \/ posts' = posts /\ (next.pc = "send" => now.pc = "lookup")
          \/ now.pc = "send" /\ next.pc # "send" /\ posts'[i] <= posts[i] + 1
       /\ next.pc = "save" /\ next.item.status = "success" => accepted'[i] > 0

LEMMA TaskGoesOnKeepsInv ==
    ASSUME Inv, TypeOK', NEW w \in Workers, TaskGoesOn(w)
    PROVE  Inv'
<1> DEFINE item == worker[w].item
           i == worker[w].id
<1> USE DEF TaskGoesOn
<1>1. /\ i \in RowIds /\ item.attempts \in Nat /\ row[i].attempts \in Nat
      /\ MaxRetries \in Nat
  BY RetriesAssumption DEF Inv, TypeOK, WorkerState, Row
<1>2. /\ ready[i] = 0 /\ delayed[i] = 0
      /\ row[i].status = "processing"
      /\ item.attempts = row[i].attempts
  BY DEF Inv, TaskHoldsRow, CopyIsFresh
<1>3. /\ \A j \in RowIds \ {i} : delayed'[j] = delayed[j]
      /\ delayed'[i] = IF worker'[w].pc = "save" /\ worker'[w].item.status = "pending"
                       THEN 1 ELSE 0
  BY <1>1, <1>2 DEF Inv, TypeOK
<1>4. \A v \in Workers \ {w} : worker[v].pc # "idle" => worker[v].id # i
  BY <1>1 DEF Inv, OneWorkerPerRow, Busy
<1>5. OneWorkerPerRow'
  BY <1>1 DEF Inv, OneWorkerPerRow, Busy
<1>6. MessageOnce'
  BY <1>1, <1>2, <1>3 DEF Inv, MessageOnce, Open, Quiet
<1>7. TaskHoldsRow'
  <2> SUFFICES ASSUME NEW v \in Workers, worker'[v].pc # "idle"
               PROVE  /\ row[worker'[v].id].status \in {"pending", "processing"}
                      /\ ready'[worker'[v].id] = 0
                      /\ delayed'[worker'[v].id] =
                           IF worker'[v].pc = "save" /\ worker'[v].item.status = "pending"
                           THEN 1 ELSE 0
    BY DEF TaskHoldsRow, Open
  <2>1. CASE v = w
    BY <2>1, <1>1, <1>2, <1>3 DEF Open
  <2>2. CASE v # w
    <3>1. worker'[v] = worker[v] /\ worker[v].id \in RowIds \ {i}
      BY <2>2, <1>4 DEF Inv, TypeOK, WorkerState
    <3> QED
      BY <3>1, <1>3 DEF Inv, TaskHoldsRow, Open
  <2> QED
    BY <2>1, <2>2
<1>8. RouterHoldsRow'
  BY <1>1, <1>2, <1>3 DEF Inv, RouterHoldsRow, Quiet, Busy
<1>9. OneRouterPerRow'
  BY DEF Inv, OneRouterPerRow
<1>10. CopyIsFresh'
  BY <1>1, <1>2 DEF Inv, CopyIsFresh
<1>11. RoomForAttempt'
  BY <1>1, <1>2, <1>3 DEF Inv, RoomForAttempt, Quiet
<1>12. PostsCounted'
  <2>1. \A j \in RowIds : posts'[j] <= row[j].attempts
    BY <1>1, <1>2 DEF Inv, PostsCounted, TypeOK
  <2>2. \A v \in Workers : worker'[v].pc \in {"lookup", "send"} =>
            posts'[worker'[v].id] < worker'[v].item.attempts
    BY <1>1, <1>2, <1>4, SMTT(40) DEF Inv, PostsCounted, TypeOK, WorkerState
  <2> QED
    BY <2>1, <2>2 DEF PostsCounted
<1>13. AcceptedBeforeSuccess'
  <2>1. SuccessWasAccepted'
    BY <1>1 DEF Inv, AcceptedBeforeSuccess, SuccessWasAccepted, TypeOK
  <2>2. \A v \in Workers : worker'[v].pc = "save" /\ worker'[v].item.status = "success" =>
            accepted'[worker'[v].id] > 0
    <3>1. \A v \in Workers : /\ worker[v].id \in RowIds
                             /\ accepted[worker[v].id] \in Nat
                             /\ accepted'[worker[v].id] \in Nat
                             /\ accepted[worker[v].id] <= accepted'[worker[v].id]
      BY DEF Inv, TypeOK, WorkerState
    <3>2. ASSUME NEW v \in Workers \ {w}, worker[v].pc = "save", worker[v].item.status = "success"
          PROVE  accepted'[worker[v].id] > 0
      BY <3>1, <3>2 DEF Inv, AcceptedBeforeSuccess
    <3> QED
      BY <3>2
  <2> QED
    BY <2>1, <2>2 DEF AcceptedBeforeSuccess
<1>14. Undisturbed'
  BY DEF Inv, Undisturbed
<1> QED
  BY <1>5, <1>6, <1>7, <1>8, <1>9, <1>10, <1>11, <1>12, <1>13, <1>14 DEF Inv

\* A task that ends without writing leaves nothing behind.
LEMMA TaskEnds ==
    ASSUME Inv, NEW w \in Workers, worker' = [worker EXCEPT ![w] = IdleWorker],
           UNCHANGED <<row, ready, delayed, router, form, posts, accepted>>, TypeOK'
    PROVE  Inv'
<1>1. worker'[w].pc = "idle" /\ \A v \in Workers \ {w} : worker'[v] = worker[v]
  BY DEF Inv, TypeOK, IdleWorker
<1>2. OneWorkerPerRow' /\ MessageOnce' /\ TaskHoldsRow'
  BY <1>1 DEF Inv, OneWorkerPerRow, Busy, MessageOnce, TaskHoldsRow, Open, Quiet
<1>3. RouterHoldsRow' /\ OneRouterPerRow' /\ Undisturbed'
  BY <1>1 DEF Inv, RouterHoldsRow, OneRouterPerRow, Undisturbed, Quiet, Busy
<1>4. CopyIsFresh'
  BY <1>1 DEF Inv, CopyIsFresh
<1>5. RoomForAttempt' /\ PostsCounted' /\ AcceptedBeforeSuccess'
  BY <1>1 DEF Inv, RoomForAttempt, PostsCounted, AcceptedBeforeSuccess, SuccessWasAccepted, Quiet
<1> QED
  BY <1>2, <1>3, <1>4, <1>5 DEF Inv

\* The fields of a worker's state after GoOn, and of a row after its changes.
LEMMA GoOnFields ==
    ASSUME TypeOK, NEW w \in Workers, NEW pc, NEW item, NEW limit,
           worker' = GoOn(w, pc, item, limit)
    PROVE  /\ \A v \in Workers \ {w} : worker'[v] = worker[v]
           /\ worker'[w].pc = pc /\ worker'[w].id = worker[w].id
           /\ worker'[w].item = item /\ worker'[w].limit = limit
BY DEF TypeOK, GoOn

LEMMA RowFields ==
    ASSUME NEW r \in Row, NEW s, NEW n, NEW d
    PROVE  /\ [r EXCEPT !.status = s].key = r.key
           /\ [r EXCEPT !.status = s].attempts = r.attempts
           /\ [r EXCEPT !.status = s].status = s
           /\ [r EXCEPT !.status = s, !.attempts = n].key = r.key
           /\ [r EXCEPT !.status = s, !.attempts = n].attempts = n
           /\ [r EXCEPT !.status = s, !.attempts = n].status = s
           /\ [r EXCEPT !.status = s, !.delay = d].key = r.key
           /\ [r EXCEPT !.status = s, !.delay = d].attempts = r.attempts
           /\ [r EXCEPT !.status = s, !.delay = d].status = s
BY DEF Row

LEMMA WorkerStepKeepsInv ==
    ASSUME Inv, TypeOK', NEW w \in Workers,
           WorkerStep(w) \/ LookupRaises(w) \/ RetryRaises(w) \/ WorkerFault(w)
    PROVE  Inv'
<1> DEFINE item == worker[w].item
           i == worker[w].id
<1>1. /\ i \in RowIds /\ item \in Row /\ row[i] \in Row /\ worker[w] \in WorkerState
      /\ posts \in [RowIds -> Nat] /\ accepted \in [RowIds -> Nat]
      /\ MaxRetries \in Nat /\ TypeOK
  BY RetriesAssumption DEF Inv, TypeOK, WorkerState
<1>2. worker[w].pc # "idle" =>
        /\ ready[i] = 0
        /\ item.key = row[i].key /\ item.attempts = row[i].attempts
        /\ \A v \in Workers \ {w} : worker[v].pc # "idle" => worker[v].id # i
  BY <1>1 DEF Inv, TaskHoldsRow, CopyIsFresh, OneWorkerPerRow, Busy
<1>3. ASSUME NEW status, NEW pc, worker' = Decide(w, status, pc)
      PROVE  /\ \A v \in Workers \ {w} : worker'[v] = worker[v]
             /\ worker'[w].id = i /\ worker'[w].pc = pc
             /\ worker'[w].item.status = status
             /\ worker'[w].item.key = item.key
             /\ worker'[w].item.attempts = item.attempts
  <2>1. worker' = GoOn(w, pc, [item EXCEPT !.status = status], worker[w].limit)
    BY <1>3 DEF Decide
  <2>2. /\ \A v \in Workers \ {w} : worker'[v] = worker[v]
        /\ worker'[w].pc = pc /\ worker'[w].id = i
        /\ worker'[w].item = [item EXCEPT !.status = status]
    BY <1>1, <2>1, GoOnFields
  <2> QED
    BY <1>1, <2>2, RowFields
<1>5. CASE MarkProcessing(w) /\ Conflict(i, row[i].key, "processing")
  BY <1>5, TaskEnds DEF MarkProcessing
<1>6. CASE MarkProcessing(w) /\ ~Conflict(i, row[i].key, "processing")
  <2>1. /\ worker[w].pc = "mark" /\ item = row[i] /\ item.attempts <= MaxRetries
        /\ item.attempts \in Nat
        /\ delayed[i] = 0 /\ posts[i] <= item.attempts
        /\ row[i].status \in {"pending", "processing"}
    BY <1>1, <1>6 DEF MarkProcessing, Inv, CopyIsFresh, RoomForAttempt, TaskHoldsRow,
                      PostsCounted, Row, Open
  <2>2. /\ \A v \in Workers \ {w} : worker'[v] = worker[v]
        /\ worker'[w].id = i /\ worker'[w].pc = "lookup"
        /\ worker'[w].item.attempts = item.attempts + 1
        /\ worker'[w].item.key = item.key
        /\ worker'[w].item.status = "processing"
    <3>1. worker' = GoOn(w, "lookup", [item EXCEPT !.status = "processing",
                                          !.attempts = item.attempts + 1], 0)
      BY <1>6 DEF MarkProcessing
    <3>2. /\ \A v \in Workers \ {w} : worker'[v] = worker[v]
          /\ worker'[w].pc = "lookup" /\ worker'[w].id = i
          /\ worker'[w].item = [item EXCEPT !.status = "processing",
                                            !.attempts = item.attempts + 1]
      BY <1>1, <3>1, GoOnFields
    <3> QED
      BY <1>1, <3>2, RowFields
  <2>3. /\ \A j \in RowIds \ {i} : row'[j] = row[j]
        /\ row'[i].key = item.key /\ row'[i].attempts = item.attempts + 1
        /\ row'[i].status = "processing"
        /\ UNCHANGED <<ready, delayed, router, form, posts, accepted>>
    <3>1. /\ row' = [row EXCEPT ![i] = [@ EXCEPT !.status = "processing",
                                             !.attempts = item.attempts + 1]]
          /\ UNCHANGED <<ready, delayed, router, form, posts, accepted>>
      BY <1>6 DEF MarkProcessing
    <3>2. row'[i] = [item EXCEPT !.status = "processing", !.attempts = item.attempts + 1]
      BY <1>1, <2>1, <3>1 DEF TypeOK
    <3>3. /\ row'[i].key = item.key /\ row'[i].attempts = item.attempts + 1
          /\ row'[i].status = "processing"
      BY <1>1, <3>2, RowFields
    <3> QED
      BY <1>1, <3>1, <3>3 DEF TypeOK
  <2>4. OneWorkerPerRow'
    BY <1>1, <2>1, <2>2 DEF Inv, OneWorkerPerRow, Busy
  <2>5. MessageOnce'
    BY <1>2, <2>1, <2>3 DEF Inv, MessageOnce, Open, Quiet
  <2>6. TaskHoldsRow'
    <3> SUFFICES ASSUME NEW v \in Workers, worker'[v].pc # "idle"
                 PROVE  /\ row'[worker'[v].id].status \in {"pending", "processing"}
                        /\ ready[worker'[v].id] = 0
                        /\ delayed[worker'[v].id] =
                             IF worker'[v].pc = "save" /\ worker'[v].item.status = "pending"
                             THEN 1 ELSE 0
      BY <2>3 DEF TaskHoldsRow, Open
    <3>1. CASE v = w
      BY <3>1, <1>2, <2>1, <2>2, <2>3
    <3>2. CASE v # w
      <4>1. /\ worker'[v] = worker[v] /\ worker[v].id \in RowIds \ {i}
            /\ row'[worker[v].id] = row[worker[v].id]
        BY <3>2, <1>2, <2>1, <2>2, <2>3 DEF Inv, TypeOK, WorkerState
      <4> QED
        BY <4>1 DEF Inv, TaskHoldsRow, Open
    <3> QED
      BY <3>1, <3>2
  <2>7. RouterHoldsRow' /\ OneRouterPerRow' /\ Undisturbed'
    BY <1>1, <2>1, <2>2, <2>3
    DEF Inv, RouterHoldsRow, OneRouterPerRow, Undisturbed, Quiet, Busy, TypeOK, RouterState
  <2>8. CopyIsFresh'
    BY <1>1, <1>2, <2>1, <2>2, <2>3 DEF Inv, CopyIsFresh, TypeOK, WorkerState
  <2>9. RoomForAttempt'
    BY <1>1, <1>2, <2>1, <2>2, <2>3 DEF Inv, RoomForAttempt, Quiet
  <2>10. PostsCounted'
    <3>1. \A j \in RowIds : posts[j] <= row'[j].attempts
      BY <1>1, <2>1, <2>3 DEF Inv, PostsCounted
    <3>2. \A v \in Workers : worker'[v].pc \in {"lookup", "send"} =>
              posts[worker'[v].id] < worker'[v].item.attempts
      BY <1>1, <2>1, <2>2 DEF Inv, PostsCounted
    <3> QED
      BY <3>1, <3>2, <2>3 DEF PostsCounted
  <2>11. AcceptedBeforeSuccess'
    BY <1>1, <2>2, <2>3 DEF Inv, AcceptedBeforeSuccess, SuccessWasAccepted
  <2> QED
    BY <2>4, <2>5, <2>6, <2>7, <2>8, <2>9, <2>10, <2>11 DEF Inv
<1>7. CASE LookupConfig(w)
  <2>1. CASE Lookup(item.region) = NoConfig
    <3>1. TaskGoesOn(w)
      BY <1>1, <1>3, <1>7, <2>1 DEF TaskGoesOn, LookupConfig
    <3> QED
      BY <3>1, TaskGoesOnKeepsInv
  <2>2. CASE Lookup(item.region) # NoConfig
    <3>1. /\ \A v \in Workers \ {w} : worker'[v] = worker[v]
          /\ worker'[w].id = i /\ worker'[w].pc = "send" /\ worker'[w].item = item
      <4>1. worker' = GoOn(w, "send", item, config[Lookup(item.region)].retries)
        BY <1>7, <2>2 DEF LookupConfig
      <4> HIDE DEF item, i
      <4>2. ASSUME NEW limit, worker' = GoOn(w, "send", item, limit)
            PROVE  /\ \A v \in Workers \ {w} : worker'[v] = worker[v]
                   /\ worker'[w].id = worker[w].id
                   /\ worker'[w].pc = "send" /\ worker'[w].item = item
        BY <1>1, <4>2, GoOnFields
      <4> QED
        BY <4>1, <4>2 DEF i
    <3>2. /\ worker[w].pc = "lookup"
          /\ UNCHANGED <<row, ready, delayed, router, form, posts, accepted>>
      BY <1>7 DEF LookupConfig
    <3>3. TaskGoesOn(w)
      BY <1>1, <3>1, <3>2 DEF TaskGoesOn
    <3> QED
      BY <3>3, TaskGoesOnKeepsInv
  <2> QED
    BY <2>1, <2>2
<1>8. CASE SendAccepted(w)
  <2>1. TaskGoesOn(w)
    BY <1>1, <1>3, <1>8 DEF TaskGoesOn, SendAccepted
  <2> QED
    BY <2>1, TaskGoesOnKeepsInv
<1>9. CASE SendRejected(w)
  <2>1. TaskGoesOn(w)
    BY <1>1, <1>3, <1>9 DEF TaskGoesOn, SendRejected
  <2> QED
    BY <2>1, TaskGoesOnKeepsInv
<1>10. CASE SendRaises(w)
  <2>1. TaskGoesOn(w)
    BY <1>1, <1>3, <1>10 DEF TaskGoesOn, SendRaises
  <2> QED
    BY <2>1, TaskGoesOnKeepsInv
<1>11. CASE ScheduleRetry(w)
  <2>1. worker'[w].pc = "save" /\ worker'[w].id = i
        /\ worker'[w].item = [item EXCEPT !.status = "pending", !.delay = Backoff(item.attempts)]
        /\ \A v \in Workers \ {w} : worker'[v] = worker[v]
    BY <1>1, <1>11, GoOnFields DEF ScheduleRetry
  <2>2. /\ worker'[w].item.key = item.key /\ worker'[w].item.attempts = item.attempts
        /\ worker'[w].item.status = "pending"
    BY <1>1, <2>1, RowFields
  <2>3. item.attempts <= MaxRetries
    BY <1>1, <1>11 DEF ScheduleRetry, WorkerState, Row
  <2>4. /\ worker[w].pc \in {"rejected", "raised"}
        /\ delayed' = [delayed EXCEPT ![i] = @ + 1]
        /\ UNCHANGED <<row, ready, router, form, posts, accepted>>
    BY <1>11 DEF ScheduleRetry
  <2>5. TaskGoesOn(w)
    BY <1>1, <2>1, <2>2, <2>3, <2>4 DEF TaskGoesOn
  <2> QED
    BY <2>5, TaskGoesOnKeepsInv
<1>12. CASE GiveUp(w)
  <2>1. TaskGoesOn(w)
    BY <1>1, <1>3, <1>12 DEF TaskGoesOn, GiveUp
  <2> QED
    BY <2>1, TaskGoesOnKeepsInv
<1>13. CASE SaveRow(w) /\ Conflict(i, item.key, item.status)
  BY <1>13, TaskEnds DEF SaveRow
<1>18. CASE SaveRow(w) /\ ~Conflict(i, item.key, item.status)
  <2>1. /\ worker[w].pc = "save" /\ row' = [row EXCEPT ![i] = item]
        /\ worker' = [worker EXCEPT ![w] = IdleWorker]
        /\ UNCHANGED <<ready, delayed, router, form, posts, accepted>>
    BY <1>18 DEF SaveRow
  <2>2. /\ row'[i] = item /\ \A j \in RowIds \ {i} : row'[j] = row[j]
        /\ worker'[w].pc = "idle" /\ \A v \in Workers \ {w} : worker'[v] = worker[v]
    BY <1>1, <2>1 DEF TypeOK, IdleWorker
  <2>3. /\ item.status \in {"pending", "success", "failed"}
        /\ row[i].status = "processing"
        /\ delayed[i] = IF item.status = "pending" THEN 1 ELSE 0
    BY <2>1 DEF Inv, CopyIsFresh, TaskHoldsRow
  <2>4. OneWorkerPerRow'
    BY <2>2 DEF Inv, OneWorkerPerRow, Busy
  <2>5. MessageOnce'
    BY <1>2, <2>1, <2>2, <2>3 DEF Inv, MessageOnce, Open, Quiet
  <2>6. TaskHoldsRow'
    BY <1>1, <1>2, <2>1, <2>2 DEF Inv, TaskHoldsRow, Open, TypeOK, WorkerState
  <2>7. RouterHoldsRow' /\ OneRouterPerRow' /\ Undisturbed'
    BY <1>1, <2>1, <2>2, <2>3
    DEF Inv, RouterHoldsRow, OneRouterPerRow, Undisturbed, Quiet, Busy, TypeOK, RouterState
  <2>8. CopyIsFresh'
    BY <1>1, <1>2, <2>1, <2>2 DEF Inv, CopyIsFresh, TypeOK, WorkerState
  <2>9. RoomForAttempt'
    BY <1>1, <1>2, <2>1, <2>2, <2>3 DEF Inv, RoomForAttempt, Quiet
  <2>10. PostsCounted'
    BY <1>1, <1>2, <2>1, <2>2 DEF Inv, PostsCounted
  <2>11. AcceptedBeforeSuccess'
    BY <1>1, <2>1, <2>2 DEF Inv, AcceptedBeforeSuccess, SuccessWasAccepted
  <2> QED
    BY <2>4, <2>5, <2>6, <2>7, <2>8, <2>9, <2>10, <2>11 DEF Inv
<1>14. CASE LookupRaises(w)
  <2>1. worker'[w].pc = "raised" /\ worker'[w].id = i
        /\ worker'[w].item = [item EXCEPT !.status = "failed"]
        /\ \A v \in Workers \ {w} : worker'[v] = worker[v]
    BY <1>1, <1>14, GoOnFields DEF LookupRaises
  <2>2. /\ worker'[w].item.key = item.key /\ worker'[w].item.attempts = item.attempts
        /\ worker'[w].item.status = "failed"
    BY <1>1, <2>1, RowFields
  <2>3. TaskGoesOn(w)
    BY <1>1, <1>14, <2>1, <2>2 DEF TaskGoesOn, LookupRaises
  <2> QED
    BY <2>3, TaskGoesOnKeepsInv
<1>15. CASE RetryRaises(w) /\ worker[w].pc = "rejected"
  <2>1. TaskGoesOn(w)
    BY <1>1, <1>3, <1>15 DEF TaskGoesOn, RetryRaises
  <2> QED
    BY <2>1, TaskGoesOnKeepsInv
<1>16. CASE RetryRaises(w) /\ worker[w].pc # "rejected"
  BY <1>16, TaskEnds DEF RetryRaises
<1>17. CASE WorkerFault(w)
  BY <1>17, TaskEnds DEF WorkerFault
<1> QED
  BY <1>5, <1>6, <1>7, <1>8, <1>9, <1>10, <1>11, <1>12, <1>13, <1>14, <1>15, <1>16, <1>17, <1>18
  DEF WorkerStep

LEMMA OthersKeepInv ==
    ASSUME Quietly, Inv, [Next]_vars, TypeOK',
           \A w \in Workers : ~(WorkerStep(w) \/ LookupRaises(w) \/ RetryRaises(w)
                                \/ WorkerFault(w))
    PROVE  Inv'
<1> USE DEF Inv
<1>1. ASSUME NEW r \in Routers, NEW k \in Keys, NEW region \in Regions, RouteEvent(r, k, region)
      PROVE  Inv'
  <2>1. /\ UNCHANGED <<row, ready, delayed, worker, form, posts, accepted>>
        /\ \A q \in Routers \ {r} : router'[q] = router[q]
        /\ router'[r].pc = "create"
        /\ router'[r].item.status = "pending" /\ router'[r].item.attempts = 0
    BY <1>1 DEF RouteEvent, TypeOK
  <2>2. RouterHoldsRow' /\ OneRouterPerRow' /\ Undisturbed'
    BY <2>1 DEF RouterHoldsRow, OneRouterPerRow, Undisturbed, Quiet, Busy
  <2> QED
    BY <2>1, <2>2
    DEF OneWorkerPerRow, MessageOnce, TaskHoldsRow, CopyIsFresh, RoomForAttempt, PostsCounted,
        AcceptedBeforeSuccess, SuccessWasAccepted, Open, Quiet, Busy
<1>2. ASSUME NEW r \in Routers, InsertRow(r) PROVE Inv'
  <2>1. PICK i \in RowIds :
          /\ router[r].pc = "create" /\ row[i].status = "none"
          /\ row' = [row EXCEPT ![i] = router[r].item]
          /\ router' = [router EXCEPT ![r] = [@ EXCEPT !.pc = "publish", !.id = i]]
          /\ UNCHANGED <<ready, delayed, worker, form, posts, accepted>>
    BY <1>2 DEF InsertRow
  <2>2. /\ row'[i].status = "pending" /\ row'[i].attempts = 0
        /\ \A j \in RowIds \ {i} : row'[j] = row[j]
        /\ router'[r].pc = "publish" /\ router'[r].id = i
        /\ \A q \in Routers \ {r} : router'[q] = router[q]
    BY <2>1 DEF TypeOK, RouterState, Undisturbed
  <2>3. /\ Quiet(i) /\ \A w \in Workers : ~Busy(w, i)
        /\ \A q \in Routers : router[q].pc = "publish" => router[q].id # i
    BY <2>1 DEF MessageOnce, TaskHoldsRow, RouterHoldsRow, Open, Quiet, Busy
  <2>4. OneWorkerPerRow' /\ MessageOnce'
    BY <2>1, <2>2 DEF OneWorkerPerRow, MessageOnce, Open, Quiet, Busy
  <2>5. TaskHoldsRow' /\ CopyIsFresh'
    BY <2>1, <2>2, <2>3 DEF TaskHoldsRow, CopyIsFresh, Open, Busy, TypeOK, WorkerState
  <2>6. RouterHoldsRow' /\ OneRouterPerRow' /\ Undisturbed'
    BY <2>1, <2>2, <2>3
    DEF RouterHoldsRow, OneRouterPerRow, Undisturbed, Quiet, Busy, TypeOK, RouterState
  <2>7. RoomForAttempt'
    BY <2>1, <2>2, RetriesAssumption DEF RoomForAttempt, Quiet
  <2>8. PostsCounted'
    BY <2>1, <2>2 DEF PostsCounted, RoomForAttempt
  <2>9. AcceptedBeforeSuccess'
    BY <2>1, <2>2 DEF AcceptedBeforeSuccess, SuccessWasAccepted
  <2> QED
    BY <2>4, <2>5, <2>6, <2>7, <2>8, <2>9
<1>3. ASSUME NEW r \in Routers, InsertRefused(r) \/ RouterFault(r) PROVE Inv'
  <2>1. /\ UNCHANGED <<row, ready, delayed, worker, form, posts, accepted>>
        /\ router'[r].pc = "idle"
        /\ \A q \in Routers \ {r} : router'[q] = router[q]
    BY <1>3 DEF InsertRefused, RouterFault, IdleRouter, TypeOK
  <2>2. RouterHoldsRow' /\ OneRouterPerRow' /\ Undisturbed'
    BY <2>1 DEF RouterHoldsRow, OneRouterPerRow, Undisturbed, Quiet, Busy
  <2> QED
    BY <2>1, <2>2
    DEF OneWorkerPerRow, MessageOnce, TaskHoldsRow, CopyIsFresh, RoomForAttempt, PostsCounted,
        AcceptedBeforeSuccess, SuccessWasAccepted, Open, Quiet, Busy
<1>4. ASSUME NEW r \in Routers, PublishTask(r) PROVE Inv'
  <2> DEFINE i == router[r].id
  <2>1. /\ i \in RowIds /\ router[r].pc = "publish"
        /\ UNCHANGED <<row, delayed, worker, form, posts, accepted>>
        /\ router'[r].pc = "idle" /\ \A q \in Routers \ {r} : router'[q] = router[q]
    BY <1>4 DEF PublishTask, IdleRouter, TypeOK, RouterState
  <2>2. /\ ready[i] = 0 /\ delayed[i] = 0 /\ row[i].status = "pending" /\ row[i].attempts = 0
        /\ \A w \in Workers : ~Busy(w, i)
        /\ \A q \in Routers \ {r} : router[q].pc = "publish" => router[q].id # i
    BY <2>1 DEF RouterHoldsRow, OneRouterPerRow, Quiet
  <2>3. ready'[i] = 1 /\ \A j \in RowIds \ {i} : ready'[j] = ready[j]
    BY <1>4, <2>1, <2>2 DEF PublishTask, TypeOK
  <2>4. OneWorkerPerRow' /\ MessageOnce'
    BY <2>1, <2>2, <2>3 DEF OneWorkerPerRow, MessageOnce, Open, Quiet, Busy
  <2>5. TaskHoldsRow' /\ CopyIsFresh'
    BY <2>1, <2>2, <2>3 DEF TaskHoldsRow, CopyIsFresh, Open, Busy, TypeOK, WorkerState
  <2>6. RouterHoldsRow'
    <3>1. ASSUME NEW q \in Routers, router'[q].pc = "publish"
          PROVE  /\ router'[q] = router[q] /\ router[q].pc = "publish"
                 /\ router[q].id \in RowIds \ {i}
      BY <3>1, <2>1, <2>2 DEF TypeOK, RouterState
    <3> QED
      BY <3>1, <2>1, <2>3 DEF RouterHoldsRow, Quiet, Busy
  <2>8. OneRouterPerRow' /\ Undisturbed'
    BY <2>1, <2>2 DEF OneRouterPerRow, Undisturbed
  <2>7. RoomForAttempt'
    BY <2>1, <2>2, <2>3, RetriesAssumption DEF RoomForAttempt, Quiet
  <2> QED
    BY <2>1, <2>4, <2>5, <2>6, <2>7, <2>8
    DEF PostsCounted, AcceptedBeforeSuccess, SuccessWasAccepted
<1>5. ASSUME NEW w \in Workers, NEW i \in RowIds, FetchRow(w, i) PROVE Inv'
  <2>1. /\ worker[w].pc = "idle" /\ ready[i] = 1 /\ delayed[i] = 0
        /\ row[i].status \in {"pending", "processing"} /\ row[i].attempts <= MaxRetries
        /\ \A v \in Workers : ~Busy(v, i)
    <3>1. worker[w].pc = "idle" /\ ready[i] > 0 /\ delayed[i] \in Nat /\ ready[i] \in Nat
      BY <1>5 DEF FetchRow, TypeOK
    <3>2. ready[i] + delayed[i] <= 1 /\ ~Quiet(i)
      BY <3>1 DEF MessageOnce, Quiet
    <3>3. ready[i] = 1 /\ delayed[i] = 0
      BY <3>1, <3>2
    <3>4. row[i].status \in {"pending", "processing"} /\ row[i].attempts <= MaxRetries
      BY <3>2 DEF MessageOnce, RoomForAttempt, Open
    <3>5. \A v \in Workers : ~Busy(v, i)
      BY <3>1 DEF TaskHoldsRow, Busy
    <3> QED
      BY <3>1, <3>3, <3>4, <3>5
  <2>2. /\ UNCHANGED <<row, delayed, router, form, posts, accepted>>
        /\ ready'[i] = 0 /\ \A j \in RowIds \ {i} : ready'[j] = ready[j]
        /\ worker'[w] = [pc |-> "mark", id |-> i, item |-> row[i], limit |-> 0]
        /\ \A v \in Workers \ {w} : worker'[v] = worker[v]
    BY <1>5, <2>1 DEF FetchRow, TypeOK
  <2>3. OneWorkerPerRow' /\ MessageOnce'
    BY <2>1, <2>2 DEF OneWorkerPerRow, MessageOnce, Open, Quiet, Busy
  <2>4. TaskHoldsRow' /\ CopyIsFresh'
    BY <2>1, <2>2, SMTT(40) DEF TaskHoldsRow, CopyIsFresh, Open, Busy, TypeOK, WorkerState
  <2>5. RouterHoldsRow' /\ OneRouterPerRow' /\ Undisturbed'
    BY <2>1, <2>2
    DEF RouterHoldsRow, OneRouterPerRow, Undisturbed, Quiet, Busy, TypeOK, RouterState
  <2>6. RoomForAttempt'
    BY <2>1, <2>2 DEF RoomForAttempt, Quiet
  <2>7. PostsCounted'
    BY <2>1, <2>2 DEF PostsCounted
  <2>8. AcceptedBeforeSuccess'
    BY <2>1, <2>2 DEF AcceptedBeforeSuccess, SuccessWasAccepted
  <2> QED
    BY <2>3, <2>4, <2>5, <2>6, <2>7, <2>8
<1>6. ASSUME NEW i \in RowIds, CountdownElapses(i) PROVE Inv'
  <2>1. /\ delayed[i] = 1 /\ ready[i] = 0
        /\ \A w \in Workers : ~(worker[w].pc = "save" /\ worker[w].id = i)
        /\ UNCHANGED <<row, router, worker, form, posts, accepted>>
    <3>1. delayed[i] > 0 /\ delayed[i] \in Nat /\ ready[i] \in Nat
      BY <1>6 DEF CountdownElapses, TypeOK
    <3>2. ready[i] + delayed[i] <= 1
      BY DEF MessageOnce
    <3>3. delayed[i] = 1 /\ ready[i] = 0
      BY <3>1, <3>2
    <3> QED
      BY <1>6, <3>3 DEF CountdownElapses, Quietly
  <2>2. /\ delayed'[i] = 0 /\ ready'[i] = 1
        /\ \A j \in RowIds \ {i} : delayed'[j] = delayed[j] /\ ready'[j] = ready[j]
    BY <1>6, <2>1 DEF CountdownElapses, TypeOK
  <2>3. \A w \in Workers : ~Busy(w, i)
    BY <2>1 DEF TaskHoldsRow, Busy
  <2>4. OneWorkerPerRow' /\ MessageOnce'
    BY <2>1, <2>2 DEF OneWorkerPerRow, MessageOnce, Open, Quiet, Busy
  <2>5. TaskHoldsRow' /\ CopyIsFresh'
    BY <2>1, <2>2, <2>3 DEF TaskHoldsRow, CopyIsFresh, Open, Busy, TypeOK, WorkerState
  <2>6. RouterHoldsRow' /\ OneRouterPerRow' /\ Undisturbed'
    BY <2>1, <2>2, <2>3
    DEF RouterHoldsRow, OneRouterPerRow, Undisturbed, Quiet, Busy, TypeOK, RouterState
  <2>7. RoomForAttempt'
    BY <2>1, <2>2 DEF RoomForAttempt, Quiet
  <2> QED
    BY <2>1, <2>4, <2>5, <2>6, <2>7 DEF PostsCounted, AcceptedBeforeSuccess, SuccessWasAccepted
<1>7. ASSUME NEW i \in RowIds, Redeliver(i) PROVE Inv'
  BY <1>7, BoundsAssumption DEF Redeliver, Spend, Quietly, TypeOK, Bounds
<1>8. ASSUME NEW i \in RowIds, OpenForm(i) PROVE Inv'
  BY <1>8, BoundsAssumption DEF OpenForm, Quietly, TypeOK, Bounds
<1>9. ASSUME SubmitCancel PROVE Inv'
  BY <1>9 DEF SubmitCancel, Undisturbed
<1>10. ASSUME UNCHANGED <<row, ready, delayed, router, worker, form, posts, accepted>>
       PROVE  Inv'
  BY <1>10
  DEF OneWorkerPerRow, MessageOnce, TaskHoldsRow, RouterHoldsRow, OneRouterPerRow, CopyIsFresh,
      RoomForAttempt, PostsCounted, AcceptedBeforeSuccess, SuccessWasAccepted, Undisturbed,
      Open, Quiet, Busy
<1>11. ASSUME NEW r \in Regions, NEW c \in Config, EditConfig(r, c) PROVE Inv'
  BY <1>10, <1>11 DEF EditConfig
<1>12. CASE UNCHANGED vars
  BY <1>10, <1>12 DEF vars
<1> QED
  BY <1>1, <1>2, <1>3, <1>4, <1>5, <1>6, <1>7, <1>8, <1>9, <1>11, <1>12
  DEF Next, RouterStep, Fault, Operator

LEMMA InvStep == ASSUME Quietly, Inv, [Next]_vars PROVE Inv'
<1>1. TypeOK'
  BY TypeStep DEF Inv
<1>2. CASE \E w \in Workers : WorkerStep(w) \/ LookupRaises(w) \/ RetryRaises(w) \/ WorkerFault(w)
  BY <1>1, <1>2, WorkerStepKeepsInv
<1> QED
  BY <1>1, <1>2, OthersKeepInv

LEMMA InvInit == Init => Inv
<1> SUFFICES ASSUME Init PROVE Inv
  OBVIOUS
<1>1. TypeOK
  BY Defaults DEF Init, TypeOK
<1>2. /\ \A i \in RowIds : /\ row[i].status = "none" /\ row[i].attempts = 0
                           /\ ready[i] = 0 /\ delayed[i] = 0 /\ posts[i] = 0 /\ accepted[i] = 0
      /\ \A w \in Workers : worker[w].pc = "idle"
      /\ \A r \in Routers : router[r].pc = "idle"
      /\ ~form.open
  BY DEF Init, NoRow, IdleWorker, IdleRouter, NoForm
<1>3. OneWorkerPerRow /\ MessageOnce /\ TaskHoldsRow /\ RouterHoldsRow /\ OneRouterPerRow
  BY <1>2 DEF OneWorkerPerRow, MessageOnce, TaskHoldsRow, RouterHoldsRow, OneRouterPerRow, Busy,
              Quiet
<1>4. CopyIsFresh /\ RoomForAttempt /\ PostsCounted /\ AcceptedBeforeSuccess /\ Undisturbed
  BY <1>2, RetriesAssumption
  DEF CopyIsFresh, RoomForAttempt, PostsCounted, AcceptedBeforeSuccess, SuccessWasAccepted,
      Undisturbed, Quiet
<1> QED
  BY <1>1, <1>3, <1>4 DEF Inv

LEMMA InvAlways == ASSUME Quietly PROVE Spec => []Inv
<1>1. Inv /\ [Next]_vars => Inv'
  BY InvStep
<1> QED
  BY InvInit, <1>1, PTL DEF Spec
-----------------------------------------------------------------------------
\* Two tasks never work on one row at once, though process_webhook_queue neither
\* locks the row nor tests for 'processing': with a broker that delivers each
\* message once, the retry a task publishes is the row's only message.
THEOREM TasksExcludeEachOther == ASSUME Quietly PROVE Spec => []OneWorkerPerRow
<1>1. Inv => OneWorkerPerRow
  BY DEF Inv
<1> QED
  BY InvAlways, <1>1, PTL

\* attempt_count is never behind the requests sent, and webhook_retry_attempts
\* bounds both.
THEOREM AttemptsBounded == ASSUME Quietly PROVE Spec => []AttemptsCountPosts
<1>1. Inv => AttemptsCountPosts
  BY DEF Inv, AttemptsCountPosts, PostsCounted, RoomForAttempt
<1> QED
  BY InvAlways, <1>1, PTL

\* A row that succeeded, or failed for good, is never written again.
THEOREM SettledRowsStay == ASSUME Quietly PROVE Spec => SettledForGood
<1> DEFINE Stays == \A i \in RowIds : row[i].status \in {"success", "failed"} => row'[i] = row[i]
<1>1. ASSUME Inv, [Next]_vars PROVE [Stays]_vars
  <2> USE <1>1 DEF Inv
  <2>1. ASSUME NEW r \in Routers, InsertRow(r) PROVE Stays
    BY <2>1 DEF InsertRow, TypeOK
  <2>2. ASSUME NEW w \in Workers, MarkProcessing(w) \/ SaveRow(w) PROVE Stays
    <3>1. worker[w].pc # "idle" /\ worker[w].id \in RowIds
      BY <2>2 DEF MarkProcessing, SaveRow, TypeOK, WorkerState
    <3>2. row[worker[w].id].status \in {"pending", "processing"}
      BY <3>1 DEF TaskHoldsRow, Open
    <3> QED
      BY <2>2, <3>1, <3>2 DEF MarkProcessing, SaveRow, TypeOK
  <2>3. CASE SubmitCancel
    BY <2>3 DEF SubmitCancel, Undisturbed
  <2>4. CASE UNCHANGED row
    BY <2>4
  <2> QED
    BY <2>1, <2>2, <2>3, <2>4
    DEF Next, vars, RouterStep, WorkerStep, Fault, Operator, RouteEvent, InsertRefused,
        PublishTask, RouterFault, FetchRow, LookupConfig, LookupRaises, SendAccepted,
        SendRejected, SendRaises, ScheduleRetry, GiveUp, RetryRaises, WorkerFault,
        CountdownElapses, Redeliver, OpenForm, EditConfig
<1> QED
  BY InvAlways, <1>1, PTL DEF Spec, SettledForGood

\* A step that leaves the table and the history alone is no step of the promise.
LEMMA StutteringStep ==
    ASSUME UNCHANGED <<row, posts, accepted>> PROVE UNCHANGED Delivery!avars
BY DEF Delivery!avars

\* A step that changes one row's phase does so in the abstract function.
LEMMA PhaseStep ==
    ASSUME TypeOK, NEW i \in RowIds, NEW item, row' = [row EXCEPT ![i] = item]
    PROVE  [j \in RowIds |-> Phase(row[j].status)]' =
           [[j \in RowIds |-> Phase(row[j].status)] EXCEPT ![i] = Phase(item.status)]
BY DEF TypeOK

LEMMA DeliveryStep ==
    ASSUME Inv, [Next]_vars PROVE [Delivery!DeliveryNext]_(Delivery!avars)
<1> DEFINE phase == [i \in RowIds |-> Phase(row[i].status)]
<1> USE DEF Inv
<1>1. ASSUME NEW r \in Routers, InsertRow(r) PROVE Delivery!DeliveryNext
  <2>1. PICK i \in RowIds : /\ router[r].pc = "create" /\ row[i].status = "none"
                            /\ row' = [row EXCEPT ![i] = router[r].item]
    BY <1>1 DEF InsertRow
  <2>2. phase' = [phase EXCEPT ![i] = Phase(router[r].item.status)]
    BY <2>1, PhaseStep
  <2>3. phase[i] = "absent" /\ Phase(router[r].item.status) = "open"
    BY <2>1 DEF Phase, Undisturbed
  <2>4. Delivery!Enqueue(i)
    BY <1>1, <2>2, <2>3 DEF Delivery!Enqueue, InsertRow
  <2> QED
    BY <2>4 DEF Delivery!DeliveryNext
<1>2. ASSUME NEW w \in Workers, MarkProcessing(w) PROVE UNCHANGED Delivery!avars
  <2> DEFINE i == worker[w].id
             marked == [row[i] EXCEPT !.status = "processing",
                                      !.attempts = worker[w].item.attempts + 1]
  <2>1. i \in RowIds /\ row[i] \in Row /\ row[i].status \in {"pending", "processing"}
    BY <1>2 DEF MarkProcessing, TypeOK, WorkerState, TaskHoldsRow, Open
  <2>2. CASE UNCHANGED row
    BY <1>2, <2>2, StutteringStep DEF MarkProcessing
  <2>3. CASE row' = [row EXCEPT ![i] = marked]
    <3>1. Phase(marked.status) = "open" /\ phase[i] = "open"
      BY <2>1, RowFields DEF Phase
    <3>2. phase' = [phase EXCEPT ![i] = "open"]
      BY <2>1, <2>3, <3>1, PhaseStep
    <3>3. phase' = phase
      BY <2>1, <3>1, <3>2
    <3> QED
      BY <1>2, <3>3 DEF MarkProcessing, Delivery!avars
  <2> QED
    BY <1>2, <2>2, <2>3 DEF MarkProcessing
<1>3. ASSUME NEW w \in Workers, SendAccepted(w) \/ SendRejected(w) \/ SendRaises(w)
      PROVE  [Delivery!DeliveryNext]_(Delivery!avars)
  <2> DEFINE i == worker[w].id
  <2>1. worker[w].pc = "send" /\ UNCHANGED row
    BY <1>3 DEF SendAccepted, SendRejected, SendRaises
  <2>2. /\ i \in RowIds /\ posts[i] \in Nat /\ row[i].attempts \in Nat
        /\ posts \in [RowIds -> Nat] /\ accepted \in [RowIds -> Nat]
    BY DEF TypeOK, WorkerState, Row
  <2>3. posts[i] < row[i].attempts /\ row[i].attempts <= MaxRetries + 1
    BY <2>1, <2>2 DEF PostsCounted, RoomForAttempt, CopyIsFresh
  <2>4. phase[i] = "open" /\ UNCHANGED phase
    BY <2>1, <2>2 DEF CopyIsFresh, Phase
  <2>5. posts[i] < MaxRetries + 1
    BY <2>2, <2>3, RetriesAssumption
  <2>6. CASE UNCHANGED <<posts, accepted>>
    BY <2>1, <2>6, StutteringStep
  <2>7. CASE /\ posts' = [posts EXCEPT ![i] = @ + 1]
             /\ accepted' = [accepted EXCEPT ![i] = @ + 1] \/ UNCHANGED accepted
    <3>1. Delivery!Send(i)
      BY <2>4, <2>5, <2>7 DEF Delivery!Send
    <3> QED
      BY <2>2, <3>1 DEF Delivery!DeliveryNext
  <2>8. CASE SendRaises(w)
    <3>1. PICK sent \in {0, 1}, taken \in {0, 1} :
            /\ taken <= sent
            /\ posts' = [posts EXCEPT ![i] = @ + sent]
            /\ accepted' = [accepted EXCEPT ![i] = @ + taken]
      BY <2>8 DEF SendRaises
    <3>2. CASE sent = 0
      <4>1. posts' = posts /\ accepted' = accepted
        BY <2>2, <3>1, <3>2
      <4> QED
        BY <4>1, <2>6
    <3>3. CASE sent = 1 /\ taken = 0
      <4>1. accepted' = accepted
        BY <2>2, <3>1, <3>3
      <4> QED
        BY <3>1, <3>3, <4>1, <2>7
    <3>4. CASE sent = 1 /\ taken = 1
      BY <3>1, <3>4, <2>7
    <3> QED
      BY <3>1, <3>2, <3>3, <3>4
  <2> QED
    BY <1>3, <2>7, <2>8 DEF SendAccepted, SendRejected
<1>4. ASSUME NEW w \in Workers, SaveRow(w) PROVE [Delivery!DeliveryNext]_(Delivery!avars)
  <2> DEFINE i == worker[w].id
             item == worker[w].item
  <2>1. /\ i \in RowIds /\ worker[w].pc = "save"
        /\ row[i].status = "processing" /\ item.status \in {"pending", "success", "failed"}
        /\ item.status = "success" => accepted[i] > 0
        /\ UNCHANGED <<posts, accepted>>
    BY <1>4 DEF SaveRow, TypeOK, WorkerState, CopyIsFresh, AcceptedBeforeSuccess
  <2>2. phase[i] = "open"
    BY <2>1 DEF Phase
  <2>3. CASE UNCHANGED row
    BY <2>1, <2>3, StutteringStep
  <2>4. CASE row' = [row EXCEPT ![i] = item]
    <3>1. phase' = [phase EXCEPT ![i] = Phase(item.status)]
      BY <2>1, <2>4, PhaseStep
    <3>2. CASE item.status = "pending"
      <4>1. phase' = phase
        BY <2>1, <2>2, <3>1, <3>2 DEF Phase
      <4> QED
        BY <2>1, <4>1 DEF Delivery!avars
    <3>3. CASE item.status # "pending"
      <4>1. \/ Phase(item.status) = "delivered" /\ accepted[i] > 0
            \/ Phase(item.status) = "abandoned"
        BY <2>1, <3>3 DEF Phase
      <4>2. Delivery!Conclude(i)
        BY <2>1, <2>2, <3>1, <4>1 DEF Delivery!Conclude
      <4> QED
        BY <2>1, <4>2 DEF Delivery!DeliveryNext
    <3> QED
      BY <3>2, <3>3
  <2> QED
    BY <1>4, <2>3, <2>4 DEF SaveRow
<1>5. CASE SubmitCancel
  BY <1>5 DEF SubmitCancel, Undisturbed
<1>6. CASE UNCHANGED <<row, posts, accepted>>
  BY <1>6, StutteringStep
<1> QED
  BY <1>1, <1>2, <1>3, <1>4, <1>5, <1>6
  DEF Next, vars, RouterStep, WorkerStep, Fault, Operator, RouteEvent, InsertRefused,
      PublishTask, RouterFault, FetchRow, LookupConfig, LookupRaises, ScheduleRetry, GiveUp,
      RetryRaises, WorkerFault, CountdownElapses, Redeliver, OpenForm, EditConfig

\* The queue implements WebhookDelivery: each row is sent a bounded number of
\* times, only while it is open, and concluded once.
THEOREM QueueImplementsDelivery == ASSUME Quietly PROVE Spec => ImplementsDelivery
<1>1. Init => Delivery!DeliveryInit
  BY DEF Init, Delivery!DeliveryInit, Phase, NoRow
<1>2. Inv /\ [Next]_vars => [Delivery!DeliveryNext]_(Delivery!avars)
  BY DeliveryStep
<1> QED
  BY InvAlways, <1>1, <1>2, PTL DEF Spec, ImplementsDelivery, Delivery!DeliverySpec
-----------------------------------------------------------------------------
(* Without Quietly: messages come twice, rows are cancelled, workers save   *)
(* over each other.                                                         *)

\* The steps of a task that write no row.
TaskThinks(w) ==
    \/ LookupConfig(w) \/ LookupRaises(w)
    \/ SendAccepted(w) \/ SendRejected(w) \/ SendRaises(w)
    \/ ScheduleRetry(w) \/ GiveUp(w) \/ RetryRaises(w) \/ WorkerFault(w)

\* Such a step keeps its row's copy under the row's key, finds success only in
\* an accepted request, decides to retry only once the retry is published, and
\* ends the task only when something fails.
LEMMA TaskThinksFields ==
    ASSUME TypeOK, NEW w \in Workers, TaskThinks(w)
    PROVE  /\ UNCHANGED <<row, ready, router, form>>
           /\ worker[w].pc # "idle"
           /\ \A v \in Workers \ {w} : worker'[v] = worker[v]
           /\ \A j \in RowIds : delayed'[j] >= delayed[j] /\ accepted'[j] >= accepted[j]
           /\ worker'[w].pc = "idle" => spent["faults"] < MaxFaults
           /\ worker'[w].pc # "idle" =>
                /\ worker'[w].id = worker[w].id
                /\ worker'[w].item.key = worker[w].item.key
                /\ \/ worker'[w].item.status \in {"pending", "failed"}
                   \/ worker'[w].item.status = "success" /\ accepted'[worker[w].id] > 0
                   \/ worker'[w].item = worker[w].item /\ worker'[w].pc # "save"
                /\ worker'[w].pc = "save" /\ worker'[w].item.status = "pending" =>
                     delayed'[worker[w].id] > 0
<1> DEFINE i == worker[w].id
           item == worker[w].item
<1>1. /\ i \in RowIds /\ item \in Row /\ worker[w].limit \in 0..MaxRetries
      /\ delayed \in [RowIds -> Nat] /\ accepted \in [RowIds -> Nat]
      /\ worker \in [Workers -> WorkerState]
  BY DEF TypeOK, WorkerState
<1>2. ASSUME NEW s, NEW pc, worker' = Decide(w, s, pc)
      PROVE  /\ \A v \in Workers \ {w} : worker'[v] = worker[v]
             /\ worker'[w].id = i /\ worker'[w].pc = pc
             /\ worker'[w].item.status = s /\ worker'[w].item.key = item.key
  <2>1. worker' = GoOn(w, pc, [item EXCEPT !.status = s], worker[w].limit)
    BY <1>2 DEF Decide
  <2>2. /\ \A v \in Workers \ {w} : worker'[v] = worker[v]
        /\ worker'[w].pc = pc /\ worker'[w].id = i
        /\ worker'[w].item = [item EXCEPT !.status = s]
    BY <1>1, <2>1, GoOnFields
  <2> QED
    BY <1>1, <2>2, RowFields
<1>3. ASSUME worker' = [worker EXCEPT ![w] = IdleWorker]
      PROVE  worker'[w].pc = "idle" /\ \A v \in Workers \ {w} : worker'[v] = worker[v]
  BY <1>1, <1>3 DEF IdleWorker
<1>4. CASE LookupConfig(w)
  <2>1. UNCHANGED <<row, ready, delayed, router, form, accepted>> /\ worker[w].pc = "lookup"
    BY <1>4 DEF LookupConfig
  <2>2. CASE Lookup(item.region) = NoConfig
    <3>1. worker' = Decide(w, "failed", "save")
      BY <1>4, <2>2 DEF LookupConfig
    <3> QED
      BY <1>1, <1>2, <2>1, <3>1
  <2>3. CASE Lookup(item.region) # NoConfig
    <3>2. worker' = GoOn(w, "send", item, config[Lookup(item.region)].retries)
      BY <1>4, <2>3 DEF LookupConfig
    <3>1. /\ \A v \in Workers \ {w} : worker'[v] = worker[v]
          /\ worker'[w].pc = "send" /\ worker'[w].id = i /\ worker'[w].item = item
      <4> DEFINE limit == config[Lookup(item.region)].retries
      <4> HIDE DEF limit, item
      <4> QED
        BY <1>1, <3>2, GoOnFields DEF limit
    <3> QED
      BY <1>1, <2>1, <3>1
  <2> QED
    BY <2>2, <2>3
<1>5. CASE LookupRaises(w)
  <2>1. UNCHANGED <<row, ready, delayed, router, form, accepted>> /\ worker[w].pc = "lookup"
    BY <1>5 DEF LookupRaises
  <2>2. /\ \A v \in Workers \ {w} : worker'[v] = worker[v]
        /\ worker'[w].pc = "raised" /\ worker'[w].id = i
        /\ worker'[w].item = [item EXCEPT !.status = "failed"]
    BY <1>1, <1>5, GoOnFields DEF LookupRaises
  <2>3. worker'[w].item.status = "failed" /\ worker'[w].item.key = item.key
    BY <1>1, <2>2, RowFields
  <2> QED
    BY <1>1, <2>1, <2>2, <2>3
<1>6. CASE SendAccepted(w)
  <2>1. /\ UNCHANGED <<row, ready, delayed, router, form>> /\ worker[w].pc = "send"
        /\ accepted' = [accepted EXCEPT ![i] = @ + 1]
        /\ worker' = Decide(w, "success", "save")
    BY <1>6 DEF SendAccepted
  <2>2. accepted'[i] > 0 /\ \A j \in RowIds : accepted'[j] >= accepted[j]
    BY <1>1, <2>1
  <2> QED
    BY <1>1, <1>2, <2>1, <2>2
<1>7. CASE SendRejected(w) \/ GiveUp(w)
  <2>1. /\ UNCHANGED <<row, ready, delayed, router, form, accepted>>
        /\ worker[w].pc \in {"send", "rejected", "raised"}
        /\ \E pc \in {"rejected", "save"} : worker' = Decide(w, "failed", pc)
    BY <1>7 DEF SendRejected, GiveUp
  <2> QED
    BY <1>1, <1>2, <2>1
<1>8. CASE SendRaises(w)
  <2>1. /\ UNCHANGED <<row, ready, delayed, router, form>> /\ worker[w].pc = "send"
        /\ worker' = Decide(w, "failed", "raised")
    BY <1>8 DEF SendRaises
  <2>2. \A j \in RowIds : accepted'[j] >= accepted[j]
    BY <1>1, <1>8 DEF SendRaises
  <2> QED
    BY <1>1, <1>2, <2>1, <2>2
<1>9. CASE ScheduleRetry(w)
  <2>1. /\ UNCHANGED <<row, ready, router, form, accepted>>
        /\ worker[w].pc \in {"rejected", "raised"}
        /\ delayed' = [delayed EXCEPT ![i] = @ + 1]
    BY <1>9 DEF ScheduleRetry
  <2>2. /\ \A v \in Workers \ {w} : worker'[v] = worker[v]
        /\ worker'[w].pc = "save" /\ worker'[w].id = i
        /\ worker'[w].item = [item EXCEPT !.status = "pending", !.delay = Backoff(item.attempts)]
    BY <1>1, <1>9, GoOnFields DEF ScheduleRetry
  <2>3. worker'[w].item.status = "pending" /\ worker'[w].item.key = item.key
    BY <1>1, <2>2, RowFields
  <2>4. delayed'[i] > 0 /\ \A j \in RowIds : delayed'[j] >= delayed[j]
    BY <1>1, <2>1
  <2> QED
    BY <1>1, <2>1, <2>2, <2>3, <2>4
<1>10. CASE RetryRaises(w) \/ WorkerFault(w)
  <2>1. /\ UNCHANGED <<row, ready, delayed, router, form, accepted>>
        /\ worker[w].pc # "idle" /\ spent["faults"] < MaxFaults
        /\ \/ worker' = Decide(w, "failed", "raised")
           \/ worker' = [worker EXCEPT ![w] = IdleWorker]
    BY <1>10 DEF RetryRaises, WorkerFault, Spend
  <2> QED
    BY <1>1, <1>2, <1>3, <2>1
<1> QED
  BY <1>4, <1>5, <1>6, <1>7, <1>8, <1>9, <1>10 DEF TaskThinks

\* MarkProcessing writes the row and its copy under the key they had, or ends.
LEMMA MarkFields ==
    ASSUME TypeOK, NEW w \in Workers, MarkProcessing(w)
    PROVE  LET i == worker[w].id
           IN  /\ i \in RowIds /\ worker[w].pc = "mark"
               /\ UNCHANGED <<ready, delayed, router, form, accepted>>
               /\ \A v \in Workers \ {w} : worker'[v] = worker[v]
               /\ \A j \in RowIds \ {i} : row'[j] = row[j]
               /\ \/ /\ worker'[w].pc = "idle" /\ row'[i] = row[i]
                     /\ Conflict(i, row[i].key, "processing")
                  \/ /\ worker'[w].pc = "lookup" /\ worker'[w].id = i
                     /\ worker'[w].item.status = "processing"
                     /\ worker'[w].item.key = worker[w].item.key
                     /\ row'[i].status = "processing" /\ row'[i].key = row[i].key
                     /\ ~Conflict(i, row[i].key, "processing")
<1> DEFINE i == worker[w].id
           item == worker[w].item
           marked(r) == [r EXCEPT !.status = "processing", !.attempts = item.attempts + 1]
<1>1. /\ i \in RowIds /\ item \in Row /\ row[i] \in Row /\ 0 \in 0..MaxRetries
      /\ row \in [RowIds -> Row] /\ worker \in [Workers -> WorkerState]
  BY RetriesAssumption DEF TypeOK, WorkerState
<1>2. worker[w].pc = "mark" /\ UNCHANGED <<ready, delayed, router, form, accepted>>
  BY DEF MarkProcessing
<1>3. CASE Conflict(i, row[i].key, "processing")
  <2>1. worker' = [worker EXCEPT ![w] = IdleWorker] /\ UNCHANGED row
    BY <1>3 DEF MarkProcessing
  <2> QED
    BY <1>1, <1>2, <1>3, <2>1 DEF IdleWorker
<1>4. CASE ~Conflict(i, row[i].key, "processing")
  <2>1. row' = [row EXCEPT ![i] = marked(row[i])] /\ worker' = GoOn(w, "lookup", marked(item), 0)
    BY <1>4 DEF MarkProcessing
  <2>2. /\ marked(row[i]).status = "processing" /\ marked(row[i]).key = row[i].key
        /\ marked(item).status = "processing" /\ marked(item).key = item.key
    BY <1>1, RowFields
  <2> HIDE DEF marked
  <2>3. /\ \A v \in Workers \ {w} : worker'[v] = worker[v]
        /\ worker'[w].pc = "lookup" /\ worker'[w].id = i /\ worker'[w].item = marked(item)
    BY <1>1, <2>1, GoOnFields
  <2>4. row'[i] = marked(row[i]) /\ \A j \in RowIds \ {i} : row'[j] = row[j]
    BY <1>1, <2>1
  <2> QED
    BY <1>1, <1>2, <1>4, <2>2, <2>3, <2>4
<1> QED
  BY <1>3, <1>4

\* SaveRow writes the copy, unless the index refuses it, and ends the task.
LEMMA SaveFields ==
    ASSUME TypeOK, NEW w \in Workers, SaveRow(w)
    PROVE  LET i == worker[w].id
               item == worker[w].item
           IN  /\ i \in RowIds /\ worker[w].pc = "save"
               /\ UNCHANGED <<ready, delayed, router, form, accepted>>
               /\ \A v \in Workers \ {w} : worker'[v] = worker[v]
               /\ worker'[w].pc = "idle"
               /\ \A j \in RowIds \ {i} : row'[j] = row[j]
               /\ \/ row'[i] = row[i] /\ Conflict(i, item.key, item.status)
                  \/ row'[i] = item /\ ~Conflict(i, item.key, item.status)
BY DEF SaveRow, TypeOK, WorkerState, IdleWorker

\* InsertRow fills a free primary key with the router's row.
LEMMA InsertFields ==
    ASSUME TypeOK, NEW r \in Routers, InsertRow(r)
    PROVE  \E i \in RowIds :
              /\ router[r].pc = "create"
              /\ row[i].status = "none" /\ ~Conflict(i, router[r].item.key, "pending")
              /\ row'[i] = router[r].item /\ \A j \in RowIds \ {i} : row'[j] = row[j]
              /\ router'[r].pc = "publish" /\ router'[r].id = i
              /\ \A q \in Routers \ {r} : router'[q] = router[q]
              /\ UNCHANGED <<ready, delayed, worker, form, accepted>>
<1>1. PICK i \in RowIds :
        /\ row[i].status = "none"
        /\ ~Conflict(i, router[r].item.key, "pending")
        /\ row' = [row EXCEPT ![i] = router[r].item]
        /\ router' = [router EXCEPT ![r] = [@ EXCEPT !.pc = "publish", !.id = i]]
  BY Zenon DEF InsertRow
<1>2. /\ router'[r].pc = "publish" /\ router'[r].id = i
      /\ \A q \in Routers \ {r} : router'[q] = router[q]
  BY <1>1 DEF TypeOK, RouterState
<1>3. row'[i] = router[r].item /\ \A j \in RowIds \ {i} : row'[j] = row[j]
  BY <1>1 DEF TypeOK
<1> QED
  BY <1>1, <1>2, <1>3 DEF InsertRow
\* Every copy of a row that says "success" is of a row whose request was taken in.
SuccessBacked ==
    /\ SuccessWasAccepted
    /\ \A w \in Workers : worker[w].pc # "idle" /\ worker[w].item.status = "success" =>
         accepted[worker[w].id] > 0
    /\ \A r \in Routers : router[r].pc = "create" => router[r].item.status = "pending"

LEMMA SuccessBackedStep == ASSUME TypeOK, SuccessBacked, [Next]_vars PROVE SuccessBacked'
<1>1. /\ \A w \in Workers : worker[w].id \in RowIds
      /\ \A i \in RowIds : row[i].status = "success" => accepted[i] > 0
      /\ \A w \in Workers : worker[w].pc # "idle" /\ worker[w].item.status = "success" =>
            accepted[worker[w].id] > 0
      /\ \A r \in Routers : router[r].pc = "create" => router[r].item.status = "pending"
      /\ \A i \in RowIds : accepted[i] \in Nat
  BY DEF SuccessBacked, SuccessWasAccepted, TypeOK, WorkerState
<1>2. ASSUME NEW r \in Routers, NEW k \in Keys, NEW region \in Regions, RouteEvent(r, k, region)
      PROVE  SuccessBacked'
  BY <1>1, <1>2 DEF RouteEvent, SuccessBacked, SuccessWasAccepted, TypeOK
<1>3. ASSUME NEW r \in Routers, InsertRow(r) PROVE SuccessBacked'
  <2>1. PICK i \in RowIds :
          /\ router[r].pc = "create"
          /\ row'[i] = router[r].item /\ \A j \in RowIds \ {i} : row'[j] = row[j]
          /\ router'[r].pc = "publish" /\ \A q \in Routers \ {r} : router'[q] = router[q]
          /\ UNCHANGED <<worker, accepted>>
    BY <1>3, InsertFields
  <2> QED
    BY <1>1, <2>1 DEF SuccessBacked, SuccessWasAccepted
<1>4. ASSUME NEW r \in Routers, InsertRefused(r) \/ PublishTask(r) \/ RouterFault(r)
      PROVE  SuccessBacked'
  <2>1. /\ UNCHANGED <<row, worker, accepted>>
        /\ \A q \in Routers : router'[q].pc = "create" => router'[q] = router[q]
    BY <1>4 DEF InsertRefused, PublishTask, RouterFault, IdleRouter, TypeOK
  <2> QED
    BY <1>1, <2>1 DEF SuccessBacked, SuccessWasAccepted
<1>5. ASSUME NEW w \in Workers, NEW i \in RowIds, FetchRow(w, i) PROVE SuccessBacked'
  <2>1. UNCHANGED <<row, router, accepted>>
    BY <1>5 DEF FetchRow
  <2>2. \A v \in Workers : worker'[v] = worker[v] \/ worker'[v].item.status # "success"
    BY <1>5 DEF FetchRow, TypeOK
  <2> QED
    BY <1>1, <2>1, <2>2 DEF SuccessBacked, SuccessWasAccepted
<1>6. ASSUME NEW w \in Workers, TaskThinks(w) PROVE SuccessBacked'
  <2> DEFINE i == worker[w].id
  <2>1. /\ UNCHANGED <<row, router>> /\ worker[w].pc # "idle"
        /\ \A v \in Workers \ {w} : worker'[v] = worker[v]
        /\ \A j \in RowIds : accepted'[j] >= accepted[j]
        /\ worker'[w].pc # "idle" =>
             /\ worker'[w].id = i
             /\ \/ worker'[w].item.status \in {"pending", "failed"}
                \/ worker'[w].item.status = "success" /\ accepted'[i] > 0
                \/ worker'[w].item = worker[w].item
    BY <1>6, TaskThinksFields
  <2>2. \A j \in RowIds : accepted'[j] \in Nat
    BY TypeStep DEF TypeOK
  <2>3. \A j \in RowIds : accepted[j] > 0 => accepted'[j] > 0
    BY <1>1, <2>1, <2>2
  <2>4. ASSUME NEW v \in Workers, worker'[v].pc # "idle", worker'[v].item.status = "success"
        PROVE  accepted'[worker'[v].id] > 0
    <3>1. CASE v = w
      BY <1>1, <2>1, <2>3, <2>4, <3>1
    <3>2. CASE v # w
      BY <1>1, <2>1, <2>3, <2>4, <3>2
    <3> QED
      BY <3>1, <3>2
  <2> QED
    BY <1>1, <2>1, <2>3, <2>4 DEF SuccessBacked, SuccessWasAccepted
<1>7. ASSUME NEW w \in Workers, MarkProcessing(w) PROVE SuccessBacked'
  BY <1>1, <1>7, MarkFields DEF SuccessBacked, SuccessWasAccepted
<1>8. ASSUME NEW w \in Workers, SaveRow(w) PROVE SuccessBacked'
  BY <1>1, <1>8, SaveFields DEF SuccessBacked, SuccessWasAccepted
<1>9. CASE SubmitCancel
  <2>1. /\ UNCHANGED <<worker, router, accepted>> /\ form.item \in Row /\ form.id \in RowIds
        /\ row' = [row EXCEPT ![form.id] = [form.item EXCEPT !.status = "cancelled"]]
    BY <1>9 DEF SubmitCancel, TypeOK, FormState
  <2>2. \A j \in RowIds : row'[j].status = "success" => row[j].status = "success"
    BY <2>1 DEF TypeOK, Row
  <2> QED
    BY <1>1, <2>1, <2>2 DEF SuccessBacked, SuccessWasAccepted
<1>10. CASE UNCHANGED <<row, worker, router, accepted>>
  BY <1>10 DEF SuccessBacked, SuccessWasAccepted
<1> QED
  BY <1>2, <1>3, <1>4, <1>5, <1>6, <1>7, <1>8, <1>9, <1>10
  DEF Next, vars, RouterStep, WorkerStep, TaskThinks, Fault, Operator, CountdownElapses,
      Redeliver, OpenForm, EditConfig

\* Whatever the broker delivers twice, whoever saves over whom and whatever
\* crashes: a row says 'success' only if its request was taken in.
THEOREM SuccessIsTrue == Spec => []SuccessWasAccepted
<1> DEFINE J == TypeOK /\ SuccessBacked
<1>1. Init => J
  <2> SUFFICES ASSUME Init PROVE J
    OBVIOUS
  <2>1. TypeOK
    BY InvInit DEF Inv
  <2>2. SuccessBacked
    BY DEF Init, NoRow, IdleWorker, IdleRouter, SuccessBacked, SuccessWasAccepted
  <2> QED
    BY <2>1, <2>2
<1>2. J /\ [Next]_vars => J'
  BY TypeStep, SuccessBackedStep
<1>3. J => SuccessWasAccepted
  BY DEF SuccessBacked
<1> QED
  BY <1>1, <1>2, <1>3, PTL DEF Spec
-----------------------------------------------------------------------------
\* The index holds two unfinished or successful rows of a key apart.
IndexHolds ==
    UniqueIndex => \A i, j \in RowIds :
        row[i].status \in Active /\ row[j].status \in Active /\ row[i].key = row[j].key => i = j

\* No copy of a row, in a worker or in the admin, has lost the row's key; what a
\* router inserts is pending.
CopiesKeepKeys ==
    /\ \A w \in Workers : worker[w].pc # "idle" =>
         /\ row[worker[w].id].status # "none"
         /\ worker[w].item.key = row[worker[w].id].key
    /\ form.open => row[form.id].status # "none" /\ form.item.key = row[form.id].key
    /\ \A r \in Routers : router[r].pc = "create" => router[r].item.status = "pending"

\* A task saves a row as pending only while the retry it published still waits.
RetryInFlight ==
    \A w \in Workers : worker[w].pc = "save" /\ worker[w].item.status = "pending" =>
        delayed[worker[w].id] > 0

\* Between the request and the save a task has decided.
Decided ==
    \A w \in Workers : worker[w].pc = "save" =>
        worker[w].item.status \in {"pending", "success", "failed"}

\* Messages are of rows in the table.
MessagesHaveRows ==
    /\ \A i \in RowIds : ready[i] > 0 \/ delayed[i] > 0 => row[i].status # "none"
    /\ \A r \in Routers : router[r].pc = "publish" => row[router[r].id].status # "none"

Carried ==
    /\ NoRowStranded /\ IndexHolds
    /\ CopiesKeepKeys /\ RetryInFlight /\ Decided /\ MessagesHaveRows

\* Nothing fails, and workers save before the countdown of their retry elapses.
NothingFails == MaxFaults = 0 /\ PromptSave

\* A step in which the table does not change, one row keeps or wins its carrier
\* and every other row keeps the carriers it has, strands nothing.
LEMMA CarriersKept ==
    ASSUME TypeOK, NoRowStranded, UNCHANGED row,
           \A i \in RowIds : HasCarrier(i) /\ Open(i) => HasCarrier(i)'
    PROVE  NoRowStranded'
BY DEF NoRowStranded, Open

\* A worker's step that leaves it at work, and messages where they are, takes
\* no row its carrier.
LEMMA WorkerCarries ==
    ASSUME NEW w \in Workers, NEW i \in RowIds, HasCarrier(i),
           \A v \in Workers \ {w} : worker'[v] = worker[v],
           \/ worker'[w].pc # "idle" /\ worker'[w].id = worker[w].id
           \/ worker[w].id # i,
           UNCHANGED <<ready, router>>, delayed[i] \in Nat, delayed'[i] \in Nat,
           delayed'[i] >= delayed[i]
    PROVE  HasCarrier(i)'
BY DEF HasCarrier, Busy

LEMMA CarriedStep ==
    ASSUME NothingFails, TypeOK, Carried, [Next]_vars PROVE Carried'
<1> USE DEF Carried
<1>0. /\ row \in [RowIds -> Row] /\ ready \in [RowIds -> Nat] /\ delayed \in [RowIds -> Nat]
      /\ \A j \in RowIds : row'[j] \in Row /\ ready'[j] \in Nat /\ delayed'[j] \in Nat
      /\ \A w \in Workers : worker[w].id \in RowIds /\ worker[w].item \in Row
      /\ form.id \in RowIds /\ form.item \in Row
      /\ \A r \in Routers : router[r].id \in RowIds
  BY TypeStep DEF TypeOK, WorkerState, FormState, RouterState
<1>1. ~(spent["faults"] < MaxFaults)
  BY DEF NothingFails, TypeOK, Bounds
<1>2. ASSUME NEW r \in Routers, NEW k \in Keys, NEW region \in Regions, RouteEvent(r, k, region)
      PROVE  Carried'
  <2>1. /\ UNCHANGED <<row, ready, delayed, worker, form>>
        /\ router[r].pc = "idle" /\ router'[r].pc = "create" /\ router'[r].item.status = "pending"
        /\ \A q \in Routers \ {r} : router'[q] = router[q]
    BY <1>2 DEF RouteEvent, TypeOK
  <2>2. NoRowStranded'
    BY <2>1 DEF NoRowStranded, Open, HasCarrier, Busy
  <2> QED
    BY <2>1, <2>2 DEF IndexHolds, CopiesKeepKeys, RetryInFlight, Decided, MessagesHaveRows
<1>3. ASSUME NEW r \in Routers, InsertRow(r) PROVE Carried'
  <2>1. PICK i \in RowIds :
          /\ router[r].pc = "create"
          /\ row[i].status = "none" /\ ~Conflict(i, router[r].item.key, "pending")
          /\ row'[i] = router[r].item /\ \A j \in RowIds \ {i} : row'[j] = row[j]
          /\ router'[r].pc = "publish" /\ router'[r].id = i
          /\ \A q \in Routers \ {r} : router'[q] = router[q]
          /\ UNCHANGED <<ready, delayed, worker, form>>
    BY <1>3, InsertFields
  <2>2. router[r].item.status = "pending"
    BY <2>1 DEF CopiesKeepKeys
  <2>3. NoRowStranded'
    BY <2>1 DEF NoRowStranded, Open, HasCarrier, Busy
  <2>4. IndexHolds'
    BY <2>1, <2>2 DEF IndexHolds, Conflict, Active
  <2>5. CopiesKeepKeys'
    BY <1>0, <2>1 DEF CopiesKeepKeys
  <2>6. MessagesHaveRows'
    BY <1>0, <2>1, <2>2 DEF MessagesHaveRows
  <2> QED
    BY <2>1, <2>3, <2>4, <2>5, <2>6 DEF RetryInFlight, Decided
<1>4. ASSUME NEW r \in Routers, InsertRefused(r) PROVE Carried'
  <2>1. /\ UNCHANGED <<row, ready, delayed, worker, form>>
        /\ router[r].pc = "create" /\ router'[r].pc = "idle"
        /\ \A q \in Routers \ {r} : router'[q] = router[q]
    BY <1>4 DEF InsertRefused, IdleRouter, TypeOK
  <2>2. NoRowStranded'
    BY <2>1 DEF NoRowStranded, Open, HasCarrier, Busy
  <2> QED
    BY <2>1, <2>2 DEF IndexHolds, CopiesKeepKeys, RetryInFlight, Decided, MessagesHaveRows
<1>5. ASSUME NEW r \in Routers, PublishTask(r) PROVE Carried'
  <2> DEFINE i == router[r].id
  <2>1. /\ UNCHANGED <<row, delayed, worker, form>>
        /\ ready'[i] > 0 /\ \A j \in RowIds \ {i} : ready'[j] = ready[j]
        /\ router'[r].pc = "idle" /\ \A q \in Routers \ {r} : router'[q] = router[q]
    BY <1>0, <1>5 DEF PublishTask, IdleRouter, TypeOK
  <2>2. NoRowStranded'
    <3>1. \A j \in RowIds : HasCarrier(j) => HasCarrier(j)'
      BY <2>1 DEF HasCarrier, Busy
    <3> QED
      BY <2>1, <3>1, CarriersKept
  <2>3. MessagesHaveRows'
    <3>1. row[i].status # "none"
      BY <1>5 DEF PublishTask, MessagesHaveRows
    <3> QED
      BY <2>1, <3>1 DEF MessagesHaveRows
  <2> QED
    BY <2>1, <2>2, <2>3 DEF IndexHolds, CopiesKeepKeys, RetryInFlight, Decided
<1>6. ASSUME NEW r \in Routers, RouterFault(r) PROVE Carried'
  BY <1>1, <1>6 DEF RouterFault, Spend
<1>7. ASSUME NEW w \in Workers, NEW i \in RowIds, FetchRow(w, i) PROVE Carried'
  <2>1. /\ worker[w].pc = "idle" /\ UNCHANGED <<row, delayed, router, form>>
        /\ \A j \in RowIds \ {i} : ready'[j] = ready[j]
        /\ \A v \in Workers \ {w} : worker'[v] = worker[v]
        /\ \/ worker'[w] = worker[w] /\ row[i].status \in {"success", "cancelled"}
           \/ /\ worker'[w] = [pc |-> "mark", id |-> i, item |-> row[i], limit |-> 0]
              /\ row[i].status \notin {"success", "cancelled"}
    BY <1>0, <1>7 DEF FetchRow, TypeOK
  <2>2. NoRowStranded'
    <3>1. ASSUME NEW j \in RowIds, Open(j), HasCarrier(j) PROVE HasCarrier(j)'
      BY <2>1, <3>1 DEF HasCarrier, Busy, Open
    <3> QED
      BY <2>1, <3>1, CarriersKept
  <2>3. row[i].status # "none"
    BY <1>7 DEF FetchRow, MessagesHaveRows
  <2>4. MessagesHaveRows'
    BY <1>0, <2>1, <2>3 DEF MessagesHaveRows
  <2> QED
    BY <2>1, <2>2, <2>3, <2>4 DEF IndexHolds, CopiesKeepKeys, RetryInFlight, Decided
<1>8. ASSUME NEW w \in Workers, TaskThinks(w) PROVE Carried'
  <2>1. /\ UNCHANGED <<row, ready, router, form>>
        /\ worker[w].pc # "idle" /\ worker'[w].pc # "idle"
        /\ \A v \in Workers \ {w} : worker'[v] = worker[v]
        /\ \A j \in RowIds : delayed'[j] >= delayed[j]
        /\ worker'[w].id = worker[w].id
        /\ worker'[w].item.key = worker[w].item.key
        /\ \/ worker'[w].item.status \in {"pending", "success", "failed"}
           \/ worker'[w].pc # "save"
        /\ worker'[w].pc = "save" /\ worker'[w].item.status = "pending" =>
             delayed'[worker[w].id] > 0
    BY <1>1, <1>8, TaskThinksFields
  <2>2. NoRowStranded'
    <3>1. ASSUME NEW j \in RowIds, HasCarrier(j) PROVE HasCarrier(j)'
      BY <1>0, <2>1, <3>1, WorkerCarries
    <3> QED
      BY <2>1, <3>1, CarriersKept
  <2>3. \A j \in RowIds : delayed[j] > 0 => delayed'[j] > 0
    BY <1>0, <2>1
  <2>4. \A j \in RowIds : delayed'[j] > 0 => row[j].status # "none"
    <3>1. \A j \in RowIds \ {worker[w].id} : delayed'[j] = delayed[j]
      BY <1>0, <1>8 DEF TaskThinks, LookupConfig, LookupRaises, SendAccepted, SendRejected,
          SendRaises, ScheduleRetry, GiveUp, RetryRaises, WorkerFault
    <3> QED
      BY <2>1, <3>1 DEF MessagesHaveRows, CopiesKeepKeys
  <2>5. RetryInFlight'
    <3>1. ASSUME NEW v \in Workers, worker'[v].pc = "save", worker'[v].item.status = "pending"
          PROVE  delayed'[worker'[v].id] > 0
      BY <1>0, <2>1, <2>3, <3>1 DEF RetryInFlight
    <3> QED
      BY <3>1 DEF RetryInFlight
  <2>6. CopiesKeepKeys' /\ Decided'
    BY <2>1 DEF CopiesKeepKeys, Decided
  <2> QED
    BY <2>1, <2>2, <2>4, <2>5, <2>6 DEF IndexHolds, MessagesHaveRows
<1>9. ASSUME NEW w \in Workers, MarkProcessing(w) PROVE Carried'
  <2> DEFINE i == worker[w].id
  <2>1. /\ i \in RowIds /\ worker[w].pc = "mark"
        /\ UNCHANGED <<ready, delayed, router, form>>
        /\ \A v \in Workers \ {w} : worker'[v] = worker[v]
        /\ \A j \in RowIds \ {i} : row'[j] = row[j]
        /\ \/ /\ worker'[w].pc = "idle" /\ row'[i] = row[i]
              /\ Conflict(i, row[i].key, "processing")
           \/ /\ worker'[w].pc = "lookup" /\ worker'[w].id = i
              /\ worker'[w].item.key = worker[w].item.key
              /\ row'[i].status = "processing" /\ row'[i].key = row[i].key
              /\ ~Conflict(i, row[i].key, "processing")
    BY <1>9, MarkFields
  <2>2. CASE Conflict(i, row[i].key, "processing")
    <3>1. ~Open(i)
      BY <2>1, <2>2 DEF Conflict, IndexHolds, Open, Active
    <3>2. /\ worker'[w].pc = "idle" /\ \A j \in RowIds : row'[j] = row[j]
      BY <2>1, <2>2
    <3>3. NoRowStranded'
      <4>1. ASSUME NEW j \in RowIds, Open(j)' PROVE HasCarrier(j)'
        <5>1. HasCarrier(j) /\ j # i
          BY <3>1, <3>2, <4>1 DEF NoRowStranded, Open
        <5> QED
          BY <1>0, <2>1, <5>1, WorkerCarries
      <4> QED
        BY <4>1 DEF NoRowStranded
    <3>4. /\ IndexHolds' /\ CopiesKeepKeys'
      BY <1>0, <2>1, <3>2 DEF IndexHolds, CopiesKeepKeys
    <3> QED
      BY <1>0, <2>1, <3>2, <3>3, <3>4 DEF RetryInFlight, Decided, MessagesHaveRows
  <2>3. CASE ~Conflict(i, row[i].key, "processing")
    <3>1. /\ worker'[w].pc = "lookup" /\ worker'[w].id = i
          /\ worker'[w].item.key = worker[w].item.key
          /\ row'[i].status = "processing" /\ row'[i].key = row[i].key
      BY <2>1, <2>3
    <3>2. NoRowStranded'
      <4>1. ASSUME NEW j \in RowIds, Open(j)' PROVE HasCarrier(j)'
        <5>1. CASE j = i
          BY <3>1, <5>1 DEF HasCarrier, Busy
        <5>2. CASE j # i
          <6>1. HasCarrier(j)
            BY <2>1, <4>1, <5>2 DEF NoRowStranded, Open
          <6> QED
            BY <1>0, <2>1, <5>2, <6>1, WorkerCarries
        <5> QED
          BY <5>1, <5>2
      <4> QED
        BY <4>1 DEF NoRowStranded
    <3>3. IndexHolds'
      BY <2>1, <2>3, <3>1 DEF IndexHolds, Conflict, Active
    <3>4. CopiesKeepKeys'
      BY <1>0, <2>1, <3>1 DEF CopiesKeepKeys
    <3>5. RetryInFlight' /\ Decided'
      BY <2>1, <3>1 DEF RetryInFlight, Decided
    <3>6. MessagesHaveRows'
      BY <1>0, <2>1, <3>1 DEF MessagesHaveRows
    <3> QED
      BY <3>2, <3>3, <3>4, <3>5, <3>6
  <2> QED
    BY <2>2, <2>3
<1>10. ASSUME NEW w \in Workers, SaveRow(w) PROVE Carried'
  <2> DEFINE i == worker[w].id
             item == worker[w].item
  <2>1. /\ i \in RowIds /\ worker[w].pc = "save"
        /\ UNCHANGED <<ready, delayed, router, form>>
        /\ \A v \in Workers \ {w} : worker'[v] = worker[v]
        /\ worker'[w].pc = "idle"
        /\ \A j \in RowIds \ {i} : row'[j] = row[j]
        /\ \/ row'[i] = row[i] /\ Conflict(i, item.key, item.status)
           \/ row'[i] = item /\ ~Conflict(i, item.key, item.status)
    BY <1>10, SaveFields
  <2>2. /\ item.key = row[i].key /\ row[i].status # "none"
        /\ item.status \in {"pending", "success", "failed"}
        /\ item.status = "pending" => delayed[i] > 0
    BY <2>1 DEF CopiesKeepKeys, Decided, RetryInFlight
  <2>3. ASSUME NEW j \in RowIds, Open(j)' PROVE HasCarrier(j)'
    <3>1. CASE j # i
      <4>1. HasCarrier(j)
        BY <2>1, <2>3, <3>1 DEF NoRowStranded, Open
      <4> QED
        BY <1>0, <2>1, <3>1, <4>1, WorkerCarries
    <3>2. CASE j = i /\ row'[i] = item
      BY <2>1, <2>2, <2>3, <3>2 DEF Open, HasCarrier
    <3>3. CASE j = i /\ row'[i] = row[i] /\ Conflict(i, item.key, item.status)
      <4>1. ~Open(i)
        BY <2>1, <2>2, <3>3 DEF Conflict, IndexHolds, Open, Active
      <4> QED
        BY <2>3, <3>3, <4>1 DEF Open
    <3> QED
      BY <2>1, <3>1, <3>2, <3>3
  <2>4. IndexHolds'
    BY <2>1, <2>2 DEF IndexHolds, Conflict, Active
  <2>5. CopiesKeepKeys'
    BY <1>0, <2>1, <2>2 DEF CopiesKeepKeys
  <2>6. RetryInFlight' /\ Decided'
    BY <2>1 DEF RetryInFlight, Decided
  <2>7. MessagesHaveRows'
    BY <1>0, <2>1, <2>2 DEF MessagesHaveRows
  <2> QED
    BY <2>3, <2>4, <2>5, <2>6, <2>7 DEF NoRowStranded
<1>11. ASSUME NEW i \in RowIds, CountdownElapses(i) PROVE Carried'
  <2>1. /\ UNCHANGED <<row, router, worker, form>>
        /\ \A w \in Workers : ~(worker[w].pc = "save" /\ worker[w].id = i)
        /\ delayed[i] > 0 /\ ready'[i] > 0
        /\ \A j \in RowIds \ {i} : ready'[j] = ready[j] /\ delayed'[j] = delayed[j]
    BY <1>0, <1>11 DEF CountdownElapses, NothingFails
  <2>2. NoRowStranded'
    <3>1. ASSUME NEW j \in RowIds, HasCarrier(j) PROVE HasCarrier(j)'
      BY <2>1, <3>1 DEF HasCarrier, Busy
    <3> QED
      BY <2>1, <3>1, CarriersKept
  <2>3. RetryInFlight'
    BY <1>0, <2>1 DEF RetryInFlight
  <2>4. MessagesHaveRows'
    BY <2>1 DEF MessagesHaveRows
  <2> QED
    BY <2>1, <2>2, <2>3, <2>4 DEF IndexHolds, CopiesKeepKeys, Decided
<1>12. ASSUME NEW i \in RowIds, Redeliver(i) PROVE Carried'
  <2>1. /\ UNCHANGED <<row, delayed, router, worker, form>>
        /\ ready[i] > 0 /\ ready'[i] > 0 /\ \A j \in RowIds \ {i} : ready'[j] = ready[j]
    BY <1>0, <1>12 DEF Redeliver
  <2>2. NoRowStranded'
    <3>1. ASSUME NEW j \in RowIds, HasCarrier(j) PROVE HasCarrier(j)'
      BY <2>1, <3>1 DEF HasCarrier, Busy
    <3> QED
      BY <2>1, <3>1, CarriersKept
  <2> QED
    BY <2>1, <2>2 DEF IndexHolds, CopiesKeepKeys, RetryInFlight, Decided, MessagesHaveRows
<1>13. ASSUME NEW i \in RowIds, OpenForm(i) PROVE Carried'
  <2>1. /\ UNCHANGED <<row, ready, delayed, router, worker>>
        /\ form'.id = i /\ form'.item = row[i] /\ row[i].status # "none"
    BY <1>13 DEF OpenForm
  <2>2. NoRowStranded'
    BY <2>1 DEF NoRowStranded, Open, HasCarrier, Busy
  <2> QED
    BY <2>1, <2>2 DEF IndexHolds, CopiesKeepKeys, RetryInFlight, Decided, MessagesHaveRows
<1>14. CASE SubmitCancel
  <2> DEFINE i == form.id
  <2>1. /\ UNCHANGED <<ready, delayed, router, worker>> /\ form.open /\ ~form'.open
        /\ \A j \in RowIds \ {i} : row'[j] = row[j]
        /\ row'[i] = [form.item EXCEPT !.status = "cancelled"]
    BY <1>0, <1>14 DEF SubmitCancel, NoForm
  <2>2. row'[i].status = "cancelled" /\ row'[i].key = row[i].key
    BY <1>0, <2>1, RowFields DEF CopiesKeepKeys
  <2>3. NoRowStranded'
    BY <2>1, <2>2 DEF NoRowStranded, Open, HasCarrier, Busy
  <2> HIDE DEF i
  <2>7. \A j \in RowIds : /\ row'[j].key = row[j].key
                          /\ row'[j].status \in {row[j].status, "cancelled"}
    BY <2>1, <2>2
  <2>4. IndexHolds'
    BY <2>7 DEF IndexHolds, Active
  <2>5. CopiesKeepKeys'
    BY <1>0, <2>1, <2>7 DEF CopiesKeepKeys
  <2>6. MessagesHaveRows'
    BY <1>0, <2>1, <2>7 DEF MessagesHaveRows
  <2> QED
    BY <2>1, <2>3, <2>4, <2>5, <2>6 DEF RetryInFlight, Decided
<1>15. CASE UNCHANGED <<row, ready, delayed, router, worker, form>>
  <2>1. NoRowStranded'
    BY <1>15 DEF NoRowStranded, Open, HasCarrier, Busy
  <2> QED
    BY <1>15, <2>1 DEF IndexHolds, CopiesKeepKeys, RetryInFlight, Decided, MessagesHaveRows
<1> HIDE DEF Carried
<1> QED
  BY <1>2, <1>3, <1>4, <1>5, <1>6, <1>7, <1>8, <1>9, <1>10, <1>11, <1>12, <1>13, <1>14, <1>15
  DEF Next, vars, RouterStep, WorkerStep, TaskThinks, Fault, Operator, EditConfig

\* While nothing fails, no row is left behind, though nothing sweeps the table:
\* not by a message delivered twice, not by a task that saves over another's row
\* or over a cancellation, not by a refusal of the index.
THEOREM NoRowIsStranded == ASSUME NothingFails PROVE Spec => []NoRowStranded
<1> DEFINE J == TypeOK /\ Carried
<1>1. Init => J
  <2> SUFFICES ASSUME Init PROVE J
    OBVIOUS
  <2>1. TypeOK
    BY InvInit DEF Inv
  <2>2. Carried
    BY DEF Init, NoRow, IdleWorker, IdleRouter, NoForm, Carried, NoRowStranded, Open,
           IndexHolds, Active, CopiesKeepKeys, RetryInFlight, Decided, MessagesHaveRows
  <2> QED
    BY <2>1, <2>2
<1>2. J /\ [Next]_vars => J'
  BY TypeStep, CarriedStep
<1>3. J => NoRowStranded
  BY DEF Carried
<1> QED
  BY <1>1, <1>2, <1>3, PTL DEF Spec
-----------------------------------------------------------------------------
(* The delays of retries *)

\* A larger power of two is larger: it counts the subsets of a larger set.
LEMMA PowersGrow ==
    ASSUME NEW m \in Nat, NEW n \in Nat
    PROVE  /\ 2^m \in Nat
           /\ m < n => 2^m < 2^n
<1> DEFINE Below(k) == SUBSET (1 .. k)
<1>1. ASSUME NEW k \in Nat PROVE IsFiniteSet(Below(k)) /\ Cardinality(Below(k)) = 2^k
  <2>1. IsFiniteSet(1 .. k) /\ Cardinality(1 .. k) = k
    BY FS_Interval
  <2> QED
    BY <2>1, FS_SUBSET
<1>2. ASSUME NEW k \in Nat PROVE 2^k \in Nat
  BY <1>1, FS_CardinalityType
<1>3. ASSUME m < n PROVE 2^m < 2^n
  <2>1. 1 .. m \subseteq 1 .. n /\ 1 .. n \in Below(n) /\ 1 .. n \notin Below(m)
    BY <1>3
  <2>2. Below(m) \in SUBSET Below(n) /\ Below(m) # Below(n)
    BY <2>1
  <2> HIDE DEF Below
  <2>3. 2^m <= 2^n /\ 2^m # 2^n
    BY <1>1, <2>2, FS_Subset
  <2> QED
    BY <1>2, <2>3
<1> QED
  BY <1>2, <1>3

\* The delay grows with the number of attempts until it is an hour.
LEMMA BackoffRises ==
    ASSUME NEW m \in Nat, NEW n \in Nat
    PROVE  /\ Backoff(m) \in Nat /\ Backoff(m) <= 3600
           /\ m <= n => Backoff(m) <= Backoff(n)
           /\ m < n => Backoff(m) < Backoff(n) \/ Backoff(n) = 3600
<1>1. 2^m \in Nat /\ 2^n \in Nat /\ (m < n => 2^m < 2^n)
  BY PowersGrow
<1> DEFINE p == 2^m
           q == 2^n
<1>2. /\ Backoff(m) = (IF 15 * p < 3600 THEN 15 * p ELSE 3600)
      /\ Backoff(n) = (IF 15 * q < 3600 THEN 15 * q ELSE 3600)
  BY DEF Backoff
<1>3. p \in Nat /\ q \in Nat /\ (m < n => p < q) /\ (m = n => p = q)
  BY <1>1
<1> HIDE DEF p, q
<1> QED
  BY <1>2, <1>3

\* No delay is longer than the attempts of its row account for; of a row being sent,
\* the attempt under way has not set it yet, and the retry about to be saved has.
RowFollows(i) ==
    /\ row[i].delay <= Backoff(row[i].attempts)
    /\ row[i].status = "processing" =>
          row[i].attempts > 0 /\ row[i].delay <= Backoff(row[i].attempts - 1)

ItemFollows(w) ==
    worker[w].pc # "idle" =>
        /\ worker[w].item.delay <= Backoff(worker[w].item.attempts)
        /\ worker[w].pc = "save" /\ worker[w].item.status = "pending" =>
              worker[w].item.delay = Backoff(worker[w].item.attempts)

DelaysFollow ==
    /\ \A i \in RowIds : RowFollows(i)
    /\ \A w \in Workers : ItemFollows(w)
    /\ \A r \in Routers : router[r].pc = "create" =>
          router[r].item.delay = 0 /\ router[r].item.attempts = 0 /\ router[r].item.status = "pending"

\* What a step has to do, besides.
Lengthens ==
    \A i \in RowIds : row[i].status = "processing" /\ row'[i].status = "pending" =>
        /\ row'[i].delay > row[i].delay \/ row'[i].delay = 3600
        /\ row'[i].delay <= 3600

LEMMA BackoffIsNat == \A n \in Nat : Backoff(n) \in Nat /\ Backoff(n) <= 3600
BY BackoffRises

\* A task that goes on without writing its row keeps the delay of its copy, or has set the
\* one of the attempt under way.
LEMMA ItemStays ==
    ASSUME Inv, DelaysFollow, NEW w \in Workers, TaskThinks(w)
    PROVE  /\ UNCHANGED <<row, router>>
           /\ \A v \in Workers \ {w} : worker'[v] = worker[v]
           /\ ItemFollows(w)'
<1> DEFINE item == worker[w].item
<1>1. /\ TypeOK /\ worker \in [Workers -> WorkerState]
      /\ item \in Row /\ worker[w].id \in RowIds
      /\ worker[w].pc # "idle" => item.delay <= Backoff(item.attempts)
  BY DEF Inv, TypeOK, WorkerState, DelaysFollow, ItemFollows
<1>2. UNCHANGED <<row, router>>
  BY DEF TaskThinks, LookupConfig, LookupRaises, SendAccepted, SendRejected, SendRaises, ScheduleRetry, GiveUp,
         RetryRaises, WorkerFault
<1>3. CASE worker' = [worker EXCEPT ![w] = IdleWorker]
  BY <1>1, <1>2, <1>3 DEF IdleWorker, ItemFollows
<1>4. ASSUME NEW pc, NEW s, s # "pending", NEW limit, worker[w].pc # "idle",
             worker' = GoOn(w, pc, [item EXCEPT !.status = s], limit)
      PROVE  (\A v \in Workers \ {w} : worker'[v] = worker[v]) /\ ItemFollows(w)'
  <2> DEFINE new == [item EXCEPT !.status = s]
  <2>1. new.status = s /\ new.attempts = item.attempts /\ new.delay = item.delay
    BY <1>1 DEF Row
  <2> HIDE DEF new
  <2>2. (\A v \in Workers \ {w} : worker'[v] = worker[v]) /\ worker'[w].item = new
    BY <1>1, <1>4, GoOnFields DEF new
  <2> QED
    BY <1>1, <1>4, <2>1, <2>2 DEF ItemFollows
<1>5. CASE LookupConfig(w) /\ Lookup(item.region) # NoConfig
  <2>1. worker' = GoOn(w, "send", item, config[Lookup(item.region)].retries) /\ worker[w].pc = "lookup"
    BY <1>5 DEF LookupConfig
  <2>2. /\ \A v \in Workers \ {w} : worker'[v] = worker[v]
        /\ worker'[w].item = item /\ worker'[w].pc = "send"
    BY <1>1, <2>1, GoOnFields, ZenonT(40)
  <2> QED
    BY <1>1, <1>2, <2>1, <2>2 DEF ItemFollows
<1>6. CASE ScheduleRetry(w)
  <2> DEFINE new == [item EXCEPT !.status = "pending", !.delay = Backoff(item.attempts)]
  <2>1. worker' = GoOn(w, "save", new, worker[w].limit)
    BY <1>6 DEF ScheduleRetry
  <2>2. new.attempts = item.attempts /\ new.delay = Backoff(item.attempts) /\ item.attempts \in Nat
    BY <1>1 DEF Row
  <2> HIDE DEF new
  <2>3. (\A v \in Workers \ {w} : worker'[v] = worker[v]) /\ worker'[w].item = new
    BY <1>1, <2>1, GoOnFields
  <2> QED
    BY <1>2, <2>2, <2>3, BackoffIsNat DEF ItemFollows
<1>7. CASE ~ScheduleRetry(w) /\ ~(LookupConfig(w) /\ Lookup(item.region) # NoConfig)
  <2>1. \/ worker' = [worker EXCEPT ![w] = IdleWorker]
        \/ /\ worker[w].pc # "idle"
           /\ \E pc, s, limit : s # "pending" /\ worker' = GoOn(w, pc, [item EXCEPT !.status = s], limit)
    <3>1. CASE LookupConfig(w)
      BY <1>7, <3>1 DEF LookupConfig, Decide
    <3>2. CASE LookupRaises(w)
      BY <3>2 DEF LookupRaises
    <3>3. CASE SendAccepted(w)
      BY <3>3 DEF SendAccepted, Decide
    <3>4. CASE SendRejected(w)
      BY <3>4 DEF SendRejected, Decide
    <3>5. CASE SendRaises(w)
      BY <3>5 DEF SendRaises, Decide
    <3>6. CASE GiveUp(w)
      BY <3>6 DEF GiveUp, Decide
    <3>7. CASE RetryRaises(w)
      BY <3>7 DEF RetryRaises, Decide
    <3>8. CASE WorkerFault(w)
      BY <3>8 DEF WorkerFault
    <3> QED
      BY <1>7, <3>1, <3>2, <3>3, <3>4, <3>5, <3>6, <3>7, <3>8 DEF TaskThinks
  <2> QED
    BY <1>2, <1>3, <1>4, <2>1
<1> QED
  BY <1>5, <1>6, <1>7

LEMMA DelaysInit == Init => DelaysFollow
<1> SUFFICES ASSUME Init PROVE DelaysFollow
  OBVIOUS
<1>1. \A i \in RowIds : row[i].delay = 0 /\ row[i].attempts = 0 /\ row[i].status = "none"
  BY DEF Init, NoRow
<1>2. 0 <= Backoff(0)
  BY BackoffIsNat
<1> QED
  BY <1>1, <1>2 DEF Init, IdleWorker, IdleRouter, DelaysFollow, RowFollows, ItemFollows

\* The row and the worker a step changes follow if the ones before it did.
LEMMA DelaysStep == ASSUME Inv, DelaysFollow, [Next]_vars PROVE DelaysFollow' /\ (Lengthens \/ UNCHANGED vars)
<1>1. /\ TypeOK /\ row \in [RowIds -> Row] /\ worker \in [Workers -> WorkerState]
      /\ router \in [Routers -> RouterState]
      /\ \A i \in RowIds : /\ row[i] \in Row /\ row[i].attempts \in Nat /\ RowFollows(i)
                           /\ row[i].delay \in Int
      /\ \A w \in Workers : ItemFollows(w) /\ worker[w].id \in RowIds
  <2>1. \A i \in RowIds : row[i] \in Row /\ row[i].attempts \in Nat /\ row[i].delay \in Delays
    BY DEF Inv, TypeOK, Row
  <2>2. Delays \subseteq Int
    BY BackoffIsNat, RetriesAssumption DEF Delays
  <2> QED
    BY <2>1, <2>2 DEF Inv, TypeOK, WorkerState, DelaysFollow
<1>2. ASSUME UNCHANGED row PROVE Lengthens /\ \A i \in RowIds : RowFollows(i)'
  BY <1>1, <1>2 DEF Lengthens, RowFollows
<1>3. ASSUME NEW w \in Workers, TaskThinks(w) PROVE DelaysFollow' /\ Lengthens
  BY <1>1, <1>2, <1>3, ItemStays DEF DelaysFollow, ItemFollows
<1>4. ASSUME NEW r \in Routers, InsertRow(r) PROVE DelaysFollow' /\ Lengthens
  <2>1. PICK i \in RowIds :
          /\ router[r].pc = "create" /\ row[i].status = "none"
          /\ row'[i] = router[r].item /\ \A j \in RowIds \ {i} : row'[j] = row[j]
          /\ router'[r].pc = "publish" /\ \A q \in Routers \ {r} : router'[q] = router[q]
          /\ UNCHANGED worker
    BY <1>1, <1>4, InsertFields
  <2>2. row'[i].delay = 0 /\ row'[i].attempts = 0 /\ row'[i].status = "pending" /\ 0 <= Backoff(0)
    BY <2>1, BackoffIsNat DEF DelaysFollow
  <2>3. RowFollows(i)' /\ \A j \in RowIds \ {i} : RowFollows(j)'
    BY <1>1, <2>1, <2>2 DEF RowFollows
  <2> QED
    BY <1>1, <2>1, <2>2, <2>3 DEF DelaysFollow, ItemFollows, Lengthens
<1>5. ASSUME NEW w \in Workers, MarkProcessing(w) PROVE DelaysFollow' /\ Lengthens
  <2>0. PICK i \in RowIds : i = worker[w].id
    BY <1>1
  <2> DEFINE item == worker[w].item
             marked(r) == [r EXCEPT !.status = "processing", !.attempts = item.attempts + 1]
  <2>1. /\ worker[w].pc = "mark" /\ UNCHANGED router /\ i \in RowIds /\ item = row[i]
    BY <1>1, <1>5, <2>0 DEF MarkProcessing, Inv, CopyIsFresh
  <2>2. CASE worker' = [worker EXCEPT ![w] = IdleWorker] /\ UNCHANGED row
    BY <1>1, <1>2, <2>1, <2>2 DEF IdleWorker, DelaysFollow, ItemFollows
  <2>3. CASE row' = [row EXCEPT ![i] = marked(row[i])] /\ worker' = GoOn(w, "lookup", marked(item), 0)
    <3> DEFINE new == marked(row[i])
    <3>1. /\ new.status = "processing" /\ new.attempts = row[i].attempts + 1 /\ new.delay = row[i].delay
      BY <1>1, <2>1 DEF Row
    <3>2. row' = [row EXCEPT ![i] = new] /\ worker' = GoOn(w, "lookup", new, 0)
      BY <2>1, <2>3
    <3> HIDE DEF new
    <3>3. /\ row'[i] = new /\ \A j \in RowIds \ {i} : row'[j] = row[j]
          /\ worker'[w].pc = "lookup" /\ worker'[w].item = new
          /\ \A v \in Workers \ {w} : worker'[v] = worker[v]
      BY <1>1, <2>1, <3>2, GoOnFields
    <3> DEFINE n == row[i].attempts
               d == row[i].delay
    <3>4. n \in Nat /\ d <= Backoff(n) /\ d <= Backoff(n + 1) /\ n + 1 > 0 /\ (n + 1) - 1 = n
      <4>1. n \in Nat /\ d \in Int /\ d <= Backoff(n)
        BY <1>1, <2>1 DEF RowFollows
      <4>2. Backoff(n) <= Backoff(n + 1) /\ Backoff(n) \in Nat /\ Backoff(n + 1) \in Nat
        BY <4>1, BackoffRises
      <4> HIDE DEF n, d
      <4> QED
        BY <4>1, <4>2
    <3>5. RowFollows(i)' /\ ItemFollows(w)'
      BY <3>1, <3>3, <3>4 DEF RowFollows, ItemFollows
    <3>6. (\A j \in RowIds \ {i} : RowFollows(j)') /\ (\A v \in Workers \ {w} : ItemFollows(v)')
      BY <1>1, <3>3 DEF RowFollows, ItemFollows
    <3>7. Lengthens
      BY <3>1, <3>3 DEF Lengthens
    <3> QED
      BY <2>1, <3>5, <3>6, <3>7 DEF DelaysFollow
  <2> QED
    BY <1>5, <2>0, <2>2, <2>3 DEF MarkProcessing
<1>6. ASSUME NEW w \in Workers, SaveRow(w) PROVE DelaysFollow' /\ Lengthens
  <2>0. PICK i \in RowIds : i = worker[w].id
    BY <1>1
  <2> DEFINE item == worker[w].item
  <2>1. /\ worker[w].pc = "save" /\ i \in RowIds /\ UNCHANGED router
        /\ \A v \in Workers \ {w} : worker'[v] = worker[v]
        /\ worker'[w].pc = "idle"
        /\ \A j \in RowIds \ {i} : row'[j] = row[j]
        /\ row'[i] = row[i] \/ row'[i] = item
    BY <1>1, <1>6, <2>0, SaveFields
  <2>2. /\ row[i].status = "processing" /\ item.attempts = row[i].attempts
        /\ item.status \in {"pending", "success", "failed"}
    BY <2>0, <2>1 DEF Inv, CopyIsFresh
  <2>3. (\A j \in RowIds \ {i} : RowFollows(j)') /\ \A v \in Workers : ItemFollows(v)'
    BY <1>1, <2>1 DEF RowFollows, ItemFollows
  <2>4. RowFollows(i)'
    BY <1>1, <2>1, <2>2 DEF RowFollows, ItemFollows
  <2>5. ASSUME row'[i].status = "pending"
        PROVE  (row'[i].delay > row[i].delay \/ row'[i].delay = 3600) /\ row'[i].delay <= 3600
    <3> DEFINE n == row[i].attempts
               d == row[i].delay
    <3>1. n \in Nat /\ n > 0 /\ d \in Int /\ d <= Backoff(n - 1)
      BY <1>1, <2>1, <2>2 DEF RowFollows
    <3>2. row'[i].delay = Backoff(n)
      BY <1>1, <2>1, <2>2, <2>5 DEF ItemFollows
    <3> HIDE DEF n, d
    <3>3. n - 1 \in Nat /\ n - 1 < n
      BY <3>1
    <3>4. /\ Backoff(n - 1) \in Nat /\ Backoff(n) \in Nat /\ Backoff(n) <= 3600
          /\ Backoff(n - 1) < Backoff(n) \/ Backoff(n) = 3600
      BY <3>1, <3>3, BackoffRises, BackoffIsNat
    <3> QED
      BY <3>1, <3>2, <3>4 DEF d
  <2>6. Lengthens
    <3>1. \A j \in RowIds \ {i} : ~(row[j].status = "processing" /\ row'[j].status = "pending")
      BY <2>1
    <3> QED
      BY <2>5, <3>1 DEF Lengthens
  <2> QED
    BY <2>1, <2>3, <2>4, <2>6 DEF DelaysFollow
<1>7. ASSUME NEW w \in Workers, NEW i \in RowIds, FetchRow(w, i) PROVE DelaysFollow' /\ Lengthens
  <2>1. /\ UNCHANGED <<row, router>>
        /\ \A v \in Workers \ {w} : worker'[v] = worker[v]
        /\ worker'[w] = worker[w] \/ (worker'[w].pc = "mark" /\ worker'[w].item = row[i])
    BY <1>1, <1>7 DEF FetchRow
  <2>2. \A v \in Workers : ItemFollows(v)'
    BY <1>1, <2>1 DEF ItemFollows, RowFollows
  <2> QED
    BY <1>2, <2>1, <2>2 DEF DelaysFollow
<1>8. ASSUME NEW r \in Routers, NEW k \in Keys, NEW region \in Regions, RouteEvent(r, k, region)
      PROVE  DelaysFollow' /\ Lengthens
  <2>1. /\ UNCHANGED <<row, worker>>
        /\ \A q \in Routers \ {r} : router'[q] = router[q]
        /\ router'[r].item.delay = 0 /\ router'[r].item.attempts = 0 /\ router'[r].item.status = "pending"
    BY <1>1, <1>8 DEF RouteEvent
  <2> QED
    BY <1>1, <1>2, <2>1 DEF DelaysFollow, ItemFollows
<1>9. ASSUME NEW r \in Routers, InsertRefused(r) \/ PublishTask(r) \/ RouterFault(r)
      PROVE  DelaysFollow' /\ Lengthens
  <2>1. UNCHANGED <<row, worker>> /\ router' = [router EXCEPT ![r] = IdleRouter]
    BY <1>9 DEF InsertRefused, PublishTask, RouterFault
  <2> QED
    BY <1>1, <1>2, <2>1 DEF DelaysFollow, ItemFollows, IdleRouter
<1>10. ASSUME UNCHANGED <<row, worker, router>> PROVE DelaysFollow' /\ Lengthens
  BY <1>1, <1>2, <1>10 DEF DelaysFollow, ItemFollows
<1>11. ~SubmitCancel
  BY DEF Inv, Undisturbed, SubmitCancel
<1> QED
  BY <1>3, <1>4, <1>5, <1>6, <1>7, <1>8, <1>9, <1>10, <1>11
  DEF Next, vars, RouterStep, WorkerStep, Fault, Operator, TaskThinks, CountdownElapses, Redeliver,
      OpenForm, EditConfig

\* While messages come once, workers save in time and nobody cancels, each retry of a row lies
\* further ahead than the one before it until the delay is an hour, whichever of its attempts were
\* lost to a crash (_schedule_retry: BackoffGrows).
THEOREM DelaysGrow == ASSUME Quietly PROVE Spec => BackoffGrows
<1>1. DelaysFollow /\ Inv /\ [Next]_vars => DelaysFollow' /\ [Lengthens]_vars
  BY DelaysStep
<1> QED
  BY InvAlways, DelaysInit, <1>1, PTL DEF Spec, BackoffGrows, Lengthens
=============================================================================
