--------------------------- MODULE ServicesProofs ---------------------------
(***************************************************************************)
(* What holds of the services around the queue - the tokens of Percipio, the *)
(* learning times of Snowflake, the legacy tables - for every number of       *)
(* workers, regions, tasks and rows.                                         *)
(***************************************************************************)
EXTENDS PercipioTokens, LearningTimes, LegacyMigration, FiniteSetTheorems, TLAPS

-----------------------------------------------------------------------------
(* The tokens of Percipio *)

\* A token lives long enough for its own answer to arrive and one request to be
\* made with it, and leaves the cache early enough for both.
PctInTime ==
    /\ 2 * PctDelay <= PctBuffer
    /\ \A life \in PctLifetimes : 2 * PctDelay < life

PctEntry == [token : PctToken, left : PctTimes]
PctState ==
    [pc : {"idle", "token", "fetch", "answer", "post"},
     region : PctRegions \cup {PctNone}, config : PctRegions \cup {PctNone}, token : PctToken,
     life : PctLifetimes \cup {0}, left : 0 .. PctDelay]

\* A cached token outlives its stay in the cache by the buffer, but for what its
\* answer took.
PctEntryIsFresh(entry) ==
    entry.left > 0 =>
        entry.token # PctNone /\ entry.token.left + PctDelay >= entry.left + PctBuffer

\* A worker's token has aged no more than its answer has taken so far; the token
\* of a request outlives the request.
PctWorkerIsFresh(worker) ==
    /\ worker.pc # "idle" => worker.region \in PctRegions /\ worker.config \in PctRegions
    /\ worker.pc = "answer" =>
         /\ worker.life \in PctLifetimes /\ worker.token # PctNone
         /\ worker.token.left + PctDelay >= worker.life + worker.left
    /\ worker.pc = "post" => worker.token # PctNone /\ worker.token.left > worker.left

PctInv ==
    /\ pctActive \subseteq PctRegions
    /\ pctCache \in [PctRegions -> PctEntry]
    /\ pctWorker \in [PctWorkers -> PctState]
    /\ \A r \in PctRegions : PctEntryIsFresh(pctCache[r])
    /\ \A w \in PctWorkers : PctWorkerIsFresh(pctWorker[w])

LEMMA PctTimesClosed ==
    ASSUME NEW t \in PctTimes
    PROVE  t \in Nat /\ PctLess(t) \in PctTimes
<1>1. PICK life \in PctLifetimes : t \in 0 .. life
  BY DEF PctTimes
<1>2. life \in Nat
  BY PctAssumption
<1>3. PctLess(t) \in 0 .. life
  BY <1>1, <1>2 DEF PctLess
<1> QED
  BY <1>1, <1>2, <1>3 DEF PctTimes

LEMMA PctZeroTime == 0 \in PctTimes
<1>1. PICK life \in PctLifetimes : TRUE
  BY PctAssumption
<1>2. life \in Nat /\ 0 \in 0 .. life
  BY PctAssumption
<1> QED
  BY <1>2 DEF PctTimes

LEMMA PctTtlFits ==
    ASSUME NEW life \in PctLifetimes
    PROVE  /\ life \in Nat /\ life \in PctTimes
           /\ PctTtl(life) \in PctTimes
           /\ PctTtl(life) > 0 => PctTtl(life) + PctBuffer = life
<1>1. life \in Nat /\ PctBuffer \in Nat
  BY PctAssumption
<1>2. life \in 0 .. life /\ PctTtl(life) \in 0 .. life
  BY <1>1 DEF PctTtl
<1> QED
  BY <1>1, <1>2 DEF PctTimes, PctTtl

LEMMA PctTokenFields ==
    ASSUME NEW token \in PctToken, token # PctNone
    PROVE  token \in [from : PctRegions, left : PctTimes] /\ token.left \in Nat
BY PctTimesClosed DEF PctToken

\* A token that ages stays a token, one unit older at most.
LEMMA PctAgedToken ==
    ASSUME NEW token \in PctToken
    PROVE  /\ PctAged(token) \in PctToken
           /\ token # PctNone =>
                /\ PctAged(token) # PctNone
                /\ token.left \in Nat /\ PctAged(token).left = PctLess(token.left)
<1>1. CASE token = PctNone
  BY <1>1 DEF PctAged, PctToken
<1>2. CASE token # PctNone
  <2>1. token \in [from : PctRegions, left : PctTimes]
    BY <1>2 DEF PctToken
  <2>2. PctAged(token) = [token EXCEPT !.left = PctLess(token.left)]
    BY <1>2 DEF PctAged
  <2>3. token.left \in PctTimes
    BY <2>1
  <2>4. PctLess(token.left) \in PctTimes /\ PctLess(token.left) \in Nat /\ token.left \in Nat
    BY <2>3, PctTimesClosed
  <2>5. /\ PctAged(token) \in [from : PctRegions, left : PctTimes]
        /\ PctAged(token) \in [from : PctRegions, left : Nat]
        /\ PctAged(token).left = PctLess(token.left)
    BY <2>1, <2>2, <2>4
  <2> QED
    BY <2>4, <2>5, PctAssumption DEF PctToken
<1> QED
  BY <1>1, <1>2

LEMMA PctInvInit == PctInit => PctInv
<1> SUFFICES ASSUME PctInit PROVE PctInv
  OBVIOUS
<1>1. PctNone \in PctToken /\ PctDelay \in Nat
  BY PctAssumption DEF PctToken
<1>2. 0 \in PctTimes
  BY PctZeroTime
<1>3. PctIdle \in PctState
  BY <1>1 DEF PctIdle, PctState
<1> QED
  BY <1>1, <1>2, <1>3
  DEF PctInit, PctInv, PctEntry, PctEntryIsFresh, PctWorkerIsFresh, PctIdle

\* A step of one worker that leaves the cache alone.
LEMMA PctWorkerStep ==
    ASSUME PctInv, NEW w \in PctWorkers, NEW s \in PctState, PctWorkerIsFresh(s),
           pctWorker' = [pctWorker EXCEPT ![w] = s], UNCHANGED <<pctActive, pctCache>>
    PROVE  PctInv'
<1>1. \A v \in PctWorkers : PctWorkerIsFresh(pctWorker'[v])
  BY DEF PctInv
<1> QED
  BY <1>1 DEF PctInv, PctWorkerIsFresh

\* What the steps write over a worker's state.
PctPCs == {"idle", "token", "fetch", "answer", "post"}

LEMMA PctMoved ==
    ASSUME PctInv, NEW w \in PctWorkers, NEW pc \in PctPCs
    PROVE  /\ PctMove(w, pc) \in PctState
           /\ PctMove(w, pc).pc = pc /\ PctMove(w, pc).left = PctDelay
           /\ PctMove(w, pc).region = pctWorker[w].region
           /\ PctMove(w, pc).config = pctWorker[w].config
           /\ PctMove(w, pc).token = pctWorker[w].token
<1>1. pctWorker[w] \in PctState /\ PctDelay \in 0 .. PctDelay
  BY PctAssumption DEF PctInv
<1> QED
  BY <1>1 DEF PctMove, PctState, PctPCs

LEMMA PctGiven ==
    ASSUME NEW t \in PctState, NEW token \in PctToken
    PROVE  /\ [t EXCEPT !.token = token] \in PctState
           /\ [t EXCEPT !.token = token].token = token
           /\ [t EXCEPT !.token = token].pc = t.pc
           /\ [t EXCEPT !.token = token].left = t.left
           /\ [t EXCEPT !.token = token].region = t.region
           /\ [t EXCEPT !.token = token].config = t.config
BY DEF PctState

LEMMA PctLived ==
    ASSUME NEW t \in PctState
    PROVE  /\ [t EXCEPT !.life = 0] \in PctState
           /\ [t EXCEPT !.life = 0].token = t.token
           /\ [t EXCEPT !.life = 0].pc = t.pc
           /\ [t EXCEPT !.life = 0].left = t.left
           /\ [t EXCEPT !.life = 0].region = t.region
           /\ [t EXCEPT !.life = 0].config = t.config
BY DEF PctState

LEMMA PctInvStep == ASSUME PctInTime, PctInv, [PctNext]_pctVars PROVE PctInv'
<1>0. PctDelay \in Nat /\ PctBuffer \in Nat /\ PctLifetimes \subseteq Nat
  BY PctAssumption
<1>1. ASSUME NEW w \in PctWorkers
      PROVE  /\ pctWorker[w] \in PctState /\ PctWorkerIsFresh(pctWorker[w])
             /\ pctWorker[w].left \in 0 .. PctDelay
  BY DEF PctInv, PctState
<1>2. ASSUME NEW w \in PctWorkers, NEW r \in PctRegions, PctFind(w, r) PROVE PctInv'
  <2> DEFINE config == IF r \in pctActive THEN r ELSE PctOther
             s == [PctMove(w, "token") EXCEPT !.region = r, !.config = config]
  <2>1. config \in PctRegions
    BY PctAssumption
  <2> HIDE DEF config
  <2>2. s \in PctState /\ PctWorkerIsFresh(s)
    <3>1. PctMove(w, "token") \in PctState /\ PctMove(w, "token").pc = "token"
      BY PctMoved DEF PctPCs
    <3>3. s = [PctMove(w, "token") EXCEPT !.region = r, !.config = config]
      OBVIOUS
    <3> HIDE DEF s
    <3>2. s \in PctState /\ s.region = r /\ s.config = config /\ s.pc = "token"
      BY <2>1, <3>1, <3>3 DEF PctState
    <3> QED
      BY <2>1, <3>2 DEF PctWorkerIsFresh
  <2>3. pctWorker' = [pctWorker EXCEPT ![w] = s] /\ UNCHANGED <<pctActive, pctCache>>
    BY <1>2 DEF PctFind, config
  <2> QED
    BY <2>2, <2>3, PctWorkerStep
<1>3. ASSUME NEW w \in PctWorkers, PctHit(w) PROVE PctInv'
  <2> DEFINE entry == pctCache[pctWorker[w].region]
             s == [PctMove(w, "post") EXCEPT !.token = entry.token]
  <2>1. /\ pctWorker[w].pc = "token" /\ entry.left > 0
        /\ pctWorker' = [pctWorker EXCEPT ![w] = s] /\ UNCHANGED <<pctActive, pctCache>>
    BY <1>3 DEF PctHit, PctCached
  <2>2. pctWorker[w].region \in PctRegions
    BY <1>1, <2>1 DEF PctWorkerIsFresh
  <2>3. /\ entry \in PctEntry /\ entry.token # PctNone
        /\ entry.token.left + PctDelay >= entry.left + PctBuffer
    BY <2>1, <2>2 DEF PctInv, PctEntryIsFresh
  <2>4. entry.token \in PctToken /\ entry.left \in Nat /\ entry.token.left \in Nat
    BY <2>3, PctTokenFields, PctTimesClosed DEF PctEntry
  <2>5. entry.token.left > PctDelay
    BY <1>0, <2>1, <2>3, <2>4 DEF PctInTime
  <2> HIDE DEF entry
  <2>6. s \in PctState /\ PctWorkerIsFresh(s)
    <3>1. /\ PctMove(w, "post") \in PctState /\ PctMove(w, "post").pc = "post"
          /\ PctMove(w, "post").left = PctDelay
          /\ PctMove(w, "post").region = pctWorker[w].region
          /\ PctMove(w, "post").config = pctWorker[w].config
      BY PctMoved DEF PctPCs
    <3>2. pctWorker[w].region \in PctRegions /\ pctWorker[w].config \in PctRegions
      BY <1>1, <2>1 DEF PctWorkerIsFresh
    <3> HIDE DEF s
    <3>3. /\ s \in PctState /\ s.pc = "post" /\ s.left = PctDelay /\ s.token = entry.token
          /\ s.region = pctWorker[w].region /\ s.config = pctWorker[w].config
      BY <2>4, <3>1, <3>2, PctGiven DEF s
    <3> QED
      BY <2>3, <2>5, <3>2, <3>3 DEF PctWorkerIsFresh
  <2> QED
    BY <2>1, <2>6, PctWorkerStep
<1>4. ASSUME NEW w \in PctWorkers, PctMiss(w) PROVE PctInv'
  <2>1. PctMove(w, "fetch") \in PctState /\ PctWorkerIsFresh(PctMove(w, "fetch"))
    <3>1. pctWorker[w].region \in PctRegions /\ pctWorker[w].config \in PctRegions
      BY <1>1, <1>4 DEF PctMiss, PctWorkerIsFresh
    <3>2. /\ PctMove(w, "fetch") \in PctState /\ PctMove(w, "fetch").pc = "fetch"
          /\ PctMove(w, "fetch").region = pctWorker[w].region
          /\ PctMove(w, "fetch").config = pctWorker[w].config
      BY PctMoved DEF PctPCs
    <3> QED
      BY <3>1, <3>2 DEF PctWorkerIsFresh
  <2> QED
    BY <1>4, <2>1, PctWorkerStep DEF PctMiss
<1>5. ASSUME NEW w \in PctWorkers, NEW life \in PctLifetimes, PctIssue(w, life) PROVE PctInv'
  <2> DEFINE token == [from |-> pctWorker[w].config, left |-> life]
             s == [pctWorker[w] EXCEPT !.pc = "answer", !.life = life, !.token = token]
  <2>1. /\ pctWorker[w].pc = "fetch" /\ UNCHANGED <<pctActive, pctCache>>
        /\ pctWorker' = [pctWorker EXCEPT ![w] = s]
    BY <1>1, <1>5 DEF PctIssue, PctInv
  <2>2. pctWorker[w].config \in PctRegions /\ life \in PctTimes /\ life \in Nat
    BY <1>1, <2>1, PctTtlFits DEF PctWorkerIsFresh
  <2>3. token \in PctToken /\ token # PctNone /\ token.left = life
    BY <2>2, PctAssumption DEF PctToken
  <2> HIDE DEF token
  <2>4. s \in PctState /\ PctWorkerIsFresh(s)
    <3>1. /\ pctWorker[w] \in PctState /\ pctWorker[w].left \in 0 .. PctDelay
          /\ pctWorker[w].region \in PctRegions
      BY <1>1, <2>1 DEF PctWorkerIsFresh
    <3>3. s = [pctWorker[w] EXCEPT !.pc = "answer", !.life = life, !.token = token]
      OBVIOUS
    <3> HIDE DEF s
    <3>2. /\ s \in PctState /\ s.token = token /\ s.pc = "answer" /\ s.left = pctWorker[w].left
          /\ s.life = life /\ s.region = pctWorker[w].region /\ s.config = pctWorker[w].config
      BY <2>2, <2>3, <3>1, <3>3 DEF PctState
    <3> QED
      BY <1>0, <2>2, <2>3, <3>1, <3>2 DEF PctWorkerIsFresh
  <2> QED
    BY <2>1, <2>4, PctWorkerStep
<1>6. ASSUME NEW w \in PctWorkers, PctStore(w) PROVE PctInv'
  <2> DEFINE worker == pctWorker[w]
             ttl == PctTtl(worker.life)
             entry == [token |-> IF ttl > 0 THEN worker.token ELSE PctNone, left |-> ttl]
             s == [PctMove(w, "post") EXCEPT !.life = 0]
  <2>1. /\ worker.pc = "answer" /\ UNCHANGED pctActive
        /\ pctCache' = [pctCache EXCEPT ![worker.region] = entry]
        /\ pctWorker' = [pctWorker EXCEPT ![w] = s]
    BY <1>6 DEF PctStore
  <2>2. /\ worker \in PctState /\ worker.region \in PctRegions
        /\ worker.life \in PctLifetimes /\ worker.token # PctNone
        /\ worker.token.left + PctDelay >= worker.life + worker.left
    BY <1>1, <2>1 DEF PctWorkerIsFresh
  <2>3. /\ worker.token \in PctToken /\ worker.token.left \in Nat /\ worker.left \in Nat
        /\ worker.life \in Nat /\ ttl \in PctTimes /\ ttl \in Nat
        /\ ttl > 0 => ttl + PctBuffer = worker.life
    <3>1. worker.token \in PctToken /\ worker.left \in 0 .. PctDelay
      BY <2>2 DEF PctState
    <3>2. worker.token.left \in Nat /\ worker.left \in Nat
      BY <1>0, <2>2, <3>1, PctTokenFields
    <3>3. worker.life \in Nat /\ ttl \in PctTimes /\ (ttl > 0 => ttl + PctBuffer = worker.life)
      BY <1>0, <2>2, PctTtlFits
    <3>4. ttl \in Nat
      BY <3>3, PctTimesClosed
    <3> QED
      BY <3>1, <3>2, <3>3, <3>4
  <2>4. worker.token.left > PctDelay
    BY <1>0, <2>2, <2>3 DEF PctInTime
  <2>5. worker.token.left + PctDelay >= ttl + PctBuffer \/ ~(ttl > 0)
    BY <1>0, <2>2, <2>3
  <2> HIDE DEF ttl
  <2>6. entry \in PctEntry /\ PctEntryIsFresh(entry)
    BY <2>2, <2>3, <2>5 DEF PctEntry, PctEntryIsFresh, PctToken
  <2>7. s \in PctState /\ PctWorkerIsFresh(s)
    <3>1. /\ PctMove(w, "post") \in PctState /\ PctMove(w, "post").pc = "post"
          /\ PctMove(w, "post").left = PctDelay
          /\ PctMove(w, "post").region = worker.region
          /\ PctMove(w, "post").config = worker.config
          /\ PctMove(w, "post").token = worker.token
      BY PctMoved DEF PctPCs
    <3>2. worker.region \in PctRegions /\ worker.config \in PctRegions
      BY <1>1, <2>1 DEF PctWorkerIsFresh
    <3> HIDE DEF s
    <3>3. /\ s \in PctState /\ s.pc = "post" /\ s.left = PctDelay /\ s.token = worker.token
          /\ s.region = worker.region /\ s.config = worker.config
      BY <2>3, <3>1, <3>2, PctLived DEF s
    <3> QED
      BY <2>2, <2>4, <3>2, <3>3 DEF PctWorkerIsFresh
  <2> HIDE DEF entry, s
  <2>8. pctCache' \in [PctRegions -> PctEntry] /\ pctWorker' \in [PctWorkers -> PctState]
    BY <2>1, <2>6, <2>7 DEF PctInv
  <2>9. \A r \in PctRegions : PctEntryIsFresh(pctCache'[r])
    BY <2>1, <2>2, <2>6 DEF PctInv
  <2>10. \A v \in PctWorkers : PctWorkerIsFresh(pctWorker'[v])
    BY <2>1, <2>7 DEF PctInv
  <2> QED
    BY <2>1, <2>8, <2>9, <2>10 DEF PctInv, PctEntryIsFresh, PctWorkerIsFresh
<1>7. ASSUME NEW w \in PctWorkers, PctEnd(w) PROVE PctInv'
  <2>1. PctIdle \in PctState /\ PctWorkerIsFresh(PctIdle)
    BY <1>0, 0 \in 0 .. PctDelay DEF PctIdle, PctState, PctToken, PctWorkerIsFresh
  <2> QED
    BY <1>7, <2>1, PctWorkerStep DEF PctEnd
<1>8. CASE PctTick
  <2>1. ASSUME NEW r \in PctRegions
        PROVE  pctCache'[r] \in PctEntry /\ PctEntryIsFresh(pctCache'[r])
    <3> DEFINE entry == pctCache[r]
    <3>1. /\ entry \in PctEntry /\ PctEntryIsFresh(entry)
          /\ entry.token \in PctToken /\ entry.left \in PctTimes
      BY DEF PctInv, PctEntry
    <3>2. entry.left \in Nat /\ PctLess(entry.left) \in PctTimes
      BY <3>1, PctTimesClosed
    <3>3. CASE entry.left <= 1
      <4>1. 0 \in PctTimes
        BY PctZeroTime
      <4>2. pctCache'[r] = [token |-> PctNone, left |-> 0]
        BY <1>8, <3>3 DEF PctTick
      <4> QED
        BY <4>1, <4>2 DEF PctEntry, PctEntryIsFresh, PctToken
    <3>4. CASE ~(entry.left <= 1)
      <4>1. pctCache'[r] = [token |-> PctAged(entry.token), left |-> entry.left - 1]
        BY <1>8, <3>4 DEF PctTick
      <4>2. entry.left - 1 = PctLess(entry.left)
        BY <3>2, <3>4 DEF PctLess
      <4>3. /\ entry.token # PctNone
            /\ entry.token.left + PctDelay >= entry.left + PctBuffer
        BY <3>1, <3>2, <3>4 DEF PctEntryIsFresh
      <4>4. /\ PctAged(entry.token) \in PctToken /\ PctAged(entry.token) # PctNone
            /\ entry.token.left \in Nat
            /\ PctAged(entry.token).left = PctLess(entry.token.left)
        BY <3>1, <4>3, PctAgedToken
      <4>5. PctLess(entry.token.left) + PctDelay >= (entry.left - 1) + PctBuffer
        BY <1>0, <3>2, <4>3, <4>4 DEF PctLess
      <4> QED
        BY <3>2, <4>1, <4>2, <4>4, <4>5 DEF PctEntry, PctEntryIsFresh
    <3> QED
      BY <3>3, <3>4
  <2>2. ASSUME NEW w \in PctWorkers
        PROVE  pctWorker'[w] \in PctState /\ PctWorkerIsFresh(pctWorker'[w])
    <3> DEFINE worker == pctWorker[w]
    <3>1. /\ worker \in PctState /\ PctWorkerIsFresh(worker)
          /\ worker.pc # "token" /\ (worker.pc = "idle" \/ worker.left > 0)
          /\ pctWorker'[w] = [worker EXCEPT !.token = PctAged(worker.token),
                                            !.left = PctLess(worker.left)]
      BY <1>1, <1>8 DEF PctTick
    <3>2. /\ worker.token \in PctToken /\ worker.left \in 0 .. PctDelay
          /\ worker.pc = "answer" => worker.life \in Nat
      BY <1>0, <3>1 DEF PctState, PctWorkerIsFresh
    <3>3. PctLess(worker.left) \in 0 .. PctDelay
      BY <1>0, <3>2 DEF PctLess
    <3>4. /\ PctAged(worker.token) \in PctToken
          /\ worker.token # PctNone =>
               /\ PctAged(worker.token) # PctNone
               /\ worker.token.left \in Nat
               /\ PctAged(worker.token).left = PctLess(worker.token.left)
      BY <3>2, PctAgedToken
    <3>5. pctWorker'[w] \in PctState
      BY <3>1, <3>3, <3>4 DEF PctState
    <3>6. /\ pctWorker'[w].pc = worker.pc /\ pctWorker'[w].region = worker.region
          /\ pctWorker'[w].config = worker.config /\ pctWorker'[w].life = worker.life
          /\ pctWorker'[w].token = PctAged(worker.token)
          /\ pctWorker'[w].left = PctLess(worker.left)
      BY <3>1 DEF PctState
    <3>7. worker.pc = "answer" =>
            PctLess(worker.token.left) + PctDelay >= worker.life + PctLess(worker.left)
      BY <1>0, <3>1, <3>2, <3>4 DEF PctLess, PctWorkerIsFresh
    <3>8. worker.pc = "post" => PctLess(worker.token.left) > PctLess(worker.left)
      BY <1>0, <3>1, <3>2, <3>4 DEF PctLess, PctWorkerIsFresh
    <3> QED
      BY <3>1, <3>4, <3>5, <3>6, <3>7, <3>8 DEF PctWorkerIsFresh
  <2>3. pctCache' \in [PctRegions -> PctEntry] /\ pctWorker' \in [PctWorkers -> PctState]
    BY <1>8, <2>1, <2>2 DEF PctTick
  <2> QED
    BY <1>8, <2>1, <2>2, <2>3 DEF PctInv, PctTick, PctEntryIsFresh, PctWorkerIsFresh
<1>9. ASSUME NEW r \in PctRegions, PctSwitch(r) PROVE PctInv'
  BY <1>9 DEF PctSwitch, PctInv, PctEntryIsFresh, PctWorkerIsFresh
<1>10. CASE UNCHANGED pctVars
  BY <1>10 DEF pctVars, PctInv, PctEntryIsFresh, PctWorkerIsFresh
<1> QED
  BY <1>2, <1>3, <1>4, <1>5, <1>6, <1>7, <1>8, <1>9, <1>10 DEF PctNext

\* No token expires under a request, whoever fetched it, however late its answer
\* came and however often the administrator switches configurations - given that
\* the buffer covers the way of the answer and the request together.
THEOREM TokensStayFresh == ASSUME PctInTime PROVE PctSpec => []PctTokenIsFresh
<1>1. PctInv /\ [PctNext]_pctVars => PctInv'
  BY PctInvStep
<1>2. PctInv => PctTokenIsFresh
  <2> SUFFICES ASSUME PctInv, NEW w \in PctWorkers, pctWorker[w].pc = "post"
               PROVE  pctWorker[w].token.left > 0
    BY DEF PctTokenIsFresh
  <2>1. /\ pctWorker[w].token \in PctToken /\ pctWorker[w].token # PctNone
        /\ pctWorker[w].left \in 0 .. PctDelay /\ pctWorker[w].token.left > pctWorker[w].left
    BY DEF PctInv, PctState, PctWorkerIsFresh
  <2>2. pctWorker[w].token.left \in Nat
    BY <2>1, PctTokenFields
  <2> QED
    BY <2>1, <2>2, PctAssumption
<1> QED
  BY PctInvInit, <1>1, <1>2, PTL DEF PctSpec

\* The types need no assumption on times: a worker's region is one once it has looked for a
\* configuration, and an answer's life is one of those issued.
PctTyped ==
    /\ PctTypeOK
    /\ \A w \in PctWorkers :
          /\ pctWorker[w].pc # "idle" => pctWorker[w].region \in PctRegions /\ pctWorker[w].config \in PctRegions
          /\ pctWorker[w].pc = "answer" => pctWorker[w].life \in PctLifetimes

LEMMA PctTypedBy ==
    ASSUME PctTyped, NEW w \in PctWorkers, NEW s \in PctState,
           s.pc # "idle" => s.region \in PctRegions /\ s.config \in PctRegions,
           s.pc = "answer" => s.life \in PctLifetimes,
           pctWorker' = [pctWorker EXCEPT ![w] = s], pctCache' \in [PctRegions -> PctEntry], UNCHANGED pctActive
    PROVE  PctTyped'
<1>1. pctWorker \in [PctWorkers -> PctState]
  BY DEF PctTyped, PctTypeOK, PctState
<1>2. /\ pctWorker' \in [PctWorkers -> PctState]
      /\ \A v \in PctWorkers : pctWorker'[v] = IF v = w THEN s ELSE pctWorker[v]
  BY <1>1
<1>3. PctTypeOK'
  BY <1>2 DEF PctTyped, PctTypeOK, PctState, PctEntry
<1> QED
  BY <1>2, <1>3 DEF PctTyped

LEMMA PctTypedStep == PctTyped /\ [PctNext]_pctVars => PctTyped'
<1> SUFFICES ASSUME PctTyped, [PctNext]_pctVars PROVE PctTyped'
  OBVIOUS
<1>1. /\ pctActive \subseteq PctRegions /\ pctCache \in [PctRegions -> PctEntry]
      /\ pctWorker \in [PctWorkers -> PctState] /\ PctDelay \in 0 .. PctDelay /\ PctNone \in PctToken
      /\ PctOther \in PctRegions /\ 0 \in 0 .. PctDelay
  BY PctAssumption DEF PctTyped, PctTypeOK, PctEntry, PctState, PctToken
<1>2. ASSUME NEW w \in PctWorkers, NEW pc \in PctPCs
      PROVE  /\ PctMove(w, pc) \in PctState /\ PctMove(w, pc).pc = pc
             /\ PctMove(w, pc).region = pctWorker[w].region /\ PctMove(w, pc).config = pctWorker[w].config
  <2>1. pctWorker[w] \in PctState
    BY <1>1
  <2> QED
    BY <1>1, <2>1 DEF PctMove, PctState, PctPCs
<1>3. ASSUME NEW w \in PctWorkers, NEW r \in PctRegions, PctFind(w, r) PROVE PctTyped'
  <2> DEFINE config == IF r \in pctActive THEN r ELSE PctOther
             s == [PctMove(w, "token") EXCEPT !.region = r, !.config = config]
  <2>1. /\ config \in PctRegions /\ pctWorker' = [pctWorker EXCEPT ![w] = s]
        /\ UNCHANGED <<pctActive, pctCache>>
    BY <1>1, <1>3 DEF PctFind
  <2> HIDE DEF config
  <2>2. s \in PctState /\ s.region = r /\ s.config = config /\ s.pc = "token"
    <3>1. PctMove(w, "token") \in PctState /\ PctMove(w, "token").pc = "token"
      BY <1>2 DEF PctPCs
    <3>2. s = [PctMove(w, "token") EXCEPT !.region = r, !.config = config]
      OBVIOUS
    <3> HIDE DEF s
    <3> QED
      BY <2>1, <3>1, <3>2 DEF PctState
  <2> HIDE DEF s
  <2> QED
    BY <1>1, <2>1, <2>2, PctTypedBy
<1>4. ASSUME NEW w \in PctWorkers, PctHit(w) PROVE PctTyped'
  <2> DEFINE token == pctCache[pctWorker[w].region].token
             s == [PctMove(w, "post") EXCEPT !.token = token]
  <2>1. /\ pctWorker[w].pc = "token" /\ pctWorker' = [pctWorker EXCEPT ![w] = s]
        /\ UNCHANGED <<pctActive, pctCache>>
    BY <1>4 DEF PctHit
  <2>2. pctWorker[w].region \in PctRegions /\ pctWorker[w].config \in PctRegions
    BY <2>1 DEF PctTyped
  <2>3. token \in PctToken
    BY <1>1, <2>2 DEF PctEntry
  <2> HIDE DEF token
  <2>4. /\ s \in PctState /\ s.pc = "post"
        /\ s.region = pctWorker[w].region /\ s.config = pctWorker[w].config
    BY <1>2, <2>3, PctGiven DEF PctPCs
  <2> HIDE DEF s
  <2> QED
    BY <1>1, <2>1, <2>2, <2>4, PctTypedBy
<1>5. ASSUME NEW w \in PctWorkers, PctMiss(w) PROVE PctTyped'
  <2>1. /\ pctWorker[w].pc = "token" /\ pctWorker' = [pctWorker EXCEPT ![w] = PctMove(w, "fetch")]
        /\ UNCHANGED <<pctActive, pctCache>>
    BY <1>5 DEF PctMiss
  <2>2. pctWorker[w].region \in PctRegions /\ pctWorker[w].config \in PctRegions
    BY <2>1 DEF PctTyped
  <2> QED
    BY <1>1, <1>2, <2>1, <2>2, PctTypedBy DEF PctPCs
<1>6. ASSUME NEW w \in PctWorkers, NEW life \in PctLifetimes, PctIssue(w, life) PROVE PctTyped'
  <2> DEFINE token == [from |-> pctWorker[w].config, left |-> life]
             s == [pctWorker[w] EXCEPT !.pc = "answer", !.life = life, !.token = token]
  <2>1. pctWorker[w].pc = "fetch" /\ UNCHANGED <<pctActive, pctCache>> /\ pctWorker' = [pctWorker EXCEPT ![w] = s]
    BY <1>1, <1>6 DEF PctIssue
  <2>2. pctWorker[w].region \in PctRegions /\ pctWorker[w].config \in PctRegions /\ life \in PctTimes
    BY <2>1, PctTtlFits DEF PctTyped
  <2>3. token \in PctToken /\ pctWorker[w] \in PctState
    BY <1>1, <2>2 DEF PctToken
  <2> HIDE DEF token
  <2>4. /\ s \in PctState /\ s.pc = "answer" /\ s.life = life
        /\ s.region = pctWorker[w].region /\ s.config = pctWorker[w].config
    BY <2>3 DEF PctState
  <2> HIDE DEF s
  <2> QED
    BY <1>1, <2>1, <2>2, <2>4, PctTypedBy
<1>7. ASSUME NEW w \in PctWorkers, PctStore(w) PROVE PctTyped'
  <2> DEFINE worker == pctWorker[w]
             ttl == PctTtl(worker.life)
             entry == [token |-> IF ttl > 0 THEN worker.token ELSE PctNone, left |-> ttl]
             s == [PctMove(w, "post") EXCEPT !.life = 0]
  <2>1. /\ worker.pc = "answer" /\ UNCHANGED pctActive
        /\ pctCache' = [pctCache EXCEPT ![worker.region] = entry]
        /\ pctWorker' = [pctWorker EXCEPT ![w] = s]
    BY <1>7 DEF PctStore
  <2>2. /\ worker \in PctState /\ worker.token \in PctToken
        /\ worker.region \in PctRegions /\ worker.config \in PctRegions /\ worker.life \in PctLifetimes
    BY <1>1, <2>1 DEF PctTyped, PctState
  <2>3. ttl \in PctTimes
    BY <2>2, PctTtlFits
  <2> HIDE DEF ttl
  <2>4. entry \in PctEntry
    BY <1>1, <2>2, <2>3 DEF PctEntry
  <2> HIDE DEF entry
  <2>5. s \in PctState /\ s.pc = "post" /\ s.region = worker.region /\ s.config = worker.config
    BY <1>2, PctLived DEF PctPCs
  <2> HIDE DEF s
  <2>6. pctCache' \in [PctRegions -> PctEntry]
    BY <1>1, <2>1, <2>4
  <2> QED
    BY <2>1, <2>2, <2>5, <2>6, PctTypedBy
<1>8. ASSUME NEW w \in PctWorkers, PctEnd(w) PROVE PctTyped'
  <2>1. PctIdle \in PctState /\ PctIdle.pc = "idle"
    BY <1>1 DEF PctIdle, PctState
  <2> QED
    BY <1>1, <1>8, <2>1, PctTypedBy DEF PctEnd
<1>9. CASE PctTick
  <2>1. ASSUME NEW r \in PctRegions PROVE pctCache'[r] \in PctEntry
    <3>1. pctCache[r].token \in PctToken /\ pctCache[r].left \in PctTimes
      BY <1>1 DEF PctEntry
    <3>2. PctLess(pctCache[r].left) \in PctTimes /\ pctCache[r].left \in Nat /\ 0 \in PctTimes
      BY <3>1, PctTimesClosed, PctZeroTime
    <3>3. PctAged(pctCache[r].token) \in PctToken
      BY <3>1, PctAgedToken
    <3>4. pctCache'[r] = IF pctCache[r].left <= 1 THEN [token |-> PctNone, left |-> 0]
                         ELSE [token |-> PctAged(pctCache[r].token), left |-> pctCache[r].left - 1]
      BY <1>9 DEF PctTick
    <3>5. ~(pctCache[r].left <= 1) => pctCache[r].left - 1 = PctLess(pctCache[r].left)
      BY <3>2 DEF PctLess
    <3> QED
      BY <1>1, <3>2, <3>3, <3>4, <3>5 DEF PctEntry
  <2>2. pctCache' \in [PctRegions -> PctEntry]
    BY <1>9, <2>1 DEF PctTick
  <2>3. ASSUME NEW w \in PctWorkers
        PROVE  /\ pctWorker'[w] \in PctState
               /\ pctWorker'[w].pc = pctWorker[w].pc /\ pctWorker'[w].region = pctWorker[w].region
               /\ pctWorker'[w].config = pctWorker[w].config /\ pctWorker'[w].life = pctWorker[w].life
    <3>1. pctWorker[w] \in PctState /\ pctWorker[w].token \in PctToken /\ pctWorker[w].left \in 0 .. PctDelay
      BY <1>1 DEF PctState
    <3>2. PctAged(pctWorker[w].token) \in PctToken /\ PctLess(pctWorker[w].left) \in 0 .. PctDelay
      BY <3>1, PctAgedToken, PctAssumption DEF PctLess
    <3>3. pctWorker'[w] = [pctWorker[w] EXCEPT !.token = PctAged(pctWorker[w].token), !.left = PctLess(pctWorker[w].left)]
      BY <1>9 DEF PctTick
    <3> QED
      BY <3>1, <3>2, <3>3 DEF PctState
  <2>4. pctWorker' \in [PctWorkers -> PctState]
    BY <1>9, <2>3 DEF PctTick
  <2>5. PctTypeOK'
    BY <1>1, <1>9, <2>2, <2>4 DEF PctTick, PctTypeOK, PctEntry, PctState
  <2> QED
    BY <2>3, <2>5 DEF PctTyped
<1>10. ASSUME NEW r \in PctRegions, PctSwitch(r) PROVE PctTyped'
  BY <1>10 DEF PctSwitch, PctTyped, PctTypeOK
<1>11. CASE UNCHANGED pctVars
  BY <1>11 DEF pctVars, PctTyped, PctTypeOK
<1> QED
  BY <1>3, <1>4, <1>5, <1>6, <1>7, <1>8, <1>9, <1>10, <1>11 DEF PctNext

LEMMA PctStaysTyped == PctSpec => []PctTypeOK
<1>1. PctInit => PctTyped
  <2> SUFFICES ASSUME PctInit PROVE PctTyped
    OBVIOUS
  <2>1. PctNone \in PctToken /\ 0 \in PctTimes /\ 0 \in 0 .. PctDelay
    BY PctZeroTime, PctAssumption DEF PctToken
  <2>2. PctIdle \in PctState /\ PctIdle.pc = "idle"
    BY <2>1 DEF PctIdle, PctState
  <2>3. PctTypeOK
    BY <2>1, <2>2 DEF PctInit, PctTypeOK, PctState
  <2> QED
    BY <2>2, <2>3 DEF PctInit, PctTyped
<1>2. PctTyped => PctTypeOK
  BY DEF PctTyped
<1> QED
  BY <1>1, <1>2, PctTypedStep, PTL DEF PctSpec

-----------------------------------------------------------------------------
(* The learning times of Snowflake *)

\* An answer on its way to the cache is as old as the time it was kept, at the most, and one
\* in the cache as old as the time it has been there in addition.
LearnHeld ==
    \A t \in LearnTasks : learnTask[t].pc = "cache" =>
        LearnAsCached(learnTask[t].value) = LearnAsCached(learnStored) \/ learnSince <= learnTask[t].held

LearnKept ==
    learnCache.left > 0 =>
        learnCache.value = LearnAsCached(learnStored) \/ learnSince + learnCache.left <= LearnTtl + LearnDelay

LearnInv == LearnTypeOK /\ LearnHeld /\ LearnKept

LEMMA LearnInvHolds == LearnSpec => []LearnInv
<1>0. /\ LearnNone \in LearnValue /\ 0 \in LearnValue /\ LearnTtl \in Nat /\ LearnDelay \in Nat
      /\ 0 \in 0 .. LearnTtl /\ LearnTtl \in 0 .. LearnTtl /\ 0 \in 0 .. LearnDelay /\ 0 \in LearnAges
  BY LearnAssumption DEF LearnValue, LearnAges
<1>1. LearnInit => LearnInv
  <2> SUFFICES ASSUME LearnInit PROVE LearnInv
    OBVIOUS
  <2>1. LearnTypeOK
    <3>1. learnCache \in [value : LearnValue, left : 0 .. LearnTtl] /\ learnRow \in [routed : BOOLEAN, value : LearnValue]
      BY <1>0 DEF LearnInit
    <3>2. learnTask \in [LearnTasks -> LearnState]
      BY <1>0 DEF LearnInit, LearnState
    <3> QED
      BY <1>0, <3>1, <3>2 DEF LearnInit, LearnTypeOK
  <2> QED
    BY <2>1 DEF LearnInit, LearnInv, LearnHeld, LearnKept
<1>2. LearnInv /\ [LearnNext]_learnVars => LearnInv'
  <2> SUFFICES ASSUME LearnInv, [LearnNext]_learnVars PROVE LearnInv'
    OBVIOUS
  <2>1. LearnTypeOK /\ LearnHeld /\ LearnKept
    BY DEF LearnInv
  <2>2. /\ learnCache.left \in 0 .. LearnTtl /\ learnCache.value \in LearnValue /\ learnSince \in Nat
        /\ \A t \in LearnTasks : learnTask[t] \in LearnState /\ learnTask[t].held \in 0 .. LearnDelay
    BY <1>0, <2>1 DEF LearnTypeOK, LearnState, LearnAges
  <2>3. \A value \in LearnValue : LearnAsCached(value) \in LearnValue
    BY <1>0 DEF LearnAsCached
\* A task goes on.
  <2>4. ASSUME NEW t \in LearnTasks, NEW pc \in {"ready", "query", "cache", "route", "done"}, NEW value \in LearnValue,
               LearnGoes(t, pc, value),
               pc = "cache" => LearnAsCached(value) = LearnAsCached(learnStored) \/ learnSince' = 0,
               learnRow' \in [routed : BOOLEAN, value : LearnValue], UNCHANGED <<learnStored, learnCache>>,
               learnSince' = learnSince \/ learnSince' = 0
        PROVE  LearnInv'
    <3>1. [pc |-> pc, value |-> value, held |-> 0] \in LearnState
      BY <1>0 DEF LearnState
    <3>2. LearnTypeOK'
      BY <1>0, <2>1, <2>4, <3>1 DEF LearnTypeOK, LearnGoes
    <3>3. \A u \in LearnTasks : u # t => learnTask'[u] = learnTask[u]
      BY <2>1, <2>4 DEF LearnTypeOK, LearnGoes
    <3>4. learnTask'[t] = [pc |-> pc, value |-> value, held |-> 0]
      BY <2>1, <2>4 DEF LearnTypeOK, LearnGoes
    <3>5. LearnHeld'
      <4> SUFFICES ASSUME NEW u \in LearnTasks, learnTask'[u].pc = "cache"
                   PROVE  \/ LearnAsCached(learnTask'[u].value) = LearnAsCached(learnStored)
                          \/ learnSince' <= learnTask'[u].held
        BY <2>4 DEF LearnHeld, LearnAsCached
      <4>1. CASE u = t
        <5>1. learnTask'[u].value = value /\ learnTask'[u].held = 0 /\ pc = "cache"
          BY <3>4, <4>1
        <5>2. CASE learnSince' = 0
          BY <5>1, <5>2
        <5>3. CASE learnSince' # 0
          <6>1. LearnAsCached(value) = LearnAsCached(learnStored)
            BY <2>4, <5>1, <5>3
          <6> QED
            BY <5>1, <6>1
        <5> QED
          BY <5>2, <5>3
      <4>2. CASE u # t
        <5>1. learnTask'[u] = learnTask[u]
          BY <3>3, <4>2
        <5>2. \/ LearnAsCached(learnTask[u].value) = LearnAsCached(learnStored)
              \/ learnSince <= learnTask[u].held
          BY <2>1, <5>1 DEF LearnHeld
        <5> QED
          BY <2>2, <2>4, <5>1, <5>2
      <4> QED
        BY <4>1, <4>2
    <3>6. LearnKept'
      BY <1>0, <2>1, <2>2, <2>4 DEF LearnKept, LearnAsCached
    <3> QED
      BY <3>2, <3>5, <3>6 DEF LearnInv
  <2>5. ASSUME NEW t \in LearnTasks, LearnHit(t) PROVE LearnInv'
    <3>1. (IF learnCache.value = 0 THEN LearnNone ELSE learnCache.value) \in LearnValue
      BY <1>0, <2>2
    <3> QED
      BY <2>1, <2>4, <2>5, <3>1 DEF LearnTypeOK, LearnHit
  <2>6. ASSUME NEW t \in LearnTasks, LearnMiss(t) \/ LearnWithout(t) \/ LearnRouteFails(t) \/ LearnAgain(t)
        PROVE  LearnInv'
    <3>1. CASE LearnMiss(t)
      BY <1>0, <2>1, <2>4, <3>1 DEF LearnTypeOK, LearnMiss
    <3>2. CASE LearnWithout(t)
      BY <1>0, <2>1, <2>4, <3>2 DEF LearnTypeOK, LearnWithout
    <3>3. CASE LearnRouteFails(t)
      BY <1>0, <2>1, <2>4, <3>3 DEF LearnTypeOK, LearnRouteFails
    <3>4. CASE LearnAgain(t)
      BY <1>0, <2>1, <2>4, <3>4 DEF LearnTypeOK, LearnAgain
    <3> QED
      BY <2>6, <3>1, <3>2, <3>3, <3>4
  <2>7. ASSUME NEW t \in LearnTasks, LearnAnswer(t) PROVE LearnInv'
    BY <2>1, <2>4, <2>7 DEF LearnTypeOK, LearnAnswer
  <2>8. ASSUME NEW t \in LearnTasks, LearnFail(t) PROVE LearnInv'
    BY <1>0, <2>1, <2>4, <2>8 DEF LearnTypeOK, LearnFail
  <2>9. ASSUME NEW t \in LearnTasks, LearnCached(t) PROVE LearnInv'
    <3> DEFINE value == learnTask[t].value
    <3>1. value \in LearnValue /\ learnTask[t].pc = "cache"
      BY <2>2, <2>9 DEF LearnCached, LearnState
    <3>2. /\ learnCache' = [value |-> LearnAsCached(value), left |-> LearnTtl]
          /\ LearnGoes(t, "route", value) /\ UNCHANGED <<learnStored, learnRow, learnSince>>
      BY <2>9 DEF LearnCached
    <3>3. LearnAsCached(value) = LearnAsCached(learnStored) \/ learnSince <= LearnDelay
      BY <1>0, <2>1, <2>2, <3>1 DEF LearnHeld
    <3> HIDE DEF value
    <3>4. [pc |-> "route", value |-> value, held |-> 0] \in LearnState
      BY <1>0, <3>1 DEF LearnState
    <3>5. learnCache' \in [value : LearnValue, left : 0 .. LearnTtl]
      BY <1>0, <2>3, <3>1, <3>2
    <3>6. LearnTypeOK'
      BY <2>1, <3>2, <3>4, <3>5 DEF LearnTypeOK, LearnGoes
    <3>7. \A u \in LearnTasks : learnTask'[u].pc = "cache" => learnTask'[u] = learnTask[u]
      BY <2>1, <3>2 DEF LearnTypeOK, LearnGoes
    <3>8. LearnHeld'
      BY <2>1, <3>2, <3>7 DEF LearnHeld, LearnAsCached
    <3>9. LearnKept'
      BY <1>0, <2>2, <3>2, <3>3 DEF LearnKept, LearnAsCached
    <3> QED
      BY <3>6, <3>8, <3>9 DEF LearnInv
  <2>10. ASSUME NEW t \in LearnTasks, LearnRoute(t) PROVE LearnInv'
    <3>1. learnTask[t].value \in LearnValue
      BY <2>2 DEF LearnState
    <3>2. learnRow' \in [routed : BOOLEAN, value : LearnValue]
      BY <2>1, <2>10, <3>1 DEF LearnTypeOK, LearnRoute
    <3> QED
      BY <1>0, <2>4, <2>10, <3>2 DEF LearnRoute
\* Time passes for the answers on their way and for the cache alike.
  <2>11. CASE LearnTick
    <3>1. /\ learnSince' \in LearnAges /\ learnSince' <= learnSince + 1 /\ learnSince' \in Nat
      BY <1>0, <2>1, <2>2, <2>11 DEF LearnTick, LearnTypeOK, LearnAges
    <3>2. ASSUME NEW t \in LearnTasks
          PROVE  /\ learnTask'[t] \in LearnState
                 /\ learnTask'[t].pc = learnTask[t].pc /\ learnTask'[t].value = learnTask[t].value
                 /\ learnTask[t].pc = "cache" => learnTask'[t].held = learnTask[t].held + 1
      <4>1. learnTask'[t] = IF learnTask[t].pc = "cache" THEN [learnTask[t] EXCEPT !.held = @ + 1] ELSE learnTask[t]
        BY <2>11 DEF LearnTick, LearnHolds
      <4>2. learnTask[t].pc = "cache" => learnTask[t].held + 1 \in 0 .. LearnDelay
        BY <1>0, <2>2, <2>11 DEF LearnTick, LearnHolds
      <4> QED
        BY <2>2, <4>1, <4>2 DEF LearnState
    <3>3. learnTask' \in [LearnTasks -> LearnState]
      <4>1. learnTask' = [t \in LearnTasks |-> learnTask'[t]]
        BY <2>11 DEF LearnTick
      <4> QED
        BY <3>2, <4>1
    <3>4. /\ learnCache' \in [value : LearnValue, left : 0 .. LearnTtl]
          /\ learnCache'.left > 0 => learnCache'.value = learnCache.value /\ learnCache'.left = learnCache.left - 1
                                     /\ learnCache.left > 0
      BY <1>0, <2>1, <2>2, <2>11 DEF LearnTick, LearnTypeOK
    <3>5. UNCHANGED <<learnStored, learnRow>>
      BY <2>11 DEF LearnTick
    <3>6. LearnTypeOK'
      BY <2>1, <3>1, <3>3, <3>4, <3>5 DEF LearnTypeOK
    <3>7. LearnHeld'
      <4> SUFFICES ASSUME NEW t \in LearnTasks, learnTask'[t].pc = "cache"
                   PROVE  \/ LearnAsCached(learnTask'[t].value) = LearnAsCached(learnStored)
                          \/ learnSince' <= learnTask'[t].held
        BY <3>5 DEF LearnHeld, LearnAsCached
      <4>1. \/ LearnAsCached(learnTask[t].value) = LearnAsCached(learnStored)
            \/ learnSince <= learnTask[t].held
        BY <2>1, <3>2 DEF LearnHeld
      <4> QED
        BY <2>2, <3>1, <3>2, <4>1
    <3>8. LearnKept'
      BY <1>0, <2>1, <2>2, <3>1, <3>4, <3>5 DEF LearnKept, LearnAsCached
    <3> QED
      BY <3>6, <3>7, <3>8 DEF LearnInv
  <2>12. ASSUME NEW value \in LearnSeconds, LearnGrows(value) PROVE LearnInv'
    <3>1. /\ learnStored' = value /\ learnSince' = 0 /\ UNCHANGED <<learnCache, learnTask, learnRow>>
      BY <2>12 DEF LearnGrows
    <3>2. LearnTypeOK'
      BY <1>0, <2>1, <3>1 DEF LearnTypeOK, LearnValue
    <3>3. LearnHeld' /\ LearnKept'
      BY <1>0, <2>2, <3>1 DEF LearnHeld, LearnKept
    <3> QED
      BY <3>2, <3>3 DEF LearnInv
  <2>13. CASE UNCHANGED learnVars
    BY <2>1, <2>13 DEF learnVars, LearnInv, LearnTypeOK, LearnHeld, LearnKept, LearnAsCached
  <2> QED
    BY <2>5, <2>6, <2>7, <2>8, <2>9, <2>10, <2>11, <2>12, <2>13 DEF LearnNext, LearnStep
<1> QED
  BY <1>1, <1>2, PTL DEF LearnSpec

\* However many tasks ask at once, and whichever puts its answer into the cache last, what
\* is read there is what Snowflake holds, unless it changed or Snowflake failed within the
\* time to live and the time an answer took to the cache: reading an entry never prolongs it.
THEOREM LearningTimesAreRecent == LearnSpec => []LearningTimeIsRecent
<1>1. LearnInv => LearningTimeIsRecent
  BY LearnAssumption DEF LearnInv, LearnTypeOK, LearnAges, LearnKept, LearningTimeIsRecent
<1> QED
  BY LearnInvHolds, <1>1, PTL

LEMMA LearnStaysTyped == LearnSpec => []LearnTypeOK
<1>1. LearnInv => LearnTypeOK
  BY DEF LearnInv
<1> QED
  BY LearnInvHolds, <1>1, PTL

-----------------------------------------------------------------------------
(* The legacy tables *)

MigTyped ==
    /\ migOld \in [MigTables -> [MigIds -> MigRow \cup {MigAbsent}]]
    /\ migNew \in [MigTables -> [MigIds -> MigRow \cup {MigAbsent}]]
    /\ migCopy \in [pc : {"idle", "copy"}, todo : SUBSET MigTables, full : BOOLEAN, runs : 0 .. 2]
    /\ migEmpty \subseteq MigTables

\* Nothing is emptied while a run or its outcome counts.
MigApart ==
    /\ migCopy.pc = "idle" => ~migCopy.full
    /\ migEmpty # {} => migCopy.pc = "idle" /\ migCopy.runs = 0

\* A legacy audit's record is there and is no other audit's.
MigSound ==
    \A t \in MigTables : \A id \in MigRows(migOld, t) :
        migOld[t][id].record # 0 =>
            /\ t \in MigAudits /\ migOld[t][id].record \in MigRows(migOld, "record")
            /\ \A other \in MigRows(migOld, t) :
                  migOld[t][other].record = migOld[t][id].record => other = id

\* A copy is of a row that is there; it may have got its record since.
MigCopied ==
    \A t \in MigTables : \A id \in MigRows(migNew, t) :
        migNew[t][id].of = "legacy" =>
            /\ id \in MigRows(migOld, t)
            /\ migNew[t][id].record \in {0, migOld[t][id].record}

MigWhole(t) == MigRows(migOld, t) \subseteq MigRows(migNew, t)

\* Where a run has got to: the first may leave out content audits, whose records come later.
MigReached ==
    \A t \in MigTables :
        /\ migCopy.runs > 0 /\ t # "content" => MigWhole(t)
        /\ migCopy.runs = 2 => MigWhole(t)
        /\ migCopy.full /\ t \notin migCopy.todo /\ (t # "content" \/ migCopy.runs > 0) => MigWhole(t)

MigProgress == MigLegacyOnly => MigReached

MigInv == MigTyped /\ MigApart /\ MigSound /\ MigCopied /\ MigProgress

\* A nonempty set of numbers up to a bound has a greatest.
LEMMA MaxIsGreatest ==
    ASSUME NEW n \in Nat, NEW S \in SUBSET (1 .. n), S # {}
    PROVE  Max(S) \in S /\ \A y \in S : Max(S) >= y
<1> DEFINE T == {n - x : x \in S}
           R == OpToRel(<, Nat)
<1>1. IsWellFoundedOn(R, Nat)
  BY NatLessThanWellFounded
<1>2. T \subseteq Nat /\ T # {}
  <2>1. \A x \in S : n - x \in Nat
    OBVIOUS
  <2> QED
    BY <2>1
<1> HIDE DEF T, R
<1>3. PICK m \in T : \A y \in T : ~(<<y, m>> \in R)
  BY <1>1, <1>2, WFMin
<1>4. \A y \in T : ~(y < m)
  BY <1>2, <1>3 DEF R, OpToRel
<1>5. PICK x \in S : m = n - x
  BY DEF T
<1>6. \A y \in S : x >= y
  <2> SUFFICES ASSUME NEW y \in S PROVE x >= y
    OBVIOUS
  <2>1. n - y \in T
    BY DEF T
  <2>2. ~(n - y < n - x)
    BY <1>4, <1>5, <2>1
  <2> QED
    BY <2>2
<1> QED
  BY <1>6 DEF Max

\* The next id of a table is none of its rows'.
LEMMA MigNextIsNew ==
    ASSUME NEW tables, NEW t
    PROVE  MigNextId(tables, t) \notin MigRows(tables, t)
<1> DEFINE n == Cardinality(MigIds)
           S == MigRows(tables, t)
<1>1. n \in Nat
  BY MigAssumption, FS_CardinalityType
<1>2. S \subseteq 1 .. n
  BY MigAssumption DEF MigRows
<1> HIDE DEF n, S
<1>3. CASE S = {}
  BY <1>3 DEF S
<1>4. CASE S # {}
  <2>1. Max(S) \in S /\ \A y \in S : Max(S) >= y
    BY <1>1, <1>2, <1>4, MaxIsGreatest
  <2>2. \A y \in S : y \in Int
    BY <1>1, <1>2
  <2>3. Max(S) + 1 \notin S
    BY <2>1, <2>2
  <2> QED
    BY <1>4, <2>3 DEF MigNextId, S
<1> QED
  BY <1>3, <1>4

MigTablesType == [MigTables -> [MigIds -> MigRow \cup {MigAbsent}]]

LEMMA MigIdsArePositive == 0 \notin MigIds
<1> DEFINE n == Cardinality(MigIds)
<1>1. n \in Nat /\ MigIds = 1 .. n
  BY MigAssumption, FS_CardinalityType
<1> HIDE DEF n
<1> QED
  BY <1>1

\* What a new row changes of the tables.
LEMMA MigAddedRows ==
    ASSUME NEW tables \in MigTablesType, NEW t \in MigTables, NEW row \in MigRow, MigRoom(tables, t)
    PROVE  /\ MigAdded(tables, t, row) \in MigTablesType
           /\ \A u \in MigTables : \A id \in MigIds :
                 MigAdded(tables, t, row)[u][id] =
                     IF u = t /\ id = MigNextId(tables, t) THEN row ELSE tables[u][id]
           /\ \A u \in MigTables : MigRows(tables, u) \subseteq MigRows(MigAdded(tables, t, row), u)
           /\ \A u \in MigTables : \A id \in MigRows(tables, u) :
                 MigAdded(tables, t, row)[u][id] = tables[u][id]
<1> DEFINE next == MigNextId(tables, t)
           added == MigAdded(tables, t, row)
<1>1. next \in MigIds /\ next \notin MigRows(tables, t)
  BY MigNextIsNew DEF MigRoom
<1>2. added = [tables EXCEPT ![t][next] = row]
  BY DEF MigAdded
<1> HIDE DEF next, added
<1>3. added \in MigTablesType
  BY <1>1, <1>2 DEF MigTablesType
<1>4. \A u \in MigTables : \A id \in MigIds :
         added[u][id] = IF u = t /\ id = next THEN row ELSE tables[u][id]
  BY <1>1, <1>2 DEF MigTablesType
<1>5. row # MigAbsent
  BY MigAssumption
<1>6. \A u \in MigTables : MigRows(tables, u) \subseteq MigRows(added, u)
  BY <1>4, <1>5 DEF MigRows
<1>7. \A u \in MigTables : \A id \in MigRows(tables, u) : added[u][id] = tables[u][id]
  BY <1>1, <1>4 DEF MigRows
<1> QED
  BY <1>3, <1>4, <1>6, <1>7 DEF next, added

LEMMA MigOrdered == MigBefore("record", "learner")
<1>1. 2 \in DOMAIN MigOrder /\ 4 \in DOMAIN MigOrder /\ MigOrder[2] = "record" /\ MigOrder[4] = "learner"
  BY DEF MigOrder
<1> QED
  BY <1>1 DEF MigBefore

LEMMA MigInvInit == MigInit => MigInv
<1> SUFFICES ASSUME MigInit PROVE MigInv
  OBVIOUS
<1>1. 0 \notin MigIds /\ 1 \in MigIds
  <2>1. Cardinality(MigIds) \in Nat /\ MigIds = 1 .. Cardinality(MigIds) /\ MigIds # {}
    BY MigAssumption, FS_CardinalityType
  <2> HIDE DEF MigTables
  <2>2. \A n \in Nat : 1 .. n # {} => 1 \in 1 .. n
    OBVIOUS
  <2> QED
    BY <2>1, <2>2, MigIdsArePositive
<1>2. /\ MigNothing \in MigTablesType
      /\ \A t \in MigTables : MigRows(MigNothing, t) = {}
  BY DEF MigNothing, MigTablesType, MigRows
<1>3. /\ migNew = MigNothing /\ migEmpty = {}
      /\ migCopy = [pc |-> "idle", todo |-> {}, full |-> FALSE, runs |-> 0]
  BY DEF MigInit
<1>4. \A record, config \in {0, 1} : [of |-> "legacy", record |-> record, config |-> config] \in MigRow
  BY <1>1 DEF MigRow
<1> DEFINE row(record, config) == [of |-> "legacy", record |-> record, config |-> config]
           first(r) == [id \in MigIds |-> IF id = 1 THEN r ELSE MigAbsent]
           start(t) == CASE t = "content" -> row(1, 1) [] t = "learner" -> row(0, 1) [] OTHER -> row(0, 0)
<1>5. migOld = [t \in MigTables |-> first(start(t))]
  BY DEF MigInit
<1>6. \A t \in MigTables : start(t) \in MigRow /\ start(t).record = IF t = "content" THEN 1 ELSE 0
  BY <1>4 DEF MigTables
<1> HIDE DEF start
<1>7. \A t \in MigTables : \A id \in MigIds : migOld[t][id] = IF id = 1 THEN start(t) ELSE MigAbsent
  BY <1>5
<1>8. \A t \in MigTables : MigRows(migOld, t) = {1}
  BY <1>1, <1>6, <1>7, MigAssumption DEF MigRows
<1>9. migOld \in MigTablesType
  BY <1>5, <1>6 DEF MigTablesType
<1>10. MigTyped
  BY <1>2, <1>3, <1>9 DEF MigTyped, MigTablesType
<1>11. MigSound
  <2>1. "record" \in MigTables /\ "content" \in MigAudits
    BY DEF MigTables, MigAudits
  <2> QED
    BY <1>1, <1>6, <1>7, <1>8, <2>1 DEF MigSound
<1> QED
  BY <1>2, <1>3, <1>10, <1>11 DEF MigInv, MigApart, MigCopied, MigProgress, MigReached

LEMMA MigInvStep == MigInv /\ [MigNext]_migVars => MigInv'
<1> SUFFICES ASSUME MigInv, [MigNext]_migVars PROVE MigInv'
  OBVIOUS
<1>1. MigTyped /\ MigApart /\ MigSound /\ MigCopied /\ MigProgress
  BY DEF MigInv
<1>2. migOld \in MigTablesType /\ migNew \in MigTablesType
  BY <1>1 DEF MigTyped, MigTablesType
<1>3. "record" \in MigTables /\ "learner" \in MigTables /\ "content" \in MigTables
  BY DEF MigTables
\* A run that does not count, or no longer does.
<1>4. ASSUME migCopy'.full = FALSE, migCopy'.runs = 0 PROVE MigProgress'
  BY <1>4 DEF MigProgress, MigReached
<1>5. ASSUME UNCHANGED <<migOld, migNew>>, migCopy'.full = FALSE, migCopy'.runs = migCopy.runs
      PROVE  MigSound' /\ MigCopied' /\ MigProgress'
  <2>1. MigSound'
    BY <1>1, <1>5 DEF MigSound, MigRows
  <2>2. MigCopied'
    BY <1>1, <1>5 DEF MigCopied, MigRows
  <2>3. MigProgress'
    BY <1>1, <1>5 DEF MigProgress, MigReached, MigLegacyOnly, MigWhole, MigRows
  <2> QED
    BY <2>1, <2>2, <2>3
\* Where no row is taken away or changed, what was copied stays so.
<1>15. ASSUME \A u \in MigTables : \A id \in MigRows(migNew, u) :
                 id \in MigRows(migNew', u) /\ migNew'[u][id] = migNew[u][id]
       PROVE  MigLegacyOnly' => MigLegacyOnly
  <2> SUFFICES ASSUME MigLegacyOnly', NEW u \in MigTables, NEW id \in MigRows(migNew, u)
               PROVE  migNew[u][id].of = "legacy"
    BY DEF MigLegacyOnly
  <2>1. id \in MigRows(migNew', u) /\ migNew'[u][id] = migNew[u][id]
    BY <1>15
  <2>2. migNew'[u][id].of = "legacy"
    BY <2>1 DEF MigLegacyOnly, MigRows
  <2> QED
    BY <2>1, <2>2
<1>6. ASSUME NEW t \in MigTables, NEW row \in MigRow, MigWrite(t, row) PROVE MigInv'
  <2>1. /\ UNCHANGED migEmpty
        /\ migCopy' = IF row.of = "legacy" THEN [migCopy EXCEPT !.full = FALSE, !.runs = 0] ELSE migCopy
    BY <1>6 DEF MigWrite
  <2>2. /\ migCopy' \in [pc : {"idle", "copy"}, todo : SUBSET MigTables, full : BOOLEAN, runs : 0 .. 2]
        /\ row.of = "legacy" => migCopy'.full = FALSE /\ migCopy'.runs = 0
        /\ migCopy'.pc = migCopy.pc
    BY <1>1, <2>1, 0 \in 0 .. 2 DEF MigTyped
  <2>3. MigApart'
    BY <1>1, <2>1, <2>2 DEF MigApart
  <2>4. CASE row.of = "legacy"
    <3>1. /\ MigMayWrite(migOld, t, row) /\ MigRoom(migOld, t)
          /\ migOld' = MigAdded(migOld, t, row) /\ migNew' = migNew
      BY <1>6, <2>4 DEF MigWrite
    <3>2. /\ migOld' \in MigTablesType
          /\ \A u \in MigTables : \A id \in MigIds :
                migOld'[u][id] = IF u = t /\ id = MigNextId(migOld, t) THEN row ELSE migOld[u][id]
          /\ \A u \in MigTables : MigRows(migOld, u) \subseteq MigRows(migOld', u)
          /\ \A u \in MigTables : \A id \in MigRows(migOld, u) : migOld'[u][id] = migOld[u][id]
      BY <1>2, <3>1, MigAddedRows
    <3>3. MigTyped'
      BY <1>1, <2>1, <2>2, <3>1, <3>2 DEF MigTyped, MigTablesType
    <3>4. MigSound'
      <4> SUFFICES ASSUME NEW u \in MigTables, NEW id \in MigRows(migOld', u), migOld'[u][id].record # 0
                   PROVE  /\ u \in MigAudits /\ migOld'[u][id].record \in MigRows(migOld', "record")
                          /\ \A other \in MigRows(migOld', u) :
                                migOld'[u][other].record = migOld'[u][id].record => other = id
        BY DEF MigSound, MigRows
      <4> DEFINE next == MigNextId(migOld, t)
      <4> HIDE DEF next
      <4>1. \A other \in MigRows(migOld', u) : ~(u = t /\ other = next) =>
              other \in MigRows(migOld, u) /\ migOld'[u][other] = migOld[u][other]
        BY <3>2 DEF MigRows, next
      <4>2. u = t => \A other \in MigRows(migOld', u) : other = next => migOld'[u][other] = row
        BY <3>2 DEF MigRows, next
      <4>3. row.record # 0 => /\ t \in MigAudits /\ row.record \in MigRows(migOld, "record")
                              /\ MigFree(migOld, t, row.record)
        BY <3>1 DEF MigMayWrite
      <4>4. CASE u = t /\ id = next
        BY <1>3, <3>2, <4>1, <4>2, <4>3, <4>4 DEF MigFree
      <4>5. CASE ~(u = t /\ id = next)
        <5>1. id \in MigRows(migOld, u) /\ migOld'[u][id] = migOld[u][id]
          BY <4>1, <4>5
        <5>2. /\ u \in MigAudits /\ migOld[u][id].record \in MigRows(migOld, "record")
              /\ \A other \in MigRows(migOld, u) :
                    migOld[u][other].record = migOld[u][id].record => other = id
          BY <1>1, <5>1 DEF MigSound
        <5>3. ASSUME NEW other \in MigRows(migOld', u), migOld'[u][other].record = migOld'[u][id].record
              PROVE  other = id
          BY <4>1, <4>2, <4>3, <5>1, <5>2, <5>3 DEF MigFree
        <5> QED
          BY <1>3, <3>2, <5>1, <5>2, <5>3
      <4> QED
        BY <4>4, <4>5
    <3>5. MigCopied'
      <4> SUFFICES ASSUME NEW u \in MigTables, NEW id \in MigRows(migNew, u), migNew[u][id].of = "legacy"
                   PROVE  id \in MigRows(migOld', u) /\ migNew[u][id].record \in {0, migOld'[u][id].record}
        BY <3>1 DEF MigCopied, MigRows
      <4>1. id \in MigRows(migOld, u) /\ migNew[u][id].record \in {0, migOld[u][id].record}
        BY <1>1 DEF MigCopied
      <4> QED
        BY <3>2, <4>1
    <3> QED
      BY <1>4, <2>2, <2>3, <2>4, <3>3, <3>4, <3>5 DEF MigInv
  <2>5. CASE row.of # "legacy"
    <3>1. MigRoom(migNew, t) /\ migNew' = MigAdded(migNew, t, row) /\ migOld' = migOld /\ migCopy' = migCopy
      BY <1>6, <2>1, <2>5 DEF MigWrite
    <3>2. /\ migNew' \in MigTablesType
          /\ \A u \in MigTables : \A id \in MigIds :
                migNew'[u][id] = IF u = t /\ id = MigNextId(migNew, t) THEN row ELSE migNew[u][id]
          /\ \A u \in MigTables : MigRows(migNew, u) \subseteq MigRows(migNew', u)
          /\ \A u \in MigTables : \A id \in MigRows(migNew, u) : migNew'[u][id] = migNew[u][id]
      BY <1>2, <3>1, MigAddedRows
    <3>3. MigTyped'
      BY <1>1, <2>1, <2>2, <3>1, <3>2 DEF MigTyped, MigTablesType
    <3>4. MigSound'
      BY <1>1, <3>1 DEF MigSound, MigRows
    <3>5. MigCopied'
      <4> SUFFICES ASSUME NEW u \in MigTables, NEW id \in MigRows(migNew', u), migNew'[u][id].of = "legacy"
                   PROVE  id \in MigRows(migOld, u) /\ migNew'[u][id].record \in {0, migOld[u][id].record}
        BY <3>1 DEF MigCopied
      <4>1. migNew'[u][id] = migNew[u][id] /\ id \in MigRows(migNew, u)
        BY <2>5, <3>2 DEF MigRows
      <4> QED
        BY <1>1, <4>1 DEF MigCopied
    <3>6. MigProgress'
      <4>1. MigLegacyOnly' => MigLegacyOnly
        BY <1>15, <3>2
      <4>2. \A u \in MigTables : MigWhole(u) => MigWhole(u)'
        BY <3>1, <3>2 DEF MigWhole, MigRows
      <4> QED
        BY <1>1, <3>1, <4>1, <4>2 DEF MigProgress, MigReached
    <3> QED
      BY <2>3, <3>3, <3>4, <3>5, <3>6 DEF MigInv
  <2> QED
    BY <2>4, <2>5
<1>7. ASSUME NEW t \in MigTables, NEW id \in MigIds, NEW record \in MigIds, MigAnswer(t, id, record) PROVE MigInv'
  <2>1. /\ t \in MigAudits /\ id \in MigRows(migOld, t) /\ migOld[t][id].record = 0
        /\ MigMayWrite(migOld, t, [migOld[t][id] EXCEPT !.record = record])
        /\ migOld' = [migOld EXCEPT ![t][id].record = record]
        /\ UNCHANGED <<migNew, migCopy, migEmpty>>
    BY <1>7 DEF MigAnswer
  <2> DEFINE row == [migOld[t][id] EXCEPT !.record = record]
  <2>2. migOld[t][id] \in MigRow
    BY <1>2, <2>1 DEF MigTablesType, MigRows
  <2>3. row \in MigRow /\ row.record = record /\ row # MigAbsent /\ record # 0
    BY <2>2, MigAssumption, MigIdsArePositive DEF MigRow
  <2>4. migOld' = [migOld EXCEPT ![t][id] = row]
    BY <1>2, <2>1 DEF MigTablesType
  <2>5. record \in MigRows(migOld, "record") /\ MigFree(migOld, t, record)
    BY <2>1, <2>3 DEF MigMayWrite
  <2> HIDE DEF row
  <2>6. migOld' \in MigTablesType
    BY <1>2, <2>3, <2>4 DEF MigTablesType
  <2>7. \A u \in MigTables : \A i \in MigIds :
          migOld'[u][i] = IF u = t /\ i = id THEN row ELSE migOld[u][i]
    BY <1>2, <2>4 DEF MigTablesType
  <2>8. \A u \in MigTables : MigRows(migOld', u) = MigRows(migOld, u)
    BY <2>1, <2>3, <2>7 DEF MigRows
  <2>10. MigTyped' /\ MigApart'
    BY <1>1, <2>1, <2>6 DEF MigTyped, MigApart, MigTablesType
  <2>11. MigSound'
    <3> SUFFICES ASSUME NEW u \in MigTables, NEW i \in MigRows(migOld, u), migOld'[u][i].record # 0
                 PROVE  /\ u \in MigAudits /\ migOld'[u][i].record \in MigRows(migOld, "record")
                        /\ \A other \in MigRows(migOld, u) :
                              migOld'[u][other].record = migOld'[u][i].record => other = i
      BY <1>3, <2>8 DEF MigSound
    <3>1. \A other \in MigRows(migOld, u) : other \in MigIds
      BY DEF MigRows
    <3>2. CASE u = t /\ i = id
      BY <2>1, <2>3, <2>5, <2>7, <3>1, <3>2 DEF MigFree
    <3>3. CASE ~(u = t /\ i = id)
      BY <1>1, <2>3, <2>5, <2>7, <3>1, <3>3 DEF MigFree, MigSound
    <3> QED
      BY <3>2, <3>3
  <2>12. MigProgress'
    <3>1. MigLegacyOnly' = MigLegacyOnly
      BY <2>1 DEF MigLegacyOnly, MigRows
    <3>2. \A u \in MigTables : MigWhole(u)' = MigWhole(u)
      BY <2>1, <2>8 DEF MigWhole, MigRows
    <3> QED
      BY <1>1, <2>1, <3>1, <3>2 DEF MigProgress, MigReached
  <2>13. MigCopied'
    <3>1. \A u \in MigTables : MigRows(migNew', u) = MigRows(migNew, u)
      BY <2>1 DEF MigRows
    <3>2. \A u \in MigTables : \A i \in MigRows(migOld, u) : migOld[u][i].record # 0 =>
            migOld'[u][i].record = migOld[u][i].record
      BY <2>1, <2>7 DEF MigRows
    <3> SUFFICES ASSUME NEW u \in MigTables, NEW i \in MigRows(migNew, u), migNew[u][i].of = "legacy"
                 PROVE  i \in MigRows(migOld', u) /\ migNew[u][i].record \in {0, migOld'[u][i].record}
      BY <2>1, <3>1 DEF MigCopied
    <3>3. i \in MigRows(migOld, u) /\ migNew[u][i].record \in {0, migOld[u][i].record}
      BY <1>1 DEF MigCopied
    <3> QED
      BY <2>8, <3>2, <3>3
  <2> QED
    BY <2>10, <2>11, <2>12, <2>13 DEF MigInv
<1>8. ASSUME NEW chosen \in SUBSET MigTables, MigStart(chosen) PROVE MigInv'
  <2> DEFINE full == chosen = MigTables
  <2>1. /\ migCopy.pc = "idle" /\ migEmpty = {} /\ UNCHANGED <<migOld, migNew, migEmpty>>
        /\ migCopy' = [migCopy EXCEPT !.pc = "copy", !.todo = chosen, !.full = full]
    BY <1>8 DEF MigStart, MigChosen
  <2>2. full \in BOOLEAN /\ (full => chosen = MigTables)
    OBVIOUS
  <2> HIDE DEF full
  <2>3. /\ migCopy' \in [pc : {"idle", "copy"}, todo : SUBSET MigTables, full : BOOLEAN, runs : 0 .. 2]
        /\ migCopy'.full = full /\ migCopy'.runs = migCopy.runs /\ migCopy'.pc = "copy" /\ migCopy'.todo = chosen
    BY <1>1, <2>1, <2>2 DEF MigTyped
  <2>4. MigTyped'
    BY <1>1, <2>1, <2>3 DEF MigTyped
  <2>5. MigApart'
    BY <1>1, <2>1, <2>3 DEF MigApart
  <2>6. MigSound' /\ MigCopied'
    BY <1>1, <2>1 DEF MigSound, MigCopied, MigRows
  <2>7. MigProgress'
    <3>1. MigLegacyOnly' = MigLegacyOnly /\ \A u \in MigTables : MigWhole(u)' = MigWhole(u)
      BY <2>1 DEF MigLegacyOnly, MigWhole, MigRows
    <3> QED
      BY <1>1, <2>2, <2>3, <3>1 DEF MigProgress, MigReached
  <2> QED
    BY <2>4, <2>5, <2>6, <2>7 DEF MigInv
<1>9. ASSUME NEW chosen \in SUBSET MigTables, MigTruncateStart(chosen) PROVE MigInv'
  <2>1. /\ migCopy.pc = "idle" /\ UNCHANGED <<migOld, migNew>> /\ migEmpty' \subseteq MigTables
        /\ migCopy' = [migCopy EXCEPT !.runs = 0]
    BY <1>9 DEF MigTruncateStart
  <2>2. /\ migCopy' \in [pc : {"idle", "copy"}, todo : SUBSET MigTables, full : BOOLEAN, runs : 0 .. 2]
        /\ migCopy'.full = FALSE /\ migCopy'.runs = 0 /\ migCopy'.pc = "idle"
    BY <1>1, <2>1 DEF MigTyped, MigApart
  <2>3. MigTyped' /\ MigApart' /\ MigSound' /\ MigCopied'
    <3>1. MigTyped'
      BY <1>1, <2>1, <2>2 DEF MigTyped
    <3>2. MigApart'
      BY <1>1, <2>1, <2>2 DEF MigApart
    <3>3. MigSound' /\ MigCopied'
      BY <1>1, <2>1 DEF MigSound, MigCopied, MigRows
    <3> QED
      BY <3>1, <3>2, <3>3
  <2> QED
    BY <1>4, <2>2, <2>3 DEF MigInv
<1>10. ASSUME NEW t \in MigTables, MigCopyTable(t) PROVE MigInv'
  <2>1. /\ migCopy.pc = "copy" /\ t \in migCopy.todo /\ ~\E u \in migCopy.todo : MigBefore(u, t)
        /\ migNew' = [migNew EXCEPT ![t] = [id \in MigIds |-> IF MigTakes(t, id) THEN migOld[t][id] ELSE @[id]]]
        /\ migCopy' = [migCopy EXCEPT !.todo = @ \ {t}] /\ UNCHANGED <<migOld, migEmpty>>
    BY <1>10 DEF MigCopyTable
  <2>2. /\ migNew' \in MigTablesType
        /\ \A u \in MigTables : \A id \in MigIds :
              migNew'[u][id] = IF u = t /\ MigTakes(t, id) THEN migOld[t][id] ELSE migNew[u][id]
    BY <1>2, <2>1 DEF MigTablesType
  <2>3. /\ migCopy' \in [pc : {"idle", "copy"}, todo : SUBSET MigTables, full : BOOLEAN, runs : 0 .. 2]
        /\ migCopy'.full = migCopy.full /\ migCopy'.runs = migCopy.runs /\ migCopy'.pc = "copy"
        /\ migCopy'.todo = migCopy.todo \ {t}
    BY <1>1, <2>1 DEF MigTyped
  <2>4. MigTyped' /\ MigApart' /\ MigSound'
    <3>1. MigTyped'
      BY <1>1, <2>1, <2>2, <2>3 DEF MigTyped, MigTablesType
    <3>2. MigApart'
      BY <1>1, <2>1, <2>3 DEF MigApart
    <3>3. MigSound'
      BY <1>1, <2>1 DEF MigSound, MigRows
    <3> QED
      BY <3>1, <3>2, <3>3
  <2>5. \A u \in MigTables : \A id \in MigRows(migNew', u) :
          \/ id \in MigRows(migNew, u) /\ migNew'[u][id] = migNew[u][id]
          \/ u = t /\ MigTakes(t, id) /\ migNew'[u][id] = migOld[u][id]
    BY <2>2 DEF MigRows
  <2>6. MigCopied'
    <3> SUFFICES ASSUME NEW u \in MigTables, NEW id \in MigRows(migNew', u), migNew'[u][id].of = "legacy"
                 PROVE  id \in MigRows(migOld, u) /\ migNew'[u][id].record \in {0, migOld[u][id].record}
      BY <2>1 DEF MigCopied
    <3>1. CASE id \in MigRows(migNew, u) /\ migNew'[u][id] = migNew[u][id]
      BY <1>1, <3>1 DEF MigCopied
    <3>2. CASE u = t /\ MigTakes(t, id) /\ migNew'[u][id] = migOld[u][id]
      BY <3>2 DEF MigTakes
    <3> QED
      BY <2>5, <3>1, <3>2
  <2>7. \A u \in MigTables : \A id \in MigRows(migNew, u) :
          id \in MigRows(migNew', u) /\ migNew'[u][id] = migNew[u][id]
    BY <2>2 DEF MigRows, MigTakes
  <2>8. ASSUME MigLegacyOnly, migCopy.full, t # "content" \/ migCopy.runs > 0
        PROVE  MigRows(migOld, t) \subseteq MigRows(migNew', t)
    <3> SUFFICES ASSUME NEW id \in MigRows(migOld, t), id \notin MigRows(migNew, t)
                 PROVE  MigTakes(t, id)
      BY <2>2, <2>7 DEF MigRows
    <3> DEFINE record == migOld[t][id].record
    <3>1. CASE record = 0
      BY <3>1 DEF MigTakes
    <3>2. CASE record # 0
      <4>1. /\ t \in MigAudits /\ record \in MigRows(migOld, "record")
            /\ \A other \in MigRows(migOld, t) : migOld[t][other].record = record => other = id
        BY <1>1, <3>2 DEF MigSound
      <4>2. MigWhole("record")
        <5>1. CASE migCopy.runs > 0
          BY <1>1, <1>3, <2>8, <5>1 DEF MigProgress, MigReached
        <5>2. CASE ~(migCopy.runs > 0)
          <6>1. t = "learner"
            BY <2>8, <4>1, <5>2 DEF MigAudits
          <6>2. "record" \notin migCopy.todo
            BY <2>1, <6>1, MigOrdered
          <6> QED
            BY <1>1, <1>3, <2>8, <6>2 DEF MigProgress, MigReached
        <5> QED
          BY <5>1, <5>2
      <4>3. MigFree(migNew, t, record)
        <5> SUFFICES ASSUME NEW other \in MigRows(migNew, t), migNew[t][other].record = record
                     PROVE  FALSE
          BY DEF MigFree
        <5>1. other \in MigRows(migOld, t) /\ record \in {0, migOld[t][other].record}
          BY <1>1, <2>8 DEF MigCopied, MigLegacyOnly
        <5> QED
          BY <3>2, <4>1, <5>1
      <4> QED
        BY <4>1, <4>2, <4>3 DEF MigTakes, MigWhole
    <3> QED
      BY <3>1, <3>2
  <2>9. MigProgress'
    <3>1. \A u \in MigTables : MigWhole(u) => MigWhole(u)'
      BY <2>1, <2>7 DEF MigWhole, MigRows
    <3>2. MigLegacyOnly' => MigLegacyOnly
      BY <1>15, <2>7
    <3>3. MigLegacyOnly /\ migCopy.full /\ (t # "content" \/ migCopy.runs > 0) => MigWhole(t)'
      BY <2>1, <2>8 DEF MigWhole, MigRows
    <3> QED
      BY <1>1, <2>3, <3>1, <3>2, <3>3 DEF MigProgress, MigReached
  <2> QED
    BY <2>4, <2>6, <2>9 DEF MigInv
<1>11. ASSUME NEW t \in MigTables, NEW goOn \in BOOLEAN, MigTableFails(t, goOn) PROVE MigInv'
  <2>1. /\ migCopy.pc = "copy" /\ UNCHANGED <<migOld, migNew, migEmpty>>
        /\ migCopy' = [migCopy EXCEPT !.todo = IF goOn THEN @ \ {t} ELSE {}, !.full = FALSE]
    BY <1>11 DEF MigTableFails
  <2>2. /\ migCopy' \in [pc : {"idle", "copy"}, todo : SUBSET MigTables, full : BOOLEAN, runs : 0 .. 2]
        /\ migCopy'.full = FALSE /\ migCopy'.runs = migCopy.runs /\ migCopy'.pc = "copy"
    BY <1>1, <2>1 DEF MigTyped
  <2>3. MigTyped' /\ MigApart'
    BY <1>1, <2>1, <2>2 DEF MigTyped, MigApart
  <2> QED
    BY <1>5, <2>1, <2>2, <2>3 DEF MigInv
<1>12. CASE MigDone
  <2> DEFINE runs == IF migCopy.full THEN IF migCopy.runs = 0 THEN 1 ELSE 2 ELSE migCopy.runs
  <2>1. /\ migCopy.pc = "copy" /\ migCopy.todo = {} /\ UNCHANGED <<migOld, migNew, migEmpty>>
        /\ migCopy' = [pc |-> "idle", todo |-> {}, full |-> FALSE, runs |-> runs]
    BY <1>12 DEF MigDone
  <2>2. /\ migCopy' \in [pc : {"idle", "copy"}, todo : SUBSET MigTables, full : BOOLEAN, runs : 0 .. 2]
        /\ migCopy'.full = FALSE /\ migCopy'.runs = runs
    BY <1>1, <2>1 DEF MigTyped
  <2>3. migEmpty = {}
    BY <1>1, <2>1 DEF MigApart
  <2>4. MigTyped' /\ MigApart' /\ MigSound'
    <3>1. MigTyped'
      BY <1>1, <2>1, <2>2, <2>3 DEF MigTyped
    <3>2. MigApart'
      BY <1>1, <2>1, <2>2, <2>3 DEF MigApart
    <3>3. MigSound'
      BY <1>1, <2>1 DEF MigSound, MigRows
    <3> QED
      BY <3>1, <3>2, <3>3
  <2>5. MigCopied'
    BY <1>1, <2>1 DEF MigCopied, MigRows
  <2>6. MigProgress'
    <3>1. CASE migCopy.full
      <4>1. migCopy.runs \in 0 .. 2 /\ (runs = 2 => migCopy.runs > 0)
        BY <1>1, <3>1 DEF MigTyped
      <4>2. MigLegacyOnly' = MigLegacyOnly /\ \A u \in MigTables : MigWhole(u)' = MigWhole(u)
        BY <2>1 DEF MigLegacyOnly, MigWhole, MigRows
      <4> HIDE DEF runs
      <4>3. MigLegacyOnly => \A u \in MigTables : (u # "content" \/ migCopy.runs > 0) => MigWhole(u)
        BY <1>1, <2>1, <3>1 DEF MigProgress, MigReached
      <4> QED
        BY <2>2, <4>1, <4>2, <4>3 DEF MigProgress, MigReached
    <3>2. CASE ~migCopy.full
      BY <1>5, <2>1, <2>2, <3>2
    <3> QED
      BY <3>1, <3>2
  <2> QED
    BY <2>4, <2>5, <2>6 DEF MigInv
<1>13. ASSUME NEW t \in MigTables, MigTruncate(t) \/ MigTruncateFails(t) PROVE MigInv'
  <2>1. /\ t \in migEmpty /\ migEmpty' = migEmpty \ {t} /\ UNCHANGED <<migOld, migCopy>>
        /\ migNew' = migNew \/ migNew' = [migNew EXCEPT ![t] = MigNothing[t]]
    BY <1>13 DEF MigTruncate, MigTruncateFails
  <2>2. migCopy.pc = "idle" /\ migCopy.runs = 0 /\ migCopy.full = FALSE
    BY <1>1, <2>1 DEF MigApart, MigTyped
  <2>3. MigNothing[t] \in [MigIds -> MigRow \cup {MigAbsent}]
    BY DEF MigNothing
  <2>4. migNew' \in MigTablesType
    BY <1>2, <2>1, <2>3 DEF MigTablesType
  <2>5. MigTyped' /\ MigApart' /\ MigSound'
    <3>1. MigTyped'
      BY <1>1, <2>1, <2>2, <2>4 DEF MigTyped, MigTablesType
    <3>2. MigApart'
      BY <1>1, <2>1, <2>2, <2>4 DEF MigApart
    <3>3. MigSound'
      BY <1>1, <2>1 DEF MigSound, MigRows
    <3> QED
      BY <3>1, <3>2, <3>3
  <2>6. MigCopied'
    <3>1. \A u \in MigTables : \A id \in MigRows(migNew', u) :
            id \in MigRows(migNew, u) /\ migNew'[u][id] = migNew[u][id]
      BY <1>2, <2>1 DEF MigRows, MigNothing, MigTablesType
    <3>2. \A u \in MigTables : MigRows(migOld', u) = MigRows(migOld, u)
      BY <2>1 DEF MigRows
    <3> QED
      BY <1>1, <2>1, <3>1, <3>2 DEF MigCopied
  <2> QED
    BY <1>4, <2>1, <2>2, <2>5, <2>6 DEF MigInv
<1>14. CASE UNCHANGED migVars
  <2>1. MigLegacyOnly' = MigLegacyOnly /\ \A u \in MigTables : MigWhole(u)' = MigWhole(u)
    BY <1>14 DEF migVars, MigLegacyOnly, MigWhole, MigRows
  <2>2. MigProgress'
    BY <1>1, <1>14, <2>1 DEF migVars, MigProgress, MigReached
  <2>3. MigTyped' /\ MigApart'
    BY <1>1, <1>14 DEF migVars, MigTyped, MigApart
  <2>4. MigSound' /\ MigCopied'
    BY <1>1, <1>14 DEF migVars, MigSound, MigCopied, MigRows
  <2> QED
    BY <2>2, <2>3, <2>4 DEF MigInv
<1> QED
  BY <1>6, <1>7, <1>8, <1>9, <1>10, <1>11, <1>12, <1>13, <1>14 DEF MigNext

\* A migration may be repeated: two runs of every table leave no legacy row behind, however
\* many runs of some tables, runs that failed or were stopped, and records for the legacy
\* audits came before and between the two, as long as the new application has no rows of its
\* own; and nothing but a truncation ever takes away or changes one of its rows.
THEOREM MigrationsRepeat == MigSpec => MigrationIsRepeatable
<1>1. MigInv /\ MigInv' /\ [MigNext]_migVars =>
        [/\ migCopy'.runs = 2 /\ MigLegacyOnly' => MigComplete'
         /\ migEmpty' = migEmpty =>
               \A t \in MigTables : \A id \in MigRows(migNew, t) : migNew'[t][id] = migNew[t][id]]_migVars
  <2> SUFFICES ASSUME MigInv, MigInv', MigNext
               PROVE  /\ migCopy'.runs = 2 /\ MigLegacyOnly' => MigComplete'
                      /\ migEmpty' = migEmpty =>
                            \A t \in MigTables : \A id \in MigRows(migNew, t) : migNew'[t][id] = migNew[t][id]
    OBVIOUS
  <2>1. migCopy'.runs = 2 /\ MigLegacyOnly' => MigComplete'
    BY DEF MigInv, MigProgress, MigReached, MigWhole, MigComplete
  <2>2. ASSUME migEmpty' = migEmpty, NEW t \in MigTables, NEW id \in MigRows(migNew, t)
        PROVE  migNew'[t][id] = migNew[t][id]
    <3>1. migNew \in MigTablesType /\ migOld \in MigTablesType
      BY DEF MigInv, MigTyped, MigTablesType
    <3>2. ASSUME NEW u \in MigTables, NEW row \in MigRow, MigWrite(u, row) PROVE migNew'[t][id] = migNew[t][id]
      BY <3>1, <3>2, MigAddedRows DEF MigWrite
    <3>3. ASSUME NEW u \in MigTables, MigCopyTable(u) PROVE migNew'[t][id] = migNew[t][id]
      BY <3>1, <3>3 DEF MigCopyTable, MigTakes, MigTablesType, MigRows
    <3>4. ASSUME NEW u \in MigTables PROVE ~MigTruncate(u) /\ ~MigTruncateFails(u)
      BY <2>2 DEF MigTruncate, MigTruncateFails
    <3>5. (\/ MigDone
           \/ \E chosen \in SUBSET MigTables : MigStart(chosen) \/ MigTruncateStart(chosen)
           \/ \E u \in MigTables : \E goOn \in BOOLEAN : MigTableFails(u, goOn)
           \/ \E u \in MigTables : \E i, record \in MigIds : MigAnswer(u, i, record)) => migNew' = migNew
      BY DEF MigDone, MigStart, MigTruncateStart, MigTableFails, MigAnswer
    <3> QED
      BY <3>2, <3>3, <3>4, <3>5 DEF MigNext
  <2> QED
    BY <2>1, <2>2
<1> QED
  BY MigInvInit, MigInvStep, <1>1, PTL DEF MigSpec, MigrationIsRepeatable

LEMMA MigStaysTyped == MigSpec => []MigTypeOK
<1> DEFINE J == MigInv /\ migWrites \in 0 .. MigWrites /\ migTroubles \in 0 .. MigTroubles
<1>1. MigInit => J
  BY MigInvInit, MigAssumption DEF MigInit
<1>2. J /\ [MigNext]_migVars => J'
  <2> SUFFICES ASSUME J, [MigNext]_migVars
               PROVE  migWrites' \in 0 .. MigWrites /\ migTroubles' \in 0 .. MigTroubles
    BY MigInvStep
  <2>1. /\ migWrites' = migWrites \/ (migWrites < MigWrites /\ migWrites' = migWrites + 1)
        /\ migTroubles' = migTroubles \/ MigTrouble
    BY DEF MigNext, MigDone, MigStart, MigTruncateStart, MigCopyTable, MigTruncate, MigTruncateFails,
           MigTableFails, MigWrite, MigAnswer, migVars
  <2> QED
    BY <2>1, MigAssumption DEF MigTrouble
<1>3. J => MigTypeOK
  BY DEF MigInv, MigTyped, MigTypeOK
<1> QED
  BY <1>1, <1>2, <1>3, PTL DEF MigSpec
=============================================================================
