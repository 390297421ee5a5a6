---------------------------- MODULE PercipioTokens ----------------------------
(***************************************************************************)
(* The bearer tokens of outbound webhooks (integrated_channel/                *)
(* percipio_auth.py, process_webhook_queue): workers share them in a cache    *)
(* under the region of the queue item and the client id, and a token leaves   *)
(* the cache _TOKEN_EXPIRY_BUFFER_SECONDS before it expires.  One customer    *)
(* and one client id; every time is what is left of it, in units of some      *)
(* seconds.                                                                   *)
(***************************************************************************)
EXTENDS Naturals

CONSTANTS
    PctRegions,        \* regions, each with its own token endpoint
    PctOther,          \* the region whose configuration stands in for a missing one
    PctNone,           \* no token, no region
    PctWorkers,        \* Celery workers
    PctLifetimes,      \* expires_in
    PctBuffer,         \* _TOKEN_EXPIRY_BUFFER_SECONDS
    PctDelay           \* the longest a request is under way: it is given up then

ASSUME PctAssumption ==
    /\ PctOther \in PctRegions /\ PctNone \notin [from : PctRegions, left : Nat]
    /\ PctLifetimes \subseteq Nat /\ PctLifetimes # {} /\ PctBuffer \in Nat /\ PctDelay \in Nat

VARIABLES
    pctActive,         \* the regions with an active configuration
    pctCache,          \* the token cached for each region, and for how long
    pctWorker          \* what each worker is doing

pctVars == <<pctActive, pctCache, pctWorker>>

PctTimes == UNION {0 .. life : life \in PctLifetimes}
PctToken == [from : PctRegions, left : PctTimes] \cup {PctNone}

\* region: the item's; config: the region of the configuration found for it; life: the
\* expires_in of the answer; left: how long the worker's present request may still take.
PctIdle == [pc |-> "idle", region |-> PctNone, config |-> PctNone, token |-> PctNone, life |-> 0, left |-> 0]

PctTypeOK ==
    /\ pctActive \subseteq PctRegions
    /\ pctCache \in [PctRegions -> [token : PctToken, left : PctTimes]]
    /\ pctWorker \in [PctWorkers -> [pc : {"idle", "token", "fetch", "answer", "post"},
           region : PctRegions \cup {PctNone}, config : PctRegions \cup {PctNone}, token : PctToken,
           life : PctLifetimes \cup {0}, left : 0 .. PctDelay]]

PctInit ==
    /\ pctActive \in SUBSET PctRegions
    /\ pctCache = [r \in PctRegions |-> [token |-> PctNone, left |-> 0]]
    /\ pctWorker = [w \in PctWorkers |-> PctIdle]

-----------------------------------------------------------------------------
(* A worker: process_webhook_queue, get_token, _fetch_token *)

PctMove(w, pc) == [pctWorker[w] EXCEPT !.pc = pc, !.left = PctDelay]

\* The configuration of the item's region, or that of OTHER.
PctFind(w, r) ==
    LET config == IF r \in pctActive THEN r ELSE PctOther IN
    /\ pctWorker[w].pc = "idle" /\ config \in pctActive
    /\ pctWorker' = [pctWorker EXCEPT ![w] = [PctMove(w, "token") EXCEPT !.region = r, !.config = config]]
    /\ UNCHANGED <<pctActive, pctCache>>

PctCached(r) == pctCache[r].left > 0

PctHit(w) ==
    LET worker == pctWorker[w] IN
    /\ worker.pc = "token" /\ PctCached(worker.region)
    /\ pctWorker' = [pctWorker EXCEPT ![w] = [PctMove(w, "post") EXCEPT !.token = pctCache[worker.region].token]]
    /\ UNCHANGED <<pctActive, pctCache>>

PctMiss(w) ==
    /\ pctWorker[w].pc = "token" /\ ~PctCached(pctWorker[w].region)
    /\ pctWorker' = [pctWorker EXCEPT ![w] = PctMove(w, "fetch")]
    /\ UNCHANGED <<pctActive, pctCache>>

\* The endpoint of the configuration issues a token; its answer is under way.
PctIssue(w, life) ==
    LET worker == pctWorker[w] IN
    /\ worker.pc = "fetch"
    /\ pctWorker' = [pctWorker EXCEPT ![w].pc = "answer", ![w].life = life,
                                      ![w].token = [from |-> worker.config, left |-> life]]
    /\ UNCHANGED <<pctActive, pctCache>>

\* Fault: the token is cached until it expires.
PctTtl_Whole(life) == life

PctTtl(life) == IF life > PctBuffer THEN life - PctBuffer ELSE 0

\* The answer is cached, for its time to live from now on; 0 keeps it out of the cache.
PctStore(w) ==
    LET worker == pctWorker[w] IN
    /\ worker.pc = "answer"
    /\ pctCache' = [pctCache EXCEPT ![worker.region] =
                        [token |-> IF PctTtl(worker.life) > 0 THEN worker.token ELSE PctNone,
                         left |-> PctTtl(worker.life)]]
    /\ pctWorker' = [pctWorker EXCEPT ![w] = [PctMove(w, "post") EXCEPT !.life = 0]]
    /\ UNCHANGED pctActive

\* The webhook's endpoint receives the request; or a request fails or is given up.
PctEnd(w) ==
    /\ pctWorker[w].pc \in {"fetch", "answer", "post"}
    /\ pctWorker' = [pctWorker EXCEPT ![w] = PctIdle]
    /\ UNCHANGED <<pctActive, pctCache>>

-----------------------------------------------------------------------------
(* Time and the administrator *)

PctLess(t) == IF t > 0 THEN t - 1 ELSE 0

PctAged(token) == IF token = PctNone THEN token ELSE [token EXCEPT !.left = PctLess(@)]

\* A worker that is between two requests does not wait; a request ends within PctDelay.
PctTick ==
    /\ \A w \in PctWorkers :
          pctWorker[w].pc # "token" /\ (pctWorker[w].pc = "idle" \/ pctWorker[w].left > 0)
    /\ pctCache' = [r \in PctRegions |->
           IF pctCache[r].left <= 1 THEN [token |-> PctNone, left |-> 0]
           ELSE [token |-> PctAged(pctCache[r].token), left |-> pctCache[r].left - 1]]
    /\ pctWorker' = [w \in PctWorkers |->
           [pctWorker[w] EXCEPT !.token = PctAged(@), !.left = PctLess(@)]]
    /\ UNCHANGED pctActive

PctSwitch(r) ==
    /\ pctActive' = IF r \in pctActive THEN pctActive \ {r} ELSE pctActive \cup {r}
    /\ UNCHANGED <<pctCache, pctWorker>>

PctNext ==
    \/ PctTick
    \/ \E r \in PctRegions : PctSwitch(r)
    \/ \E w \in PctWorkers :
          \/ PctHit(w) \/ PctMiss(w) \/ PctStore(w) \/ PctEnd(w)
          \/ \E r \in PctRegions : PctFind(w, r)
          \/ \E life \in PctLifetimes : PctIssue(w, life)

PctSpec == PctInit /\ [][PctNext]_pctVars

-----------------------------------------------------------------------------
(* Properties *)

\* "we never hand out a token that is about to become invalid" (get_token): as long as a
\* request may be under way, the token it carries has not expired, whoever fetched it and
\* however late the answer came.
PctTokenIsFresh ==
    \A w \in PctWorkers : pctWorker[w].pc = "post" => pctWorker[w].token.left > 0

\* A request carries a token of the configuration it is sent for.  Fails: the cache knows
\* the item's region, not the configuration that stood in for it.
PctTokenIsItsOwn ==
    \A w \in PctWorkers : pctWorker[w].pc = "post" => pctWorker[w].token.from = pctWorker[w].config
=============================================================================
