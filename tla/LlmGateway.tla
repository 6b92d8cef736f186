----------------------------- MODULE LlmGateway -----------------------------
(***************************************************************************)
(* The LLM gateway (services/llm-gateway/src): every request runs through  *)
(* logging, cacheMiddleware, budgetMiddleware and a handler.  Node is      *)
(* single threaded, so what runs between two awaits is one action; the     *)
(* awaits are the Redis commands and the provider call.                    *)
(*                                                                         *)
(* cacheMiddleware and budgetMiddleware both wrap res.json.  The cache is  *)
(* installed first, so what it stores is whatever body is finally sent,    *)
(* the bodies of 429 and 500 responses included, and a hit is always sent  *)
(* with status 200.                                                        *)
(***************************************************************************)
EXTENDS Integers, FiniteSets

CONSTANTS
  Req,            \* concurrent HTTP requests (slots, reused)
  User,           \* values of the x-user-id header ("default" among them)
  Payload,        \* distinct (path, body) pairs, i.e. cache keys
  Kind,           \* Kind[p]: "chat", "stream" (chat with stream: true), "embed"
                  \* or "get" (GET /health, GET /v1/models)
  Limit,          \* config.budgetDefaultMonthly
  MaxCost,        \* bound: what the price table makes of a call is in 0..MaxCost
  MaxMonth,       \* bound: calendar months 1..MaxMonth
  RedisDeployed   \* a Redis server is reachable when the process starts

ASSUME LimitAssumption == Limit \in Nat
ASSUME CostAssumption == MaxCost \in Nat
ASSUME MonthAssumption == MaxMonth \in Nat \ {0}
ASSUME KindAssumption == Kind \in [Payload -> {"chat", "stream", "embed", "get"}]
ASSUME ReqAssumption == IsFiniteSet(Req)
ASSUME InputAssumption == User # {} /\ Payload # {}
ASSUME FlagAssumption == RedisDeployed \in BOOLEAN

VARIABLES
  month,        \* the current calendar month
  conn,         \* the ioredis client: "connecting", "ready" or "end"
  redisFlag,    \* redis.ts _redisAvailable
  redisCache,   \* Redis: cache key -> body or NoBody
  redisBudget,  \* Redis: budget:<user>:<month> -> "absent", "json" or "raw"
  memCache,     \* cache.ts memoryFallback; a stale entry counts as NoBody
  memBudget,    \* budget.ts memoryFallback: spent, per user and month
  req,          \* what the closures of each request hold
  sent,         \* the last response sent
  priced        \* history: what the price table makes of the calls that were
                \* answered (see EstimateCost), capped at PricedCap

vars == <<month, conn, redisFlag, redisCache, redisBudget,
          memCache, memBudget, req, sent, priced>>

stores == <<redisCache, redisBudget, memCache, memBudget>>

Months == 1 .. MaxMonth
(* Operators named Mut_... are faulty variants of the definition after     *)
(* them; no behaviour of Spec uses them.                                   *)
NaN == -1                     \* JavaScript's NaN, the result of x + undefined * c
NoBody == "none"
Errors == {"provider_error", "budget_exceeded", "budget_error"}
Body == {"answer"} \cup Errors

(* A running sum with a NaN in it is NaN, and NaN >= limit is false. *)
Mut_PlusNumber(a, b) == a + b
Plus(a, b) == IF a = NaN \/ b = NaN THEN NaN ELSE a + b
Mut_ExhaustedLate(spent) == spent # NaN /\ spent > Limit
Exhausted(spent) == spent # NaN /\ spent >= Limit

PricedCap == Limit + MaxCost * Cardinality(Req)
Capped(n) == IF n > PricedCap THEN PricedCap ELSE n

(* A request without wrappers around res.json.                             *)
Fresh(u, p) == [pc |-> "idle", user |-> u, payload |-> p,
                store |-> "none", ledger |-> "none", month |-> 1]
Free == Fresh(CHOOSE u \in User : TRUE, CHOOSE p \in Payload : TRUE)
Request == [pc : {"idle", "cacheGet", "budgetRead", "budgetInit",
                  "budgetCheck", "provider"},
            user : User, payload : Payload,
            store : {"none", "memory", "redis"},     \* whose setter wraps res.json
            ledger : {"none", "memory", "redis"},    \* where usage will be charged
            month : Months]                          \* month of the budget key
NoResponse == [status |-> 0, body |-> NoBody, user |-> Free.user]

Init ==
  /\ month = 1
  /\ conn = IF RedisDeployed THEN "connecting" ELSE "end"
  /\ redisFlag = FALSE
  /\ redisCache = [p \in Payload |-> NoBody]
  /\ redisBudget = [u \in User |-> [m \in Months |-> "absent"]]
  /\ memCache = [p \in Payload |-> NoBody]
  /\ memBudget = [u \in User |-> [m \in Months |-> 0]]
  /\ req = [r \in Req |-> Free]
  /\ sent = NoResponse
  /\ priced = [u \in User |-> [m \in Months |-> 0]]

-----------------------------------------------------------------------------
(* Sending a response: res.json as the two middlewares left it.            *)

(* The cache wrapper of request q stores the body it sends.  A setex that  *)
(* is rejected, as all are on a dead connection, is swallowed.             *)
StoreBody(q, body) ==
  /\ memCache' = IF q.store = "memory"
                   THEN [memCache EXCEPT ![q.payload] = body] ELSE memCache
  /\ \/ UNCHANGED redisCache
     \/ /\ q.store = "redis" /\ conn = "ready"
        /\ redisCache' = [redisCache EXCEPT ![q.payload] = body]

Finish(r, q, status, body) ==
  /\ req' = [req EXCEPT ![r] = Free]
  /\ sent' = [status |-> status, body |-> body, user |-> q.user]

(* A refusal by the budget middleware carries no usage, so only the cache  *)
(* wrapper sees it.                                                        *)
Refuse(r, q, status, body) ==
  /\ StoreBody(q, body)
  /\ Finish(r, q, status, body)
  /\ UNCHANGED <<memBudget, redisBudget, priced>>

Await(r, q, pc) ==
  /\ req' = [req EXCEPT ![r] = [q EXCEPT !.pc = pc]]
  /\ UNCHANGED <<stores, sent, priced>>

(* The handler.  The GET handlers answer in the same turn, without usage;  *)
(* the others call the provider.                                           *)
Handle(r, q) ==
  \/ /\ Kind[q.payload] = "get"
     /\ Finish(r, q, 200, "answer")
     /\ UNCHANGED <<stores, priced>>
  \/ /\ Kind[q.payload] # "get"
     /\ Await(r, q, "provider")

-----------------------------------------------------------------------------
(* budgetMiddleware, entered synchronously from the cache middleware.      *)

Mut_MemoryBudgetUnchecked(r, q) == Handle(r, [q EXCEPT !.ledger = "memory"])
MemoryBudget(r, q) ==
  \/ /\ Exhausted(memBudget[q.user][month])
     /\ Refuse(r, q, 429, "budget_exceeded")
  \/ /\ ~Exhausted(memBudget[q.user][month])
     /\ Handle(r, [q EXCEPT !.ledger = "memory"])

EnterBudget(r, q0) ==
  LET q == [q0 EXCEPT !.month = month]
  IN  \/ redisFlag /\ Await(r, q, "budgetRead")
      \/ ~redisFlag /\ MemoryBudget(r, q)

(* handleRedisBudget's catch: whatever command was rejected, by a lost     *)
(* connection or by a live Redis (read-only, out of memory, a failed       *)
(* snapshot), the request goes on without a budget wrapper.                *)
FailOpen(r) == Handle(r, [req[r] EXCEPT !.ledger = "none"])

(* redis.get; null is answered with a setex, anything else is read again.  *)
BudgetRead(r) ==
  /\ req[r].pc = "budgetRead"
  /\ \/ /\ conn = "ready"
        /\ Await(r, req[r], IF redisBudget[req[r].user][req[r].month] = "absent"
                              THEN "budgetInit" ELSE "budgetCheck")
     \/ FailOpen(r)
  /\ UNCHANGED <<month, conn, redisFlag>>

(* redis.setex(JSON {spent: 0, limit}), whatever the key holds by now.     *)
BudgetInit(r) ==
  /\ req[r].pc = "budgetInit"
  /\ \/ /\ conn = "ready"
        /\ redisBudget' =
             [redisBudget EXCEPT ![req[r].user][req[r].month] = "json"]
        /\ req' = [req EXCEPT ![r].pc = "budgetCheck"]
        /\ UNCHANGED <<redisCache, memCache, memBudget, sent, priced>>
     \/ FailOpen(r)
  /\ UNCHANGED <<month, conn, redisFlag>>

(* The second redis.get decides.  The JSON document is only ever written   *)
(* with spent 0.  A raw number parses to a value whose .spent is           *)
(* undefined, and undefined >= undefined is false.                         *)
RedisRefusals(value) ==
  CASE value = "absent" -> {[status |-> 500, body |-> "budget_error"]}
    [] value = "json" /\ Exhausted(0) -> {[status |-> 429, body |-> "budget_exceeded"]}
    [] OTHER -> {}

BudgetCheck(r) ==
  LET q == req[r]
      value == redisBudget[q.user][q.month]
  IN  /\ q.pc = "budgetCheck"
      /\ \/ /\ conn = "ready"
            /\ \E no \in RedisRefusals(value) : Refuse(r, q, no.status, no.body)
         \/ /\ conn = "ready"
            /\ RedisRefusals(value) = {}
            /\ Handle(r, [q EXCEPT !.ledger = "redis"])
         \/ FailOpen(r)
      /\ UNCHANGED <<month, conn, redisFlag>>

-----------------------------------------------------------------------------
(* cacheMiddleware.                                                        *)

Mut_HitCharged(r, q, body) ==
  /\ Finish(r, q, 200, body)
  /\ memBudget' = [memBudget EXCEPT ![q.user][month] = Plus(@, MaxCost)]
  /\ UNCHANGED <<redisCache, redisBudget, memCache, priced>>
Hit(r, q, body) ==
  /\ Finish(r, q, 200, body)
  /\ UNCHANGED <<stores, priced>>

FallbackMissAndStore(r, q) ==
  \/ memCache[q.payload] # NoBody /\ Hit(r, q, memCache[q.payload])
  \/ memCache[q.payload] = NoBody /\ EnterBudget(r, [q EXCEPT !.store = "memory"])

(* A request arrives at a free slot; only a POST is looked up in the cache. *)
Arrive(r, u, p) ==
  LET q == Fresh(u, p)
  IN  /\ req[r].pc = "idle"
      /\ \/ Kind[p] = "get" /\ EnterBudget(r, q)
         \/ Kind[p] # "get" /\ redisFlag /\ Await(r, q, "cacheGet")
         \/ Kind[p] # "get" /\ ~redisFlag /\ FallbackMissAndStore(r, q)
      /\ UNCHANGED <<month, conn, redisFlag>>

Mut_CacheGetUncaught(r) ==
  LET q == req[r]
  IN  /\ q.pc = "cacheGet" /\ conn = "ready"
      /\ \/ redisCache[q.payload] # NoBody /\ Hit(r, q, redisCache[q.payload])
         \/ /\ redisCache[q.payload] = NoBody
            /\ EnterBudget(r, [q EXCEPT !.store = "redis"])
      /\ UNCHANGED <<month, conn, redisFlag>>

(* redis.get(key) settles: a hit, a miss, or a rejection and the fallback. *)
CacheGet(r) ==
  LET q == req[r]
  IN  /\ q.pc = "cacheGet"
      /\ \/ /\ conn = "ready" /\ redisCache[q.payload] # NoBody
            /\ Hit(r, q, redisCache[q.payload])
         \/ /\ conn = "ready" /\ redisCache[q.payload] = NoBody
            /\ EnterBudget(r, [q EXCEPT !.store = "redis"])
         \/ FallbackMissAndStore(r, q)
      /\ UNCHANGED <<month, conn, redisFlag>>

-----------------------------------------------------------------------------
(* The handlers.                                                           *)

(* What the usage of an answer adds to the ledger: an estimate from a      *)
(* static table, with a default price for models it does not know, taken   *)
(* for the model the answer or the request names.  It is any price then,   *)
(* and says nothing of the provider's bill.  An embedding's usage has no   *)
(* completion_tokens, so its estimate is NaN.                              *)
EstimateCost(p, price) == IF Kind[p] = "embed" THEN NaN ELSE price

(* The budget wrapper of q.  INCRBYFLOAT creates a missing key and adds to *)
(* a number; it fails on the JSON document, with NaN, and when Redis       *)
(* rejects it, and every failure is swallowed.                             *)
Mut_ChargeCurrentMonth(q, price) ==
  /\ memBudget' = IF q.ledger = "memory"
       THEN [memBudget EXCEPT ![q.user][month] = Plus(@, EstimateCost(q.payload, price))]
       ELSE memBudget
  /\ UNCHANGED redisBudget
Charge(q, price) ==
  /\ memBudget' = IF q.ledger = "memory"
       THEN [memBudget EXCEPT ![q.user][q.month] =
                                Plus(@, EstimateCost(q.payload, price))]
       ELSE memBudget
  /\ \/ UNCHANGED redisBudget
     \/ /\ q.ledger = "redis" /\ conn = "ready"
        /\ EstimateCost(q.payload, price) # NaN
        /\ redisBudget[q.user][q.month] = "absent"
        /\ redisBudget' = [redisBudget EXCEPT ![q.user][q.month] = "raw"]

(* History: the table's price of an answered call, missing counts as zero. *)
Price(q, price) ==
  priced' = [priced EXCEPT ![q.user][q.month] = Capped(@ + price)]

(* chatCompletion without stream, and embedding, answered by the provider. *)
Answer(r, price) ==
  /\ req[r].pc = "provider"
  /\ Kind[req[r].payload] # "stream"
  /\ Price(req[r], price)
  /\ Charge(req[r], price)
  /\ StoreBody(req[r], "answer")
  /\ Finish(r, req[r], 200, "answer")
  /\ UNCHANGED <<month, conn, redisFlag>>

(* A streamed completion uses res.write: neither wrapper sees it.          *)
StreamAnswer(r, price) ==
  /\ req[r].pc = "provider"
  /\ Kind[req[r].payload] = "stream"
  /\ Price(req[r], price)
  /\ Finish(r, req[r], 200, "answer")
  /\ UNCHANGED <<month, conn, redisFlag, stores>>

(* The provider call throws: a 500 (through the cache wrapper), or an      *)
(* error event on a stream whose status is already 200.                    *)
ProviderError(r) ==
  LET q == req[r]
  IN  /\ q.pc = "provider"
      /\ \/ /\ Kind[q.payload] # "stream"
            /\ Refuse(r, q, 500, "provider_error")
         \/ /\ Kind[q.payload] = "stream"
            /\ Finish(r, q, 200, "provider_error")
            /\ UNCHANGED <<stores, priced>>
      /\ UNCHANGED <<month, conn, redisFlag>>

-----------------------------------------------------------------------------
(* The environment: time and the Redis server.                             *)

NextMonth ==
  /\ month < MaxMonth
  /\ month' = month + 1
  /\ UNCHANGED <<conn, redisFlag, stores, req, sent, priced>>

(* The TTL of a cached body runs out. *)
ExpireMemory(p) ==
  /\ memCache[p] # NoBody
  /\ memCache' = [memCache EXCEPT ![p] = NoBody]
  /\ UNCHANGED <<month, conn, redisFlag, redisCache, redisBudget, memBudget,
                 req, sent, priced>>

ExpireRedis(p) ==
  /\ redisCache[p] # NoBody
  /\ redisCache' = [redisCache EXCEPT ![p] = NoBody]
  /\ UNCHANGED <<month, conn, redisFlag, redisBudget, memCache, memBudget,
                 req, sent, priced>>

(* Both kinds of key carry a TTL, so Redis may evict a budget key.         *)
EvictBudget(u, m) ==
  /\ redisBudget[u][m] # "absent"
  /\ redisBudget' = [redisBudget EXCEPT ![u][m] = "absent"]
  /\ UNCHANGED <<month, conn, redisFlag, redisCache, memCache, memBudget,
                 req, sent, priced>>

(* tryRedisConnect settles. *)
Connect ==
  /\ conn = "connecting"
  /\ \/ conn' = "ready" /\ redisFlag' = TRUE
     \/ conn' = "end" /\ redisFlag' = FALSE
  /\ UNCHANGED <<month, stores, req, sent, priced>>

(* The connection goes away for good (retryStrategy returns null).  Only   *)
(* an "error" event clears the flag: a clean close leaves it set.          *)
Disconnect ==
  /\ conn = "ready"
  /\ conn' = "end"
  /\ redisFlag' \in BOOLEAN
  /\ redisCache' = [p \in Payload |-> NoBody]
  /\ redisBudget' = [u \in User |-> [m \in Months |-> "absent"]]
  /\ UNCHANGED <<month, memCache, memBudget, req, sent, priced>>

-----------------------------------------------------------------------------
Provider(r) == ProviderError(r) \/ \E c \in 0 .. MaxCost : Answer(r, c) \/ StreamAnswer(r, c)

Step(r) == CacheGet(r) \/ BudgetRead(r) \/ BudgetInit(r) \/ BudgetCheck(r) \/ Provider(r)

Environment ==
  \/ NextMonth
  \/ Connect
  \/ Disconnect
  \/ \E p \in Payload : ExpireMemory(p) \/ ExpireRedis(p)
  \/ \E u \in User, m \in Months : EvictBudget(u, m)

Next ==
  \/ \E r \in Req, u \in User, p \in Payload : Arrive(r, u, p)
  \/ \E r \in Req : Step(r)
  \/ Environment

Spec == Init /\ [][Next]_vars

(* Redis commands settle (a lost connection rejects them) and the provider *)
(* client has a timeout, so each request in progress is weakly fair.  A    *)
(* client need not send anything and Redis need not fail.                  *)
FairSpec == Spec /\ \A r \in Req : WF_vars(Step(r))
-----------------------------------------------------------------------------
(* Properties.                                                             *)

TypeOK ==
  /\ month \in Months
  /\ conn \in {"connecting", "ready", "end"}
  /\ redisFlag \in BOOLEAN
  /\ redisCache \in [Payload -> Body \cup {NoBody}]
  /\ redisBudget \in [User -> [Months -> {"absent", "json", "raw"}]]
  /\ memCache \in [Payload -> Body \cup {NoBody}]
  /\ memBudget \in [User -> [Months -> Nat \cup {NaN}]]
  /\ req \in [Req -> Request]
  /\ sent \in [status : {0, 200, 429, 500}, body : Body \cup {NoBody}, user : User]
  /\ priced \in [User -> [Months -> Nat]]

(* The ledger a request was admitted on, while it waits for the provider.  *)
CallOf(q) == IF q.pc = "provider" /\ q.ledger = "memory" THEN <<q.user, q.month>> ELSE <<>>
OpenCalls == [r \in Req |-> CallOf(req[r])]
Open(u, m) == {r \in Req : OpenCalls[r] = <<u, m>>}

(* The limit is checked when a request is admitted and the spend recorded  *)
(* when its answer is sent (budget.ts handleMemoryBudget), so concurrent   *)
(* requests overshoot it, but by no more than one call per request slot.   *)
Overshoot(u, m) ==
  Exhausted(memBudget[u][m]) =>
    memBudget[u][m] + MaxCost * Cardinality(Open(u, m)) <= Limit + MaxCost * Cardinality(Req)
BudgetOvershootBounded == \A u \in User, m \in Months : Overshoot(u, m)

(* The memory ledger of a user and month never holds more than the price   *)
(* table makes of the calls of that user that were admitted in that month  *)
(* and answered: hits and failures are free, nothing is charged twice or   *)
(* to somebody else, also when the month turns during a call (budget.ts    *)
(* handleMemoryBudget: the wrapper keeps the budget it was admitted on).   *)
RecordedWithinPriced ==
  \A u \in User, m \in Months : memBudget[u][m] <= priced[u][m]

(* "Per-user monthly spend tracking and enforcement" (SERVICES.md): Redis  *)
(* admits a request only while what the table makes of its user's calls in *)
(* the month is below the limit (no spend went to the memory ledger before *)
(* Redis was connected).                                                   *)
RedisEnforcesSpend ==
  [][\A r \in Req :
       LET q == req'[r]
       IN  /\ req[r].pc # "provider" /\ q.pc = "provider" /\ q.ledger = "redis"
           /\ memBudget[q.user][q.month] = 0
           => priced[q.user][q.month] < Limit]_vars

(* A user is told that the budget is exceeded only if that user's own      *)
(* ledger of some month reached the limit (or was lost to NaN).            *)
RefusedForOwnSpend ==
  sent.body = "budget_exceeded" =>
    \E m \in Months : LET spent == memBudget[sent.user][m]
                      IN  Exhausted(spent) \/ spent = NaN

(* Every request is answered, also when the connection to Redis is lost    *)
(* while its commands are in flight.                                       *)
Answered == \A r \in Req : req[r].pc # "idle" ~> req[r].pc = "idle"

SC == INSTANCE SpendControl WITH ledger <- memBudget, open <- OpenCalls
(* The memory budget keeps the promise of SpendControl through every       *)
(* interleaving of the pipeline, month change and loss of Redis.           *)
ImplementsSpendControl == SC!Spec
=============================================================================
