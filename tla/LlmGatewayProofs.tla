-------------------------- MODULE LlmGatewayProofs --------------------------
(* Theorems about LlmGateway, for every value of its constants.            *)
EXTENDS LlmGateway, FiniteSetTheorems, TLAPS

USE LimitAssumption, CostAssumption, MonthAssumption, KindAssumption

LEMMA ConstantTable ==
  ASSUME NEW S, NEW T, NEW V, NEW v \in V
  PROVE  [s \in S |-> [t \in T |-> v]] \in [S -> [T -> V]]
OBVIOUS

(* Updating one cell of a table keeps the table's type. *)
LEMMA TableUpdate ==
  ASSUME NEW S, NEW T, NEW V, NEW f \in [S -> [T -> V]],
         NEW s \in S, NEW t \in T, NEW v \in V
  PROVE  [f EXCEPT ![s][t] = v] \in [S -> [T -> V]]
<1>1. [f[s] EXCEPT ![t] = v] \in [T -> V]
  OBVIOUS
<1>2. [f EXCEPT ![s][t] = v] = [f EXCEPT ![s] = [f[s] EXCEPT ![t] = v]]
  OBVIOUS
<1> QED BY <1>1, <1>2

(* A request without wrappers is a request, whatever its user and payload. *)
LEMMA FreshType ==
  /\ \A u \in User, p \in Payload : Fresh(u, p) \in Request
  /\ Free \in Request /\ Free.user \in User
<1>1. \A u \in User, p \in Payload : Fresh(u, p) \in Request
  BY DEF Fresh, Request, Months
<1>2. (CHOOSE u \in User : TRUE) \in User /\ (CHOOSE p \in Payload : TRUE) \in Payload
  BY InputAssumption
<1> QED BY <1>1, <1>2 DEF Free, Fresh

(* Sending a response and waiting keep the types. *)
LEMMA FinishType ==
  ASSUME TypeOK, NEW r \in Req, NEW q \in Request, NEW status \in {200, 429, 500},
         NEW body \in Body \cup {NoBody}, Finish(r, q, status, body)
  PROVE  /\ req' \in [Req -> Request]
         /\ sent' \in [status : {0, 200, 429, 500}, body : Body \cup {NoBody}, user : User]
<1>1. req' \in [Req -> Request]
  BY FreshType DEF TypeOK, Finish
<1>2. q.user \in User
  BY DEF Request
<1> QED BY <1>1, <1>2 DEF Finish

LEMMA StoreBodyType ==
  ASSUME TypeOK, NEW q \in Request, NEW body \in Body, StoreBody(q, body)
  PROVE  /\ memCache' \in [Payload -> Body \cup {NoBody}]
         /\ redisCache' \in [Payload -> Body \cup {NoBody}]
<1>1. q.payload \in Payload
  BY DEF Request
<1>2. memCache' \in [Payload -> Body \cup {NoBody}]
  BY <1>1 DEF TypeOK, StoreBody
<1>3. redisCache' = redisCache \/ redisCache' = [redisCache EXCEPT ![q.payload] = body]
  BY DEF StoreBody
<1> QED BY <1>1, <1>2, <1>3 DEF TypeOK

LEMMA CapType ==
  /\ PricedCap \in Nat
  /\ \A n \in Nat : Capped(n) \in Nat
<1>1. Cardinality(Req) \in Nat
  BY ReqAssumption, FS_CardinalityType
<1>2. MaxCost * Cardinality(Req) \in Nat
  BY <1>1
<1> QED BY <1>2 DEF PricedCap, Capped

LEMMA PricedType ==
  ASSUME TypeOK, NEW q \in Request, NEW price \in 0 .. MaxCost, Price(q, price)
  PROVE  priced' \in [User -> [Months -> Nat]]
<1>1. q.user \in User /\ q.month \in Months
  BY DEF Request
<1>2. priced[q.user][q.month] + price \in Nat
  BY <1>1 DEF TypeOK
<1>3. priced' = [priced EXCEPT ![q.user][q.month] =
                                 Capped(priced[q.user][q.month] + price)]
  BY DEF Price
<1>4. Capped(priced[q.user][q.month] + price) \in Nat
  BY <1>2, CapType
<1>5. priced \in [User -> [Months -> Nat]]
  BY DEF TypeOK
<1> QED BY <1>1, <1>3, <1>4, <1>5, TableUpdate

LEMMA ChargeType ==
  ASSUME TypeOK, NEW q \in Request, NEW price \in 0 .. MaxCost, Charge(q, price)
  PROVE  /\ memBudget' \in [User -> [Months -> Nat \cup {NaN}]]
         /\ redisBudget' \in [User -> [Months -> {"absent", "json", "raw"}]]
<1>1. q.user \in User /\ q.month \in Months
  BY DEF Request
<1>2. redisBudget' \in [User -> [Months -> {"absent", "json", "raw"}]]
  <2>1. CASE redisBudget' = redisBudget
    BY <2>1 DEF TypeOK
  <2>2. CASE redisBudget' = [redisBudget EXCEPT ![q.user][q.month] = "raw"]
    BY <1>1, <2>2, TableUpdate DEF TypeOK
  <2> QED BY <2>1, <2>2 DEF Charge
<1>3. memBudget' \in [User -> [Months -> Nat \cup {NaN}]]
  <2>1. CASE memBudget' = memBudget
    BY <2>1 DEF TypeOK
  <2> DEFINE sum == Plus(memBudget[q.user][q.month], EstimateCost(q.payload, price))
  <2>2. sum \in Nat \cup {NaN}
    <3>1. memBudget[q.user][q.month] \in Nat \cup {NaN}
      BY <1>1 DEF TypeOK
    <3>2. EstimateCost(q.payload, price) \in Nat \cup {NaN}
      BY DEF EstimateCost
    <3> QED BY <3>1, <3>2 DEF Plus, NaN
  <2>3. CASE memBudget' = [memBudget EXCEPT ![q.user][q.month] = sum]
    BY <1>1, <2>2, <2>3, TableUpdate DEF TypeOK
  <2> QED BY <2>1, <2>3 DEF Charge
<1> QED BY <1>2, <1>3

LEMMA RefuseType ==
  ASSUME TypeOK, NEW r \in Req, NEW q \in Request, NEW status \in {200, 429, 500},
         NEW body \in Body, Refuse(r, q, status, body), UNCHANGED <<month, conn, redisFlag>>
  PROVE  TypeOK'
<1>1. StoreBody(q, body) /\ Finish(r, q, status, body)
  BY DEF Refuse
<1>2. /\ req' \in [Req -> Request]
      /\ sent' \in [status : {0, 200, 429, 500}, body : Body \cup {NoBody}, user : User]
  BY <1>1, FinishType
<1>3. /\ memCache' \in [Payload -> Body \cup {NoBody}]
      /\ redisCache' \in [Payload -> Body \cup {NoBody}]
  BY <1>1, StoreBodyType
<1> QED BY <1>2, <1>3 DEF TypeOK, Refuse

LEMMA AwaitType ==
  ASSUME TypeOK, NEW r \in Req, NEW q \in Request,
         NEW pc \in {"cacheGet", "budgetRead", "budgetInit", "budgetCheck", "provider"},
         Await(r, q, pc), UNCHANGED <<month, conn, redisFlag>>
  PROVE  TypeOK'
<1>1. [q EXCEPT !.pc = pc] \in Request
  BY DEF Request
<1>2. req' \in [Req -> Request]
  BY <1>1 DEF TypeOK, Await
<1> QED BY <1>2 DEF TypeOK, Await, stores

LEMMA HandleType ==
  ASSUME TypeOK, NEW r \in Req, NEW q \in Request, Handle(r, q),
         UNCHANGED <<month, conn, redisFlag>>
  PROVE  TypeOK'
<1>1. CASE Await(r, q, "provider")
  BY <1>1, AwaitType
<1>2. CASE Finish(r, q, 200, "answer") /\ UNCHANGED <<stores, priced>>
  <2>1. "answer" \in Body \cup {NoBody}
    BY DEF Body
  <2>2. /\ req' \in [Req -> Request]
        /\ sent' \in [status : {0, 200, 429, 500}, body : Body \cup {NoBody}, user : User]
    BY <1>2, <2>1, FinishType
  <2> QED BY <1>2, <2>2 DEF TypeOK, stores
<1> QED BY <1>1, <1>2 DEF Handle

LEMMA FailOpenType ==
  ASSUME TypeOK, NEW r \in Req, FailOpen(r), UNCHANGED <<month, conn, redisFlag>>
  PROVE  TypeOK'
<1>0. req[r] \in Request
  BY DEF TypeOK
<1>1. [req[r] EXCEPT !.ledger = "none"] \in Request
  BY <1>0 DEF Request
<1> QED BY <1>1, HandleType DEF FailOpen

LEMMA EnterBudgetType ==
  ASSUME TypeOK, NEW r \in Req, NEW q0 \in Request, EnterBudget(r, q0),
         UNCHANGED <<month, conn, redisFlag>>
  PROVE  TypeOK'
<1> DEFINE q == [q0 EXCEPT !.month = month]
<1>1. q \in Request /\ [q EXCEPT !.ledger = "memory"] \in Request
  BY DEF Request, TypeOK
<1>2. CASE Await(r, q, "budgetRead")
  BY <1>1, <1>2, AwaitType
<1>3. CASE Refuse(r, q, 429, "budget_exceeded")
  <2>1. "budget_exceeded" \in Body
    BY DEF Body, Errors
  <2> QED BY <1>1, <1>3, <2>1, RefuseType
<1>4. CASE Handle(r, [q EXCEPT !.ledger = "memory"])
  BY <1>1, <1>4, HandleType
<1> QED BY <1>2, <1>3, <1>4 DEF EnterBudget, MemoryBudget

LEMMA HitType ==
  ASSUME TypeOK, NEW r \in Req, NEW q \in Request, NEW body \in Body \cup {NoBody},
         Hit(r, q, body), UNCHANGED <<month, conn, redisFlag>>
  PROVE  TypeOK'
<1>1. /\ req' \in [Req -> Request]
      /\ sent' \in [status : {0, 200, 429, 500}, body : Body \cup {NoBody}, user : User]
  BY FinishType DEF Hit
<1> QED BY <1>1 DEF TypeOK, Hit, stores

LEMMA FallbackType ==
  ASSUME TypeOK, NEW r \in Req, NEW q \in Request, FallbackMissAndStore(r, q),
         UNCHANGED <<month, conn, redisFlag>>
  PROVE  TypeOK'
<1>1. [q EXCEPT !.store = "memory"] \in Request /\ q.payload \in Payload
  BY DEF Request
<1>4. memCache[q.payload] \in Body \cup {NoBody}
  BY <1>1 DEF TypeOK
<1>2. CASE Hit(r, q, memCache[q.payload])
  BY <1>4, <1>2, HitType
<1>3. CASE EnterBudget(r, [q EXCEPT !.store = "memory"])
  BY <1>1, <1>3, EnterBudgetType
<1> QED BY <1>2, <1>3 DEF FallbackMissAndStore

(* Each action keeps the types. *)
LEMMA ArriveType ==
  ASSUME TypeOK, NEW r \in Req, NEW u \in User, NEW p \in Payload, Arrive(r, u, p)
  PROVE  TypeOK'
<1>1. Fresh(u, p) \in Request
  BY FreshType
<1>2. UNCHANGED <<month, conn, redisFlag>>
  BY DEF Arrive
<1>3. CASE EnterBudget(r, Fresh(u, p))
  BY <1>1, <1>2, <1>3, EnterBudgetType
<1>4. CASE Await(r, Fresh(u, p), "cacheGet")
  BY <1>1, <1>2, <1>4, AwaitType
<1>5. CASE FallbackMissAndStore(r, Fresh(u, p))
  BY <1>1, <1>2, <1>5, FallbackType
<1> QED BY <1>3, <1>4, <1>5 DEF Arrive

LEMMA CacheGetType ==
  ASSUME TypeOK, NEW r \in Req, CacheGet(r)
  PROVE  TypeOK'
<1>1. req[r] \in Request /\ UNCHANGED <<month, conn, redisFlag>>
  BY DEF CacheGet, TypeOK
<1>2. [req[r] EXCEPT !.store = "redis"] \in Request /\ req[r].payload \in Payload
  BY <1>1 DEF Request
<1>3. redisCache[req[r].payload] \in Body \cup {NoBody}
  BY <1>2 DEF TypeOK
<1>4. CASE Hit(r, req[r], redisCache[req[r].payload])
  BY <1>1, <1>3, <1>4, HitType
<1>5. CASE EnterBudget(r, [req[r] EXCEPT !.store = "redis"])
  BY <1>1, <1>2, <1>5, EnterBudgetType
<1>6. CASE FallbackMissAndStore(r, req[r])
  BY <1>1, <1>6, FallbackType
<1> QED BY <1>4, <1>5, <1>6 DEF CacheGet

LEMMA BudgetReadType ==
  ASSUME TypeOK, NEW r \in Req, BudgetRead(r)
  PROVE  TypeOK'
<1>1. req[r] \in Request /\ UNCHANGED <<month, conn, redisFlag>>
  BY DEF BudgetRead, TypeOK
<1>2. CASE FailOpen(r)
  BY <1>1, <1>2, FailOpenType
<1>3. CASE \E pc \in {"budgetInit", "budgetCheck"} : Await(r, req[r], pc)
  BY <1>1, <1>3, AwaitType
<1> QED BY <1>2, <1>3 DEF BudgetRead

LEMMA BudgetInitType ==
  ASSUME TypeOK, NEW r \in Req, BudgetInit(r)
  PROVE  TypeOK'
<1>1. req[r] \in Request /\ UNCHANGED <<month, conn, redisFlag>>
  BY DEF BudgetInit, TypeOK
<1>2. CASE FailOpen(r)
  BY <1>1, <1>2, FailOpenType
<1>3. CASE ~FailOpen(r)
  <2>1. redisBudget' \in [User -> [Months -> {"absent", "json", "raw"}]]
    <3>1. req[r].user \in User /\ req[r].month \in Months
      BY <1>1 DEF Request
    <3>2. redisBudget' = [redisBudget EXCEPT ![req[r].user][req[r].month] = "json"]
      BY <1>3 DEF BudgetInit
    <3> QED BY <3>1, <3>2, TableUpdate DEF TypeOK
  <2>2. req' \in [Req -> Request]
    <3>1. req' = [req EXCEPT ![r] = [req[r] EXCEPT !.pc = "budgetCheck"]]
      BY <1>3 DEF BudgetInit
    <3>2. [req[r] EXCEPT !.pc = "budgetCheck"] \in Request
      BY <1>1 DEF Request
    <3> QED BY <3>1, <3>2 DEF TypeOK
  <2> QED BY <1>1, <1>3, <2>1, <2>2 DEF BudgetInit, TypeOK
<1> QED BY <1>2, <1>3

LEMMA BudgetCheckType ==
  ASSUME TypeOK, NEW r \in Req, BudgetCheck(r)
  PROVE  TypeOK'
<1>1. req[r] \in Request /\ UNCHANGED <<month, conn, redisFlag>>
  BY DEF BudgetCheck, TypeOK
<1>2. [req[r] EXCEPT !.ledger = "redis"] \in Request
  BY <1>1 DEF Request
<1>3. CASE \E no \in RedisRefusals(redisBudget[req[r].user][req[r].month]) :
             Refuse(r, req[r], no.status, no.body)
  <2>1. PICK no \in RedisRefusals(redisBudget[req[r].user][req[r].month]) :
          Refuse(r, req[r], no.status, no.body)
    BY <1>3
  <2>2. no \in {[status |-> 500, body |-> "budget_error"],
                 [status |-> 429, body |-> "budget_exceeded"]}
    <3> DEFINE value == redisBudget[req[r].user][req[r].month]
    <3>1. RedisRefusals(value) =
            IF value = "absent" THEN {[status |-> 500, body |-> "budget_error"]}
            ELSE IF value = "json" /\ Exhausted(0)
                   THEN {[status |-> 429, body |-> "budget_exceeded"]} ELSE {}
      BY DEF RedisRefusals
    <3> QED BY <2>1, <3>1
  <2>3. no.status \in {200, 429, 500} /\ no.body \in Body
    BY <2>2 DEF Body, Errors
  <2> QED BY <1>1, <2>1, <2>3, RefuseType
<1>4. CASE Handle(r, [req[r] EXCEPT !.ledger = "redis"])
  BY <1>1, <1>2, <1>4, HandleType
<1>5. CASE FailOpen(r)
  BY <1>1, <1>5, FailOpenType
<1> QED BY <1>3, <1>4, <1>5 DEF BudgetCheck

LEMMA AnswerType ==
  ASSUME TypeOK, NEW r \in Req, NEW price \in 0 .. MaxCost, Answer(r, price)
  PROVE  TypeOK'
<1> DEFINE q == req[r]
<1>1. /\ q \in Request /\ q.user \in User /\ q.month \in Months
      /\ UNCHANGED <<month, conn, redisFlag>>
  BY DEF Answer, TypeOK, Request
<1>2. "answer" \in Body
  BY DEF Body
<1>3. /\ req' \in [Req -> Request]
      /\ sent' \in [status : {0, 200, 429, 500}, body : Body \cup {NoBody}, user : User]
  BY <1>1, <1>2, FinishType DEF Answer
<1>4. /\ memCache' \in [Payload -> Body \cup {NoBody}]
      /\ redisCache' \in [Payload -> Body \cup {NoBody}]
  BY <1>1, <1>2, StoreBodyType DEF Answer
<1>5. priced' \in [User -> [Months -> Nat]]
  BY <1>1, PricedType DEF Answer
<1>6. /\ memBudget' \in [User -> [Months -> Nat \cup {NaN}]]
      /\ redisBudget' \in [User -> [Months -> {"absent", "json", "raw"}]]
  BY <1>1, ChargeType DEF Answer
<1> QED BY <1>1, <1>3, <1>4, <1>5, <1>6 DEF TypeOK

LEMMA StreamAnswerType ==
  ASSUME TypeOK, NEW r \in Req, NEW price \in 0 .. MaxCost, StreamAnswer(r, price)
  PROVE  TypeOK'
<1>1. req[r] \in Request
  BY DEF TypeOK
<1>2. "answer" \in Body
  BY DEF Body
<1>3. /\ req' \in [Req -> Request]
      /\ sent' \in [status : {0, 200, 429, 500}, body : Body \cup {NoBody}, user : User]
  BY <1>1, <1>2, FinishType DEF StreamAnswer
<1>4. priced' \in [User -> [Months -> Nat]]
  BY <1>1, PricedType DEF StreamAnswer
<1> QED BY <1>3, <1>4 DEF TypeOK, StreamAnswer, stores

LEMMA ProviderErrorType ==
  ASSUME TypeOK, NEW r \in Req, ProviderError(r)
  PROVE  TypeOK'
<1>1. req[r] \in Request /\ UNCHANGED <<month, conn, redisFlag>>
  BY DEF TypeOK, ProviderError
<1>2. "provider_error" \in Body
  BY DEF Body, Errors
<1>3. CASE Refuse(r, req[r], 500, "provider_error")
  BY <1>1, <1>2, <1>3, RefuseType
<1>4. CASE Finish(r, req[r], 200, "provider_error") /\ UNCHANGED <<stores, priced>>
  <2>1. /\ req' \in [Req -> Request]
        /\ sent' \in [status : {0, 200, 429, 500}, body : Body \cup {NoBody}, user : User]
    BY <1>1, <1>2, <1>4, FinishType
  <2> QED BY <1>1, <1>4, <2>1 DEF TypeOK, stores
<1> QED BY <1>3, <1>4 DEF ProviderError

LEMMA EnvironmentType ==
  ASSUME TypeOK, Environment
  PROVE  TypeOK'
<1>1. CASE NextMonth
  <2>1. month' \in Months
    BY <1>1 DEF NextMonth, TypeOK, Months
  <2> QED BY <1>1, <2>1 DEF NextMonth, TypeOK, stores
<1>2. CASE Connect
  BY <1>2 DEF Connect, TypeOK, stores
<1>3. CASE Disconnect
  <2>1. /\ redisBudget' = [u \in User |-> [m \in Months |-> "absent"]]
        /\ redisCache' = [p \in Payload |-> NoBody]
        /\ conn' = "end"
        /\ month' = month /\ memCache' = memCache /\ memBudget' = memBudget
        /\ req' = req /\ sent' = sent /\ priced' = priced
    BY <1>3 DEF Disconnect
  <2>2. redisFlag' \in BOOLEAN
    BY <1>3, Zenon DEF Disconnect
  <2>3. redisCache' \in [Payload -> Body \cup {NoBody}]
    BY <2>1
  <2>4. redisBudget' \in [User -> [Months -> {"absent", "json", "raw"}]]
    BY <2>1, ConstantTable
  <2> QED BY <2>1, <2>2, <2>3, <2>4 DEF TypeOK
<1>4. ASSUME NEW p \in Payload, ExpireMemory(p) PROVE TypeOK'
  BY <1>4 DEF ExpireMemory, TypeOK
<1>5. ASSUME NEW p \in Payload, ExpireRedis(p) PROVE TypeOK'
  BY <1>5 DEF ExpireRedis, TypeOK
<1>6. ASSUME NEW u \in User, NEW m \in Months, EvictBudget(u, m) PROVE TypeOK'
  <2>1. redisBudget' \in [User -> [Months -> {"absent", "json", "raw"}]]
    BY <1>6, TableUpdate DEF EvictBudget, TypeOK
  <2> QED BY <1>6, <2>1 DEF EvictBudget, TypeOK
<1> QED BY <1>1, <1>2, <1>3, <1>4, <1>5, <1>6 DEF Environment

(* Every variable keeps its type: a ledger is a number or NaN, and every   *)
(* request is in a state of the pipeline (TypeOK).                         *)
THEOREM TypeCorrect == Spec => []TypeOK
<1>1. Init => TypeOK
  <2> SUFFICES ASSUME Init PROVE TypeOK
    OBVIOUS
  <2>1. month \in Months /\ conn \in {"connecting", "ready", "end"}
    BY DEF Init, Months
  <2>5. redisFlag \in BOOLEAN
    BY Zenon DEF Init
  <2>2. /\ redisCache \in [Payload -> Body \cup {NoBody}]
        /\ memCache \in [Payload -> Body \cup {NoBody}]
        /\ req \in [Req -> Request]
    BY FreshType DEF Init
  <2>3. /\ redisBudget \in [User -> [Months -> {"absent", "json", "raw"}]]
        /\ memBudget \in [User -> [Months -> Nat \cup {NaN}]]
        /\ priced \in [User -> [Months -> Nat]]
    BY ConstantTable, Zenon DEF Init
  <2>4. sent \in [status : {0, 200, 429, 500}, body : Body \cup {NoBody}, user : User]
    BY FreshType DEF Init, NoResponse
  <2> QED BY <2>1, <2>2, <2>3, <2>4, <2>5 DEF TypeOK
<1>2. TypeOK /\ [Next]_vars => TypeOK'
  <2> SUFFICES ASSUME TypeOK, [Next]_vars PROVE TypeOK'
    OBVIOUS
  <2>1. CASE UNCHANGED vars
    BY <2>1 DEF vars, TypeOK
  <2>2. ASSUME NEW r \in Req, NEW u \in User, NEW p \in Payload, Arrive(r, u, p)
        PROVE  TypeOK'
    BY <2>2, ArriveType
  <2>3. ASSUME NEW r \in Req, Step(r) PROVE TypeOK'
    BY <2>3, CacheGetType, BudgetReadType, BudgetInitType, BudgetCheckType, AnswerType,
       StreamAnswerType, ProviderErrorType DEF Step, Provider
  <2>4. CASE Environment
    BY <2>4, EnvironmentType
  <2> QED BY <2>1, <2>2, <2>3, <2>4 DEF Next
<1> QED BY <1>1, <1>2, PTL DEF Spec

-----------------------------------------------------------------------------
(* The memory ledger implements SpendControl: what each step does to the   *)
(* ledgers and to the open calls.                                          *)

LEMMA OpenUpdate ==
  ASSUME TypeOK, NEW r \in Req, NEW q, req' = [req EXCEPT ![r] = q]
  PROVE  OpenCalls' = [OpenCalls EXCEPT ![r] = CallOf(q)]
<1>1. \A s \in Req : req'[s] = IF s = r THEN q ELSE req[s]
  BY DEF TypeOK
<1>2. OpenCalls' = [s \in Req |-> CallOf(req'[s])]
  BY DEF OpenCalls, CallOf
<1>3. OpenCalls = [s \in Req |-> CallOf(req[s])]
  BY DEF OpenCalls
<1> QED BY <1>1, <1>2, <1>3

LEMMA FinishOpen ==
  ASSUME TypeOK, NEW r \in Req, NEW q, NEW status, NEW body, Finish(r, q, status, body)
  PROVE  OpenCalls' = [OpenCalls EXCEPT ![r] = <<>>]
<1>1. CallOf(Free) = <<>>
  BY DEF CallOf, Free, Fresh
<1> QED BY <1>1, OpenUpdate DEF Finish

LEMMA AwaitOpen ==
  ASSUME TypeOK, NEW r \in Req, NEW q \in Request, NEW pc, Await(r, q, pc)
  PROVE  /\ memBudget' = memBudget
         /\ OpenCalls' = [OpenCalls EXCEPT ![r] =
              IF pc = "provider" /\ q.ledger = "memory" THEN <<q.user, q.month>> ELSE <<>>]
<1>1. CallOf([q EXCEPT !.pc = pc]) =
        IF pc = "provider" /\ q.ledger = "memory" THEN <<q.user, q.month>> ELSE <<>>
  BY DEF CallOf, Request
<1> QED BY <1>1, OpenUpdate DEF Await, stores

(* A request that is not waiting for the provider holds no open call.      *)
Quiet(r) == req[r].pc # "provider"
LEMMA QuietClosed ==
  ASSUME NEW r \in Req, Quiet(r)
  PROVE  OpenCalls[r] = <<>> /\ [OpenCalls EXCEPT ![r] = <<>>] = OpenCalls
BY DEF Quiet, OpenCalls, CallOf

Unmoved == memBudget' = memBudget /\ OpenCalls' = OpenCalls
Ledgers == <<memBudget, OpenCalls>>

LEMMA RefuseUnmoved ==
  ASSUME TypeOK, NEW r \in Req, Quiet(r), NEW q, NEW status, NEW body,
         Refuse(r, q, status, body)
  PROVE  Unmoved
BY FinishOpen, QuietClosed DEF Refuse, Unmoved

LEMMA HitUnmoved ==
  ASSUME TypeOK, NEW r \in Req, Quiet(r), NEW q, NEW body, Hit(r, q, body)
  PROVE  Unmoved
BY FinishOpen, QuietClosed DEF Hit, Unmoved, stores

LEMMA AwaitUnmoved ==
  ASSUME TypeOK, NEW r \in Req, Quiet(r), NEW q \in Request, NEW pc, Await(r, q, pc),
         pc # "provider" \/ q.ledger # "memory"
  PROVE  Unmoved
BY AwaitOpen, QuietClosed DEF Unmoved

LEMMA HandleUnmoved ==
  ASSUME TypeOK, NEW r \in Req, Quiet(r), NEW q \in Request, Handle(r, q), q.ledger # "memory"
  PROVE  Unmoved
<1>1. CASE Await(r, q, "provider")
  BY <1>1, AwaitUnmoved
<1>2. CASE Finish(r, q, 200, "answer") /\ UNCHANGED <<stores, priced>>
  BY <1>2, FinishOpen, QuietClosed DEF Unmoved, stores
<1> QED BY <1>1, <1>2 DEF Handle

(* Entering the budget middleware either changes nothing or opens a call   *)
(* on a ledger that is not exhausted.                                      *)
LEMMA EnterBudgetStep ==
  ASSUME TypeOK, NEW r \in Req, Quiet(r), NEW q0 \in Request, EnterBudget(r, q0)
  PROVE  Unmoved \/ SC!Admit(r, q0.user, month)
<1> DEFINE q == [q0 EXCEPT !.month = month]
           qm == [q EXCEPT !.ledger = "memory"]
<1>1. /\ q \in Request /\ qm \in Request /\ qm.ledger = "memory"
      /\ qm.user = q0.user /\ qm.month = month /\ q.user = q0.user
  BY DEF Request, TypeOK
<1>2. CASE Await(r, q, "budgetRead")
  BY <1>1, <1>2, AwaitUnmoved
<1>3. CASE Refuse(r, q, 429, "budget_exceeded")
  BY <1>3, RefuseUnmoved
<1>4. CASE ~Exhausted(memBudget[q.user][month]) /\ Handle(r, qm)
  <2>1. CASE Await(r, qm, "provider")
    <3>1. memBudget' = memBudget /\ OpenCalls' = [OpenCalls EXCEPT ![r] = <<q0.user, month>>]
      BY <1>1, <2>1, AwaitOpen
    <3>2. memBudget[q0.user][month] \in Nat \cup {NaN}
      BY DEF TypeOK, Request
    <3>3. memBudget[q0.user][month] = NaN \/ memBudget[q0.user][month] < Limit
      BY <1>1, <1>4, <3>2 DEF Exhausted, NaN
    <3> QED BY <3>1, <3>3, QuietClosed DEF SC!Admit, SC!NaN, NaN
  <2>2. CASE Finish(r, qm, 200, "answer") /\ UNCHANGED <<stores, priced>>
    BY <2>2, FinishOpen, QuietClosed DEF Unmoved, stores
  <2> QED BY <1>4, <2>1, <2>2 DEF Handle
<1> QED BY <1>2, <1>3, <1>4 DEF EnterBudget, MemoryBudget

LEMMA FallbackStep ==
  ASSUME TypeOK, NEW r \in Req, Quiet(r), NEW q \in Request, FallbackMissAndStore(r, q)
  PROVE  Unmoved \/ SC!Admit(r, q.user, month)
<1> DEFINE qs == [q EXCEPT !.store = "memory"]
<1>1. qs \in Request /\ qs.user = q.user
  BY DEF Request
<1>2. CASE Hit(r, q, memCache[q.payload])
  BY <1>2, HitUnmoved
<1>3. CASE EnterBudget(r, qs)
  BY <1>1, <1>3, EnterBudgetStep
<1> QED BY <1>2, <1>3 DEF FallbackMissAndStore

LEMMA FailOpenStep ==
  ASSUME TypeOK, NEW r \in Req, Quiet(r), FailOpen(r)
  PROVE  Unmoved
<1> DEFINE q == [req[r] EXCEPT !.ledger = "none"]
<1>0. req[r] \in Request
  BY DEF TypeOK
<1>1. q \in Request /\ q.ledger # "memory"
  BY <1>0 DEF Request
<1> QED BY <1>1, HandleUnmoved DEF FailOpen

LEMMA ArriveStep ==
  ASSUME TypeOK, NEW r \in Req, NEW u \in User, NEW p \in Payload, Arrive(r, u, p)
  PROVE  Unmoved \/ SC!Admit(r, u, month)
<1> DEFINE q == Fresh(u, p)
<1>1. q \in Request /\ q.user = u
  BY FreshType DEF Fresh
<1>2. Quiet(r)
  BY DEF Arrive, Quiet
<1>3. CASE EnterBudget(r, q)
  BY <1>1, <1>2, <1>3, EnterBudgetStep
<1>4. CASE Await(r, q, "cacheGet")
  BY <1>1, <1>2, <1>4, AwaitUnmoved
<1>5. CASE FallbackMissAndStore(r, q)
  BY <1>1, <1>2, <1>5, FallbackStep
<1> QED BY <1>3, <1>4, <1>5 DEF Arrive

LEMMA CacheGetStep ==
  ASSUME TypeOK, NEW r \in Req, CacheGet(r)
  PROVE  Unmoved \/ SC!Admit(r, req[r].user, month)
<1> DEFINE q == req[r]
           qr == [q EXCEPT !.store = "redis"]
<1>0. q \in Request
  BY DEF TypeOK
<1>1. q \in Request /\ qr \in Request /\ qr.user = q.user
  BY <1>0 DEF Request
<1>2. Quiet(r)
  BY DEF CacheGet, Quiet
<1>3. CASE Hit(r, q, redisCache[q.payload])
  BY <1>2, <1>3, HitUnmoved
<1>4. CASE EnterBudget(r, qr)
  BY <1>1, <1>2, <1>4, EnterBudgetStep
<1>5. CASE FallbackMissAndStore(r, q)
  BY <1>1, <1>2, <1>5, FallbackStep
<1> QED BY <1>3, <1>4, <1>5 DEF CacheGet

LEMMA RedisBudgetStep ==
  ASSUME TypeOK, NEW r \in Req, BudgetRead(r) \/ BudgetInit(r) \/ BudgetCheck(r)
  PROVE  Unmoved
<1>1. Quiet(r)
  BY DEF BudgetRead, BudgetInit, BudgetCheck, Quiet
<1>2. CASE FailOpen(r)
  BY <1>1, <1>2, FailOpenStep
<1>3. req[r] \in Request
  BY DEF TypeOK
<1>4. ASSUME BudgetRead(r), ~FailOpen(r) PROVE Unmoved
  <2>1. \E pc \in {"budgetInit", "budgetCheck"} : Await(r, req[r], pc)
    BY <1>4 DEF BudgetRead
  <2> QED BY <1>1, <1>3, <2>1, AwaitUnmoved
<1>5. ASSUME BudgetInit(r), ~FailOpen(r) PROVE Unmoved
  <2> DEFINE q == [req[r] EXCEPT !.pc = "budgetCheck"]
  <2>1. memBudget' = memBudget /\ req' = [req EXCEPT ![r] = q]
    BY <1>5 DEF BudgetInit
  <2>2. CallOf(q) = <<>>
    BY <1>3 DEF CallOf, Request
  <2> QED BY <1>1, <2>1, <2>2, OpenUpdate, QuietClosed DEF Unmoved
<1>6. ASSUME BudgetCheck(r), ~FailOpen(r) PROVE Unmoved
  <2> DEFINE q == [req[r] EXCEPT !.ledger = "redis"]
  <2>1. q \in Request /\ q.ledger # "memory"
    BY <1>3 DEF Request
  <2>2. CASE Handle(r, q)
    BY <1>1, <2>1, <2>2, HandleUnmoved
  <2>3. CASE \E no \in RedisRefusals(redisBudget[req[r].user][req[r].month]) :
               Refuse(r, req[r], no.status, no.body)
    BY <1>1, <2>3, RefuseUnmoved
  <2> QED BY <1>6, <2>2, <2>3 DEF BudgetCheck
<1> QED BY <1>2, <1>4, <1>5, <1>6

(* The provider's answer settles an open call on its own ledger; a stream  *)
(* or a failure abandons it; other calls do not touch the ledgers.         *)
LEMMA AnswerStep ==
  ASSUME TypeOK, NEW r \in Req, NEW price \in 0 .. MaxCost, Answer(r, price)
  PROVE  \/ Unmoved
         \/ \E u \in User, m \in Months, c \in 0 .. MaxCost \cup {NaN} : SC!Settle(r, u, m, c)
<1> DEFINE q == req[r]
           c == EstimateCost(q.payload, price)
<1>1. q.user \in User /\ q.month \in Months
  BY DEF TypeOK, Request
<1>2. OpenCalls' = [OpenCalls EXCEPT ![r] = <<>>]
  BY FinishOpen DEF Answer
<1>3. CASE q.ledger = "memory"
  <2>1. memBudget' = [memBudget EXCEPT ![q.user][q.month] = Plus(@, c)]
    BY <1>3 DEF Answer, Charge
  <2>2. OpenCalls[r] = <<q.user, q.month>>
    BY <1>3 DEF OpenCalls, CallOf, Answer
  <2>3. c \in 0 .. MaxCost \cup {NaN}
    BY DEF EstimateCost
  <2>4. \A a, b : Plus(a, b) = SC!Add(a, b)
    BY DEF Plus, SC!Add, SC!NaN, NaN
  <2>5. SC!Settle(r, q.user, q.month, c)
    BY <1>2, <2>1, <2>2, <2>4 DEF SC!Settle
  <2> QED BY <1>1, <2>3, <2>5
<1>4. CASE q.ledger # "memory"
  <2>1. memBudget' = memBudget
    BY <1>4 DEF Answer, Charge
  <2>2. OpenCalls[r] = <<>> /\ [OpenCalls EXCEPT ![r] = <<>>] = OpenCalls
    BY <1>4 DEF OpenCalls, CallOf
  <2> QED BY <1>2, <2>1, <2>2 DEF Unmoved
<1> QED BY <1>3, <1>4

LEMMA UnchargedStep ==
  ASSUME TypeOK, NEW r \in Req,
         ProviderError(r) \/ \E price \in 0 .. MaxCost : StreamAnswer(r, price)
  PROVE  Unmoved \/ SC!Abandon(r)
<1>1. OpenCalls' = [OpenCalls EXCEPT ![r] = <<>>] /\ memBudget' = memBudget
  BY FinishOpen DEF ProviderError, StreamAnswer, Refuse, stores
<1>2. CASE OpenCalls[r] = <<>>
  <2>1. [OpenCalls EXCEPT ![r] = <<>>] = OpenCalls
    BY <1>2 DEF OpenCalls
  <2> QED BY <1>1, <2>1 DEF Unmoved
<1> QED BY <1>1, <1>2 DEF SC!Abandon

LEMMA EnvironmentStep ==
  ASSUME Environment
  PROVE  Unmoved
<1>1. memBudget' = memBudget /\ req' = req
  BY DEF Environment, NextMonth, Connect, Disconnect, ExpireMemory, ExpireRedis,
         EvictBudget, stores
<1> QED BY <1>1 DEF Unmoved, OpenCalls, CallOf

LEMMA LedgerStep ==
  ASSUME TypeOK, [Next]_vars
  PROVE  [SC!Next]_Ledgers
<1>1. CASE Unmoved
  BY <1>1 DEF Unmoved, Ledgers
<1>2. ASSUME NEW r \in Req, NEW u \in User, SC!Admit(r, u, month) PROVE SC!Next
  BY <1>2 DEF TypeOK, SC!Next
<1>3. ASSUME NEW r \in Req, SC!Abandon(r) PROVE SC!Next
  BY <1>3 DEF SC!Next
<1>4. ASSUME NEW r \in Req, NEW u \in User, NEW m \in Months,
             NEW c \in 0 .. MaxCost \cup {NaN}, SC!Settle(r, u, m, c)
      PROVE  SC!Next
  BY <1>4 DEF SC!Next, SC!NaN, NaN
<1>5. CASE UNCHANGED vars
  BY <1>5, <1>1 DEF vars, Unmoved, OpenCalls, CallOf
<1>6. ASSUME NEW r \in Req, NEW u \in User, NEW p \in Payload, Arrive(r, u, p)
      PROVE  [SC!Next]_Ledgers
  BY <1>1, <1>2, <1>6, ArriveStep
<1>7. ASSUME NEW r \in Req, Step(r) PROVE [SC!Next]_Ledgers
  <2>1. CASE CacheGet(r)
    <3>1. req[r].user \in User
      BY DEF TypeOK, Request
    <3> QED BY <1>1, <1>2, <2>1, <3>1, CacheGetStep
  <2>2. CASE BudgetRead(r) \/ BudgetInit(r) \/ BudgetCheck(r)
    BY <1>1, <2>2, RedisBudgetStep
  <2>3. CASE ProviderError(r) \/ \E price \in 0 .. MaxCost : StreamAnswer(r, price)
    BY <1>1, <1>3, <2>3, UnchargedStep
  <2>4. ASSUME NEW price \in 0 .. MaxCost, Answer(r, price) PROVE [SC!Next]_Ledgers
    BY <1>1, <1>4, <2>4, AnswerStep
  <2> QED BY <1>7, <2>1, <2>2, <2>3, <2>4 DEF Step, Provider
<1>8. CASE Environment
  BY <1>1, <1>8, EnvironmentStep
<1> QED BY <1>5, <1>6, <1>7, <1>8 DEF Next

(* The memory ledger and the calls open on it behave as SpendControl says, *)
(* whatever the cache, Redis and the calendar do around them.              *)
THEOREM LedgerRefinement == Spec => ImplementsSpendControl
<1>1. Init => SC!Init
  BY DEF Init, SC!Init, OpenCalls, CallOf, Free, Fresh
<1>2. TypeOK /\ [Next]_vars => [SC!Next]_Ledgers
  BY LedgerStep
<1> QED BY <1>1, <1>2, TypeCorrect, PTL DEF Spec, SC!Spec, ImplementsSpendControl, Ledgers

-----------------------------------------------------------------------------
(* The overshoot of the limit.                                             *)

LEMMA Products ==
  /\ \A a, b \in Nat : a <= b => MaxCost * a <= MaxCost * b
  /\ \A a \in Nat \ {0} : MaxCost * (a - 1) = MaxCost * a - MaxCost
  /\ \A a \in Nat : MaxCost * a \in Nat
OBVIOUS

LEMMA OpenFinite ==
  ASSUME NEW u, NEW m
  PROVE  /\ IsFiniteSet(Open(u, m)) /\ Cardinality(Open(u, m)) \in Nat
         /\ Cardinality(Req) \in Nat /\ Cardinality(Open(u, m)) <= Cardinality(Req)
<1>1. Open(u, m) \subseteq Req
  BY DEF Open
<1> QED BY <1>1, ReqAssumption, FS_Subset, FS_CardinalityType

LEMMA OpenFinitePrimed ==
  ASSUME NEW u, NEW m
  PROVE  IsFiniteSet(Open(u, m)') /\ Cardinality(Open(u, m)') \in Nat
<1>1. Open(u, m)' \subseteq Req
  BY DEF Open
<1> QED BY <1>1, ReqAssumption, FS_Subset, FS_CardinalityType

(* A cell whose ledger does not change and that gains no open call.        *)
LEMMA OvershootSubset ==
  ASSUME TypeOK, NEW u \in User, NEW m \in Months, Overshoot(u, m),
         memBudget'[u][m] = memBudget[u][m],
         Exhausted(memBudget[u][m]) => Open(u, m)' \subseteq Open(u, m)
  PROVE  Overshoot(u, m)'
<1> SUFFICES ASSUME Exhausted(memBudget'[u][m])
             PROVE  memBudget'[u][m] + MaxCost * Cardinality(Open(u, m)')
                      <= Limit + MaxCost * Cardinality(Req)
  BY DEF Overshoot
<1>1. /\ Exhausted(memBudget[u][m]) /\ memBudget[u][m] \in Nat
      /\ memBudget[u][m] + MaxCost * Cardinality(Open(u, m))
            <= Limit + MaxCost * Cardinality(Req)
  BY DEF Overshoot, Exhausted, TypeOK, NaN
<1>2. Cardinality(Open(u, m)') <= Cardinality(Open(u, m))
  BY <1>1, OpenFinite, FS_Subset
<1>3. MaxCost * Cardinality(Open(u, m)') <= MaxCost * Cardinality(Open(u, m))
  BY <1>2, OpenFinite, OpenFinitePrimed, Products
<1> DEFINE a == MaxCost * Cardinality(Open(u, m)')
           b == MaxCost * Cardinality(Open(u, m))
           c == MaxCost * Cardinality(Req)
<1>4. a \in Nat /\ b \in Nat /\ c \in Nat
  BY OpenFinite, OpenFinitePrimed, Products
<1> HIDE DEF a, b, c
<1>5. memBudget[u][m] + a <= Limit + c
  BY <1>1, <1>3, <1>4 DEF a, b, c
<1> QED BY <1>5 DEF a, c

(* The cell on which a call is settled: one open call less.                *)
LEMMA OvershootSettle ==
  ASSUME TypeOK, NEW r \in Req, NEW u \in User, NEW m \in Months, Overshoot(u, m),
         NEW price \in 0 .. MaxCost \cup {NaN},
         OpenCalls[r] = <<u, m>>, Open(u, m)' = Open(u, m) \ {r},
         memBudget'[u][m] = Plus(memBudget[u][m], price)
  PROVE  Overshoot(u, m)'
<1> SUFFICES ASSUME Exhausted(memBudget'[u][m])
             PROVE  memBudget'[u][m] + MaxCost * Cardinality(Open(u, m)')
                      <= Limit + MaxCost * Cardinality(Req)
  BY DEF Overshoot
<1> DEFINE before == memBudget[u][m]
           n == Cardinality(Open(u, m))
<1>1. before \in Nat /\ price \in 0 .. MaxCost /\ memBudget'[u][m] = before + price
  <2>1. before \in Nat \cup {NaN}
    BY DEF TypeOK
  <2>2. before # NaN /\ price # NaN /\ Plus(before, price) = before + price
    BY DEF Exhausted, Plus
  <2> QED BY <2>1, <2>2 DEF NaN
<1>2. r \in Open(u, m)
  BY DEF Open
<1>3. n \in Nat \ {0} /\ Cardinality(Open(u, m)') = n - 1 /\ n <= Cardinality(Req)
  <2>1. IsFiniteSet(Open(u, m)) /\ n \in Nat /\ n <= Cardinality(Req)
    BY OpenFinite
  <2>2. n # 0
    BY <1>2, <2>1, FS_EmptySet
  <2>3. Cardinality(Open(u, m) \ {r}) = n - 1
    BY <1>2, <2>1, FS_RemoveElement
  <2> QED BY <2>1, <2>2, <2>3
<1>4. MaxCost * (n - 1) = MaxCost * n - MaxCost /\ MaxCost * n \in Nat
  BY <1>3, Products
<1>5. MaxCost * n <= MaxCost * Cardinality(Req) /\ MaxCost * Cardinality(Req) \in Nat
  BY <1>3, OpenFinite, Products
<1>6. before + MaxCost * n <= Limit + MaxCost * Cardinality(Req)
  <2>1. CASE Exhausted(before)
    BY <2>1 DEF Overshoot
  <2>2. CASE ~Exhausted(before)
    <3>1. before < Limit
      BY <1>1, <2>2 DEF Exhausted, NaN
    <3> DEFINE a == MaxCost * n
               c == MaxCost * Cardinality(Req)
    <3>2. a \in Nat /\ c \in Nat /\ a <= c
      BY <1>4, <1>5
    <3> HIDE DEF a, c
    <3>3. before + a <= Limit + c
      BY <1>1, <3>1, <3>2
    <3> QED BY <3>3 DEF a, c
  <2> QED BY <2>1, <2>2
<1> DEFINE a == MaxCost * n
           c == MaxCost * Cardinality(Req)
<1>7. a \in Nat /\ c \in Nat /\ before + a <= Limit + c
  BY <1>4, <1>5, <1>6
<1>8. MaxCost * Cardinality(Open(u, m)') = a - MaxCost
  BY <1>3, <1>4
<1> HIDE DEF a, c, before
<1>9. before + price + (a - MaxCost) <= Limit + c
  BY <1>1, <1>7
<1> QED BY <1>1, <1>8, <1>9 DEF c, before

LEMMA OvershootStep ==
  ASSUME TypeOK, BudgetOvershootBounded, [SC!Next]_Ledgers
  PROVE  BudgetOvershootBounded'
<1> SUFFICES ASSUME NEW u \in User, NEW m \in Months PROVE Overshoot(u, m)'
  BY DEF BudgetOvershootBounded
<1>1. Overshoot(u, m)
  BY DEF BudgetOvershootBounded
<1>2. \A s \in Req : s \in Open(u, m) <=> OpenCalls[s] = <<u, m>>
  BY DEF Open
<1>3. \A s \in Req : s \in Open(u, m)' <=> OpenCalls'[s] = <<u, m>>
  BY DEF Open
<1>4. Open(u, m) \subseteq Req /\ Open(u, m)' \subseteq Req
  BY DEF Open
<1>5. \A r \in Req : \A v : OpenCalls' = [OpenCalls EXCEPT ![r] = v] =>
        \A s \in Req : OpenCalls'[s] = IF s = r THEN v ELSE OpenCalls[s]
  BY DEF OpenCalls
<1>6. CASE UNCHANGED Ledgers
  BY <1>1, <1>2, <1>3, <1>4, <1>6, OvershootSubset DEF Ledgers
<1>7. ASSUME NEW r \in Req, SC!Abandon(r) PROVE Overshoot(u, m)'
  <2>1. Open(u, m)' \subseteq Open(u, m)
    BY <1>2, <1>3, <1>4, <1>5, <1>7 DEF SC!Abandon
  <2> QED BY <1>1, <1>7, <2>1, OvershootSubset DEF SC!Abandon
<1>8. ASSUME NEW r \in Req, NEW v \in User, NEW k \in Months, SC!Admit(r, v, k)
      PROVE  Overshoot(u, m)'
  <2>1. CASE <<v, k>> = <<u, m>>
    <3>1. ~Exhausted(memBudget[u][m])
      <4>1. memBudget[u][m] = NaN \/ memBudget[u][m] < Limit
        BY <1>8, <2>1 DEF SC!Admit, SC!NaN, NaN
      <4>2. memBudget[u][m] \in Nat \cup {NaN}
        BY DEF TypeOK
      <4> QED BY <4>1, <4>2 DEF Exhausted, NaN
    <3> QED BY <1>1, <1>8, <3>1, OvershootSubset DEF SC!Admit
  <2>2. CASE <<v, k>> # <<u, m>>
    <3>1. Open(u, m)' \subseteq Open(u, m)
      BY <1>2, <1>3, <1>4, <1>5, <1>8, <2>2 DEF SC!Admit
    <3> QED BY <1>1, <1>8, <3>1, OvershootSubset DEF SC!Admit
  <2> QED BY <2>1, <2>2
<1>9. ASSUME NEW r \in Req, NEW v \in User, NEW k \in Months,
             NEW c \in 0 .. MaxCost \cup {NaN}, SC!Settle(r, v, k, c)
      PROVE  Overshoot(u, m)'
  <2>1. /\ OpenCalls[r] = <<v, k>> /\ OpenCalls' = [OpenCalls EXCEPT ![r] = <<>>]
        /\ memBudget' = [memBudget EXCEPT ![v][k] = SC!Add(memBudget[v][k], c)]
    BY <1>9 DEF SC!Settle
  <2>2. CASE v = u /\ k = m
    <3>0. <<>> # <<u, m>>
      OBVIOUS
    <3>1. Open(u, m)' = Open(u, m) \ {r}
      <4>1. \A s \in Req : OpenCalls'[s] = IF s = r THEN <<>> ELSE OpenCalls[s]
        BY <1>5, <2>1
      <4>2. \A s \in Req : s \in Open(u, m)' <=> s \in Open(u, m) /\ s # r
        BY <1>2, <1>3, <3>0, <4>1
      <4> QED BY <1>4, <4>2
    <3>2. memBudget'[u][m] = Plus(memBudget[u][m], c)
      BY <2>1, <2>2 DEF TypeOK, Plus, SC!Add, SC!NaN, NaN
    <3> QED BY <1>1, <2>1, <2>2, <3>1, <3>2, OvershootSettle
  <2>3. CASE ~(v = u /\ k = m)
    <3>1. memBudget'[u][m] = memBudget[u][m]
      BY <2>1, <2>3 DEF TypeOK
    <3>2. Open(u, m)' \subseteq Open(u, m)
      BY <1>2, <1>3, <1>4, <1>5, <2>1
    <3> QED BY <1>1, <3>1, <3>2, OvershootSubset
  <2> QED BY <2>2, <2>3
<1> QED BY <1>6, <1>7, <1>8, <1>9 DEF SC!Next, SC!NaN, NaN, Ledgers

(* However requests interleave, a ledger passes the limit by at most one   *)
(* call per request slot.                                                  *)
THEOREM OvershootBound == Spec => []BudgetOvershootBounded
<1>1. Init => BudgetOvershootBounded
  <2> SUFFICES ASSUME Init, NEW u \in User, NEW m \in Months PROVE Overshoot(u, m)
    BY DEF BudgetOvershootBounded
  <2>1. memBudget[u][m] = 0 /\ Open(u, m) = {}
    BY DEF Init, Open, OpenCalls, CallOf, Free, Fresh
  <2>2. Cardinality({}) = 0
    BY FS_EmptySet
  <2>3. MaxCost * Cardinality(Req) \in Nat /\ MaxCost * 0 = 0
    BY OpenFinite, Products
  <2> QED BY <2>1, <2>2, <2>3 DEF Overshoot
<1>2. TypeOK /\ BudgetOvershootBounded /\ [Next]_vars => BudgetOvershootBounded'
  BY LedgerStep, OvershootStep
<1> QED BY <1>1, <1>2, TypeCorrect, PTL DEF Spec

-----------------------------------------------------------------------------
(* The ledger against what the price table makes of the answered calls.    *)
(* priced is capped, so the argument needs that neither it nor a ledger    *)
(* passes the cap.                                                         *)

PricedWithinCap == \A u \in User, m \in Months : priced[u][m] <= PricedCap

(* A step prices one cell at most, and records no more than it prices.     *)
LEMMA PriceStep ==
  ASSUME TypeOK, PricedWithinCap, NEW q \in Request, NEW price \in 0 .. MaxCost, Price(q, price),
         NEW u \in User, NEW m \in Months
  PROVE  /\ priced[u][m] <= priced'[u][m] /\ priced'[u][m] <= PricedCap
         /\ q.user = u /\ q.month = m =>
              priced'[u][m] = PricedCap \/ priced'[u][m] = priced[u][m] + price
<1>1. /\ priced[u][m] \in Nat /\ priced[u][m] <= PricedCap /\ PricedCap \in Nat
      /\ q.user \in User /\ q.month \in Months
  BY CapType DEF TypeOK, PricedWithinCap, Request
<1>2. priced'[u][m] = IF q.user = u /\ q.month = m
                        THEN Capped(priced[u][m] + price) ELSE priced[u][m]
  BY <1>1 DEF Price, TypeOK
<1> QED BY <1>1, <1>2 DEF Capped

(* Every other step leaves both alone. *)
LEMMA UnpricedStep ==
  ASSUME TypeOK, NEW r \in Req, Quiet(r),
         \/ \E u \in User, p \in Payload : Arrive(r, u, p)
         \/ CacheGet(r) \/ BudgetRead(r) \/ BudgetInit(r) \/ BudgetCheck(r)
  PROVE  memBudget' = memBudget /\ priced' = priced
<1>1. \A q : Handle(r, q) => memBudget' = memBudget /\ priced' = priced
  BY DEF Handle, Await, stores
<1>2. \A q : EnterBudget(r, q) => memBudget' = memBudget /\ priced' = priced
  BY <1>1 DEF EnterBudget, MemoryBudget, Refuse, Await, stores
<1>3. \A q : FallbackMissAndStore(r, q) => memBudget' = memBudget /\ priced' = priced
  BY <1>2 DEF FallbackMissAndStore, Hit, stores
<1>4. FailOpen(r) => memBudget' = memBudget /\ priced' = priced
  BY <1>1 DEF FailOpen
<1>5. ASSUME NEW u \in User, NEW p \in Payload, Arrive(r, u, p)
      PROVE  memBudget' = memBudget /\ priced' = priced
  BY <1>2, <1>3, <1>5 DEF Arrive, Await, stores
<1>6. CASE CacheGet(r)
  BY <1>2, <1>3, <1>6 DEF CacheGet, Hit, stores
<1>7. CASE BudgetRead(r) \/ BudgetInit(r)
  BY <1>4, <1>7 DEF BudgetRead, BudgetInit, Await, stores
<1>8. CASE BudgetCheck(r)
  BY <1>1, <1>4, <1>8 DEF BudgetCheck, Refuse
<1> QED BY <1>5, <1>6, <1>7, <1>8

LEMMA RecordedStep ==
  ASSUME TypeOK, BudgetOvershootBounded', TypeOK', PricedWithinCap, RecordedWithinPriced,
         [Next]_vars
  PROVE  PricedWithinCap' /\ RecordedWithinPriced'
<1> SUFFICES ASSUME NEW u \in User, NEW m \in Months
             PROVE  priced'[u][m] <= PricedCap /\ memBudget'[u][m] <= priced'[u][m]
  BY DEF PricedWithinCap, RecordedWithinPriced, PricedCap
<1>1. /\ priced[u][m] \in Nat /\ priced[u][m] <= PricedCap /\ PricedCap \in Nat
      /\ memBudget[u][m] \in Nat \cup {NaN} /\ memBudget[u][m] <= priced[u][m]
      /\ memBudget'[u][m] \in Nat \cup {NaN} /\ priced'[u][m] \in Nat
  BY CapType DEF TypeOK, PricedWithinCap, RecordedWithinPriced
<1>2. memBudget'[u][m] <= PricedCap
  <2>1. CASE Exhausted(memBudget'[u][m])
    <3> DEFINE a == MaxCost * Cardinality(Open(u, m)')
               c == MaxCost * Cardinality(Req)
    <3>1. memBudget'[u][m] + a <= Limit + c
      BY <2>1 DEF BudgetOvershootBounded, Overshoot
    <3>2. a \in Nat /\ c \in Nat
      BY OpenFinite, OpenFinitePrimed, Products
    <3>3. PricedCap = Limit + c
      BY DEF PricedCap
    <3> HIDE DEF a, c
    <3> QED BY <1>1, <3>1, <3>2, <3>3 DEF NaN
  <2>2. CASE ~Exhausted(memBudget'[u][m])
    <3> DEFINE c == MaxCost * Cardinality(Req)
    <3>1. memBudget'[u][m] = NaN \/ memBudget'[u][m] < Limit
      BY <1>1, <2>2 DEF Exhausted, NaN
    <3>2. c \in Nat /\ PricedCap = Limit + c
      BY OpenFinite, Products DEF PricedCap
    <3> HIDE DEF c
    <3> QED BY <1>1, <3>1, <3>2 DEF NaN
  <2> QED BY <2>1, <2>2
<1>3. CASE memBudget' = memBudget /\ priced' = priced
  BY <1>1, <1>3
<1>4. ASSUME NEW r \in Req, NEW price \in 0 .. MaxCost, Price(req[r], price),
             \/ memBudget' = memBudget
             \/ memBudget' = [memBudget EXCEPT ![req[r].user][req[r].month] =
                                 Plus(@, EstimateCost(req[r].payload, price))]
      PROVE  priced'[u][m] <= PricedCap /\ memBudget'[u][m] <= priced'[u][m]
  <2> DEFINE q == req[r]
             c == EstimateCost(q.payload, price)
  <2>1. q \in Request /\ q.user \in User /\ q.month \in Months
    BY DEF TypeOK, Request
  <2>2. /\ priced[u][m] <= priced'[u][m] /\ priced'[u][m] <= PricedCap
        /\ q.user = u /\ q.month = m =>
             priced'[u][m] = PricedCap \/ priced'[u][m] = priced[u][m] + price
    BY <1>4, <2>1, PriceStep
  <2>3. CASE memBudget'[u][m] = memBudget[u][m]
    BY <1>1, <2>2, <2>3 DEF NaN
  <2>4. CASE q.user = u /\ q.month = m /\ memBudget'[u][m] = Plus(memBudget[u][m], c)
    <3>1. c = price \/ c = NaN
      BY DEF EstimateCost
    <3>2. memBudget'[u][m] = NaN \/ memBudget'[u][m] = memBudget[u][m] + price
      BY <2>4, <3>1 DEF Plus
    <3> QED BY <1>1, <1>2, <2>2, <2>4, <3>2 DEF NaN
  <2>5. \/ memBudget'[u][m] = memBudget[u][m]
        \/ q.user = u /\ q.month = m /\ memBudget'[u][m] = Plus(memBudget[u][m], c)
    <3>1. memBudget \in [User -> [Months -> Nat \cup {NaN}]]
      BY DEF TypeOK
    <3>2. CASE memBudget' = [memBudget EXCEPT ![q.user][q.month] = Plus(@, c)]
      <4>1. memBudget'[u][m] = IF q.user = u /\ q.month = m
                                 THEN Plus(memBudget[u][m], c) ELSE memBudget[u][m]
        <5> DEFINE sum == Plus(memBudget[q.user][q.month], c)
        <5>1. memBudget' = [memBudget EXCEPT ![q.user][q.month] = sum]
          BY <3>2
        <5> HIDE DEF sum, c, q
        <5>2. memBudget'[u][m] = IF q.user = u /\ q.month = m
                                   THEN sum ELSE memBudget[u][m]
          BY <2>1, <3>1, <5>1
        <5> QED BY <5>2 DEF sum
      <4> QED BY <4>1
    <3> QED BY <1>4, <3>2
  <2> QED BY <2>3, <2>4, <2>5
<1>5. CASE UNCHANGED vars
  BY <1>3, <1>5 DEF vars
<1>6. CASE Environment
  BY <1>3, <1>6 DEF Environment, NextMonth, Connect, Disconnect, ExpireMemory, ExpireRedis,
                    EvictBudget, stores
<1>7. ASSUME NEW r \in Req, NEW v \in User, NEW p \in Payload, Arrive(r, v, p)
      PROVE  memBudget' = memBudget /\ priced' = priced
  BY <1>7, UnpricedStep DEF Arrive, Quiet
<1>8. ASSUME NEW r \in Req, CacheGet(r) \/ BudgetRead(r) \/ BudgetInit(r) \/ BudgetCheck(r)
      PROVE  memBudget' = memBudget /\ priced' = priced
  BY <1>8, UnpricedStep DEF CacheGet, BudgetRead, BudgetInit, BudgetCheck, Quiet
<1>9. ASSUME NEW r \in Req, NEW price \in 0 .. MaxCost,
             Answer(r, price) \/ StreamAnswer(r, price)
      PROVE  priced'[u][m] <= PricedCap /\ memBudget'[u][m] <= priced'[u][m]
  BY <1>4, <1>9 DEF Answer, StreamAnswer, Charge, stores
<1>10. ASSUME NEW r \in Req, ProviderError(r)
       PROVE  memBudget' = memBudget /\ priced' = priced
  BY <1>10 DEF ProviderError, Refuse, stores
<1> QED BY <1>3, <1>5, <1>6, <1>7, <1>8, <1>9, <1>10 DEF Next, Step, Provider

(* The ledger of a user and month never holds more than the price table    *)
(* makes of that user's calls that were admitted in that month and         *)
(* answered (RecordedWithinPriced).                                        *)
THEOREM RecordedBound == Spec => []RecordedWithinPriced
<1>1. Init => PricedWithinCap /\ RecordedWithinPriced
  <2> SUFFICES ASSUME Init, NEW u \in User, NEW m \in Months
               PROVE  priced[u][m] <= PricedCap /\ memBudget[u][m] <= priced[u][m]
    BY DEF PricedWithinCap, RecordedWithinPriced
  <2>1. priced[u][m] = 0 /\ memBudget[u][m] = 0
    BY DEF Init
  <2> QED BY <2>1, CapType
<1>2. /\ TypeOK /\ TypeOK' /\ BudgetOvershootBounded' /\ PricedWithinCap
      /\ RecordedWithinPriced /\ [Next]_vars
      => PricedWithinCap' /\ RecordedWithinPriced'
  BY RecordedStep
<1> QED BY <1>1, <1>2, TypeCorrect, OvershootBound, PTL DEF Spec
=============================================================================
