# A verification of KnowledgeOps

KnowledgeOps is a retrieval-augmented question answering platform: a web
console, an API gateway and six services. Almost all of its state lives in the
memory of single-threaded event loops (asyncio in the Python services, Node in
the LLM gateway). What is hard to test in it is therefore what happens between
two awaits: requests that overtake each other, background tasks that outlive the
request that started them, a Redis that goes away with commands in flight, a
process that restarts while another one keeps its copy of the data.

This directory holds TLA+ modules of the services, TLC configurations that check
them on small instances, and TLAPS proofs of their main invariants for every
value of the constants. `PROJECT.json` maps every definition to the lines it
models and lists the hazards the properties are for.

    tlc -workers 2 -config gateway_memory.cfg MCLlmGateway.tla
    tlapm IngestionProofs.tla

## The system

| Component | State | Operations | Talks to |
|---|---|---|---|
| `llm-gateway` | response cache and budget ledger (memory and Redis), availability flag, wrappers of `res.json` per request | chat (plain, streamed), embeddings, models, health | Redis, the provider |
| `ingestion-service` | `_documents_store`, `_chunks_store`, `_jobs_store`, `_document_versions`, `_redis_pool`, background tasks | upload, list, get, delete, job status | arq queue, llm-gateway |
| arq worker (`arq_worker.py`) | the same dictionaries, in its own process | process_document | Redis, llm-gateway |
| `retrieval-service` | `InMemoryIndex` (chunks, documents), `db_available` | import, search, query, citations | llm-gateway, trace-service |
| `trace-service` | `_traces_store`, bounded and FIFO | ingest, list, costs, alerts, replay | retrieval-service (replay) |
| `eval-service` | `_eval_runs` | run, list, get, report | retrieval-service, llm-gateway, trace-service |
| `auth-service` | users and API keys in SQL | token exchange, verify, create, list and revoke keys | its database |
| `api-gateway` | none | authenticate and forward, aggregate health | all services |
| `web-app` | demo mode, document list, chat | fetch with a demo fallback | api-gateway |
| shared readiness probe | `db_available` of each service | probe with backoff | PostgreSQL |

What is hard in each, and what correct means there:

* **llm-gateway.** The limit is read when a request is admitted and the spend is
  written when its answer is sent; a month may end in between; Redis may appear,
  expire a key, or go away between any two commands. Spend must be recorded once,
  for the right user and month; the limit may be overshot only by the requests in
  flight; every request must be answered; one user's refusal must not become
  another's.
* **ingestion-service.** An upload is a chain of awaits (connect to Redis,
  enqueue, or start a task), the task another one (one per chunk), and deletion,
  restart and redelivery may fall anywhere in them. Versions must be distinct,
  jobs and documents must agree, a document must not be listed twice or come back.
* **retrieval-service.** A query reads the index several times with awaits in
  between while imports change it; `hybrid.py` and `main.py` hold a copy of
  `db_available` that never changes, `index.py` reads it live. Answers should cite
  what they were made from, and a stored document should be found by every route.
* **trace-service.** The cap may evict traces of the batch being ingested; a
  replay calls the retrieval service, which ingests a new trace here while the
  replay runs. Totals, alerts and traces should agree with what is held.
* **eval-service.** A run calls two services per case and is recorded only at
  its end. A recorded run should be complete and its report available.
* **auth-service, api-gateway.** Find-or-create of a user by two requests at
  once; tokens that outlive keys and roles; forwarding timeouts shorter than the
  work behind them; an upload that is answered before its document is stored, if it
  ever is.
* **web-app.** Responses arrive in any order, and each sets or clears demo mode.

A fact about all Python services shapes the models: `from app.db.session import
db_available` copies the value at import time, before the startup probe has run,
so the SQL branches behind the copy are unreachable and the in-memory branch
always runs. The models take that branch; `DbFlag` states the fact as
`SqlUnreachable`, and `DbFlagProofs` proves it. The docs say otherwise, and the run
`db_flag_persistence` shows it.

## Plan

| Order | Module | Models | State of it |
|---|---|---|---|
| 1 | `LlmGateway`, `SpendControl`, `LlmGatewayProofs` | cache, budget and handlers; the spend control they promise | done |
| 2 | `Ingestion`, `Catalog`, `IngestionProofs` | uploads, tasks, queue, worker; the list of documents they promise | done |
| 3 | `DbFlag`, `DbFlagProofs` | the database flag, its copies, startup and readiness probes; a part of the service models | done |
| 3 | `TraceStore`, `TraceWindow`, `TraceStoreProofs` | bounded store, batches, replay; composes `DbFlag`; the window over the creations it promises | done |
| 4 | `Ranking`, `Retrieval`, `RetrievalProofs` | ranking as operators; queries against imports and the live flag; composes `DbFlag` | done |
| 5 | `EvalRun`, `RunLog`, `EvalRunProofs` | run_evaluation over `Retrieval`, failures of its calls; the log of complete runs it promises | done |
| 6 | `Auth`, `Gateway`, `Console`, `ConsoleProofs` | keys and users; authentication and forwarding, over the documents of `Catalog`; the web console. Each extends the one before | done |
| 7 | `Chunking`, `ChunkingProofs` | chunk_text, window by window | done |

## LlmGateway

`req[r]` is what the closures of one request hold: where it is in the pipeline
(`pc`), whose setter wraps `res.json` for the cache (`store`) and where its usage
will be charged (`ledger`, with the month of its budget key). One action is what
runs between two awaits:

* `Arrive` runs `cacheMiddleware` until its first await; for a GET, a memory hit
  or a request without Redis that is the whole middleware stack up to the provider
  call.
* `CacheGet`, `BudgetRead`, `BudgetInit`, `BudgetCheck` are the continuations of
  the four Redis commands; each may find the connection gone.
* `Answer`, `StreamAnswer`, `ProviderError` are the ends of the provider call.
  `Answer` runs both wrappers: `StoreBody` and `Charge`.
* `Connect`, `Disconnect`, the expiries and `NextMonth` are the environment.

`priced` is a history variable: what the price table makes of the calls that were
answered, in the month they were admitted in. It is capped at `PricedCap`, the most
the ledger can reach, so that the state space is finite. `estimateCost` looks a
price up in a static table, with a default for models it does not know, under the
model the answer or the request names; the models take any price, and no property
relates it to what the provider charges. The two drift apart, as
docs/failure-modes.md:75-79 says ("Pricing drift").

Costs are small integers; `NaN` is JavaScript's, and what follows from it (a sum
with it is NaN, a comparison with it false) is in `Plus` and `Exhausted`. In Redis
a budget key is only "absent", a JSON document, or a raw number, because the code
never reads the amount in any other way. A command may be rejected with the
connection up (Redis is read-only, out of memory, or refuses writes after a failed
snapshot), so `FailOpen`, the catch of `handleRedisBudget`, has no guard.

| Run | Instance | Shows |
|---|---|---|
| `gateway_memory` | 2 requests, 1 user, every kind of payload, 2 months, no Redis | `TypeOK`, `BudgetOvershootBounded`, `RecordedWithinPriced`, `ImplementsSpendControl` |
| `gateway_redis` | 2 requests, chat and GET; Redis connects, rejects commands and is lost | `Answered`, `ImplementsSpendControl` (the memory ledger is used before Redis is connected and after it is lost) |
| `gateway_redis_unenforced` | 1 request, Redis up | violation of `RedisEnforcesSpend`: no spend is recorded where it is checked |
| `gateway_shared_refusal` | 2 users, no Redis | violation of `RefusedForOwnSpend`: a 429 body is cached and served to another user |

Two requests are enough for an admission on a value another request is about to
change, with a limit and a price of 1 so that one call exhausts the budget; two
months are enough for an answer that arrives after the month ended.

`FairSpec` assumes weak fairness of each request's own step: a Redis command
settles (a lost connection rejects it, `retryStrategy` returns null) and the
OpenAI client has a timeout. Nothing is assumed of clients, time or Redis itself.

What the actions show and no property covers: a rejected command lets the call be
made on no ledger at all, not even the one in memory (budget.ts:83-85), which is
not the "in-memory fallback" of README.md:85-86; and a streamed completion is
written past `res.json`, so that it is never charged (handler.ts:36-53). That is
why the ledger of `SpendControl` promises only that nothing is charged that should
not be, and lets a call be abandoned.

## Ingestion

Two processes (`api`, `worker`) run the same `_process_document_background`
against dictionaries of their own: `jobs[p]`, `docs[p]`, `task[p]`. `handler[u]`
is the progress of the upload request of `u`: `Accept` runs it to its first
suspending await, `PoolSettles` is the end of `create_pool` (every handler that
saw no pool connects; the last to settle decides), `Enqueue` the end of
`enqueue_job`, whose failure is reported although Redis may have the job.
`Begin` and `Embedded` are the turns of the task; `Publish` and `Fail` its ends.
`Delete` is the DELETE route, `Forget` what a restart loses, `Settle` arq's
at-least-once delivery. `Cancel` is arq's default `job_timeout`, as the worker sets
none: the `CancelledError` passes the `except Exception` of the task
(ingest_worker.py:159), so the task is over and the worker's job stays
"processing". `TasksSettle` is what holds then: an upload is answered, a task of
the API completes its job or fails it, and a task of the worker ends.
How arq connects is outside the repository: `PoolSettles` lets every attempt
succeed or fail, so a deployment in which `create_pool` never succeeds is among the
behaviours.

| Run | Instance | Shows |
|---|---|---|
| `ingestion` | 2 uploads of one file, up to 2 chunks, 2 restarts, unreliable Redis | `TypeOK`, `VersionsDistinct`, `JobsMatchDocuments`, `NeverInBothProcesses`, `JobsOnlyAdvance`, `TasksSettle`, `ImplementsCatalog` |
| `ingestion_delete` | 1 upload, no Redis | violation of `DeletedStaysDeleted`: a delete during processing is undone by the task |

The two processes share nothing but the queue. An upload that Redis took, also one
whose `enqueue_job` raised all the same, is not processed or listed by the API
(`NeverInBothProcesses`), and a job that the worker completes stays "parsing" there
(ingest_worker.py:244): `GET /ingest/jobs/{id}` (docs/SERVICES.md:93) reads a
dictionary that no action of the worker changes.

Two uploads of one file are needed for a version clash, two chunks for a turn of
the task that is neither its first nor its last, and two restarts let both
processes restart, or one twice. `TasksSettle` assumes weak fairness of the event
loop (connections and embedding requests have timeouts) and of the worker's
polling, but not of Redis, clients or restarts.

## DbFlag and TraceStore

`DbFlag` models `app/db/session.py` and `shared/readiness.py`. A caller of
`check_db` (a readiness request, or the startup hook) connects, runs `SELECT 1`
and commits, and the database may go away between any two of these; `live` is the
module's flag, `copied` the name that other modules imported. `seen[c]` remembers
how the database was while the call of `c` ran: a commit fails if the connection
was lost during the call, and `ReportedWhileProbing` compares the answer with it.

`TraceStore` extends it with the dictionary of traces: `order` is the key order of
the `OrderedDict`, `spans[t]` the list of `t`, each span named by its position in
`log`, the history of everything ingested. `Receive` accepts a batch and
`IngestNext` is one iteration of the loop, with the eviction it may cause; nothing
but a crash comes between the iterations, since the loop has no await. `StartReplay`
copies the trace and runs to its first call, `CallSettles` is the end of a call
(answer, error or timeout), `RetrievalReports` the span the retrieval service sends
for the query it was asked, possibly after the replay gave up. The start times by
which a replay sorts are the clients' and arbitrary, so the order of its calls is
too. `births` and `gone` are history: the creations since the process began, and
the spans that were held and no longer are.

| Run | Instance | Shows |
|---|---|---|
| `retrieval` (below) | 2 readiness requests of 3 attempts, startup, restarts, a database that comes and goes, around a request to the retrieval service | `DbTypeOK`, `ReportedWhileProbing`, `SqlUnreachable`, `ProbesAnswer` |
| `db_flag_persistence` | the same flag alone | violation of `PersistsWhenAvailable`: the probe succeeds, and the copy that the collectors ask is still FALSE |
| `trace_store` | cap 2, 3 trace ids, 5 spans in batches of up to 2, 1 replay, crashes | `TypeOK`, `HeldWithoutGap`, `Partition`, `CostsAccounted`, `ReplayIsSnapshot`, `ReplayEnds`, `ImplementsTraceWindow` |

Three ids against a cap of two force evictions, and five spans are the fewest with
which a trace gets a span while it is being replayed, is evicted and is created
again, the case `ReplayIsSnapshot` is about. In the runs of the trace service the
database does not change after the start (`Unsteady` is FALSE): only the startup
probe could make a difference, and `retrieval` checks the rest.

Two things the code says and does not do are visible in the actions. A replayed
operation that is neither a query nor a retrieval is reported as replayed and no
call is made for it (replay_engine.py:84). And "Writes to PostgreSQL when available"
(trace_collector.py:86), with the docstrings and docs that agree with it
(trace_store.py:54, docs/SERVICES.md:194, docs/failure-modes.md:12-13), never
happens: the flag that is tested is a copy that `SqlUnreachable` shows to be FALSE
for ever.

`ProbesAnswer` and `ReplayEnds` assume weak fairness of the event loop and of
calls that have timeouts (the connection, the 2 s of a replayed query); nothing of
the database, of clients or of the retrieval service.

## Ranking and Retrieval

`Ranking` has the functions of one turn: the two searches, the fusion by
reciprocal ranks, the reranker and the refusal test. A question and a content are
model values; `Match` gives the five numbers the code computes from their texts.
Scores are in 1/10000 and fused scores are fractions, compared exactly. Fusion
orders by the fused score and then drops it, so that what the reranker reads is
the score of the keyword search, or else of the vector search. `Sorted` is
`list.sort(reverse=True)`, a member's place being the number of members before it;
`Kept` is the same without scores, a list without some of its members.
`WordsAssumption` relates the numbers of `Match` that the code computes from the
same words: the terms of the reranker are parts of the words between blanks, so a
content with all of these has all of those, and its density counts the words that
its overlap counts. `SettingsAssumption` asks only for a positive
`rerank_top_k` and an integer threshold.

`Retrieval` extends `DbFlag`. `query[q]` is a request to `/retrieve/search` or
`/retrieve/query` with its awaits: the embedding, the answer of the LLM, one or
two SELECTs while the live flag is set, the trace. `Embedded` is everything from
the embedding on, on the index of that moment; `Generated` decides by the live
flag where the citations are looked up, and `NoRows` reads the flag again, as
index.py does. `ImportData` replaces entries in place and appends new ones, as a
dict does. Nothing writes the tables, so a SELECT finds nothing, or fails.
The title of a citation is the document's in memory, or else `MetaTitle`, that of
the chunk's metadata or "Document".
`window[q]` is history: the versions of chunks the index held since the search.

| Run | Instance | Shows |
|---|---|---|
| `retrieval` | 1 request, 3 batches (one replaces a chunk), 2 questions, 2 readiness probes, a database that comes and goes, restarts | those of `DbFlag`, `RetrievalTypeOK`, `CitesWhatItUsed`, `AnswersShareWords`, `FullMatchAnswered`, `QueriesEnd` |

Requests only read the index, so one request against any sequence of imports shows
what several would. The questions are one that the words of a chunk
match and its embedding does not, and one that is similar to a chunk in meaning
only: the cases in which the two searches disagree. The numbers are bounds of the
check, and `FullMatchAnswered` holds for others as long as the threshold is at most
what a full match scores (55 + 30 of 100; the default is 70).

What the code does and nothing promises: a question that is matched by meaning
alone is always refused, since 55 percent of a similarity and no overlap stay below
the threshold (`AnswersShareWords` is the positive side of it). What a docstring
promises and the code does not do: "The in-memory index is always updated so that a
DB outage never breaks retrieval" (hybrid.py:94-96). index.py follows the live flag,
which only a probe resets, so when the database goes away after a probe that
succeeded, the lookup behind the citations (answer.py:103) raises, nothing catches
it, and `RowsFail` turns an answer that was paid for into a 500.

## EvalRun

`EvalRun` extends `Retrieval`: the query of case `i` of run `e` is the request
`<<e, i>>` there. `StartRun` reads the suite (or the sample case if it cannot be
read), `Arrives` is the moment the query reaches the retrieval service, which may
come after `CallFails`, the end of the wait of 30 s. `CallReturns` and `CallFails`
continue the loop with an answer or with `{}`; `Judged` and `JudgeRaises` are the
ends of the embeddings for the semantic score, whose failed connection is not
caught. The run is recorded by the last `CaseEnds`, before its trace is sent.

| Run | Instance | Shows |
|---|---|---|
| `evaluation` | 1 run of 2 cases, of the sample case, or of none; imports; restarts of both services | `EvalTypeOK`, `PointsAreEarned`, `ImplementsRunLog`, `RunsEnd` |

Two cases are enough for an answer that comes when the run is at the next one, and
for a failure that leaves a partial run. The database flag does not change in this
run (`Unsteady` is FALSE, no probes): `retrieval` checks those behaviours.

## Auth, Gateway and Console

Three modules, each extending the one before, from the database up to the page.

* `Auth`: a request that creates a key is a transaction of up to four statements,
  `Selects`, `Inserts`, `Commits`, `Refreshes`. The unique index on the e-mail
  makes an insert wait while another one is pending, and fail once it is committed.
  A statement may also lose the database. Tokens are checked by signature and
  expiry only.
* `Gateway`: `req[c]` is a request in the gateway. `Receive` is the dependency up
  to the call of the auth service, with the development token; `Verified` and
  `Unverified` the ends of that call; `Reach` the arrival at the service, which
  checks the token once more; `PassOn` and `GiveUp` the ends of the wait for it.
  There is one route of each kind: a list, an upload, a query, and a key, the one
  that needs a role.
  The ingestion service behind it is `Catalog`, the abstract specification that
  `Ingestion` is shown to implement: `Serve` answers an upload and thereby accepts
  it, `Process` is the background task that stores its document or fails, and a
  DELETE, and `IngestionRestarts` loses the list and what was on its way to it.
* `Console`: `Send` is `fetch`, `Responds` the branch on the status with the
  fallback to demo data, `Reads` the body, `Loses` a failed connection, after
  which the gateway may go on. `sentAs[c]` is history: the role of the token
  that was sent, "none" if it was not valid.

| Run | Instance | Shows |
|---|---|---|
| `console` | pages that list and upload, query and create a key, or create two keys; tokens of an administrator and a viewer, the demo token, none | `ConsoleTypeOK`, `EffectsAuthorized`, `KeysOwned`, `ShownWasAccepted`, `CallsEnd` |

Each page is a pair of calls that share state: the list and the uploaded document,
two inserts of one user. One e-mail is enough, since it is what the two
keys have to share; the console sends none, and the API takes the default.

What the module shows that nothing in the code contradicts: the banner is hidden by
a late success while demo documents are on the page (api.ts:78), and a list that
arrives late replaces the document just uploaded (DocumentManager.tsx:17), which
is why `ShownWasAccepted` speaks of what is shown and not of what is missing. Nor is
a document that is shown in the list for sure: its upload was answered with
"processing" (ingest_worker.py:250-269), and its task may still fail, be lost, or run
in the worker.

What the docs say and the code does not do: the role `viewer` is "Read-only"
(docs/SERVICES.md:47, docs/SECURITY.md:115), with "RBAC enforced at gateway **and**
service" (docs/SECURITY.md:79). Only the routes under /admin look at the role
(proxy.py:170, 199, 210); an upload (proxy.py:59), a query or the start of an
evaluation needs a valid token of any role, and the services behind them ask for
none. `EffectsAuthorized` states what is left: without a valid token nothing
happens, and only an administrator creates a key. The instance has a viewer, whose
uploads are accepted.
`POST /auth/token` is left out, because it can only fail: it converts the id of
the user to a UUID once more (routes/auth.py:91), after it has committed
`last_used_at`, which nothing reads.

## Chunking

One action per iteration of the loop of `chunk_text`: `Window(end)` with the cut
that `IsEnd` describes, the strip and the skip of a blank window; `Whole` is the
early return. Of a character only its class matters (a letter, a blank, a period,
a newline), and a chunk is the set of its positions.

| Run | Instance | Shows |
|---|---|---|
| `chunking` | every text of up to 7 characters, windows of 4 with an overlap of 3 | `NothingLost`, `ChunkingEnds` |

Seven characters give two windows that overlap and a third after a cut. The
overlap is the largest of `SmallOverlap`, half a window and one. Nothing is lost with
any other (`NothingIsLost`), but beyond it the loop need not end: with windows of 5
and an overlap of 4, a letter followed by three blanks, a newline and more text is cut
at the newline, the next window is blank up to the same newline, and the start after
it is the same again (chunking.py:83-85), in a service that chunks on its event loop.
The docstring has "configurable size and overlap" (chunking.py:35), the configuration
checks neither; its defaults, 512 and 64, are safe. The stored
`end_char` is not the end of the content when a window begins with blanks: the
module has only `start_char`, which the loop reads.

## Fairness

Weak fairness is assumed of steps whose end the code or the event loop ensures, and
of nothing else.

* `RetFairSpec`: the steps of a query. Its calls have timeouts (30 s for the
  embedding, 60 s for the answer, 5 s for the trace). For a SQL statement none is
  configured: it is assumed to return or to lose its connection. The probes go on
  (`DbFairness`).
* `EvalFairSpec`: the steps of a run, whose calls end within 30 s. Nothing is
  assumed of the arrival of its queries or of the retrieval service.
* `ConsoleFairSpec`: the gateway's steps (5 s for the auth service, 10, 30 and 60 s
  for the others) and the page's (a response arrives, or its loss is noticed).
  Nothing is assumed of the services, the database, or of the user.
* `Chunking!FairSpec`: the loop is synchronous code.

The fairness of the other modules is described with them.

## What is proved

`tlapm` checks the eight proof modules; no leaf is omitted and the assumptions are the
named ones in the component modules (bounds are naturals, the cap of the trace store
and the number of attempts positive, the sets of requests, users, uploads and
traces are as TLC instantiates them but of any size; of `Match`, that it is typed
and `WordsAssumption`; of import batches, that a batch has one chunk for an id).

* `LlmGatewayProofs`: `TypeCorrect`, `LedgerRefinement`, `OvershootBound`,
  `RecordedBound`. Each action is first reduced to its effect on
  the ledger and on the set of open calls (admit, settle, abandon or nothing),
  which is the step of the refinement and also the case split of the arithmetic.
  `BudgetOvershootBounded` is stated so that it is inductive with the type
  invariant: the spend of an exhausted ledger plus the price of every call still
  open on it is within the limit plus the price of one call per slot, so settling
  a call moves its price from one term to the other and admission needs a ledger
  that is not exhausted. `RecordedWithinPriced` needs in addition
  `PricedWithinCap` and that bound, because `priced` stops counting at `PricedCap`
  and the ledger must not pass it. It bounds the ledger by the table's own prices,
  not by the provider's bill.
* `IngestionProofs`: `TypeCorrect`, `JobsAgree`, `OneProcess`, `DistinctVersions`,
  `JobsAdvance`, `CatalogRefinement`. `JobsMatchDocuments` is not inductive: it does not say
  what a running task may still write. The invariant `Inv` adds two facts to the
  type: `Tasks` (a task that is embedding has a chunk left) and `Rows` (for each
  upload, which combinations of request, task, job and document can exist between
  two awaits: the API's task starts only once its upload was answered, the job of a
  running task is exactly the one its last turn wrote, a completed job has no task).
  Distinct versions need `Numbered`: every upload that is listed or may still be
  listed has a version that no other such upload of its file has and that the
  counter has passed; a restart resets the counter and ends all of them.
  `OneProcess` needs `Elsewhere`: the request of an upload that Redis took has ended, so
  no handler can still start a task for it.
* `DbFlagProofs`: `DbTypeCorrect`, `NeverCopied`, `AnswersWereTrue`. The second
  needs only that the live flag is still FALSE while the process imports its modules
  (`CopyInv`). The third needs `Witnessed`: a call in flight has seen the database
  as it is now, so what a commit or a failed connection reports was seen by it; the
  flag it writes is shared and plays no part.
  They are theorems of `DbFlag` alone; `Retrieval` and `TraceStore`, which extend it, take
  its steps or leave its variables as they are.
* `TraceStoreProofs`: `TypeCorrect`, `NoGaps`, `SpansPartitioned`,
  `ReplaysAreSnapshots`, `CostsAddUp`, `WindowRefinement`. The invariant adds `LastOf` to the
  properties: the keys are the last creations, in order, as many as the cap allows.
  With it the eviction of the oldest key is the step of the window, and the
  refinement follows. A span extends a held trace (`ExtendStore`) or creates one
  (`CreateStore`); `HeldWithoutGap` says which spans the evicted traces take with
  them, so that what is held and what is gone stay disjoint. That a trace held is a
  snapshot of itself (`HeldSnapshot`) starts a replay with one, and a longer log
  never spoils it (`LogGrowsReplays`). `CostsAccounted` follows from the partition
  once the sum of `/traces/costs` is known to add up over disjoint sets, whatever
  order it is taken in. That is an induction, which is carried out on the set of
  the sets that have the property (`NatInd`, `SubsetInduction`), from the
  library's theorem that a set of numbers has a least element: `SumExists`,
  `SumInsert`, `SumUnion`, and `FoldIsSum` for the fold of the model.

* `RetrievalProofs`: `RetrievalTypeCorrect`, `CitationsAreSound`,
  `SimilarityIsNotEnough`, `FullMatchesAreAnswered`. First the ranking, for lists of
  any length: `SortedIsStable` says that `Sorted` takes every position once, puts no
  member before one with a higher score and keeps the order of equals (its places
  are counts of what comes before; an injection into as many numbers takes them
  all). What follows is about the members at the top. A chunk with all words of the
  question has the highest score of the keyword search, so one with that score is
  the first keyword result, whatever `top_k` is (`FirstIsHighest`); fusion loses no
  result of either list and keeps the keyword's score; the reranker gives it at
  least 8500, so that the first result reaches a threshold up to 8500
  (`FullMatchesAreAnswered`). Similarity alone gives at most 5500
  (`SimilarityIsNotEnough`, for any threshold above that; the default is 7000, and
  both theorems state their hypothesis about it). The invariant `RetInv` is about
  the index (chunks that were imported, each id once) and each request: its results
  and citations are versions in its window, and from the search on the window
  contains every version the index has now, which is what a later lookup finds.

* `EvalRunProofs`: `EvalTypeCorrect`, `PointsComeFromTheirCase`,
  `RunLogRefinement`, over `RetInv`. `PointsAreEarned` is not inductive: it does
  not say where the answer under judgement came from, nor that its query keeps its
  outcome. `RunsOK` adds the first (`FromQuery`), and that the results are those of
  the first cases in order; `SettledStays`, that no step changes a query that was
  answered or refused, not even a restart of the retrieval service, is proved for
  all its steps. For the refinement, `EvalsOK` says that only runs past their last
  case are recorded, so that a run that starts is not in the log; each step is then
  a step of `RunLog` or shows in neither of its variables (`EvalStepLogs`).

* `ChunkingProofs`: `TypeCorrect`, `NothingIsLost`, `LoopAdvances`. `NothingLost`
  needs to know where the last chunk began relative to the next window: `InOrder`.
  Both hold for every window and every overlap. With `InOrder` and `SmallOverlap`,
  the hypothesis of `LoopAdvances`, the next start is beyond the last one, so that
  every iteration advances, the step from which `ChunkingEnds` follows for every
  text.

* `ConsoleProofs`: `TypeCorrect`, `NoUnauthorizedEffect`, `KeysHaveTheirOwner`,
  `ShownDocumentsWereAccepted`, for any number of calls, tokens and e-mails. The
  invariant has three parts beside the types. `Transactions`: the row that a
  transaction is about to commit is its own, or was committed by one that is past
  its commit; no two pending rows, and no pending and no committed one, share an
  e-mail. `Admission`: a call whose token was not valid when it was sent, or is not an
  administrator's and asks for a key, is still being verified and will not pass, or was
  answered with an
  error, and nothing was done for it. `Provenance`: an upload whose success the gateway
  or the page has seen was accepted, and so was everything that is being processed, is
  stored, or is in a list.

Every safety property, action property and refinement of the passing runs is proved.
Checked by TLC only: the liveness properties (`Answered`, `TasksSettle`,
`ProbesAnswer`, `ReplayEnds`, `QueriesEnd`, `RunsEnd`, `CallsEnd`, `ChunkingEnds`),
which need fairness and ENABLED, beyond the prover; and the violations.

## What is not modelled

Restarts of the LLM gateway (everything but Redis returns to `Init`), requests for
a provider that is not configured, the SQL branches of the Python services
(unreachable, see above; they include the searches with pgvector), the routes that
only list, count or render, the gateway's health page, the other routes of the
gateway, which forward like those of the model, the contents of documents, chunks,
answers and pages, the parsers (third-party conversions, of which `Ingestion`
keeps whether they raise), hashing (its callers ignore it), and logging. SQL
schema, deployment files and sample data have no behaviour to model.
