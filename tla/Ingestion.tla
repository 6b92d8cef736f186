------------------------------ MODULE Ingestion ------------------------------
(***************************************************************************)
(* The ingestion service (services/ingestion-service): the API process,    *)
(* which accepts uploads and may process them in background asyncio tasks, *)
(* the arq queue in Redis, and the worker process, which runs the same     *)
(* background function against module dictionaries of its own.             *)
(*                                                                         *)
(* asyncio is cooperative: what runs between two suspending awaits is one  *)
(* action.  app.db.session.db_available is copied when ingest_worker and   *)
(* versioning are imported, before init_db runs, so both always take the   *)
(* in-memory branch.  Each upload has a fresh doc_id and job_id (uuid4);   *)
(* here both are the upload itself.  An unsupported extension is refused   *)
(* before anything is touched and has no action.                           *)
(***************************************************************************)
EXTENDS Integers, FiniteSets

CONSTANTS
  Upload,         \* bound: the uploads sent
  Source,         \* file names
  MaxChunks,      \* bound: chunks per document
  MaxRestarts,    \* bound: crashes and restarts of the two processes
  QueueDeployed   \* a Redis server exists

ASSUME ChunksAssumption == MaxChunks \in Nat
ASSUME RestartsAssumption == MaxRestarts \in Nat
ASSUME UploadAssumption == IsFiniteSet(Upload)
ASSUME SourceAssumption == Source # {}
ASSUME QueueAssumption == QueueDeployed \in BOOLEAN

Proc == {"api", "worker"}

VARIABLES
  redisUp,    \* Redis answers at the moment
  pool,       \* queue.py _redis_pool: "none", "pool" or "false"
  queue,      \* uploads in the arq queue
  versions,   \* versioning.py _document_versions of the API process
  handler,    \* handler[u]: where the upload request u is
  meta,       \* meta[u]: the source and version that travel with u
  task,       \* task[p][u]: _process_document_background of u in process p
  jobs,       \* jobs[p]: _jobs_store of process p
  docs,       \* docs[p]: the documents in _documents_store of process p; an
              \* entry of _chunks_store is written and removed with it
  deleted,    \* history: documents whose deletion was confirmed
  restarts    \* restarts so far

vars == <<redisUp, pool, queue, versions, handler, meta, task, jobs, docs,
          deleted, restarts>>

(* Operators named Mut_... are faulty variants of the definition after     *)
(* them; no behaviour of Spec uses them.                                   *)
NoJob == [status |-> "none", progress |-> 0]
NoTask == [pc |-> "none", total |-> 0, done |-> 0]
NoMeta == [source |-> CHOOSE s \in Source : TRUE, version |-> 0]

Init ==
  /\ redisUp = QueueDeployed
  /\ pool = "none"
  /\ queue = {}
  /\ versions = [s \in Source |-> 0]
  /\ handler = [u \in Upload |-> "new"]
  /\ meta = [u \in Upload |-> NoMeta]
  /\ task = [p \in Proc |-> [u \in Upload |-> NoTask]]
  /\ jobs = [p \in Proc |-> [u \in Upload |-> NoJob]]
  /\ docs = [p \in Proc |-> {}]
  /\ deleted = {}
  /\ restarts = 0

SetJob(p, u, status, progress) ==
  jobs' = [jobs EXCEPT ![p][u] = [status |-> status, progress |-> progress]]
SetTask(p, u, pc, total, done) ==
  task' = [task EXCEPT ![p][u] = [pc |-> pc, total |-> total, done |-> done]]

-----------------------------------------------------------------------------
(* POST /ingest/upload and enqueue_ingestion, in the API process.          *)

Mut_NextVersionFromStore(s) ==
  Cardinality({u \in docs["api"] : meta[u].source = s}) + 1
NextVersion(s) == versions[s] + 1

TakeVersion(u, s) ==
  /\ versions' = [versions EXCEPT ![s] = NextVersion(s)]
  /\ meta' = [meta EXCEPT ![u] = [source |-> s, version |-> NextVersion(s)]]

(* get_redis_pool has settled with this value and the handler goes on.     *)
(* The fallback starts a task and answers in the same turn.                *)
Dispatch(u, available) ==
  \/ /\ available
     /\ handler' = [handler EXCEPT ![u] = "enqueueing"]
     /\ UNCHANGED task
  \/ /\ ~available
     /\ handler' = [handler EXCEPT ![u] = "replied"]
     /\ SetTask("api", u, "scheduled", 0, 0)

(* The version is taken before the parser runs: a parse error is a 500     *)
(* that has used a version.                                                *)
ParseFails(u, s) ==
  /\ handler[u] = "new"
  /\ TakeVersion(u, s)
  /\ handler' = [handler EXCEPT ![u] = "refused"]
  /\ UNCHANGED <<redisUp, pool, queue, task, jobs, docs, deleted, restarts>>

Accept(u, s) ==
  /\ handler[u] = "new"
  /\ TakeVersion(u, s)
  /\ SetJob("api", u, "parsing", 10)
  /\ \/ /\ pool = "none"
        /\ handler' = [handler EXCEPT ![u] = "connecting"]
        /\ UNCHANGED task
     \/ /\ pool # "none"
        /\ Dispatch(u, pool = "pool")
  /\ UNCHANGED <<redisUp, pool, queue, docs, deleted, restarts>>

(* create_pool settles, for each handler that saw no pool: the last one to *)
(* settle decides what later uploads see.                                  *)
PoolSettles(u) ==
  /\ handler[u] = "connecting"
  /\ \/ redisUp /\ pool' = "pool" /\ Dispatch(u, TRUE)
     \/ pool' = "false" /\ Dispatch(u, FALSE)
  /\ UNCHANGED <<redisUp, queue, versions, meta, jobs, docs, deleted, restarts>>

Mut_EnqueueFallsBack(u) ==
  /\ handler[u] = "enqueueing"
  /\ handler' = [handler EXCEPT ![u] = "replied"]
  /\ \/ redisUp /\ queue' = queue \cup {u} /\ UNCHANGED task
     \/ /\ queue' \in IF redisUp THEN {queue, queue \cup {u}} ELSE {queue}
        /\ SetTask("api", u, "scheduled", 0, 0)
  /\ UNCHANGED <<redisUp, pool, versions, meta, jobs, docs, deleted, restarts>>
(* enqueue_job settles.  When it raises, the upload is a 500 and the job   *)
(* stays "parsing"; Redis may have accepted it all the same.               *)
Enqueue(u) ==
  /\ handler[u] = "enqueueing"
  /\ \/ /\ redisUp
        /\ queue' = queue \cup {u}
        /\ handler' \in {[handler EXCEPT ![u] = a] : a \in {"replied", "refused"}}
     \/ /\ ~redisUp
        /\ handler' = [handler EXCEPT ![u] = "refused"]
        /\ UNCHANGED queue
  /\ UNCHANGED <<redisUp, pool, versions, meta, task, jobs, docs, deleted, restarts>>

-----------------------------------------------------------------------------
(* _process_document_background, in either process.                        *)

(* arq delivers at least once: a job that ended may be delivered again.    *)
Settle(p, u) ==
  IF p = "worker" THEN queue' \in {queue, queue \ {u}} ELSE UNCHANGED queue

Mut_PublishShared(p, u) ==
  /\ docs' = [docs EXCEPT !["api"] = @ \cup {u}]
  /\ SetJob(p, u, "completed", 100)
  /\ SetTask(p, u, "none", 0, 0)
  /\ Settle(p, u)
Publish(p, u) ==
  /\ docs' = [docs EXCEPT ![p] = @ \cup {u}]
  /\ SetJob(p, u, "completed", 100)
  /\ SetTask(p, u, "none", 0, 0)
  /\ Settle(p, u)

Mut_FailNegative(p, u) ==
  /\ SetJob(p, u, "failed", -1)
  /\ SetTask(p, u, "none", 0, 0)
  /\ Settle(p, u)
  /\ UNCHANGED docs
Fail(p, u) ==
  /\ SetJob(p, u, "failed", 0)
  /\ SetTask(p, u, "none", 0, 0)
  /\ Settle(p, u)
  /\ UNCHANGED docs

(* The first turn: the job is overwritten, the text is chunked (or that    *)
(* raises), and the first embedding is requested.  A long blank text has   *)
(* no chunk at all and is stored at once.                                  *)
Begin(p, u) ==
  /\ task[p][u].pc = "scheduled"
  /\ \/ Publish(p, u)
     \/ Fail(p, u)
     \/ \E n \in 1 .. MaxChunks :
          /\ SetJob(p, u, "processing", 30)
          /\ SetTask(p, u, "embedding", n, 0)
          /\ UNCHANGED <<queue, docs>>
  /\ UNCHANGED <<redisUp, pool, versions, handler, meta, deleted, restarts>>

Mut_ProgressUnbased(total, done) == (50 * done) \div total
Progress(total, done) == 30 + (60 * done) \div total

Mut_EmbeddedOneMore(p, u) ==
  LET t == task[p][u]
  IN  /\ t.pc = "embedding"
      /\ \/ t.done = t.total /\ Publish(p, u)
         \/ /\ t.done + 1 < t.total
            /\ SetJob(p, u, "processing", Progress(t.total, t.done + 1))
            /\ SetTask(p, u, "embedding", t.total, t.done + 1)
            /\ UNCHANGED <<queue, docs>>
      /\ UNCHANGED <<redisUp, pool, versions, handler, meta, deleted, restarts>>

(* _generate_embedding returns a vector or, after any error, None: both    *)
(* count.  After the last one the document is stored in the same turn.     *)
Embedded(p, u) ==
  LET t == task[p][u]
  IN  /\ t.pc = "embedding"
      /\ \/ t.done + 1 = t.total /\ Publish(p, u)
         \/ /\ t.done + 1 < t.total
            /\ SetJob(p, u, "processing", Progress(t.total, t.done + 1))
            /\ SetTask(p, u, "embedding", t.total, t.done + 1)
            /\ UNCHANGED <<queue, docs>>
      /\ UNCHANGED <<redisUp, pool, versions, handler, meta, deleted, restarts>>

(* The worker picks a job.                                                 *)
Dequeue(u) ==
  /\ u \in queue /\ redisUp
  /\ task["worker"][u].pc = "none"
  /\ SetTask("worker", u, "scheduled", 0, 0)
  /\ UNCHANGED <<redisUp, pool, queue, versions, handler, meta, jobs, docs,
                 deleted, restarts>>

(* A worker's job that outlives arq's job_timeout (the worker sets none,   *)
(* the default is some minutes) is cancelled while it embeds: the          *)
(* CancelledError is no Exception, so the task's except does not see it    *)
(* and the worker's job stays "processing".                                *)
Cancel(u) ==
  /\ task["worker"][u].pc = "embedding"
  /\ SetTask("worker", u, "none", 0, 0)
  /\ Settle("worker", u)
  /\ UNCHANGED <<redisUp, pool, versions, handler, meta, jobs, docs, deleted, restarts>>

-----------------------------------------------------------------------------
(* DELETE /ingest/documents/{id}, by a client that was given the id: it is *)
(* confirmed whether or not the document is in the store.                  *)
Delete(u) ==
  /\ handler[u] = "replied"
  /\ docs' = [docs EXCEPT !["api"] = @ \ {u}]
  /\ deleted' = deleted \cup {u}
  /\ UNCHANGED <<redisUp, pool, queue, versions, handler, meta, task, jobs, restarts>>

Mut_ForgetDocumentsOnly(p) ==
  /\ task' = [task EXCEPT ![p] = [u \in Upload |-> NoTask]]
  /\ docs' = [docs EXCEPT ![p] = {}]
  /\ UNCHANGED jobs

(* The process stops (close_redis_pool or a crash) and starts again: every *)
(* module dictionary and every task of it is gone.                         *)
Forget(p) ==
  /\ task' = [task EXCEPT ![p] = [u \in Upload |-> NoTask]]
  /\ jobs' = [jobs EXCEPT ![p] = [u \in Upload |-> NoJob]]
  /\ docs' = [docs EXCEPT ![p] = {}]

RestartApi ==
  /\ restarts < MaxRestarts
  /\ restarts' = restarts + 1
  /\ Forget("api")
  /\ pool' = "none"
  /\ versions' = [s \in Source |-> 0]
  /\ handler' = [u \in Upload |-> IF handler[u] \in {"connecting", "enqueueing"}
                                    THEN "refused" ELSE handler[u]]
  /\ UNCHANGED <<redisUp, queue, meta, deleted>>

RestartWorker ==
  /\ restarts < MaxRestarts
  /\ restarts' = restarts + 1
  /\ Forget("worker")
  /\ UNCHANGED <<redisUp, pool, queue, versions, handler, meta, deleted>>

RedisOutage ==
  /\ QueueDeployed
  /\ redisUp' = ~redisUp
  /\ UNCHANGED <<pool, queue, versions, handler, meta, task, jobs, docs, deleted,
                 restarts>>

HandlerStep(u) == PoolSettles(u) \/ Enqueue(u)
TaskStep(p, u) == Begin(p, u) \/ Embedded(p, u)

Next ==
  \/ \E u \in Upload, s \in Source : ParseFails(u, s) \/ Accept(u, s)
  \/ \E u \in Upload : HandlerStep(u) \/ Dequeue(u) \/ Cancel(u) \/ Delete(u)
  \/ \E p \in Proc, u \in Upload : TaskStep(p, u)
  \/ RestartApi \/ RestartWorker \/ RedisOutage

Spec == Init /\ [][Next]_vars

(* The event loop runs every task that can run: connection attempts and    *)
(* embedding requests have timeouts (conn_timeout=2, timeout=30.0), and    *)
(* the worker polls the queue (poll_delay=1.0).                            *)
FairSpec ==
  /\ Spec
  /\ \A u \in Upload : WF_vars(HandlerStep(u))
  /\ \A u \in Upload : WF_vars(Dequeue(u))
  /\ \A p \in Proc, u \in Upload : WF_vars(TaskStep(p, u))
-----------------------------------------------------------------------------
(* Properties.                                                             *)

Statuses == {"none", "parsing", "processing", "completed", "failed"}

TypeOK ==
  /\ redisUp \in BOOLEAN
  /\ pool \in {"none", "pool", "false"}
  /\ queue \subseteq Upload
  /\ versions \in [Source -> Nat]
  /\ handler \in [Upload -> {"new", "connecting", "enqueueing", "replied", "refused"}]
  /\ meta \in [Upload -> [source : Source, version : Nat]]
  /\ task \in [Proc -> [Upload ->
       [pc : {"none", "scheduled", "embedding"}, total : Nat, done : Nat]]]
  /\ jobs \in [Proc -> [Upload -> [status : Statuses, progress : 0 .. 100]]]
  /\ docs \in [Proc -> SUBSET Upload]
  /\ deleted \subseteq Upload
  /\ restarts \in Nat

(* Two listed documents of one file never have the same version, however   *)
(* their uploads, failed parses and background tasks interleave: the       *)
(* counter is taken before the first await and only a restart, which also  *)
(* empties the list, resets it (versioning.py, upload_document).           *)
VersionsDistinct ==
  \A u, v \in docs["api"] :
    u # v /\ meta[u].source = meta[v].source => meta[u].version # meta[v].version

(* GET /ingest/jobs agrees with GET /ingest/documents: a listed document's *)
(* job is completed, and a completed job's document is listed unless a     *)
(* client deleted it.                                                      *)
JobsMatchDocuments ==
  \A u \in Upload :
    /\ u \in docs["api"] => jobs["api"][u].status = "completed"
    /\ jobs["api"][u].status = "completed" => u \in docs["api"] \cup deleted

Rank(status) ==
  CASE status = "parsing" -> 1
    [] status = "processing" -> 2
    [] status \in {"completed", "failed"} -> 3
    [] OTHER -> 0

(* Until a restart forgets it, a job only advances: it settles once, and   *)
(* its progress never goes back unless it fails.  Accepting, chunking and  *)
(* every embedding overwrite the same dictionary entry.                    *)
JobsOnlyAdvance ==
  [][\A u \in Upload :
       LET old == jobs["api"][u]
           new == jobs'["api"][u]
       IN  new.status # "none" =>
             /\ Rank(old.status) = 3 => new = old
             /\ Rank(old.status) <= Rank(new.status)
             /\ new.status = "failed" \/ old.progress <= new.progress]_vars

(* An upload is processed by one process: once it is in the queue or with  *)
(* the worker, the API neither runs a task for it nor lists it, also when  *)
(* Redis took a job whose enqueue raised, and a queued job is delivered    *)
(* again after a restart of either process.                                *)
NeverInBothProcesses ==
  \A u \in Upload :
    u \in queue \/ task["worker"][u].pc # "none" \/ u \in docs["worker"]
      => task["api"][u].pc = "none" /\ u \notin docs["api"]

(* Every upload request is answered; every background task of the API ends *)
(* in "completed" or "failed" unless the process restarts; and every task  *)
(* of the worker ends, if only because arq cancels it.                     *)
TasksSettle ==
  \A u \in Upload :
    /\ handler[u] \in {"connecting", "enqueueing"} ~> handler[u] \in {"replied", "refused"}
    /\ task["api"][u].pc # "none" ~>
         jobs["api"][u].status \in {"completed", "failed", "none"}
    /\ task["worker"][u].pc # "none" ~> task["worker"][u].pc = "none"

(* The API's list of documents keeps the promise of Catalog: through the   *)
(* queue, at-least-once delivery, deletions and restarts, a document is    *)
(* listed at most once, after its upload was answered.                     *)
C == INSTANCE Catalog WITH known <- {u \in Upload : handler[u] = "replied"},
                           pending <- {u \in Upload : task["api"][u].pc # "none"},
                           listed <- docs["api"]
ImplementsCatalog == C!Spec

(* "Delete a document and its chunks": a document whose deletion was       *)
(* confirmed is not listed afterwards.                                     *)
DeletedStaysDeleted == deleted \cap docs["api"] = {}
=============================================================================
