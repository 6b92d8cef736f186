--------------------------- MODULE IngestionProofs ---------------------------
(***************************************************************************)
(* Proofs about Ingestion for any uploads, files, chunk counts and number  *)
(* of restarts, with or without a queue.  Consistent ties the four         *)
(* dictionaries of the API process together, one upload at a time; it is   *)
(* inductive with the types, and the safety properties follow from it.     *)
(***************************************************************************)
EXTENDS Ingestion, TLAPS

-----------------------------------------------------------------------------
(* Arithmetic of the progress of a job with total chunks.                  *)

LEMMA ProgressBound ==
  ASSUME NEW t \in Nat, NEW d \in Nat, d < t
  PROVE  Progress(t, d) \in 30 .. 90
<1> DEFINE q == (60 * d) \div t
<1>1. q \in Int /\ t * q <= 60 * d /\ 60 * d < t * q + t
  OBVIOUS
<1>2. 0 <= q
  <2>1. CASE q < 0
    <3>1. t * q + t <= 0
      BY <1>1, <2>1
    <3> QED BY <1>1, <3>1
  <2> QED BY <1>1, <2>1
<1>3. q <= 60
  <2>1. CASE q >= 61
    <3>1. t * q >= t * 61
      BY <1>1, <2>1
    <3> QED BY <1>1, <3>1
  <2> QED BY <1>1, <2>1
<1> QED BY <1>1, <1>2, <1>3 DEF Progress

LEMMA ProgressGrows ==
  ASSUME NEW t \in Nat, NEW d \in Nat, d < t
  PROVE  Progress(t, d) <= Progress(t, d + 1)
<1> DEFINE q == (60 * d) \div t
           r == (60 * (d + 1)) \div t
<1>1. q \in Int /\ t * q <= 60 * d /\ r \in Int /\ 60 * (d + 1) < t * r + t
  OBVIOUS
<1>2. q <= r
  <2>1. CASE q >= r + 1
    <3>1. t * q >= t * (r + 1)
      BY <1>1, <2>1
    <3>2. t * (r + 1) = t * r + t
      BY <1>1
    <3> QED BY <1>1, <3>1, <3>2
  <2> QED BY <1>1, <2>1
<1> QED BY <1>1, <1>2 DEF Progress

-----------------------------------------------------------------------------
(* Reading the two-dimensional dictionaries after a step.                  *)

Task == [pc : {"none", "scheduled", "embedding"}, total : Nat, done : Nat]
Job == [status : Statuses, progress : 0 .. 100]

LEMMA SetJobRow ==
  ASSUME TypeOK, NEW p \in Proc, NEW u \in Upload, NEW j \in Job,
         jobs' = [jobs EXCEPT ![p][u] = j]
  PROVE  /\ jobs' \in [Proc -> [Upload -> Job]]
         /\ \A q \in Proc, v \in Upload :
              jobs'[q][v] = IF q = p /\ v = u THEN j ELSE jobs[q][v]
<1>1. jobs \in [Proc -> [Upload -> Job]]
  BY DEF TypeOK, Job
<1>2. [jobs[p] EXCEPT ![u] = j] \in [Upload -> Job]
  BY <1>1
<1>3. [jobs EXCEPT ![p][u] = j] = [jobs EXCEPT ![p] = [jobs[p] EXCEPT ![u] = j]]
  BY <1>1
<1>4. /\ [jobs EXCEPT ![p][u] = j] \in [Proc -> [Upload -> Job]]
      /\ \A q \in Proc, v \in Upload :
           [jobs EXCEPT ![p][u] = j][q][v] = IF q = p /\ v = u THEN j ELSE jobs[q][v]
  BY <1>1, <1>2, <1>3
<1> QED BY <1>4

LEMMA TaskRow ==
  ASSUME TypeOK, NEW p \in Proc, NEW u \in Upload, NEW t \in Task,
         task' = [task EXCEPT ![p][u] = t]
  PROVE  /\ task' \in [Proc -> [Upload -> Task]]
         /\ \A q \in Proc, v \in Upload :
              task'[q][v] = IF q = p /\ v = u THEN t ELSE task[q][v]
<1>1. task \in [Proc -> [Upload -> Task]]
  BY DEF TypeOK, Task
<1>2. [task[p] EXCEPT ![u] = t] \in [Upload -> Task]
  BY <1>1
<1>3. [task EXCEPT ![p][u] = t] = [task EXCEPT ![p] = [task[p] EXCEPT ![u] = t]]
  BY <1>1
<1>4. /\ [task EXCEPT ![p][u] = t] \in [Proc -> [Upload -> Task]]
      /\ \A q \in Proc, v \in Upload :
           [task EXCEPT ![p][u] = t][q][v] = IF q = p /\ v = u THEN t ELSE task[q][v]
  BY <1>1, <1>2, <1>3
<1> QED BY <1>4

LEMMA SetTaskRow ==
  ASSUME TypeOK, NEW p \in Proc, NEW u \in Upload,
         NEW pc \in {"none", "scheduled", "embedding"}, NEW total \in Nat, NEW done \in Nat,
         SetTask(p, u, pc, total, done)
  PROVE  /\ task' \in [Proc -> [Upload -> Task]]
         /\ \A q \in Proc, v \in Upload :
              task'[q][v] = IF q = p /\ v = u
                              THEN [pc |-> pc, total |-> total, done |-> done]
                              ELSE task[q][v]
<1> DEFINE t == [pc |-> pc, total |-> total, done |-> done]
<1>1. t \in Task /\ task' = [task EXCEPT ![p][u] = t]
  BY DEF SetTask, Task
<1> HIDE DEF t
<1>2. /\ task' \in [Proc -> [Upload -> Task]]
      /\ \A q \in Proc, v \in Upload :
           task'[q][v] = IF q = p /\ v = u THEN t ELSE task[q][v]
  BY <1>1, TaskRow
<1> QED BY <1>2 DEF t

-----------------------------------------------------------------------------
(* The inductive invariant.                                                *)

(* A task that is embedding has a chunk left to embed. *)
Embedding(p, u) == task[p][u].pc = "embedding" => task[p][u].done < task[p][u].total

(* The request, the task, the job and the document of an upload, in the    *)
(* API process, at every point between two awaits.                         *)
Row(u) ==
  LET h == handler[u]
      t == task["api"][u]
      j == jobs["api"][u]
  IN  /\ h = "new" => t.pc = "none" /\ j = NoJob
      /\ h \in {"connecting", "enqueueing"} =>
           t.pc = "none" /\ j = [status |-> "parsing", progress |-> 10]
      /\ t.pc = "scheduled" => j = [status |-> "parsing", progress |-> 10]
      /\ t.pc = "embedding" =>
           j = [status |-> "processing", progress |-> Progress(t.total, t.done)]
      /\ t.pc # "none" => h = "replied"
      /\ u \in docs["api"] => j.status = "completed"
      /\ j.status = "completed" => t.pc = "none" /\ u \in docs["api"] \cup deleted

Rows == \A u \in Upload : Row(u)
Tasks == \A p \in Proc, u \in Upload : Embedding(p, u)

(* What a request or a background task does to the tables, as it appears   *)
(* in the row of its upload.                                               *)
Same(u) ==
  /\ handler'[u] = handler[u] /\ task'["api"][u] = task["api"][u]
  /\ jobs'["api"][u] = jobs["api"][u]
  /\ u \in docs'["api"] <=> u \in docs["api"]
  /\ u \in deleted' <=> u \in deleted

LEMMA SameRow ==
  ASSUME NEW u \in Upload, Row(u), Same(u)
  PROVE  Row(u)'
BY DEF Row, Same

Inv == TypeOK /\ Tasks /\ Rows

LEMMA InitInv == Init => Inv
<1> SUFFICES ASSUME Init PROVE Inv
  OBVIOUS
<1>1. NoMeta \in [source : Source, version : Nat]
  BY SourceAssumption DEF NoMeta
<1>2. NoTask \in Task /\ NoJob \in Job
  BY DEF NoTask, Task, NoJob, Job, Statuses
<1>3. TypeOK
  BY <1>1, <1>2, QueueAssumption DEF Init, TypeOK, Task, Job
<1>4. Tasks /\ Rows
  BY DEF Init, Tasks, Embedding, Rows, Row, NoTask, NoJob, Proc
<1> QED BY <1>3, <1>4 DEF Inv

(* Taking a version is atomic and changes only the row of meta.            *)
LEMMA VersionType ==
  ASSUME TypeOK, NEW u \in Upload, NEW s \in Source, TakeVersion(u, s)
  PROVE  /\ versions' \in [Source -> Nat]
         /\ meta' \in [Upload -> [source : Source, version : Nat]]
BY DEF TypeOK, TakeVersion, NextVersion

LEMMA ParseFailsInv ==
  ASSUME Inv, NEW u \in Upload, NEW s \in Source, ParseFails(u, s)
  PROVE  Inv'
<1>1. TypeOK /\ Tasks /\ Rows
  BY DEF Inv
<1>2. TypeOK'
  <2>1. handler' \in [Upload -> {"new", "connecting", "enqueueing", "replied", "refused"}]
    BY <1>1 DEF TypeOK, ParseFails
  <2> QED BY <1>1, <2>1, VersionType DEF TypeOK, ParseFails
<1>3. Tasks'
  BY <1>1 DEF Tasks, Embedding, ParseFails
<1>4. ASSUME NEW v \in Upload PROVE Row(v)'
  <2>1. CASE v = u
    BY <1>1, <2>1 DEF Rows, Row, ParseFails, TypeOK, NoJob
  <2>2. CASE v # u
    BY <1>1, <2>2, SameRow DEF Rows, Same, ParseFails, TypeOK
  <2> QED BY <2>1, <2>2
<1> QED BY <1>2, <1>3, <1>4 DEF Inv, Rows

(* A request that goes on to the queue or starts a task.                   *)
LEMMA DispatchStep ==
  ASSUME TypeOK, Tasks, NEW u \in Upload, NEW available \in BOOLEAN, Dispatch(u, available)
  PROVE  /\ handler' \in [Upload -> {"new", "connecting", "enqueueing", "replied", "refused"}]
         /\ task' \in [Proc -> [Upload -> Task]]
         /\ Tasks'
         /\ \A v \in Upload : v # u =>
              handler'[v] = handler[v] /\ task'["api"][v] = task["api"][v]
         /\ \/ handler'[u] = "enqueueing" /\ task'["api"][u] = task["api"][u]
            \/ /\ handler'[u] = "replied"
               /\ task'["api"][u] = [pc |-> "scheduled", total |-> 0, done |-> 0]
<1>1. "api" \in Proc
  BY DEF Proc
<1>2. CASE available
  BY <1>2 DEF Dispatch, TypeOK, Task, Tasks, Embedding
<1>3. CASE ~available
  <2>1. SetTask("api", u, "scheduled", 0, 0)
    BY <1>3 DEF Dispatch
  <2>2. /\ task' \in [Proc -> [Upload -> Task]]
        /\ \A q \in Proc, v \in Upload :
             task'[q][v] = IF q = "api" /\ v = u
                             THEN [pc |-> "scheduled", total |-> 0, done |-> 0]
                             ELSE task[q][v]
    BY <1>1, <2>1, SetTaskRow
  <2>3. Tasks'
    BY <2>2 DEF Tasks, Embedding
  <2>4. handler' = [handler EXCEPT ![u] = "replied"]
    BY <1>3 DEF Dispatch
  <2> QED BY <1>1, <2>2, <2>3, <2>4 DEF TypeOK
<1> QED BY <1>2, <1>3

LEMMA AcceptInv ==
  ASSUME Inv, NEW u \in Upload, NEW s \in Source, Accept(u, s)
  PROVE  Inv'
<1>1. TypeOK /\ Tasks /\ Rows /\ "api" \in Proc
  BY DEF Inv, Proc
<1>2. /\ jobs' \in [Proc -> [Upload -> Job]]
      /\ \A q \in Proc, v \in Upload :
           jobs'[q][v] = IF q = "api" /\ v = u
                           THEN [status |-> "parsing", progress |-> 10] ELSE jobs[q][v]
  <2> DEFINE j == [status |-> "parsing", progress |-> 10]
  <2>1. j \in Job /\ jobs' = [jobs EXCEPT !["api"][u] = j]
    BY DEF Accept, SetJob, Statuses, Job
  <2> HIDE DEF j
  <2>2. /\ jobs' \in [Proc -> [Upload -> Job]]
        /\ \A q \in Proc, v \in Upload :
             jobs'[q][v] = IF q = "api" /\ v = u THEN j ELSE jobs[q][v]
    BY <1>1, <2>1, SetJobRow
  <2> QED BY <2>2 DEF j
<1>3. /\ handler' \in [Upload -> {"new", "connecting", "enqueueing", "replied", "refused"}]
      /\ task' \in [Proc -> [Upload -> Task]]
      /\ Tasks'
      /\ \A v \in Upload : v # u =>
           handler'[v] = handler[v] /\ task'["api"][v] = task["api"][v]
      /\ \/ /\ handler'[u] \in {"connecting", "enqueueing"}
            /\ task'["api"][u] = task["api"][u]
         \/ /\ handler'[u] = "replied"
            /\ task'["api"][u] = [pc |-> "scheduled", total |-> 0, done |-> 0]
  <2>1. CASE pool = "none"
    BY <1>1, <2>1 DEF Accept, TypeOK, Task, Tasks, Embedding
  <2>2. CASE pool # "none"
    <3>1. Dispatch(u, pool = "pool")
      BY <2>2 DEF Accept
    <3> QED BY <1>1, <3>1, DispatchStep
  <2> QED BY <2>1, <2>2
<1>4. TypeOK'
  BY <1>1, <1>2, <1>3, VersionType DEF TypeOK, Accept, Job, Task
<1>5. ASSUME NEW v \in Upload PROVE Row(v)'
  <2>1. CASE v = u
    <3>1. Row(u) /\ handler[u] = "new" /\ docs' = docs
      BY <1>1 DEF Rows, Accept
    <3>2. task["api"][u].pc = "none" /\ u \notin docs["api"]
      BY <3>1 DEF Row, NoJob
    <3> QED BY <1>1, <1>2, <1>3, <2>1, <3>1, <3>2 DEF Row
  <2>2. CASE v # u
    BY <1>1, <1>2, <1>3, <2>2, SameRow DEF Rows, Same, Accept
  <2> QED BY <2>1, <2>2
<1> QED BY <1>3, <1>4, <1>5 DEF Inv, Rows

LEMMA PoolSettlesInv ==
  ASSUME Inv, NEW u \in Upload, PoolSettles(u)
  PROVE  Inv'
<1>1. TypeOK /\ Tasks /\ Rows
  BY DEF Inv
<1>2. PICK available \in BOOLEAN : Dispatch(u, available)
  BY DEF PoolSettles
<1>3. /\ handler' \in [Upload -> {"new", "connecting", "enqueueing", "replied", "refused"}]
      /\ task' \in [Proc -> [Upload -> Task]]
      /\ Tasks'
      /\ \A v \in Upload : v # u =>
           handler'[v] = handler[v] /\ task'["api"][v] = task["api"][v]
      /\ \/ handler'[u] = "enqueueing" /\ task'["api"][u] = task["api"][u]
         \/ /\ handler'[u] = "replied"
            /\ task'["api"][u] = [pc |-> "scheduled", total |-> 0, done |-> 0]
  BY <1>1, <1>2, DispatchStep
<1>4. TypeOK'
  BY <1>1, <1>3 DEF TypeOK, PoolSettles, Task
<1>5. ASSUME NEW v \in Upload PROVE Row(v)'
  <2>1. CASE v = u
    <3>1. Row(u) /\ handler[u] = "connecting" /\ UNCHANGED <<docs, jobs, deleted>>
      BY <1>1 DEF Rows, PoolSettles
    <3>2. CASE handler'[u] = "enqueueing" /\ task'["api"][u] = task["api"][u]
      BY <2>1, <3>1, <3>2 DEF Row
    <3>3. CASE /\ handler'[u] = "replied"
               /\ task'["api"][u] = [pc |-> "scheduled", total |-> 0, done |-> 0]
      BY <2>1, <3>1, <3>3 DEF Row
    <3> QED BY <1>3, <3>2, <3>3
  <2>2. CASE v # u
    BY <1>1, <1>3, <2>2, SameRow DEF Rows, Same, PoolSettles
  <2> QED BY <2>1, <2>2
<1> QED BY <1>3, <1>4, <1>5 DEF Inv, Rows

LEMMA EnqueueInv ==
  ASSUME Inv, NEW u \in Upload, Enqueue(u)
  PROVE  Inv'
<1>1. TypeOK /\ Tasks /\ Rows
  BY DEF Inv
<1>2. PICK a \in {"replied", "refused"} : handler' = [handler EXCEPT ![u] = a]
  BY DEF Enqueue
<1>3. TypeOK'
  BY <1>1, <1>2 DEF TypeOK, Enqueue
<1>4. Tasks'
  BY <1>1 DEF Tasks, Embedding, Enqueue
<1>5. ASSUME NEW v \in Upload PROVE Row(v)'
  <2>1. CASE v = u
    BY <1>1, <1>2, <2>1 DEF Rows, Row, Enqueue, TypeOK
  <2>2. CASE v # u
    BY <1>1, <1>2, <2>2, SameRow DEF Rows, Same, Enqueue, TypeOK
  <2> QED BY <2>1, <2>2
<1> QED BY <1>3, <1>4, <1>5 DEF Inv, Rows

-----------------------------------------------------------------------------
(* Background tasks.                                                       *)

LEMMA ProgressStart == ASSUME NEW n \in Nat, 0 < n PROVE Progress(n, 0) = 30
<1>1. (60 * 0) \div n = 0
  OBVIOUS
<1> QED BY <1>1 DEF Progress

(* The outcome of one turn of a task, in its own cells. *)
Stored(p, u, j, t) ==
  /\ docs' = [docs EXCEPT ![p] = @ \cup {u}]
  /\ j = [status |-> "completed", progress |-> 100] /\ t = NoTask
Failed(j, t) ==
  docs' = docs /\ j = [status |-> "failed", progress |-> 0] /\ t = NoTask
GoesOn(j, t) ==
  /\ docs' = docs /\ t.pc = "embedding" /\ t.done < t.total
  /\ j = [status |-> "processing", progress |-> Progress(t.total, t.done)]

Turn(p, u, j, t) ==
  /\ jobs' = [jobs EXCEPT ![p][u] = j]
  /\ task' = [task EXCEPT ![p][u] = t]
  /\ queue' \subseteq queue
  /\ UNCHANGED <<redisUp, pool, versions, handler, meta, deleted, restarts>>
  /\ Stored(p, u, j, t) \/ Failed(j, t) \/ GoesOn(j, t)

(* Begin and Embedded are such turns.                                      *)
LEMMA TaskTurn ==
  ASSUME TypeOK, Tasks, NEW p \in Proc, NEW u \in Upload, TaskStep(p, u)
  PROVE  task[p][u].pc # "none" /\ \E j \in Job, t \in Task : Turn(p, u, j, t)
<1>1. queue \subseteq Upload /\ task[p][u] \in Task
  BY DEF TypeOK, Task
<1>2. ASSUME Settle(p, u) PROVE queue' \subseteq queue
  BY <1>2 DEF Settle
<1>3. /\ task[p][u].pc # "none"
      /\ UNCHANGED <<redisUp, pool, versions, handler, meta, deleted, restarts>>
  BY DEF TaskStep, Begin, Embedded
<1>4. CASE Publish(p, u)
  <2> DEFINE j == [status |-> "completed", progress |-> 100]
  <2>1. j \in Job /\ NoTask \in Task
    BY DEF Job, Statuses, NoTask, Task
  <2>2. Turn(p, u, j, NoTask)
    BY <1>2, <1>3, <1>4 DEF Publish, SetJob, SetTask, Turn, Stored, NoTask
  <2> QED BY <1>3, <2>1, <2>2
<1>5. CASE Fail(p, u)
  <2> DEFINE j == [status |-> "failed", progress |-> 0]
  <2>1. j \in Job /\ NoTask \in Task
    BY DEF Job, Statuses, NoTask, Task
  <2>2. Turn(p, u, j, NoTask)
    BY <1>2, <1>3, <1>5 DEF Fail, SetJob, SetTask, Turn, Failed, NoTask
  <2> QED BY <1>3, <2>1, <2>2
<1>6. ASSUME NEW n \in Nat, NEW k \in Nat, k < n,
             SetJob(p, u, "processing", Progress(n, k)), SetTask(p, u, "embedding", n, k),
             UNCHANGED <<queue, docs>>
      PROVE  \E j \in Job, t \in Task : Turn(p, u, j, t)
  <2> DEFINE j == [status |-> "processing", progress |-> Progress(n, k)]
             t == [pc |-> "embedding", total |-> n, done |-> k]
  <2>1. j \in Job /\ t \in Task
    BY <1>6, ProgressBound DEF Job, Statuses, Task
  <2>2. GoesOn(j, t)
    BY <1>6 DEF GoesOn
  <2>3. Turn(p, u, j, t)
    BY <1>1, <1>3, <1>6, <2>2 DEF SetJob, SetTask, Turn
  <2> QED BY <2>1, <2>3
<1>7. CASE Begin(p, u) /\ ~Publish(p, u) /\ ~Fail(p, u)
  <2>1. PICK n \in 1 .. MaxChunks :
          /\ SetJob(p, u, "processing", 30) /\ SetTask(p, u, "embedding", n, 0)
          /\ UNCHANGED <<queue, docs>>
    BY <1>7 DEF Begin
  <2>2. n \in Nat /\ 0 < n /\ Progress(n, 0) = 30
    BY ChunksAssumption, ProgressStart
  <2> QED BY <1>3, <1>6, <2>1, <2>2
<1>8. CASE Embedded(p, u) /\ ~Publish(p, u)
  <2> DEFINE n == task[p][u].total
             k == task[p][u].done + 1
  <2>1. n \in Nat /\ k \in Nat
    BY <1>1 DEF Task
  <2>2. /\ k < n /\ SetJob(p, u, "processing", Progress(n, k))
        /\ SetTask(p, u, "embedding", n, k) /\ UNCHANGED <<queue, docs>>
    BY <1>8 DEF Embedded
  <2> QED BY <1>3, <1>6, <2>1, <2>2
<1> QED BY <1>4, <1>5, <1>7, <1>8 DEF TaskStep

LEMMA TaskStepInv ==
  ASSUME Inv, NEW p \in Proc, NEW u \in Upload, TaskStep(p, u)
  PROVE  Inv'
<1>1. TypeOK /\ Tasks /\ Rows /\ "api" \in Proc
  BY DEF Inv, Proc
<1>2. PICK j \in Job, t \in Task : Turn(p, u, j, t)
  BY <1>1, TaskTurn
<1>3. task[p][u].pc # "none"
  BY <1>1, TaskTurn
<1>4. /\ jobs' \in [Proc -> [Upload -> Job]]
      /\ \A q \in Proc, v \in Upload :
           jobs'[q][v] = IF q = p /\ v = u THEN j ELSE jobs[q][v]
  BY <1>1, <1>2, SetJobRow DEF Turn
<1>5. /\ task' \in [Proc -> [Upload -> Task]]
      /\ \A q \in Proc, v \in Upload :
           task'[q][v] = IF q = p /\ v = u THEN t ELSE task[q][v]
  BY <1>1, <1>2, TaskRow DEF Turn
<1>6. /\ docs' \in [Proc -> SUBSET Upload]
      /\ \A v \in Upload : v # u \/ p # "api" => (v \in docs'["api"] <=> v \in docs["api"])
  <2>1. docs \in [Proc -> SUBSET Upload]
    BY <1>1 DEF TypeOK
  <2>2. docs' = docs \/ docs' = [docs EXCEPT ![p] = @ \cup {u}]
    BY <1>2 DEF Turn, Stored, Failed, GoesOn
  <2> QED BY <1>1, <2>1, <2>2
<1>7. TypeOK'
  BY <1>1, <1>2, <1>4, <1>5, <1>6 DEF Turn, TypeOK, Job, Task
<1>8. Tasks'
  <2>1. t.pc = "embedding" => t.done < t.total
    BY <1>2 DEF Turn, Stored, Failed, GoesOn, NoTask
  <2> QED BY <1>1, <1>5, <2>1 DEF Tasks, Embedding
<1>9. ASSUME NEW v \in Upload PROVE Row(v)'
  <2>1. CASE v = u /\ p = "api"
    <3>1. Row(u) /\ handler' = handler
      BY <1>1, <1>2 DEF Rows, Turn
    <3>2. handler[u] = "replied" /\ u \notin docs["api"]
      BY <1>3, <2>1, <3>1 DEF Row
    <3>3. jobs'["api"][u] = j /\ task'["api"][u] = t
      BY <1>1, <1>4, <1>5, <2>1
    <3>4. CASE Stored(p, u, j, t)
      <4>1. u \in docs'["api"]
        BY <1>1, <2>1, <3>4 DEF Stored, TypeOK
      <4> QED BY <2>1, <3>1, <3>2, <3>3, <3>4, <4>1 DEF Row, Stored, NoTask
    <3>5. CASE Failed(j, t)
      BY <2>1, <3>1, <3>2, <3>3, <3>5 DEF Row, Failed, NoTask
    <3>6. CASE GoesOn(j, t)
      BY <2>1, <3>1, <3>2, <3>3, <3>6 DEF Row, GoesOn
    <3> QED BY <1>2, <3>4, <3>5, <3>6 DEF Turn
  <2>2. CASE v # u \/ p # "api"
    <3>1. Same(v)
      BY <1>1, <1>2, <1>4, <1>5, <1>6, <2>2 DEF Same, Turn
    <3> QED BY <1>1, <3>1, SameRow DEF Rows
  <2> QED BY <2>1, <2>2
<1> QED BY <1>7, <1>8, <1>9 DEF Inv, Rows

-----------------------------------------------------------------------------
(* The other steps, and the invariant.                                     *)

LEMMA DequeueInv ==
  ASSUME Inv, NEW u \in Upload, Dequeue(u)
  PROVE  Inv'
<1>1. TypeOK /\ Tasks /\ Rows /\ "api" \in Proc /\ "worker" \in Proc
  BY DEF Inv, Proc
<1>2. /\ task' \in [Proc -> [Upload -> Task]]
      /\ \A q \in Proc, v \in Upload :
           task'[q][v] = IF q = "worker" /\ v = u
                           THEN [pc |-> "scheduled", total |-> 0, done |-> 0] ELSE task[q][v]
  <2>1. SetTask("worker", u, "scheduled", 0, 0)
    BY DEF Dequeue
  <2> QED BY <1>1, <2>1, SetTaskRow
<1>3. TypeOK'
  BY <1>1, <1>2 DEF TypeOK, Dequeue, Task
<1>4. Tasks'
  BY <1>1, <1>2 DEF Tasks, Embedding
<1>5. ASSUME NEW v \in Upload PROVE Row(v)'
  BY <1>1, <1>2, SameRow DEF Rows, Same, Dequeue
<1> QED BY <1>3, <1>4, <1>5 DEF Inv, Rows

LEMMA CancelInv ==
  ASSUME Inv, NEW u \in Upload, Cancel(u)
  PROVE  Inv'
<1>1. TypeOK /\ Tasks /\ Rows /\ "api" \in Proc /\ "worker" \in Proc
  BY DEF Inv, Proc
<1>2. /\ task' \in [Proc -> [Upload -> Task]]
      /\ \A q \in Proc, v \in Upload :
           task'[q][v] = IF q = "worker" /\ v = u
                           THEN [pc |-> "none", total |-> 0, done |-> 0] ELSE task[q][v]
  <2>1. SetTask("worker", u, "none", 0, 0)
    BY DEF Cancel
  <2> QED BY <1>1, <2>1, SetTaskRow
<1>3. queue' \subseteq Upload
  BY <1>1 DEF Cancel, Settle, TypeOK
<1>4. TypeOK'
  BY <1>1, <1>2, <1>3 DEF TypeOK, Cancel, Task
<1>5. Tasks'
  BY <1>1, <1>2 DEF Tasks, Embedding
<1>6. ASSUME NEW v \in Upload PROVE Row(v)'
  BY <1>1, <1>2, SameRow DEF Rows, Same, Cancel
<1> QED BY <1>4, <1>5, <1>6 DEF Inv, Rows

LEMMA DeleteInv ==
  ASSUME Inv, NEW u \in Upload, Delete(u)
  PROVE  Inv'
<1>1. TypeOK /\ Tasks /\ Rows /\ "api" \in Proc
  BY DEF Inv, Proc
<1>2. /\ docs' \in [Proc -> SUBSET Upload] /\ deleted' = deleted \cup {u}
      /\ docs'["api"] = docs["api"] \ {u}
  BY <1>1 DEF Delete, TypeOK
<1>3. TypeOK'
  BY <1>1, <1>2 DEF TypeOK, Delete
<1>4. Tasks'
  BY <1>1 DEF Tasks, Embedding, Delete
<1>5. ASSUME NEW v \in Upload PROVE Row(v)'
  <2>1. Row(v) /\ UNCHANGED <<handler, task, jobs>>
    BY <1>1 DEF Rows, Delete
  <2> QED BY <1>2, <2>1 DEF Row
<1> QED BY <1>3, <1>4, <1>5 DEF Inv, Rows

LEMMA RestartInv ==
  ASSUME Inv, RestartApi \/ RestartWorker
  PROVE  Inv'
<1>1. TypeOK /\ Tasks /\ Rows /\ "api" \in Proc /\ "worker" \in Proc
  BY DEF Inv, Proc
<1>2. PICK p \in Proc : Forget(p) /\ (p = "api" <=> RestartApi)
  <2>1. CASE RestartApi
    BY <1>1, <2>1 DEF RestartApi
  <2>2. CASE ~RestartApi
    BY <1>1, <2>2 DEF RestartWorker
  <2> QED BY <2>1, <2>2
<1>3. NoTask \in Task /\ NoJob \in Job
  BY DEF NoTask, Task, NoJob, Job, Statuses
<1>4. /\ task' \in [Proc -> [Upload -> Task]]
      /\ jobs' \in [Proc -> [Upload -> Job]]
      /\ docs' \in [Proc -> SUBSET Upload]
      /\ \A q \in Proc, v \in Upload :
           /\ task'[q][v] = IF q = p THEN NoTask ELSE task[q][v]
           /\ jobs'[q][v] = IF q = p THEN NoJob ELSE jobs[q][v]
      /\ docs'["api"] = IF p = "api" THEN {} ELSE docs["api"]
  <2>1. /\ task \in [Proc -> [Upload -> Task]] /\ jobs \in [Proc -> [Upload -> Job]]
        /\ docs \in [Proc -> SUBSET Upload]
    BY <1>1 DEF TypeOK, Task, Job
  <2>2. /\ [u \in Upload |-> NoTask] \in [Upload -> Task]
        /\ [u \in Upload |-> NoJob] \in [Upload -> Job]
    BY <1>3
  <2>3. /\ task' \in [Proc -> [Upload -> Task]]
        /\ \A q \in Proc, v \in Upload :
             task'[q][v] = IF q = p THEN NoTask ELSE task[q][v]
    BY <1>2, <2>1, <2>2 DEF Forget
  <2>4. /\ jobs' \in [Proc -> [Upload -> Job]]
        /\ \A q \in Proc, v \in Upload :
             jobs'[q][v] = IF q = p THEN NoJob ELSE jobs[q][v]
    BY <1>2, <2>1, <2>2 DEF Forget
  <2>5. /\ docs' \in [Proc -> SUBSET Upload]
        /\ docs'["api"] = IF p = "api" THEN {} ELSE docs["api"]
    BY <1>1, <1>2, <2>1 DEF Forget
  <2> QED BY <2>3, <2>4, <2>5
<1>5. /\ handler' \in [Upload -> {"new", "connecting", "enqueueing", "replied", "refused"}]
      /\ \A v \in Upload : handler'[v] = "new" <=> handler[v] = "new"
      /\ \A v \in Upload : p = "api" => handler'[v] \notin {"connecting", "enqueueing"}
      /\ p # "api" => handler' = handler
      /\ deleted' = deleted
  BY <1>1, <1>2 DEF RestartApi, RestartWorker, TypeOK
<1>6. versions' \in [Source -> Nat] /\ pool' \in {"none", "pool", "false"}
  BY <1>1 DEF TypeOK, RestartApi, RestartWorker
<1>7. TypeOK'
  BY <1>1, <1>4, <1>5, <1>6 DEF TypeOK, RestartApi, RestartWorker, Task, Job
<1>8. Tasks'
  <2> SUFFICES ASSUME NEW q \in Proc, NEW v \in Upload PROVE Embedding(q, v)'
    BY DEF Tasks
  <2>1. task'[q][v] = NoTask \/ task'[q][v] = task[q][v]
    BY <1>4
  <2>2. Embedding(q, v)
    BY <1>1 DEF Tasks
  <2> QED BY <2>1, <2>2 DEF Embedding, NoTask
<1>9. ASSUME NEW v \in Upload PROVE Row(v)'
  <2>1. CASE p = "api"
    BY <1>1, <1>4, <1>5, <2>1 DEF Row, NoTask, NoJob
  <2>2. CASE p # "api"
    BY <1>1, <1>4, <1>5, <2>2, SameRow DEF Rows, Same
  <2> QED BY <2>1, <2>2
<1> QED BY <1>7, <1>8, <1>9 DEF Inv, Rows

LEMMA IdleInv ==
  ASSUME Inv, RedisOutage \/ UNCHANGED vars
  PROVE  Inv'
<1>1. UNCHANGED <<queue, versions, handler, meta, task, jobs, docs, deleted, restarts, pool>>
  BY DEF RedisOutage, vars
<1>2. redisUp' \in BOOLEAN
  BY DEF Inv, TypeOK, RedisOutage, vars
<1>3. TypeOK'
  BY <1>1, <1>2 DEF Inv, TypeOK
<1>4. Tasks' /\ Rows'
  BY <1>1 DEF Inv, Tasks, Embedding, Rows, Row
<1> QED BY <1>3, <1>4 DEF Inv

LEMMA StepInv == Inv /\ [Next]_vars => Inv'
<1> SUFFICES ASSUME Inv, [Next]_vars PROVE Inv'
  OBVIOUS
<1>1. ASSUME NEW u \in Upload, NEW s \in Source, ParseFails(u, s) \/ Accept(u, s)
      PROVE  Inv'
  BY <1>1, ParseFailsInv, AcceptInv
<1>2. ASSUME NEW u \in Upload, HandlerStep(u) \/ Dequeue(u) \/ Cancel(u) \/ Delete(u)
      PROVE  Inv'
  BY <1>2, PoolSettlesInv, EnqueueInv, DequeueInv, CancelInv, DeleteInv DEF HandlerStep
<1>3. ASSUME NEW p \in Proc, NEW u \in Upload, TaskStep(p, u)
      PROVE  Inv'
  BY <1>3, TaskStepInv
<1> QED BY <1>1, <1>2, <1>3, RestartInv, IdleInv DEF Next

LEMMA Invariance == Spec => []Inv
BY InitInv, StepInv, PTL DEF Spec

(* Types, the progress of every job in 0 .. 100 included.                  *)
THEOREM TypeCorrect == Spec => []TypeOK
<1>1. Inv => TypeOK
  BY DEF Inv
<1> QED BY <1>1, Invariance, PTL

(* The jobs of the API process agree with its list of documents.           *)
THEOREM JobsAgree == Spec => []JobsMatchDocuments
<1>1. Inv => JobsMatchDocuments
  BY DEF Inv, Rows, Row, JobsMatchDocuments
<1> QED BY <1>1, Invariance, PTL

-----------------------------------------------------------------------------
(* Versions.  Every upload that is listed, or may still be, has a version  *)
(* of its file that no other such upload has and that the counter passed.  *)

MayBeListed == {u \in Upload : handler[u] = "connecting" \/ task["api"][u].pc # "none"}
Current(u) == u \in docs["api"] \/ u \in MayBeListed
Numbered ==
  /\ \A u \in Upload : Current(u) =>
       handler[u] # "new" /\ meta[u].version <= versions[meta[u].source]
  /\ \A u, v \in Upload :
       Current(u) /\ Current(v) /\ u # v /\ meta[u].source = meta[v].source
         => meta[u].version # meta[v].version

(* Only a request that takes a version can make an upload current.         *)
LEMMA CurrentStep ==
  ASSUME Inv, [Next]_vars, NEW v \in Upload, Current(v)'
  PROVE  Current(v) \/ \E s \in Source : Accept(v, s)
<1>1. TypeOK /\ Rows /\ "api" \in Proc /\ "worker" \in Proc /\ Row(v)
  BY DEF Inv, Rows, Proc
<1>2. ASSUME NEW u \in Upload, NEW s \in Source, ParseFails(u, s) PROVE Current(v)
  BY <1>1, <1>2 DEF ParseFails, Current, MayBeListed, TypeOK
<1>3. ASSUME NEW u \in Upload, NEW s \in Source, Accept(u, s), u # v PROVE Current(v)
  BY <1>1, <1>3 DEF Accept, Dispatch, SetTask, Current, MayBeListed, TypeOK
<1>4. ASSUME NEW u \in Upload, PoolSettles(u) PROVE Current(v)
  BY <1>1, <1>4 DEF PoolSettles, Dispatch, SetTask, Current, MayBeListed, TypeOK
<1>5. ASSUME NEW u \in Upload, Enqueue(u) PROVE Current(v)
  BY <1>1, <1>5 DEF Enqueue, Current, MayBeListed, TypeOK
<1>6. ASSUME NEW u \in Upload, Dequeue(u) \/ Cancel(u) PROVE Current(v)
  BY <1>1, <1>6 DEF Dequeue, Cancel, SetTask, Current, MayBeListed, TypeOK
<1>7. ASSUME NEW u \in Upload, Delete(u) PROVE Current(v)
  BY <1>1, <1>7 DEF Delete, Current, MayBeListed, TypeOK
<1>8. ASSUME NEW p \in Proc, NEW u \in Upload, TaskStep(p, u) PROVE Current(v)
  <2>1. PICK j \in Job, t \in Task : Turn(p, u, j, t)
    BY <1>8, TaskTurn DEF Inv
  <2>2. task[p][u].pc # "none"
    BY <1>8, TaskTurn DEF Inv
  <2>3. handler' = handler
    BY <2>1 DEF Turn
  <2>4. CASE p = "api" /\ u = v
    BY <1>1, <2>2, <2>4 DEF Current, MayBeListed
  <2>5. CASE p # "api" \/ u # v
    <3>1. task'["api"][v] = task["api"][v]
      BY <1>1, <2>1, <2>5 DEF Turn, TypeOK
    <3>2. v \in docs'["api"] <=> v \in docs["api"]
      <4>1. docs' = docs \/ docs' = [docs EXCEPT ![p] = @ \cup {u}]
        BY <2>1 DEF Turn, Stored, Failed, GoesOn
      <4>2. docs \in [Proc -> SUBSET Upload]
        BY <1>1 DEF TypeOK
      <4> QED BY <1>1, <2>5, <4>1, <4>2
    <3> QED BY <2>3, <3>1, <3>2 DEF Current, MayBeListed
  <2> QED BY <2>4, <2>5
<1>9. CASE RestartApi \/ RestartWorker
  <2>1. CASE RestartApi
    <3>1. docs'["api"] = {} /\ task'["api"][v].pc = "none" /\ handler'[v] # "connecting"
      BY <1>1, <2>1 DEF RestartApi, Forget, TypeOK, NoTask
    <3> QED BY <3>1 DEF Current, MayBeListed
  <2>2. CASE RestartWorker
    <3>1. /\ docs'["api"] = docs["api"] /\ task'["api"] = task["api"]
          /\ handler' = handler
      BY <1>1, <2>2 DEF RestartWorker, Forget, TypeOK
    <3> QED BY <3>1 DEF Current, MayBeListed
  <2> QED BY <1>9, <2>1, <2>2
<1>10. CASE RedisOutage \/ UNCHANGED vars
  BY <1>10 DEF RedisOutage, vars, Current, MayBeListed
<1>11. ASSUME NEW u \in Upload, NEW s \in Source, Accept(u, s)
       PROVE  Current(v) \/ \E a \in Source : Accept(v, a)
  <2>1. CASE u = v
    <3>1. Accept(v, s)
      BY <1>11, <2>1
    <3> QED BY <3>1
  <2>2. CASE u # v
    BY <1>3, <1>11, <2>2
  <2> QED BY <2>1, <2>2
<1>12. ASSUME NEW u \in Upload, HandlerStep(u) \/ Dequeue(u) \/ Cancel(u) \/ Delete(u)
       PROVE  Current(v)
  BY <1>4, <1>5, <1>6, <1>7, <1>12 DEF HandlerStep
<1> QED BY <1>2, <1>8, <1>9, <1>10, <1>11, <1>12 DEF Next

LEMMA NumberedStep ==
  ASSUME Inv, Numbered, [Next]_vars
  PROVE  Numbered'
<1>1. TypeOK /\ Rows
  BY DEF Inv
<1>2. ASSUME NEW u \in Upload, NEW s \in Source, ParseFails(u, s) \/ Accept(u, s)
      PROVE  Numbered'
  <2>1. /\ handler[u] = "new" /\ handler'[u] # "new" /\ ~Current(u)
        /\ \A v \in Upload : v # u => handler'[v] = handler[v]
    <3>1. handler[u] = "new" /\ TakeVersion(u, s)
      BY <1>2 DEF ParseFails, Accept
    <3>2. ~Current(u)
      BY <3>1 DEF Numbered
    <3>3. \E h \in {"refused", "connecting", "enqueueing", "replied"} :
            handler' = [handler EXCEPT ![u] = h]
      BY <1>2 DEF ParseFails, Accept, Dispatch
    <3> QED BY <1>1, <3>1, <3>2, <3>3 DEF TypeOK
  <2>2. /\ meta'[u] = [source |-> s, version |-> versions[s] + 1]
        /\ \A v \in Upload : v # u => meta'[v] = meta[v]
        /\ versions'[s] = versions[s] + 1 /\ versions[s] \in Nat
        /\ \A t \in Source : t # s => versions'[t] = versions[t]
    BY <1>1, <1>2 DEF ParseFails, Accept, TakeVersion, NextVersion, TypeOK
  <2>3. \A v \in Upload : v # u /\ Current(v)' => Current(v)
    <3> SUFFICES ASSUME NEW v \in Upload, v # u, Current(v)' PROVE Current(v)
      OBVIOUS
    <3>1. ASSUME NEW a \in Source, Accept(v, a) PROVE FALSE
      <4>1. handler'[v] # "new" /\ handler[v] = "new"
        BY <1>1, <3>1 DEF Accept, Dispatch, TypeOK
      <4> QED BY <2>1, <4>1
    <3> QED BY <3>1, CurrentStep
  <2>4. \A v \in Upload : meta[v].version \in Nat /\ meta[v].source \in Source
    BY <1>1 DEF TypeOK
  <2>5. ASSUME NEW v \in Upload, Current(v)'
        PROVE  handler'[v] # "new" /\ meta'[v].version <= versions'[meta'[v].source]
    <3>1. CASE v = u
      BY <2>1, <2>2, <3>1
    <3>2. CASE v # u
      <4>1. /\ handler[v] # "new" /\ meta[v].version <= versions[meta[v].source]
        BY <2>3, <2>5, <3>2 DEF Numbered
      <4>2. versions[meta[v].source] \in Nat
        BY <1>1, <2>4 DEF TypeOK
      <4> QED BY <2>1, <2>2, <2>4, <3>2, <4>1, <4>2
    <3> QED BY <3>1, <3>2
  <2>6. ASSUME NEW v \in Upload, NEW w \in Upload, Current(v)', Current(w)', v # w,
               meta'[v].source = meta'[w].source
        PROVE  meta'[v].version # meta'[w].version
    <3>1. ASSUME NEW a \in Upload, a # u, Current(a)', meta'[a].source = s
          PROVE  meta'[a].version < versions[s] + 1
      <4>1. Current(a) /\ meta'[a] = meta[a]
        BY <2>2, <2>3, <3>1
      <4>2. meta[a].version <= versions[s]
        BY <3>1, <4>1 DEF Numbered
      <4> QED BY <2>2, <2>4, <4>1, <4>2
    <3>2. CASE v = u
      BY <2>2, <2>4, <2>6, <3>1, <3>2
    <3>3. CASE w = u
      BY <2>2, <2>4, <2>6, <3>1, <3>3
    <3>4. CASE v # u /\ w # u
      BY <2>2, <2>3, <2>6, <3>4 DEF Numbered
    <3> QED BY <3>2, <3>3, <3>4
  <2> QED BY <2>5, <2>6 DEF Numbered
<1>3. CASE meta' = meta /\ versions' = versions /\ \A u \in Upload : Current(u)' =>
             Current(u) /\ handler'[u] # "new"
  BY <1>3 DEF Numbered
<1>4. ASSUME \A u \in Upload, s \in Source : ~Accept(u, s) /\ ~ParseFails(u, s), ~RestartApi
      PROVE  Numbered'
  <2>1. meta' = meta /\ versions' = versions
    <3>1. ASSUME NEW p \in Proc, NEW u \in Upload, TaskStep(p, u)
          PROVE  meta' = meta /\ versions' = versions
      BY <3>1 DEF TaskStep, Begin, Embedded
    <3>2. ASSUME NEW u \in Upload, HandlerStep(u) \/ Dequeue(u) \/ Cancel(u) \/ Delete(u)
          PROVE  meta' = meta /\ versions' = versions
      BY <3>2 DEF HandlerStep, PoolSettles, Enqueue, Dequeue, Cancel, Delete
    <3> QED BY <1>4, <3>1, <3>2 DEF Next, RestartWorker, RedisOutage, vars
  <2>2. ASSUME NEW v \in Upload, Current(v)' PROVE Current(v)
    BY <1>4, <2>2, CurrentStep
  <2>3. ASSUME NEW v \in Upload, Current(v)' PROVE handler'[v] # "new"
    <3>1. handler[v] # "new"
      BY <2>2, <2>3 DEF Numbered
    <3>2. ASSUME NEW u \in Upload, HandlerStep(u) PROVE handler'[v] # "new"
      BY <1>1, <3>1, <3>2 DEF HandlerStep, PoolSettles, Enqueue, Dispatch, TypeOK
    <3>3. ASSUME NEW u \in Upload, Dequeue(u) \/ Cancel(u) \/ Delete(u)
          PROVE  handler' = handler
      BY <3>3 DEF Dequeue, Cancel, Delete
    <3>4. ASSUME NEW p \in Proc, NEW u \in Upload, TaskStep(p, u) PROVE handler' = handler
      BY <3>4 DEF TaskStep, Begin, Embedded
    <3> QED BY <1>4, <3>1, <3>2, <3>3, <3>4 DEF Next, RestartWorker, RedisOutage, vars
  <2> QED BY <1>3, <2>1, <2>2, <2>3
<1>5. CASE RestartApi
  <2>1. \A v \in Upload : ~Current(v)'
    <3>1. "api" \in Proc
      BY DEF Proc
    <3>2. /\ docs'["api"] = {}
          /\ \A v \in Upload : task'["api"][v].pc = "none" /\ handler'[v] # "connecting"
      BY <1>1, <1>5, <3>1 DEF RestartApi, Forget, TypeOK, NoTask
    <3> QED BY <3>2 DEF Current, MayBeListed
  <2> QED BY <2>1 DEF Numbered
<1> QED BY <1>2, <1>4, <1>5

(* Two listed documents of one file never have the same version.           *)
THEOREM DistinctVersions == Spec => []VersionsDistinct
<1>1. Init => Numbered
  BY DEF Init, Numbered, Current, MayBeListed, NoTask, Proc
<1>2. Inv /\ Numbered /\ [Next]_vars => Numbered'
  BY NumberedStep
<1>3. Inv /\ Numbered => VersionsDistinct
  BY DEF Inv, TypeOK, Proc, Numbered, Current, VersionsDistinct
<1> QED BY <1>1, <1>2, <1>3, Invariance, PTL DEF Spec

-----------------------------------------------------------------------------
(* Jobs only advance.                                                      *)

Advance(old, new) ==
  new.status # "none" =>
    /\ Rank(old.status) = 3 => new = old
    /\ Rank(old.status) <= Rank(new.status)
    /\ new.status = "failed" \/ old.progress <= new.progress

LEMMA AdvanceStep ==
  ASSUME Inv, [Next]_vars, NEW v \in Upload
  PROVE  Advance(jobs["api"][v], jobs'["api"][v])
<1> DEFINE old == jobs["api"][v]
           new == jobs'["api"][v]
<1>1. TypeOK /\ Tasks /\ Row(v) /\ "api" \in Proc /\ "worker" \in Proc
  BY DEF Inv, Rows, Proc
<1>2. old \in Job /\ jobs \in [Proc -> [Upload -> Job]]
  BY <1>1 DEF TypeOK, Job
<1>3. CASE new = old
  <2>1. Rank(old.status) \in 0 .. 3
    BY DEF Rank
  <2>2. old.progress \in Int
    BY <1>2 DEF Job
  <2> QED BY <1>3, <2>1, <2>2 DEF Advance
<1>4. ASSUME NEW u \in Upload, NEW s \in Source, Accept(u, s)
      PROVE  Advance(old, new)
  <2>1. CASE u # v
    <3>1. new = old
      BY <1>1, <1>2, <1>4, <2>1 DEF Accept, SetJob
    <3> QED BY <1>3, <3>1
  <2>2. CASE u = v
    <3>1. old = NoJob
      BY <1>1, <1>4, <2>2 DEF Accept, Row
    <3>2. new = [status |-> "parsing", progress |-> 10]
      BY <1>1, <1>2, <1>4, <2>2 DEF Accept, SetJob
    <3> QED BY <3>1, <3>2 DEF Advance, NoJob, Rank
  <2> QED BY <2>1, <2>2
<1>5. ASSUME NEW p \in Proc, NEW u \in Upload, TaskStep(p, u)
      PROVE  Advance(old, new)
  <2>1. PICK j \in Job, t \in Task : Turn(p, u, j, t)
    BY <1>1, <1>5, TaskTurn
  <2>2. CASE p # "api" \/ u # v
    <3>1. new = old
      BY <1>1, <1>2, <2>1, <2>2 DEF Turn
    <3> QED BY <1>3, <3>1
  <2>3. CASE p = "api" /\ u = v
    <3> DEFINE k == task["api"][v]
    <3>1. new = j
      BY <1>1, <1>2, <2>1, <2>3 DEF Turn
    <3>2. k \in Task /\ (k.pc = "embedding" => k.done < k.total)
      BY <1>1 DEF TypeOK, Task, Tasks, Embedding
    <3>3. CASE Begin("api", v)
      <4>1. old = [status |-> "parsing", progress |-> 10]
        BY <1>1, <3>3 DEF Begin, Row
      <4>2. new = [status |-> "completed", progress |-> 100]
              \/ new = [status |-> "failed", progress |-> 0]
              \/ new = [status |-> "processing", progress |-> 30]
        <5>1. \/ SetJob("api", v, "completed", 100) \/ SetJob("api", v, "failed", 0)
              \/ SetJob("api", v, "processing", 30)
          BY <3>3 DEF Begin, Publish, Fail
        <5> QED BY <1>1, <1>2, <5>1 DEF SetJob
      <4> QED BY <4>1, <4>2 DEF Advance, Rank
    <3>4. CASE Embedded("api", v)
      <4>1. /\ old = [status |-> "processing", progress |-> Progress(k.total, k.done)]
            /\ k.done < k.total
        BY <1>1, <3>2, <3>4 DEF Embedded, Row
      <4>2. new = [status |-> "completed", progress |-> 100]
              \/ new = [status |-> "processing",
                        progress |-> Progress(k.total, k.done + 1)]
        <5>1. \/ SetJob("api", v, "completed", 100)
              \/ SetJob("api", v, "processing", Progress(k.total, k.done + 1))
          BY <3>4 DEF Embedded, Publish
        <5> QED BY <1>1, <1>2, <5>1 DEF SetJob
      <4>3. /\ Progress(k.total, k.done) \in 30 .. 90
            /\ Progress(k.total, k.done) <= Progress(k.total, k.done + 1)
        <5>1. k.total \in Nat /\ k.done \in Nat
          BY <3>2 DEF Task
        <5> QED BY <4>1, <5>1, ProgressBound, ProgressGrows
      <4> HIDE DEF k, old, new
      <4> QED BY <4>1, <4>2, <4>3 DEF Advance, Rank
    <3> QED BY <1>5, <2>3, <3>3, <3>4 DEF TaskStep
  <2> QED BY <2>2, <2>3
<1>6. CASE RestartApi
  <2>1. new = NoJob
    BY <1>1, <1>2, <1>6 DEF RestartApi, Forget
  <2> QED BY <2>1 DEF Advance, NoJob
<1>7. CASE RestartWorker
  <2>1. new = old
    BY <1>1, <1>2, <1>7 DEF RestartWorker, Forget
  <2> QED BY <1>3, <2>1
<1>8. ASSUME NEW u \in Upload,
             \/ HandlerStep(u) \/ Dequeue(u) \/ Cancel(u) \/ Delete(u)
             \/ \E s \in Source : ParseFails(u, s)
      PROVE  Advance(old, new)
  BY <1>3, <1>8 DEF HandlerStep, PoolSettles, Enqueue, Dequeue, Cancel, Delete, ParseFails
<1>9. CASE RedisOutage \/ UNCHANGED vars
  BY <1>3, <1>9 DEF RedisOutage, vars
<1> QED BY <1>4, <1>5, <1>6, <1>7, <1>8, <1>9 DEF Next

(* A job settles once, and its progress never goes back unless it fails.   *)
THEOREM JobsAdvance == Spec => JobsOnlyAdvance
<1>1. ASSUME Inv, [Next]_vars
      PROVE  [\A u \in Upload :
                LET old == jobs["api"][u]
                    new == jobs'["api"][u]
                IN  new.status # "none" =>
                      /\ Rank(old.status) = 3 => new = old
                      /\ Rank(old.status) <= Rank(new.status)
                      /\ new.status = "failed" \/ old.progress <= new.progress]_vars
  BY <1>1, AdvanceStep DEF Advance
<1> QED BY <1>1, Invariance, PTL DEF Spec, JobsOnlyAdvance

-----------------------------------------------------------------------------
(* An upload is with one process.                                          *)

(* The upload is in the hands of the worker: queued, running or stored. *)
Handed(u) == u \in queue \/ task["worker"][u].pc # "none" \/ u \in docs["worker"]
Elsewhere(u) ==
  Handed(u) =>
    /\ handler[u] \in {"replied", "refused"}
    /\ task["api"][u].pc = "none" /\ u \notin docs["api"]

(* A step that hands nothing over and leaves the API's row alone.          *)
LEMMA SameElsewhere ==
  ASSUME NEW u \in Upload, Elsewhere(u), Same(u), Handed(u)' => Handed(u)
  PROVE  Elsewhere(u)'
BY DEF Elsewhere, Same

LEMMA ElsewhereStep ==
  ASSUME Inv, [Next]_vars, NEW v \in Upload, Elsewhere(v)
  PROVE  Elsewhere(v)'
<1>1. TypeOK /\ "api" \in Proc /\ "worker" \in Proc /\ Row(v)
  BY DEF Inv, Rows, Proc
<1>2. ASSUME NEW u \in Upload, NEW s \in Source, ParseFails(u, s) \/ Accept(u, s)
      PROVE  Elsewhere(v)'
  <2>1. /\ queue' = queue /\ docs' = docs /\ handler[u] = "new"
        /\ task'["worker"] = task["worker"]
        /\ v # u => handler'[v] = handler[v] /\ task'["api"][v] = task["api"][v]
    BY <1>1, <1>2 DEF ParseFails, Accept, Dispatch, SetTask, TypeOK
  <2> QED BY <2>1 DEF Elsewhere, Handed
<1>3. ASSUME NEW u \in Upload, PoolSettles(u) PROVE Elsewhere(v)'
  <2>1. /\ queue' = queue /\ docs' = docs /\ handler[u] = "connecting"
        /\ task'["worker"] = task["worker"]
        /\ v # u => handler'[v] = handler[v] /\ task'["api"][v] = task["api"][v]
    BY <1>1, <1>3 DEF PoolSettles, Dispatch, SetTask, TypeOK
  <2> QED BY <2>1 DEF Elsewhere, Handed
<1>4. ASSUME NEW u \in Upload, Enqueue(u) PROVE Elsewhere(v)'
  <2>1. /\ task' = task /\ docs' = docs /\ handler[u] = "enqueueing"
        /\ queue' \subseteq queue \cup {u}
        /\ v # u => handler'[v] = handler[v]
        /\ handler'[u] \in {"replied", "refused"}
    BY <1>1, <1>4 DEF Enqueue, TypeOK
  <2>2. CASE v = u
    BY <1>1, <2>1, <2>2 DEF Elsewhere, Row
  <2>3. CASE v # u
    BY <2>1, <2>3 DEF Elsewhere, Handed
  <2> QED BY <2>2, <2>3
<1>5. ASSUME NEW u \in Upload, Dequeue(u) \/ Cancel(u) PROVE Elsewhere(v)'
  <2>1. /\ queue' \subseteq queue /\ docs' = docs /\ handler' = handler
        /\ task'["api"] = task["api"]
        /\ v # u => task'["worker"][v] = task["worker"][v]
        /\ u \in queue \/ task["worker"][u].pc # "none"
    BY <1>1, <1>5 DEF Dequeue, Cancel, Settle, SetTask, TypeOK
  <2> QED BY <2>1 DEF Elsewhere, Handed
<1>6. ASSUME NEW u \in Upload, Delete(u) PROVE Elsewhere(v)'
  <2>1. /\ queue' = queue /\ task' = task /\ handler' = handler
        /\ docs'["worker"] = docs["worker"] /\ docs'["api"] \subseteq docs["api"]
    BY <1>1, <1>6 DEF Delete, TypeOK
  <2> QED BY <2>1 DEF Elsewhere, Handed
<1>7. ASSUME NEW p \in Proc, NEW u \in Upload, TaskStep(p, u) PROVE Elsewhere(v)'
  <2>1. PICK j \in Job, t \in Task : Turn(p, u, j, t)
    BY <1>7, TaskTurn DEF Inv
  <2>2. task[p][u].pc # "none"
    BY <1>7, TaskTurn DEF Inv
  <2>3. queue' \subseteq queue /\ handler' = handler
    BY <2>1 DEF Turn
  <2>4. \A q \in Proc : q # p => task'[q] = task[q] /\ docs'[q] = docs[q]
    <3>1. docs' = docs \/ docs' = [docs EXCEPT ![p] = @ \cup {u}]
      BY <2>1 DEF Turn, Stored, Failed, GoesOn
    <3> QED BY <1>1, <2>1, <3>1 DEF Turn, TypeOK
  <2>5. v # u => /\ task'[p][v] = task[p][v]
                 /\ v \in docs'[p] <=> v \in docs[p]
    <3>1. docs' = docs \/ docs' = [docs EXCEPT ![p] = @ \cup {u}]
      BY <2>1 DEF Turn, Stored, Failed, GoesOn
    <3> QED BY <1>1, <2>1, <3>1 DEF Turn, TypeOK
  <2>6. CASE p = "api"
    BY <1>1, <2>2, <2>3, <2>4, <2>5, <2>6 DEF Elsewhere, Handed
  <2>7. CASE p = "worker"
    BY <1>1, <2>2, <2>3, <2>4, <2>5, <2>7 DEF Elsewhere, Handed
  <2> QED BY <2>6, <2>7 DEF Proc
<1>8. CASE RestartApi
  <2>1. /\ queue' = queue /\ docs'["api"] = {} /\ docs'["worker"] = docs["worker"]
        /\ task'["api"][v].pc = "none" /\ task'["worker"] = task["worker"]
        /\ handler[v] \in {"replied", "refused"} => handler'[v] = handler[v]
    BY <1>1, <1>8 DEF RestartApi, Forget, NoTask, TypeOK
  <2> QED BY <2>1 DEF Elsewhere, Handed
<1>9. CASE RestartWorker
  <2>1. /\ queue' = queue /\ docs'["worker"] = {} /\ docs'["api"] = docs["api"]
        /\ task'["worker"][v].pc = "none" /\ task'["api"] = task["api"]
        /\ handler' = handler
    BY <1>1, <1>9 DEF RestartWorker, Forget, NoTask, TypeOK
  <2> QED BY <2>1 DEF Elsewhere, Handed
<1>10. CASE RedisOutage \/ UNCHANGED vars
  BY <1>10, SameElsewhere DEF RedisOutage, vars, Same, Handed
<1>11. ASSUME NEW u \in Upload, HandlerStep(u) \/ Dequeue(u) \/ Cancel(u) \/ Delete(u)
       PROVE  Elsewhere(v)'
  BY <1>3, <1>4, <1>5, <1>6, <1>11 DEF HandlerStep
<1> QED BY <1>2, <1>7, <1>8, <1>9, <1>10, <1>11 DEF Next

(* An upload that Redis took, also one whose enqueue raised, is neither    *)
(* processed nor listed by the API process.                                *)
THEOREM OneProcess == Spec => []NeverInBothProcesses
<1> DEFINE All == \A u \in Upload : Elsewhere(u)
<1>1. Init => All
  BY DEF Init, Elsewhere, Handed, NoTask, Proc
<1>2. Inv /\ All /\ [Next]_vars => All'
  BY ElsewhereStep
<1>3. All => NeverInBothProcesses
  BY DEF Elsewhere, Handed, NeverInBothProcesses
<1> HIDE DEF All
<1> QED BY <1>1, <1>2, <1>3, Invariance, PTL DEF Spec

-----------------------------------------------------------------------------
(* Ingestion implements Catalog.                                           *)

Replied == {u \in Upload : handler[u] = "replied"}
Running == {u \in Upload : task["api"][u].pc # "none"}
Listed == docs["api"]
Quiet == Replied' = Replied /\ Running' = Running /\ Listed' = Listed

(* A request that goes on: it is answered, with a task of its own or       *)
(* without, or nothing a client sees has changed.                          *)
LEMMA RequestStep ==
  ASSUME Inv, NEW u \in Upload, handler[u] \in {"new", "connecting", "enqueueing"},
         docs' = docs,
         \A v \in Upload : v # u =>
           handler'[v] = handler[v] /\ task'["api"][v] = task["api"][v],
         \/ handler'[u] # "replied" /\ task'["api"][u] = task["api"][u]
         \/ handler'[u] = "replied"
  PROVE  C!Accept(u) \/ Quiet
<1>1. task["api"][u].pc = "none" /\ u \notin Replied /\ u \notin Running
  BY DEF Inv, Rows, Row, Replied, Running
<1>2. CASE handler'[u] # "replied" /\ task'["api"][u] = task["api"][u]
  BY <1>1, <1>2 DEF Quiet, Replied, Running, Listed
<1>3. CASE handler'[u] = "replied"
  <2>1. Replied' = Replied \cup {u}
    BY <1>3 DEF Replied
  <2>2. Running' = Running \/ Running' = Running \cup {u}
    <3>1. \A v \in Upload : v # u => (v \in Running' <=> v \in Running)
      BY DEF Running
    <3>2. Running \subseteq Upload /\ Running' \subseteq Upload
      BY DEF Running
    <3> QED BY <1>1, <3>1, <3>2
  <2> QED BY <1>1, <2>1, <2>2 DEF C!Accept, Replied, Running
<1> QED BY <1>2, <1>3

LEMMA CatalogStep ==
  ASSUME Inv, [Next]_vars
  PROVE  C!Next \/ Quiet
<1>1. /\ TypeOK /\ Rows /\ "api" \in Proc /\ "worker" \in Proc
      /\ \A v \in Upload : Row(v)
  BY DEF Inv, Rows, Proc
<1>2. ASSUME NEW u \in Upload, NEW s \in Source, ParseFails(u, s) \/ Accept(u, s)
      PROVE  C!Accept(u) \/ Quiet
  <2>1. /\ handler[u] = "new" /\ docs' = docs
        /\ \A v \in Upload : v # u =>
             handler'[v] = handler[v] /\ task'["api"][v] = task["api"][v]
        /\ \/ handler'[u] # "replied" /\ task'["api"][u] = task["api"][u]
           \/ handler'[u] = "replied"
    <3>1. CASE ParseFails(u, s)
      BY <1>1, <3>1 DEF ParseFails, TypeOK
    <3>2. CASE Accept(u, s) /\ pool = "none"
      BY <1>1, <3>2 DEF Accept, TypeOK
    <3>3. CASE Accept(u, s) /\ pool # "none"
      BY <1>1, <3>3 DEF Accept, Dispatch, SetTask, TypeOK
    <3> QED BY <1>2, <3>1, <3>2, <3>3
  <2> QED BY <2>1, RequestStep
<1>3. ASSUME NEW u \in Upload, HandlerStep(u) PROVE C!Accept(u) \/ Quiet
  <2>1. /\ handler[u] \in {"connecting", "enqueueing"} /\ docs' = docs
        /\ \A v \in Upload : v # u =>
             handler'[v] = handler[v] /\ task'["api"][v] = task["api"][v]
        /\ \/ handler'[u] # "replied" /\ task'["api"][u] = task["api"][u]
           \/ handler'[u] = "replied"
    <3>1. CASE PoolSettles(u)
      BY <1>1, <3>1 DEF PoolSettles, Dispatch, SetTask, TypeOK
    <3>2. CASE Enqueue(u)
      BY <1>1, <3>2 DEF Enqueue, TypeOK
    <3> QED BY <1>3, <3>1, <3>2 DEF HandlerStep
  <2> QED BY <2>1, RequestStep
<1>4. ASSUME NEW u \in Upload, Dequeue(u) \/ Cancel(u) PROVE Quiet
  <2>1. docs' = docs /\ handler' = handler
    BY <1>4 DEF Dequeue, Cancel
  <2>2. task'["api"] = task["api"]
    BY <1>1, <1>4 DEF Dequeue, Cancel, SetTask, TypeOK
  <2> QED BY <2>1, <2>2 DEF Quiet, Replied, Running, Listed
<1>5. ASSUME NEW u \in Upload, Delete(u) PROVE C!Remove(u) \/ Quiet
  <2>1. Listed' = Listed \ {u} /\ Replied' = Replied /\ Running' = Running
    BY <1>1, <1>5 DEF Delete, TypeOK, Listed, Replied, Running
  <2>2. CASE u \in Listed
    BY <2>1, <2>2 DEF C!Remove, Listed, Replied, Running
  <2>3. CASE u \notin Listed
    BY <2>1, <2>3 DEF Quiet
  <2> QED BY <2>2, <2>3
<1>6. ASSUME NEW p \in Proc, NEW u \in Upload, TaskStep(p, u)
      PROVE  C!Publish(u) \/ C!Drop(u) \/ Quiet
  <2>1. PICK j \in Job, t \in Task : Turn(p, u, j, t)
    BY <1>1, <1>6, TaskTurn DEF Inv
  <2>2. task[p][u].pc # "none"
    BY <1>1, <1>6, TaskTurn DEF Inv
  <2>3. handler' = handler /\ Replied' = Replied
    BY <2>1 DEF Turn, Replied
  <2>4. docs' = docs \/ docs' = [docs EXCEPT ![p] = @ \cup {u}]
    BY <2>1 DEF Turn, Stored, Failed, GoesOn
  <2>5. CASE p = "worker"
    <3>1. task'["api"] = task["api"]
      BY <1>1, <2>1, <2>5 DEF Turn, TypeOK
    <3>2. Listed' = Listed
      BY <1>1, <2>4, <2>5 DEF TypeOK, Listed
    <3> QED BY <2>3, <3>1, <3>2 DEF Quiet, Running
  <2>6. CASE p = "api"
    <3>1. u \in Running
      BY <2>2, <2>6 DEF Running
    <3>2. /\ task'["api"][u] = t
          /\ \A v \in Upload : v # u => task'["api"][v] = task["api"][v]
      BY <1>1, <2>1, <2>6 DEF Turn, TypeOK
    <3>3. CASE GoesOn(j, t)
      <4>1. Running' = Running
        BY <2>2, <2>6, <3>2, <3>3 DEF GoesOn, Running
      <4> QED BY <2>3, <3>3, <4>1 DEF Quiet, GoesOn, Listed
    <3>4. CASE t = NoTask
      <4>1. Running' = Running \ {u}
        BY <3>1, <3>2, <3>4 DEF NoTask, Running
      <4>2. docs'["api"] = docs["api"] \/ docs'["api"] = docs["api"] \cup {u}
        BY <1>1, <2>4, <2>6 DEF TypeOK
      <4>3. CASE docs'["api"] = docs["api"]
        BY <2>3, <3>1, <4>1, <4>3 DEF C!Drop, Replied, Running
      <4>4. CASE docs'["api"] = docs["api"] \cup {u}
        BY <2>3, <3>1, <4>1, <4>4 DEF C!Publish, Replied, Running
      <4> QED BY <4>2, <4>3, <4>4
    <3> QED BY <2>1, <3>3, <3>4 DEF Turn, Stored, Failed
  <2> QED BY <2>5, <2>6 DEF Proc
<1>7. CASE RestartApi
  <2>1. /\ docs'["api"] = {} /\ \A v \in Upload : task'["api"][v].pc = "none"
        /\ \A v \in Upload : handler'[v] = "replied" <=> handler[v] = "replied"
    BY <1>1, <1>7 DEF RestartApi, Forget, TypeOK, NoTask
  <2>2. Replied' = Replied /\ Running' = {}
    BY <2>1 DEF Replied, Running
  <2> QED BY <2>1, <2>2 DEF C!Next, C!Restart, Replied, Running
<1>8. CASE RestartWorker
  <2>1. docs'["api"] = docs["api"] /\ task'["api"] = task["api"] /\ handler' = handler
    BY <1>1, <1>8 DEF RestartWorker, Forget, TypeOK
  <2> QED BY <2>1 DEF Quiet, Replied, Running, Listed
<1>9. CASE RedisOutage \/ UNCHANGED vars
  BY <1>9 DEF RedisOutage, vars, Quiet, Replied, Running, Listed
<1>10. ASSUME NEW u \in Upload, HandlerStep(u) \/ Dequeue(u) \/ Cancel(u) \/ Delete(u)
       PROVE  C!Next \/ Quiet
  BY <1>3, <1>4, <1>5, <1>10 DEF C!Next
<1>11. ASSUME NEW u \in Upload, NEW s \in Source, ParseFails(u, s) \/ Accept(u, s)
       PROVE  C!Next \/ Quiet
  BY <1>2, <1>11 DEF C!Next
<1>12. ASSUME NEW p \in Proc, NEW u \in Upload, TaskStep(p, u)
       PROVE  C!Next \/ Quiet
  BY <1>6, <1>12 DEF C!Next
<1> QED BY <1>7, <1>8, <1>9, <1>10, <1>11, <1>12 DEF Next

(* A document is listed at most once, after its own upload was answered.   *)
THEOREM CatalogRefinement == Spec => ImplementsCatalog
<1>1. Init => C!Init
  BY DEF Init, C!Init, NoTask, Proc
<1>2. Inv /\ [Next]_vars => C!Next \/ UNCHANGED <<Replied, Running, Listed>>
  BY CatalogStep DEF Quiet
<1>3. Inv /\ [Next]_vars =>
        [C!Next]_<<{u \in Upload : handler[u] = "replied"},
                   {u \in Upload : task["api"][u].pc # "none"}, docs["api"]>>
  BY <1>2 DEF Replied, Running, Listed
<1> QED BY <1>1, <1>3, Invariance, PTL DEF Spec, ImplementsCatalog, C!Spec
=============================================================================
