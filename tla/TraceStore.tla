----------------------------- MODULE TraceStore -----------------------------
(***************************************************************************)
(* The trace service (services/trace-service): POST /traces/ingest fills   *)
(* an OrderedDict of traces, bounded by _MAX_TRACES and evicting the       *)
(* oldest; GET /traces/costs and /alerts add up what it holds; POST        *)
(* /traces/{id}/replay asks the retrieval service the queries of a trace   *)
(* again, whose answers come back as new traces.                           *)
(*                                                                         *)
(* The loop of ingest_spans has no await: nothing else runs between its    *)
(* iterations, though a crash may.  Each iteration is an action, and the   *)
(* others wait for rest = <<>>.  A dry-run replay, a listing and a search  *)
(* change nothing and have no action.                                      *)
(***************************************************************************)
EXTENDS DbFlag, Integers, Sequences, FiniteSetsExt

CONSTANTS
  Trace,       \* trace ids
  ClientOp,    \* operations of the spans that clients send
  Price,       \* Price[op]: the cost and token attributes of a span
  MaxTraces,   \* _MAX_TRACES
  Replay,      \* bound: replay requests at a time
  MaxSpans,    \* bound: spans ever ingested
  MaxBatch,    \* bound: spans of one request
  MaxRunning   \* bound: retrieval queries that replays have running

Op == ClientOp \cup {"answer_generation"}

ASSUME TracesAssumption == MaxTraces \in Nat \ {0}
ASSUME SpansAssumption == MaxSpans \in Nat /\ MaxBatch \in Nat
ASSUME RunningAssumption == MaxRunning \in Nat
ASSUME PriceAssumption == Price \in [Op -> [usd : Nat, tokens : Nat]]

Span == [trace : Trace, op : Op]

VARIABLES
  order,    \* keys of _traces_store, the oldest first
  spans,    \* spans[t]: positions in the log of the spans held for t
  rest,     \* what is left of the batch being ingested
  rows,     \* positions of the spans in the table trace_spans
  replay,   \* replay[r]: a replay request
  running,  \* retrieval queries that replays started and that still run
  log,      \* history: every span ever ingested
  births,   \* history: the trace of each creation since the process began
  gone      \* history: positions of the spans that were held and no longer are

storeVars == <<order, spans, rest, rows, replay, running, log, births, gone>>
vars == <<dbVars, storeVars>>

Held == {order[k] : k \in DOMAIN order}
NoSpans == [t \in {} |-> <<>>]
NoReplay == [pc |-> "idle", plan |-> {}, called |-> {}]

Init ==
  /\ DbInit
  /\ order = <<>> /\ spans = NoSpans
  /\ rest = <<>> /\ rows = {}
  /\ replay = [r \in Replay |-> NoReplay]
  /\ running = 0
  /\ log = <<>> /\ births = <<>> /\ gone = {}

Serving == phase = "serving" /\ rest = <<>>

PositionsOf(s) == {s[k] : k \in DOMAIN s}
Usd(n) == Price[log[n].op].usd

(* A span with neither cost nor tokens is passed over.                     *)
Mut_Counted(n) == Price[log[n].op].usd > 0 /\ Price[log[n].op].tokens > 0
Counted(n) == Price[log[n].op].usd > 0 \/ Price[log[n].op].tokens > 0

SpansOf(ts) == UNION {PositionsOf(spans[t]) : t \in ts}

(* total_usd of get_costs, which also decides the budget alert.            *)
TotalUsd == MapThenSumSet(Usd, {n \in SpansOf(Held) : Counted(n)})

-----------------------------------------------------------------------------
(* POST /traces/ingest.                                                    *)

Receive(batch) ==
  /\ Serving
  /\ Len(log) + Len(batch) <= MaxSpans
  /\ rest' = batch
  /\ UNCHANGED <<dbVars, order, spans, rows, replay, running, log, births, gone>>

(* One `popitem(last=False)`: the store grows by one trace at a time, so   *)
(* the while loop of __setitem__ runs at most once.                        *)
Mut_TrimmedLate(keys) == IF Len(keys) > MaxTraces + 1 THEN Tail(keys) ELSE keys
Trimmed(keys) == IF Len(keys) > MaxTraces THEN Tail(keys) ELSE keys

(* _traces_store[t] = [], then the append of span n.  The key is new, so   *)
(* move_to_end does nothing.                                               *)
Create(t, n) ==
  /\ order' = Trimmed(Append(order, t))
  /\ spans' = [x \in Held' |-> IF x = t THEN <<n>> ELSE spans[x]]
  /\ births' = Append(births, t)
  /\ gone' = gone \cup SpansOf(Held \ Held')

Mut_ExtendMovesToEnd(t, n) ==
  /\ order' = Append(SelectSeq(order, LAMBDA x : x # t), t)
  /\ spans' = [spans EXCEPT ![t] = Append(@, n)]
  /\ UNCHANGED <<births, gone>>
Mut_ExtendFront(t, n) ==
  /\ spans' = [spans EXCEPT ![t] = <<n>> \o @]
  /\ UNCHANGED <<order, births, gone>>
Extend(t, n) ==
  /\ spans' = [spans EXCEPT ![t] = Append(@, n)]
  /\ UNCHANGED <<order, births, gone>>

Mut_IngestAlwaysSets ==
  /\ rest # <<>>
  /\ LET n == Len(log) + 1
         t == Head(rest).trace
     IN  /\ log' = Append(log, Head(rest))
         /\ \/ /\ t \in Held
               /\ spans' = [spans EXCEPT ![t] = <<n>>]
               /\ UNCHANGED <<order, births, gone>>
            \/ t \notin Held /\ Create(t, n)
         /\ rows' = IF copied THEN rows \cup {n} ELSE rows
  /\ rest' = Tail(rest)
  /\ UNCHANGED <<dbVars, replay, running>>

(* If the imported flag says so, the rows of the batch are written after   *)
(* the loop, in one transaction; here each with its span.  That branch is  *)
(* never reached (SqlUnreachable).                                         *)
IngestNext ==
  /\ rest # <<>>
  /\ LET n == Len(log) + 1
         t == Head(rest).trace
     IN  /\ log' = Append(log, Head(rest))
         /\ \/ t \in Held /\ Extend(t, n)
            \/ t \notin Held /\ Create(t, n)
         /\ rows' = IF copied THEN rows \cup {n} ELSE rows
  /\ rest' = Tail(rest)
  /\ UNCHANGED <<dbVars, replay, running>>

-----------------------------------------------------------------------------
(* POST /traces/{trace_id}/replay with dry_run = false.                    *)

(* Spans of service retrieval-service, operation "query", with a text.     *)
Queries(plan) == {n \in plan : log[n].op = "query"}

(* The loop over the operations up to its next call, or to the answer; the *)
(* order is that of the clients' start times.  A call may fail to reach    *)
(* the retrieval service.                                                  *)
Proceed(r, plan, called) ==
  \/ /\ Queries(plan) \subseteq called
     /\ replay' = [replay EXCEPT ![r] =
                     [pc |-> "done", plan |-> plan, called |-> called]]
     /\ UNCHANGED running
  \/ \E n \in Queries(plan) \ called :
       /\ replay' = [replay EXCEPT ![r] =
                       [pc |-> "calling", plan |-> plan, called |-> called \cup {n}]]
       /\ running' \in {running, running + 1} \cap 0 .. MaxRunning

(* The spans are copied before the first await.  A trace that is not held  *)
(* has none, and the answer says not_found.                                *)
StartReplay(r, t) ==
  /\ Serving
  /\ replay[r].pc # "calling"
  /\ Proceed(r, IF t \in Held THEN PositionsOf(spans[t]) ELSE {}, {})
  /\ UNCHANGED <<dbVars, order, spans, rest, rows, log, births, gone>>

(* An answer, an error, or the timeout of 2 s, which leaves the query      *)
(* running: all are swallowed.                                             *)
Mut_CallRereads(r) ==
  /\ Serving
  /\ replay[r].pc = "calling"
  /\ \E t \in {log[n].trace : n \in replay[r].plan} :
       Proceed(r, replay[r].plan \cup IF t \in Held THEN PositionsOf(spans[t]) ELSE {},
               replay[r].called)
  /\ UNCHANGED <<dbVars, order, spans, rest, rows, log, births, gone>>
Mut_CallWithoutTimeout(r) ==
  /\ Serving
  /\ replay[r].pc = "calling"
  /\ running = 0
  /\ Proceed(r, replay[r].plan, replay[r].called)
  /\ UNCHANGED <<dbVars, order, spans, rest, rows, log, births, gone>>
CallSettles(r) ==
  /\ Serving
  /\ replay[r].pc = "calling"
  /\ Proceed(r, replay[r].plan, replay[r].called)
  /\ UNCHANGED <<dbVars, order, spans, rest, rows, log, births, gone>>

(* The retrieval service ends such a query, perhaps long after the replay, *)
(* and reports its cost under a new uuid4; if it refused to answer, or its *)
(* report fails, nothing comes.                                            *)
RetrievalReports(t) ==
  /\ Serving
  /\ running > 0
  /\ Len(log) < MaxSpans
  /\ t \notin {log[n].trace : n \in DOMAIN log}
  /\ rest' = <<[trace |-> t, op |-> "answer_generation"]>>
  /\ running' = running - 1
  /\ UNCHANGED <<dbVars, order, spans, rows, replay, log, births, gone>>

RetrievalEnds ==
  /\ running > 0
  /\ rest = <<>>
  /\ running' = running - 1
  /\ UNCHANGED <<dbVars, order, spans, rest, rows, replay, log, births, gone>>

-----------------------------------------------------------------------------
(* A crash, perhaps in the middle of a batch: the table and the retrieval  *)
(* service go on.                                                          *)
Restart ==
  /\ DbRestart
  /\ order' = <<>> /\ spans' = NoSpans
  /\ rest' = <<>>
  /\ replay' = [r \in Replay |-> NoReplay]
  /\ births' = <<>>
  /\ gone' = gone \cup SpansOf(Held)
  /\ UNCHANGED <<rows, running, log>>

ClientSpan == [trace : Trace, op : ClientOp]
Batch == UNION {[1 .. k -> ClientSpan] : k \in 1 .. MaxBatch}

Next ==
  \/ rest = <<>> /\ DbNext /\ UNCHANGED storeVars
  \/ \E batch \in Batch : Receive(batch)
  \/ IngestNext
  \/ \E r \in Replay : CallSettles(r) \/ \E t \in Trace : StartReplay(r, t)
  \/ \E t \in Trace : RetrievalReports(t)
  \/ RetrievalEnds
  \/ Restart

Spec == Init /\ [][Next]_vars

(* The event loop finishes its turn; a call ends after 2 s at the latest.  *)
(* Nothing is assumed of clients, of the retrieval service or of restarts. *)
FairSpec ==
  /\ Spec
  /\ WF_vars(IngestNext)
  /\ \A r \in Replay : WF_vars(CallSettles(r))
-----------------------------------------------------------------------------
(* Properties.                                                             *)

(* Every variable has its type; the keys are distinct and within the cap,  *)
(* a running replay is at a query of its plan.                             *)
TypeOK ==
  /\ DbTypeOK
  /\ log \in Seq(Span)
  /\ order \in Seq(Trace) /\ Len(order) <= MaxTraces
  /\ \A j, k \in DOMAIN order : order[j] = order[k] => j = k
  /\ spans \in [Held -> Seq(DOMAIN log)]
  /\ rest \in Seq(Span)
  /\ rows \subseteq DOMAIN log /\ gone \subseteq DOMAIN log
  /\ replay \in [Replay -> [pc : {"idle", "calling", "done"},
                            plan : SUBSET DOMAIN log, called : SUBSET DOMAIN log]]
  /\ \A r \in Replay : replay[r].called \subseteq Queries(replay[r].plan)
  /\ running \in 0 .. MaxRunning
  /\ births \in Seq(Trace)

(* GET /traces/{id} shows a trace without a gap: from the span that        *)
(* created its entry on, every span of the trace, in order, whatever was   *)
(* evicted and created again in between.                                   *)
HeldWithoutGap ==
  \A t \in Held :
    /\ spans[t] # <<>>
    /\ \A j, k \in DOMAIN spans[t] : j < k => spans[t][j] < spans[t][k]
    /\ PositionsOf(spans[t]) =
         {n \in DOMAIN log : n >= spans[t][1] /\ log[n].trace = t}

(* Every span ever ingested is held by one trace or was evicted or         *)
(* forgotten by a restart, never both: none is dropped or counted twice.   *)
Partition ==
  /\ SpansOf(Held) \cup gone = DOMAIN log
  /\ SpansOf(Held) \cap gone = {}

(* /traces/costs and the budget alert see all that was spent and is not    *)
(* gone: evictions in the middle of a batch lose exactly what they evict.  *)
CostsAccounted ==
  TotalUsd + MapThenSumSet(Usd, gone) = MapThenSumSet(Usd, DOMAIN log)

(* The spans of one trace, without a gap.                                  *)
Snapshot(plan) ==
  \A n \in plan, m \in DOMAIN log :
    /\ m \in plan => log[m].trace = log[n].trace
    /\ m < n /\ log[m].trace = log[n].trace /\ (\E k \in plan : k < m) => m \in plan

(* What a replay works on is what the trace held at one moment, although   *)
(* spans are appended and the trace may be evicted and created again while *)
(* the replay waits for its calls, by its own calls even.                  *)
ReplayIsSnapshot == \A r \in Replay : Snapshot(replay[r].plan)

(* Every replay is answered, also if the retrieval service never is done.  *)
ReplayEnds == \A r \in Replay : replay[r].pc = "calling" ~> replay[r].pc # "calling"

(* The store is a window over the creations of traces.                     *)
Window == INSTANCE TraceWindow WITH Cap <- MaxTraces, Position <- 1 .. MaxSpans,
                                    got <- spans
ImplementsTraceWindow == Window!Spec
=============================================================================
