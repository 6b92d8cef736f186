----------------------------- MODULE Retrieval ------------------------------
(***************************************************************************)
(* The retrieval service: imports into the in-memory index, and searches   *)
(* and queries that await an embedding, an answer of the LLM and, in       *)
(* index.py, SQL.                                                          *)
(*                                                                         *)
(* hybrid.py tests the copied flag, so imports and searches use memory     *)
(* (DbFlag: SqlUnreachable); the lookups behind citations import the flag  *)
(* when they are called and go to the tables while it is live.  Nothing    *)
(* ever writes these tables: a lookup finds no rows, or fails.             *)
(***************************************************************************)
EXTENDS DbFlag, Ranking

CONSTANTS
  Query,     \* bound: requests, each sent once
  User,      \* the requests among them that users send
  Request,   \* what users send: which route (kind), question, top_k
  Batch,     \* bodies of POST /retrieve/import: sets of documents and of chunks
  MetaTitle  \* MetaTitle[x]: the title in the metadata of a chunk x, or "Document"

ASSUME UserAssumption == User \subseteq Query
ASSUME RequestAssumption ==
  \A req \in Request :
    req.kind \in {"search", "query"} /\ req.ask \in Question /\ req.top \in Nat \ {0}

(* The chunks that imports bring; a batch has at most one for an id.       *)
Imported == UNION {{b.chunks[i] : i \in DOMAIN b.chunks} : b \in Batch}

ASSUME BatchAssumption ==
  /\ \A c \in Imported : c.content \in Content /\ c.embedded \in BOOLEAN
  /\ \A b \in Batch :
       /\ b.chunks \in Seq(Imported)
       /\ \A i, j \in DOMAIN b.chunks : b.chunks[i].id = b.chunks[j].id => i = j

VARIABLES
  index,    \* InMemoryIndex: chunks in the order of insertion, titles of documents
  query,    \* query[q]: a request to /retrieve/search or /retrieve/query
  window    \* window[q]: history: the chunks the index held since the search of q

retVars == <<index, query, window>>

NewQuery == [pc |-> "idle", kind |-> "query", ask |-> CHOOSE a \in Question : TRUE,
             top |-> 1, results |-> <<>>, cited |-> <<>>]

Awaiting == {"embedding", "generating", "chunkRows", "docRows", "tracing"}
InFlight(q) == query[q].pc \in Awaiting
Searched(q) == InFlight(q) /\ query[q].pc # "embedding"

(* What identifies a version of a chunk.                                   *)
Version(c) == [id |-> c.id, doc |-> c.doc, content |-> c.content]
Versions(chunks) == {Version(chunks[i]) : i \in DOMAIN chunks}

RetInit ==
  /\ DbInit
  /\ index = [chunks |-> <<>>, docs |-> <<>>]
  /\ query = [q \in Query |-> NewQuery]
  /\ window = [q \in Query |-> {}]

Serving == phase = "serving"

(* Entries of a dict are replaced in place, new ones come last.            *)
Mut_StoredAgain(chunks, new) == chunks \o new
Stored(chunks, new) ==
  LET latest(c) == IF c.id \in Ids(new)
                     THEN new[CHOOSE i \in DOMAIN new : new[i].id = c.id] ELSE c
  IN  [i \in DOMAIN chunks |-> latest(chunks[i])]
        \o Kept(new, {i \in DOMAIN new : new[i].id \notin Ids(chunks)})

Titles(docs, new) ==
  [d \in DOMAIN docs \cup DOMAIN new |-> IF d \in DOMAIN new THEN new[d] ELSE docs[d]]

(* POST /retrieve/import, in one turn.                                     *)
ImportData(batch) ==
  /\ Serving
  /\ index' = [chunks |-> Stored(index.chunks, batch.chunks),
               docs   |-> Titles(index.docs, batch.docs)]
  /\ window' = [q \in Query |-> IF Searched(q)
                                  THEN window[q] \cup Versions(index'.chunks)
                                  ELSE window[q]]
  /\ UNCHANGED <<dbVars, query>>

Advance(q, new) == query' = [query EXCEPT ![q] = new]

(* A request that has ended leaves its response, of which only the         *)
(* citations matter.                                                       *)
Ended(req, pc) == [NewQuery EXCEPT !.pc = pc, !.cited = req.cited]

(* What follows the search: its response, a refusal or the call of the LLM. *)
Found(req, results) ==
  IF req.kind = "search" THEN Ended(req, "answered")
  ELSE IF CheckRefusal(results) THEN Ended(req, "refused")
  ELSE [req EXCEPT !.pc = "generating", !.results = results]

(* A request arrives.  An empty index is not searched: no embedding is     *)
(* awaited.                                                                *)
Ask(q, req) ==
  /\ Serving
  /\ query[q].pc = "idle"
  /\ LET new == [NewQuery EXCEPT !.pc = "embedding", !.kind = req.kind,
                                 !.ask = req.ask, !.top = req.top]
     IN  Advance(q, IF index.chunks = <<>> THEN Found(new, <<>>) ELSE new)
  /\ UNCHANGED <<dbVars, index, window>>

(* search, from the embedding of the question, or the failure to get one,  *)
(* on: one turn on the index of now.  (The lists are bound by \E, so that   *)
(* TLC evaluates each of them once.)                                       *)
Embedded(q) ==
  /\ query[q].pc = "embedding"
  /\ UNCHANGED <<dbVars, index>>
  /\ \E vector \in {VectorSearch(index.chunks, query[q].ask, query[q].top), <<>>},
        keyword \in {KeywordSearch(index.chunks, query[q].ask, query[q].top)} :
     \E order \in {FusedOrder(Both(vector, keyword), vector, keyword)} :
     \E fused \in {Fused(order, keyword)} :
     \E results \in {Top(Reranked(fused, query[q].ask), query[q].top)} :
       Advance(q, Found(query[q], results))
  /\ window' = [window EXCEPT ![q] = IF query'[q].pc = "generating"
                                       THEN Versions(index.chunks) ELSE {}]

(* The title of the document in memory, or else of the chunk itself.       *)
TitleOf(c) == IF c.doc \in DOMAIN index.docs THEN index.docs[c.doc] ELSE MetaTitle[c.content]

(* The citation of a result: of the chunk a lookup has found, or else of   *)
(* the result itself.                                                      *)
Citation(r, chunks) ==
  LET c == IF r.id \in Ids(chunks)
             THEN chunks[CHOOSE i \in DOMAIN chunks : chunks[i].id = r.id]
             ELSE r
  IN  [id |-> c.id, doc |-> c.doc, content |-> c.content, title |-> TitleOf(c)]

Mut_CiteFoundOnly(req, chunks) ==
  LET used  == Top(req.results, 3)
      found == Kept(used, {i \in DOMAIN used : used[i].id \in Ids(chunks)})
  IN  [req EXCEPT !.pc = "tracing",
                  !.cited = [i \in DOMAIN found |-> Citation(found[i], chunks)]]
Cite(req, chunks) ==
  LET used == Top(req.results, 3)
  IN  [req EXCEPT !.pc = "tracing",
                  !.cited = [i \in DOMAIN used |-> Citation(used[i], chunks)]]

(* The LLM has answered, or failed and excerpts stand in for its answer;   *)
(* then the chunks are looked up where the live flag points.               *)
Mut_GeneratedRetries(q) ==
  /\ query[q].pc = "generating"
  /\ \/ Advance(q, IF live THEN [query[q] EXCEPT !.pc = "chunkRows"]
                           ELSE Cite(query[q], index.chunks))
     \/ Advance(q, [query[q] EXCEPT !.pc = "embedding", !.results = <<>>])
  /\ UNCHANGED <<dbVars, index, window>>
Generated(q) ==
  /\ query[q].pc = "generating"
  /\ Advance(q, IF live THEN [query[q] EXCEPT !.pc = "chunkRows"]
                        ELSE Cite(query[q], index.chunks))
  /\ UNCHANGED <<dbVars, index, window>>

(* SELECT returns no row.  The flag is read again for the documents; their *)
(* titles come from memory whenever the lookup has none.                   *)
NoRows(q) ==
  /\ reachable
  /\ \/ /\ query[q].pc = "chunkRows"
        /\ Advance(q, IF live THEN [query[q] EXCEPT !.pc = "docRows"]
                              ELSE Cite(query[q], <<>>))
     \/ /\ query[q].pc = "docRows"
        /\ Advance(q, Cite(query[q], <<>>))
  /\ UNCHANGED <<dbVars, index, window>>

(* The statement fails (no connection, an id that is no UUID): the paid    *)
(* answer becomes a 500, though the docstring of import_data has it that   *)
(* "a DB outage never breaks retrieval".                                   *)
RowsFail(q) ==
  /\ query[q].pc \in {"chunkRows", "docRows"}
  /\ Advance(q, Ended(query[q], "failed"))
  /\ window' = [window EXCEPT ![q] = {}]
  /\ UNCHANGED <<dbVars, index>>

(* The trace has been sent; a failure is ignored.                          *)
Traced(q) ==
  /\ query[q].pc = "tracing"
  /\ Advance(q, Ended(query[q], "answered"))
  /\ window' = [window EXCEPT ![q] = {}]
  /\ UNCHANGED <<dbVars, index>>

(* The process restarts with an empty index.                               *)
RetRestart ==
  /\ DbRestart
  /\ index' = [chunks |-> <<>>, docs |-> <<>>]
  /\ query' = [q \in Query |-> IF InFlight(q) THEN Ended(NewQuery, "lost") ELSE query[q]]
  /\ window' = [q \in Query |-> {}]

QueryStep(q) ==
  \/ Embedded(q) \/ Generated(q) \/ NoRows(q) \/ RowsFail(q) \/ Traced(q)

RetNext ==
  \/ DbNext /\ UNCHANGED retVars
  \/ \E batch \in Batch : ImportData(batch)
  \/ \E q \in User, req \in Request : Ask(q, req)
  \/ \E q \in Query : QueryStep(q)
  \/ RetRestart

RetSpec == RetInit /\ [][RetNext]_<<dbVars, retVars>>
-----------------------------------------------------------------------------
(* Properties.                                                             *)

(* Every variable has its type; a chunk has one entry in the index.        *)
RetrievalTypeOK ==
  /\ DbTypeOK
  /\ \A i, j \in DOMAIN index.chunks :
       index.chunks[i].id = index.chunks[j].id => i = j
  /\ \A i \in DOMAIN index.chunks :
       index.chunks[i].content \in Content /\ index.chunks[i].embedded \in BOOLEAN
  /\ \A q \in Query :
       /\ query[q].pc \in Awaiting \cup {"idle", "answered", "refused", "failed", "lost"}
       /\ query[q].kind \in {"search", "query"}
       /\ Len(query[q].results) <= query[q].top
       /\ query[q].cited # <<>> => query[q].pc \in {"tracing", "answered"}
       /\ query[q].results # <<>> <=> Searched(q)

(* An answer cites the first three chunks it was made from, in order, and  *)
(* every result and citation is a version the index held at the search or  *)
(* later, whatever was imported, and wherever the live flag sent the       *)
(* lookups, in between.                                                    *)
CitesWhatItUsed ==
  \A q \in Query : query[q].pc = "tracing" =>
    LET used  == Top(query[q].results, 3)
        cited == query[q].cited
    IN  /\ [i \in DOMAIN cited |-> cited[i].id] = [i \in DOMAIN used |-> used[i].id]
        /\ \A i \in DOMAIN used : {Version(used[i]), Version(cited[i])} \subseteq window[q]

(* A question is refused only if no chunk of the index has all its words,  *)
(* with or without an embedding, for either order of the two lists: fusion *)
(* and reranking may not push such a chunk below the threshold.            *)
FullMatchAnswered ==
  [][\A q \in Query :
       query'[q].pc = "refused" /\ query[q].pc # "refused" =>
         ~\E i \in DOMAIN index.chunks :
             LET m == Match[query[q].ask][index.chunks[i].content]
             IN  m.shared = 100 /\ m.overlap = 100]_<<dbVars, retVars>>

(* No answer is generated from chunks that are only similar: one of them   *)
(* shares a word with the question, or contains it.                        *)
AnswersShareWords ==
  \A q \in Query : query[q].pc = "generating" =>
    \E i \in DOMAIN query[q].results :
      LET m == Match[query[q].ask][query[q].results[i].content]
      IN  m.overlap > 0 \/ m.phrase

(* Every request comes to an end, whichever of its calls fail.             *)
QueriesEnd == \A q \in Query : InFlight(q) ~> ~InFlight(q)

(* The calls have timeouts: 30 s for the embedding, 60 s for the answer,   *)
(* 5 s for the trace.  For a SQL statement none is configured: it is       *)
(* assumed to return, or its connection to be lost.  (Weak fairness of     *)
(* QueryStep with its ENABLED written out: a request in flight always has  *)
(* a step, and TLC need not rank its results to see it.)  The probes go on *)
(* as DbFlag says.                                                         *)
RetFairSpec ==
  /\ RetSpec
  /\ \A q \in Query : <>[]InFlight(q) => []<><<QueryStep(q)>>_<<dbVars, retVars>>
  /\ DbFairness
=============================================================================
