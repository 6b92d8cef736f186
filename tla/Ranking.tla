------------------------------ MODULE Ranking -------------------------------
(***************************************************************************)
(* How the retrieval service ranks chunks for a question: the two searches *)
(* of search/index.py, the fusion of search/hybrid.py, the reranker and    *)
(* the refusal test.  Everything here runs without an await.               *)
(*                                                                         *)
(* Of a question and a chunk's content only five numbers matter, which     *)
(* Match gives: the cosine similarity of their embeddings, the share of    *)
(* the question's words found in the content (split at blanks: shared;     *)
(* words of three letters that are no stop words: overlap), the share of   *)
(* the content's words that are the question's (density), in percent, and  *)
(* whether the content contains the question as a phrase.                  *)
(***************************************************************************)
EXTENDS Integers, Sequences, FiniteSets

CONSTANTS
  Question,
  Content,
  Match,       \* Match[question][content]
  RerankTopK,  \* settings.rerank_top_k
  Threshold    \* settings.similarity_threshold, in 1/10000

Percent == 0 .. 100

ASSUME MatchAssumption ==
  Match \in [Question -> [Content -> [sim : -100 .. 100, shared : Percent,
                                      overlap : Percent, density : Percent,
                                      phrase : BOOLEAN]]]
(* Words are parts of what is between blanks: a content with all of a      *)
(* question has all its words, if it has any; and density counts the words *)
(* that overlap counts.  (A share is 0 or 100 percent only if it is exact.) *)
ASSUME WordsAssumption ==
  \A q \in Question, x \in Content :
    /\ Match[q][x].shared = 100 /\ (\E y \in Content : Match[q][y].overlap > 0)
         => Match[q][x].overlap = 100
    /\ Match[q][x].overlap = 0 => Match[q][x].density = 0
ASSUME SettingsAssumption == RerankTopK \in Nat \ {0} /\ Threshold \in Int

(* Scores by which lists are sorted are fractions.                         *)
Greater(a, b) == a.n * b.d > b.n * a.d

(* list.sort(reverse=True): the members of a list at the positions P, the  *)
(* highest score first and in their old order among equals.                *)
Sorted(s, P, score) ==
  LET before(i) == {j \in P : \/ Greater(score[j], score[i])
                              \/ ~Greater(score[i], score[j]) /\ j < i}
  IN  [k \in 1..Cardinality(P) |-> s[CHOOSE i \in P : Cardinality(before(i)) = k - 1]]

(* A comprehension with a condition: the members at P, in their old order. *)
Kept(s, P) == Sorted(s, P, [i \in P |-> [n |-> 0, d |-> 1]])

Top(s, k) == SubSeq(s, 1, IF k < Len(s) THEN k ELSE Len(s))

Scores(s) == [i \in DOMAIN s |-> [n |-> s[i].score, d |-> 1]]

(* A result of a search: its chunk, and a score in 1/10000.                *)
Result(c, score) == [id |-> c.id, doc |-> c.doc, content |-> c.content, score |-> score]

(* The loops over the index of vector_search and keyword_search; chunks    *)
(* without an embedding, or without a word of the question, are left out.  *)
VectorSearch(chunks, question, k) ==
  LET scored == [i \in DOMAIN chunks |->
                   Result(chunks[i], 100 * Match[question][chunks[i].content].sim)]
  IN  Top(Sorted(scored, {i \in DOMAIN chunks : chunks[i].embedded}, Scores(scored)), k)

KeywordSearch(chunks, question, k) ==
  LET scored == [i \in DOMAIN chunks |->
                   Result(chunks[i], 100 * Match[question][chunks[i].content].shared)]
  IN  Top(Sorted(scored, {i \in DOMAIN chunks : scored[i].score > 0}, Scores(scored)), k)

Ids(s) == {s[i].id : i \in DOMAIN s}

(* What a list adds to the fused score of a chunk: 1 / (60 + rank), as a   *)
(* fraction; nothing if the chunk is not in it.                            *)
Share(s, id) ==
  IF id \in Ids(s) THEN [n |-> 1, d |-> 60 + CHOOSE i \in DOMAIN s : s[i].id = id]
                   ELSE [n |-> 0, d |-> 1]

FusedScore(vector, keyword, id) ==
  LET a == Share(vector, id)
      b == Share(keyword, id)
  IN  [n |-> a.n * b.d + b.n * a.d, d |-> a.d * b.d]

(* scores: the results of both lists without repetition, those of the      *)
(* vector search first; the higher fused score goes before.                *)
Both(vector, keyword) ==
  vector \o Kept(keyword, {i \in DOMAIN keyword : keyword[i].id \notin Ids(vector)})

FusedOrder(both, vector, keyword) ==
  Sorted(both, DOMAIN both,
         [i \in DOMAIN both |-> FusedScore(vector, keyword, both[i].id)])

(* _reciprocal_rank_fusion.  The order is that of the fused scores, which  *)
(* are then dropped: of a chunk in both lists the keyword result survives. *)
Mut_FusedKeepsVector(order, keyword) == order
Fused(order, keyword) ==
  LET last(r) == IF r.id \in Ids(keyword)
                   THEN keyword[CHOOSE i \in DOMAIN keyword : keyword[i].id = r.id]
                   ELSE r
  IN  [i \in DOMAIN order |-> last(order[i])]

(* The pair score of rerank_results, at most 10000.                        *)
Mut_AdjustedBySimilarity(m, score) ==
  LET sum == (70 * score) \div 100 + 30 * m.overlap
  IN  IF sum < 10000 THEN sum ELSE 10000
Adjusted(m, score) ==
  LET sum == (55 * score) \div 100 + 30 * m.overlap + 15 * m.density
               + (IF m.phrase THEN 1500 ELSE 0)
  IN  IF sum < 10000 THEN sum ELSE 10000

Reranked(results, question) ==
  LET adjusted == [i \in DOMAIN results |->
                     [results[i] EXCEPT !.score =
                        Adjusted(Match[question][results[i].content], @)]]
  IN  Top(Sorted(adjusted, DOMAIN adjusted, Scores(adjusted)), RerankTopK)

(* No result reaches the threshold.                                        *)
CheckRefusal(results) == \A i \in DOMAIN results : results[i].score < Threshold
=============================================================================
