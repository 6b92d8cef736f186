---------------------------- MODULE MCRetrieval -----------------------------
(* An instance of Retrieval: a chunk that is imported, imported again with *)
(* another content, and joined by a second one; questions that match them  *)
(* by their words, by meaning only, or partly.                             *)
EXTENDS Retrieval

CONSTANTS asked, vague, refund, other, c1, c2, d1, d2, handbook, untitled

(* A batch brings a document and its only chunk, or a chunk alone.         *)
MCBatch ==
  {[docs   |-> [d \in {d1} |-> handbook],
    chunks |-> <<[id |-> c1, doc |-> d1, content |-> x, embedded |-> x = refund]>>]
     : x \in {refund, other}}
  \cup {[docs   |-> [d \in {} |-> handbook],
         chunks |-> <<[id |-> c2, doc |-> d2, content |-> other, embedded |-> TRUE]>>]}

(* The metadata of one content have a title, those of the other have none. *)
MCMetaTitle == [x \in {refund, other} |-> IF x = refund THEN handbook ELSE untitled]

MCRequest == {[kind |-> "search", ask |-> vague, top |-> 1]}
               \cup {[kind |-> "query", ask |-> a, top |-> 2] : a \in {asked, vague}}

(* asked has all its words in refund, whose embedding is far from it, and  *)
(* one in other; vague means what other says and shares no word with it.   *)
MCMatch ==
  [q \in {asked, vague} |-> [x \in {refund, other} |->
     CASE q = asked /\ x = refund ->
            [sim |-> 10, shared |-> 100, overlap |-> 100, density |-> 40, phrase |-> FALSE]
       [] q = asked /\ x = other ->
            [sim |-> 80, shared |-> 50, overlap |-> 50, density |-> 20, phrase |-> FALSE]
       [] q = vague /\ x = refund ->
            [sim |-> 30, shared |-> 0, overlap |-> 0, density |-> 0, phrase |-> FALSE]
       [] q = vague /\ x = other ->
            [sim |-> 100, shared |-> 0, overlap |-> 0, density |-> 0, phrase |-> FALSE]]]
=============================================================================
