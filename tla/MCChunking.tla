----------------------------- MODULE MCChunking -----------------------------
(* Chunking of every text of up to MaxText characters.                     *)
EXTENDS Chunking

CONSTANT MaxText

MCText == UNION {[1..n -> Classes] : n \in 0..MaxText}
=============================================================================
