---------------------------- MODULE MCTraceStore ----------------------------
(* Instances of TraceStore for TLC.                                        *)
EXTENDS TraceStore, TLC

(* A client's span reports a cost without tokens, an answer's both.        *)
MCPrice == [op \in Op |-> IF op = "answer_generation" THEN [usd |-> 2, tokens |-> 1]
                                                      ELSE [usd |-> 1, tokens |-> 0]]
=============================================================================
