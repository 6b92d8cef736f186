----------------------------- MODULE MCEvalRun ------------------------------
(* An instance of EvalRun over that of Retrieval: a suite with a question  *)
(* the index may answer and one it should refuse, and an empty suite.      *)
EXTENDS EvalRun, MCRetrieval

CONSTANT run1

MCQuery == {<<run1, 1>>, <<run1, 2>>}

MCSampleCase == [ask |-> asked, expected |-> TRUE, refuse |-> FALSE, expects |-> {}]
MCSuite ==
  {<<[ask |-> asked, expected |-> FALSE, refuse |-> FALSE, expects |-> {handbook}],
     [ask |-> vague, expected |-> TRUE, refuse |-> TRUE, expects |-> {}]>>, <<>>}
=============================================================================
