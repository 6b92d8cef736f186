------------------------------- MODULE RunLog -------------------------------
(***************************************************************************)
(* What the list of evaluation runs promises: it holds complete runs, one  *)
(* result for each case of the suite in the order of the suite, it only    *)
(* grows, and only a restart takes runs away, all of them.                 *)
(***************************************************************************)
EXTENDS Integers, Sequences

CONSTANTS Run, Question

VARIABLES
  open,   \* the runs in progress and the questions of their suites
  log     \* the recorded runs and the questions they have results for

logVars == <<open, log>>

Extended(f, e, value) ==
  [x \in DOMAIN f \cup {e} |-> IF x = e THEN value ELSE f[x]]
Without(f, e) == [x \in DOMAIN f \ {e} |-> f[x]]

Nothing == [x \in {} |-> <<>>]

LogInit == open = Nothing /\ log = Nothing

Start(e) ==
  /\ e \notin DOMAIN open \cup DOMAIN log
  /\ e \in DOMAIN open' /\ open'[e] \in Seq(Question)
  /\ open' = Extended(open, e, open'[e])
  /\ UNCHANGED log

Record(e) ==
  /\ e \in DOMAIN open
  /\ log' = Extended(log, e, open[e])
  /\ open' = Without(open, e)

(* A suite without cases is recorded as it is read.                        *)
RecordEmpty(e) ==
  /\ e \notin DOMAIN open \cup DOMAIN log
  /\ log' = Extended(log, e, <<>>)
  /\ UNCHANGED open

Drop(e) ==
  /\ e \in DOMAIN open
  /\ open' = Without(open, e)
  /\ UNCHANGED log

Forget == open' = Nothing /\ log' = Nothing

LogNext ==
  \/ \E e \in Run : Start(e) \/ Record(e) \/ RecordEmpty(e) \/ Drop(e)
  \/ Forget

LogSpec == LogInit /\ [][LogNext]_logVars
=============================================================================
