------------------------------ MODULE EvalRun -------------------------------
(***************************************************************************)
(* The eval service: run_evaluation sends the questions of a suite to the  *)
(* retrieval service, one after the other, judges each answer, and records *)
(* the run after its last case.                                            *)
(*                                                                         *)
(* The query of case i of run e is the request <<e, i>> of Retrieval.  It  *)
(* may arrive after the run has given up waiting, and it goes on without   *)
(* the run.                                                                *)
(***************************************************************************)
EXTENDS Retrieval

CONSTANTS
  Run,         \* bound: POST /eval/run requests
  Suite,       \* the readable suite files, as sequences of cases
  SampleCase,  \* the case that stands in for a suite that cannot be read
  TopK         \* what a query asks for: 5

Case == {SampleCase} \cup UNION {{s[i] : i \in DOMAIN s} : s \in Suite}

ASSUME SlotAssumption ==
  \A e \in Run, s \in Suite \cup {<<SampleCase>>} :
    \A i \in DOMAIN s : <<e, i>> \in Query \ User
ASSUME CaseAssumption ==
  /\ \A s \in Suite : s \in Seq(Case)
  /\ \A c \in Case : c.ask \in Question /\ c.expected \in BOOLEAN /\ c.refuse \in BOOLEAN
ASSUME TopKAssumption == TopK \in Nat \ {0}

VARIABLES
  run,    \* run[e]: a run in the coroutine of its request
  evals   \* _eval_runs: the results of the recorded runs

evalVars == <<run, evals>>
allVars == <<dbVars, retVars, evalVars>>

NewRun == [pc |-> "idle", suite |-> <<>>, at |-> 1,
           actual |-> [answer |-> FALSE, refusal |-> FALSE, cited |-> <<>>],
           results |-> <<>>]

Running(e) == run[e].pc \in {"calling", "judging", "tracing"}
CaseOf(e) == run[e].suite[run[e].at]

EvalInit ==
  /\ RetInit
  /\ run = [e \in Run |-> NewRun]
  /\ evals = [e \in {} |-> <<>>]

Continue(e, r) == run' = [run EXCEPT ![e] = r]
Recorded(e, results) ==
  evals' = [x \in DOMAIN evals \cup {e} |-> IF x = e THEN results ELSE evals[x]]

(* POST /eval/run, up to the first query; a suite may have no case.        *)
StartRun(e, suite) ==
  /\ run[e].pc = "idle"
  /\ LET r == [NewRun EXCEPT !.suite = suite]
     IN  IF suite = <<>>
           THEN Continue(e, [r EXCEPT !.pc = "tracing"]) /\ Recorded(e, <<>>)
           ELSE Continue(e, [r EXCEPT !.pc = "calling"]) /\ UNCHANGED evals
  /\ UNCHANGED <<dbVars, retVars>>

(* The query of a case reaches the retrieval service, perhaps late.        *)
Arrives(e, i) ==
  /\ i \in DOMAIN run[e].suite /\ i <= run[e].at
  /\ Ask(<<e, i>>, [kind |-> "query", ask |-> run[e].suite[i].ask, top |-> TopK])
  /\ UNCHANGED evalVars

CheckCitations(expects, cited) ==
  \/ expects = {}
  \/ \E i \in DOMAIN cited : {cited[i].title, cited[i].content} \cap expects # {}

(* The result of a case; of its semantic score only what it was made from. *)
Scored(case, actual, semantic) ==
  [ask |-> case.ask, semantic |-> semantic,
   citation |-> CheckCitations(case.expects, actual.cited),
   refusal |-> case.refuse = actual.refusal]

(* The end of an iteration.  After the last one the run is recorded as a   *)
(* whole, before its trace is sent.                                        *)
Mut_CaseEndsRecorded(e, actual, semantic) ==
  LET results == Append(run[e].results, Scored(CaseOf(e), actual, semantic))
      last    == run[e].at = Len(run[e].suite)
  IN  /\ Continue(e, [run[e] EXCEPT !.pc = IF last THEN "tracing" ELSE "calling",
                                    !.at = IF last THEN @ ELSE @ + 1,
                                    !.actual = actual, !.results = results])
      /\ Recorded(e, results)
CaseEnds(e, actual, semantic) ==
  LET results == Append(run[e].results, Scored(CaseOf(e), actual, semantic))
      last    == run[e].at = Len(run[e].suite)
  IN  /\ Continue(e, [run[e] EXCEPT !.pc = IF last THEN "tracing" ELSE "calling",
                                    !.at = IF last THEN @ ELSE @ + 1,
                                    !.actual = actual, !.results = results])
      /\ IF last THEN Recorded(e, results) ELSE UNCHANGED evals

(* The loop goes on with what the call has yielded.  The semantic judge    *)
(* embeds both answers unless one is empty.                                *)
CallYields(e, actual) ==
  /\ run[e].pc = "calling"
  /\ IF CaseOf(e).expected /\ actual.answer
       THEN Continue(e, [run[e] EXCEPT !.pc = "judging", !.actual = actual]) /\ UNCHANGED evals
       ELSE CaseEnds(e, actual, "skipped")
  /\ UNCHANGED <<dbVars, retVars>>

CallReturns(e) ==
  LET q == query[<<e, run[e].at>>]
  IN  /\ run[e].pc = "calling"
      /\ q.pc \in {"answered", "refused"}
      /\ CallYields(e, [answer |-> TRUE, refusal |-> q.pc = "refused", cited |-> q.cited])

(* An error status, a lost connection, or no answer within 30 s: the data  *)
(* is {}, of which every field has its default.                            *)
Mut_CallFailsRefusal(e) == CallYields(e, [NewRun.actual EXCEPT !.refusal = TRUE])
Mut_CallFailsWithoutTimeout(e) ==
  query[<<e, run[e].at>>].pc \in {"failed", "lost"} /\ CallYields(e, NewRun.actual)
Mut_CallFailsSkips(e) ==
  /\ run[e].pc = "calling" /\ run[e].at < Len(run[e].suite)
  /\ Continue(e, [run[e] EXCEPT !.at = @ + 1])
  /\ UNCHANGED <<dbVars, retVars, evals>>
CallFails(e) == CallYields(e, NewRun.actual)

(* The embeddings arrive, or a status other than 200 does and the lexical  *)
(* score stands in.                                                        *)
Judged(e) ==
  /\ run[e].pc = "judging"
  /\ \E semantic \in {"embeddings", "words"} : CaseEnds(e, run[e].actual, semantic)
  /\ UNCHANGED <<dbVars, retVars>>

(* A failed connection to the LLM gateway is not caught: the request ends  *)
(* with a 500 and its results are gone.                                    *)
JudgeRaises(e) ==
  /\ run[e].pc = "judging"
  /\ Continue(e, [run[e] EXCEPT !.pc = "failed"])
  /\ UNCHANGED <<dbVars, retVars, evals>>

(* The trace has been sent, or its failure was ignored.                    *)
Responds(e) ==
  /\ run[e].pc = "tracing"
  /\ Continue(e, [run[e] EXCEPT !.pc = "done"])
  /\ UNCHANGED <<dbVars, retVars, evals>>

(* The eval service restarts; its queries go on.                           *)
EvalRestart ==
  /\ evals' = [e \in {} |-> <<>>]
  /\ run' = [e \in Run |-> IF Running(e) THEN [run[e] EXCEPT !.pc = "lost"] ELSE run[e]]
  /\ UNCHANGED <<dbVars, retVars>>

RunStep(e) == CallReturns(e) \/ CallFails(e) \/ Judged(e) \/ JudgeRaises(e) \/ Responds(e)

EvalNext ==
  \/ RetNext /\ UNCHANGED evalVars
  \/ \E e \in Run : RunStep(e)
  \/ \E e \in Run : \E s \in Suite \cup {<<SampleCase>>} : StartRun(e, s)
  \/ \E e \in Run : \E i \in DOMAIN run[e].suite : Arrives(e, i)
  \/ EvalRestart

EvalSpec == EvalInit /\ [][EvalNext]_allVars
-----------------------------------------------------------------------------
(* Properties.                                                             *)

(* Every variable has its type; a run in progress has one result for each  *)
(* case before the one it is at.                                           *)
EvalTypeOK ==
  /\ RetrievalTypeOK
  /\ DOMAIN evals \subseteq Run
  /\ \A e \in Run :
       /\ run[e].pc \in {"idle", "calling", "judging", "tracing", "done", "failed", "lost"}
       /\ run[e].pc \in {"calling", "judging"} =>
            run[e].at \in DOMAIN run[e].suite /\ Len(run[e].results) = run[e].at - 1

(* A point is earned by the case's own query: a citation point by one that *)
(* was answered with an expected source, a refusal point of a case that    *)
(* should be refused by one that was; failed calls, late answers and other *)
(* cases earn none of these.                                               *)
PointsAreEarned ==
  \A e \in Run : \A i \in DOMAIN run[e].results :
    LET case == run[e].suite[i]
        own  == query[<<e, i>>]
    IN  /\ run[e].results[i].citation /\ case.expects # {} =>
             own.pc = "answered" /\ CheckCitations(case.expects, own.cited)
        /\ run[e].results[i].refusal /\ case.refuse => own.pc = "refused"

(* The recorded runs are the log that RunLog promises, through failing     *)
(* calls and judges, restarts of either service and concurrent runs.       *)
Asks(s) == [i \in DOMAIN s |-> s[i].ask]
Open == {e \in Run : run[e].pc \in {"calling", "judging"}}
Log == INSTANCE RunLog WITH open <- [e \in Open |-> Asks(run[e].suite)],
                            log  <- [e \in DOMAIN evals |-> Asks(evals[e])]
ImplementsRunLog == Log!LogSpec

(* Every run ends, with a response or an error.                            *)
RunsEnd == \A e \in Run : Running(e) ~> ~Running(e)

(* Each call of a run has a timeout, so its coroutine goes on; nothing is  *)
(* assumed of the arrival of its queries.                                  *)
EvalFairSpec == EvalSpec /\ \A e \in Run : WF_allVars(RunStep(e))
=============================================================================
