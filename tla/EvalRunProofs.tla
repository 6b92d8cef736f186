--------------------------- MODULE EvalRunProofs ----------------------------
(***************************************************************************)
(* The evaluation runs: their types, where their points come from, and     *)
(* that the recorded ones are the log that RunLog promises, for any        *)
(* suites, number of runs and behaviour of the retrieval service.          *)
(***************************************************************************)
EXTENDS EvalRun, RetrievalProofs

-----------------------------------------------------------------------------
(* What a run may rely on: a query that has been answered or refused does  *)
(* not change any more.                                                    *)

Settled(r) == r.pc \in {"answered", "refused"}
SettledStays == \A q \in Query : Settled(query[q]) => query'[q] = query[q]

(* A request that is not settled moves: the settled ones stay.             *)
LEMMA AdvanceSettled ==
  ASSUME QueriesOK, NEW q \in Query, NEW new, Advance(q, new), ~Settled(query[q])
  PROVE  SettledStays
<1>1. query = [x \in Query |-> query[x]] /\ query' = [query EXCEPT ![q] = new]
  BY DEF QueriesOK, Advance
<1>2. ASSUME NEW p \in Query, Settled(query[p]) PROVE query'[p] = query[p]
  <2>1. p # q
    BY <1>2
  <2> QED BY <1>1, <2>1
<1> QED BY <1>2 DEF SettledStays

(* Asking moves an idle request.                                           *)
LEMMA AskSettled ==
  ASSUME QueriesOK, NEW q \in Query, NEW req, Ask(q, req)
  PROVE  SettledStays
<1>1. ~Settled(query[q])
  BY DEF Ask, Settled
<1>2. PICK new : Advance(q, new)
  BY DEF Ask
<1> QED BY <1>1, <1>2, AdvanceSettled

(* No step of the retrieval service, not even its restart, moves them.     *)
LEMMA RetNextSettled ==
  ASSUME QueriesOK, RetNext
  PROVE  SettledStays
<1>1. CASE DbNext /\ UNCHANGED retVars
  BY <1>1 DEF retVars, SettledStays
<1>2. CASE \E batch \in Batch : ImportData(batch)
  BY <1>2 DEF ImportData, SettledStays
<1>3. CASE \E q \in User, req \in Request : Ask(q, req)
  BY <1>3, AskSettled, UserAssumption
<1>4. CASE \E q \in Query : QueryStep(q)
  <2>1. PICK q \in Query : QueryStep(q)
    BY <1>4
  <2>2. ~Settled(query[q])
    BY <2>1 DEF QueryStep, Embedded, Generated, NoRows, RowsFail, Traced, Settled
  <2>3. \E new : Advance(q, new)
    <3>1. CASE Embedded(q)
      BY <3>1 DEF Embedded
    <3>2. CASE Generated(q) \/ NoRows(q) \/ RowsFail(q) \/ Traced(q)
      BY <3>2 DEF Generated, NoRows, RowsFail, Traced
    <3> QED BY <2>1, <3>1, <3>2 DEF QueryStep
  <2> QED BY <2>2, <2>3, AdvanceSettled
<1>5. CASE RetRestart
  <2>1. query' = [q \in Query |-> IF InFlight(q) THEN Ended(NewQuery, "lost") ELSE query[q]]
    BY <1>5 DEF RetRestart
  <2>2. \A q \in Query : Settled(query[q]) => ~InFlight(q)
    BY DEF Settled, InFlight, Awaiting
  <2> QED BY <2>1, <2>2 DEF SettledStays
<1> QED BY <1>1, <1>2, <1>3, <1>4, <1>5 DEF RetNext

-----------------------------------------------------------------------------
(* The inductive invariant.                                                *)

Suites == Suite \cup {<<SampleCase>>, <<>>}

(* The cases of any suite have slots for their queries.                    *)
LEMMA SuiteType ==
  ASSUME NEW s \in Suites
  PROVE  /\ s \in Seq(Case)
         /\ \A e \in Run : \A i \in DOMAIN s : <<e, i>> \in Query
         /\ \A i \in DOMAIN s : /\ s[i].ask \in Question /\ s[i].expected \in BOOLEAN
                                /\ s[i].refuse \in BOOLEAN
<1>1. SampleCase \in Case
  BY DEF Case
<1>2. s \in Seq(Case)
  <2>1. CASE s \in Suite
    BY <2>1, CaseAssumption
  <2>2. CASE s = <<SampleCase>>
    <3>1. \A x \in Case : <<x>> \in Seq(Case)
      OBVIOUS
    <3> QED BY <1>1, <2>2, <3>1, Zenon
  <2>3. CASE s = <<>>
    BY <2>3
  <2> QED BY <2>1, <2>2, <2>3 DEF Suites
<1>3. \A e \in Run : \A i \in DOMAIN s : <<e, i>> \in Query
  BY SlotAssumption DEF Suites
<1>4. \A i \in DOMAIN s : s[i] \in Case
  BY <1>2
<1> QED BY <1>2, <1>3, <1>4, CaseAssumption

CaseResult == [ask : Question, semantic : {"skipped", "embeddings", "words"},
               citation : BOOLEAN, refusal : BOOLEAN]

RunFields == {"pc", "suite", "at", "actual", "results"}
RunPCs == {"idle", "calling", "judging", "tracing", "done", "failed", "lost"}

(* The points of result res of a case rest on its query own.               *)
Earned(case, res, own) ==
  /\ res.citation /\ case.expects # {} =>
       own.pc = "answered" /\ CheckCitations(case.expects, own.cited)
  /\ res.refusal /\ case.refuse => own.pc = "refused"

(* An answer as it was judged: cited or refused only as its query own.     *)
FromQuery(actual, own) ==
  /\ actual.answer \in BOOLEAN /\ actual.refusal \in BOOLEAN
  /\ actual.cited # <<>> => own.pc = "answered" /\ own.cited = actual.cited
  /\ actual.refusal => own.pc = "refused"

(* A run e whose state is r has results for its first cases, in order.     *)
RunOK(e, r) ==
  /\ DOMAIN r = RunFields
  /\ r.pc \in RunPCs
  /\ r.suite \in Suites
  /\ r.results \in Seq(CaseResult) /\ Len(r.results) <= Len(r.suite)
  /\ r.pc \in {"calling", "judging"} =>
       r.at \in DOMAIN r.suite /\ Len(r.results) = r.at - 1
  /\ \A i \in DOMAIN r.results :
       /\ r.results[i].ask = r.suite[i].ask
       /\ Earned(r.suite[i], r.results[i], query[<<e, i>>])
  /\ r.pc = "judging" => FromQuery(r.actual, query[<<e, r.at>>])

(* A recorded run has ended.                                               *)
EvalsOK ==
  DOMAIN evals \subseteq {e \in Run : run[e].pc \in {"tracing", "done"}}

RunsOK ==
  /\ run = [e \in Run |-> run[e]]
  /\ \A e \in Run : RunOK(e, run[e])

EvalInv == RetInv /\ RunsOK /\ EvalsOK

(* Settled queries keep the runs in order.                                 *)
LEMMA RunStays ==
  ASSUME NEW e \in Run, NEW r, RunOK(e, r), SettledStays
  PROVE  RunOK(e, r)'
<1>1. r \in {r} /\ r.suite \in Suites
  BY DEF RunOK
<1>2. \A i \in DOMAIN r.suite :
        Settled(query[<<e, i>>]) => query'[<<e, i>>] = query[<<e, i>>]
  BY <1>1, SuiteType DEF SettledStays
<1>3. /\ \A i \in DOMAIN r.results : i \in DOMAIN r.suite
      /\ r.pc = "judging" => r.at \in DOMAIN r.suite
  <2>1. r.results \in Seq(CaseResult) /\ r.suite \in Seq(Case) /\ Len(r.results) <= Len(r.suite)
    BY <1>1, SuiteType DEF RunOK
  <2> QED BY <2>1 DEF RunOK
<1>4. \A i \in DOMAIN r.results :
        Earned(r.suite[i], r.results[i], query'[<<e, i>>])
  BY <1>2, <1>3 DEF RunOK, Earned, Settled
<1>5. r.pc = "judging" => FromQuery(r.actual, query'[<<e, r.at>>])
  BY <1>2, <1>3 DEF RunOK, FromQuery, Settled
<1> QED BY <1>4, <1>5 DEF RunOK

-----------------------------------------------------------------------------
(* The end of a case.                                                      *)

(* A result is typed and earned by the query its answer came from.         *)
LEMMA ScoredEarned ==
  ASSUME NEW case, case.ask \in Question, case.refuse \in BOOLEAN,
         NEW actual, NEW own, FromQuery(actual, own),
         NEW semantic \in {"skipped", "embeddings", "words"}
  PROVE  /\ Scored(case, actual, semantic) \in CaseResult
         /\ Scored(case, actual, semantic).ask = case.ask
         /\ Earned(case, Scored(case, actual, semantic), own)
<1> DEFINE res == Scored(case, actual, semantic)
<1>1. /\ res.ask = case.ask
      /\ res.citation = CheckCitations(case.expects, actual.cited)
      /\ res.refusal = (case.refuse = actual.refusal)
  BY DEF Scored
<1>2. res.citation \in BOOLEAN /\ res.refusal \in BOOLEAN
  <2>1. CheckCitations(case.expects, actual.cited) \in BOOLEAN
    BY DEF CheckCitations
  <2>2. (case.refuse = actual.refusal) \in BOOLEAN
    OBVIOUS
  <2> QED BY <1>1, <2>1, <2>2
<1>3. res \in CaseResult
  <2> DEFINE c == CheckCitations(case.expects, actual.cited)
             f == (case.refuse = actual.refusal)
  <2>0. c \in BOOLEAN /\ f \in BOOLEAN
    BY <1>1, <1>2
  <2>1. \A a \in Question, s \in {"skipped", "embeddings", "words"}, d, g \in BOOLEAN :
          [ask |-> a, semantic |-> s, citation |-> d, refusal |-> g] \in CaseResult
    BY DEF CaseResult
  <2>2. res = [ask |-> case.ask, semantic |-> semantic, citation |-> c, refusal |-> f]
    BY DEF Scored
  <2> HIDE DEF res, c, f
  <2> QED BY <2>0, <2>1, <2>2, Zenon
<1> HIDE DEF res
<1>4. ASSUME res.citation, case.expects # {}
      PROVE  own.pc = "answered" /\ CheckCitations(case.expects, own.cited)
  <2>1. CheckCitations(case.expects, actual.cited)
    BY <1>1, <1>4
  <2>2. actual.cited # <<>>
    BY <1>4, <2>1 DEF CheckCitations
  <2> QED BY <2>1, <2>2 DEF FromQuery
<1>5. ASSUME res.refusal, case.refuse
      PROVE  own.pc = "refused"
  BY <1>1, <1>5 DEF FromQuery
<1> QED BY <1>1, <1>3, <1>4, <1>5 DEF Earned, res

(* The run after the end of a case: one result more.                       *)
AfterCase(r, actual, semantic) ==
  LET last == r.at = Len(r.suite)
  IN  [r EXCEPT !.pc = IF last THEN "tracing" ELSE "calling",
                !.at = IF last THEN @ ELSE @ + 1,
                !.actual = actual,
                !.results = Append(r.results, Scored(r.suite[r.at], actual, semantic))]

(* The end of a case keeps a run in order.                                 *)
LEMMA CaseEndsOK ==
  ASSUME NEW e \in Run, NEW r, RunOK(e, r), r.pc \in {"calling", "judging"},
         NEW actual, FromQuery(actual, query[<<e, r.at>>]),
         NEW semantic \in {"skipped", "embeddings", "words"}
  PROVE  RunOK(e, AfterCase(r, actual, semantic))
<1> DEFINE n == AfterCase(r, actual, semantic)
           res == Scored(r.suite[r.at], actual, semantic)
<1>1. /\ r.suite \in Suites /\ r.suite \in Seq(Case)
      /\ r.at \in DOMAIN r.suite /\ r.at \in 1 .. Len(r.suite)
      /\ r.results \in Seq(CaseResult) /\ Len(r.results) = r.at - 1
  BY SuiteType DEF RunOK
<1>2. /\ DOMAIN n = RunFields /\ n.suite = r.suite
      /\ n.results = Append(r.results, res)
      /\ n.pc = IF r.at = Len(r.suite) THEN "tracing" ELSE "calling"
      /\ n.at = IF r.at = Len(r.suite) THEN r.at ELSE r.at + 1
  BY DEF AfterCase, RunOK, RunFields
<1>3. /\ res \in CaseResult /\ res.ask = r.suite[r.at].ask
      /\ Earned(r.suite[r.at], res, query[<<e, r.at>>])
  <2>1. r.suite[r.at].ask \in Question /\ r.suite[r.at].refuse \in BOOLEAN
    BY <1>1, SuiteType
  <2> QED BY <2>1, ScoredEarned
<1> HIDE DEF n, res
<1>4. /\ n.results \in Seq(CaseResult) /\ Len(n.results) = r.at
      /\ DOMAIN n.results = 1 .. r.at
      /\ n.results[r.at] = res
      /\ \A i \in 1 .. r.at : i # r.at => i \in DOMAIN r.results /\ n.results[i] = r.results[i]
  BY <1>1, <1>2, <1>3
<1>5. n.pc \in RunPCs /\ n.pc # "judging" /\ (n.pc = "calling" <=> r.at # Len(r.suite))
  BY <1>2 DEF RunPCs
<1>6. ASSUME NEW i \in DOMAIN n.results
      PROVE  /\ n.results[i].ask = n.suite[i].ask
             /\ Earned(n.suite[i], n.results[i], query[<<e, i>>])
  <2>1. CASE i = r.at
    BY <1>2, <1>3, <1>4, <2>1
  <2>2. CASE i # r.at
    BY <1>2, <1>4, <2>2 DEF RunOK
  <2> QED BY <2>1, <2>2
<1>7. n.pc = "calling" => n.at \in DOMAIN n.suite /\ Len(n.results) = n.at - 1
  BY <1>1, <1>2, <1>4, <1>5
<1>8. n.suite \in Suites /\ Len(n.results) <= Len(n.suite)
  BY <1>1, <1>2, <1>4
<1> QED BY <1>2, <1>4, <1>5, <1>6, <1>7, <1>8 DEF RunOK, n

-----------------------------------------------------------------------------
(* Every step keeps the invariant.                                         *)

(* One run moves, and is recorded only when its cases are done.            *)
LEMMA OneRunMoves ==
  ASSUME RunsOK, EvalsOK, NEW e \in Run, NEW r, Continue(e, r), UNCHANGED query, RunOK(e, r),
         \/ /\ UNCHANGED evals
            /\ run[e].pc \in {"tracing", "done"} => r.pc \in {"tracing", "done"}
         \/ \E results : Recorded(e, results) /\ r.pc = "tracing"
  PROVE  RunsOK' /\ EvalsOK'
<1>1. run = [x \in Run |-> run[x]] /\ run' = [run EXCEPT ![e] = r]
  BY DEF RunsOK, Continue
<1>2. run' = [x \in Run |-> run'[x]] /\ run'[e] = r /\ \A x \in Run : x # e => run'[x] = run[x]
  BY <1>1
<1>3. \A x \in Run : RunOK(x, run'[x])
  BY <1>2 DEF RunsOK
<1>4. \A x \in Run : RunOK(x, run[x])'
  BY <1>3 DEF RunOK
<1>5. \A x \in DOMAIN evals' : x \in DOMAIN evals \/ (x = e /\ r.pc = "tracing")
  BY DEF Recorded
<1>6. \A x \in DOMAIN evals' : x \in Run /\ run'[x].pc \in {"tracing", "done"}
  <2>1. CASE UNCHANGED evals /\ (run[e].pc \in {"tracing", "done"} => r.pc \in {"tracing", "done"})
    BY <1>2, <2>1 DEF EvalsOK
  <2>2. CASE \E results : Recorded(e, results) /\ r.pc = "tracing"
    BY <1>2, <1>5, <2>2 DEF EvalsOK
  <2> QED BY <2>1, <2>2
<1> QED BY <1>2, <1>4, <1>6 DEF RunsOK, EvalsOK

(* What the invariant says of one run.                                     *)
LEMMA RunInOrder ==
  ASSUME EvalInv, NEW e \in Run
  PROVE  /\ RunOK(e, run[e]) /\ run[e].suite \in Suites
         /\ run[e].pc \in {"calling", "judging"} =>
              run[e].at \in DOMAIN run[e].suite /\ <<e, run[e].at>> \in Query
<1>1. RunOK(e, run[e]) /\ run[e].suite \in Suites
  BY DEF EvalInv, RunsOK, RunOK
<1> QED BY <1>1, SuiteType DEF RunOK

(* The end of a case keeps all runs in order.                              *)
LEMMA CaseEndsKeeps ==
  ASSUME EvalInv, NEW e \in Run, run[e].pc \in {"calling", "judging"}, UNCHANGED query,
         NEW actual, FromQuery(actual, query[<<e, run[e].at>>]),
         NEW semantic \in {"skipped", "embeddings", "words"}, CaseEnds(e, actual, semantic)
  PROVE  RunsOK' /\ EvalsOK'
<1> DEFINE r == run[e]
           n == AfterCase(r, actual, semantic)
<1>1. RunOK(e, n)
  BY RunInOrder, CaseEndsOK
<1>2. Continue(e, n)
  BY DEF CaseEnds, AfterCase, CaseOf
<1>3. IF r.at = Len(r.suite) THEN Recorded(e, n.results) ELSE UNCHANGED evals
  <2>1. DOMAIN r = RunFields
    BY RunInOrder DEF RunOK
  <2>2. n.results = Append(r.results, Scored(r.suite[r.at], actual, semantic))
    BY <2>1 DEF AfterCase, RunFields
  <2> QED BY <2>2 DEF CaseEnds, CaseOf
<1>4. r.at = Len(r.suite) => n.pc = "tracing"
  <2>1. DOMAIN r = RunFields
    BY RunInOrder DEF RunOK
  <2> QED BY <2>1 DEF AfterCase, RunFields
<1> HIDE DEF n
<1>5. CASE r.at = Len(r.suite)
  BY <1>1, <1>2, <1>3, <1>4, <1>5, OneRunMoves DEF EvalInv
<1>6. CASE r.at # Len(r.suite)
  BY <1>1, <1>2, <1>3, <1>6, OneRunMoves DEF EvalInv
<1> QED BY <1>5, <1>6

(* So does a call, whether it ends a case or goes to the judge.            *)
LEMMA CallYieldsKeeps ==
  ASSUME EvalInv, NEW e \in Run, NEW actual, FromQuery(actual, query[<<e, run[e].at>>]),
         CallYields(e, actual)
  PROVE  RunsOK' /\ EvalsOK'
<1>1. run[e].pc = "calling" /\ UNCHANGED query /\ RunOK(e, run[e])
  BY RunInOrder DEF CallYields, retVars
<1>2. CASE CaseEnds(e, actual, "skipped")
  BY <1>1, <1>2, CaseEndsKeeps
<1>3. CASE Continue(e, [run[e] EXCEPT !.pc = "judging", !.actual = actual]) /\ UNCHANGED evals
  <2> DEFINE r == run[e]
             n == [r EXCEPT !.pc = "judging", !.actual = actual]
  <2>1. /\ DOMAIN n = RunFields /\ n.pc = "judging" /\ n.actual = actual
        /\ n.suite = r.suite /\ n.at = r.at /\ n.results = r.results
    BY <1>1 DEF RunOK, RunFields
  <2> HIDE DEF n
  <2>2. n.pc \in RunPCs
    BY <2>1 DEF RunPCs
  <2>3. RunOK(e, n)
    BY <1>1, <2>1, <2>2 DEF RunOK
  <2>4. Continue(e, n)
    BY <1>3 DEF n
  <2> QED BY <1>1, <1>3, <2>3, <2>4, OneRunMoves DEF EvalInv
<1> QED BY <1>2, <1>3 DEF CallYields

(* What the step of a run leaves to the retrieval service.                 *)
LEMMA RunStepKeeps ==
  ASSUME EvalInv, NEW e \in Run, RunStep(e)
  PROVE  RunsOK' /\ EvalsOK'
<1> DEFINE r == run[e]
           own == query[<<e, run[e].at>>]
<1>1. RunOK(e, r)
  BY RunInOrder
<1>2. CASE CallReturns(e)
  <2>1. r.pc = "calling" /\ own.pc \in {"answered", "refused"}
    BY <1>2 DEF CallReturns
  <2>2. own.cited # <<>> => own.pc = "answered"
    <3>1. <<e, run[e].at>> \in Query
      BY <2>1, RunInOrder
    <3>2. QueryOK(own, window[<<e, run[e].at>>], index.chunks)
      BY <3>1 DEF EvalInv, RetInv, QueriesOK
    <3> QED BY <2>1, <3>2 DEF QueryOK
  <2> DEFINE actual == [answer |-> TRUE, refusal |-> own.pc = "refused", cited |-> own.cited]
  <2>3. actual.answer = TRUE /\ actual.cited = own.cited /\ actual.refusal = (own.pc = "refused")
    OBVIOUS
  <2>4. CallYields(e, actual)
    BY <1>2 DEF CallReturns
  <2> HIDE DEF actual
  <2>5. FromQuery(actual, own)
    BY <2>2, <2>3 DEF FromQuery
  <2> QED BY <2>4, <2>5, CallYieldsKeeps
<1>3. CASE CallFails(e)
  <2> DEFINE actual == NewRun.actual
  <2>1. actual.answer = FALSE /\ actual.refusal = FALSE /\ actual.cited = <<>>
    BY DEF NewRun
  <2>2. CallYields(e, actual)
    BY <1>3 DEF CallFails
  <2> HIDE DEF actual
  <2>3. FromQuery(actual, own)
    BY <2>1 DEF FromQuery
  <2> QED BY <2>2, <2>3, CallYieldsKeeps
<1>4. CASE Judged(e)
  <2>1. r.pc = "judging" /\ UNCHANGED query
    BY <1>4 DEF Judged, retVars
  <2>2. PICK semantic \in {"embeddings", "words"} : CaseEnds(e, run[e].actual, semantic)
    BY <1>4 DEF Judged
  <2>3. FromQuery(r.actual, own)
    BY <1>1, <2>1 DEF RunOK
  <2> QED BY <2>1, <2>2, <2>3, CaseEndsKeeps
<1>5. CASE JudgeRaises(e) \/ Responds(e)
  <2>1. PICK pc \in {"failed", "done"} :
          /\ Continue(e, [r EXCEPT !.pc = pc]) /\ UNCHANGED evals /\ UNCHANGED query
          /\ (r.pc = "tracing" /\ pc = "done") \/ (r.pc = "judging" /\ pc = "failed")
    BY <1>5 DEF JudgeRaises, Responds, retVars
  <2> DEFINE n == [r EXCEPT !.pc = pc]
  <2>2. /\ DOMAIN n = RunFields /\ n.pc = pc
        /\ n.suite = r.suite /\ n.at = r.at /\ n.results = r.results
    BY <1>1 DEF RunOK, RunFields
  <2> HIDE DEF n
  <2>3. RunOK(e, n)
    BY <1>1, <2>2 DEF RunOK, RunPCs
  <2>4. Continue(e, n)
    BY <2>1 DEF n
  <2> QED BY <2>1, <2>2, <2>3, <2>4, OneRunMoves DEF EvalInv
<1> QED BY <1>2, <1>3, <1>4, <1>5 DEF RunStep

(* A run starts without results, with a suite or an empty one.             *)
LEMMA StartRunKeeps ==
  ASSUME EvalInv, NEW e \in Run, NEW s \in Suite \cup {<<SampleCase>>}, StartRun(e, s)
  PROVE  RunsOK' /\ EvalsOK'
<1> DEFINE n(pc) == [[NewRun EXCEPT !.suite = s] EXCEPT !.pc = pc]
<1>1. run[e].pc = "idle" /\ UNCHANGED query
  BY DEF StartRun, retVars
<1>2. s \in Suites /\ s \in Seq(Case)
  BY SuiteType DEF Suites
<1>3. ASSUME NEW pc \in {"calling", "tracing"}, pc = "calling" => s # <<>>
      PROVE  RunOK(e, n(pc)) /\ n(pc).pc = pc
  <2> DEFINE m == n(pc)
  <2>1. /\ DOMAIN m = RunFields /\ m.pc = pc /\ m.suite = s
        /\ m.at = 1 /\ m.results = <<>>
    BY DEF NewRun, RunFields
  <2> HIDE DEF m
  <2>2. m.results \in Seq(CaseResult) /\ Len(m.results) <= Len(s) /\ DOMAIN m.results = {}
    BY <1>2, <2>1
  <2>3. m.pc = "calling" => m.at \in DOMAIN s /\ Len(m.results) = m.at - 1
    BY <1>2, <1>3, <2>1
  <2>4. m.pc \in RunPCs /\ m.pc # "judging"
    BY <2>1 DEF RunPCs
  <2> QED BY <1>2, <2>1, <2>2, <2>3, <2>4 DEF RunOK, m
<1>4. CASE s = <<>>
  <2>1. Continue(e, n("tracing")) /\ Recorded(e, <<>>)
    BY <1>4 DEF StartRun
  <2>2. RunOK(e, n("tracing")) /\ n("tracing").pc = "tracing"
    BY <1>3
  <2> HIDE DEF n
  <2> QED BY <1>1, <2>1, <2>2, OneRunMoves DEF EvalInv
<1>5. CASE s # <<>>
  <2>1. Continue(e, n("calling")) /\ UNCHANGED evals
    BY <1>5 DEF StartRun
  <2>2. RunOK(e, n("calling")) /\ n("calling").pc = "calling"
    BY <1>3, <1>5
  <2> HIDE DEF n
  <2> QED BY <1>1, <2>1, <2>2, OneRunMoves DEF EvalInv
<1> QED BY <1>4, <1>5

(* A restart keeps what is left in order.                                  *)
LEMMA EvalRestartKeeps ==
  ASSUME EvalInv, EvalRestart
  PROVE  RunsOK' /\ EvalsOK'
<1>1. /\ UNCHANGED query /\ DOMAIN evals' = {}
      /\ run' = [e \in Run |-> IF Running(e) THEN [run[e] EXCEPT !.pc = "lost"] ELSE run[e]]
  BY DEF EvalRestart, retVars
<1>2. ASSUME NEW e \in Run PROVE RunOK(e, run'[e])
  <2> DEFINE r == run[e]
             n == [r EXCEPT !.pc = "lost"]
  <2>1. RunOK(e, r)
    BY RunInOrder
  <2>2. /\ DOMAIN n = RunFields /\ n.pc = "lost"
        /\ n.suite = r.suite /\ n.at = r.at /\ n.results = r.results
    BY <2>1 DEF RunOK, RunFields
  <2>3. run'[e] = n \/ run'[e] = r
    BY <1>1
  <2> HIDE DEF n
  <2>4. RunOK(e, n)
    BY <2>1, <2>2 DEF RunOK, RunPCs
  <2> QED BY <2>1, <2>3, <2>4
<1>3. \A e \in Run : RunOK(e, run[e])'
  BY <1>1, <1>2 DEF RunOK
<1> QED BY <1>1, <1>3 DEF RunsOK, EvalsOK

(* Steps of the retrieval service keep the runs in order, too.             *)
LEMMA RetrievalKeepsRuns ==
  ASSUME EvalInv, SettledStays, UNCHANGED evalVars
  PROVE  RunsOK' /\ EvalsOK'
<1>1. run' = run /\ evals' = evals
  BY DEF evalVars
<1>2. \A e \in Run : RunOK(e, run[e])'
  <2> TAKE e \in Run
  <2>1. PICK r : r = run[e]
    OBVIOUS
  <2>2. RunOK(e, r)
    BY <2>1, RunInOrder
  <2>3. RunOK(e, r)'
    BY <2>2, RunStays
  <2> QED BY <1>1, <2>1, <2>3 DEF RunOK
<1> QED BY <1>1, <1>2 DEF EvalInv, RunsOK, EvalsOK

(* A query that arrives, late or not, is a request like those of users.    *)
LEMMA ArrivesKeeps ==
  ASSUME EvalInv, NEW e \in Run, NEW i \in DOMAIN run[e].suite, Arrives(e, i)
  PROVE  EvalInv'
<1> DEFINE q == <<e, i>>
           req == [kind |-> "query", ask |-> run[e].suite[i].ask, top |-> TopK]
<1>1. q \in Query /\ run[e].suite[i].ask \in Question
  BY RunInOrder, SuiteType
<1>2. Ask(q, req) /\ UNCHANGED evalVars
  BY DEF Arrives
<1>3. req.kind \in {"search", "query"} /\ req.ask \in Question /\ req.top \in Nat \ {0}
  BY <1>1, TopKAssumption
<1> HIDE DEF q, req
<1>4. RetInv' /\ SettledStays
  BY <1>1, <1>2, <1>3, AskInv, AskSettled DEF EvalInv, RetInv
<1> QED BY <1>2, <1>4, RetrievalKeepsRuns DEF EvalInv

(* Nothing of the retrieval service changes.                               *)
LEMMA RetrievalStays ==
  ASSUME RetInv, UNCHANGED dbVars, UNCHANGED retVars
  PROVE  RetInv'
<1>1. DbInv'
  BY DbStutterInv DEF RetInv
<1> QED BY <1>1, RetUnchanged

(* The invariant holds at first.                                           *)
LEMMA EvalInitInv ==
  ASSUME EvalInit
  PROVE  EvalInv
<1>1. RetInv /\ run = [e \in Run |-> NewRun] /\ DOMAIN evals = {}
  BY RetInitInv DEF EvalInit
<1>2. ASSUME NEW e \in Run PROVE RunOK(e, NewRun)
  <2>1. /\ DOMAIN NewRun = RunFields /\ NewRun.pc = "idle"
        /\ NewRun.suite = <<>> /\ NewRun.results = <<>>
    BY DEF NewRun, RunFields
  <2>2. NewRun.suite \in Suites /\ NewRun.results \in Seq(CaseResult)
        /\ Len(NewRun.results) <= Len(NewRun.suite) /\ DOMAIN NewRun.results = {}
    BY <2>1 DEF Suites
  <2> QED BY <2>1, <2>2 DEF RunOK, RunPCs
<1>3. RunsOK
  BY <1>1, <1>2 DEF RunsOK
<1> QED BY <1>1, <1>3 DEF EvalInv, EvalsOK

(* Every step keeps it.                                                    *)
LEMMA EvalNextInv ==
  ASSUME EvalInv, EvalNext
  PROVE  EvalInv'
<1>1. CASE RetNext /\ UNCHANGED evalVars
  <2>1. RetInv' /\ SettledStays
    BY <1>1, RetNextInv, RetNextSettled DEF EvalInv, RetInv
  <2> QED BY <1>1, <2>1, RetrievalKeepsRuns DEF EvalInv
<1>2. CASE \E e \in Run : RunStep(e)
  <2>1. PICK e \in Run : RunStep(e)
    BY <1>2
  <2>2. UNCHANGED dbVars /\ UNCHANGED retVars
    BY <2>1 DEF RunStep, CallReturns, CallFails, CallYields, Judged, JudgeRaises, Responds
  <2>3. RetInv'
    BY <2>2, RetrievalStays DEF EvalInv
  <2> QED BY <2>1, <2>3, RunStepKeeps DEF EvalInv
<1>3. CASE \E e \in Run : \E s \in Suite \cup {<<SampleCase>>} : StartRun(e, s)
  <2>1. PICK e \in Run, s \in Suite \cup {<<SampleCase>>} : StartRun(e, s)
    BY <1>3
  <2>2. RetInv'
    BY <2>1, RetrievalStays DEF EvalInv, StartRun
  <2> QED BY <2>1, <2>2, StartRunKeeps DEF EvalInv
<1>4. CASE \E e \in Run : \E i \in DOMAIN run[e].suite : Arrives(e, i)
  BY <1>4, ArrivesKeeps
<1>5. CASE EvalRestart
  <2>1. RetInv'
    BY <1>5, RetrievalStays DEF EvalInv, EvalRestart
  <2> QED BY <1>5, <2>1, EvalRestartKeeps DEF EvalInv
<1> QED BY <1>1, <1>2, <1>3, <1>4, <1>5 DEF EvalNext

(* And so does a step that changes nothing.                                *)
LEMMA EvalStepInv == EvalInv /\ [EvalNext]_allVars => EvalInv'
<1> SUFFICES ASSUME EvalInv, [EvalNext]_allVars PROVE EvalInv'
  OBVIOUS
<1>1. CASE UNCHANGED allVars
  <2>1. UNCHANGED dbVars /\ UNCHANGED retVars /\ UNCHANGED evalVars
    BY <1>1 DEF allVars
  <2>2. RetInv' /\ SettledStays
    BY <2>1, RetrievalStays DEF EvalInv, SettledStays, retVars
  <2> QED BY <2>1, <2>2, RetrievalKeepsRuns DEF EvalInv
<1> QED BY <1>1, EvalNextInv

-----------------------------------------------------------------------------
(* The recorded runs are the log of RunLog: each step is one of its steps  *)
(* or leaves both of its variables alone.                                  *)

OpenRuns == [e \in Open |-> Asks(run[e].suite)]
LogRuns == [e \in DOMAIN evals |-> Asks(evals[e])]
Quiet == OpenRuns' = OpenRuns /\ LogRuns' = LogRuns

(* The questions of a suite.                                               *)
LEMMA AsksType ==
  ASSUME NEW s \in Suites
  PROVE  Asks(s) \in Seq(Question)
<1>1. s \in Seq(Case) /\ \A i \in DOMAIN s : s[i].ask \in Question
  BY SuiteType
<1>2. DOMAIN s = 1 .. Len(s) /\ Len(s) \in Nat
  BY <1>1
<1>3. \A n \in Nat : \A f \in [1 .. n -> Question] : f \in Seq(Question)
  OBVIOUS
<1>4. Asks(s) \in [1 .. Len(s) -> Question]
  BY <1>1, <1>2 DEF Asks
<1> QED BY <1>2, <1>3, <1>4

(* A run that moves is open or not, as it is after the move.               *)
LEMMA OpenAfter ==
  ASSUME RunsOK, NEW e \in Run, NEW r, Continue(e, r)
  PROVE  IF r.pc \in {"calling", "judging"}
           THEN OpenRuns' = Log!Extended(OpenRuns, e, Asks(r.suite))
           ELSE OpenRuns' = Log!Without(OpenRuns, e)
<1>1. run'[e] = r /\ \A x \in Run : x # e => run'[x] = run[x]
  BY DEF RunsOK, Continue
<1>2. DOMAIN OpenRuns = Open /\ \A x \in Open : x \in Run /\ OpenRuns[x] = Asks(run[x].suite)
  BY DEF OpenRuns, Open
<1>3. OpenRuns' = [x \in Open' |-> Asks(run'[x].suite)]
  BY DEF OpenRuns, Asks
<1>4. CASE r.pc \in {"calling", "judging"}
  <2>1. Open' = Open \cup {e}
    BY <1>1, <1>4 DEF Open
  <2>2. OpenRuns' = [x \in Open \cup {e} |-> IF x = e THEN Asks(r.suite) ELSE OpenRuns[x]]
    BY <1>1, <1>2, <1>3, <2>1
  <2> QED BY <1>2, <1>4, <2>2 DEF Log!Extended
<1>5. CASE r.pc \notin {"calling", "judging"}
  <2>1. Open' = Open \ {e}
    BY <1>1, <1>5 DEF Open
  <2>2. OpenRuns' = [x \in Open \ {e} |-> OpenRuns[x]]
    BY <1>1, <1>2, <1>3, <2>1
  <2> QED BY <1>2, <1>5, <2>2 DEF Log!Without
<1> QED BY <1>4, <1>5

(* An open run that stays open with its suite, or one that was not open    *)
(* and is not, does not show.                                              *)
LEMMA OpenStays ==
  ASSUME RunsOK, NEW e \in Run, NEW r, Continue(e, r), r.suite = run[e].suite,
         r.pc \in {"calling", "judging"} <=> run[e].pc \in {"calling", "judging"}
  PROVE  OpenRuns' = OpenRuns
<1>1. DOMAIN OpenRuns = Open /\ OpenRuns = [x \in Open |-> OpenRuns[x]]
      /\ (e \in Open => OpenRuns[e] = Asks(r.suite))
      /\ (e \in Open <=> run[e].pc \in {"calling", "judging"})
  BY DEF OpenRuns, Open
<1>2. CASE e \in Open
  <2>1. OpenRuns' = Log!Extended(OpenRuns, e, Asks(r.suite))
    BY <1>1, <1>2, OpenAfter
  <2>2. Open \cup {e} = Open
    BY <1>2
  <2> QED BY <1>1, <1>2, <2>1, <2>2 DEF Log!Extended
<1>3. CASE e \notin Open
  <2>1. OpenRuns' = Log!Without(OpenRuns, e)
    BY <1>1, <1>3, OpenAfter
  <2>2. Open \ {e} = Open
    BY <1>3
  <2> QED BY <1>1, <2>1, <2>2 DEF Log!Without
<1> QED BY <1>2, <1>3

(* Recording a run adds it to the log.                                     *)
LEMMA LogAfter ==
  ASSUME NEW e \in Run, NEW results, Recorded(e, results)
  PROVE  LogRuns' = Log!Extended(LogRuns, e, Asks(results))
<1>1. DOMAIN LogRuns = DOMAIN evals /\ \A x \in DOMAIN evals : LogRuns[x] = Asks(evals[x])
  BY DEF LogRuns
<1>2. DOMAIN evals' = DOMAIN evals \cup {e}
      /\ \A x \in DOMAIN evals' : evals'[x] = IF x = e THEN results ELSE evals[x]
  BY DEF Recorded
<1>3. LogRuns' = [x \in DOMAIN evals' |-> Asks(evals'[x])]
  BY DEF LogRuns, Asks
<1>4. LogRuns' = [x \in DOMAIN evals \cup {e} |-> IF x = e THEN Asks(results) ELSE LogRuns[x]]
  BY <1>1, <1>2, <1>3
<1> QED BY <1>1, <1>4 DEF Log!Extended

(* The last case records a result for each case of the suite.              *)
LEMMA CaseEndsLogs ==
  ASSUME EvalInv, NEW e \in Run, run[e].pc \in {"calling", "judging"},
         NEW actual, NEW semantic, CaseEnds(e, actual, semantic)
  PROVE  Log!Record(e) \/ Quiet
<1> DEFINE r == run[e]
           n == AfterCase(r, actual, semantic)
           res == Scored(r.suite[r.at], actual, semantic)
<1>1. /\ RunOK(e, r) /\ DOMAIN r = RunFields /\ r.suite \in Suites /\ r.suite \in Seq(Case)
      /\ r.at \in DOMAIN r.suite /\ r.at \in 1 .. Len(r.suite)
      /\ r.results \in Seq(CaseResult) /\ Len(r.results) = r.at - 1
  BY RunInOrder, SuiteType DEF RunOK
<1>2. /\ n.suite = r.suite /\ n.results = Append(r.results, res)
      /\ n.pc = IF r.at = Len(r.suite) THEN "tracing" ELSE "calling"
  BY <1>1 DEF AfterCase, RunFields
<1>3. Continue(e, n)
  BY DEF CaseEnds, AfterCase, CaseOf
<1>4. IF r.at = Len(r.suite) THEN Recorded(e, n.results) ELSE UNCHANGED evals
  BY <1>2 DEF CaseEnds, CaseOf
<1>5. res.ask = r.suite[r.at].ask
  BY DEF Scored
<1> HIDE DEF n, res
<1>6. CASE r.at = Len(r.suite)
  <2>1. DOMAIN n.results = DOMAIN r.suite
    BY <1>1, <1>2, <1>6
  <2>2. \A i \in DOMAIN n.results : n.results[i].ask = r.suite[i].ask
    <3> TAKE i \in DOMAIN n.results
    <3>1. CASE i = r.at
      BY <1>1, <1>2, <1>5, <3>1
    <3>2. CASE i # r.at
      <4>1. i \in DOMAIN r.results /\ n.results[i] = r.results[i]
        BY <1>1, <1>2, <1>6, <2>1, <3>2
      <4> QED BY <1>1, <4>1 DEF RunOK
    <3> QED BY <3>1, <3>2
  <2>3. Asks(n.results) = Asks(r.suite)
    BY <2>1, <2>2 DEF Asks
  <2>4. LogRuns' = Log!Extended(LogRuns, e, Asks(r.suite))
    BY <1>4, <1>6, <2>3, LogAfter
  <2>5. OpenRuns' = Log!Without(OpenRuns, e)
    BY <1>2, <1>3, <1>6, OpenAfter DEF EvalInv
  <2>6. e \in DOMAIN OpenRuns /\ OpenRuns[e] = Asks(r.suite)
    BY DEF OpenRuns, Open
  <2>7. LogRuns' = Log!Extended(LogRuns, e, OpenRuns[e])
    BY <2>4, <2>6
  <2> QED BY <2>5, <2>6, <2>7 DEF Log!Record, OpenRuns, LogRuns
<1>7. CASE r.at # Len(r.suite)
  <2>1. OpenRuns' = OpenRuns
    BY <1>2, <1>3, <1>7, OpenStays DEF EvalInv
  <2> QED BY <1>4, <1>7, <2>1 DEF Quiet, LogRuns
<1> QED BY <1>6, <1>7

(* A call may end the last case, or nothing shows.                         *)
LEMMA CallYieldsLogs ==
  ASSUME EvalInv, NEW e \in Run, NEW actual, CallYields(e, actual)
  PROVE  Log!Record(e) \/ Quiet
<1>1. run[e].pc = "calling"
  BY DEF CallYields
<1>2. CASE CaseEnds(e, actual, "skipped")
  BY <1>1, <1>2, CaseEndsLogs
<1>3. CASE Continue(e, [run[e] EXCEPT !.pc = "judging", !.actual = actual]) /\ UNCHANGED evals
  <2> DEFINE n == [run[e] EXCEPT !.pc = "judging", !.actual = actual]
  <2>1. n.suite = run[e].suite /\ n.pc = "judging"
    BY RunInOrder DEF RunOK, RunFields
  <2>2. Continue(e, n)
    BY <1>3
  <2> HIDE DEF n
  <2>3. OpenRuns' = OpenRuns
    BY <1>1, <2>1, <2>2, OpenStays DEF EvalInv
  <2> QED BY <1>3, <2>3 DEF Quiet, LogRuns
<1> QED BY <1>2, <1>3 DEF CallYields

(* A step of a run records it, drops it, or does not show.                 *)
LEMMA RunStepLogs ==
  ASSUME EvalInv, NEW e \in Run, RunStep(e)
  PROVE  Log!Record(e) \/ Log!Drop(e) \/ Quiet
<1>1. DOMAIN run[e] = RunFields
  BY RunInOrder DEF RunOK
<1>2. CASE CallReturns(e) \/ CallFails(e)
  BY <1>2, CallYieldsLogs DEF CallReturns, CallFails
<1>3. CASE Judged(e)
  BY <1>3, CaseEndsLogs DEF Judged
<1>4. CASE JudgeRaises(e)
  <2> DEFINE n == [run[e] EXCEPT !.pc = "failed"]
  <2>1. n.pc = "failed" /\ run[e].pc = "judging"
    BY <1>1, <1>4 DEF RunFields, JudgeRaises
  <2>2. Continue(e, n) /\ UNCHANGED evals
    BY <1>4 DEF JudgeRaises
  <2> HIDE DEF n
  <2>3. OpenRuns' = Log!Without(OpenRuns, e)
    BY <2>1, <2>2, OpenAfter DEF EvalInv
  <2>4. e \in DOMAIN OpenRuns /\ LogRuns' = LogRuns
    BY <2>1, <2>2 DEF OpenRuns, Open, LogRuns
  <2> QED BY <2>3, <2>4 DEF Log!Drop, OpenRuns, LogRuns
<1>5. CASE Responds(e)
  <2> DEFINE n == [run[e] EXCEPT !.pc = "done"]
  <2>1. n.pc = "done" /\ n.suite = run[e].suite /\ run[e].pc = "tracing"
    BY <1>1, <1>5 DEF RunFields, Responds
  <2>2. Continue(e, n) /\ UNCHANGED evals
    BY <1>5 DEF Responds
  <2> HIDE DEF n
  <2>3. OpenRuns' = OpenRuns
    BY <2>1, <2>2, OpenStays DEF EvalInv
  <2> QED BY <2>2, <2>3 DEF Quiet, LogRuns
<1> QED BY <1>2, <1>3, <1>4, <1>5 DEF RunStep

(* A start opens the run, or records it at once if it has no case.         *)
LEMMA StartRunLogs ==
  ASSUME EvalInv, NEW e \in Run, NEW s \in Suite \cup {<<SampleCase>>}, StartRun(e, s)
  PROVE  Log!Start(e) \/ Log!RecordEmpty(e)
<1> DEFINE n(pc) == [[NewRun EXCEPT !.suite = s] EXCEPT !.pc = pc]
<1>1. run[e].pc = "idle" /\ e \notin DOMAIN OpenRuns \cup DOMAIN LogRuns
  BY DEF StartRun, OpenRuns, Open, LogRuns, EvalInv, EvalsOK
<1>2. \A pc : n(pc).pc = pc /\ n(pc).suite = s
  BY DEF NewRun
<1>3. CASE s = <<>>
  <2> DEFINE m == n("tracing")
  <2>1. Continue(e, m) /\ Recorded(e, <<>>)
    BY <1>3 DEF StartRun
  <2>2. m.pc = "tracing" /\ m.suite = s
    BY <1>2
  <2> HIDE DEF m
  <2>3. OpenRuns' = Log!Without(OpenRuns, e)
    BY <2>1, <2>2, OpenAfter DEF EvalInv
  <2>4. OpenRuns' = OpenRuns
    <3>1. DOMAIN OpenRuns \ {e} = DOMAIN OpenRuns
      BY <1>1
    <3>2. OpenRuns = [x \in DOMAIN OpenRuns |-> OpenRuns[x]]
      BY DEF OpenRuns
    <3> QED BY <2>3, <3>1, <3>2 DEF Log!Without
  <2>5. LogRuns' = Log!Extended(LogRuns, e, <<>>)
    <3>1. Asks(<<>>) = <<>>
      BY DEF Asks
    <3> QED BY <2>1, <3>1, LogAfter
  <2> QED BY <1>1, <2>4, <2>5 DEF Log!RecordEmpty, OpenRuns, LogRuns
<1>4. CASE s # <<>>
  <2> DEFINE m == n("calling")
  <2>1. Continue(e, m) /\ UNCHANGED evals
    BY <1>4 DEF StartRun
  <2>2. m.pc = "calling" /\ m.suite = s
    BY <1>2
  <2> HIDE DEF m
  <2>3. OpenRuns' = Log!Extended(OpenRuns, e, Asks(s))
    BY <2>1, <2>2, OpenAfter DEF EvalInv
  <2>4. e \in DOMAIN OpenRuns' /\ OpenRuns'[e] = Asks(s)
    BY <2>3 DEF Log!Extended
  <2>5. OpenRuns'[e] \in Seq(Question)
    BY <2>4, AsksType DEF Suites
  <2>6. LogRuns' = LogRuns
    BY <2>1 DEF LogRuns
  <2>7. OpenRuns' = Log!Extended(OpenRuns, e, OpenRuns'[e])
    BY <2>3, <2>4
  <2> QED BY <1>1, <2>4, <2>5, <2>6, <2>7 DEF Log!Start, OpenRuns, LogRuns
<1> QED BY <1>3, <1>4

(* Every step is a step of the log, or does not show.                      *)
LEMMA EvalStepLogs ==
  ASSUME EvalInv, [EvalNext]_allVars
  PROVE  Log!LogNext \/ Quiet
<1>1. CASE UNCHANGED evalVars
  BY <1>1 DEF evalVars, Quiet, OpenRuns, LogRuns, Open
<1>2. CASE \E e \in Run : RunStep(e)
  BY <1>2, RunStepLogs DEF Log!LogNext
<1>3. CASE \E e \in Run : \E s \in Suite \cup {<<SampleCase>>} : StartRun(e, s)
  BY <1>3, StartRunLogs DEF Log!LogNext
<1>4. CASE EvalRestart
  <2>1. \A e \in Run : run'[e].pc \notin {"calling", "judging"}
    <3> TAKE e \in Run
    <3>1. DOMAIN run[e] = RunFields
      BY RunInOrder DEF RunOK
    <3> QED BY <1>4, <3>1 DEF EvalRestart, Running, RunFields
  <2>2. Open' = {} /\ DOMAIN evals' = {}
    BY <1>4, <2>1 DEF Open, EvalRestart
  <2>3. OpenRuns' = Log!Nothing /\ LogRuns' = Log!Nothing
    BY <2>2 DEF OpenRuns, LogRuns, Log!Nothing
  <2> QED BY <2>3 DEF Log!LogNext, Log!Forget, OpenRuns, LogRuns
<1>5. [EvalNext]_allVars => UNCHANGED evalVars \/ EvalNext
  BY DEF allVars
<1> QED BY <1>1, <1>2, <1>3, <1>4, <1>5 DEF EvalNext, Arrives

-----------------------------------------------------------------------------
(* Theorems.                                                               *)

(* The invariant gives the types.                                          *)
LEMMA EvalInvTypes == EvalInv => EvalTypeOK
<1> SUFFICES ASSUME EvalInv PROVE EvalTypeOK
  OBVIOUS
<1>1. RetrievalTypeOK
  BY RetInvTypes DEF EvalInv
<1>2. DOMAIN evals \subseteq Run
  BY DEF EvalInv, EvalsOK
<1>3. \A e \in Run :
       /\ run[e].pc \in {"idle", "calling", "judging", "tracing", "done", "failed", "lost"}
       /\ run[e].pc \in {"calling", "judging"} =>
            run[e].at \in DOMAIN run[e].suite /\ Len(run[e].results) = run[e].at - 1
  BY DEF EvalInv, RunsOK, RunOK, RunPCs
<1> QED BY <1>1, <1>2, <1>3 DEF EvalTypeOK

(* It says where the points come from.                                     *)
LEMMA EvalInvPoints == EvalInv => PointsAreEarned
<1> SUFFICES ASSUME EvalInv, NEW e \in Run, NEW i \in DOMAIN run[e].results
             PROVE  Earned(run[e].suite[i], run[e].results[i], query[<<e, i>>])
  BY DEF PointsAreEarned, Earned
<1> QED BY RunInOrder DEF RunOK

(* The types of the evaluation runs over those of the services below.      *)
THEOREM EvalTypeCorrect == EvalSpec => []EvalTypeOK
<1> QED BY EvalInitInv, EvalStepInv, EvalInvTypes, PTL DEF EvalSpec

(* The points of a result are earned by the query of its own case, for any *)
(* suites and runs, late answers, timeouts and restarts of both services.  *)
THEOREM PointsComeFromTheirCase == EvalSpec => []PointsAreEarned
<1> QED BY EvalInitInv, EvalStepInv, EvalInvPoints, PTL DEF EvalSpec

(* The list of runs holds a result for each case of each recorded run, in  *)
(* the order of its suite, only grows, and is emptied only by a restart.   *)
THEOREM RunLogRefinement == EvalSpec => ImplementsRunLog
<1>1. EvalInit => Log!LogInit
  <2> SUFFICES ASSUME EvalInit PROVE Log!LogInit
    OBVIOUS
  <2>1. Open = {} /\ DOMAIN evals = {}
    BY DEF EvalInit, Open, NewRun
  <2> QED BY <2>1 DEF Log!LogInit, Log!Nothing
<1>2. EvalInv /\ [EvalNext]_allVars => Log!LogNext \/ UNCHANGED <<OpenRuns, LogRuns>>
  BY EvalStepLogs DEF Quiet
<1>3. EvalInv /\ [EvalNext]_allVars => [Log!LogNext]_(Log!logVars)
  BY <1>2 DEF OpenRuns, LogRuns, Log!logVars
<1> QED BY <1>1, <1>3, EvalInitInv, EvalStepInv, PTL DEF EvalSpec, ImplementsRunLog, Log!LogSpec
=============================================================================
