---------------------------- MODULE DbFlagProofs ----------------------------
(***************************************************************************)
(* The types of DbFlag and SqlUnreachable, for any set of readiness        *)
(* requests and any number of attempts.                                    *)
(***************************************************************************)
EXTENDS DbFlag, TLAPS

(* Imports see the flag before anything sets it.                           *)
CopyInv == ~copied /\ (phase = "importing" => ~live)

DbInv == DbTypeOK /\ CopyInv

PCs == {"idle", "connecting", "committing", "sleeping", "up", "down"}
Busy == {"connecting", "committing", "sleeping"}

(* Moving one caller keeps the type of probe, if it has attempts left just *)
(* when it is in flight.                                                   *)
LEMMA GotoType ==
  ASSUME DbTypeOK, NEW c \in Caller, NEW pc \in PCs, NEW left \in 0 .. Retries,
         Goto(c, pc, left), pc \in Busy <=> left > 0
  PROVE  /\ probe' \in [Caller -> [pc : PCs, left : 0 .. Retries]]
         /\ \A d \in Caller : Probing(d)' <=> probe'[d].left > 0
<1>1. probe' = [probe EXCEPT ![c] = [pc |-> pc, left |-> left]]
  BY DEF Goto
<1>2. probe \in [Caller -> [pc : PCs, left : 0 .. Retries]]
  BY DEF DbTypeOK, PCs
<1>3. probe' \in [Caller -> [pc : PCs, left : 0 .. Retries]]
  BY <1>1, <1>2
<1>4. ASSUME NEW d \in Caller
      PROVE  Probing(d)' <=> probe'[d].left > 0
  <2>1. CASE d = c
    BY <1>1, <1>2, <2>1 DEF Probing, Busy
  <2>2. CASE d # c
    <3>1. probe'[d] = probe[d]
      BY <1>1, <1>2, <2>2
    <3> QED
      BY <3>1 DEF Probing, DbTypeOK
  <2> QED
    BY <2>1, <2>2
<1> QED
  BY <1>3, <1>4

(* The end of a call of check_db keeps the invariant.                      *)
LEMMA CheckReturnsInv ==
  ASSUME DbInv, NEW c \in Caller, NEW ok \in BOOLEAN, Probing(c),
         CheckReturns(c, ok)
  PROVE  DbInv'
<1>1. probe[c].left \in 1 .. Retries
  <2>1. probe[c].left \in 0 .. Retries /\ probe[c].left > 0
    BY DEF DbInv, DbTypeOK
  <2> QED
    BY <2>1, RetriesAssumption
<1>2. PICK pc \in PCs, left \in 0 .. Retries :
        Goto(c, pc, left) /\ (pc \in Busy <=> left > 0)
  <2>1. 0 \in 0 .. Retries
    BY RetriesAssumption
  <2>2. CASE Goto(c, "idle", 0) \/ Goto(c, "up", 0) \/ Goto(c, "down", 0)
    BY <2>1, <2>2 DEF PCs, Busy
  <2>3. CASE probe[c].left > 1 /\ Goto(c, "sleeping", probe[c].left - 1)
    <3>1. probe[c].left - 1 \in 0 .. Retries /\ probe[c].left - 1 > 0
      BY <1>1, <2>3, RetriesAssumption
    <3> QED
      BY <3>1, <2>3 DEF PCs, Busy
  <2> QED
    BY <2>2, <2>3 DEF CheckReturns
<1>3. /\ probe' \in [Caller -> [pc : PCs, left : 0 .. Retries]]
      /\ \A d \in Caller : Probing(d)' <=> probe'[d].left > 0
  BY <1>2, GotoType DEF DbInv
<1>4. /\ live' = ok /\ phase' = "serving"
      /\ copied' = copied /\ reachable' = reachable /\ seen' = seen
  BY DEF CheckReturns
<1> QED
  BY <1>3, <1>4 DEF DbInv, DbTypeOK, CopyInv, PCs

(* The environment's seen is a set of Booleans per caller.                 *)
LEMMA SeenType ==
  ASSUME DbTypeOK, NEW c \in Caller,
         seen' = [seen EXCEPT ![c] = {reachable}]
  PROVE  seen' \in [Caller -> SUBSET BOOLEAN]
  BY DEF DbTypeOK

LEMMA DbInitInv ==
  ASSUME DbInit
  PROVE  DbInv
<1>1. probe = [c \in Caller |-> [pc |-> "idle", left |-> 0]]
  BY DEF DbInit, Idle
<1>2. probe \in [Caller -> [pc : PCs, left : 0 .. Retries]]
  BY <1>1, RetriesAssumption DEF PCs
<1>3. \A c \in Caller : Probing(c) <=> probe[c].left > 0
  BY <1>1 DEF Probing
<1> QED
  BY <1>2, <1>3 DEF DbInit, DbInv, DbTypeOK, CopyInv, PCs

(* A restart establishes the invariant anew.                               *)
LEMMA DbRestartInv ==
  ASSUME DbInv, DbRestart
  PROVE  DbInv'
<1>1. probe' = [c \in Caller |-> [pc |-> "idle", left |-> 0]]
  BY DEF DbRestart, Idle
<1>2. probe' \in [Caller -> [pc : PCs, left : 0 .. Retries]]
  BY <1>1, RetriesAssumption DEF PCs
<1>3. \A c \in Caller : Probing(c)' <=> probe'[c].left > 0
  BY <1>1 DEF Probing
<1> QED
  BY <1>2, <1>3 DEF DbRestart, DbInv, DbTypeOK, CopyInv, PCs

LEMMA DbNextInv ==
  ASSUME DbInv, DbNext
  PROVE  DbInv'
<1>t. Lifespan \in Caller /\ Probe \subseteq Caller
  BY DEF Caller
<1>1. CASE Import
  <2>1. Goto(Lifespan, "connecting", 1) /\ 1 \in 0 .. Retries
    BY <1>1, RetriesAssumption DEF Import
  <2>2. /\ probe' \in [Caller -> [pc : PCs, left : 0 .. Retries]]
        /\ \A d \in Caller : Probing(d)' <=> probe'[d].left > 0
    BY <2>1, <1>t, GotoType DEF DbInv, PCs, Busy
  <2>3. seen' \in [Caller -> SUBSET BOOLEAN]
    BY <1>1, <1>t, SeenType DEF Import, DbInv
  <2> QED
    BY <1>1, <2>2, <2>3 DEF Import, DbInv, DbTypeOK, CopyInv, PCs
<1>2. CASE Flip
  <2>1. /\ reachable' \in BOOLEAN
        /\ seen' \in [Caller -> SUBSET BOOLEAN]
    BY <1>2 DEF Flip, DbInv, DbTypeOK
  <2>2. phase' = phase /\ live' = live /\ copied' = copied /\ probe' = probe
    BY <1>2 DEF Flip
  <2> QED
    BY <2>1, <2>2 DEF DbInv, DbTypeOK, CopyInv, Probing
<1>3. ASSUME NEW p \in Probe, Ready(p)
      PROVE  DbInv'
  <2>1. Goto(p, "connecting", Retries) /\ Retries \in 0 .. Retries /\ Retries > 0
    BY <1>3, RetriesAssumption DEF Ready
  <2>2. /\ probe' \in [Caller -> [pc : PCs, left : 0 .. Retries]]
        /\ \A d \in Caller : Probing(d)' <=> probe'[d].left > 0
    BY <2>1, <1>t, GotoType DEF DbInv, PCs, Busy
  <2>3. seen' \in [Caller -> SUBSET BOOLEAN]
    BY <1>3, <1>t, SeenType DEF Ready, DbInv
  <2> QED
    BY <1>3, <2>2, <2>3 DEF Ready, DbInv, DbTypeOK, CopyInv, PCs
<1>4. ASSUME NEW c \in Caller, CheckStep(c)
      PROVE  DbInv'
  <2>1. CASE Refused(c)
    BY <1>4, <2>1, CheckReturnsInv DEF Refused, At, Probing
  <2>2. CASE Committed(c)
    BY <1>4, <2>2, CheckReturnsInv DEF Committed, At, Probing
  <2>3. ASSUME NEW pc \in {"connecting", "committing"}, Probing(c),
               Goto(c, pc, probe[c].left),
               UNCHANGED <<phase, live, copied, reachable, seen>>
        PROVE  DbInv'
    <3>1. probe[c].left \in 0 .. Retries /\ probe[c].left > 0
      BY <1>4, <2>3 DEF DbInv, DbTypeOK
    <3>2. /\ probe' \in [Caller -> [pc : PCs, left : 0 .. Retries]]
          /\ \A d \in Caller : Probing(d)' <=> probe'[d].left > 0
      BY <1>4, <2>3, <3>1, GotoType DEF DbInv, PCs, Busy
    <3> QED
      BY <2>3, <3>2 DEF DbInv, DbTypeOK, CopyInv, PCs
  <2>4. CASE Selected(c)
    BY <2>3, <2>4 DEF Selected, At, Probing
  <2>5. CASE Wake(c)
    BY <2>3, <2>5 DEF Wake, At, Probing
  <2> QED
    BY <1>4, <2>1, <2>2, <2>4, <2>5 DEF CheckStep
<1> QED
  BY <1>1, <1>2, <1>3, <1>4 DEF DbNext

LEMMA DbStutterInv ==
  ASSUME DbInv, UNCHANGED dbVars
  PROVE  DbInv'
  BY DEF DbInv, DbTypeOK, CopyInv, Probing, dbVars

(* The types of the flag, its copies and the probes.                       *)
THEOREM DbTypeCorrect == DbSpec => []DbTypeOK
<1>1. DbInv /\ [DbNext \/ DbRestart]_dbVars => DbInv'
  BY DbNextInv, DbRestartInv, DbStutterInv
<1> QED
  BY <1>1, DbInitInv, PTL DEF DbSpec, DbInv

(* The imported names are FALSE for ever: the SQL branches behind them are *)
(* dead, whatever the database does and however often it is probed.        *)
THEOREM NeverCopied == DbSpec => []SqlUnreachable
<1>1. DbInv /\ [DbNext \/ DbRestart]_dbVars => DbInv'
  BY DbNextInv, DbRestartInv, DbStutterInv
<1>2. DbInv => SqlUnreachable
  BY DEF DbInv, CopyInv, SqlUnreachable
<1> QED
  BY <1>1, <1>2, DbInitInv, PTL DEF DbSpec

(* What an answer rests on: a call in flight has seen the database as it   *)
(* is now, and an answer the database as it says.                          *)
Witnessed(c) ==
  /\ Probing(c) => reachable \in seen[c]
  /\ At(c, "up") => TRUE \in seen[c]
  /\ At(c, "down") => FALSE \in seen[c]

SeenInv == \A c \in Caller : Witnessed(c)

LEMMA OneCallerWitnessed ==
  ASSUME DbInv, SeenInv, NEW c \in Caller, Witnessed(c)', reachable' = reachable,
         \A d \in Caller : d # c => probe'[d] = probe[d] /\ seen'[d] = seen[d]
  PROVE  SeenInv'
BY DEF SeenInv, Witnessed, Probing, At

LEMMA GotoMoves ==
  ASSUME DbInv, NEW c \in Caller, NEW pc, NEW left, Goto(c, pc, left)
  PROVE  /\ probe'[c].pc = pc
         /\ \A d \in Caller : d # c => probe'[d] = probe[d]
BY DEF Goto, DbInv, DbTypeOK

(* A new call: it has seen the database as it is now.                      *)
LEMMA CallBegins ==
  ASSUME DbInv, SeenInv, NEW c \in Caller, NEW left, Goto(c, "connecting", left),
         seen' = [seen EXCEPT ![c] = {reachable}], reachable' = reachable
  PROVE  SeenInv'
<1>1. /\ probe'[c].pc = "connecting"
      /\ \A d \in Caller : d # c => probe'[d] = probe[d]
  BY GotoMoves
<1>2. /\ seen'[c] = {reachable}
      /\ \A d \in Caller : d # c => seen'[d] = seen[d]
  BY DEF DbInv, DbTypeOK
<1>3. Witnessed(c)'
  BY <1>1, <1>2 DEF Witnessed, Probing, At
<1> QED
  BY <1>1, <1>2, <1>3, OneCallerWitnessed

(* The end of an attempt: what it reports was seen.                        *)
LEMMA AttemptEnds ==
  ASSUME DbInv, SeenInv, NEW c \in Caller, NEW ok \in BOOLEAN, CheckReturns(c, ok),
         Probing(c), ok \in seen[c]
  PROVE  SeenInv'
<1>1. seen' = seen /\ reachable' = reachable /\ reachable \in seen[c]
  BY DEF CheckReturns, SeenInv, Witnessed
<1>2. PICK pc, left : /\ Goto(c, pc, left)
                      /\ pc \in {"idle", "up", "down", "sleeping"}
                      /\ pc = "up" => ok = TRUE
                      /\ pc = "down" => ok = FALSE
  BY DEF CheckReturns
<1>3. /\ probe'[c].pc = pc
      /\ \A d \in Caller : d # c => probe'[d] = probe[d]
  BY <1>2, GotoMoves
<1>4. Witnessed(c)'
  BY <1>1, <1>2, <1>3 DEF Witnessed, Probing, At
<1> QED
  BY <1>1, <1>3, <1>4, OneCallerWitnessed

LEMMA CheckStepSeen ==
  ASSUME DbInv, SeenInv, NEW c \in Caller, CheckStep(c)
  PROVE  SeenInv'
<1>1. reachable \in BOOLEAN /\ (Probing(c) => reachable \in seen[c])
  BY DEF DbInv, DbTypeOK, SeenInv, Witnessed
<1>2. CASE Refused(c)
  <2>1. Probing(c) /\ reachable = FALSE /\ CheckReturns(c, FALSE)
    BY <1>1, <1>2 DEF Refused, At, Probing
  <2> QED
    BY <1>1, <2>1, AttemptEnds
<1>3. CASE Committed(c)
  <2>1. Probing(c)
    BY <1>3 DEF Committed, At, Probing
  <2>2. ASSUME reachable, CheckReturns(c, TRUE) PROVE SeenInv'
    BY <1>1, <2>1, <2>2, AttemptEnds
  <2>3. ASSUME FALSE \in seen[c], CheckReturns(c, FALSE) PROVE SeenInv'
    BY <2>1, <2>3, AttemptEnds
  <2> QED
    BY <1>3, <2>2, <2>3 DEF Committed
<1>4. ASSUME NEW pc \in {"connecting", "committing"}, Probing(c),
             Goto(c, pc, probe[c].left), UNCHANGED <<reachable, seen>>
      PROVE  SeenInv'
  <2>1. /\ probe'[c].pc = pc
        /\ \A d \in Caller : d # c => probe'[d] = probe[d]
    BY <1>4, GotoMoves
  <2>2. Witnessed(c)'
    BY <1>1, <1>4, <2>1 DEF Witnessed, Probing, At
  <2> QED
    BY <1>4, <2>1, <2>2, OneCallerWitnessed
<1>5. CASE Selected(c)
  BY <1>4, <1>5 DEF Selected, At, Probing
<1>6. CASE Wake(c)
  BY <1>4, <1>6 DEF Wake, At, Probing
<1> QED
  BY <1>2, <1>3, <1>5, <1>6 DEF CheckStep

LEMMA FlipSeen ==
  ASSUME DbInv, SeenInv, Flip
  PROVE  SeenInv'
<1>1. probe' = probe /\ reachable' = ~reachable
  BY DEF Flip
<1>2. \A c \in Caller : seen'[c] = IF Probing(c) THEN seen[c] \cup {~reachable} ELSE seen[c]
  BY DEF Flip
<1>3. \A c \in Caller : Probing(c)' <=> Probing(c)
  BY <1>1 DEF Probing
<1>4. \A c \in Caller : Probing(c)' => reachable' \in seen'[c]
  BY <1>1, <1>2, <1>3
<1>5. \A c \in Caller : seen[c] \subseteq seen'[c]
  BY <1>2
<1> QED
  BY <1>1, <1>4, <1>5 DEF SeenInv, Witnessed, At

LEMMA DbNextSeen ==
  ASSUME DbInv, SeenInv, DbNext
  PROVE  SeenInv'
<1>1. CASE Import
  <2>1. Lifespan \in Caller
    BY DEF Caller
  <2> QED
    BY <1>1, <2>1, CallBegins DEF Import
<1>2. ASSUME NEW p \in Probe, Ready(p) PROVE SeenInv'
  <2>1. p \in Caller
    BY DEF Caller
  <2> QED
    BY <1>2, <2>1, CallBegins DEF Ready
<1> QED
  BY <1>1, <1>2, FlipSeen, CheckStepSeen DEF DbNext

(* Nothing is in flight in a new process, nor answered.                    *)
LEMMA IdleSeen ==
  ASSUME probe = [c \in Caller |-> Idle]
  PROVE  SeenInv
BY DEF Idle, SeenInv, Witnessed, Probing, At

(* A readiness request that says "up" or "down" saw the database so while  *)
(* it ran, whatever the other calls did to the shared flag, and however    *)
(* often the database came and went.                                       *)
THEOREM AnswersWereTrue == DbSpec => []ReportedWhileProbing
<1>1. DbInit => DbInv /\ SeenInv
  BY DbInitInv, IdleSeen DEF DbInit
<1>2. DbInv /\ SeenInv /\ [DbNext \/ DbRestart]_dbVars => (DbInv /\ SeenInv)'
  <2>1. ASSUME DbInv, SeenInv, DbRestart PROVE SeenInv'
    <3>1. probe' = [c \in Caller |-> Idle]
      BY <2>1 DEF DbRestart
    <3> QED
      BY <3>1 DEF Idle, SeenInv, Witnessed, Probing, At
  <2>2. ASSUME SeenInv, UNCHANGED dbVars PROVE SeenInv'
    BY <2>2 DEF SeenInv, Witnessed, Probing, At, dbVars
  <2> QED
    BY <2>1, <2>2, DbNextInv, DbNextSeen, DbRestartInv, DbStutterInv
<1>3. SeenInv => ReportedWhileProbing
  BY DEF SeenInv, Witnessed, ReportedWhileProbing, Caller
<1> QED
  BY <1>1, <1>2, <1>3, PTL DEF DbSpec
=============================================================================
