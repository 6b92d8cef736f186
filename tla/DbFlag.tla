------------------------------- MODULE DbFlag -------------------------------
(***************************************************************************)
(* What a Python service knows of its database: app/db/session.py and the  *)
(* readiness probe of shared/readiness.py, as the trace service wires them *)
(* (the retrieval, ingestion and eval services do the same).               *)
(*                                                                         *)
(* The flag is a module variable.  `from app.db.session import             *)
(* db_available` binds a second name to the value the flag has while the   *)
(* process imports its modules, which is before the lifespan hook or any   *)
(* readiness request has probed the database: this is copied.  check_db    *)
(* sets the live flag.                                                     *)
(***************************************************************************)
EXTENDS Naturals

CONSTANTS
  Probe,      \* bound: readiness requests at a time
  Lifespan,   \* the startup hook, which calls check_db once
  Retries,    \* attempts of one readiness request
  Unsteady    \* bound: the database may go away and come back

ASSUME LifespanAssumption == Lifespan \notin Probe
ASSUME RetriesAssumption == Retries \in Nat \ {0}
ASSUME UnsteadyAssumption == Unsteady \in BOOLEAN

Caller == Probe \cup {Lifespan}

VARIABLES
  phase,      \* "importing", "starting" or "serving"
  live,       \* session.db_available
  copied,     \* the importers' db_available
  reachable,  \* environment: PostgreSQL answers
  probe,      \* probe[c]: where the call of check_db for c is
  seen        \* seen[c]: environment: how the database was during the call of c

dbVars == <<phase, live, copied, reachable, probe, seen>>

Idle == [pc |-> "idle", left |-> 0]

(* A process that has just been started.                                   *)
DbInit ==
  /\ phase = "importing"
  /\ live = FALSE
  /\ copied = FALSE
  /\ reachable \in BOOLEAN
  /\ probe = [c \in Caller |-> Idle]
  /\ seen = [c \in Caller |-> {}]

At(c, pc) == probe[c].pc = pc
Goto(c, pc, left) == probe' = [probe EXCEPT ![c] = [pc |-> pc, left |-> left]]

(* The import of the modules, up to the start of the lifespan hook.        *)
Mut_ImportWhenServing ==
  /\ phase \in {"importing", "serving"}
  /\ copied' = live
  /\ phase' = "starting"
  /\ Goto(Lifespan, "connecting", 1)
  /\ seen' = [seen EXCEPT ![Lifespan] = {reachable}]
  /\ UNCHANGED <<live, reachable>>
Import ==
  /\ phase = "importing"
  /\ copied' = live
  /\ phase' = "starting"
  /\ Goto(Lifespan, "connecting", 1)
  /\ seen' = [seen EXCEPT ![Lifespan] = {reachable}]
  /\ UNCHANGED <<live, reachable>>

(* GET /ready.                                                             *)
Mut_ReadyFromFlag(p) ==
  /\ phase = "serving"
  /\ probe[p].pc \in {"idle", "up", "down"}
  /\ Goto(p, IF live THEN "up" ELSE "down", 0)
  /\ seen' = [seen EXCEPT ![p] = {reachable}]
  /\ UNCHANGED <<phase, live, copied, reachable>>
Ready(p) ==
  /\ phase = "serving"
  /\ probe[p].pc \in {"idle", "up", "down"}
  /\ Goto(p, "connecting", Retries)
  /\ seen' = [seen EXCEPT ![p] = {reachable}]
  /\ UNCHANGED <<phase, live, copied, reachable>>

(* check_db returns ok.  The startup hook lets the service begin whatever  *)
(* the outcome; a readiness request answers after a success or its last    *)
(* attempt and sleeps otherwise.                                           *)
Mut_CheckReturnsForever(c, ok) ==
  /\ live' = ok
  /\ phase' = "serving"
  /\ IF c = Lifespan
       THEN Goto(c, "idle", 0)
       ELSE \/ ok /\ Goto(c, "up", 0)
            \/ ~ok /\ Goto(c, "sleeping", probe[c].left)
  /\ UNCHANGED <<copied, reachable, seen>>
Mut_CheckReturnsPastLast(c, ok) ==
  /\ live' = ok
  /\ phase' = "serving"
  /\ IF c = Lifespan
       THEN Goto(c, "idle", 0)
       ELSE \/ ok /\ Goto(c, "up", 0)
            \/ ~ok /\ probe[c].left = 0 /\ Goto(c, "down", 0)
            \/ ~ok /\ probe[c].left > 0 /\ Goto(c, "sleeping", probe[c].left - 1)
  /\ UNCHANGED <<copied, reachable, seen>>
CheckReturns(c, ok) ==
  /\ live' = ok
  /\ phase' = "serving"
  /\ IF c = Lifespan
       THEN Goto(c, "idle", 0)
       ELSE \/ ok /\ Goto(c, "up", 0)
            \/ ~ok /\ probe[c].left = 1 /\ Goto(c, "down", 0)
            \/ ~ok /\ probe[c].left > 1 /\ Goto(c, "sleeping", probe[c].left - 1)
  /\ UNCHANGED <<copied, reachable, seen>>

Refused(c) ==
  /\ At(c, "connecting")
  /\ ~reachable
  /\ CheckReturns(c, FALSE)

(* SELECT 1 has answered; leaving engine.begin() commits, another await.   *)
Selected(c) ==
  /\ At(c, "connecting")
  /\ reachable
  /\ Goto(c, "committing", probe[c].left)
  /\ UNCHANGED <<phase, live, copied, reachable, seen>>

(* The commit fails if the connection was lost in between, also when the   *)
(* database is back by now.                                                *)
Committed(c) ==
  /\ At(c, "committing")
  /\ \/ reachable /\ CheckReturns(c, TRUE)
     \/ FALSE \in seen[c] /\ CheckReturns(c, FALSE)

Wake(c) ==
  /\ At(c, "sleeping")
  /\ Goto(c, "connecting", probe[c].left)
  /\ UNCHANGED <<phase, live, copied, reachable, seen>>

Probing(c) == probe[c].pc \in {"connecting", "committing", "sleeping"}

(* Environment: the database goes away or comes back.                      *)
Flip ==
  /\ Unsteady
  /\ reachable' = ~reachable
  /\ seen' = [c \in Caller |->
                IF Probing(c) THEN seen[c] \cup {~reachable} ELSE seen[c]]
  /\ UNCHANGED <<phase, live, copied, probe>>

(* The process ends and a new one begins.                                  *)
DbRestart ==
  /\ phase' = "importing"
  /\ live' = FALSE
  /\ copied' = FALSE
  /\ probe' = [c \in Caller |-> Idle]
  /\ seen' = [c \in Caller |-> {}]
  /\ UNCHANGED reachable

CheckStep(c) == Refused(c) \/ Selected(c) \/ Committed(c) \/ Wake(c)

DbNext ==
  \/ Import
  \/ Flip
  \/ \E p \in Probe : Ready(p)
  \/ \E c \in Caller : CheckStep(c)

DbSpec == DbInit /\ [][DbNext \/ DbRestart]_dbVars
-----------------------------------------------------------------------------
(* Properties.                                                             *)

(* Every variable has its type; only a call in flight has attempts left.   *)
DbTypeOK ==
  /\ phase \in {"importing", "starting", "serving"}
  /\ live \in BOOLEAN /\ copied \in BOOLEAN /\ reachable \in BOOLEAN
  /\ seen \in [Caller -> SUBSET BOOLEAN]
  /\ probe \in [Caller -> [pc : {"idle", "connecting", "committing",
                                 "sleeping", "up", "down"},
                           left : 0 .. Retries]]
  /\ \A c \in Caller : Probing(c) <=> probe[c].left > 0

(* A readiness answer is true of the database at some moment between the   *)
(* request and the answer, whatever other probes do to the shared flag     *)
(* meanwhile (readiness.py: "an accurate, up-to-date picture").            *)
ReportedWhileProbing ==
  \A p \in Probe : /\ At(p, "up") => TRUE \in seen[p]
                   /\ At(p, "down") => FALSE \in seen[p]

(* The names that other modules imported stay FALSE: every SQL branch       *)
(* behind them is unreachable, however the database fares.  The models of  *)
(* the services rest on this.                                              *)
SqlUnreachable == ~copied

(* What the docs say instead: while the service counts the database as     *)
(* available, its collectors use it (trace_collector.py: "Writes to        *)
(* PostgreSQL when available", and the docstrings of trace_store.py).      *)
(* False of the code, which asks the copied name.                          *)
PersistsWhenAvailable == phase = "serving" /\ live => copied

(* Every probe ends, and startup with it, however long the database stays  *)
(* away and however often it comes and goes.                               *)
ProbesAnswer == \A c \in Caller : Probing(c) ~> ~Probing(c)

(* The event loop runs what is ready; connections and commits have         *)
(* timeouts.  Nothing is assumed of the database.                          *)
DbFairness == \A c \in Caller : WF_dbVars(CheckStep(c))
=============================================================================
