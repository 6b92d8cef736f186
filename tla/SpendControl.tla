---------------------------- MODULE SpendControl ----------------------------
(***************************************************************************)
(* What the in-memory budget of the LLM gateway promises, without the      *)
(* request pipeline around it: a ledger per user and calendar month, calls *)
(* admitted only while their ledger is below the limit, and each admitted  *)
(* call settled at most once, against the ledger it was admitted on.       *)
(* LlmGateway implements this module (LlmGateway!ImplementsSpendControl).  *)
(***************************************************************************)
EXTENDS Integers

CONSTANTS Req, User, Months, Limit, MaxCost

VARIABLES
  ledger,   \* recorded spend, per user and month
  open      \* open[r]: the <<user, month>> call r was admitted on, or <<>>

NaN == -1   \* a ledger that once added NaN stays NaN and is never exhausted
Add(a, b) == IF a = NaN \/ b = NaN THEN NaN ELSE a + b

Init ==
  /\ ledger = [u \in User |-> [m \in Months |-> 0]]
  /\ open = [r \in Req |-> <<>>]

Admit(r, u, m) ==
  /\ open[r] = <<>>
  /\ ledger[u][m] = NaN \/ ledger[u][m] < Limit
  /\ open' = [open EXCEPT ![r] = <<u, m>>]
  /\ UNCHANGED ledger

(* The call returned usage worth cost (NaN for an embedding).              *)
Settle(r, u, m, cost) ==
  /\ open[r] = <<u, m>>
  /\ open' = [open EXCEPT ![r] = <<>>]
  /\ ledger' = [ledger EXCEPT ![u][m] = Add(@, cost)]

(* The call failed or was streamed: nothing is recorded.                   *)
Abandon(r) ==
  /\ open[r] # <<>>
  /\ open' = [open EXCEPT ![r] = <<>>]
  /\ UNCHANGED ledger

Next ==
  \E r \in Req :
    \/ Abandon(r)
    \/ \E u \in User, m \in Months :
         Admit(r, u, m) \/ \E cost \in 0 .. MaxCost \cup {NaN} : Settle(r, u, m, cost)

Spec == Init /\ [][Next]_<<ledger, open>>
=============================================================================
