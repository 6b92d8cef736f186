---------------------------- MODULE TraceWindow ----------------------------
(***************************************************************************)
(* What the bounded trace store promises, without its dictionary: it holds *)
(* the traces of the last Cap creations, each with every span it received  *)
(* since then, in order.  A trace that left the window and receives a span *)
(* is created again, without its past.                                     *)
(***************************************************************************)
EXTENDS Integers, Sequences

CONSTANTS Trace, Cap, Position

VARIABLES
  births,  \* the trace of each creation since the process began
  got      \* got[t]: positions in the log of the spans of t, t in the window

Window == {births[k] : k \in {j \in 1 .. Len(births) : j > Len(births) - Cap}}

Init == births = <<>> /\ got = [t \in {} |-> <<>>]

(* The n-th span of the log belongs to t.                                  *)
Record(t, n) ==
  /\ births' = IF t \in Window THEN births ELSE Append(births, t)
  /\ got' = [x \in Window' |->
               IF x # t THEN got[x]
               ELSE IF t \in Window THEN Append(got[t], n) ELSE <<n>>]

(* The process forgets everything.                                         *)
Restart == births' = <<>> /\ got' = [t \in {} |-> <<>>]

Next == Restart \/ \E t \in Trace, n \in Position : Record(t, n)

Spec == Init /\ [][Next]_<<births, got>>
=============================================================================
