------------------------------- MODULE Catalog -------------------------------
(***************************************************************************)
(* What a client of the ingestion service may rely on while uploads,       *)
(* deletions and restarts interleave: an upload is answered before its     *)
(* document is listed; a document is listed at most once, so one that is   *)
(* removed from the list never comes back; and a restart forgets the list  *)
(* and everything that was on its way to it.  Ingestion implements this    *)
(* module (Ingestion!ImplementsCatalog); Gateway uses it as the service.   *)
(***************************************************************************)
EXTENDS FiniteSets

CONSTANT Upload

VARIABLES
  known,    \* uploads answered with 200 and their document's id
  pending,  \* answered uploads whose document may still be listed
  listed    \* documents in the list

Init == known = {} /\ pending = {} /\ listed = {}

(* The upload is answered.  One that went to the queue is never listed.    *)
Accept(d) ==
  /\ d \notin known
  /\ known' = known \cup {d}
  /\ pending' \in {pending, pending \cup {d}}
  /\ UNCHANGED listed

Publish(d) ==
  /\ d \in pending
  /\ pending' = pending \ {d}
  /\ listed' = listed \cup {d}
  /\ UNCHANGED known

Drop(d) ==
  /\ d \in pending
  /\ pending' = pending \ {d}
  /\ UNCHANGED <<known, listed>>

Remove(d) ==
  /\ d \in listed
  /\ listed' = listed \ {d}
  /\ UNCHANGED <<known, pending>>

Restart ==
  /\ pending' = {} /\ listed' = {}
  /\ UNCHANGED known

Next ==
  \/ Restart
  \/ \E d \in Upload : Accept(d) \/ Publish(d) \/ Drop(d) \/ Remove(d)

Spec == Init /\ [][Next]_<<known, pending, listed>>
=============================================================================
