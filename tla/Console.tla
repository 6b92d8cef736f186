------------------------------ MODULE Console -------------------------------
(***************************************************************************)
(* The web console: fetchApi with its fallback to demo data, the banner,   *)
(* and the list of documents.  A call is sent with the stored token or the *)
(* demo token; its response may be lost while the gateway goes on.         *)
(***************************************************************************)
EXTENDS Gateway

CONSTANTS
  Session,  \* bound: sets of calls that one page makes
  Demo      \* the demo documents

ASSUME SessionAssumption == Session \subseteq SUBSET Call

VARIABLES
  call,    \* call[c]: "unused", "idle", "open", "reading" or its outcome
  shown,   \* DocumentManager: the documents on the page
  banner,  \* demoMode
  sentAs   \* sentAs[c]: history: the role of the token sent with c; "none" if not valid

pageVars == <<call, shown, banner, sentAs>>
consoleVars == <<authVars, gateVars, pageVars>>

ConsoleInit ==
  /\ GateInit
  /\ \E s \in Session : call = [c \in Call |-> IF c \in s THEN "idle" ELSE "unused"]
  /\ shown = {}
  /\ banner = FALSE
  /\ sentAs = [c \in Call |-> "none"]

Role(t) == IF DevAuth /\ t = DemoToken THEN "admin" ELSE IF Valid(t) THEN Token[t] ELSE "none"

(* fetch, from the dependency of the gateway's route on.                   *)
Send(c, t) ==
  /\ call[c] = "idle"
  /\ call' = [call EXCEPT ![c] = "open"]
  /\ sentAs' = [sentAs EXCEPT ![c] = Role(t)]
  /\ Receive(c, t)
  /\ UNCHANGED <<shown, banner>>

Ends(c, outcome) == call' = [call EXCEPT ![c] = outcome]

(* What the component does with data; a list replaces, an upload prepends. *)
Shows(c, uploaded, all) ==
  shown' = CASE Kind[c] = "list"   -> all
             [] Kind[c] = "upload" -> shown \cup uploaded
             [] OTHER              -> shown

(* maybeDemo, and the error if there is no demo data for the route.        *)
FallBack(c) ==
  IF Kind[c] = "key"
    THEN Ends(c, "error") /\ UNCHANGED <<shown, banner>>
    ELSE Ends(c, "demo") /\ Shows(c, {Demo}, {Demo}) /\ banner' = TRUE

(* The status of the response arrives.                                     *)
Mut_RespondsAlwaysOk(c) ==
  /\ call[c] = "open" /\ req[c].pc = "answered"
  /\ Ends(c, "reading") /\ banner' = FALSE /\ UNCHANGED shown
  /\ UNCHANGED <<authVars, gateVars, sentAs>>
Responds(c) ==
  /\ call[c] = "open" /\ req[c].pc = "answered"
  /\ CASE req[c].status \in {"200", "mock"} ->
            Ends(c, "reading") /\ banner' = FALSE /\ UNCHANGED shown
       [] req[c].status \in {"401", "403"} ->
            Ends(c, "error") /\ UNCHANGED <<shown, banner>>
       [] OTHER -> FallBack(c)
  /\ UNCHANGED <<authVars, gateVars, sentAs>>

(* Its body arrives after another await, or does not: that rejection is    *)
(* outside the reach of the catch.                                         *)
Reads(c) ==
  /\ call[c] = "reading"
  /\ \/ Ends(c, "data") /\ Shows(c, {c}, listed[c])
     \/ Ends(c, "error") /\ UNCHANGED shown
  /\ UNCHANGED <<authVars, gateVars, banner, sentAs>>

(* The connection fails; the gateway may have the request.                 *)
Loses(c) ==
  /\ call[c] = "open"
  /\ FallBack(c)
  /\ UNCHANGED <<authVars, gateVars, sentAs>>

PageStep(c) == Responds(c) \/ Reads(c)

GateMoves(c) == GateStep(c) /\ UNCHANGED pageVars

ConsoleNext ==
  \/ GateNext /\ UNCHANGED pageVars
  \/ \E c \in Call : \E t \in DOMAIN Token \cup {NoToken, DemoToken} : Send(c, t)
  \/ \E c \in Call : PageStep(c) \/ Loses(c)

ConsoleSpec == ConsoleInit /\ [][ConsoleNext]_consoleVars
-----------------------------------------------------------------------------
(* Properties.                                                             *)

(* Every variable has its type.                                            *)
ConsoleTypeOK ==
  /\ AuthTypeOK
  /\ \A c \in Call :
       /\ req[c].pc \in {"none", "verifying", "forwarding", "answered"}
       /\ req[c].status \in {"none", "200", "mock", "401", "403", "500", "502", "timeout"}
       /\ work[c] \in {"none", "running", "200", "500"}
       /\ call[c] \in {"unused", "idle", "open", "reading", "data", "demo", "error"}
  /\ processing \subseteq Uploads /\ stored \subseteq Uploads
  /\ \A c \in Call : listed[c] \subseteq Uploads
  /\ shown \subseteq Call \cup {Demo} /\ banner \in BOOLEAN

(* Not entitled to c: no valid token, or no administrator's for a key.     *)
Unentitled(c) == sentAs[c] = "none" \/ (Kind[c] = "key" /\ sentAs[c] # "admin")

(* A call without a valid token changes nothing in any service and brings  *)
(* no data, and only an administrator creates keys; also when the auth     *)
(* service is away and when the token expires between the gateway's check  *)
(* and the service's own.  This is all the code does: the docs make viewer *)
(* a read-only role (SERVICES.md, SECURITY.md), and a viewer's upload is   *)
(* accepted like anybody's.                                                *)
EffectsAuthorized ==
  \A c \in Call : Unentitled(c) =>
    /\ work[c] = "none" /\ c \notin processing \cup stored /\ call[c] # "data"
    /\ c \in Create => create[c].pc \in {"none", "401", "403"}

(* Every document on the page that is no demo document was accepted by the *)
(* ingestion service, whatever order responses, timeouts, losses and       *)
(* restarts come in.                                                       *)
ShownWasAccepted == shown \ {Demo} \subseteq Accepted

(* Every call ends on the page, whatever the services do.                  *)
CallsEnd == \A c \in Call : call[c] = "open" ~> call[c] \in {"data", "demo", "error"}

(* The gateway's calls have timeouts, and a response arrives or its loss   *)
(* is noticed; no service has to answer.                                   *)
ConsoleFairSpec ==
  ConsoleSpec /\ \A c \in Call : WF_consoleVars(GateMoves(c)) /\ WF_consoleVars(PageStep(c))
=============================================================================
