------------------------------ MODULE Gateway -------------------------------
(***************************************************************************)
(* The API gateway between the console and the services.  A request is     *)
(* authenticated by a call of the auth service, forwarded once with a      *)
(* timeout, and answered with what the service says; a call that fails is  *)
(* not caught and answered with a 500, and the service goes on.  The       *)
(* routes that are not named here (evals, traces, costs, alerts, users)    *)
(* forward in the same way as the list of documents does.  Only the routes *)
(* under /admin look at the role.                                          *)
(*                                                                         *)
(* The documents are those of Catalog, which Ingestion implements: an      *)
(* upload is answered before its document is in the list, if it ever is.   *)
(***************************************************************************)
EXTENDS Auth

CONSTANTS
  Call,       \* bound: requests of the console; Create are those for a key
  Kind,       \* Kind[c]: "list", "upload", "query" or "key"
  NoToken,    \* a request without a bearer token
  DemoToken,  \* settings.demo_token
  DevAuth     \* settings.allow_dev_auth

ASSUME CreateAssumption == Create = {c \in Call : Kind[c] = "key"}
ASSUME KindAssumption == Kind \in [Call -> {"list", "upload", "query", "key"}]
ASSUME TokenAssumption == {NoToken, DemoToken} \cap DOMAIN Token = {}
ASSUME RoleAssumption == \A t \in DOMAIN Token : Token[t] # "none"

VARIABLES
  req,         \* req[c]: the request at the gateway
  work,        \* work[c]: what a service other than auth does for it
  processing,  \* the ingestion service: accepted uploads it may still store
  stored,      \* the ingestion service: the documents in its list, by their upload
  listed       \* listed[c]: the documents in the response to a list

docVars == <<processing, stored, listed>>
gateVars == <<req, work, docVars>>

Uploads == {c \in Call : Kind[c] = "upload"}
Accepted == {c \in Uploads : work[c] = "200"}

Docs == INSTANCE Catalog
          WITH Upload <- Uploads, known <- Accepted, pending <- processing, listed <- stored

GateInit ==
  /\ AuthInit
  /\ req = [c \in Call |-> [pc |-> "none", token |-> NoToken, status |-> "none"]]
  /\ work = [c \in Call |-> "none"]
  /\ processing = {} /\ stored = {}
  /\ listed = [c \in Call |-> {}]

Answers(c, status) ==
  req' = [req EXCEPT ![c] = [pc |-> "answered", token |-> NoToken, status |-> status]]

(* The handler of a route, for an authenticated caller.                    *)
Handle(c, t, role) ==
  IF Kind[c] = "key" /\ role # "admin"
    THEN Answers(c, "403")
  ELSE IF Kind[c] = "key" /\ DevAuth /\ t = DemoToken
    THEN Answers(c, "mock")
  ELSE req' = [req EXCEPT ![c] = [pc |-> "forwarding", token |-> t, status |-> "none"]]

(* verify_request_auth, up to the call of the auth service.                *)
Receive(c, t) ==
  /\ req[c].pc = "none"
  /\ \/ /\ t = NoToken
        /\ Answers(c, "401")
     \/ /\ t = DemoToken /\ DevAuth
        /\ Handle(c, t, "admin")
     \/ /\ t \notin {NoToken} \cup (IF DevAuth THEN {DemoToken} ELSE {})
        /\ req' = [req EXCEPT ![c] = [pc |-> "verifying", token |-> t, status |-> "none"]]
  /\ UNCHANGED <<authVars, work, docVars>>

(* The auth service answers; any status but 200 is taken for a bad token.  *)
Verified(c) ==
  /\ req[c].pc = "verifying"
  /\ \/ Valid(req[c].token) /\ Handle(c, req[c].token, Token[req[c].token])
     \/ Answers(c, "401")
  /\ UNCHANGED <<authVars, work, docVars>>

(* It cannot be reached, or does not answer within 5 s.                    *)
Mut_Unverified(c) ==
  /\ req[c].pc = "verifying"
  /\ Handle(c, req[c].token, "user")
  /\ UNCHANGED <<authVars, work, docVars>>
Unverified(c) ==
  /\ req[c].pc = "verifying"
  /\ Answers(c, "502")
  /\ UNCHANGED <<authVars, work, docVars>>

(* The forwarded request reaches its service.                              *)
Reach(c) ==
  /\ req[c].pc = "forwarding"
  /\ IF Kind[c] = "key"
       THEN \E email \in Email : CreateBegins(c, req[c].token, email) /\ UNCHANGED work
       ELSE work[c] = "none" /\ work' = [work EXCEPT ![c] = "running"] /\ UNCHANGED authVars
  /\ UNCHANGED <<req, docVars>>

(* The service answers, or fails.  An upload is accepted, the list is the  *)
(* documents stored at this moment.                                        *)
Serve(c) ==
  /\ work[c] = "running"
  /\ \/ /\ work' = [work EXCEPT ![c] = "200"]
        /\ IF Kind[c] = "upload" THEN Docs!Accept(c) ELSE UNCHANGED <<processing, stored>>
        /\ listed' = IF Kind[c] = "list" THEN [listed EXCEPT ![c] = stored] ELSE listed
     \/ work' = [work EXCEPT ![c] = "500"] /\ UNCHANGED docVars
  /\ UNCHANGED <<authVars, req>>

(* The background task of an upload stores its document or fails, and a    *)
(* DELETE takes a document away.                                           *)
Process(d) ==
  /\ UNCHANGED <<authVars, req, work, listed>>
  /\ Docs!Publish(d) \/ Docs!Drop(d) \/ Docs!Remove(d)

(* The ingestion service is restarted: its requests fail, and its tasks    *)
(* and documents are gone.                                                 *)
IngestionRestarts ==
  /\ work' = [c \in Call |-> IF work[c] = "running" /\ Kind[c] \in {"list", "upload"}
                              THEN "500" ELSE work[c]]
  /\ Docs!Restart
  /\ UNCHANGED <<authVars, req, listed>>

Outcome(c) == IF Kind[c] = "key" THEN create[c].pc ELSE work[c]

(* The response of the service, passed on with its status.                 *)
PassOn(c) ==
  /\ req[c].pc = "forwarding"
  /\ Outcome(c) \in {"200", "401", "403", "500"}
  /\ Answers(c, Outcome(c))
  /\ UNCHANGED <<authVars, work, docVars>>

(* No connection, or no answer in time (10 s, 30 s for a query, 60 s for   *)
(* an upload): a 500, kept apart here because the service goes on.         *)
Mut_GiveUpOnFailure(c) ==
  /\ req[c].pc = "forwarding"
  /\ Outcome(c) = "500"
  /\ Answers(c, "timeout")
  /\ UNCHANGED <<authVars, work, docVars>>
GiveUp(c) ==
  /\ req[c].pc = "forwarding"
  /\ Answers(c, "timeout")
  /\ UNCHANGED <<authVars, work, docVars>>

GateStep(c) == Verified(c) \/ Unverified(c) \/ PassOn(c) \/ GiveUp(c)

GateNext ==
  \/ AuthNext /\ UNCHANGED gateVars
  \/ \E c \in Call : GateStep(c) \/ Reach(c) \/ Serve(c)
  \/ \E d \in Uploads : Process(d)
  \/ IngestionRestarts
=============================================================================
