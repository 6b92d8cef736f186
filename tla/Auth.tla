-------------------------------- MODULE Auth --------------------------------
(***************************************************************************)
(* The auth service: users and API keys in SQL, and tokens that it checks  *)
(* by signature and expiry alone.  A request that creates a key is a       *)
(* transaction of up to four statements, each an await; the rows it writes *)
(* before its commit are seen by no other.                                 *)
(*                                                                         *)
(* No token comes from here: POST /auth/token converts the id of the user, *)
(* a UUID already, once more and fails, after it has committed the time of *)
(* the key's use, which nothing reads.  The tokens are those an operator   *)
(* signs.                                                                  *)
(***************************************************************************)
EXTENDS Naturals

CONSTANTS
  Create,   \* bound: POST /auth/keys requests
  Email,    \* the owners they may name
  Token     \* Token[t]: the role in a signed token

ASSUME EmailAssumption == Email # {}

VARIABLES
  users,    \* the committed rows of table users: e-mail and the request that inserted it
  keys,     \* the committed rows of table api_keys: request and owner
  expired,  \* environment: the tokens past their exp
  create,   \* create[c]: the transaction of a request
  revoked   \* history: the keys that were deleted

authVars == <<users, keys, expired, create, revoked>>

NoUser == [email |-> CHOOSE e \in Email : TRUE, by |-> "nobody"]

AuthInit ==
  /\ users = {} /\ keys = {} /\ expired = {} /\ revoked = {}
  /\ create = [c \in Create |-> [pc |-> "none", email |-> NoUser.email, user |-> NoUser]]

Open(c) == create[c].pc \in {"selecting", "inserting", "committing", "refreshing"}

(* verify_token.                                                           *)
Valid(t) == t \in DOMAIN Token \ expired

Step(c, pc) == create' = [create EXCEPT ![c].pc = pc]

(* A request arrives; its dependency checks token and role.                *)
CreateBegins(c, t, email) ==
  /\ create[c].pc = "none"
  /\ create' = [create EXCEPT ![c].email = email,
                              ![c].pc = IF ~Valid(t) THEN "401"
                                        ELSE IF Token[t] # "admin" THEN "403"
                                        ELSE "selecting"]
  /\ UNCHANGED <<users, keys, expired, revoked>>

(* SELECT the owner, among the committed rows.                             *)
Selects(c) ==
  /\ create[c].pc = "selecting"
  /\ \/ \E u \in users : /\ u.email = create[c].email
                         /\ create' = [create EXCEPT ![c].pc = "committing", ![c].user = u]
     \/ /\ \A u \in users : u.email # create[c].email
        /\ Step(c, "inserting")
  /\ UNCHANGED <<users, keys, expired, revoked>>

(* An inserted row that is not committed yet.                              *)
Pending(c) == create[c].pc = "committing" /\ create[c].user.by = c

(* flush: INSERT the owner.  The unique index makes it wait for another    *)
(* transaction that has inserted the e-mail, and fail if that committed.   *)
Mut_InsertsUnchecked(c) ==
  /\ create[c].pc = "inserting"
  /\ create' = [create EXCEPT ![c].pc = "committing",
                              ![c].user = [email |-> create[c].email, by |-> c]]
  /\ UNCHANGED <<users, keys, expired, revoked>>
Mut_InsertsWithoutWaiting(c) ==
  /\ create[c].pc = "inserting"
  /\ IF \E u \in users : u.email = create[c].email
       THEN Step(c, "500")
       ELSE create' = [create EXCEPT ![c].pc = "committing",
                                     ![c].user = [email |-> create[c].email, by |-> c]]
  /\ UNCHANGED <<users, keys, expired, revoked>>
Inserts(c) ==
  /\ create[c].pc = "inserting"
  /\ \A d \in Create : Pending(d) => create[d].email # create[c].email
  /\ IF \E u \in users : u.email = create[c].email
       THEN Step(c, "500")
       ELSE create' = [create EXCEPT ![c].pc = "committing",
                                     ![c].user = [email |-> create[c].email, by |-> c]]
  /\ UNCHANGED <<users, keys, expired, revoked>>

(* INSERT the key, and COMMIT.                                             *)
Commits(c) ==
  /\ create[c].pc = "committing"
  /\ users' = users \cup {create[c].user}
  /\ keys' = keys \cup {[by |-> c, owner |-> create[c].user]}
  /\ Step(c, "refreshing")
  /\ UNCHANGED <<expired, revoked>>

KeysOf(c) == {k \in keys : k.by = c}

(* refresh reads the row back; it raises if the key is gone.               *)
Refreshes(c) ==
  /\ create[c].pc = "refreshing"
  /\ Step(c, IF KeysOf(c) = {} THEN "500" ELSE "200")
  /\ UNCHANGED <<users, keys, expired, revoked>>

(* A statement fails; get_db rolls the transaction back.                   *)
SqlFails(c) ==
  /\ Open(c)
  /\ Step(c, "500")
  /\ UNCHANGED <<users, keys, expired, revoked>>

(* DELETE /auth/keys/{id}.                                                 *)
Revoke(k) ==
  /\ keys' = keys \ {k}
  /\ revoked' = revoked \cup {k}
  /\ UNCHANGED <<users, expired, create>>

Expire(t) ==
  /\ expired' = expired \cup {t}
  /\ UNCHANGED <<users, keys, create, revoked>>

CreateStep(c) ==
  Selects(c) \/ Inserts(c) \/ Commits(c) \/ Refreshes(c) \/ SqlFails(c)

AuthNext ==
  \/ \E c \in Create : CreateStep(c)
  \/ \E k \in keys : Revoke(k)
  \/ \E t \in DOMAIN Token : Expire(t)
-----------------------------------------------------------------------------
(* Properties.                                                             *)

(* Every variable has its type; no two transactions hold a row of the same *)
(* new e-mail.                                                             *)
AuthTypeOK ==
  /\ users \subseteq [email : Email, by : Create]
  /\ keys \subseteq [by : Create, owner : users]
  /\ expired \subseteq DOMAIN Token
  /\ \A c \in Create :
       /\ create[c].pc \in {"none", "selecting", "inserting", "committing", "refreshing",
                            "200", "401", "403", "500"}
       /\ create[c].email \in Email
  /\ \A c, d \in Create :
       Pending(c) /\ Pending(d) /\ create[c].email = create[d].email => c = d

(* However requests for one owner overlap: an e-mail has one user, every   *)
(* key belongs to the user its request named, and a confirmed key exists   *)
(* until it is revoked.                                                    *)
KeysOwned ==
  /\ \A u, v \in users : u.email = v.email => u = v
  /\ \A k \in keys : k.owner \in users /\ k.owner.email = create[k.by].email
  /\ \A c \in Create : create[c].pc = "200" => \E k \in keys \cup revoked : k.by = c
=============================================================================
