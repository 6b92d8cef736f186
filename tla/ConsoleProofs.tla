--------------------------- MODULE ConsoleProofs ----------------------------
(* Console, Gateway and Auth together, for any calls, tokens and e-mails.  *)
(* The invariant has three parts: the transactions that create keys, what  *)
(* an unentitled call can have reached, and where the documents on the page *)
(* come from.                                                  *)
EXTENDS Console, TLAPS

User == [email : Email, by : Create]
CreatePcs == {"none", "selecting", "inserting", "committing", "refreshing",
              "200", "401", "403", "500"}
Transaction == [pc : CreatePcs, email : Email,
                user : [email : Email, by : Create \cup {"nobody"}]]
Tokens == DOMAIN Token \cup {NoToken, DemoToken}
Request == [pc : {"none", "verifying", "forwarding", "answered"},
            token : Tokens,
            status : {"none", "200", "mock", "401", "403", "500", "502", "timeout"}]

Roles == {"none", "admin"} \cup {Token[t] : t \in DOMAIN Token}

AuthTypes ==
  /\ users \subseteq User
  /\ keys \subseteq [by : Create, owner : User]
  /\ expired \subseteq DOMAIN Token
  /\ create \in [Create -> Transaction]

GateTypes ==
  /\ req \in [Call -> Request]
  /\ work \in [Call -> {"none", "running", "200", "500"}]
  /\ listed \in [Call -> SUBSET Uploads]

PageTypes ==
  /\ call \in [Call -> {"unused", "idle", "open", "reading", "data", "demo", "error"}]
  /\ shown \subseteq Call \cup {Demo}
  /\ banner \in BOOLEAN
  /\ sentAs \in [Call -> Roles]

Types == AuthTypes /\ GateTypes /\ PageTypes

(* A transaction that has committed.                                       *)
Past == {"refreshing", "200", "500"}

(* The row a committing transaction will write is its own, of the e-mail   *)
(* it was asked for, or was committed before.                              *)
Transactions ==
  /\ \A u \in users : create[u.by].pc \in Past
  /\ \A u, v \in users : u.email = v.email => u = v
  /\ \A k \in keys : /\ k.owner \in users
                     /\ k.owner.email = create[k.by].email
                     /\ create[k.by].pc \in Past
  /\ \A c \in Create : create[c].pc = "committing" =>
       /\ create[c].user.email = create[c].email
       /\ create[c].user \in users \/ create[c].user.by = c
  /\ \A c \in Create : Pending(c) => \A u \in users : u.email # create[c].email
  /\ \A c, d \in Create :
       Pending(c) /\ Pending(d) /\ create[c].email = create[d].email => c = d
  /\ \A c \in Create : create[c].pc = "200" => \E k \in keys \cup revoked : k.by = c

(* Nothing has been done for a call.                                       *)
Untouched(c) ==
  work[c] = "none" /\ (c \in Create => create[c].pc = "none")

(* The gateway will let the request of c pass with token t.                *)
Admits(c, t) == Valid(t) /\ (Kind[c] = "key" => Token[t] = "admin")

Barred(c) ==
  /\ Untouched(c)
  /\ call[c] \notin {"reading", "data"}
  /\ \/ req[c].pc = "none"
     \/ req[c].pc = "verifying" /\ ~Admits(c, req[c].token)
     \/ req[c].pc = "answered" /\ req[c].status \in {"401", "403", "502"}

Admission ==
  /\ \A c \in Call : req[c].pc = "none" => Untouched(c)
  /\ \A c \in Call : Unentitled(c) => Barred(c)

(* An upload whose success the gateway or the page has seen was accepted.  *)
Succeeded(c) == req[c].status \in {"200", "mock"} \/ call[c] = "reading"

Provenance ==
  /\ processing \cup stored \subseteq Accepted
  /\ \A c \in Call : listed[c] \subseteq Accepted
  /\ \A c \in Call : Kind[c] = "upload" /\ Succeeded(c) => c \in Accepted
  /\ shown \subseteq Accepted \cup {Demo}

IInv == Types /\ Transactions /\ Admission /\ Provenance
-----------------------------------------------------------------------------
(* The transactions.                                                       *)

LEMMA CreateAreCalls == Create \subseteq Call
BY CreateAssumption

(* A step that changes one transaction, and neither commits nor makes its  *)
(* row pending.                                                            *)
LEMMA QuietTransaction ==
  ASSUME AuthTypes, Transactions,
         NEW c \in Create, NEW t \in Transaction,
         create' = [create EXCEPT ![c] = t], users' = users, keys' = keys,
         revoked' = revoked, expired' = expired,
         create[c].pc \in Past => t.pc \in Past /\ t.email = create[c].email,
         t.pc = "committing" => t.user \in users /\ t.user.email = t.email,
         t.pc = "200" => \E k \in keys \cup revoked : k.by = c
  PROVE  AuthTypes' /\ Transactions'
<1>1. AuthTypes'
  BY DEF AuthTypes
<1>2. create'[c] = t /\ \A d \in Create : d # c => create'[d] = create[d]
  BY DEF AuthTypes
<1>3. \A u \in users : u.by \in Create /\ create'[u.by].pc \in Past
  BY <1>2 DEF AuthTypes, User, Transactions
<1>4. \A u, v \in users : u.email = v.email => u = v
  BY DEF Transactions
<1>5. \A k \in keys : /\ k.owner \in users
                      /\ k.owner.email = create'[k.by].email
                      /\ create'[k.by].pc \in Past
  BY <1>2 DEF AuthTypes, Transactions
<1>6. \A d \in Create : create'[d].pc = "committing" =>
        /\ create'[d].user.email = create'[d].email
        /\ create'[d].user \in users \/ create'[d].user.by = d
  BY <1>2 DEF Transactions
<1>7. \A d \in Create : Pending(d)' => Pending(d) /\ create'[d] = create[d]
  <2>1. ASSUME Pending(c)' PROVE FALSE
    <3>1. t.pc = "committing" /\ t.user.by = c /\ t.user \in users
      BY <1>2, <2>1 DEF Pending
    <3>2. create'[c].pc \in Past
      BY <1>3, <3>1
    <3> QED
      BY <1>2, <3>1, <3>2 DEF Past
  <2> QED
    BY <1>2, <2>1 DEF Pending
<1>8. \A d \in Create : Pending(d)' => \A u \in users : u.email # create'[d].email
  BY <1>7 DEF Transactions
<1>9. \A d, e \in Create :
        Pending(d)' /\ Pending(e)' /\ create'[d].email = create'[e].email => d = e
  BY <1>7 DEF Transactions
<1>10. \A d \in Create : create'[d].pc = "200" => \E k \in keys \cup revoked : k.by = d
  BY <1>2 DEF Transactions
<1> QED
  BY <1>1, <1>3, <1>4, <1>5, <1>6, <1>8, <1>9, <1>10 DEF Transactions

LEMMA TransactionFields ==
  ASSUME AuthTypes, NEW c \in Create
  PROVE  /\ create[c] \in Transaction
         /\ create[c].pc \in CreatePcs /\ create[c].email \in Email
         /\ create[c].user \in [email : Email, by : Create \cup {"nobody"}]
         /\ \A pc \in CreatePcs : [create[c] EXCEPT !.pc = pc] \in Transaction
<1>1. create[c] \in Transaction
  BY DEF AuthTypes
<1> QED
  BY <1>1 DEF Transaction

(* Step changes the control state only.                                    *)
LEMMA StepQuiet ==
  ASSUME AuthTypes, Transactions, NEW c \in Create, NEW pc \in CreatePcs, Step(c, pc),
         users' = users, keys' = keys, revoked' = revoked, expired' = expired,
         pc # "committing", create[c].pc \in Past => pc \in Past,
         pc = "200" => \E k \in keys \cup revoked : k.by = c
  PROVE  AuthTypes' /\ Transactions'
<1> DEFINE t == [create[c] EXCEPT !.pc = pc]
<1>1. t \in Transaction /\ create[c] \in Transaction
  BY TransactionFields
<1>2. t.pc = pc /\ t.email = create[c].email
  BY <1>1 DEF Transaction
<1>3. create' = [create EXCEPT ![c] = t]
  BY DEF Step
<1> HIDE DEF t
<1> QED
  BY <1>1, <1>2, <1>3, QuietTransaction

LEMMA CreateBeginsInv ==
  ASSUME AuthTypes, Transactions, NEW c \in Create, NEW tok, NEW email \in Email,
         CreateBegins(c, tok, email)
  PROVE  AuthTypes' /\ Transactions'
<1> DEFINE pc == IF ~Valid(tok) THEN "401" ELSE IF Token[tok] # "admin" THEN "403" ELSE "selecting"
<1> DEFINE t == [create[c] EXCEPT !.email = email, !.pc = pc]
<1>1. create[c] \in Transaction /\ create[c].pc = "none"
  BY TransactionFields DEF CreateBegins
<1>2. pc \in {"401", "403", "selecting"}
  OBVIOUS
<1>3. create' = [create EXCEPT ![c] = t]
  BY <1>1 DEF CreateBegins, AuthTypes
<1>4. UNCHANGED <<users, keys, expired, revoked>>
  BY DEF CreateBegins
<1> HIDE DEF pc
<1>5. t \in Transaction /\ t.pc = pc
  BY <1>1, <1>2 DEF Transaction, CreatePcs
<1> HIDE DEF t
<1> QED
  BY <1>1, <1>2, <1>3, <1>4, <1>5, QuietTransaction DEF Past

LEMMA SelectsInv ==
  ASSUME AuthTypes, Transactions, NEW c \in Create, Selects(c)
  PROVE  AuthTypes' /\ Transactions'
<1>1. UNCHANGED <<users, keys, expired, revoked>> /\ create[c].pc = "selecting"
  BY DEF Selects
<1>2. ASSUME NEW u \in users, u.email = create[c].email,
             create' = [create EXCEPT ![c].pc = "committing", ![c].user = u]
      PROVE  AuthTypes' /\ Transactions'
  <2> DEFINE t == [create[c] EXCEPT !.pc = "committing", !.user = u]
  <2>1. u \in [email : Email, by : Create \cup {"nobody"}]
    BY DEF AuthTypes, User
  <2>2. t \in Transaction /\ t.pc = "committing" /\ t.user = u /\ t.email = create[c].email
    <3>1. create[c] \in Transaction
      BY TransactionFields
    <3> QED
      BY <2>1, <3>1 DEF Transaction, CreatePcs
  <2>3. create' = [create EXCEPT ![c] = t]
    BY <1>2 DEF AuthTypes
  <2> HIDE DEF t
  <2> QED
    BY <1>1, <1>2, <2>2, <2>3, QuietTransaction DEF Past
<1>3. CASE Step(c, "inserting")
  BY <1>1, <1>3, StepQuiet DEF CreatePcs, Past
<1> QED
  BY <1>2, <1>3 DEF Selects

LEMMA InsertsInv ==
  ASSUME AuthTypes, Transactions, NEW c \in Create, Inserts(c)
  PROVE  AuthTypes' /\ Transactions'
<1>1. UNCHANGED <<users, keys, expired, revoked>> /\ create[c].pc = "inserting"
  BY DEF Inserts
<1>2. CASE Step(c, "500")
  BY <1>1, <1>2, StepQuiet DEF CreatePcs, Past
<1>3. ASSUME \A u \in users : u.email # create[c].email,
             create' = [create EXCEPT ![c].pc = "committing",
                                      ![c].user = [email |-> create[c].email, by |-> c]]
      PROVE  AuthTypes' /\ Transactions'
  <2> DEFINE row == [email |-> create[c].email, by |-> c]
  <2> DEFINE t == [create[c] EXCEPT !.pc = "committing", !.user = row]
  <2>1. row \in [email : Email, by : Create \cup {"nobody"}] /\ row.by = c
    BY TransactionFields
  <2> HIDE DEF row
  <2>2. /\ t \in Transaction /\ t.pc = "committing" /\ t.user = row
        /\ t.email = create[c].email
    <3>1. create[c] \in Transaction
      BY TransactionFields
    <3> QED
      BY <2>1, <3>1 DEF Transaction, CreatePcs
  <2>3. create' = [create EXCEPT ![c] = t]
    BY <1>3 DEF AuthTypes, row
  <2> HIDE DEF t
  <2>4. create'[c] = t /\ \A d \in Create : d # c => create'[d] = create[d]
    BY <2>3 DEF AuthTypes
  <2>5. AuthTypes'
    BY <1>1, <2>2, <2>3 DEF AuthTypes
  <2>6. \A d \in Create : d # c => (Pending(d)' <=> Pending(d))
    BY <2>4 DEF Pending
  <2>7. \A d \in Create : Pending(d) => create[d].email # create[c].email
    BY DEF Inserts
  <2>8. \A u \in users : u.by \in Create /\ u.by # c /\ create'[u.by].pc \in Past
    BY <1>1, <2>4 DEF AuthTypes, User, Transactions, Past
  <2>9. \A k \in keys : k.by \in Create /\ k.by # c
    BY <1>1 DEF AuthTypes, Transactions, Past
  <2>10. \A k \in keys : /\ k.owner \in users
                         /\ k.owner.email = create'[k.by].email
                         /\ create'[k.by].pc \in Past
    BY <2>4, <2>9 DEF Transactions
  <2>11. \A d \in Create : create'[d].pc = "committing" =>
           /\ create'[d].user.email = create'[d].email
           /\ create'[d].user \in users \/ create'[d].user.by = d
    BY <2>1, <2>2, <2>4 DEF Transactions, row
  <2>12. \A d \in Create : Pending(d)' => \A u \in users : u.email # create'[d].email
    <3>1. ASSUME NEW d \in Create, d # c, Pending(d)'
          PROVE  \A u \in users : u.email # create'[d].email
      BY <2>4, <2>6, <3>1 DEF Transactions
    <3>2. \A u \in users : u.email # create'[c].email
      BY <1>3, <2>2, <2>4
    <3> QED
      BY <3>1, <3>2
  <2>13. \A d, e \in Create :
           Pending(d)' /\ Pending(e)' /\ create'[d].email = create'[e].email => d = e
    BY <2>2, <2>4, <2>6, <2>7 DEF Transactions
  <2>14. \A d \in Create : create'[d].pc = "200" => \E k \in keys \cup revoked : k.by = d
    BY <2>2, <2>4 DEF Transactions
  <2> QED
    BY <1>1, <2>5, <2>8, <2>10, <2>11, <2>12, <2>13, <2>14 DEF Transactions
<1> QED
  BY <1>2, <1>3 DEF Inserts

LEMMA CommitsInv ==
  ASSUME AuthTypes, Transactions, NEW c \in Create, Commits(c)
  PROVE  AuthTypes' /\ Transactions'
<1> DEFINE row == create[c].user
<1> DEFINE key == [by |-> c, owner |-> row]
<1>1. /\ create[c].pc = "committing" /\ users' = users \cup {row}
      /\ keys' = keys \cup {key} /\ expired' = expired /\ revoked' = revoked
  BY DEF Commits
<1>2. row.email = create[c].email /\ (row \in users \/ row.by = c)
  BY <1>1 DEF Transactions
<1>3. row \in User
  <2>1. row \in [email : Email, by : Create \cup {"nobody"}]
    BY TransactionFields
  <2>2. CASE row \in users
    BY <2>2 DEF AuthTypes
  <2>3. CASE row.by = c
    BY <2>1, <2>3 DEF User
  <2> QED
    BY <1>2, <2>2, <2>3
<1>4. key \in [by : Create, owner : User] /\ key.by = c /\ key.owner = row
  BY <1>3
<1>5. row \in users \/ Pending(c)
  BY <1>1, <1>2 DEF Pending
<1> HIDE DEF row, key
<1> DEFINE t == [create[c] EXCEPT !.pc = "refreshing"]
<1>6. t \in Transaction /\ t.pc = "refreshing" /\ t.email = create[c].email
  <2>1. create[c] \in Transaction
    BY TransactionFields
  <2> QED
    BY <2>1 DEF Transaction, CreatePcs
<1>7. create' = [create EXCEPT ![c] = t]
  BY DEF Commits, Step
<1> HIDE DEF t
<1>8. create'[c] = t /\ \A d \in Create : d # c => create'[d] = create[d]
  BY <1>7 DEF AuthTypes
<1>9. AuthTypes'
  BY <1>1, <1>3, <1>4, <1>6, <1>7 DEF AuthTypes
<1>10. \A d \in Create : create[d].pc \in Past => create'[d].pc \in Past
  BY <1>6, <1>8 DEF Past
<1>11. \A u \in users : u.by \in Create /\ create'[u.by].pc \in Past
  BY <1>10 DEF AuthTypes, User, Transactions
<1>12. row \in users \/ (row.by = c /\ create'[row.by].pc \in Past)
  BY <1>2, <1>6, <1>8 DEF Past
<1>13. \A u \in users' : create'[u.by].pc \in Past
  BY <1>1, <1>11, <1>12
<1>14. \A u \in users : u.email = row.email => u = row
  BY <1>2, <1>5 DEF Transactions
<1>15. \A u, v \in users' : u.email = v.email => u = v
  BY <1>1, <1>14 DEF Transactions
<1>16. \A k \in keys : /\ k.owner \in users'
                       /\ k.owner.email = create'[k.by].email
                       /\ create'[k.by].pc \in Past
  BY <1>1, <1>6, <1>8, <1>10 DEF AuthTypes, Transactions
<1>17. key.owner \in users' /\ key.owner.email = create'[key.by].email /\ create'[key.by].pc \in Past
  BY <1>1, <1>2, <1>4, <1>6, <1>8 DEF Past
<1>18. \A d \in Create : create'[d].pc = "committing" =>
         /\ create'[d].user.email = create'[d].email
         /\ create'[d].user \in users' \/ create'[d].user.by = d
  BY <1>1, <1>6, <1>8 DEF Transactions
<1>19. \A d \in Create : Pending(d)' => d # c /\ Pending(d) /\ create'[d] = create[d]
  BY <1>6, <1>8 DEF Pending
<1>20. \A d \in Create : Pending(d)' => row.email # create[d].email
  BY <1>2, <1>5, <1>19 DEF Transactions
<1>21. \A d \in Create : Pending(d)' => \A u \in users' : u.email # create'[d].email
  BY <1>1, <1>19, <1>20 DEF Transactions
<1>22. \A d, e \in Create :
         Pending(d)' /\ Pending(e)' /\ create'[d].email = create'[e].email => d = e
  BY <1>19 DEF Transactions
<1>23. \A d \in Create : create'[d].pc = "200" => \E k \in keys' \cup revoked' : k.by = d
  BY <1>1, <1>6, <1>8 DEF Transactions
<1> QED
  BY <1>1, <1>9, <1>13, <1>15, <1>16, <1>17, <1>18, <1>21, <1>22, <1>23 DEF Transactions

LEMMA RefreshesInv ==
  ASSUME AuthTypes, Transactions, NEW c \in Create, Refreshes(c)
  PROVE  AuthTypes' /\ Transactions'
<1>1. UNCHANGED <<users, keys, expired, revoked>> /\ create[c].pc = "refreshing"
  BY DEF Refreshes
<1>2. CASE Step(c, "500")
  BY <1>1, <1>2, StepQuiet DEF CreatePcs, Past
<1>3. CASE KeysOf(c) # {} /\ Step(c, "200")
  <2>1. \E k \in keys \cup revoked : k.by = c
    BY <1>3 DEF KeysOf
  <2> QED
    BY <1>1, <1>3, <2>1, StepQuiet DEF CreatePcs, Past
<1> QED
  BY <1>2, <1>3 DEF Refreshes

LEMMA SqlFailsInv ==
  ASSUME AuthTypes, Transactions, NEW c \in Create, SqlFails(c)
  PROVE  AuthTypes' /\ Transactions'
<1>1. UNCHANGED <<users, keys, expired, revoked>> /\ Step(c, "500")
  BY DEF SqlFails
<1> QED
  BY <1>1, StepQuiet DEF CreatePcs, Past

LEMMA RevokeInv ==
  ASSUME AuthTypes, Transactions, NEW k \in keys, Revoke(k)
  PROVE  AuthTypes' /\ Transactions'
<1>1. keys' = keys \ {k} /\ revoked' = revoked \cup {k} /\ UNCHANGED <<users, expired, create>>
  BY DEF Revoke
<1>2. AuthTypes'
  BY <1>1 DEF AuthTypes
<1>3. keys' \subseteq keys /\ keys \cup revoked \subseteq keys' \cup revoked'
  BY <1>1
<1> QED
  BY <1>1, <1>2, <1>3 DEF Transactions, Pending

LEMMA ExpireInv ==
  ASSUME AuthTypes, Transactions, NEW t \in DOMAIN Token, Expire(t)
  PROVE  AuthTypes' /\ Transactions'
BY DEF Expire, AuthTypes, Transactions, Pending

LEMMA AuthNextInv ==
  ASSUME AuthTypes, Transactions, AuthNext
  PROVE  AuthTypes' /\ Transactions'
BY SelectsInv, InsertsInv, CommitsInv, RefreshesInv, SqlFailsInv, RevokeInv, ExpireInv
   DEF AuthNext, CreateStep

LEMMA AuthStutterInv ==
  ASSUME AuthTypes, Transactions, UNCHANGED authVars
  PROVE  AuthTypes' /\ Transactions'
BY DEF authVars, AuthTypes, Transactions, Pending
-----------------------------------------------------------------------------
(* The initial states.                                                     *)

LEMMA InitIInv == ASSUME ConsoleInit PROVE IInv
<1>1. NoUser \in [email : Email, by : Create \cup {"nobody"}] /\ NoUser.email \in Email
  BY EmailAssumption DEF NoUser
<1>2. /\ create = [c \in Create |-> [pc |-> "none", email |-> NoUser.email, user |-> NoUser]]
      /\ users = {} /\ keys = {} /\ expired = {} /\ revoked = {}
  BY DEF ConsoleInit, GateInit, AuthInit
<1>3. \A c \in Create : create[c] \in Transaction /\ create[c].pc = "none"
  BY <1>1, <1>2 DEF Transaction, CreatePcs
<1>4. AuthTypes
  BY <1>2, <1>3 DEF AuthTypes
<1>5. Transactions
  BY <1>2, <1>3 DEF Transactions, Pending
<1>6. /\ req = [c \in Call |-> [pc |-> "none", token |-> NoToken, status |-> "none"]]
      /\ work = [c \in Call |-> "none"] /\ listed = [c \in Call |-> {}]
      /\ processing = {} /\ stored = {}
  BY DEF ConsoleInit, GateInit
<1>7. GateTypes
  BY <1>6 DEF GateTypes, Request, Tokens
<1>8. /\ call \in [Call -> {"unused", "idle"}]
      /\ shown = {} /\ banner = FALSE /\ sentAs = [c \in Call |-> "none"]
  BY DEF ConsoleInit
<1>9. PageTypes
  BY <1>8 DEF PageTypes, Roles
<1>10. Admission
  BY <1>3, <1>6, <1>8 DEF Admission, Barred, Untouched
<1>11. Provenance
  BY <1>6, <1>8 DEF Provenance, Succeeded
<1> QED
  BY <1>4, <1>5, <1>7, <1>9, <1>10, <1>11 DEF IInv, Types
-----------------------------------------------------------------------------
(* The other steps, by what they change.                                   *)

(* Transactions go on without the gateway: none begins, and no token that  *)
(* has expired becomes valid again.                                        *)
LEMMA AuthNextKeeps ==
  ASSUME AuthTypes, AuthNext
  PROVE  /\ expired \subseteq expired'
         /\ \A c \in Create : create[c].pc = "none" => create'[c].pc = "none"
<1>1. ASSUME NEW d \in Create, CreateStep(d)
      PROVE  /\ expired' = expired /\ create[d].pc # "none"
             /\ \A c \in Create : c # d => create'[c] = create[c]
  <2>1. CASE Selects(d)
    BY <2>1 DEF Selects, Step, AuthTypes
  <2>2. CASE Inserts(d)
    BY <2>2 DEF Inserts, Step, AuthTypes
  <2>3. CASE Commits(d)
    BY <2>3 DEF Commits, Step, AuthTypes
  <2>4. CASE Refreshes(d)
    BY <2>4 DEF Refreshes, Step, AuthTypes
  <2>5. CASE SqlFails(d)
    BY <2>5 DEF SqlFails, Open, Step, AuthTypes
  <2> QED
    BY <1>1, <2>1, <2>2, <2>3, <2>4, <2>5 DEF CreateStep
<1>2. ASSUME NEW k \in keys, Revoke(k) PROVE expired' = expired /\ create' = create
  BY <1>2 DEF Revoke
<1>3. ASSUME NEW t \in DOMAIN Token, Expire(t) PROVE expired \subseteq expired' /\ create' = create
  BY <1>3 DEF Expire
<1> QED
  BY <1>1, <1>2, <1>3 DEF AuthNext

LEMMA AuthMoves ==
  ASSUME IInv, AuthNext, UNCHANGED gateVars, UNCHANGED pageVars
  PROVE  IInv'
<1>1. AuthTypes' /\ Transactions'
  BY AuthNextInv DEF IInv, Types
<1>2. GateTypes' /\ PageTypes' /\ Provenance'
  BY DEF IInv, Types, gateVars, docVars, pageVars, GateTypes, PageTypes, Provenance,
         Succeeded, Accepted
<1>3. /\ expired \subseteq expired'
      /\ \A c \in Create : create[c].pc = "none" => create'[c].pc = "none"
  BY AuthNextKeeps DEF IInv, Types
<1>4. \A c \in Call : Untouched(c) => Untouched(c)'
  BY <1>3 DEF Untouched, gateVars
<1>5. \A c \in Call : Barred(c) => Barred(c)'
  BY <1>3, <1>4 DEF Barred, Admits, Valid, gateVars, pageVars
<1>6. Admission'
  BY <1>4, <1>5 DEF IInv, Admission, Unentitled, gateVars, pageVars
<1> QED
  BY <1>1, <1>2, <1>6 DEF IInv, Types

(* The gateway goes on with one request, or the page sends one.            *)
LEMMA RequestMoves ==
  ASSUME IInv, NEW c \in Call, NEW r \in Request, req' = [req EXCEPT ![c] = r],
         UNCHANGED <<authVars, work, docVars, shown, banner>>,
         r.pc # "none",
         Kind[c] = "upload" /\ r.status \in {"200", "mock"} => c \in Accepted,
         PageTypes', \A d \in Call : d # c => call'[d] = call[d] /\ sentAs'[d] = sentAs[d],
         call'[c] = "reading" => call[c] = "reading",
         Unentitled(c)' => /\ Untouched(c) /\ call'[c] \notin {"reading", "data"}
                           /\ \/ r.pc = "verifying" /\ ~Admits(c, r.token)
                              \/ r.pc = "answered" /\ r.status \in {"401", "403", "502"}
  PROVE  IInv'
<1>1. AuthTypes' /\ Transactions'
  BY AuthStutterInv DEF IInv, Types
<1>2. GateTypes'
  BY DEF IInv, Types, GateTypes, docVars
<1>3. req'[c] = r /\ \A d \in Call : d # c => req'[d] = req[d]
  BY DEF IInv, Types, GateTypes
<1>4. \A d \in Call : (Untouched(d)' <=> Untouched(d)) /\ \A t : (Admits(d, t)' <=> Admits(d, t))
  BY DEF Untouched, Admits, Valid, authVars
<1>5. \A d \in Call : d # c => (Barred(d)' <=> Barred(d)) /\ (Unentitled(d)' <=> Unentitled(d))
  BY <1>3, <1>4 DEF Barred, Unentitled
<1>6. Unentitled(c)' => Barred(c)'
  BY <1>3, <1>4 DEF Barred
<1>7. Admission'
  BY <1>3, <1>4, <1>5, <1>6 DEF IInv, Admission
<1>8. \A d \in Call : Kind[d] = "upload" /\ Succeeded(d)' => d \in Accepted
  <2>1. ASSUME NEW d \in Call, d # c, Kind[d] = "upload", Succeeded(d)' PROVE d \in Accepted
    BY <1>3, <2>1 DEF IInv, Provenance, Succeeded
  <2>2. ASSUME Kind[c] = "upload", Succeeded(c)' PROVE c \in Accepted
    BY <1>3, <2>2 DEF IInv, Provenance, Succeeded
  <2> QED
    BY <2>1, <2>2
<1>9. Provenance'
  <2>1. Accepted' = Accepted
    BY DEF Accepted
  <2> QED
    BY <1>8, <2>1 DEF IInv, Provenance, docVars
<1> QED
  BY <1>1, <1>2, <1>7, <1>9 DEF IInv, Types

(* As above, with the page unchanged.                                      *)
LEMMA GateMovesOn ==
  ASSUME IInv, NEW c \in Call, NEW r \in Request, req' = [req EXCEPT ![c] = r],
         UNCHANGED <<authVars, work, docVars>>, UNCHANGED pageVars,
         r.pc # "none",
         Kind[c] = "upload" /\ r.status \in {"200", "mock"} => c \in Accepted,
         Unentitled(c) => r.pc = "answered" /\ r.status \in {"401", "403", "502"}
  PROVE  IInv'
<1>1. Unentitled(c) => Untouched(c) /\ call[c] \notin {"reading", "data"}
  BY DEF IInv, Admission, Barred
<1>2. PageTypes' /\ call' = call /\ sentAs' = sentAs /\ shown' = shown /\ banner' = banner
  BY DEF IInv, Types, PageTypes, pageVars
<1>3. Unentitled(c)' <=> Unentitled(c)
  BY <1>2 DEF Unentitled
<1> QED
  BY <1>1, <1>2, <1>3, RequestMoves

(* The page goes on with one call.                                         *)
LEMMA PageMoves ==
  ASSUME IInv, NEW c \in Call,
         NEW v \in {"reading", "data", "demo", "error"}, call' = [call EXCEPT ![c] = v],
         UNCHANGED <<authVars, gateVars, sentAs>>,
         v \in {"reading", "data"} => ~Unentitled(c),
         Kind[c] = "upload" /\ v = "reading" => c \in Accepted,
         shown' \subseteq Accepted \cup {Demo}, banner' \in BOOLEAN
  PROVE  IInv'
<1>1. AuthTypes' /\ Transactions'
  BY AuthStutterInv DEF IInv, Types
<1>2. GateTypes'
  BY DEF IInv, Types, GateTypes, gateVars, docVars
<1>3. PageTypes'
  BY DEF IInv, Types, PageTypes, Accepted, Uploads
<1>4. call'[c] = v /\ \A d \in Call : d # c => call'[d] = call[d]
  BY DEF IInv, Types, PageTypes
<1>5. \A d \in Call : Untouched(d)' <=> Untouched(d)
  BY DEF Untouched, gateVars, authVars
<1>6. \A d \in Call : Unentitled(d)' => Barred(d)'
  BY <1>4, <1>5 DEF IInv, Admission, Unentitled, Barred, Admits, Valid, gateVars, authVars
<1>7. Admission'
  BY <1>5, <1>6 DEF IInv, Admission, gateVars
<1>8. \A d \in Call : Kind[d] = "upload" /\ Succeeded(d)' => d \in Accepted
  BY <1>4 DEF IInv, Provenance, Succeeded, gateVars
<1>9. Provenance'
  <2>1. Accepted' = Accepted
    BY DEF Accepted, gateVars
  <2> QED
    BY <1>8, <2>1 DEF IInv, Provenance, gateVars, docVars
<1> QED
  BY <1>1, <1>2, <1>3, <1>7, <1>9 DEF IInv, Types
-----------------------------------------------------------------------------
(* One lemma for each action of the gateway and the page.                  *)

LEMMA HandleEffect ==
  ASSUME NEW c \in Call, NEW t \in Tokens, NEW role, Handle(c, t, role)
  PROVE  \E r \in Request :
           /\ req' = [req EXCEPT ![c] = r]
           /\ r.pc \in {"forwarding", "answered"}
           /\ r.status \in {"none", "403", "mock"}
           /\ r.status = "mock" => Kind[c] = "key"
           /\ Kind[c] = "key" /\ role # "admin" => r.pc = "answered" /\ r.status = "403"
<1> DEFINE R(pc, token, status) == [pc |-> pc, token |-> token, status |-> status]
<1>1. CASE Kind[c] = "key" /\ role # "admin"
  <2>1. req' = [req EXCEPT ![c] = R("answered", NoToken, "403")]
    BY <1>1 DEF Handle, Answers
  <2>2. R("answered", NoToken, "403") \in Request
    BY DEF Request, Tokens
  <2> QED
    BY <2>1, <2>2
<1>2. CASE ~(Kind[c] = "key" /\ role # "admin") /\ Kind[c] = "key" /\ DevAuth /\ t = DemoToken
  <2>1. req' = [req EXCEPT ![c] = R("answered", NoToken, "mock")]
    BY <1>2 DEF Handle, Answers
  <2>2. R("answered", NoToken, "mock") \in Request
    BY DEF Request, Tokens
  <2> QED
    BY <1>2, <2>1, <2>2
<1>3. CASE ~(Kind[c] = "key" /\ role # "admin") /\ ~(Kind[c] = "key" /\ DevAuth /\ t = DemoToken)
  <2>1. req' = [req EXCEPT ![c] = R("forwarding", t, "none")]
    BY <1>3 DEF Handle
  <2>2. R("forwarding", t, "none") \in Request
    BY DEF Request
  <2> QED
    BY <1>3, <2>1, <2>2
<1> QED
  BY <1>1, <1>2, <1>3

LEMMA AnswersMove ==
  ASSUME IInv, NEW c \in Call, NEW status \in {"200", "401", "403", "500", "502", "timeout"},
         Answers(c, status),
         UNCHANGED <<authVars, work, docVars>>, UNCHANGED pageVars,
         Kind[c] = "upload" /\ status = "200" => c \in Accepted,
         Unentitled(c) => status \in {"401", "403", "502"}
  PROVE  IInv'
<1> DEFINE r == [pc |-> "answered", token |-> NoToken, status |-> status]
<1>1. r \in Request /\ r.pc = "answered" /\ r.status = status
  BY DEF Request, Tokens
<1>2. req' = [req EXCEPT ![c] = r]
  BY DEF Answers
<1> HIDE DEF r
<1> QED
  BY <1>1, <1>2, GateMovesOn

LEMMA VerifiedInv ==
  ASSUME IInv, NEW c \in Call, Verified(c), UNCHANGED pageVars
  PROVE  IInv'
<1>1. req[c].pc = "verifying" /\ UNCHANGED <<authVars, work, docVars>>
  BY DEF Verified
<1>2. CASE Answers(c, "401")
  BY <1>1, <1>2, AnswersMove
<1>3. ASSUME Valid(req[c].token), Handle(c, req[c].token, Token[req[c].token]) PROVE IInv'
  <2>1. Unentitled(c) => Kind[c] = "key" /\ Token[req[c].token] # "admin"
    BY <1>1, <1>3 DEF IInv, Admission, Barred, Admits
  <2>2. req[c].token \in Tokens
    BY DEF IInv, Types, GateTypes, Request
  <2>3. PICK r \in Request :
          /\ req' = [req EXCEPT ![c] = r]
          /\ r.pc \in {"forwarding", "answered"}
          /\ r.status \in {"none", "403", "mock"}
          /\ r.status = "mock" => Kind[c] = "key"
          /\ Kind[c] = "key" /\ Token[req[c].token] # "admin" =>
               r.pc = "answered" /\ r.status = "403"
    BY <1>3, <2>2, HandleEffect
  <2> QED
    BY <1>1, <2>1, <2>3, GateMovesOn
<1> QED
  BY <1>2, <1>3 DEF Verified

LEMMA UnverifiedInv ==
  ASSUME IInv, NEW c \in Call, Unverified(c), UNCHANGED pageVars
  PROVE  IInv'
BY AnswersMove DEF Unverified

LEMMA ForwardedWasAdmitted ==
  ASSUME IInv, NEW c \in Call, req[c].pc = "forwarding"
  PROVE  ~Unentitled(c)
BY DEF IInv, Admission, Barred

LEMMA PassOnInv ==
  ASSUME IInv, NEW c \in Call, PassOn(c), UNCHANGED pageVars
  PROVE  IInv'
<1>1. /\ req[c].pc = "forwarding" /\ UNCHANGED <<authVars, work, docVars>>
      /\ Outcome(c) \in {"200", "401", "403", "500"} /\ Answers(c, Outcome(c))
  BY DEF PassOn
<1>2. Kind[c] = "upload" /\ Outcome(c) = "200" => c \in Accepted
  BY DEF Outcome, Accepted, Uploads
<1> QED
  BY <1>1, <1>2, ForwardedWasAdmitted, AnswersMove

LEMMA GiveUpInv ==
  ASSUME IInv, NEW c \in Call, GiveUp(c), UNCHANGED pageVars
  PROVE  IInv'
BY ForwardedWasAdmitted, AnswersMove DEF GiveUp

LEMMA ReachInv ==
  ASSUME IInv, NEW c \in Call, Reach(c), UNCHANGED pageVars
  PROVE  IInv'
<1>1. /\ req[c].pc = "forwarding" /\ UNCHANGED <<req, docVars>>
      /\ ~Unentitled(c) /\ req[c].pc # "none"
  BY ForwardedWasAdmitted DEF Reach
<1>2. PageTypes' /\ UNCHANGED <<call, shown, banner, sentAs>>
  BY DEF IInv, Types, PageTypes, pageVars
<1>3. \A d \in Call : Unentitled(d)' <=> Unentitled(d)
  BY <1>2 DEF Unentitled
<1>4. ASSUME Kind[c] = "key", NEW email \in Email,
             CreateBegins(c, req[c].token, email), UNCHANGED work
      PROVE  IInv'
  <2>1. c \in Create
    BY <1>4, CreateAssumption
  <2>2. AuthTypes' /\ Transactions'
    BY <1>4, <2>1, CreateBeginsInv DEF IInv, Types
  <2>3. expired' = expired /\ \A d \in Create : d # c => create'[d] = create[d]
    BY <1>4 DEF CreateBegins, IInv, Types, AuthTypes
  <2>4. \A d \in Call : d # c => (Untouched(d)' <=> Untouched(d))
    BY <1>1, <1>4, <2>3 DEF Untouched
  <2>5. \A d \in Call : d # c => (Barred(d)' <=> Barred(d))
    BY <1>1, <1>2, <2>3, <2>4 DEF Barred, Admits, Valid
  <2>6. Admission'
    BY <1>1, <1>3, <2>4, <2>5 DEF IInv, Admission
  <2>7. GateTypes' /\ Provenance'
    BY <1>1, <1>2, <1>4 DEF IInv, Types, GateTypes, docVars, Provenance, Succeeded, Accepted
  <2> QED
    BY <1>2, <2>2, <2>6, <2>7 DEF IInv, Types
<1>5. ASSUME work[c] = "none", work' = [work EXCEPT ![c] = "running"], UNCHANGED authVars
      PROVE  IInv'
  <2>1. AuthTypes' /\ Transactions'
    BY <1>5, AuthStutterInv DEF IInv, Types
  <2>2. work'[c] = "running" /\ \A d \in Call : d # c => work'[d] = work[d]
    BY <1>5 DEF IInv, Types, GateTypes
  <2>3. \A d \in Call : d # c => (Untouched(d)' <=> Untouched(d))
    BY <1>1, <1>5, <2>2 DEF Untouched, authVars
  <2>4. \A d \in Call : d # c => (Barred(d)' <=> Barred(d))
    BY <1>1, <1>2, <1>5, <2>3 DEF Barred, Admits, Valid, authVars
  <2>5. Admission'
    BY <1>1, <1>3, <2>3, <2>4 DEF IInv, Admission
  <2>6. GateTypes'
    BY <1>1, <1>5 DEF IInv, Types, GateTypes, docVars
  <2>7. Accepted' = Accepted
    BY <1>5, <2>2 DEF Accepted, Uploads
  <2>8. Provenance'
    BY <1>1, <1>2, <2>7 DEF IInv, Provenance, Succeeded, docVars
  <2> QED
    BY <1>2, <2>1, <2>5, <2>6, <2>8 DEF IInv, Types
<1> QED
  BY <1>4, <1>5 DEF Reach

(* The services go on: requests they work on end, none begins.             *)
LEMMA ServiceMoves ==
  ASSUME IInv, UNCHANGED <<authVars, req>>, UNCHANGED pageVars, GateTypes',
         \A d \in Call : work[d] # "running" => work'[d] = work[d],
         processing' \cup stored' \subseteq Accepted',
         \A d \in Call : listed'[d] \subseteq Accepted'
  PROVE  IInv'
<1>1. AuthTypes' /\ Transactions'
  BY AuthStutterInv DEF IInv, Types
<1>2. PageTypes' /\ UNCHANGED <<call, shown, banner, sentAs>>
  BY DEF IInv, Types, PageTypes, pageVars
<1>3. \A d \in Call : Untouched(d) => Untouched(d)'
  BY DEF Untouched, authVars
<1>4. \A d \in Call : Barred(d) => Barred(d)'
  BY <1>2, <1>3 DEF Barred, Admits, Valid, authVars
<1>5. Admission'
  BY <1>2, <1>3, <1>4 DEF IInv, Admission, Unentitled
<1>6. Accepted \subseteq Accepted'
  BY DEF Accepted, Uploads
<1>7. Provenance'
  BY <1>2, <1>6 DEF IInv, Provenance, Succeeded
<1> QED
  BY <1>1, <1>2, <1>5, <1>7 DEF IInv, Types

LEMMA ServeInv ==
  ASSUME IInv, NEW c \in Call, Serve(c), UNCHANGED pageVars
  PROVE  IInv'
<1>1. work[c] = "running" /\ UNCHANGED <<authVars, req>>
  BY DEF Serve
<1>2. /\ work' \in [Call -> {"none", "running", "200", "500"}]
      /\ \A d \in Call : d # c => work'[d] = work[d]
  BY <1>1 DEF Serve, IInv, Types, GateTypes
<1>3. Accepted \subseteq Accepted' /\ (Kind[c] = "upload" /\ work'[c] = "200" => c \in Accepted')
  BY <1>1, <1>2 DEF Accepted, Uploads
<1>4. processing' \cup stored' \subseteq Accepted' /\ stored' = stored
  BY <1>3 DEF Serve, Docs!Accept, docVars, IInv, Types, GateTypes, Provenance
<1>5. /\ listed' \in [Call -> SUBSET Uploads]
      /\ \A d \in Call : listed'[d] \subseteq listed[d] \cup stored
  <2>1. stored \subseteq Uploads
    BY DEF IInv, Provenance, Accepted
  <2> QED
    BY <2>1 DEF Serve, docVars, IInv, Types, GateTypes
<1>6. \A d \in Call : listed'[d] \subseteq Accepted'
  BY <1>3, <1>5 DEF IInv, Provenance
<1>7. GateTypes'
  BY <1>1, <1>2, <1>5 DEF IInv, Types, GateTypes
<1> QED
  BY <1>1, <1>2, <1>4, <1>6, <1>7, ServiceMoves

LEMMA ProcessInv ==
  ASSUME IInv, NEW d \in Uploads, Process(d), UNCHANGED pageVars
  PROVE  IInv'
<1>1. UNCHANGED <<authVars, req, work, listed>>
  BY DEF Process
<1>2. processing' \cup stored' \subseteq processing \cup stored
  BY DEF Process, Docs!Publish, Docs!Drop, Docs!Remove
<1>3. Accepted' = Accepted
  BY <1>1 DEF Accepted
<1>4. GateTypes'
  BY <1>1 DEF IInv, Types, GateTypes
<1> QED
  BY <1>1, <1>2, <1>3, <1>4, ServiceMoves DEF IInv, Provenance

LEMMA IngestionRestartsInv ==
  ASSUME IInv, IngestionRestarts, UNCHANGED pageVars
  PROVE  IInv'
<1>1. /\ UNCHANGED <<authVars, req, listed>> /\ Accepted' = Accepted
      /\ processing' = {} /\ stored' = {}
  BY DEF IngestionRestarts, Docs!Restart
<1>2. GateTypes' /\ \A d \in Call : work[d] # "running" => work'[d] = work[d]
  BY <1>1 DEF IngestionRestarts, IInv, Types, GateTypes
<1> QED
  BY <1>1, <1>2, ServiceMoves DEF IInv, Provenance

LEMMA SendInv ==
  ASSUME IInv, NEW c \in Call, NEW t \in Tokens, Send(c, t)
  PROVE  IInv'
<1>1. /\ call[c] = "idle" /\ call' = [call EXCEPT ![c] = "open"] /\ req[c].pc = "none"
      /\ sentAs' = [sentAs EXCEPT ![c] = Role(t)]
      /\ UNCHANGED <<authVars, work, docVars, shown, banner>>
  BY DEF Send, Receive
<1>2. Role(t) \in Roles
  BY DEF Role, Roles, Valid
<1>3. /\ call'[c] = "open" /\ sentAs'[c] = Role(t)
      /\ \A d \in Call : d # c => call'[d] = call[d] /\ sentAs'[d] = sentAs[d]
  BY <1>1 DEF IInv, Types, PageTypes
<1>4. PageTypes'
  BY <1>1, <1>2 DEF IInv, Types, PageTypes
<1>5. Untouched(c)
  BY <1>1 DEF IInv, Admission
<1>6. Unentitled(c)' => ~Admits(c, t) /\ ~(DevAuth /\ t = DemoToken)
  BY <1>3, RoleAssumption DEF Unentitled, Role, Admits, Valid
<1>7. SUFFICES ASSUME NEW r \in Request, req' = [req EXCEPT ![c] = r], r.pc # "none",
                      Kind[c] = "upload" => r.status \notin {"200", "mock"},
                      Unentitled(c)' => \/ r.pc = "verifying" /\ ~Admits(c, r.token)
                                        \/ r.pc = "answered" /\ r.status \in {"401", "502"}
               PROVE  IInv'
  <2> DEFINE Fits(r) ==
        /\ req' = [req EXCEPT ![c] = r] /\ r.pc # "none"
        /\ Kind[c] = "upload" => r.status \notin {"200", "mock"}
        /\ Unentitled(c)' => \/ r.pc = "verifying" /\ ~Admits(c, r.token)
                             \/ r.pc = "answered" /\ r.status \in {"401", "502"}
  <2>1. ASSUME Answers(c, "401") PROVE \E r \in Request : Fits(r)
    <3>1. [pc |-> "answered", token |-> NoToken, status |-> "401"] \in Request
      BY DEF Request, Tokens
    <3> QED
      BY <2>1, <3>1 DEF Answers
  <2>2. ASSUME t = DemoToken, DevAuth, Handle(c, t, "admin") PROVE \E r \in Request : Fits(r)
    <3>1. PICK r \in Request :
            /\ req' = [req EXCEPT ![c] = r]
            /\ r.pc \in {"forwarding", "answered"}
            /\ r.status \in {"none", "403", "mock"}
            /\ r.status = "mock" => Kind[c] = "key"
      BY <2>2, HandleEffect
    <3>2. ~Unentitled(c)'
      BY <1>6, <2>2
    <3> QED
      BY <3>1, <3>2
  <2>3. ASSUME t \notin {NoToken} \cup (IF DevAuth THEN {DemoToken} ELSE {}),
               req' = [req EXCEPT ![c] = [pc |-> "verifying", token |-> t, status |-> "none"]]
        PROVE  \E r \in Request : Fits(r)
    <3>1. [pc |-> "verifying", token |-> t, status |-> "none"] \in Request
      BY DEF Request
    <3> QED
      BY <1>6, <2>3, <3>1
  <2>4. \E r \in Request : Fits(r)
    BY <2>1, <2>2, <2>3 DEF Send, Receive
  <2> QED
    BY <2>4
<1> QED
  BY <1>1, <1>3, <1>4, <1>5, <1>7, RequestMoves

LEMMA FallBackInv ==
  ASSUME IInv, NEW c \in Call, FallBack(c), UNCHANGED <<authVars, gateVars, sentAs>>
  PROVE  IInv'
<1>1. CASE Kind[c] = "key"
  <2>1. call' = [call EXCEPT ![c] = "error"] /\ shown' = shown /\ banner' = banner
    BY <1>1 DEF FallBack, Ends
  <2>2. shown' \subseteq Accepted \cup {Demo} /\ banner' \in BOOLEAN
    BY <2>1 DEF IInv, Types, PageTypes, Provenance
  <2> QED
    BY <2>1, <2>2, PageMoves
<1>2. CASE Kind[c] # "key"
  <2>1. call' = [call EXCEPT ![c] = "demo"] /\ banner' = TRUE
    BY <1>2 DEF FallBack, Ends
  <2>2. shown' \subseteq shown \cup {Demo}
    BY <1>2 DEF FallBack, Shows
  <2>3. shown' \subseteq Accepted \cup {Demo} /\ banner' \in BOOLEAN
    BY <2>1, <2>2 DEF IInv, Provenance
  <2> QED
    BY <2>1, <2>3, PageMoves
<1> QED
  BY <1>1, <1>2

LEMMA RespondsInv ==
  ASSUME IInv, NEW c \in Call, Responds(c)
  PROVE  IInv'
<1>1. req[c].pc = "answered" /\ UNCHANGED <<authVars, gateVars, sentAs>>
  BY DEF Responds
<1>2. ASSUME req[c].status \in {"200", "mock"},
             Ends(c, "reading"), banner' = FALSE, UNCHANGED shown
      PROVE  IInv'
  <2>1. ~Unentitled(c)
    BY <1>1, <1>2 DEF IInv, Admission, Barred
  <2>2. Kind[c] = "upload" => c \in Accepted
    BY <1>2 DEF IInv, Provenance, Succeeded
  <2>3. shown' \subseteq Accepted \cup {Demo} /\ banner' \in BOOLEAN
    BY <1>2 DEF IInv, Provenance
  <2> QED
    BY <1>1, <1>2, <2>1, <2>2, <2>3, PageMoves DEF Ends
<1>3. ASSUME Ends(c, "error"), UNCHANGED <<shown, banner>> PROVE IInv'
  <2>1. shown' \subseteq Accepted \cup {Demo} /\ banner' \in BOOLEAN
    BY <1>3 DEF IInv, Types, PageTypes, Provenance
  <2> QED
    BY <1>1, <1>3, <2>1, PageMoves DEF Ends
<1>4. ASSUME FallBack(c) PROVE IInv'
  BY <1>1, <1>4, FallBackInv
<1> QED
  BY <1>2, <1>3, <1>4 DEF Responds

LEMMA ReadsInv ==
  ASSUME IInv, NEW c \in Call, Reads(c)
  PROVE  IInv'
<1>1. call[c] = "reading" /\ UNCHANGED <<authVars, gateVars, banner, sentAs>>
  BY DEF Reads
<1>2. ~Unentitled(c) /\ banner' \in BOOLEAN
  BY <1>1 DEF IInv, Types, PageTypes, Admission, Barred
<1>3. CASE Ends(c, "data") /\ Shows(c, {c}, listed[c])
  <2>1. Kind[c] = "upload" => c \in Accepted
    BY <1>1 DEF IInv, Provenance, Succeeded
  <2>2. shown' \subseteq Accepted \cup {Demo}
    BY <1>3, <2>1 DEF Shows, IInv, Provenance
  <2> QED
    BY <1>1, <1>2, <1>3, <2>2, PageMoves DEF Ends
<1>4. CASE Ends(c, "error") /\ UNCHANGED shown
  <2>1. shown' \subseteq Accepted \cup {Demo}
    BY <1>4 DEF IInv, Provenance
  <2> QED
    BY <1>1, <1>2, <1>4, <2>1, PageMoves DEF Ends
<1> QED
  BY <1>3, <1>4 DEF Reads

LEMMA LosesInv ==
  ASSUME IInv, NEW c \in Call, Loses(c)
  PROVE  IInv'
BY FallBackInv DEF Loses
-----------------------------------------------------------------------------
(* The theorems.                                                           *)

LEMMA GateNextInv ==
  ASSUME IInv, GateNext, UNCHANGED pageVars
  PROVE  IInv'
<1>1. CASE AuthNext /\ UNCHANGED gateVars
  BY <1>1, AuthMoves
<1>2. ASSUME NEW c \in Call, GateStep(c) \/ Reach(c) \/ Serve(c) PROVE IInv'
  BY <1>2, VerifiedInv, UnverifiedInv, PassOnInv, GiveUpInv, ReachInv, ServeInv DEF GateStep
<1>3. ASSUME NEW d \in Uploads, Process(d) PROVE IInv'
  BY <1>3, ProcessInv
<1>4. CASE IngestionRestarts
  BY <1>4, IngestionRestartsInv
<1> QED
  BY <1>1, <1>2, <1>3, <1>4 DEF GateNext

LEMMA StepInv ==
  ASSUME IInv, [ConsoleNext]_consoleVars
  PROVE  IInv'
<1>1. CASE GateNext /\ UNCHANGED pageVars
  BY <1>1, GateNextInv
<1>2. ASSUME NEW c \in Call, NEW t \in Tokens, Send(c, t) PROVE IInv'
  BY <1>2, SendInv
<1>3. ASSUME NEW c \in Call, PageStep(c) \/ Loses(c) PROVE IInv'
  BY <1>3, RespondsInv, ReadsInv, LosesInv DEF PageStep
<1>4. CASE UNCHANGED consoleVars
  <2>1. AuthTypes' /\ Transactions'
    BY <1>4, AuthStutterInv DEF IInv, Types, consoleVars
  <2>2. \A c \in Call : (Untouched(c)' <=> Untouched(c)) /\ (Barred(c)' <=> Barred(c))
    BY <1>4 DEF Untouched, Barred, Admits, Valid, consoleVars, authVars, gateVars, pageVars
  <2>3. Admission'
    BY <1>4, <2>2 DEF IInv, Admission, Unentitled, consoleVars, gateVars, pageVars
  <2>4. GateTypes' /\ PageTypes' /\ Provenance'
    BY <1>4 DEF IInv, Types, GateTypes, PageTypes, Provenance, Succeeded, Accepted,
                consoleVars, gateVars, docVars, pageVars
  <2> QED
    BY <2>1, <2>3, <2>4 DEF IInv, Types
<1> QED
  BY <1>1, <1>2, <1>3, <1>4 DEF ConsoleNext, Tokens

LEMMA Invariant == ConsoleSpec => []IInv
<1>1. ConsoleInit => IInv
  BY InitIInv
<1>2. IInv /\ [ConsoleNext]_consoleVars => IInv'
  BY StepInv
<1> QED
  BY <1>1, <1>2, PTL DEF ConsoleSpec

(* Every variable has its type, and two pending transactions hold rows of  *)
(* different e-mails.                                                      *)
THEOREM TypeCorrect == ConsoleSpec => []ConsoleTypeOK
<1>1. ASSUME IInv PROVE ConsoleTypeOK
  <2>1. AuthTypeOK
    <3>1. users \subseteq User /\ expired \subseteq DOMAIN Token
      BY <1>1 DEF IInv, Types, AuthTypes
    <3>2. keys \subseteq [by : Create, owner : users]
      BY <1>1 DEF IInv, Types, AuthTypes, Transactions
    <3>3. \A c \in Create : create[c].pc \in CreatePcs /\ create[c].email \in Email
      BY <1>1 DEF IInv, Types, AuthTypes, Transaction
    <3>4. \A c, d \in Create :
            Pending(c) /\ Pending(d) /\ create[c].email = create[d].email => c = d
      BY <1>1 DEF IInv, Transactions
    <3> QED
      BY <3>1, <3>2, <3>3, <3>4 DEF AuthTypeOK, User, CreatePcs
  <2>2. \A c \in Call : req[c] \in Request
    BY <1>1 DEF IInv, Types, GateTypes
  <2>3. \A c \in Call :
          /\ req[c].pc \in {"none", "verifying", "forwarding", "answered"}
          /\ req[c].status \in {"none", "200", "mock", "401", "403", "500", "502", "timeout"}
    BY <2>2 DEF Request
  <2>4. \A c \in Call :
          /\ work[c] \in {"none", "running", "200", "500"}
          /\ call[c] \in {"unused", "idle", "open", "reading", "data", "demo", "error"}
    BY <1>1 DEF IInv, Types, GateTypes, PageTypes
  <2>5. /\ processing \subseteq Uploads /\ stored \subseteq Uploads
        /\ \A c \in Call : listed[c] \subseteq Uploads
        /\ shown \subseteq Call \cup {Demo} /\ banner \in BOOLEAN
    BY <1>1 DEF IInv, Types, GateTypes, PageTypes, Provenance, Accepted
  <2> QED
    BY <2>1, <2>3, <2>4, <2>5 DEF ConsoleTypeOK
<1> QED
  BY <1>1, Invariant, PTL

(* A call without a valid token has no effect in any service, and brings   *)
(* no data to the page, and no key is made but for an administrator, for   *)
(* any tokens, roles, calls and failures.                                  *)
THEOREM NoUnauthorizedEffect == ConsoleSpec => []EffectsAuthorized
<1>1. ASSUME IInv PROVE EffectsAuthorized
  BY <1>1 DEF IInv, Admission, Barred, Untouched, Provenance, Accepted, EffectsAuthorized
<1> QED
  BY <1>1, Invariant, PTL

(* However many requests create keys at once: an e-mail has one user, and  *)
(* a key the user its request named.                                       *)
THEOREM KeysHaveTheirOwner == ConsoleSpec => []KeysOwned
<1>1. ASSUME IInv PROVE KeysOwned
  BY <1>1 DEF IInv, Transactions, KeysOwned
<1> QED
  BY <1>1, Invariant, PTL

(* Whatever order lists, uploads, timeouts, losses, failed tasks, deletions *)
(* and restarts come in, what the page shows is demo data or was accepted  *)
(* by the ingestion service; it need not be stored, then or ever.          *)
THEOREM ShownDocumentsWereAccepted == ConsoleSpec => []ShownWasAccepted
<1>1. ASSUME IInv PROVE ShownWasAccepted
  BY <1>1 DEF IInv, Provenance, ShownWasAccepted
<1> QED
  BY <1>1, Invariant, PTL
=============================================================================
