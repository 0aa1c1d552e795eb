------------------------------ MODULE Accounts ------------------------------
(***************************************************************************)
(* The whole authentication service: POST /v1/auth/register, and login     *)
(* with its look at table users, added to the handlers of module Auth.     *)
(* Auth leaves the outcome of a sign-in open; here the table decides.      *)
(*                                                                         *)
(* gorm wraps the INSERT of Create in a transaction.  Until it ends, the   *)
(* unique index on email makes an INSERT of the same address wait.         *)
(***************************************************************************)
EXTENDS Auth

CONSTANTS
  Addresses,   (* what column email holds                                  *)
  Keys,        (* the at most 72 bytes of a password that bcrypt reads     *)
  Forms,       (* the payloads: an email with its length in bytes, and     *)
               (* whether mail.ParseAddress parses it; a password with its *)
               (* length in bytes, and whether it mixes upper case, lower  *)
               (* case and digits                                          *)
  NoKey, NoCall, NoForm

Emails == [address : Addresses, bytes : Nat, parses : BOOLEAN]
Passwords == [key : Keys, bytes : Nat, mixed : BOOLEAN]

ASSUME FormsAssumption == Forms \subseteq [email : Emails, password : Passwords]
ASSUME NoneAssumption ==
  /\ NoKey \notin Keys /\ NoCall \notin Calls
  /\ NoForm \notin Forms

VARIABLES
  users,       (* users[a]: the key whose hash is in a's row               *)
  holder,      (* holder[a]: whose uncommitted INSERT of a is in the index *)
  stage,       (* stage[c]: the next step of Register, or of Login up to   *)
               (* the comparison of the passwords                          *)
  form,        (* form[c]: the payload of the request                      *)
  outcome,     (* outcome[c]: what the registration c was answered         *)
  created,     (* addresses and keys that were answered 201                *)
  entitled     (* the calls that are signing in with one of these          *)

tableVars == <<users, holder>>
requestVars == <<stage, form, outcome>>
historyVars == <<created, entitled>>
accountVars == <<tableVars, requestVars, historyVars>>
vars == <<authVars, accountVars>>

Stages == {"none", "hash", "insert", "commit", "lookup", "compare"}
Outcomes == {"none", "created", "conflict", "error"}

TypeOK ==
  /\ AuthTypeOK
  /\ users \in [Addresses -> Keys \cup {NoKey}]
  /\ holder \in [Addresses -> Calls \cup {NoCall}]
  /\ stage \in [Calls -> Stages]
  /\ form \in [Calls -> Forms \cup {NoForm}]
  /\ outcome \in [Calls -> Outcomes]
  /\ created \in SUBSET (Addresses \X Keys)
  /\ entitled \in SUBSET Calls

Init ==
  /\ AuthInit
  /\ users = [a \in Addresses |-> NoKey]
  /\ holder = [a \in Addresses |-> NoCall]
  /\ stage = [c \in Calls |-> "none"]
  /\ form = [c \in Calls |-> NoForm]
  /\ outcome = [c \in Calls |-> "none"]
  /\ created = {}
  /\ entitled = {}
-----------------------------------------------------------------------------
minPasswordLength == 8
maxPasswordLength == 128
maxEmailLength == 255
bcryptMaxLength == 72

validateEmail(e) == e.bytes \in 1 .. maxEmailLength /\ e.parses

(* len counts bytes, although the messages speak of characters. *)
validatePassword(p) ==
  p.bytes \in minPasswordLength .. maxPasswordLength /\ p.mixed

ValidateRegisterRequest(f) == validateEmail(f.email) /\ validatePassword(f.password)

ValidateLoginRequest(f) == f.email.bytes > 0 /\ f.password.bytes > 0

Address(c) == form[c].email.address
Key(c) == form[c].password.key
Idle(c) == step[c] = "none" /\ stage[c] = "none"

(* The payload f, which passed its validation, comes in.  Of one that did  *)
(* not, answered 400, nothing remains.                                     *)
Receive(c, f, first) ==
  /\ Idle(c)
  /\ stage' = [stage EXCEPT ![c] = first]
  /\ form' = [form EXCEPT ![c] = f]
  /\ outcome' = [outcome EXCEPT ![c] = "none"]
  /\ UNCHANGED <<tableVars, created>>

(* The handler goes on. *)
Proceed(c, next) ==
  /\ stage' = [stage EXCEPT ![c] = next]
  /\ UNCHANGED <<form, outcome>>

(* The registration is answered. *)
Finish(c, o) ==
  /\ stage' = [stage EXCEPT ![c] = "none"]
  /\ form' = [form EXCEPT ![c] = NoForm]
  /\ outcome' = [outcome EXCEPT ![c] = o]
-----------------------------------------------------------------------------
Register(c, f) ==
  /\ ValidateRegisterRequest(f)
  /\ Receive(c, f, "hash")
  /\ UNCHANGED <<authVars, entitled>>

(* bcrypt.GenerateFromPassword; its error has neither word of AnswerError. *)
HashPassword(c) ==
  /\ stage[c] = "hash"
  /\ IF form[c].password.bytes <= bcryptMaxLength
       THEN Proceed(c, "insert")
       ELSE Finish(c, "error")
  /\ UNCHANGED <<authVars, tableVars, historyVars>>

(* An INSERT that is not refused for an address that is there.             *)
InsertUserAnyway(c) ==
  /\ stage[c] = "insert" /\ holder[Address(c)] = NoCall
  /\ holder' = [holder EXCEPT ![Address(c)] = c]
  /\ Proceed(c, "commit")
  /\ UNCHANGED <<authVars, users, historyVars>>

(* Register failed.  It is a conflict if the error's text has one of two   *)
(* words, whatever it is about: PostgreSQL words the unique index's error  *)
(* in the language of the server, and errors quote names.                  *)
Words == {"duplicate", "unique"}

AnswerError(c) ==
  \E text \in SUBSET Words : Finish(c, IF text # {} THEN "conflict" ELSE "error")

(* INSERT INTO users: it waits for another INSERT of the address to end,   *)
(* hits the unique index, or fails for some other reason.                  *)
InsertUser(c) ==
  /\ stage[c] = "insert"
  /\ \/ /\ users[Address(c)] = NoKey /\ holder[Address(c)] = NoCall
        /\ holder' = [holder EXCEPT ![Address(c)] = c]
        /\ Proceed(c, "commit")
     \/ AnswerError(c) /\ UNCHANGED holder
  /\ UNCHANGED <<authVars, users, historyVars>>

EndInsert(c) == holder' = [holder EXCEPT ![Address(c)] = NoCall]
StoreUser(c) == users' = [users EXCEPT ![Address(c)] = Key(c)]

(* The error of COMMIT is ignored. *)
CommitIgnoringError(c) ==
  /\ stage[c] = "commit"
  /\ EndInsert(c)
  /\ StoreUser(c) \/ UNCHANGED users
  /\ Finish(c, "created")
  /\ created' = created \cup {<<Address(c), Key(c)>>}
  /\ UNCHANGED <<authVars, entitled>>

(* COMMIT, which may report an error whether it was applied or not.        *)
CommitUser(c) ==
  /\ stage[c] = "commit"
  /\ EndInsert(c)
  /\ \/ /\ StoreUser(c) /\ Finish(c, "created")
        /\ created' = created \cup {<<Address(c), Key(c)>>}
     \/ /\ StoreUser(c) \/ UNCHANGED users
        /\ AnswerError(c)
        /\ UNCHANGED created
  /\ UNCHANGED <<authVars, entitled>>

(* The API process dies: a COMMIT under way is applied or not, and an      *)
(* INSERT that is not committed rolled back.                               *)
LoseRegistration(c) ==
  /\ stage[c] \in {"hash", "insert", "commit"}
  /\ IF stage[c] = "commit" THEN EndInsert(c) /\ (StoreUser(c) \/ UNCHANGED users)
                            ELSE UNCHANGED <<holder, users>>
  /\ Finish(c, "none")
  /\ UNCHANGED <<authVars, historyVars>>
-----------------------------------------------------------------------------
Login(c, f) ==
  /\ ValidateLoginRequest(f)
  /\ Receive(c, f, "lookup")
  /\ BeginLogin(c)
  /\ entitled' = IF <<f.email.address, f.password.key>> \in created
                   THEN entitled \cup {c} ELSE entitled

(* The call ends here; its payload is forgotten. *)
EndCall(c) ==
  /\ stage' = [stage EXCEPT ![c] = "none"]
  /\ form' = [form EXCEPT ![c] = NoForm]
  /\ entitled' = entitled \ {c}
  /\ UNCHANGED <<outcome, tableVars, created>>

(* The lookup, each of whose errors is taken for a missing row.            *)
FindUserOrRefuse(c) ==
  /\ stage[c] = "lookup"
  /\ \/ /\ users[Address(c)] # NoKey
        /\ Proceed(c, "compare")
        /\ UNCHANGED <<authVars, tableVars, historyVars>>
     \/ Respond(c, "refused") /\ EndCall(c) /\ UNCHANGED rowVars

(* A login that ends the user's other sessions (RevokeAllUserTokens).      *)
FindUserRevokingTokens(c) ==
  /\ stage[c] = "lookup" /\ users[Address(c)] # NoKey
  /\ row' = [t \in Tokens |->
               IF row[t] = "live" THEN "revoked" ELSE row[t]]
  /\ Proceed(c, "compare")
  /\ UNCHANGED <<expired, parent, issued, callVars, tableVars, historyVars>>

(* The row of the address; no row and an error are told apart.             *)
FindUserByEmail(c) ==
  /\ stage[c] = "lookup"
  /\ \/ /\ users[Address(c)] # NoKey
        /\ Proceed(c, "compare")
        /\ UNCHANGED <<authVars, tableVars, historyVars>>
     \/ /\ users[Address(c)] = NoKey
        /\ Respond(c, "refused") /\ EndCall(c) /\ UNCHANGED rowVars
     \/ Respond(c, "error") /\ EndCall(c) /\ UNCHANGED rowVars

(* bcrypt.CompareHashAndPassword, and generateAccessToken.                 *)
ComparePassword(c) ==
  /\ stage[c] = "compare"
  /\ UNCHANGED rowVars
  /\ IF users[Address(c)] = Key(c)
       THEN /\ Goto(c, "save") /\ Proceed(c, "none")
            /\ UNCHANGED <<tableVars, historyVars>>
       ELSE Respond(c, "refused") /\ EndCall(c)

(* A refresh changes nothing of the accounts before it saves its token.    *)
ServeRefresh(c) ==
  /\ FindToken(c) \/ RevokeExpired(c) \/ RevokeToken(c) \/ FindUser(c)
  /\ UNCHANGED accountVars

(* createRefreshToken. *)
IssueToken(c) == SaveToken(c) /\ EndCall(c)

LoseSession(c) == LoseCall(c) /\ EndCall(c)

Refresh(c, t) ==
  /\ Idle(c)
  /\ BeginRefresh(c, t)
  /\ outcome' = [outcome EXCEPT ![c] = "none"]
  /\ UNCHANGED <<tableVars, stage, form, historyVars>>

Age(t) == Expire(t) /\ UNCHANGED accountVars

Handle(c) ==
  \/ HashPassword(c)
  \/ InsertUser(c)
  \/ CommitUser(c)
  \/ LoseRegistration(c)
  \/ FindUserByEmail(c)
  \/ ComparePassword(c)
  \/ ServeRefresh(c)
  \/ IssueToken(c)
  \/ LoseSession(c)

Next ==
  \/ \E c \in Calls, f \in Forms : Register(c, f) \/ Login(c, f)
  \/ \E c \in Calls, t \in Tokens : Refresh(c, t)
  \/ \E c \in Calls : Handle(c)
  \/ \E t \in Tokens : Age(t)

Spec == Init /\ [][Next]_vars
-----------------------------------------------------------------------------
(* The address in the index is of one INSERT, of a registration about to   *)
(* commit, and not of an account yet.                                      *)
IndexInv ==
  /\ \A c \in Calls : stage[c] = "commit" => holder[Address(c)] = c
  /\ \A a \in Addresses : holder[a] # NoCall =>
       users[a] = NoKey /\ stage[holder[a]] = "commit" /\ Address(holder[a]) = a

(* Login's payload is there until its token is saved; past the comparison  *)
(* its password is the account's.                                          *)
LoginInv ==
  \A c \in Calls :
    /\ stage[c] # "none" => form[c] # NoForm
    /\ stage[c] \in {"lookup", "compare"} <=> step[c] = "credentials"
    /\ stage[c] \in {"hash", "insert", "commit"} => step[c] = "none"
    /\ stage[c] = "compare" => users[Address(c)] # NoKey
    /\ step[c] = "save" /\ token[c] = NoToken =>
         form[c] # NoForm /\ users[Address(c)] = Key(c)

(* 201 is answered for an account that is stored with this password; so,   *)
(* since a row has one password, to one registration of an address.        *)
CreatedIsStored == \A k \in created : users[k[1]] = k[2]

EntitledInv ==
  \A c \in entitled :
    /\ step[c] \in {"credentials", "save"} /\ form[c] # NoForm
    /\ <<Address(c), Key(c)>> \in created

AccountsInv ==
  /\ TypeOK /\ AuthInv /\ IndexInv /\ LoginInv
  /\ CreatedIsStored /\ EntitledInv

(* Who was told that the account is created is never refused with its      *)
(* password: whatever fails, it is reported as an error instead.           *)
CreatedCanSignIn ==
  [][\A c \in Calls :
       c \in entitled /\ step'[c] = "none" => answer'[c] # "refused"]_vars

(* 201 goes to the registration that creates the account: of two that run  *)
(* side by side for one address, with the same password even, one gets it, *)
(* and nobody does for an account that was there.                          *)
CreatedByOne ==
  [][\A c \in Calls :
       outcome[c] # "created" /\ outcome'[c] = "created" =>
         users[Address(c)] = NoKey /\ users'[Address(c)] = Key(c)]_vars

(* No password of an account is replaced by a later or a concurrent        *)
(* registration of its address, which nothing looks up first.              *)
AccountIsKept ==
  [][\A a \in Addresses : users[a] # NoKey => users'[a] = users[a]]_vars

(* validator.go: "password must not exceed 128 characters".  A payload     *)
(* that was validated is not answered with an error before a statement of  *)
(* the database was tried.                                                 *)
ValidIsTried ==
  [][\A c \in Calls :
       stage[c] = "hash" /\ stage'[c] = "none" => outcome'[c] # "error"]_vars
=============================================================================
