--------------------------- MODULE AccountsProofs ---------------------------
(***************************************************************************)
(* Proofs about Accounts, for any number of addresses, passwords, tokens   *)
(* and concurrent requests.                                                *)
(***************************************************************************)
EXTENDS Accounts, AuthProofs

AccountsTypeOK ==
  /\ users \in [Addresses -> Keys \cup {NoKey}]
  /\ holder \in [Addresses -> Calls \cup {NoCall}]
  /\ stage \in [Calls -> Stages]
  /\ form \in [Calls -> Forms \cup {NoForm}]
  /\ outcome \in [Calls -> Outcomes]
  /\ created \in SUBSET (Addresses \X Keys)
  /\ entitled \in SUBSET Calls

AccountsPart == AccountsTypeOK /\ IndexInv /\ LoginInv /\ CreatedIsStored /\ EntitledInv

LEMMA Parts == AccountsInv <=> AuthInv /\ AccountsPart
BY DEF AccountsInv, AccountsPart, TypeOK, AccountsTypeOK, AuthInv

(* The payload of a request has an address and a key. *)
LEMMA FormFields ==
  ASSUME NEW f \in Forms
  PROVE  f.email.address \in Addresses /\ f.password.key \in Keys /\ f # NoForm
BY FormsAssumption, NoneAssumption DEF Emails, Passwords

LEMMA AccountsInvInit == Init => AccountsInv
<1> SUFFICES ASSUME Init PROVE AccountsInv
  OBVIOUS
<1>1. AuthInv
  BY AuthInvInit DEF Init
<1>2. AccountsPart
  BY NoTokenAssumption, NoneAssumption, SMT
     DEF Init, AuthInit, NoCalls, AccountsPart, AccountsTypeOK, IndexInv, LoginInv,
         CreatedIsStored, EntitledInv, Stages, Outcomes
<1> QED BY <1>1, <1>2, Parts

(* What a step does to tokens and requests, Auth allows. *)
LEMMA AuthStep == AccountsInv /\ [Next]_vars => [AuthNext]_authVars
<1> SUFFICES ASSUME AccountsInv, [Next]_vars PROVE [AuthNext]_authVars
  OBVIOUS
<1>1. ASSUME NEW c \in Calls, NEW f \in Forms, Register(c, f) \/ Login(c, f)
      PROVE  [AuthNext]_authVars
  BY <1>1 DEF Register, Login, AuthNext
<1>2. ASSUME NEW c \in Calls, NEW t \in Tokens, Refresh(c, t) PROVE AuthNext
  BY <1>2 DEF Refresh, AuthNext
<1>3. ASSUME NEW c \in Calls, Handle(c) PROVE [AuthNext]_authVars
  <2>1. CASE HashPassword(c) \/ InsertUser(c) \/ CommitUser(c) \/ LoseRegistration(c)
    BY <2>1 DEF HashPassword, InsertUser, CommitUser, LoseRegistration
  <2>2. CASE FindUserByEmail(c) \/ ComparePassword(c)
    <3>1. step[c] = "credentials"
      BY <2>2 DEF AccountsInv, LoginInv, FindUserByEmail, ComparePassword
    <3>2. UNCHANGED authVars \/ CheckCredentials(c)
      BY <2>2, <3>1 DEF FindUserByEmail, ComparePassword, CheckCredentials
    <3> QED BY <3>2 DEF AuthNext, Serve
  <2>3. CASE ServeRefresh(c) \/ IssueToken(c) \/ LoseSession(c)
    BY <2>3 DEF ServeRefresh, IssueToken, LoseSession, AuthNext, Serve
  <2> QED BY <1>3, <2>1, <2>2, <2>3 DEF Handle
<1>4. ASSUME NEW t \in Tokens, Age(t) PROVE AuthNext
  BY <1>4 DEF Age, AuthNext
<1>5. CASE UNCHANGED vars
  BY <1>5 DEF vars
<1> QED BY <1>1, <1>2, <1>3, <1>4, <1>5 DEF Next

(* A step that leaves the requests of entitled logins alone keeps them so. *)
LEMMA EntitledFrame ==
  ASSUME EntitledInv, entitled' \subseteq entitled, created \subseteq created',
         \A d \in entitled' : form'[d] = form[d] /\ step'[d] \in {"credentials", "save"}
  PROVE  EntitledInv'
BY DEF EntitledInv, Address, Key

(* No password of a row ever changes, so what was stored is stored.        *)
LEMMA CreatedFrame ==
  ASSUME CreatedIsStored, created' = created,
         created \in SUBSET (Addresses \X Keys),
         \A a \in Addresses : users[a] \in Keys => users'[a] = users[a]
  PROVE  CreatedIsStored'
<1> SUFFICES ASSUME NEW k \in created PROVE users'[k[1]] = k[2]
  BY DEF CreatedIsStored
<1>1. k[1] \in Addresses /\ k[2] \in Keys /\ users[k[1]] = k[2]
  BY DEF CreatedIsStored
<1> QED BY <1>1

LEMMA AccountsPartStep == AccountsInv /\ [Next]_vars => AccountsPart'
<1> SUFFICES ASSUME AccountsInv, [Next]_vars PROVE AccountsPart'
  OBVIOUS
<1>a. AccountsPart /\ AuthTypeOK /\ ProgressInv
  BY Parts DEF AuthInv
<1>b. \A d \in entitled : d \in Calls /\ step[d] \in {"credentials", "save"}
  BY <1>a DEF AccountsPart, AccountsTypeOK, EntitledInv
<1>c. CreatedIsStored /\ EntitledInv /\ created \in SUBSET (Addresses \X Keys)
  BY <1>a DEF AccountsPart, AccountsTypeOK
<1> USE NoneAssumption, FormFields, <1>a, <1>b
    DEF AccountsPart, AccountsTypeOK, IndexInv, LoginInv, Stages, Outcomes, Address, Key,
        tableVars, requestVars, historyVars, authVars, callVars, AuthTypeOK, Steps
<1>1. ASSUME NEW c \in Calls, NEW f \in Forms, Register(c, f) PROVE AccountsPart'
  <2>1. AccountsTypeOK'
    BY <1>1, SMTT(30) DEF Register, Receive, Idle
  <2>2. IndexInv'
    BY <1>1, SMTT(30) DEF Register, Receive, Idle
  <2>3. LoginInv'
    BY <1>1, SMTT(30) DEF Register, Receive, Idle
  <2>4. CreatedIsStored'
    <3>1. /\ created' = created
          /\ \A a \in Addresses : users[a] \in Keys => users'[a] = users[a]
      BY <1>1, SMTT(30) DEF Register, Receive, Idle
    <3> QED BY <1>c, <3>1, CreatedFrame, Zenon
  <2>5. EntitledInv'
    <3>1. c \notin entitled
      BY <1>1, SMTT(30) DEF Register, Receive, Idle
    <3>2. /\ entitled' = entitled /\ created' = created /\ step' = step
          /\ \A d \in Calls \ {c} : form'[d] = form[d]
      BY <1>1, SMTT(30) DEF Register, Receive, Idle
    <3>3. \A d \in entitled' :
            form'[d] = form[d] /\ step'[d] \in {"credentials", "save"}
      BY <1>b, <3>1, <3>2, SMT
    <3> QED BY <1>c, <3>2, <3>3, EntitledFrame, Zenon
  <2> QED BY <2>1, <2>2, <2>3, <2>4, <2>5 DEF AccountsPart
<1>2. ASSUME NEW c \in Calls, NEW f \in Forms, Login(c, f) PROVE AccountsPart'
  <2>1. AccountsTypeOK'
    BY <1>2, SMTT(30) DEF Login, Receive, Idle, BeginLogin, Begin
  <2>2. IndexInv'
    BY <1>2, SMTT(30) DEF Login, Receive, Idle, BeginLogin, Begin
  <2>3. LoginInv'
    BY <1>2, SMTT(30) DEF Login, Receive, Idle, BeginLogin, Begin
  <2>4. CreatedIsStored'
    <3>1. /\ created' = created
          /\ \A a \in Addresses : users[a] \in Keys => users'[a] = users[a]
      BY <1>2, SMTT(30) DEF Login, Receive, Idle, BeginLogin, Begin
    <3> QED BY <1>c, <3>1, CreatedFrame, Zenon
  <2>5. EntitledInv'
    <3>1. c \notin entitled
      <4>1. Idle(c)
        BY <1>2 DEF Login, Receive
      <4> QED BY <4>1, SMTT(30) DEF Idle
    <3>2. /\ created' = created /\ step'[c] = "credentials" /\ form'[c] = f
          /\ entitled' \subseteq entitled \cup {c}
      BY <1>2, SMTT(30) DEF Login, Receive, Idle, BeginLogin, Begin
    <3>3. c \in entitled' => <<f.email.address, f.password.key>> \in created
      BY <1>2, <3>1, Zenon DEF Login
    <3>4. \A d \in Calls \ {c} : form'[d] = form[d] /\ step'[d] = step[d]
      BY <1>2, SMTT(30) DEF Login, Receive, Idle, BeginLogin, Begin
    <3> SUFFICES ASSUME NEW d \in entitled'
                 PROVE  /\ step'[d] \in {"credentials", "save"} /\ form'[d] # NoForm
                        /\ <<Address(d)', Key(d)'>> \in created'
      BY Zenon DEF EntitledInv
    <3>5. CASE d = c
      BY <3>2, <3>3, <3>5, FormFields, Zenon
    <3>6. CASE d # c
      <4>1. d \in entitled /\ d \in Calls
        BY <1>b, <3>2, <3>6, SMT
      <4> QED BY <1>b, <1>c, <3>2, <3>4, <3>6, <4>1, Zenon DEF EntitledInv
    <3> QED BY <3>5, <3>6
  <2> QED BY <2>1, <2>2, <2>3, <2>4, <2>5 DEF AccountsPart
<1>3. ASSUME NEW c \in Calls, NEW t \in Tokens, Refresh(c, t) PROVE AccountsPart'
  BY <1>3, SMTT(30) DEF CreatedIsStored, EntitledInv, Refresh, Idle, BeginRefresh, Begin
<1>4. ASSUME NEW c \in Calls, HashPassword(c) PROVE AccountsPart'
  <2>1. AccountsTypeOK'
    BY <1>4, SMTT(30) DEF HashPassword, Proceed, Finish
  <2>2. IndexInv'
    BY <1>4, SMTT(30) DEF HashPassword, Proceed, Finish
  <2>3. LoginInv'
    BY <1>4, SMTT(30) DEF HashPassword, Proceed, Finish
  <2>4. CreatedIsStored'
    <3>1. /\ created' = created
          /\ \A a \in Addresses : users[a] \in Keys => users'[a] = users[a]
      BY <1>4, SMTT(30) DEF HashPassword, Proceed, Finish
    <3> QED BY <1>c, <3>1, CreatedFrame, Zenon
  <2>5. EntitledInv'
    <3>1. c \notin entitled
      BY <1>4, SMTT(30) DEF HashPassword
    <3>2. /\ entitled' = entitled /\ created \subseteq created' /\ step' = step
          /\ \A d \in Calls \ {c} : form'[d] = form[d]
      BY <1>4, SMTT(30) DEF HashPassword, Proceed, Finish
    <3>3. \A d \in entitled' :
            form'[d] = form[d] /\ step'[d] \in {"credentials", "save"}
      BY <1>b, <3>1, <3>2, SMT
    <3> QED BY <1>c, <3>2, <3>3, EntitledFrame, Zenon
  <2> QED BY <2>1, <2>2, <2>3, <2>4, <2>5 DEF AccountsPart
<1>5. ASSUME NEW c \in Calls, InsertUser(c) PROVE AccountsPart'
  <2>1. AccountsTypeOK'
    BY <1>5, SMTT(30) DEF InsertUser, Proceed, Finish, AnswerError
  <2>2. IndexInv'
    BY <1>5, SMTT(30) DEF InsertUser, Proceed, Finish, AnswerError
  <2>3. LoginInv'
    BY <1>5, SMTT(30) DEF InsertUser, Proceed, Finish, AnswerError
  <2>4. CreatedIsStored'
    <3>1. /\ created' = created
          /\ \A a \in Addresses : users[a] \in Keys => users'[a] = users[a]
      BY <1>5, SMTT(30) DEF InsertUser, Proceed, Finish, AnswerError
    <3> QED BY <1>c, <3>1, CreatedFrame, Zenon
  <2>5. EntitledInv'
    <3>1. c \notin entitled
      BY <1>5, SMTT(30) DEF InsertUser
    <3>2. /\ entitled' = entitled /\ created \subseteq created' /\ step' = step
          /\ \A d \in Calls \ {c} : form'[d] = form[d]
      BY <1>5, SMTT(30) DEF InsertUser, Proceed, Finish, AnswerError
    <3>3. \A d \in entitled' :
            form'[d] = form[d] /\ step'[d] \in {"credentials", "save"}
      BY <1>b, <3>1, <3>2, SMT
    <3> QED BY <1>c, <3>2, <3>3, EntitledFrame, Zenon
  <2> QED BY <2>1, <2>2, <2>3, <2>4, <2>5 DEF AccountsPart
<1>6. ASSUME NEW c \in Calls, CommitUser(c) PROVE AccountsPart'
  <2>0. Address(c) \in Addresses /\ Key(c) \in Keys
    BY <1>6, SMTT(30) DEF CommitUser
  <2>1. AccountsTypeOK'
    <3>1. created' \in SUBSET (Addresses \X Keys)
      <4> HIDE DEF Address, Key
      <4>1. created' = created \/ created' = created \cup {<<Address(c), Key(c)>>}
        BY <1>6 DEF CommitUser
      <4>2. <<Address(c), Key(c)>> \in Addresses \X Keys
        BY <2>0
      <4> QED BY <1>c, <4>1, <4>2
    <3>2. users' \in [Addresses -> Keys \cup {NoKey}]
      BY <1>6, SMTT(30) DEF CommitUser, StoreUser
    <3>3. /\ holder' \in [Addresses -> Calls \cup {NoCall}] /\ entitled' = entitled
          /\ stage' \in [Calls -> Stages] /\ form' \in [Calls -> Forms \cup {NoForm}]
          /\ outcome' \in [Calls -> Outcomes]
      BY <1>6, SMTT(30) DEF CommitUser, EndInsert, Finish, AnswerError
    <3> QED BY <3>1, <3>2, <3>3
  <2>2. IndexInv'
    BY <1>6, SMTT(30) DEF CommitUser, EndInsert, StoreUser, Finish, AnswerError
  <2>3. LoginInv'
    BY <1>6, SMTT(30) DEF CommitUser, EndInsert, StoreUser, Finish, AnswerError
  <2>4. CreatedIsStored'
    <3> SUFFICES ASSUME NEW k \in created' PROVE users'[k[1]] = k[2]
      BY DEF CreatedIsStored
    <3>1. users[Address(c)] = NoKey /\ Address(c) \in Addresses /\ Key(c) \in Keys
      BY <1>6, SMTT(30) DEF CommitUser
    <3>2. \A a \in Addresses : users[a] \in Keys => users'[a] = users[a]
      BY <1>6, <3>1, SMTT(30) DEF CommitUser, StoreUser, Finish, AnswerError
    <3>3. CASE k \in created
      <4>1. k[1] \in Addresses /\ k[2] \in Keys /\ users[k[1]] = k[2]
        BY <1>c, <3>3 DEF CreatedIsStored
      <4> QED BY <4>1, <3>2
    <3>4. CASE k \notin created
      <4>1. k = <<Address(c), Key(c)>> /\ users'[Address(c)] = Key(c)
        BY <1>6, <3>1, <3>4, SMTT(30) DEF CommitUser, StoreUser, Finish, AnswerError
      <4> QED BY <4>1
    <3> QED BY <3>3, <3>4
  <2>5. EntitledInv'
    <3>1. c \notin entitled
      BY <1>6, SMTT(30) DEF CommitUser
    <3>2. /\ entitled' = entitled /\ created \subseteq created' /\ step' = step
          /\ \A d \in Calls \ {c} : form'[d] = form[d]
      BY <1>6, SMTT(30) DEF CommitUser, EndInsert, StoreUser, Finish, AnswerError
    <3>3. \A d \in entitled' :
            form'[d] = form[d] /\ step'[d] \in {"credentials", "save"}
      BY <1>b, <3>1, <3>2, SMT
    <3> QED BY <1>c, <3>2, <3>3, EntitledFrame, Zenon
  <2> QED BY <2>1, <2>2, <2>3, <2>4, <2>5 DEF AccountsPart
<1>7. ASSUME NEW c \in Calls, LoseRegistration(c) PROVE AccountsPart'
  <2>1. AccountsTypeOK'
    BY <1>7, SMTT(30) DEF LoseRegistration, EndInsert, StoreUser, Finish
  <2>2. IndexInv'
    BY <1>7, SMTT(30) DEF LoseRegistration, EndInsert, StoreUser, Finish
  <2>3. LoginInv'
    BY <1>7, SMTT(30) DEF LoseRegistration, EndInsert, StoreUser, Finish
  <2>4. CreatedIsStored'
    <3>1. /\ created' = created
          /\ \A a \in Addresses : users[a] \in Keys => users'[a] = users[a]
      BY <1>7, SMTT(30) DEF LoseRegistration, EndInsert, StoreUser, Finish
    <3> QED BY <1>c, <3>1, CreatedFrame, Zenon
  <2>5. EntitledInv'
    <3>1. c \notin entitled
      BY <1>7, SMTT(30) DEF LoseRegistration
    <3>2. /\ entitled' = entitled /\ created \subseteq created' /\ step' = step
          /\ \A d \in Calls \ {c} : form'[d] = form[d]
      BY <1>7, SMTT(30) DEF LoseRegistration, EndInsert, StoreUser, Finish
    <3>3. \A d \in entitled' :
            form'[d] = form[d] /\ step'[d] \in {"credentials", "save"}
      BY <1>b, <3>1, <3>2, SMT
    <3> QED BY <1>c, <3>2, <3>3, EntitledFrame, Zenon
  <2> QED BY <2>1, <2>2, <2>3, <2>4, <2>5 DEF AccountsPart
<1>8. ASSUME NEW c \in Calls, FindUserByEmail(c) PROVE AccountsPart'
  BY <1>8, SMTT(30) DEF CreatedIsStored, EntitledInv, FindUserByEmail, Proceed, Respond, EndCall
<1>9. ASSUME NEW c \in Calls, ComparePassword(c) PROVE AccountsPart'
  BY <1>9, SMTT(30) DEF CreatedIsStored, EntitledInv, ComparePassword, Proceed, Goto,
     Respond, EndCall
<1>10. ASSUME NEW c \in Calls, ServeRefresh(c) PROVE AccountsPart'
  <2>1. AccountsTypeOK'
    BY <1>10, SMTT(30) DEF ServeRefresh, accountVars, FindToken, RevokeExpired, RevokeToken,
     FindUser, Goto, Respond, ProgressInv
  <2>2. IndexInv'
    BY <1>10, SMTT(30) DEF ServeRefresh, accountVars, FindToken, RevokeExpired, RevokeToken,
     FindUser, Goto, Respond, ProgressInv
  <2>3. LoginInv'
    <3>1. step[c] \in {"find", "expire", "revoke", "user"} /\ UNCHANGED accountVars
      BY <1>10, SMTT(30) DEF ServeRefresh, FindToken, RevokeExpired, RevokeToken, FindUser
    <3>2. stage[c] = "none"
      BY <3>1, SMT
    <3>3. token[c] # NoToken
      BY <1>a, <3>1, SMTT(30) DEF ProgressInv
    <3>4. /\ step'[c] # "credentials" /\ token' = token
          /\ \A d \in Calls \ {c} : step'[d] = step[d]
      BY <1>10, SMTT(30) DEF ServeRefresh, FindToken, RevokeExpired, RevokeToken, FindUser,
         Goto, Respond
    <3> QED BY <3>1, <3>2, <3>3, <3>4, SMTT(30) DEF accountVars
  <2>4. CreatedIsStored' /\ EntitledInv'
    BY <1>c, <1>10, SMTT(30) DEF CreatedIsStored, EntitledInv, ServeRefresh, accountVars,
     FindToken, RevokeExpired, RevokeToken, FindUser, Goto, Respond, ProgressInv
  <2> QED BY <2>1, <2>2, <2>3, <2>4
<1>11. ASSUME NEW c \in Calls, IssueToken(c) PROVE AccountsPart'
  BY <1>11, SMTT(30) DEF CreatedIsStored, EntitledInv, IssueToken, SaveToken, Respond,
     RespondPair, EndCall
<1>12. ASSUME NEW c \in Calls, LoseSession(c) PROVE AccountsPart'
  BY <1>12, SMTT(30) DEF CreatedIsStored, EntitledInv, LoseSession, LoseCall, Respond, EndCall
<1>13. ASSUME NEW t \in Tokens, Age(t) PROVE AccountsPart'
  BY <1>13, SMTT(30) DEF CreatedIsStored, EntitledInv, Age, Expire, accountVars
<1>14. CASE UNCHANGED vars
  BY <1>14, SMTT(30) DEF CreatedIsStored, EntitledInv, vars, accountVars
<1> QED BY <1>1, <1>2, <1>3, <1>4, <1>5, <1>6, <1>7, <1>8, <1>9, <1>10, <1>11, <1>12,
           <1>13, <1>14 DEF Next, Handle

LEMMA AccountsInvStep == AccountsInv /\ [Next]_vars => AccountsInv'
<1> SUFFICES ASSUME AccountsInv, [Next]_vars PROVE AccountsInv'
  OBVIOUS
<1>1. AuthInv'
  BY AuthStep, AuthInvStep, Parts
<1>2. AccountsPart'
  BY AccountsPartStep
<1>3. (AuthInv /\ AccountsPart => AccountsInv)'
  BY DEF AccountsInv, AccountsPart, TypeOK, AccountsTypeOK, AuthInv
<1> QED BY <1>1, <1>2, <1>3

(* Whatever registrations, logins and refreshes run side by side, the      *)
(* tables, the index and the requests agree.                               *)
THEOREM AccountsInvariance == Spec => []AccountsInv
BY AccountsInvInit, AccountsInvStep, PTL DEF Spec

(* 201 is answered for what is stored, to one password per address.        *)
THEOREM CreatedStored == Spec => []CreatedIsStored
<1>1. AccountsInv => CreatedIsStored BY DEF AccountsInv
<1> QED BY <1>1, AccountsInvariance, PTL

(* The password of an account stays what it was registered with.           *)
THEOREM AccountsKept == Spec => AccountIsKept
<1> DEFINE Kept == \A a \in Addresses : users[a] # NoKey => users'[a] = users[a]
<1>1. AccountsInv /\ [Next]_vars => [Kept]_vars
  <2> SUFFICES ASSUME AccountsInv, Next PROVE Kept
    OBVIOUS
  <2> USE DEF AccountsInv, TypeOK, tableVars
  <2>1. ASSUME NEW c \in Calls, stage[c] = "commit",
               StoreUser(c) \/ UNCHANGED users
        PROVE  Kept
    <3>1. users[Address(c)] = NoKey
      BY <2>1, NoneAssumption, FormFields, SMT DEF IndexInv, LoginInv, Address
    <3> QED BY <2>1, <3>1, SMT DEF StoreUser
  <2>2. ASSUME NEW c \in Calls, Handle(c) PROVE Kept
    BY <2>1, <2>2, SMT DEF Handle, HashPassword, InsertUser, CommitUser, LoseRegistration,
       FindUserByEmail, ComparePassword, ServeRefresh, IssueToken, LoseSession, EndCall,
       accountVars
  <2>3. ASSUME NEW c \in Calls, NEW f \in Forms, Register(c, f) \/ Login(c, f) PROVE Kept
    BY <2>3 DEF Register, Login, Receive
  <2>4. ASSUME NEW c \in Calls, NEW t \in Tokens, Refresh(c, t) PROVE Kept
    BY <2>4 DEF Refresh
  <2>5. ASSUME NEW t \in Tokens, Age(t) PROVE Kept
    BY <2>5 DEF Age, accountVars
  <2> QED BY <2>2, <2>3, <2>4, <2>5 DEF Next
<1> QED BY <1>1, AccountsInvariance, PTL DEF Spec, AccountIsKept

(* Who was told that the account is created is not refused later.          *)
THEOREM CreatedNotRefused == Spec => CreatedCanSignIn
<1> DEFINE Admitted ==
      \A c \in Calls : c \in entitled /\ step'[c] = "none" => answer'[c] # "refused"
<1>1. AccountsInv /\ [Next]_vars => [Admitted]_vars
  <2> SUFFICES ASSUME AccountsInv, Next, NEW d \in Calls, d \in entitled, step'[d] = "none"
               PROVE  answer'[d] # "refused"
    OBVIOUS
  <2> USE DEF AccountsInv, TypeOK, AuthTypeOK
  <2>1. step[d] \in {"credentials", "save"} /\ form[d] # NoForm
    BY DEF EntitledInv
  <2>2. users[Address(d)] = Key(d) /\ Key(d) # NoKey
    <3> DEFINE k == <<Address(d), Key(d)>>
    <3>1. k \in created
      BY DEF EntitledInv
    <3>2. users[k[1]] = k[2]
      BY <3>1 DEF CreatedIsStored
    <3>3. Key(d) \in Keys
      BY <2>1, FormFields DEF Key
    <3> QED BY <3>2, <3>3, NoneAssumption
  <2>3. ASSUME NEW c \in Calls, Handle(c) PROVE answer'[d] # "refused"
    <3>1. CASE HashPassword(c) \/ InsertUser(c) \/ CommitUser(c) \/ LoseRegistration(c)
      BY <2>1, <3>1, SMT DEF HashPassword, InsertUser, CommitUser, LoseRegistration,
         authVars, callVars
    <3>2. CASE FindUserByEmail(c) \/ ComparePassword(c)
      BY <2>1, <2>2, <3>2, SMT DEF FindUserByEmail, ComparePassword, authVars, callVars,
         Respond, Goto
    <3>3. CASE ServeRefresh(c) \/ IssueToken(c) \/ LoseSession(c)
      BY <2>1, <3>3, SMT DEF ServeRefresh, IssueToken, LoseSession, FindToken, RevokeExpired,
         RevokeToken, FindUser, SaveToken, LoseCall, Respond, RespondPair, Goto
    <3> QED BY <2>3, <3>1, <3>2, <3>3 DEF Handle
  <2>4. ASSUME NEW c \in Calls, NEW f \in Forms, Register(c, f) \/ Login(c, f)
        PROVE  answer'[d] # "refused"
    BY <2>1, <2>4, SMT DEF Register, Login, BeginLogin, Begin, authVars, callVars
  <2>5. ASSUME NEW c \in Calls, NEW t \in Tokens, Refresh(c, t) PROVE answer'[d] # "refused"
    BY <2>1, <2>5, SMT DEF Refresh, BeginRefresh, Begin
  <2>6. ASSUME NEW t \in Tokens, Age(t) PROVE answer'[d] # "refused"
    BY <2>1, <2>6, SMT DEF Age, Expire, callVars
  <2> QED BY <2>3, <2>4, <2>5, <2>6 DEF Next
<1> QED BY <1>1, AccountsInvariance, PTL DEF Spec, CreatedCanSignIn

(* The service with its accounts implements the token service: what is     *)
(* proved of Auth holds of it.                                             *)
THEOREM ImplementsAuth == Spec => AuthSpec
<1>1. Init => AuthInit BY DEF Init
<1> QED BY <1>1, AuthStep, AccountsInvariance, PTL DEF Spec, AuthSpec
-----------------------------------------------------------------------------
(* A sign-in is answered with a pair only if the password in its payload is*)
(* the account's, at the moment of the answer and not only when it was     *)
(* compared, two statements of the database before.                        *)
PairMeansPassword ==
  [][\A c \in Calls :
       step[c] # "none" /\ token[c] = NoToken /\ step'[c] = "none" /\ answer'[c] = "pair" =>
         form[c] # NoForm /\ users[Address(c)] = Key(c)]_vars

(* Whatever registers, fails or is lost meanwhile.                         *)
THEOREM SignInNeedsPassword == Spec => PairMeansPassword
<1> DEFINE Known == \A c \in Calls :
                      step[c] # "none" /\ token[c] = NoToken
                      /\ step'[c] = "none" /\ answer'[c] = "pair" =>
                        form[c] # NoForm /\ users[Address(c)] = Key(c)
<1>1. AccountsInv /\ [Next]_vars => [Known]_vars
  <2> SUFFICES ASSUME AccountsInv, Next, NEW d \in Calls, step[d] # "none",
                      token[d] = NoToken, step'[d] = "none", answer'[d] = "pair"
               PROVE  form[d] # NoForm /\ users[Address(d)] = Key(d)
    OBVIOUS
  <2>1. AuthTypeOK
    BY DEF AccountsInv, AuthInv
  <2>2. [AuthNext]_authVars
    BY AuthStep
  <2>3. SaveToken(d)
    <3> USE <2>1 DEF AuthTypeOK
    <3>1. ASSUME NEW c \in Calls, Serve(c), c # d PROVE FALSE
      BY <3>1, SMT DEF Serve, CheckCredentials, FindToken, RevokeExpired, RevokeToken,
                       FindUser, SaveToken, LoseCall, Goto, Respond, RespondPair
    <3>2. ASSUME Serve(d) PROVE SaveToken(d)
      BY <3>2, SMT DEF Serve, CheckCredentials, FindToken, RevokeExpired, RevokeToken,
                       FindUser, LoseCall, Goto, Respond
    <3>3. ASSUME NEW c \in Calls, NEW t \in Tokens, BeginRefresh(c, t) PROVE FALSE
      BY <3>3, SMT DEF BeginRefresh, Begin
    <3>4. ASSUME NEW c \in Calls, BeginLogin(c) PROVE FALSE
      BY <3>4, SMT DEF BeginLogin, Begin
    <3>5. ASSUME NEW t \in Tokens, Expire(t) PROVE FALSE
      BY <3>5 DEF Expire, callVars
    <3>6. CASE UNCHANGED authVars
      BY <3>6 DEF authVars, callVars
    <3> QED BY <2>2, <3>1, <3>2, <3>3, <3>4, <3>5, <3>6 DEF AuthNext
  <2> QED BY <2>3 DEF SaveToken, AccountsInv, LoginInv
<1> QED BY <1>1, AccountsInvariance, PTL DEF Spec, PairMeansPassword

(* Nobody is answered 201 for an account that was there.                   *)
THEOREM FirstComeOnly == Spec => CreatedByOne
<1> DEFINE Creates == \A c \in Calls :
                        outcome[c] # "created" /\ outcome'[c] = "created" =>
                          users[Address(c)] = NoKey /\ users'[Address(c)] = Key(c)
<1>1. AccountsInv /\ [Next]_vars => [Creates]_vars
  <2> SUFFICES ASSUME AccountsInv, Next,
                      NEW d \in Calls, outcome[d] # "created", outcome'[d] = "created"
               PROVE  users[Address(d)] = NoKey /\ users'[Address(d)] = Key(d)
    OBVIOUS
  <2> USE DEF AccountsInv, TypeOK, requestVars, accountVars
  <2>1. CASE CommitUser(d)
    <3>1. Address(d) \in Addresses /\ holder[Address(d)] = d
      BY <2>1, FormFields, SMT DEF CommitUser, IndexInv, LoginInv, Address
    <3>2. users[Address(d)] = NoKey
      BY <3>1, NoneAssumption, SMT DEF IndexInv
    <3>3. StoreUser(d)
      BY <2>1, SMT DEF CommitUser, Finish, AnswerError
    <3> QED BY <3>1, <3>2, <3>3, SMT DEF StoreUser
  <2>2. ASSUME NEW c \in Calls, Handle(c), c # d \/ ~CommitUser(c) PROVE FALSE
    <3>1. CASE HashPassword(c) \/ InsertUser(c) \/ LoseRegistration(c)
      BY <3>1, SMT DEF HashPassword, InsertUser, LoseRegistration, Proceed, Finish, AnswerError
    <3>2. CASE CommitUser(c)
      BY <2>2, <3>2, SMT DEF CommitUser, Finish, AnswerError
    <3>3. CASE FindUserByEmail(c) \/ ComparePassword(c)
      BY <3>3, SMT DEF FindUserByEmail, ComparePassword, Proceed, EndCall
    <3>4. CASE ServeRefresh(c) \/ IssueToken(c) \/ LoseSession(c)
      BY <3>4, SMT DEF ServeRefresh, IssueToken, LoseSession, EndCall
    <3> QED BY <2>2, <3>1, <3>2, <3>3, <3>4 DEF Handle
  <2>3. ASSUME NEW c \in Calls, NEW f \in Forms, Register(c, f) \/ Login(c, f) PROVE FALSE
    BY <2>3, SMT DEF Register, Login, Receive
  <2>4. ASSUME NEW c \in Calls, NEW t \in Tokens, Refresh(c, t) PROVE FALSE
    BY <2>4, SMT DEF Refresh
  <2>5. ASSUME NEW t \in Tokens, Age(t) PROVE FALSE
    BY <2>5 DEF Age
  <2> QED BY <2>1, <2>2, <2>3, <2>4, <2>5 DEF Next
<1> QED BY <1>1, AccountsInvariance, PTL DEF Spec, CreatedByOne
=============================================================================
