---------------------------- MODULE SessionProofs ----------------------------
(***************************************************************************)
(* Proofs about Session, for any number of refresh tokens and parallel     *)
(* calls.                                                                  *)
(***************************************************************************)
EXTENDS Session, AuthProofs

(* A step of the browser or of the server is one of the token service, or  *)
(* leaves it alone.                                                        *)
LEMMA SessionAuthStep == SessionInv /\ [Next]_vars => [AuthNext]_authVars
<1> SUFFICES ASSUME SessionInv, [Next]_vars PROVE [AuthNext]_authVars
  OBVIOUS
<1>1. ASSUME NEW c \in Calls, BrowserStep(c) PROVE [AuthNext]_authVars
  <2>1. CASE SignIn(c)
    BY <2>1 DEF SignIn, AuthNext
  <2>2. CASE Unauthorized(c)
    BY <2>2 DEF Unauthorized, AuthNext, SessionInv, TypeOK
  <2>3. CASE SignedIn(c) \/ SendFetch(c) \/ Fetched(c) \/ Refreshed(c) \/ Retried(c)
    BY <2>3 DEF SignedIn, SendFetch, Fetched, Refreshed, Retried
  <2> QED BY <1>1, <2>1, <2>2, <2>3 DEF BrowserStep
<1>2. ASSUME NEW c \in Calls, ServerStep(c) PROVE [AuthNext]_authVars
  BY <1>2 DEF ServerStep, AuthNext
<1>3. CASE LogoutClicked \/ Unload \/ Reload \/ OpenDashboard
  BY <1>3 DEF LogoutClicked, Unload, Reload, OpenDashboard, Navigate
<1>4. ASSUME NEW t \in Tokens, AgePair(t) \/ AgeToken(t) PROVE [AuthNext]_authVars
  BY <1>4 DEF AgePair, AgeToken, AuthNext
<1>5. CASE UNCHANGED vars
  BY <1>5 DEF vars
<1> QED BY <1>1, <1>2, <1>3, <1>4, <1>5 DEF Next

(* What the browser can see of a step of the server: it is about one call, *)
(* revokes at most the token that call presents, and answers only with a   *)
(* token that had no row before.                                           *)
LEMMA ServeFacts ==
  ASSUME AuthInv, NEW c \in Calls, Serve(c)
  PROVE  /\ step[c] # "none" /\ token' = token
         /\ \A d \in Calls \ {c} :
              step'[d] = step[d] /\ answer'[d] = answer[d] /\ given'[d] = given[d]
         /\ issued \subseteq issued'
         /\ \A t \in Tokens : row[t] # "absent" => row'[t] # "absent"
         /\ \A t \in Tokens : row[t] = "live" /\ row'[t] # "live" => t = token[c]
         /\ answer'[c] = "pair" =>
              \/ given'[c] = given[c] /\ answer[c] = "pair"
              \/ given'[c] \in Tokens
         /\ step'[c] = "none" /\ answer'[c] = "pair" =>
              given'[c] \in Tokens /\ row[given'[c]] = "absent" /\ row'[given'[c]] = "live"
              /\ given'[c] \in issued' /\ given'[c] \notin issued
<1>0. AuthTypeOK
  BY DEF AuthInv
<1>i. \A t \in issued : row[t] # "absent"
  BY DEF AuthInv, ProgressInv
<1> USE <1>0, <1>i DEF AuthTypeOK, Respond, RespondPair, Goto, Revoke, rowVars
<1> HIDE DEF AuthInv
<1>1. CASE CheckCredentials(c)
  BY <1>1, SMT DEF CheckCredentials
<1>2. CASE FindToken(c)
  BY <1>2, SMT DEF FindToken
<1>3. CASE RevokeExpired(c) \/ RevokeToken(c)
  BY <1>3, SMT DEF RevokeExpired, RevokeToken
<1>4. CASE FindUser(c) \/ LoseCall(c)
  BY <1>4, SMT DEF FindUser, LoseCall
<1>5. CASE SaveToken(c)
  BY <1>5, SMT DEF SaveToken
<1> QED BY <1>1, <1>2, <1>3, <1>4, <1>5 DEF Serve

(* The tokens the server's unfinished requests present have rows.          *)
LEMMA PresentedIsIssued ==
  ASSUME AuthInv, NEW c \in Calls, step[c] # "none", token[c] # NoToken
  PROVE  token[c] \in Tokens /\ row[token[c]] # "absent"
BY SMT DEF AuthInv, AuthTypeOK, ProgressInv, Steps

LEMMA SessionInvInit == Init => SessionInv
<1> SUFFICES ASSUME Init PROVE SessionInv
  OBVIOUS
<1>1. AuthInv
  BY AuthInvInit DEF Init
<1>2. TypeOK
  <2>1. cutOff \in BOOLEAN
    BY Zenon DEF Init
  <2> QED BY <1>1, <2>1, SMT DEF Init, TypeOK, AuthInv, Awaiting
<1> QED BY <1>1, <1>2, SMT
        DEF Init, AuthInit, NoCalls, SessionInv, HandoverInv, HandsOver, Arrived, StoreInv,
            StoredTokenIsUsable

LEMMA SessionInvStep == SessionInv /\ [Next]_vars => SessionInv'
<1> SUFFICES ASSUME SessionInv, [Next]_vars PROVE SessionInv'
  OBVIOUS
<1>a. AuthInv'
  BY SessionAuthStep, AuthInvStep DEF SessionInv
<1>b. AuthTypeOK /\ AuthTypeOK' /\ AuthInv
  BY <1>a DEF AuthInv, SessionInv
<1>c. \A c \in Calls : step[c] # "none" /\ token[c] # NoToken =>
        token[c] \in Tokens /\ row[token[c]] # "absent"
  BY <1>b, PresentedIsIssued
<1>d. cutOff' \in BOOLEAN
  <2>1. cutOff \in BOOLEAN
    BY DEF SessionInv, TypeOK
  <2> QED
    BY <2>1, Zenon DEF Next, BrowserStep, ServerStep, SignIn, SignedIn, SendFetch, Fetched,
       Unauthorized, Refreshed, Retried, LogoutClicked, Unload, Reload, OpenDashboard, Navigate,
       AgePair, AgeToken, SaveAuth, Logout, pageVars, vars
<1> DEFINE Rest == HandoverInv /\ StoreInv /\ StoredTokenIsUsable
<1> SUFFICES TypeOK' /\ Rest'
  BY <1>a DEF SessionInv
<1> USE NoTokenAssumption, <1>b, <1>c, <1>d
    DEF SessionInv, TypeOK, AuthTypeOK, HandoverInv, HandsOver, Arrived, StoreInv,
        StoredTokenIsUsable, Awaiting, Await, SaveAuth,
        Logout, Forget, pageVars, fetchVars, authVars, rowVars,
        callVars
<1>1. ASSUME NEW c \in Calls, ServerStep(c) PROVE TypeOK' /\ Rest'
  <2>1. Serve(c) /\ UNCHANGED <<pageVars, fetchVars, stalePairs>>
    BY <1>1 DEF ServerStep
  <2>2. TypeOK'
    BY <2>1, SMT
  <2>3. HandoverInv'
    BY <2>1, ServeFacts, SMT
  <2>4. StoreInv'
    BY <2>1, ServeFacts, SMT
  <2>5. StoredTokenIsUsable'
    BY <2>1, ServeFacts, SMT
  <2> QED BY <2>2, <2>3, <2>4, <2>5
<1>2. ASSUME NEW c \in Calls, SignIn(c) PROVE TypeOK' /\ Rest'
  BY <1>2, SMT DEF SignIn, BeginLogin, Begin
<1>3. ASSUME NEW c \in Calls, SignedIn(c) PROVE TypeOK' /\ Rest'
  BY <1>3, SMT DEF SignedIn
<1>4. ASSUME NEW c \in Calls, SendFetch(c) PROVE TypeOK' /\ Rest'
  BY <1>4, SMT DEF SendFetch
<1>5. ASSUME NEW c \in Calls, Fetched(c) PROVE TypeOK' /\ Rest'
  BY <1>5, SMT DEF Fetched
<1>6. ASSUME NEW c \in Calls, Unauthorized(c) PROVE TypeOK' /\ Rest'
  <2>1. CASE stored = NoToken
    BY <1>6, <2>1, SMT DEF Unauthorized
  <2>2. CASE stored # NoToken
    <3>1. /\ BeginRefresh(c, stored) /\ Await(c, "refresh") /\ fetch[c] = "response"
          /\ UNCHANGED <<pageVars, stalePairs>>
      BY <1>6, <2>2 DEF Unauthorized
    <3>2. stored \in issued /\ row[stored] # "absent"
      BY <2>2 DEF AuthInv, ProgressInv
    <3>3. TypeOK'
      BY <2>2, <3>1, SMT DEF BeginRefresh, Begin
    <3>4. HandoverInv'
      BY <2>2, <3>1, SMT DEF BeginRefresh, Begin
    <3>5. StoreInv' /\ StoredTokenIsUsable'
      BY <2>2, <3>1, <3>2, SMT DEF BeginRefresh, Begin
    <3> QED BY <3>3, <3>4, <3>5
  <2> QED BY <2>1, <2>2
<1>7. ASSUME NEW c \in Calls, Refreshed(c) PROVE TypeOK' /\ Rest'
  BY <1>7, SMT DEF Refreshed
<1>8. ASSUME NEW c \in Calls, Retried(c) PROVE TypeOK' /\ Rest'
  BY <1>8, SMT DEF Retried
<1>9. CASE LogoutClicked
  BY <1>9, SMT DEF LogoutClicked
<1>10. CASE Unload \/ Reload \/ OpenDashboard
  <2>1. PICK to \in {"login", "dashboard"} :
          Navigate(to) /\ (to = "dashboard" => stored # NoToken)
    BY <1>10, SMT DEF Unload, Reload, OpenDashboard
  <2>2. cutOff \/ (\E c \in Calls : fetch[c] = "refresh" /\ token[c] = stored) => cutOff'
    BY <2>1, Zenon DEF Navigate
  <2>3. UNCHANGED <<authVars, stored, stalePairs>> /\ page' = to /\ Forget
    BY <2>1 DEF Navigate
  <2>4. TypeOK'
    BY <2>3, SMT
  <2>5. HandoverInv'
    BY <2>3, SMT
  <2>6. StoreInv' /\ StoredTokenIsUsable'
    BY <2>1, <2>2, <2>3, SMT
  <2> QED BY <2>4, <2>5, <2>6
<1>11. ASSUME NEW t \in Tokens, AgePair(t) \/ AgeToken(t) PROVE TypeOK' /\ Rest'
  BY <1>11, SMT DEF AgePair, AgeToken, Expire
<1>12. CASE UNCHANGED vars
  BY <1>12, SMT DEF vars
<1> HIDE DEF Rest
<1> QED BY <1>1, <1>2, <1>3, <1>4, <1>5, <1>6, <1>7, <1>8, <1>9, <1>10, <1>11, <1>12
        DEF Next, BrowserStep

(* However many calls run in parallel and however their answers are        *)
(* ordered, lost or cut off.                                               *)
THEOREM SessionInvariance == Spec => []SessionInv
BY SessionInvInit, SessionInvStep, PTL DEF Spec

(* The refresh token in localStorage is good or accounted for.             *)
THEOREM StoredIsUsable == Spec => []StoredTokenIsUsable
<1>1. SessionInv => StoredTokenIsUsable BY DEF SessionInv
<1> QED BY <1>1, SessionInvariance, PTL

(* Browser and service together implement the token service: what is       *)
(* proved of Auth holds with this client too.                              *)
THEOREM ClientKeepsAuth == Spec => AuthSpec
<1>1. Init => AuthInit BY DEF Init
<1> QED BY <1>1, SessionAuthStep, SessionInvariance, PTL DEF Spec, AuthSpec

(* A refresh token that was revoked or expired when it was sent buys       *)
(* nothing, although the browser sends whatever it has stored.             *)
THEOREM SessionRefusesStale == Spec => StaleTokenIsRefused
BY ClientKeepsAuth, StaleRefused, PTL

(* Every pair the browser is given has the one before it revoked.          *)
THEOREM SessionRotates == Spec => []RotationRevokes
BY ClientKeepsAuth, Rotates, PTL

(* Reloads, logouts and repeated sign-ins do not revive a revoked token.   *)
THEOREM SessionRevokesForGood == Spec => RevokedForGood
BY ClientKeepsAuth, RevocationIsFinal, PTL
-----------------------------------------------------------------------------
(* GoodPairIsKept does not hold of Session, because calls that get a 401   *)
(* side by side refresh with the same pair.  It takes exactly that: as long*)
(* as the browser awaits one refresh at a time, a refusal is about the pair*)
(* that is stored, and that pair is no good.                               *)
OneRefresh ==
  \A c, d \in Calls : fetch[c] = "refresh" /\ fetch[d] = "refresh" => c = d

(* The refresh the browser awaits is about the pair it has stored, and is  *)
(* refused for a reason that lasts; signing in, it awaits nothing else.    *)
RefusalInv ==
  /\ page = "login" => \A c \in Calls : fetch[c] \in {"idle", "signin"}
  /\ \A c \in Calls : fetch[c] = "signin" =>
       page = "login" /\ \A d \in Calls \ {c} : fetch[d] = "idle"
  /\ \A c \in Calls : step[c] = "expire" => token[c] \in expired
  /\ \A c \in Calls : fetch[c] = "refresh" =>
       /\ page = "dashboard" => token[c] = stored
       /\ step[c] = "none" /\ answer[c] = "refused" =>
            row[token[c]] # "live" \/ token[c] \in expired

(* A refresh is refused by the lookup or for its age, and never again good.*)
LEMMA RefusedIsNoGood ==
  ASSUME AuthInv, NEW c \in Calls, Serve(c), token[c] # NoToken, step'[c] = "none",
         answer'[c] = "refused", step[c] = "expire" => token[c] \in expired
  PROVE  row'[token[c]] # "live" \/ token[c] \in expired'
<1> USE DEF AuthInv, AuthTypeOK, ProgressInv, Respond, RespondPair, Goto, rowVars
<1>1. CASE CheckCredentials(c)
  BY <1>1, SMT DEF CheckCredentials
<1>2. CASE FindToken(c)
  BY <1>2, SMT DEF FindToken
<1>3. CASE RevokeExpired(c)
  BY <1>3, SMT DEF RevokeExpired, Revoke
<1>4. CASE RevokeToken(c) \/ FindUser(c) \/ SaveToken(c) \/ LoseCall(c)
  BY <1>4, SMT DEF RevokeToken, FindUser, SaveToken, LoseCall, Revoke
<1> QED BY <1>1, <1>2, <1>3, <1>4 DEF Serve

(* What the lookup saw is still so when the request is answered.           *)
LEMMA ExpiryStep ==
  ASSUME AuthInv, [AuthNext]_authVars, NEW c \in Calls, step'[c] = "expire",
         step[c] = "expire" => token[c] \in expired
  PROVE  token'[c] \in expired'
<1> USE DEF AuthInv, AuthTypeOK, rowVars, callVars
<1>1. ASSUME NEW d \in Calls, NEW t, NEW b, Begin(d, "credentials", t, b) \/ Begin(d, "find", t, b)
      PROVE  token'[c] \in expired'
  BY <1>1, SMT DEF Begin
<1>2. ASSUME NEW d \in Calls, Serve(d) PROVE token'[c] \in expired'
  BY <1>2, SMT DEF Serve, CheckCredentials, FindToken, RevokeExpired, RevokeToken, FindUser,
                   SaveToken, LoseCall, Goto, Respond, RespondPair
<1>3. ASSUME NEW t \in Tokens, Expire(t) PROVE token'[c] \in expired'
  BY <1>3, SMT DEF Expire
<1>4. CASE UNCHANGED authVars
  BY <1>4 DEF authVars
<1> QED BY <1>1, <1>2, <1>3, <1>4 DEF AuthNext, BeginLogin, BeginRefresh

LEMMA RefusalInvStep ==
  ASSUME SessionInv, OneRefresh, RefusalInv, [Next]_vars
  PROVE  RefusalInv'
<1> DEFINE Calm == /\ page = "login" => \A c \in Calls : fetch[c] \in {"idle", "signin"}
                   /\ \A c \in Calls : fetch[c] = "signin" =>
                        page = "login" /\ \A d \in Calls \ {c} : fetch[d] = "idle"
           Fit == \A c \in Calls : fetch[c] = "refresh" =>
                    /\ page = "dashboard" => token[c] = stored
                    /\ step[c] = "none" /\ answer[c] = "refused" =>
                         row[token[c]] # "live" \/ token[c] \in expired
<1>1. \A c \in Calls : step'[c] = "expire" => token'[c] \in expired'
  BY SessionAuthStep, ExpiryStep DEF SessionInv, RefusalInv
<1> SUFFICES Calm' /\ Fit'
  BY <1>1 DEF RefusalInv
<1>2. AuthTypeOK /\ AuthInv
  BY DEF SessionInv, AuthInv
<1> USE <1>2, NoTokenAssumption
    DEF SessionInv, TypeOK, StoreInv, AuthTypeOK, Arrived, OneRefresh, RefusalInv, Awaiting, Await,
        SaveAuth, Logout, Forget, pageVars, fetchVars, authVars, rowVars, callVars
<1>3. ASSUME NEW c \in Calls, ServerStep(c) PROVE Calm' /\ Fit'
  <2>1. Serve(c) /\ UNCHANGED <<pageVars, fetchVars, stalePairs>>
    BY <1>3 DEF ServerStep
  <2>2. /\ token' = token /\ step[c] # "none"
        /\ \A d \in Calls \ {c} : step'[d] = step[d] /\ answer'[d] = answer[d]
    BY <2>1, ServeFacts
  <2>3. \A t \in Tokens : (row[t] = "revoked" => row'[t] = "revoked")
                        /\ (row[t] # "absent" => row'[t] # "absent")
    BY <2>1, SMT DEF Serve, CheckCredentials, FindToken, RevokeExpired, RevokeToken, FindUser,
                     SaveToken, LoseCall, Revoke
  <2>4. expired' = expired
    BY <2>1, SMT DEF Serve, CheckCredentials, FindToken, RevokeExpired, RevokeToken, FindUser,
                     SaveToken, LoseCall
  <2>5. token[c] # NoToken /\ step'[c] = "none" /\ answer'[c] = "refused" =>
          row'[token[c]] # "live" \/ token[c] \in expired'
    BY <2>1, RefusedIsNoGood
  <2>6. \A d \in Calls : fetch[d] = "refresh" => token[d] \in Tokens /\ row[token[d]] # "absent"
    BY SMT
  <2> QED BY <2>1, <2>2, <2>3, <2>4, <2>5, <2>6, SMT
<1>4. ASSUME NEW c \in Calls, SignIn(c) PROVE Calm' /\ Fit'
  BY <1>4, SMT DEF SignIn, BeginLogin, Begin
<1>5. ASSUME NEW c \in Calls, SignedIn(c) PROVE Calm' /\ Fit'
  BY <1>5, SMT DEF SignedIn
<1>6. ASSUME NEW c \in Calls, SendFetch(c) PROVE Calm' /\ Fit'
  BY <1>6, SMT DEF SendFetch
<1>7. ASSUME NEW c \in Calls, Fetched(c) PROVE Calm' /\ Fit'
  BY <1>7, SMT DEF Fetched
<1>8. ASSUME NEW c \in Calls, Unauthorized(c) PROVE Calm' /\ Fit'
  BY <1>8, SMT DEF Unauthorized, BeginRefresh, Begin
<1>9. ASSUME NEW c \in Calls, Refreshed(c) PROVE Calm' /\ Fit'
  BY <1>9, SMT DEF Refreshed
<1>10. ASSUME NEW c \in Calls, Retried(c) PROVE Calm' /\ Fit'
  BY <1>10, SMT DEF Retried
<1>11. CASE LogoutClicked
  BY <1>11, SMT DEF LogoutClicked
<1>12. CASE Unload \/ Reload \/ OpenDashboard
  <2>1. Forget /\ UNCHANGED authVars
    BY <1>12 DEF Unload, Reload, OpenDashboard, Navigate
  <2> QED BY <2>1, SMT
<1>13. ASSUME NEW t \in Tokens, AgePair(t) \/ AgeToken(t) PROVE Calm' /\ Fit'
  BY <1>13, SMT DEF AgePair, AgeToken, Expire
<1>14. CASE UNCHANGED vars
  BY <1>14, SMT DEF vars
<1> HIDE DEF Calm, Fit
<1> QED BY <1>3, <1>4, <1>5, <1>6, <1>7, <1>8, <1>9, <1>10, <1>11, <1>12, <1>13, <1>14
        DEF Next, BrowserStep

(* A browser that refreshes once at a time never throws away a good pair.  *)
THEOREM GoodPairKeptByOneRefresh == Spec /\ []OneRefresh => GoodPairIsKept
<1> DEFINE Kept == \A c \in Calls :
                     /\ page = "dashboard" /\ page' = "leaving"
                     /\ fetch[c] = "refresh" /\ fetch'[c] = "idle" /\ answer[c] = "refused"
                     => ~(row[stored] = "live" /\ stored \notin stalePairs \cup expired)
<1>1. Init => RefusalInv
  BY SMT DEF Init, AuthInit, NoCalls, RefusalInv
<1>2. SessionInv /\ OneRefresh /\ RefusalInv /\ [Next]_vars => RefusalInv'
  BY RefusalInvStep
<1>3. SessionInv /\ RefusalInv /\ [Next]_vars => [Kept]_vars
  <2> SUFFICES ASSUME SessionInv, RefusalInv, Next, NEW c \in Calls,
                      page = "dashboard", page' = "leaving",
                      fetch[c] = "refresh", fetch'[c] = "idle", answer[c] = "refused"
               PROVE  ~(row[stored] = "live" /\ stored \notin stalePairs \cup expired)
    OBVIOUS
  <2>1. CASE step[c] = "none"
    BY <2>1 DEF RefusalInv
  <2>2. step[c] = "none"
    BY DEF SessionInv, AuthInv, ProgressInv
  <2> QED BY <2>1, <2>2
<1> QED BY <1>1, <1>2, <1>3, SessionInvariance, PTL DEF Spec, GoodPairIsKept
=============================================================================
