----------------------------- MODULE AuthProofs -----------------------------
(***************************************************************************)
(* Proofs about Auth, for any number of tokens and concurrent requests.    *)
(***************************************************************************)
EXTENDS Auth, TLAPS

LEMMA AuthInvInit == AuthInit => AuthInv
BY NoTokenAssumption, SMT
   DEF AuthInit, AuthInv, AuthTypeOK, ProgressInv, RotationRevokes,
       NoCalls, Steps, Answers

LEMMA AuthInvStep == AuthInv /\ [AuthNext]_authVars => AuthInv'
<1> SUFFICES ASSUME AuthInv, [AuthNext]_authVars PROVE AuthInv'
  OBVIOUS
<1> USE NoTokenAssumption
    DEF AuthInv, AuthTypeOK, ProgressInv, RotationRevokes,
        Steps, Answers, rowVars, callVars
<1>1. ASSUME NEW c \in Calls, BeginLogin(c) PROVE AuthInv'
  BY <1>1, SMT DEF BeginLogin, Begin
<1>2. ASSUME NEW c \in Calls, NEW t \in Tokens, BeginRefresh(c, t) PROVE AuthInv'
  BY <1>2, SMT DEF BeginRefresh, Begin
<1>3. ASSUME NEW c \in Calls, CheckCredentials(c) PROVE AuthInv'
  BY <1>3, SMT DEF CheckCredentials, Goto, Respond
<1>4. ASSUME NEW c \in Calls, FindToken(c) PROVE AuthInv'
  BY <1>4, SMT DEF FindToken, Goto, Respond
<1>5. ASSUME NEW c \in Calls, RevokeExpired(c) PROVE AuthInv'
  BY <1>5, SMT DEF RevokeExpired, Revoke, Respond
<1>6. ASSUME NEW c \in Calls, RevokeToken(c) PROVE AuthInv'
  BY <1>6, SMT DEF RevokeToken, Revoke, Goto, Respond
<1>7. ASSUME NEW c \in Calls, FindUser(c) PROVE AuthInv'
  BY <1>7, SMT DEF FindUser, Goto, Respond
<1>8. ASSUME NEW c \in Calls, SaveToken(c) PROVE AuthInv'
  BY <1>8, SMT DEF SaveToken, Respond, RespondPair
<1>9. ASSUME NEW c \in Calls, LoseCall(c) PROVE AuthInv'
  BY <1>9, SMT DEF LoseCall, Respond
<1>10. ASSUME NEW t \in Tokens, Expire(t) PROVE AuthInv'
  BY <1>10, SMT DEF Expire
<1>11. CASE UNCHANGED authVars
  BY <1>11 DEF authVars
<1> QED BY <1>1, <1>2, <1>3, <1>4, <1>5, <1>6, <1>7, <1>8, <1>9, <1>10, <1>11
        DEF AuthNext, Serve

(* The invariant holds however many requests run at once.                  *)
THEOREM AuthInvariance == AuthSpec => []AuthInv
BY AuthInvInit, AuthInvStep, PTL DEF AuthSpec

(* A token that was revoked or expired when it was sent buys nothing.      *)
THEOREM StaleRefused == AuthSpec => StaleTokenIsRefused
<1> DEFINE Refused ==
      \A c \in Calls : c \in stale /\ step'[c] = "none" => answer'[c] # "pair"
<1>1. AuthInv /\ [AuthNext]_authVars => [Refused]_authVars
  <2> SUFFICES ASSUME AuthInv, AuthNext, NEW d \in Calls,
                      d \in stale, step'[d] = "none"
               PROVE  answer'[d] # "pair"
    OBVIOUS
  <2> USE DEF AuthInv, AuthTypeOK, ProgressInv
  <2>0. step[d] \in {"find", "expire"}
    OBVIOUS
  <2>1. ASSUME NEW c \in Calls, Serve(c) PROVE answer'[d] # "pair"
    BY <2>0, <2>1, SMT DEF Serve, CheckCredentials, FindToken, RevokeExpired, RevokeToken,
       FindUser, SaveToken, LoseCall, Goto, Respond, RespondPair
  <2>2. ASSUME NEW c \in Calls, NEW t \in Tokens, BeginRefresh(c, t) PROVE answer'[d] # "pair"
    BY <2>0, <2>2, SMT DEF BeginRefresh, Begin
  <2>3. ASSUME NEW c \in Calls, BeginLogin(c) PROVE answer'[d] # "pair"
    BY <2>0, <2>3, SMT DEF BeginLogin, Begin
  <2>4. ASSUME NEW t \in Tokens, Expire(t) PROVE answer'[d] # "pair"
    BY <2>0, <2>4, SMT DEF Expire, callVars
  <2> QED BY <2>1, <2>2, <2>3, <2>4 DEF AuthNext
<1> QED BY <1>1, AuthInvariance, PTL DEF AuthSpec, StaleTokenIsRefused

(* No refresh token is issued in exchange for one that stays valid.        *)
THEOREM Rotates == AuthSpec => []RotationRevokes
<1>1. AuthInv => RotationRevokes BY DEF AuthInv
<1> QED BY <1>1, AuthInvariance, PTL

(* Revocation is for good.                                                 *)
THEOREM RevocationIsFinal == AuthSpec => RevokedForGood
<1> DEFINE Kept == \A t \in Tokens : row[t] = "revoked" => row'[t] = "revoked"
<1>1. AuthInv /\ [AuthNext]_authVars => Kept
  <2> SUFFICES ASSUME AuthInv, [AuthNext]_authVars PROVE Kept OBVIOUS
  <2> USE DEF AuthInv, AuthTypeOK, rowVars
  <2>1. ASSUME NEW c \in Calls, Serve(c) PROVE Kept
    BY <2>1, SMT DEF Serve, CheckCredentials, FindToken, RevokeExpired, RevokeToken,
       FindUser, SaveToken, LoseCall, Revoke
  <2>2. ASSUME NEW c \in Calls, NEW t \in Tokens, BeginRefresh(c, t) PROVE Kept
    BY <2>2, SMT DEF BeginRefresh, Begin
  <2>3. ASSUME NEW c \in Calls, BeginLogin(c) PROVE Kept
    BY <2>3, SMT DEF BeginLogin, Begin
  <2>4. ASSUME NEW t \in Tokens, Expire(t) PROVE Kept
    BY <2>4, SMT DEF Expire
  <2>5. CASE UNCHANGED authVars
    BY <2>5, SMT DEF authVars
  <2> QED BY <2>1, <2>2, <2>3, <2>4, <2>5 DEF AuthNext
<1>2. AuthInv /\ [AuthNext]_authVars => [Kept]_authVars
  BY <1>1
<1> QED BY <1>2, AuthInvariance, PTL DEF AuthSpec, RevokedForGood
-----------------------------------------------------------------------------
(* ExchangedOnce does not hold of Auth, because two requests that present  *)
(* one token can both pass the lookup.  It takes exactly that: as long as  *)
(* no token is presented by two requests under way at once, however many   *)
(* run, whatever they fail at and whenever they are cut off, every token   *)
(* buys one pair.                                                          *)
NoSharedToken ==
  \A c, d \in Calls :
    step[c] # "none" /\ step[d] # "none" /\ token[c] = token[d] =>
      c = d \/ token[c] = NoToken

(* A token that a request may still exchange has not been exchanged.       *)
ExchangeInv ==
  /\ \A t \in Tokens : row[t] = "absent" => parent[t] = NoToken
  /\ \A c \in Calls, t \in Tokens :
       step[c] \in {"revoke", "user", "save"} /\ token[c] # NoToken => parent[t] # token[c]
  /\ ExchangedOnce

LEMMA ExchangeInvStep ==
  ASSUME AuthInv, NoSharedToken, ExchangeInv, [AuthNext]_authVars
  PROVE  ExchangeInv'
<1> USE NoTokenAssumption
    DEF AuthInv, AuthTypeOK, ExchangeInv, ExchangedOnce, rowVars, callVars
<1>1. ASSUME NEW c \in Calls, NEW first \in {"credentials", "find"}, NEW t, NEW b,
             Begin(c, first, t, b)
      PROVE  ExchangeInv'
  BY <1>1, SMT DEF Begin
<1>2. ASSUME NEW c \in Calls, CheckCredentials(c) PROVE ExchangeInv'
  BY <1>2, SMT DEF CheckCredentials, Goto, Respond, ProgressInv
<1>3. ASSUME NEW c \in Calls, FindToken(c) PROVE ExchangeInv'
  <2>1. /\ UNCHANGED <<row, parent, token>> /\ \A d \in Calls \ {c} : step'[d] = step[d]
        /\ step'[c] \in {"revoke", "user", "save"} => row[token[c]] = "live"
    BY <1>3, SMT DEF FindToken, Goto, Respond
  <2>2. row[token[c]] = "live" => \A t \in Tokens : parent[t] # token[c] \/ token[c] = NoToken
    BY SMT DEF RotationRevokes
  <2> QED BY <2>1, <2>2, SMT
<1>4. ASSUME NEW c \in Calls, RevokeExpired(c) \/ RevokeToken(c) PROVE ExchangeInv'
  BY <1>4, SMT DEF RevokeExpired, RevokeToken, Revoke, Goto, Respond, ProgressInv
<1>5. ASSUME NEW c \in Calls, FindUser(c) \/ LoseCall(c) PROVE ExchangeInv'
  BY <1>5, SMT DEF FindUser, LoseCall, Goto, Respond
<1>6. ASSUME NEW c \in Calls, SaveToken(c) PROVE ExchangeInv'
  <2>1. /\ token' = token /\ step[c] = "save" /\ step'[c] = "none"
        /\ \A d \in Calls \ {c} : step'[d] = step[d]
    BY <1>6, SMT DEF SaveToken, Respond, RespondPair
  <2>2. \/ UNCHANGED <<row, parent>>
        \/ \E t \in Tokens : /\ row[t] = "absent" /\ row' = [row EXCEPT ![t] = "live"]
                             /\ parent' = [parent EXCEPT ![t] = token[c]]
    BY <1>6 DEF SaveToken
  <2>3. CASE UNCHANGED <<row, parent>>
    BY <2>1, <2>3, SMT
  <2>4. ASSUME NEW t \in Tokens, row[t] = "absent", row' = [row EXCEPT ![t] = "live"],
               parent' = [parent EXCEPT ![t] = token[c]]
        PROVE  ExchangeInv'
    <3>1. \A s \in Tokens : row'[s] = "absent" => parent'[s] = NoToken
      BY <2>4, SMT
    <3>2. \A d \in Calls, s \in Tokens :
            step'[d] \in {"revoke", "user", "save"} /\ token'[d] # NoToken =>
              parent'[s] # token'[d]
      BY <2>1, <2>4, SMT DEF NoSharedToken
    <3>3. ExchangedOnce'
      BY <2>1, <2>4, SMT
    <3> QED BY <3>1, <3>2, <3>3
  <2> QED BY <2>2, <2>3, <2>4
<1>7. ASSUME NEW t \in Tokens, Expire(t) PROVE ExchangeInv'
  BY <1>7 DEF Expire
<1>8. CASE UNCHANGED authVars
  BY <1>8 DEF authVars
<1> QED BY <1>1, <1>2, <1>3, <1>4, <1>5, <1>6, <1>7, <1>8
        DEF AuthNext, Serve, BeginLogin, BeginRefresh

(* Rotation gives one pair for a token that is not presented twice at once.*)
THEOREM ExchangedOnceIfNotShared == AuthSpec /\ []NoSharedToken => []ExchangedOnce
<1>1. AuthInit => ExchangeInv
  BY SMT DEF AuthInit, NoCalls, ExchangeInv, ExchangedOnce
<1>2. AuthInv /\ NoSharedToken /\ ExchangeInv /\ [AuthNext]_authVars => ExchangeInv'
  BY ExchangeInvStep
<1>3. ExchangeInv => ExchangedOnce
  BY DEF ExchangeInv
<1> QED BY <1>1, <1>2, <1>3, AuthInvariance, PTL DEF AuthSpec
=============================================================================
