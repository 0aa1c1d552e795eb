-------------------------------- MODULE Auth --------------------------------
(***************************************************************************)
(* POST /v1/auth/login and POST /v1/auth/refresh: the handlers and the     *)
(* service (api/internal/modules/auth) over table refresh_tokens, one      *)
(* statement of the repository per step.  Nothing wraps the statements of  *)
(* one request in a transaction, so those of concurrent requests mix.      *)
(***************************************************************************)
EXTENDS Naturals

CONSTANTS
  Tokens,    (* the refresh tokens generateRandomToken draws, all distinct *)
  Calls,     (* the clients' requests: each is one call at a time          *)
  NoToken

ASSUME NoTokenAssumption == NoToken \notin Tokens

VARIABLES
  row,       (* row[t]: t's row in table refresh_tokens                    *)
  expired,   (* the tokens past their expires_at                           *)
  parent,    (* parent[t]: the token t was issued in exchange for          *)
  issued,    (* the tokens a request was answered with                     *)
  step,      (* step[c]: the next statement of the handler of c's request  *)
  token,     (* token[c]: the refresh token the request presents           *)
  stale,     (* the requests under way whose token was revoked or expired  *)
             (* when they were sent                                        *)
  answer,    (* answer[c]: how the request ended                           *)
  given      (* given[c]: the refresh token of the pair it was answered    *)

rowVars == <<row, expired, parent, issued>>
callVars == <<step, token, stale, answer, given>>
authVars == <<rowVars, callVars>>

Steps == {"none", "credentials", "find", "expire", "revoke", "user", "save"}
Answers == {"none", "pair", "refused", "error", "lost"}

AuthTypeOK ==
  /\ row \in [Tokens -> {"absent", "live", "revoked"}]
  /\ expired \in SUBSET Tokens
  /\ parent \in [Tokens -> Tokens \cup {NoToken}]
  /\ issued \in SUBSET Tokens
  /\ step \in [Calls -> Steps]
  /\ token \in [Calls -> Tokens \cup {NoToken}]
  /\ stale \in SUBSET Calls
  /\ answer \in [Calls -> Answers]
  /\ given \in [Calls -> Tokens \cup {NoToken}]

NoCalls ==
  /\ step = [c \in Calls |-> "none"]
  /\ token = [c \in Calls |-> NoToken]
  /\ stale = {}
  /\ answer = [c \in Calls |-> "none"]
  /\ given = [c \in Calls |-> NoToken]

AuthInit ==
  /\ row = [t \in Tokens |-> "absent"]
  /\ expired = {}
  /\ parent = [t \in Tokens |-> NoToken]
  /\ issued = {}
  /\ NoCalls

Begin(c, first, t, isStale) ==
  /\ step[c] = "none"
  /\ step' = [step EXCEPT ![c] = first]
  /\ token' = [token EXCEPT ![c] = t]
  /\ stale' = IF isStale THEN stale \cup {c} ELSE stale
  /\ answer' = [answer EXCEPT ![c] = "none"]
  /\ given' = [given EXCEPT ![c] = NoToken]
  /\ UNCHANGED rowVars

Goto(c, next) ==
  /\ step' = [step EXCEPT ![c] = next]
  /\ UNCHANGED <<token, stale, answer, given>>

Respond(c, a) ==
  /\ step' = [step EXCEPT ![c] = "none"]
  /\ answer' = [answer EXCEPT ![c] = a]
  /\ stale' = stale \ {c}
  /\ UNCHANGED <<token, given>>

RespondPair(c, t) ==
  /\ step' = [step EXCEPT ![c] = "none"]
  /\ answer' = [answer EXCEPT ![c] = "pair"]
  /\ given' = [given EXCEPT ![c] = t]
  /\ issued' = issued \cup {t}
  /\ stale' = stale \ {c}
  /\ UNCHANGED token

(* Login: a request whose payload passed Bind and ValidateLoginRequest.    *)
BeginLogin(c) == Begin(c, "credentials", NoToken, FALSE)

(* Refresh: a request with a token that was issued.  Any other has no row, *)
(* is refused and changes nothing.                                         *)
BeginRefresh(c, t) ==
  /\ t \in issued
  /\ Begin(c, "find", t, row[t] = "revoked" \/ t \in expired)

(* FindUserByEmail, the bcrypt comparison and the access token.            *)
CheckCredentials(c) ==
  /\ step[c] = "credentials"
  /\ \/ Goto(c, "save")
     \/ \E a \in {"refused", "error"} : Respond(c, a)
  /\ UNCHANGED rowVars

(* The lookup without its "revoked = false".                               *)
FindAnyToken(c) ==
  /\ step[c] = "find"
  /\ LET t == token[c] IN
       \/ t \in expired /\ Goto(c, "expire")
       \/ t \notin expired /\ Goto(c, "revoke")
       \/ Respond(c, "error")
  /\ UNCHANGED rowVars

(* The lookup without the comparison with ExpiresAt.                       *)
FindUnexpiring(c) ==
  /\ step[c] = "find"
  /\ LET t == token[c] IN
       \/ row[t] # "live" /\ Respond(c, "refused")
       \/ row[t] = "live" /\ Goto(c, "revoke")
       \/ Respond(c, "error")
  /\ UNCHANGED rowVars

(* FindRefreshTokenByHash (token_hash = ? AND revoked = false), then the   *)
(* comparison of ExpiresAt with the clock.                                 *)
FindToken(c) ==
  /\ step[c] = "find"
  /\ LET t == token[c] IN
       \/ row[t] # "live" /\ Respond(c, "refused")
       \/ row[t] = "live" /\ t \in expired /\ Goto(c, "expire")
       \/ row[t] = "live" /\ t \notin expired /\ Goto(c, "revoke")
       \/ Respond(c, "error")
  /\ UNCHANGED rowVars

Revoke(t) == row' = [row EXCEPT ![t] = "revoked"]

(* An expired token is revoked too; whether that worked is ignored.        *)
RevokeExpired(c) ==
  /\ step[c] = "expire"
  /\ Revoke(token[c]) \/ UNCHANGED row
  /\ Respond(c, "refused")
  /\ UNCHANGED <<expired, parent, issued>>

(* The error of the revocation is ignored here as well.                    *)
RevokeIgnoringError(c) ==
  /\ step[c] = "revoke"
  /\ Revoke(token[c]) \/ UNCHANGED row
  /\ Goto(c, "user")
  /\ UNCHANGED <<expired, parent, issued>>

(* RevokeRefreshToken: UPDATE ... WHERE id = ?, which succeeds on a row    *)
(* that is revoked already.                                                *)
RevokeToken(c) ==
  /\ step[c] = "revoke"
  /\ \/ Revoke(token[c]) /\ Goto(c, "user")
     \/ Revoke(token[c]) /\ Respond(c, "error")
     \/ UNCHANGED row /\ Respond(c, "error")
  /\ UNCHANGED <<expired, parent, issued>>

(* FindUserByID and generateAccessToken.                                   *)
FindUser(c) ==
  /\ step[c] = "user"
  /\ Goto(c, "save") \/ Respond(c, "error")
  /\ UNCHANGED rowVars

(* An insert that overwrites the row of a token drawn before.              *)
SaveTokenUpsert(c) ==
  /\ step[c] = "save"
  /\ \/ \E t \in Tokens :
          /\ row' = [row EXCEPT ![t] = "live"]
          /\ parent' = [parent EXCEPT ![t] = token[c]]
          /\ RespondPair(c, t)
     \/ Respond(c, "error") /\ UNCHANGED <<row, parent, issued>>
  /\ UNCHANGED expired

(* createRefreshToken: the new row, and the pair as the answer; or an      *)
(* error, with the row inserted or not.                                    *)
SaveToken(c) ==
  /\ step[c] = "save"
  /\ \/ \E t \in Tokens :
          /\ row[t] = "absent"
          /\ row' = [row EXCEPT ![t] = "live"]
          /\ parent' = [parent EXCEPT ![t] = token[c]]
          /\ RespondPair(c, t) \/ (Respond(c, "error") /\ UNCHANGED issued)
     \/ Respond(c, "error") /\ UNCHANGED <<row, parent, issued>>
  /\ UNCHANGED expired

(* The API process that serves c dies, and with it the request; what it    *)
(* had written stays written.  A client that goes away meanwhile stops     *)
(* nothing: the statements do not take the request's context.              *)
LoseCall(c) ==
  /\ step[c] # "none"
  /\ Respond(c, "lost")
  /\ UNCHANGED rowVars

(* Seven days pass. *)
Expire(t) ==
  /\ row[t] # "absent" /\ t \notin expired
  /\ expired' = expired \cup {t}
  /\ UNCHANGED <<row, parent, issued, callVars>>

Serve(c) ==
  \/ CheckCredentials(c)
  \/ FindToken(c)
  \/ RevokeExpired(c)
  \/ RevokeToken(c)
  \/ FindUser(c)
  \/ SaveToken(c)
  \/ LoseCall(c)
-----------------------------------------------------------------------------
AuthNext ==
  \/ \E c \in Calls : BeginLogin(c) \/ Serve(c)
  \/ \E c \in Calls, t \in Tokens : BeginRefresh(c, t)
  \/ \E t \in Tokens : Expire(t)

AuthSpec == AuthInit /\ [][AuthNext]_authVars
-----------------------------------------------------------------------------
(* What is issued has a row.  Past the revocation, a request's token is    *)
(* revoked; a request whose token was stale from the start gets no further *)
(* than the lookup.                                                        *)
ProgressInv ==
  /\ \A t \in issued : row[t] # "absent"
  /\ \A c \in Calls :
      /\ step[c] # "none" => answer[c] = "none"
      /\ step[c] = "credentials" => token[c] = NoToken
      /\ step[c] \in {"find", "expire", "revoke", "user"} =>
           token[c] # NoToken /\ row[token[c]] # "absent"
      /\ step[c] \in {"user", "save"} /\ token[c] # NoToken =>
           row[token[c]] = "revoked"
      /\ c \in stale =>
           /\ step[c] \in {"find", "expire"}
           /\ row[token[c]] = "revoked" \/ token[c] \in expired

(* service.go: "The old refresh token is revoked (rotation)".  No row is   *)
(* inserted for a refresh unless the token it was sent with is revoked,    *)
(* although revocation and insertion are separate statements that may fail.*)
RotationRevokes ==
  \A t \in Tokens :
    row[t] # "absent" /\ parent[t] # NoToken => row[parent[t]] = "revoked"

AuthInv ==
  AuthTypeOK /\ ProgressInv /\ RotationRevokes

(* A refresh token that was revoked or past its seven days when the        *)
(* request was sent is never exchanged, whatever else goes on meanwhile.   *)
StaleTokenIsRefused ==
  [][\A c \in Calls :
       c \in stale /\ step'[c] = "none" => answer'[c] # "pair"]_authVars

(* Rotation means a token is good for one exchange.                        *)
ExchangedOnce ==
  \A s, t \in Tokens :
    s # t /\ parent[s] # NoToken => parent[s] # parent[t]

(* What is revoked stays revoked, and a token is never drawn twice.        *)
RevokedForGood ==
  [][\A t \in Tokens : row[t] = "revoked" => row'[t] = "revoked"]_authVars
=============================================================================
