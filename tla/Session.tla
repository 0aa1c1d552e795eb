------------------------------ MODULE Session -------------------------------
(***************************************************************************)
(* One browser with the dashboard open: authFetch, refreshAccessToken and  *)
(* logout of frontend/js/api.js, and the sign-in form of login.js, against *)
(* the service of module Auth.  The dashboard polls every unfinished job   *)
(* and uploads several files at once, so many authFetch calls run side by  *)
(* side; between two awaits JavaScript runs undisturbed.                   *)
(*                                                                         *)
(* A pair is named by its refresh token, so localStorage holds one name.   *)
(***************************************************************************)
EXTENDS Auth

VARIABLES
  page,      (* "login", "dashboard", or "leaving": logout has asked for   *)
             (* the login page, the scripts still run                      *)
  stored,    (* the pair in localStorage                                   *)
  fetch,     (* fetch[c]: what the browser side of call c awaits           *)
  held,      (* held[c]: the pair whose access token the request awaiting  *)
             (* its response carries                                       *)
  stalePairs,(* the pairs whose access token is past its 15 minutes        *)
  cutOff     (* a navigation cut off an exchange of the stored pair         *)

pageVars == <<page, stored, cutOff>>
fetchVars == <<fetch, held>>
vars == <<authVars, pageVars, fetchVars, stalePairs>>

Awaiting == {"idle", "signin", "response", "refresh", "retry"}

TypeOK ==
  /\ AuthTypeOK
  /\ page \in {"login", "dashboard", "leaving"}
  /\ stored \in Tokens \cup {NoToken}
  /\ fetch \in [Calls -> Awaiting]
  /\ held \in [Calls -> Tokens \cup {NoToken}]
  /\ stalePairs \in SUBSET Tokens
  /\ cutOff \in BOOLEAN

Init ==
  /\ AuthInit
  /\ page = "login"
  /\ stored = NoToken
  /\ fetch = [c \in Calls |-> "idle"]
  /\ held = [c \in Calls |-> NoToken]
  /\ stalePairs = {} /\ cutOff = FALSE

Await(c, what) ==
  /\ fetch' = [fetch EXCEPT ![c] = what]
  /\ held' = [held EXCEPT ![c] = NoToken]

SaveAuth(t) == stored' = t /\ cutOff' = FALSE

Logout == stored' = NoToken /\ cutOff' = FALSE /\ page' = "leaving"

(* The form is submitted; its button is disabled until the answer is in.   *)
SignIn(c) ==
  /\ page = "login" /\ fetch = [d \in Calls |-> "idle"]
  /\ BeginLogin(c)
  /\ Await(c, "signin")
  /\ UNCHANGED <<pageVars, stalePairs>>

(* The pair of call c has come in. *)
Arrived(c) == step[c] = "none" /\ answer[c] = "pair"

(* The pair is saved; or the answer is another one, or none: the connection*)
(* may break at any time, while the server goes on.                        *)
SignedIn(c) ==
  /\ fetch[c] = "signin"
  /\ \/ Arrived(c) /\ SaveAuth(given[c]) /\ page' = "dashboard"
     \/ UNCHANGED pageVars
  /\ Await(c, "idle")
  /\ UNCHANGED <<authVars, stalePairs>>

(* authFetch sends its request with the token stored at that moment; lanes *)
(* and polls do so after a logout too, until the page is gone.             *)
SendFetch(c) ==
  /\ page \in {"dashboard", "leaving"} /\ fetch[c] = "idle" /\ step[c] = "none"
  /\ fetch' = [fetch EXCEPT ![c] = "response"]
  /\ held' = [held EXCEPT ![c] = stored]
  /\ UNCHANGED <<authVars, pageVars, stalePairs>>

(* JWTAuth lets the request through, or the network fails.                 *)
Fetched(c) ==
  /\ fetch[c] = "response"
  /\ Await(c, "idle")
  /\ UNCHANGED <<authVars, pageVars, stalePairs>>

(* 401: refreshAccessToken starts with the refresh token stored by now;    *)
(* without one, logout.                                                    *)
Unauthorized(c) ==
  /\ fetch[c] = "response"
  /\ held[c] = NoToken \/ held[c] \in stalePairs
  /\ IF stored = NoToken
       THEN Logout /\ Await(c, "idle") /\ UNCHANGED authVars
       ELSE BeginRefresh(c, stored) /\ Await(c, "refresh") /\ UNCHANGED pageVars
  /\ UNCHANGED stalePairs

(* A failed refresh leaves the stored pair where it is.                    *)
RefreshedOrNot(c) ==
  /\ fetch[c] = "refresh"
  /\ \/ Arrived(c) /\ SaveAuth(given[c]) /\ UNCHANGED page /\ Await(c, "retry")
     \/ UNCHANGED pageVars /\ Await(c, "idle")
  /\ UNCHANGED <<authVars, stalePairs>>

(* The new pair is saved and the request sent once more; or, on any other  *)
(* answer and on none at all, logout.                                      *)
Refreshed(c) ==
  /\ fetch[c] = "refresh"
  /\ \/ Arrived(c) /\ SaveAuth(given[c]) /\ UNCHANGED page /\ Await(c, "retry")
     \/ Logout /\ Await(c, "idle")
  /\ UNCHANGED <<authVars, stalePairs>>

(* The second response is returned as it is.                               *)
Retried(c) ==
  /\ fetch[c] = "retry"
  /\ Await(c, "idle")
  /\ UNCHANGED <<authVars, pageVars, stalePairs>>

(* The logout button, while calls are on their way. *)
LogoutClicked ==
  /\ page = "dashboard"
  /\ Logout
  /\ UNCHANGED <<authVars, fetchVars, stalePairs>>

(* The scripts of a page end with it. *)
Forget ==
  /\ fetch' = [c \in Calls |-> "idle"]
  /\ held' = [c \in Calls |-> NoToken]

(* The browser shows another page, or the same one again: the calls are    *)
(* forgotten, their requests go on at the server.                          *)
Navigate(to) ==
  /\ page' = to
  /\ Forget
  /\ cutOff' = (cutOff \/ \E c \in Calls : fetch[c] = "refresh" /\ token[c] = stored)
  /\ UNCHANGED <<authVars, stored, stalePairs>>

(* What logout asked for. *)
Unload == page = "leaving" /\ Navigate("login")

(* The user reloads the page, or closes it and opens it again.             *)
Reload == page \in {"login", "dashboard"} /\ Navigate(page)

(* requireAuth lets the user in with whatever pair is stored.              *)
OpenDashboard == page = "login" /\ stored # NoToken /\ Navigate("dashboard")

(* Fifteen minutes pass, or seven days. *)
AgePair(t) ==
  /\ row[t] # "absent" /\ t \notin stalePairs
  /\ stalePairs' = stalePairs \cup {t}
  /\ UNCHANGED <<authVars, pageVars, fetchVars>>

ServerStep(c) == Serve(c) /\ UNCHANGED <<pageVars, fetchVars, stalePairs>>

AgeToken(t) ==
  /\ t \in stalePairs
  /\ Expire(t)
  /\ UNCHANGED <<pageVars, fetchVars, stalePairs>>

BrowserStep(c) ==
  \/ SignIn(c)
  \/ SignedIn(c)
  \/ SendFetch(c)
  \/ Fetched(c)
  \/ Unauthorized(c)
  \/ Refreshed(c)
  \/ Retried(c)

Next ==
  \/ \E c \in Calls : BrowserStep(c) \/ ServerStep(c)
  \/ LogoutClicked \/ Unload \/ Reload \/ OpenDashboard
  \/ \E t \in Tokens : AgePair(t) \/ AgeToken(t)

Spec == Init /\ [][Next]_vars
-----------------------------------------------------------------------------
(* The refresh token in localStorage is good, or a refresh that presents it*)
(* is still awaited, or its exchange was cut off by a navigation: however  *)
(* parallel calls and their answers are ordered, and whatever is saved     *)
(* after a logout, no answer saves a pair that another call has used up,   *)
(* and a used-up pair stays behind for no other reason.                    *)
StoredTokenIsUsable ==
  stored # NoToken =>
    \/ row[stored] = "live" \/ cutOff
    \/ \E c \in Calls : fetch[c] = "refresh" /\ token[c] = stored

(* The answer of c, a pair, is on its way to the browser.                  *)
HandsOver(c) == fetch[c] \in {"refresh", "signin"} /\ Arrived(c)

(* Such a pair is good, nobody else has it or presents it, the server's    *)
(* unfinished requests included: each pair is saved at most once.          *)
HandoverInv ==
  /\ \A c \in Calls : answer[c] = "pair" => given[c] # NoToken
  /\ \A c \in Calls : HandsOver(c) =>
       /\ row[given[c]] = "live" /\ given[c] \in issued /\ stored # given[c]
       /\ \A d \in Calls :
            /\ fetch[d] = "refresh" \/ step[d] # "none" => token[d] # given[c]
            /\ d # c /\ HandsOver(d) => given[d] # given[c]

(* The stored pair was issued; a request under way that presents it is     *)
(* awaited, unless a navigation cut it off.                                *)
StoreInv ==
  /\ \A c \in Calls : fetch[c] = "refresh" => token[c] # NoToken /\ row[token[c]] # "absent"
  /\ page = "dashboard" => stored # NoToken
  /\ stored # NoToken =>
       /\ stored \in issued
       /\ \A c \in Calls : step[c] # "none" /\ token[c] = stored => fetch[c] = "refresh" \/ cutOff

SessionInv == TypeOK /\ AuthInv /\ HandoverInv /\ StoreInv /\ StoredTokenIsUsable

(* api.js: authFetch "retries once on 401 after refreshing credentials".   *)
(* A pair in order is not thrown away because an older token is refused.   *)
GoodPairIsKept ==
  [][\A c \in Calls :
       /\ page = "dashboard" /\ page' = "leaving"
       /\ fetch[c] = "refresh" /\ fetch'[c] = "idle" /\ answer[c] = "refused"
       => ~(row[stored] = "live" /\ stored \notin stalePairs \cup expired)]_vars
=============================================================================
