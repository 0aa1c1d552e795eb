--------------------------- MODULE UploadService ----------------------------
(***************************************************************************)
(* POST /v1/image/upload: one handler goroutine per request, from the      *)
(* validations to the answer (api/internal/modules/file).  The handler     *)
(* calls the image storage, then publishes; it keeps no state of its own   *)
(* between requests and writes nothing to the database.                    *)
(***************************************************************************)
EXTENDS Broker, UploadValidation

CONSTANT Files   (* the files a request may carry *)

VARIABLES
  phase,   (* phase[u]: how far the handler of request u is                *)
  url      (* url[u]: the image URL the storage service returned           *)

apiVars == <<phase, url>>

(* What a 200 of the storage service may name as the image's URL; an answer*)
(* without one decodes to the empty string, and is taken for a URL.        *)
Urls == {"plain", "empty", "unescaped"}

InFlight == {"storing", "publishing", "answering"}
Phases == InFlight \cup {"idle", "accepted", "failed", "aborted"}

ApiTypeOK ==
  /\ phase \in [Jobs -> Phases]
  /\ url \in [Jobs -> Urls \cup {"none"}]

ApiInit ==
  /\ phase = [u \in Jobs |-> "idle"]
  /\ url = [u \in Jobs |-> "none"]

(* The body is put together with Sprintf: a URL with a character JSON would*)
(* have to escape makes it undecodable.                                    *)
MessageBody(u) == IF url[u] = "unescaped" THEN "invalid" ELSE "json"

(* UploadFileImage and the validations at the head of ProcessUpload.       *)
ReceiveUpload(u) ==
  /\ phase[u] = "idle"
  /\ \E file \in Files :
       phase' = [phase EXCEPT ![u] = IF AcceptsUpload(file) THEN "storing" ELSE "failed"]
  /\ UNCHANGED <<url, brokerVars>>

(* The handler goes on although the storage call failed.                   *)
StoreIgnoringError(u) ==
  /\ phase[u] = "storing"
  /\ \/ /\ \E x \in Urls : url' = [url EXCEPT ![u] = x]
        /\ phase' = [phase EXCEPT ![u] = "publishing"]
     \/ /\ phase' = [phase EXCEPT ![u] = "publishing"]
        /\ UNCHANGED url
  /\ UNCHANGED brokerVars

(* uploadToStorage: a URL, or an error (no API key, no answer, a status    *)
(* other than 200, a body that is not JSON) that ends the request.         *)
UploadToStorage(u) ==
  /\ phase[u] = "storing"
  /\ \/ /\ \E x \in Urls : url' = [url EXCEPT ![u] = x]
        /\ phase' = [phase EXCEPT ![u] = "publishing"]
     \/ /\ phase' = [phase EXCEPT ![u] = "failed"]
        /\ UNCHANGED url
  /\ UNCHANGED brokerVars

(* The message is handed to the broker but the handler answers an error.   *)
PublishThenFail(u) ==
  /\ phase[u] = "publishing"
  /\ \/ publisher = "open" /\ Enqueue(u, MessageBody(u))
     \/ publisher = "closed" /\ UNCHANGED brokerVars
  /\ phase' = [phase EXCEPT ![u] = "failed"]
  /\ UNCHANGED url

(* The error of a closed channel is dropped, and the request answered.     *)
PublishIgnoringClosed(u) ==
  /\ phase[u] = "publishing"
  /\ \/ publisher = "open" /\ Enqueue(u, MessageBody(u))
     \/ publisher = "closed" /\ UNCHANGED brokerVars
  /\ phase' = [phase EXCEPT ![u] = "answering"]
  /\ UNCHANGED url

(* Publish: on a closed channel an error, answered with 500; on an open one*)
(* a write to the socket, with no confirm from the broker.                 *)
PublishJob(u) ==
  /\ phase[u] = "publishing"
  /\ \/ /\ publisher = "open"
        /\ Enqueue(u, MessageBody(u))
        /\ phase' = [phase EXCEPT ![u] = "answering"]
     \/ /\ publisher = "closed"
        /\ phase' = [phase EXCEPT ![u] = "failed"]
        /\ UNCHANGED brokerVars
  /\ UNCHANGED url

(* The same write, on a connection that breaks before the frame leaves.    *)
PublishLost(u) ==
  /\ phase[u] = "publishing"
  /\ publisher = "open"
  /\ LoseInTransit(u, MessageBody(u))
  /\ phase' = [phase EXCEPT ![u] = "answering"]
  /\ UNCHANGED url

(* The 202 with the job id goes out, or finds the connection closed: by the*)
(* client, or by the server's WriteTimeout after a slow storage call.      *)
AnswerUpload(u) ==
  /\ phase[u] = "answering"
  /\ \E p \in {"accepted", "aborted"} : phase' = [phase EXCEPT ![u] = p]
  /\ UNCHANGED <<url, brokerVars>>

(* The API process dies and is started again: requests in flight are gone, *)
(* main dials the broker anew.                                             *)
RestartApi ==
  /\ phase' = [u \in Jobs |-> IF phase[u] \in InFlight THEN "aborted" ELSE phase[u]]
  /\ OpenPublisher
  /\ UNCHANGED url
=============================================================================
