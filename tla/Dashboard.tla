----------------------------- MODULE Dashboard ------------------------------
(***************************************************************************)
(* The dashboard page (frontend/js/dashboard.js): files are picked, sent   *)
(* in a batch by a few lanes, listed, and polled by a timer that does not  *)
(* wait for the previous poll.  JavaScript runs undisturbed between two    *)
(* awaits, so an action is the code between two of them.                   *)
(*                                                                         *)
(* An image stands for one upload and, once the server has accepted it,    *)
(* for the job with the id it answered.                                    *)
(***************************************************************************)
EXTENDS FiniteSets, Naturals

CONSTANTS
  Images,                  (* the uploads the user makes                   *)
  Polls,                   (* polls that may be under way at the same time *)
  MAX_UPLOAD_CONCURRENCY

ASSUME ConcurrencyAssumption == MAX_UPLOAD_CONCURRENCY \in Nat \ {0}
ASSUME PollsAssumption == Polls # {}

VARIABLES
  selected,    (* selectedFiles                                            *)
  waiting,     (* the batch's files no lane has taken yet                  *)
  shown,       (* shown[i]: the status in the map of jobs                  *)
  downloaded,  (* downloaded[i]: the flag of that name                     *)
  timer,       (* pollTimerId is not null                                  *)
  fetch,       (* fetch[p][i]: what poll p's fetchJobStatus(i) awaits      *)
  server       (* server[i]: what GET /v1/jobs/i would answer by now       *)

pageVars == <<selected, waiting, shown>>
vars == <<pageVars, downloaded, timer, fetch, server>>

Unfinished == {"queued", "pending"}
Shown == Unfinished \cup {"none", "uploading", "failed", "completed"}
Replies == {"pending", "completed"}

TypeOK ==
  /\ selected \in SUBSET Images
  /\ waiting \in SUBSET Images
  /\ shown \in [Images -> Shown]
  /\ downloaded \in [Images -> BOOLEAN]
  /\ timer \in BOOLEAN
  /\ fetch \in [Polls -> [Images -> Replies \cup {"idle", "sent", "saving"}]]
  /\ server \in [Images -> Replies \cup {"absent"}]

Init ==
  /\ selected = {} /\ waiting = {}
  /\ shown = [i \in Images |-> "none"]
  /\ downloaded = [i \in Images |-> FALSE]
  /\ timer = FALSE
  /\ fetch = [p \in Polls |-> [i \in Images |-> "idle"]]
  /\ server = [i \in Images |-> "absent"]

Uploading == {i \in Images : shown[i] = "uploading"}
Pending == {i \in Images : shown[i] \in Unfinished}
Free(p) == \A i \in Images : fetch[p][i] = "idle"

AddFile(i) ==
  /\ shown[i] = "none" /\ i \notin selected \cup waiting
  /\ selected' = selected \cup {i}
  /\ UNCHANGED <<waiting, shown, downloaded, timer, fetch, server>>

RemoveFile(i) ==
  /\ i \in selected
  /\ selected' = selected \ {i}
  /\ UNCHANGED <<waiting, shown, downloaded, timer, fetch, server>>

(* The button is disabled until every lane of the last batch has ended.    *)
UploadAll ==
  /\ selected # {} /\ waiting = {} /\ Uploading = {}
  /\ \E first \in SUBSET selected :
       /\ Cardinality(first) =
            IF Cardinality(selected) < MAX_UPLOAD_CONCURRENCY
              THEN Cardinality(selected) ELSE MAX_UPLOAD_CONCURRENCY
       /\ shown' = [i \in Images |-> IF i \in first THEN "uploading" ELSE shown[i]]
       /\ waiting' = selected \ first
  /\ selected' = {}
  /\ UNCHANGED <<downloaded, timer, fetch, server>>

(* i's upload is over; its lane takes the next file, or ends.              *)
NextUpload(i, s) ==
  \/ /\ waiting = {}
     /\ shown' = [shown EXCEPT ![i] = s]
     /\ UNCHANGED waiting
  \/ \E next \in waiting :
       /\ shown' = [shown EXCEPT ![i] = s, ![next] = "uploading"]
       /\ waiting' = waiting \ {next}

(* pollPendingJobs up to its await: one fetchJobStatus per id in ids.      *)
SendPoll(p, ids) ==
  /\ Free(p)
  /\ fetch' = [fetch EXCEPT ![p] = [i \in Images |-> IF i \in ids THEN "sent" ELSE "idle"]]

(* Polling is started by the first accepted upload only.                   *)
EnsurePollingForFirst(i) ==
  IF timer \/ Pending # {} \/ \E j \in Images : shown[j] = "completed"
    THEN UNCHANGED <<timer, fetch>>
    ELSE timer' = TRUE /\ \E p \in Polls : SendPoll(p, Pending \cup {i})

(* ensurePolling: the timer is set and the first poll sent at once.        *)
EnsurePolling(i) ==
  IF timer THEN UNCHANGED <<timer, fetch>>
           ELSE timer' = TRUE /\ \E p \in Polls : SendPoll(p, Pending \cup {i})

(* uploadSingleFile's request is answered with a job id; or it is not.     *)
UploadAccepted(i) ==
  /\ shown[i] = "uploading"
  /\ NextUpload(i, "queued")
  /\ EnsurePolling(i)
  /\ UNCHANGED <<selected, downloaded, server>>

UploadFailed(i) ==
  /\ shown[i] = "uploading"
  /\ NextUpload(i, "failed")
  /\ UNCHANGED <<selected, downloaded, timer, fetch, server>>

(* The timer fires: pollPendingJobs, which stops it when nothing is left.  *)
Tick(p) ==
  /\ timer
  /\ IF Pending = {} THEN timer' = FALSE /\ UNCHANGED fetch
                     ELSE SendPoll(p, Pending) /\ UNCHANGED timer
  /\ UNCHANGED <<pageVars, downloaded, server>>

Await(p, i, what) == fetch' = [fetch EXCEPT ![p][i] = what]

(* The server reads the job's row and answers; the answer is on its way.   *)
ReadStatus(p, i) ==
  /\ fetch[p][i] = "sent" /\ server[i] # "absent"
  /\ Await(p, i, server[i])
  /\ UNCHANGED <<pageVars, downloaded, timer, server>>

(* No answer, or one that is not a job: a 404 while there is no row yet,   *)
(* a 500, a body that is not JSON.                                         *)
FetchFails(p, i) ==
  /\ fetch[p][i] = "sent"
  /\ Await(p, i, "idle")
  /\ UNCHANGED <<pageVars, downloaded, timer, server>>

(* The result is saved only if the job was listed as pending before.       *)
ApplyAfterPendingOnly(p, i) ==
  /\ fetch[p][i] \in Replies
  /\ shown' = [shown EXCEPT ![i] = fetch[p][i]]
  /\ Await(p, i, IF shown[i] = "pending" /\ fetch[p][i] = "completed" /\ ~downloaded[i]
                   THEN "saving" ELSE "idle")
  /\ UNCHANGED <<selected, waiting, downloaded, timer, server>>

(* The rest of fetchJobStatus: the entry is overwritten with whatever this *)
(* answer says, however old, and a first "completed" starts the download.  *)
ApplyStatus(p, i) ==
  /\ fetch[p][i] \in Replies
  /\ shown' = [shown EXCEPT ![i] = fetch[p][i]]
  /\ Await(p, i, IF shown[i] # "completed" /\ fetch[p][i] = "completed" /\ ~downloaded[i]
                   THEN "saving" ELSE "idle")
  /\ UNCHANGED <<selected, waiting, downloaded, timer, server>>

(* autoDownload ends, having saved the annotated image or skipped it.      *)
Downloaded(p, i) ==
  /\ fetch[p][i] = "saving"
  /\ downloaded' = [downloaded EXCEPT ![i] = TRUE]
  /\ Await(p, i, "idle")
  /\ UNCHANGED <<pageVars, timer, server>>

(* The backend at work on a job whose upload has reached it.               *)
Process(i) ==
  /\ shown[i] \notin {"none", "failed"}
  /\ \/ server[i] = "absent" /\ server' = [server EXCEPT ![i] = "pending"]
     \/ server[i] = "pending" /\ server' = [server EXCEPT ![i] = "completed"]
  /\ UNCHANGED <<pageVars, downloaded, timer, fetch>>

Settle(p, i) == ReadStatus(p, i) \/ FetchFails(p, i)

Next ==
  \/ \E i \in Images :
       \/ AddFile(i) \/ RemoveFile(i)
       \/ UploadAccepted(i) \/ UploadFailed(i)
       \/ Process(i)
  \/ UploadAll
  \/ \E p \in Polls : Tick(p)
  \/ \E p \in Polls, i \in Images :
       Settle(p, i) \/ ApplyStatus(p, i) \/ Downloaded(p, i)

Spec == Init /\ [][Next]_vars
-----------------------------------------------------------------------------
(* Fairness.  The timer fires while it is set; a request ends, one way or  *)
(* another, and what awaits it runs; an image is loaded or refused.  The   *)
(* last is an assumption about the network: requests do not fail for ever. *)
FairSpec ==
  /\ Spec
  /\ WF_vars(\E p \in Polls : Tick(p))
  /\ \A p \in Polls, i \in Images :
       /\ WF_vars(Settle(p, i))
       /\ WF_vars(ApplyStatus(p, i))
       /\ WF_vars(Downloaded(p, i))
       /\ SF_vars(ReadStatus(p, i))
-----------------------------------------------------------------------------
Saved(i) == downloaded[i] \/ \E p \in Polls : fetch[p][i] = "saving"

(* Polling stops only when the result of every accepted job has been seen  *)
(* and its download begun.  A late answer may set a finished job back to   *)
(* "pending" after the timer is cleared, and nothing repairs that; but a   *)
(* job the page still shows as unfinished then is one already dealt with.  *)
StoppedMeansSaved == ~timer => \A i \in Pending : Saved(i)

(* A job shown as completed has its download behind it or under way, in    *)
(* whatever order the answers of overlapping polls come in.                *)
CompletedIsSaved == \A i \in Images : shown[i] = "completed" => Saved(i)

(* Status requests are made for accepted jobs only.                        *)
FetchInv ==
  \A p \in Polls, i \in Images :
    fetch[p][i] # "idle" => shown[i] \in Unfinished \cup {"completed"}

(* A file not yet taken by a lane has no row in the list.                  *)
BatchInv ==
  /\ selected \cap waiting = {}
  /\ \A i \in selected \cup waiting : shown[i] = "none"

DashboardInv ==
  /\ TypeOK /\ BatchInv /\ FetchInv
  /\ StoppedMeansSaved /\ CompletedIsSaved

(* The result of an accepted job that completes is handed to autoDownload, *)
(* which saves it unless the image cannot be loaded: lost and failing      *)
(* polls, overlapping ones, and a timer stopped and started again by other *)
(* uploads do not leave it behind.                                         *)
ResultIsSaved ==
  \A i \in Images :
    (shown[i] \in Unfinished /\ server[i] = "completed") ~> downloaded[i]
=============================================================================
