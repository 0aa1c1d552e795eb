--------------------------- MODULE DashboardProofs --------------------------
(***************************************************************************)
(* DashboardInv is an invariant of Dashboard for every number of uploads,  *)
(* lanes and overlapping polls.                                            *)
(***************************************************************************)
EXTENDS Dashboard, TLAPS

(* The page starts empty, with no timer and no request. *)
LEMMA InitInv == Init => DashboardInv
<1> SUFFICES ASSUME Init PROVE DashboardInv
  OBVIOUS
<1>1. TypeOK
  BY DEF Init, TypeOK, Shown, Unfinished, Replies
<1>2. BatchInv /\ FetchInv
  BY DEF Init, BatchInv, FetchInv
<1>3. StoppedMeansSaved /\ CompletedIsSaved
  BY DEF Init, StoppedMeansSaved, CompletedIsSaved, Pending, Unfinished
<1> QED BY <1>1, <1>2, <1>3 DEF DashboardInv

(* A poll is sent for some of the images. *)
LEMMA SendPollType ==
  ASSUME TypeOK, NEW p \in Polls, NEW ids, SendPoll(p, ids)
  PROVE fetch' \in [Polls -> [Images -> Replies \cup {"idle", "sent", "saving"}]]
<1>1. [i \in Images |-> IF i \in ids THEN "sent" ELSE "idle"]
        \in [Images -> Replies \cup {"idle", "sent", "saving"}]
  OBVIOUS
<1> QED BY <1>1 DEF SendPoll, TypeOK

(* The types are kept by every step. *)
LEMMA TypeStep == TypeOK /\ [Next]_vars => TypeOK'
<1> SUFFICES ASSUME TypeOK, [Next]_vars PROVE TypeOK'
  OBVIOUS
<1> USE DEF TypeOK, Shown, Unfinished, Replies, pageVars
<1>1. ASSUME NEW i \in Images, AddFile(i) \/ RemoveFile(i) PROVE TypeOK'
  BY <1>1 DEF AddFile, RemoveFile
<1>2. ASSUME NEW i \in Images, UploadAccepted(i) PROVE TypeOK'
  <2>1. waiting' \in SUBSET Images /\ shown' \in [Images -> Shown]
    BY <1>2 DEF UploadAccepted, NextUpload
  <2>2. timer' \in BOOLEAN
        /\ fetch' \in [Polls -> [Images -> Replies \cup {"idle", "sent", "saving"}]]
    BY <1>2, SendPollType DEF UploadAccepted, EnsurePolling
  <2> QED BY <1>2, <2>1, <2>2 DEF UploadAccepted
<1>3. ASSUME NEW i \in Images, UploadFailed(i) PROVE TypeOK'
  BY <1>3 DEF UploadFailed, NextUpload
<1>4. ASSUME NEW i \in Images, Process(i) PROVE TypeOK'
  BY <1>4 DEF Process
<1>5. ASSUME UploadAll PROVE TypeOK'
  BY <1>5 DEF UploadAll
<1>6. ASSUME NEW p \in Polls, Tick(p) PROVE TypeOK'
  BY <1>6, SendPollType DEF Tick
<1>7. ASSUME NEW p \in Polls, NEW i \in Images, Settle(p, i) PROVE TypeOK'
  BY <1>7 DEF Settle, ReadStatus, FetchFails, Await
<1>8. ASSUME NEW p \in Polls, NEW i \in Images, ApplyStatus(p, i) PROVE TypeOK'
  BY <1>8 DEF ApplyStatus, Await
<1>9. ASSUME NEW p \in Polls, NEW i \in Images, Downloaded(p, i) PROVE TypeOK'
  BY <1>9 DEF Downloaded, Await
<1>10. ASSUME UNCHANGED vars PROVE TypeOK'
  BY <1>10 DEF vars
<1> QED
  BY <1>1, <1>2, <1>3, <1>4, <1>5, <1>6, <1>7, <1>8, <1>9, <1>10 DEF Next

(* Requests that change neither a row nor a download keep the invariant.   *)
LEMMA SettleStep ==
  ASSUME DashboardInv, NEW p \in Polls, NEW i \in Images, Settle(p, i)
  PROVE (FetchInv /\ StoppedMeansSaved /\ CompletedIsSaved)'
<1> USE DEF DashboardInv, TypeOK, Settle, ReadStatus, FetchFails, Await, pageVars
<1>1. FetchInv'
  BY DEF FetchInv
<1>2. ASSUME NEW k \in Images, Saved(k) PROVE Saved(k)'
  BY <1>2 DEF Saved
<1>3. StoppedMeansSaved' /\ CompletedIsSaved'
  BY <1>2 DEF StoppedMeansSaved, CompletedIsSaved, Pending
<1> QED BY <1>1, <1>3

(* The answer of a poll: either the row was finished before, and its       *)
(* download is behind it, or a "completed" starts one.                     *)
LEMMA ApplyStep ==
  ASSUME DashboardInv, NEW p \in Polls, NEW i \in Images, ApplyStatus(p, i)
  PROVE (FetchInv /\ StoppedMeansSaved /\ CompletedIsSaved)'
<1> USE DEF DashboardInv, TypeOK
<1>0. /\ fetch[p][i] \in Replies
      /\ shown' = [shown EXCEPT ![i] = fetch[p][i]]
      /\ UNCHANGED <<downloaded, timer>>
      /\ \E what \in {"saving", "idle"} : fetch' = [fetch EXCEPT ![p][i] = what]
  BY DEF ApplyStatus, Await
<1>1. FetchInv'
  BY <1>0 DEF FetchInv, Unfinished, Replies
<1>2. ASSUME NEW k \in Images, Saved(k) PROVE Saved(k)'
  BY <1>0, <1>2 DEF Saved, Replies
<1>3. shown[i] \in Unfinished \cup {"completed"}
  BY <1>0 DEF FetchInv, Replies
<1>4. CompletedIsSaved'
  <2> SUFFICES ASSUME NEW k \in Images, shown'[k] = "completed" PROVE Saved(k)'
    BY DEF CompletedIsSaved
  <2>1. CASE shown[k] = "completed"
    BY <2>1, <1>2 DEF CompletedIsSaved
  <2>2. CASE shown[k] # "completed"
    <3>1. k = i /\ fetch[p][i] = "completed" /\ shown[i] # "completed"
      BY <2>2, <1>0
    <3>2. downloaded[i] \/ fetch' = [fetch EXCEPT ![p][i] = "saving"]
      BY <3>1 DEF ApplyStatus, Await
    <3> QED BY <3>1, <3>2, <1>0 DEF Saved
  <2> QED BY <2>1, <2>2
<1>5. StoppedMeansSaved'
  <2> SUFFICES ASSUME ~timer', NEW k \in Images, shown'[k] \in Unfinished
               PROVE Saved(k)'
    BY DEF StoppedMeansSaved, Pending
  <2>1. shown[k] \in Unfinished \cup {"completed"}
    BY <1>0, <1>3
  <2>2. Saved(k)
    BY <1>0, <2>1 DEF StoppedMeansSaved, CompletedIsSaved, Pending
  <2> QED BY <2>2, <1>2
<1> QED BY <1>1, <1>4, <1>5

(* The end of an upload, and what its lane does next, leave every accepted *)
(* row alone; a new one comes with the timer running.                      *)
LEMMA NextUploadStep ==
  ASSUME DashboardInv, NEW i \in Images, NEW s \in {"queued", "failed"},
         shown[i] = "uploading", NextUpload(i, s), UNCHANGED selected
  PROVE /\ BatchInv'
        /\ \A k \in Images :
             shown'[k] \in {shown[k], s, "uploading"}
             /\ (shown[k] \in Unfinished \cup {"completed"} => shown'[k] = shown[k])
             /\ (shown'[k] \in Unfinished /\ s = "failed" => shown'[k] = shown[k])
<1> USE DEF DashboardInv, TypeOK, BatchInv, Unfinished
<1>1. CASE waiting = {} /\ shown' = [shown EXCEPT ![i] = s] /\ UNCHANGED waiting
  BY <1>1
<1>2. CASE \E next \in waiting :
             /\ shown' = [shown EXCEPT ![i] = s, ![next] = "uploading"]
             /\ waiting' = waiting \ {next}
  BY <1>2
<1> QED BY <1>1, <1>2 DEF NextUpload

LEMMA UploadFailedStep ==
  ASSUME DashboardInv, NEW i \in Images, UploadFailed(i)
  PROVE (BatchInv /\ FetchInv /\ StoppedMeansSaved /\ CompletedIsSaved)'
<1> USE DEF DashboardInv, TypeOK
<1>1. UNCHANGED <<downloaded, timer, fetch>>
  BY DEF UploadFailed
<1>2. BatchInv'
      /\ \A k \in Images :
           /\ shown'[k] \in {shown[k], "failed", "uploading"}
           /\ shown[k] \in Unfinished \cup {"completed"} => shown'[k] = shown[k]
           /\ shown'[k] \in Unfinished => shown'[k] = shown[k]
  BY NextUploadStep DEF UploadFailed
<1>3. FetchInv'
  BY <1>1, <1>2 DEF FetchInv
<1>4. StoppedMeansSaved' /\ CompletedIsSaved'
  BY <1>1, <1>2 DEF StoppedMeansSaved, CompletedIsSaved, Pending, Saved
<1> QED BY <1>2, <1>3, <1>4

LEMMA UploadAcceptedStep ==
  ASSUME DashboardInv, NEW i \in Images, UploadAccepted(i)
  PROVE (BatchInv /\ FetchInv /\ StoppedMeansSaved /\ CompletedIsSaved)'
<1> USE DEF DashboardInv, TypeOK
<1>1. shown[i] = "uploading" /\ UNCHANGED downloaded
  BY DEF UploadAccepted
<1>2. BatchInv'
      /\ \A k \in Images :
           /\ shown'[k] \in {shown[k], "queued", "uploading"}
           /\ shown[k] \in Unfinished \cup {"completed"} => shown'[k] = shown[k]
  BY NextUploadStep DEF UploadAccepted
<1>3. timer'
  BY DEF UploadAccepted, EnsurePolling
<1>4. shown'[i] = "queued"
  <2>1. \A k \in waiting : k # i
    BY <1>1 DEF BatchInv
  <2> QED BY <2>1 DEF UploadAccepted, NextUpload
<1>5. \A p \in Polls, k \in Images :
        fetch'[p][k] # "idle" => fetch[p][k] # "idle" \/ k \in Pending \cup {i}
  <2>1. CASE UNCHANGED fetch
    BY <2>1
  <2>2. CASE \E p \in Polls : SendPoll(p, Pending \cup {i})
    BY <2>2 DEF SendPoll
  <2> QED BY <2>1, <2>2 DEF UploadAccepted, EnsurePolling
<1>6. FetchInv'
  BY <1>2, <1>4, <1>5 DEF FetchInv, Pending, Unfinished
<1>7. \A p \in Polls, k \in Images : fetch[p][k] = "saving" => fetch'[p][k] = "saving"
  <2>1. CASE UNCHANGED fetch
    BY <2>1
  <2>2. CASE \E p \in Polls : SendPoll(p, Pending \cup {i})
    BY <2>2 DEF SendPoll, Free
  <2> QED BY <2>1, <2>2 DEF UploadAccepted, EnsurePolling
<1>8. CompletedIsSaved'
  BY <1>1, <1>2, <1>7 DEF CompletedIsSaved, Saved
<1>9. StoppedMeansSaved'
  BY <1>3 DEF StoppedMeansSaved
<1> QED BY <1>2, <1>6, <1>8, <1>9

(* The timer fires. *)
LEMMA TickStep ==
  ASSUME DashboardInv, NEW p \in Polls, Tick(p)
  PROVE (BatchInv /\ FetchInv /\ StoppedMeansSaved /\ CompletedIsSaved)'
<1> USE DEF DashboardInv, TypeOK
<1>1. UNCHANGED <<selected, waiting, shown, downloaded>> /\ timer
  BY DEF Tick, pageVars
<1>2. CASE Pending = {} /\ timer' = FALSE /\ UNCHANGED fetch
  BY <1>1, <1>2 DEF BatchInv, FetchInv, StoppedMeansSaved, CompletedIsSaved, Pending, Saved
<1>3. CASE SendPoll(p, Pending) /\ UNCHANGED timer
  <2>1. BatchInv' /\ StoppedMeansSaved'
    BY <1>1, <1>3 DEF BatchInv, StoppedMeansSaved
  <2>2. FetchInv'
    BY <1>1, <1>3 DEF FetchInv, SendPoll, Pending
  <2>3. \A k \in Images : Saved(k) => Saved(k)'
    BY <1>1, <1>3 DEF Saved, SendPoll, Free
  <2>4. CompletedIsSaved'
    BY <1>1, <2>3 DEF CompletedIsSaved
  <2> QED BY <2>1, <2>2, <2>4
<1> QED BY <1>2, <1>3 DEF Tick

(* Files are picked, dropped from the selection, and sent as a batch.      *)
LEMMA BatchStep ==
  ASSUME DashboardInv, UploadAll \/ \E i \in Images : AddFile(i) \/ RemoveFile(i)
  PROVE (BatchInv /\ FetchInv /\ StoppedMeansSaved /\ CompletedIsSaved)'
<1> USE DEF DashboardInv, TypeOK
<1>1. BatchInv'
  BY DEF BatchInv, UploadAll, AddFile, RemoveFile
<1>2. \A k \in Images :
        shown'[k] = shown[k] \/ (shown[k] = "none" /\ shown'[k] = "uploading")
  BY DEF BatchInv, UploadAll, AddFile, RemoveFile
<1>3. UNCHANGED <<downloaded, timer, fetch>>
  BY DEF UploadAll, AddFile, RemoveFile
<1>4. FetchInv'
  BY <1>2, <1>3 DEF FetchInv, Unfinished
<1>5. StoppedMeansSaved' /\ CompletedIsSaved'
  BY <1>2, <1>3 DEF StoppedMeansSaved, CompletedIsSaved, Pending, Saved, Unfinished
<1> QED BY <1>1, <1>4, <1>5

(* autoDownload ends. *)
LEMMA DownloadedStep ==
  ASSUME DashboardInv, NEW p \in Polls, NEW i \in Images, Downloaded(p, i)
  PROVE (FetchInv /\ StoppedMeansSaved /\ CompletedIsSaved)'
<1> USE DEF DashboardInv, TypeOK, Downloaded, Await, pageVars
<1>1. FetchInv'
  BY DEF FetchInv
<1>2. ASSUME NEW k \in Images, Saved(k) PROVE Saved(k)'
  BY <1>2 DEF Saved
<1>3. StoppedMeansSaved' /\ CompletedIsSaved'
  BY <1>2 DEF StoppedMeansSaved, CompletedIsSaved, Pending
<1> QED BY <1>1, <1>3

LEMMA NextInv == DashboardInv /\ [Next]_vars => DashboardInv'
<1> SUFFICES ASSUME DashboardInv, [Next]_vars PROVE DashboardInv'
  OBVIOUS
<1>1. TypeOK'
  BY TypeStep DEF DashboardInv
<1>2. ASSUME UNCHANGED <<selected, waiting, shown>> PROVE BatchInv'
  BY <1>2 DEF DashboardInv, BatchInv
<1>3. ASSUME UploadAll \/ \E i \in Images : AddFile(i) \/ RemoveFile(i)
      PROVE DashboardInv'
  BY <1>1, <1>3, BatchStep DEF DashboardInv
<1>4. ASSUME NEW i \in Images, UploadAccepted(i) \/ UploadFailed(i)
      PROVE DashboardInv'
  BY <1>1, <1>4, UploadAcceptedStep, UploadFailedStep DEF DashboardInv
<1>5. ASSUME NEW i \in Images, Process(i) PROVE DashboardInv'
  BY <1>1, <1>5 DEF Process, pageVars, DashboardInv, BatchInv, FetchInv,
                    StoppedMeansSaved, CompletedIsSaved, Pending, Saved
<1>6. ASSUME NEW p \in Polls, Tick(p) PROVE DashboardInv'
  BY <1>1, <1>6, TickStep DEF DashboardInv
<1>7. ASSUME NEW p \in Polls, NEW i \in Images, Settle(p, i) PROVE DashboardInv'
  <2>1. UNCHANGED <<selected, waiting, shown>>
    BY <1>7 DEF Settle, ReadStatus, FetchFails, pageVars
  <2> QED BY <1>1, <1>2, <1>7, <2>1, SettleStep DEF DashboardInv
<1>8. ASSUME NEW p \in Polls, NEW i \in Images, ApplyStatus(p, i) PROVE DashboardInv'
  <2>1. BatchInv'
    BY <1>8 DEF ApplyStatus, DashboardInv, TypeOK, BatchInv, FetchInv, Replies, Unfinished
  <2> QED BY <1>1, <1>8, <2>1, ApplyStep DEF DashboardInv
<1>9. ASSUME NEW p \in Polls, NEW i \in Images, Downloaded(p, i) PROVE DashboardInv'
  <2>1. UNCHANGED <<selected, waiting, shown>>
    BY <1>9 DEF Downloaded, pageVars
  <2> QED BY <1>1, <1>2, <1>9, <2>1, DownloadedStep DEF DashboardInv
<1>10. ASSUME UNCHANGED vars PROVE DashboardInv'
  BY <1>1, <1>10 DEF vars, pageVars, DashboardInv, BatchInv, FetchInv,
                     StoppedMeansSaved, CompletedIsSaved, Pending, Saved
<1> QED
  BY <1>3, <1>4, <1>5, <1>6, <1>7, <1>8, <1>9, <1>10 DEF Next

(* Whatever the answers of overlapping polls do, the four parts of the     *)
(* invariant hold in every reachable state.                                *)
THEOREM DashboardInvariance == Spec => []DashboardInv
BY InitInv, NextInv, PTL DEF Spec

(* pollPendingJobs clears its timer only when every result was dealt with. *)
THEOREM StoppedSaved == Spec => []StoppedMeansSaved
<1>1. DashboardInv => StoppedMeansSaved
  BY DEF DashboardInv
<1> QED BY <1>1, DashboardInvariance, PTL

(* A row shown as completed has had its download, or has it under way.     *)
THEOREM CompletedSaved == Spec => []CompletedIsSaved
<1>1. DashboardInv => CompletedIsSaved
  BY DEF DashboardInv
<1> QED BY <1>1, DashboardInvariance, PTL
-----------------------------------------------------------------------------
(* What the page knows of a job, and what is on its way to it, the server  *)
(* has reached.                                                            *)
Learned(i) == shown[i] = "completed" \/ downloaded[i]
              \/ \E p \in Polls : fetch[p][i] \in {"completed", "saving"}

NothingInvented == \A i \in Images : Learned(i) => server[i] = "completed"

LEMMA LearnedStep ==
  ASSUME DashboardInv, NothingInvented, [Next]_vars
  PROVE  NothingInvented'
<1> SUFFICES ASSUME NEW i \in Images, Learned(i)' PROVE server'[i] = "completed"
  BY DEF NothingInvented
<1> USE DEF DashboardInv, TypeOK, Learned, NothingInvented, pageVars
<1>1. ASSUME server' = server, Learned(i) PROVE server'[i] = "completed"
  BY <1>1
<1>2. ASSUME NEW k \in Images, AddFile(k) \/ RemoveFile(k) PROVE Learned(i) /\ server' = server
  BY <1>2 DEF AddFile, RemoveFile
<1>3. ASSUME NEW k \in Images, UploadAccepted(k) PROVE Learned(i) /\ server' = server
  <2>1. shown'[i] = "completed" => shown[i] = "completed"
    BY <1>3, NextUploadStep DEF UploadAccepted
  <2>2. \A p \in Polls : fetch'[p][i] \in {"completed", "saving"} => fetch'[p][i] = fetch[p][i]
    BY <1>3 DEF UploadAccepted, EnsurePolling, SendPoll
  <2> QED BY <1>3, <2>1, <2>2 DEF UploadAccepted
<1>4. ASSUME NEW k \in Images, UploadFailed(k) PROVE Learned(i) /\ server' = server
  BY <1>4, NextUploadStep DEF UploadFailed
<1>5. ASSUME UploadAll PROVE Learned(i) /\ server' = server
  BY <1>5 DEF UploadAll
<1>6. ASSUME NEW p \in Polls, Tick(p) PROVE Learned(i) /\ server' = server
  BY <1>6 DEF Tick, SendPoll
<1>7. ASSUME NEW p \in Polls, NEW k \in Images, ReadStatus(p, k) PROVE server'[i] = "completed"
  <2>1. UNCHANGED <<shown, downloaded, server>>
    BY <1>7 DEF ReadStatus
  <2>2. \A q \in Polls : fetch'[q][i] = fetch[q][i] \/ fetch'[q][i] = server[i]
    BY <1>7 DEF ReadStatus, Await
  <2>3. server[i] # "saving"
    BY DEF Replies
  <2>4. CASE Learned(i)
    BY <2>1, <2>4
  <2>5. CASE ~Learned(i)
    BY <2>1, <2>2, <2>3, <2>5
  <2> QED BY <2>4, <2>5
<1>8. ASSUME NEW p \in Polls, NEW k \in Images,
             FetchFails(p, k) \/ ApplyStatus(p, k) \/ Downloaded(p, k)
      PROVE  Learned(i) /\ server' = server
  BY <1>8 DEF FetchFails, ApplyStatus, Downloaded, Await, Replies
<1>9. ASSUME NEW k \in Images, Process(k) PROVE server'[i] = "completed"
  BY <1>9 DEF Process
<1>10. CASE UNCHANGED vars
  BY <1>10 DEF vars
<1> QED BY <1>1, <1>2, <1>3, <1>4, <1>5, <1>6, <1>7, <1>8, <1>9, <1>10 DEF Next, Settle

(* No row turns "completed", and no image is saved, before its job is, in  *)
(* whatever order overlapping polls are answered.                          *)
THEOREM ShownIsServed == Spec => []NothingInvented
<1>1. Init => NothingInvented
  BY DEF Init, NothingInvented, Learned
<1>2. DashboardInv /\ NothingInvented /\ [Next]_vars => NothingInvented'
  BY LearnedStep
<1> QED BY <1>1, <1>2, DashboardInvariance, PTL DEF Spec
-----------------------------------------------------------------------------
(* Overlapping polls can set a finished job back to "pending" and start its*)
(* download twice.  It takes an overlap: as long as no two requests about  *)
(* one job are awaited at once, the list only ever advances and every      *)
(* result is downloaded once.                                              *)
NoOverlap ==
  \A p, q \in Polls, i \in Images :
    fetch[p][i] # "idle" /\ fetch[q][i] # "idle" => p = q

FinishedForGood ==
  [][\A i \in Images :
       /\ shown[i] = "completed" => shown'[i] = "completed"
       /\ \A p \in Polls :
            fetch[p][i] # "saving" /\ fetch'[p][i] = "saving" => ~Saved(i)]_vars

(* No answer about a finished job is awaited. *)
QuietInv ==
  \A p \in Polls, i \in Images : shown[i] = "completed" => fetch[p][i] \in {"idle", "saving"}

LEMMA QuietStep ==
  ASSUME DashboardInv, NoOverlap, QuietInv, [Next]_vars
  PROVE  /\ QuietInv'
         /\ \A i \in Images : shown[i] = "completed" => shown'[i] = "completed"
<1> DEFINE Kept == \A i \in Images : shown[i] = "completed" => shown'[i] = "completed"
<1> USE DEF DashboardInv, TypeOK, QuietInv, pageVars
<1>1. ASSUME NEW k \in Images, AddFile(k) \/ RemoveFile(k) PROVE QuietInv' /\ Kept
  BY <1>1 DEF AddFile, RemoveFile
<1>2. ASSUME NEW k \in Images, UploadAccepted(k) PROVE QuietInv' /\ Kept
  <2>1. \A i \in Images : /\ shown'[i] = "completed" => shown[i] = "completed"
                          /\ shown[i] = "completed" => shown'[i] = "completed"
    BY <1>2, NextUploadStep DEF UploadAccepted
  <2>2. \A p \in Polls, i \in Images :
          shown[i] = "completed" => fetch'[p][i] \in {"idle", fetch[p][i]}
    BY <1>2 DEF UploadAccepted, EnsurePolling, SendPoll, Pending, Unfinished
  <2> QED BY <2>1, <2>2
<1>3. ASSUME NEW k \in Images, UploadFailed(k) PROVE QuietInv' /\ Kept
  BY <1>3, NextUploadStep DEF UploadFailed
<1>4. ASSUME UploadAll PROVE QuietInv' /\ Kept
  <2>1. \A i \in selected : shown[i] = "none"
    BY DEF BatchInv
  <2>2. \A i \in Images : \/ shown'[i] = shown[i]
                          \/ shown[i] = "none" /\ shown'[i] = "uploading"
    BY <1>4, <2>1 DEF UploadAll
  <2>3. fetch' = fetch
    BY <1>4 DEF UploadAll
  <2> QED BY <2>2, <2>3
<1>5. ASSUME NEW p \in Polls, Tick(p) PROVE QuietInv' /\ Kept
  <2>1. shown' = shown
    BY <1>5 DEF Tick
  <2>2. \A q \in Polls, i \in Images :
          shown[i] = "completed" => fetch'[q][i] \in {"idle", fetch[q][i]}
    <3>1. CASE UNCHANGED fetch
      BY <3>1
    <3>2. CASE SendPoll(p, Pending)
      BY <3>2 DEF SendPoll, Pending, Unfinished
    <3> QED BY <1>5, <3>1, <3>2 DEF Tick
  <2> QED BY <2>1, <2>2
<1>6. ASSUME NEW p \in Polls, NEW k \in Images, Settle(p, k) \/ Downloaded(p, k)
      PROVE  QuietInv' /\ Kept
  BY <1>6 DEF Settle, ReadStatus, FetchFails, Downloaded, Await
<1>7. ASSUME NEW p \in Polls, NEW k \in Images, ApplyStatus(p, k) PROVE QuietInv' /\ Kept
  <2>1. shown[k] # "completed" /\ \A q \in Polls \ {p} : fetch[q][k] = "idle"
    BY <1>7 DEF ApplyStatus, NoOverlap, Replies
  <2>2. /\ shown' = [shown EXCEPT ![k] = fetch[p][k]]
        /\ \E what \in {"idle", "saving"} : fetch' = [fetch EXCEPT ![p][k] = what]
    BY <1>7 DEF ApplyStatus, Await
  <2> QED BY <2>1, <2>2
<1>8. ASSUME NEW k \in Images, Process(k) PROVE QuietInv' /\ Kept
  BY <1>8 DEF Process
<1>9. CASE UNCHANGED vars
  BY <1>9 DEF vars
<1> QED BY <1>1, <1>2, <1>3, <1>4, <1>5, <1>6, <1>7, <1>8, <1>9 DEF Next

(* The only step that starts a download found none and nothing awaited     *)
(* about the job but its own answer.                                       *)
LEMMA SavingStarts ==
  ASSUME DashboardInv, NoOverlap, [Next]_vars, NEW i \in Images, NEW p \in Polls,
         fetch[p][i] # "saving", fetch'[p][i] = "saving"
  PROVE  ~Saved(i)
<1> USE DEF DashboardInv, TypeOK, pageVars
<1>1. ApplyStatus(p, i)
  <2>1. ASSUME NEW q \in Polls, NEW ids, SendPoll(q, ids) PROVE FALSE
    BY <2>1 DEF SendPoll
  <2>2. ASSUME NEW k \in Images, AddFile(k) \/ RemoveFile(k) \/ UploadFailed(k) \/ Process(k)
        PROVE  FALSE
    BY <2>2 DEF AddFile, RemoveFile, UploadFailed, Process
  <2>3. ASSUME NEW k \in Images, UploadAccepted(k) PROVE FALSE
    BY <2>1, <2>3 DEF UploadAccepted, EnsurePolling
  <2>4. ASSUME UploadAll PROVE FALSE
    BY <2>4 DEF UploadAll
  <2>5. ASSUME NEW q \in Polls, Tick(q) PROVE FALSE
    BY <2>1, <2>5 DEF Tick
  <2>6. ASSUME NEW q \in Polls, NEW k \in Images, Settle(q, k) \/ Downloaded(q, k) PROVE FALSE
    BY <2>6 DEF Settle, ReadStatus, FetchFails, Downloaded, Await, Replies
  <2>7. ASSUME NEW q \in Polls, NEW k \in Images, ApplyStatus(q, k) PROVE ApplyStatus(p, i)
    BY <2>7 DEF ApplyStatus, Await
  <2>8. CASE UNCHANGED vars
    BY <2>8 DEF vars
  <2> QED BY <2>2, <2>3, <2>4, <2>5, <2>6, <2>7, <2>8 DEF Next
<1>2. ~downloaded[i]
  BY <1>1 DEF ApplyStatus, Await
<1>3. \A q \in Polls : fetch[q][i] # "saving"
  BY <1>1 DEF ApplyStatus, NoOverlap, Replies
<1> QED BY <1>2, <1>3 DEF Saved

(* A page that awaits one request per job at a time keeps what it shows,   *)
(* and downloads no result twice.                                          *)
THEOREM PollsInOrder == Spec /\ []NoOverlap => FinishedForGood
<1> DEFINE Kept == \A i \in Images :
                     /\ shown[i] = "completed" => shown'[i] = "completed"
                     /\ \A p \in Polls :
                          fetch[p][i] # "saving" /\ fetch'[p][i] = "saving" => ~Saved(i)
<1>1. Init => QuietInv
  BY DEF Init, QuietInv
<1>2. DashboardInv /\ NoOverlap /\ QuietInv /\ [Next]_vars => QuietInv' /\ [Kept]_vars
  BY QuietStep, SavingStarts
<1> QED BY <1>1, <1>2, DashboardInvariance, PTL DEF Spec, FinishedForGood
=============================================================================
