------------------------------ MODULE Pipeline ------------------------------
(***************************************************************************)
(* The detection pipeline as it runs: the API process accepting uploads,   *)
(* RabbitMQ, several worker processes, PostgreSQL and clients that poll.   *)
(* Every step of a component leaves the others' state alone; the faults a  *)
(* run may contain are counted, and bounded by MaxFaults.                  *)
(***************************************************************************)
EXTENDS UploadService, Worker, JobQuery

CONSTANT MaxFaults
ASSUME MaxFaultsAssumption == MaxFaults \in Nat

VARIABLE faults   (* faults so far *)

vars == <<brokerVars, storeVars, apiVars, workerVars, queryVars, faults>>

Init ==
  /\ BrokerInit /\ StoreInit /\ ApiInit /\ WorkerInit /\ QueryInit
  /\ faults = 0

ApiStep(u) ==
  /\ ReceiveUpload(u) \/ UploadToStorage(u) \/ PublishJob(u) \/ AnswerUpload(u)
  /\ UNCHANGED <<storeVars, workerVars, queryVars, faults>>

HandleStep(w) ==
  \/ CreatePending(w)
  \/ Detect(w)
  \/ Inferred(w)
  \/ Upsert(w)
  \/ Save(w)
  \/ Ack(w)
  \/ Nack(w)

WorkerStep(w) ==
  /\ \/ Start(w) \/ Stop(w)
     \/ \E j \in Jobs : Deliver(w, j) \/ Receive(w, j)
     \/ HandleStep(w)
  /\ UNCHANGED <<apiVars, queryVars, faults>>

ReaderStep(r) ==
  /\ \/ \E j \in Jobs : FindByJobID(r, j)
     \/ Preload(r)
     \/ QueryError(r)
  /\ UNCHANGED <<brokerVars, apiVars, workerVars, faults>>

WorkerFault(w) ==
  /\ Cancel(w) \/ Crash(w) \/ LoseLink(w)
  /\ UNCHANGED apiVars

BrokerFault ==
  /\ Restart \/ ClosePublisher
  /\ UNCHANGED <<apiVars, workerVars, storeVars>>

ApiFault ==
  /\ RestartApi \/ \E u \in Jobs : PublishLost(u)
  /\ UNCHANGED <<workerVars, storeVars>>

Fault ==
  /\ faults < MaxFaults
  /\ faults' = faults + 1
  /\ BrokerFault \/ ApiFault \/ \E w \in Workers : WorkerFault(w)
  /\ UNCHANGED queryVars

Next ==
  \/ \E u \in Jobs : ApiStep(u)
  \/ \E w \in Workers : WorkerStep(w)
  \/ \E r \in Readers : ReaderStep(r)
  \/ Fault

Spec == Init /\ [][Next]_vars
-----------------------------------------------------------------------------
(* Fairness.  A running worker goes on with the message in its hand (the   *)
(* inference call has a timeout and a context, the database is assumed to  *)
(* answer), takes the next one, and leaves when it is told to; the broker  *)
(* hands messages to open consumers.  Nothing makes an operator start a    *)
(* worker, and nothing bounds the storage call of an upload.  A worker that*)
(* waits for a row lock is not helped out of it by an error: PostgreSQL has*)
(* no lock timeout unless it is set one.                                   *)
Quiet == UNCHANGED <<apiVars, queryVars, faults>>

Waits(w) == pc[w] = "upsert" /\ rowLock[cur[w]] # NoWorker

Progress(w) ==
  /\ WF_vars(HandleStep(w) /\ ~Waits(w) /\ Quiet)
  /\ WF_vars((\E j \in Jobs : Receive(w, j)) /\ Quiet)
  /\ WF_vars(Stop(w) /\ Quiet)
  /\ WF_vars((\E j \in Jobs : Deliver(w, j)) /\ Quiet)

FairSpec == Spec /\ \A w \in Workers : Progress(w)
-----------------------------------------------------------------------------
TypeOK ==
  /\ BrokerTypeOK /\ StoreTypeOK /\ ApiTypeOK /\ WorkerTypeOK /\ QueryTypeOK
  /\ faults \in 0 .. MaxFaults

(* The work handleMessage does on a job once its row exists.               *)
PastCreate == {"detect", "infer", "upsert", "insert", "ack"}

(* A worker has a job in its hand exactly while it handles a message, is   *)
(* about to reject it exactly when an error has been recorded, and leaves  *)
(* nothing behind when its process ends.                                   *)
HandInv ==
  \A w \in Workers :
    /\ cur[w] = NoJob <=> pc[w] = "idle"
    /\ err[w] = "none" <=> pc[w] # "nack"
    /\ proc[w] = "down" => ~link[w] /\ pc[w] = "idle" /\ buf[w] = {}

(* What the database holds about the job in a worker's hand.               *)
StoreInv ==
  /\ \A w \in Workers :
       /\ pc[w] \in PastCreate => status[cur[w]] # "absent"
       /\ pc[w] = "ack" => status[cur[w]] = "completed"
  /\ \A w \in Workers, j \in Jobs :
       rowLock[j] = w <=> pc[w] = "insert" /\ cur[w] = j

(* Nothing is in a worker's memory or in the database unless it has been   *)
(* published, and the API still has what it has not yet published.         *)
OriginInv ==
  /\ \A j \in Jobs :
       /\ status[j] # "absent" => place[j] # "unpublished"
       /\ phase[j] = "answering" \/ phase[j] = "accepted" => place[j] # "unpublished"
       /\ phase[j] \in {"idle", "storing", "publishing", "failed"}
            => place[j] = "unpublished"
  /\ \A w \in Workers, j \in Jobs :
       j \in buf[w] \/ cur[w] = j => place[j] # "unpublished"

(* A worker the broker is connected to has in memory exactly the messages  *)
(* the broker books as delivered to it.                                    *)
CustodyInv ==
  \A w \in Workers, j \in Jobs :
    /\ ~(j \in buf[w] /\ cur[w] = j)
    /\ place[j] = w => link[w]
    /\ link[w] => (place[j] = w <=> j \in buf[w] \/ cur[w] = j)

(* An acknowledged message is one whose result has been committed: a crash *)
(* between COMMIT and Ack, a commit reported as an error, a second worker  *)
(* on the same job cannot make the worker acknowledge what is not stored.  *)
AckedIsStored ==
  \A j \in Jobs : place[j] = "acked" => status[j] = "completed"

(* SaveJobResult is all or nothing: a job reads "completed" exactly when   *)
(* predictions of it are stored.                                           *)
CompletedIffResults ==
  \A j \in Jobs : status[j] = "completed" <=> batches[j] > 0

(* The storage service has answered 200 for an image before anything about *)
(* it is queued: an error of uploadToStorage ends the request.  (That the  *)
(* answer names a URL is not checked by the code: url may be "empty".)     *)
QueuedHasImage ==
  \A j \in Jobs : phase[j] = "publishing" \/ place[j] # "unpublished" => url[j] # "none"

IInv ==
  /\ TypeOK
  /\ HandInv /\ StoreInv /\ OriginInv /\ CustodyInv
  /\ AckedIsStored /\ CompletedIffResults /\ QueuedHasImage
-----------------------------------------------------------------------------
Holds(w, j) == j \in buf[w] \/ cur[w] = j

(* Two workers that are both connected never have the same message: only a *)
(* worker whose connection is gone may still be busy with a job the broker *)
(* has handed to another.                                                  *)
ExclusiveHandling ==
  \A v, w \in Workers : \A j \in Jobs :
    link[v] /\ link[w] /\ Holds(v, j) /\ Holds(w, j) => v = w

(* At most one batch of predictions is stored for each time the broker     *)
(* delivered the job: duplicates come from redelivery and nothing else.    *)
BatchesWithinDeliveries ==
  \A j \in Jobs : batches[j] <= deliveries[j]

(* A result is stored once, and once more for each fault at most: neither  *)
(* the shutdown of a worker nor a call that fails under it makes the       *)
(* broker hand a job out again on its own.                                 *)
BatchesWithinFaults ==
  \A j \in Jobs : batches[j] <= faults + 1

(* A client that got a 500 for its upload will not find a job running for  *)
(* it later: whatever fails, fails before the message is out.              *)
FailedIsNotQueued ==
  \A j \in Jobs : phase[j] = "failed" => place[j] = "unpublished"

(* Once completed a job stays completed, its predictions stay, and a       *)
(* message the broker is rid of is not delivered again, whatever a         *)
(* redelivered or belated handler of the same job does.                    *)
NoRegression ==
  [][\A j \in Jobs :
       /\ status[j] = "completed" => status'[j] = "completed"
       /\ batches'[j] >= batches[j]
       /\ place[j] \in {"acked", "discarded", "lost"} => place'[j] = place[j]]_vars

(* An answer that says "completed" lists predictions, although row and     *)
(* predictions are read by two statements between which a worker commits.  *)
CompletedReplyHasResults ==
  \A r \in Readers : reply[r].status = "completed" => reply[r].batches > 0

Rank(s) == CASE s = "absent" -> 0 [] s = "pending" -> 1 [] s = "completed" -> 2

(* A client that polls one job never sees its status or the number of its  *)
(* predictions go back from one answer to the next.                        *)
RepliesNeverRegress ==
  [][\A r \in Readers :
       reply'[r].job = reply[r].job =>
         /\ Rank(reply'[r].status) >= Rank(reply[r].status)
         /\ reply'[r].batches >= reply[r].batches]_vars

(* README.md: "Ensures successful uploads are always queued for            *)
(* processing".  An upload answered with 202 is in the queue, or has been  *)
(* handed to a worker.                                                     *)
AcceptedIsQueued ==
  \A j \in Jobs : phase[j] = "accepted" => Unsettled(j) \/ deliveries[j] > 0

(* What holds of AcceptedIsQueued: only the broker may lose an accepted    *)
(* upload, and only by a fault.  No order of the handler's steps, and no   *)
(* closed channel, makes a 202 out of a message that was not handed over.  *)
AcceptedUnlessLost ==
  \A j \in Jobs :
    phase[j] = "accepted" =>
      Unsettled(j) \/ deliveries[j] > 0 \/ (place[j] = "lost" /\ faults > 0)
-----------------------------------------------------------------------------
(* A message in the queue is settled in the end, or no worker is connected *)
(* any more: no failure of a call, no lost connection and no shutdown      *)
(* leaves a message with a worker for ever.                                *)
QueuedIsSettled ==
  \A j \in Jobs :
    place[j] = "ready" ~> (~Unsettled(j) \/ \A w \in Workers : ~link[w])

(* A worker told to stop does so, wherever in its work the signal comes.   *)
ShutdownCompletes ==
  \A w \in Workers : proc[w] = "cancelled" ~> proc[w] = "down"
-----------------------------------------------------------------------------
(* The pipeline keeps the books JobLedger promises.                        *)
Ticket ==
  [j \in Jobs |->
     CASE place[j] = "unpublished" -> "none"
       [] Unsettled(j) -> "open"
       [] place[j] = "acked" -> "done"
       [] OTHER -> "dropped"]

Ledger == INSTANCE JobLedger WITH ticket <- Ticket, entry <- status, results <- batches

LedgerSpec == Ledger!Spec
=============================================================================
