------------------------------- MODULE Worker -------------------------------
(***************************************************************************)
(* The processing worker: worker/cmd/main.go around ProcessMessages and    *)
(* handleMessage of worker/internal/worker/worker.go.  A worker process    *)
(* handles one message at a time; the AMQP library buffers the others the  *)
(* broker has already handed to it.                                        *)
(***************************************************************************)
EXTENDS Broker, JobStore

VARIABLES
  proc,   (* proc[w]: "down", "running", or "cancelled" after a signal     *)
  pc,     (* pc[w]: the next call handleMessage makes                      *)
  cur,    (* cur[w]: the job of the message being handled                  *)
  buf,    (* buf[w]: messages in the delivery channel                      *)
  err     (* err[w]: why the message is about to be rejected               *)

workerVars == <<proc, pc, cur, buf, err>>

Labels == {"idle", "create", "detect", "infer", "upsert", "insert", "ack", "nack"}
Errors == {"none", "decode", "database", "api", "transport", "empty"}

WorkerTypeOK ==
  /\ proc \in [Workers -> {"down", "running", "cancelled"}]
  /\ pc \in [Workers -> Labels]
  /\ cur \in [Workers -> Jobs \cup {NoJob}]
  /\ buf \in [Workers -> SUBSET Jobs]
  /\ err \in [Workers -> Errors]

WorkerInit ==
  /\ proc = [w \in Workers |-> "down"]
  /\ pc = [w \in Workers |-> "idle"]
  /\ cur = [w \in Workers |-> NoJob]
  /\ buf = [w \in Workers |-> {}]
  /\ err = [w \in Workers |-> "none"]

Alive(w) == proc[w] # "down"

Goto(w, label) ==
  /\ pc' = [pc EXCEPT ![w] = label]
  /\ UNCHANGED <<proc, cur, buf, err>>

(* Log the error and fall through to Nack(false, false).                   *)
Reject(w, e) ==
  /\ pc' = [pc EXCEPT ![w] = "nack"]
  /\ err' = [err EXCEPT ![w] = e]
  /\ UNCHANGED <<proc, cur, buf>>

(* main up to Consume: connections are opened, the queue is there because  *)
(* the API declared it.                                                    *)
Start(w) ==
  /\ proc[w] = "down"
  /\ proc' = [proc EXCEPT ![w] = "running"]
  /\ OpenLink(w)
  /\ UNCHANGED <<pc, cur, buf, err, storeVars>>

Deliver(w, j) ==
  /\ HandOut(w, j)
  /\ buf' = [buf EXCEPT ![w] = @ \cup {j}]
  /\ UNCHANGED <<proc, pc, cur, err, storeVars>>

(* The receiving case of the select, and the decoding of the body.  Go     *)
(* picks among ready cases at random, so a cancelled worker may still      *)
(* receive; a message already buffered may be received on a dead link too. *)
Receive(w, j) ==
  /\ Alive(w) /\ pc[w] = "idle" /\ j \in buf[w]
  /\ buf' = [buf EXCEPT ![w] = @ \ {j}]
  /\ cur' = [cur EXCEPT ![w] = j]
  /\ pc' = [pc EXCEPT ![w] = IF body[j] = "json" THEN "create" ELSE "nack"]
  /\ err' = [err EXCEPT ![w] = IF body[j] = "json" THEN "none" ELSE "decode"]
  /\ UNCHANGED <<proc, brokerVars, storeVars>>

(* w.repo.CreatePendingJob, which may also have been applied although the  *)
(* worker sees an error (the connection broke on the way back).            *)
CreatePending(w) ==
  /\ pc[w] = "create"
  /\ \/ CreatePendingJob(cur[w]) /\ Goto(w, "detect")
     \/ CreatePendingJob(cur[w]) /\ Reject(w, "database")
     \/ UNCHANGED storeVars /\ Reject(w, "database")
  /\ UNCHANGED brokerVars

(* w.roboflow.Detect sets out; under a cancelled context it fails at once. *)
Detect(w) ==
  /\ pc[w] = "detect"
  /\ \/ proc[w] = "running" /\ Goto(w, "infer")
     \/ proc[w] = "cancelled" /\ Reject(w, "transport")
  /\ UNCHANGED <<brokerVars, storeVars>>

(* A failed call gives the message back for another try, and then is tried *)
(* again on the spot as well.                                              *)
RequeueAndRetry(w) ==
  /\ pc[w] = "infer"
  /\ \/ Goto(w, "upsert") /\ UNCHANGED brokerVars
     \/ Settle(w, cur[w], "ready") /\ Goto(w, "detect")
  /\ UNCHANGED storeVars

(* It returns: predictions; none; a status other than 200 (APIError); or   *)
(* no answer within 120 s, a broken connection, a cancelled context.       *)
Inferred(w) ==
  /\ pc[w] = "infer"
  /\ \/ Goto(w, "upsert")
     \/ \E e \in {"empty", "api", "transport"} : Reject(w, e)
  /\ UNCHANGED <<brokerVars, storeVars>>

(* w.repo.SaveJobResult opens its transaction with the upsert, which waits *)
(* for the row if another worker is saving the same job.                   *)
Upsert(w) ==
  /\ pc[w] = "upsert"
  /\ \/ UpsertJob(w, cur[w]) /\ Goto(w, "insert")
     \/ UNCHANGED storeVars /\ Reject(w, "database")
  /\ UNCHANGED brokerVars

(* The acknowledgement goes out whether or not the transaction committed.  *)
SaveIgnoringError(w) ==
  /\ pc[w] = "insert"
  /\ \/ CommitResult(w, cur[w]) /\ Goto(w, "ack")
     \/ Rollback(w) /\ Goto(w, "ack")
  /\ UNCHANGED brokerVars

(* On an error the transaction is tried again.                             *)
SaveRetrying(w) ==
  /\ pc[w] = "insert"
  /\ \/ CommitResult(w, cur[w]) /\ Goto(w, "ack")
     \/ CommitResult(w, cur[w]) /\ Goto(w, "upsert")
     \/ Rollback(w) /\ Goto(w, "upsert")
  /\ UNCHANGED brokerVars

(* Then the predictions and COMMIT: done; rolled back with an error; or    *)
(* committed although the worker is told of an error.                      *)
Save(w) ==
  /\ pc[w] = "insert"
  /\ \/ CommitResult(w, cur[w]) /\ Goto(w, "ack")
     \/ CommitResult(w, cur[w]) /\ Reject(w, "database")
     \/ Rollback(w) /\ Reject(w, "database")
  /\ UNCHANGED brokerVars

(* handleMessage returns to the select. *)
Finish(w) ==
  /\ pc' = [pc EXCEPT ![w] = "idle"]
  /\ cur' = [cur EXCEPT ![w] = NoJob]
  /\ err' = [err EXCEPT ![w] = "none"]
  /\ UNCHANGED <<proc, buf, storeVars>>

(* Ack(true) acknowledges every message delivered so far.                  *)
AckMultiple(w) ==
  /\ pc[w] = "ack"
  /\ place' = [j \in Jobs |-> IF place[j] = w THEN "acked" ELSE place[j]]
  /\ UNCHANGED <<body, link, publisher, deliveries>>
  /\ Finish(w)

(* Ack(false): this message and no other. *)
Ack(w) ==
  /\ pc[w] = "ack"
  /\ Settle(w, cur[w], "acked")
  /\ Finish(w)

(* The failure path returns without telling the broker.                    *)
NackForgotten(w) ==
  /\ pc[w] = "nack"
  /\ Finish(w)
  /\ UNCHANGED brokerVars

(* requeue = false, and the queue has no dead-letter exchange.             *)
Nack(w) ==
  /\ pc[w] = "nack"
  /\ Settle(w, cur[w], "discarded")
  /\ Finish(w)

(* The process is gone, and with it whatever it had in memory; the broker  *)
(* and the database notice and clean up after it.                          *)
Exit(w) ==
  /\ proc' = [proc EXCEPT ![w] = "down"]
  /\ pc' = [pc EXCEPT ![w] = "idle"]
  /\ cur' = [cur EXCEPT ![w] = NoJob]
  /\ buf' = [buf EXCEPT ![w] = {}]
  /\ err' = [err EXCEPT ![w] = "none"]
  /\ CloseLink(w)

(* The select without its ctx.Done case.                                   *)
StopWhenClosed(w) ==
  /\ Alive(w) /\ pc[w] = "idle"
  /\ ~link[w]
  /\ Exit(w)
  /\ UNCHANGED storeVars

(* ProcessMessages returns, on a cancelled context or on the closed        *)
(* delivery channel, and main's deferred calls close the connections.      *)
Stop(w) ==
  /\ Alive(w) /\ pc[w] = "idle"
  /\ proc[w] = "cancelled" \/ ~link[w]
  /\ Exit(w)
  /\ UNCHANGED storeVars

(* SIGINT or SIGTERM.                                                      *)
Cancel(w) ==
  /\ proc[w] = "running"
  /\ proc' = [proc EXCEPT ![w] = "cancelled"]
  /\ UNCHANGED <<pc, cur, buf, err, brokerVars, storeVars>>

(* The process is killed wherever it is; an open transaction is undone.    *)
Crash(w) ==
  /\ Alive(w)
  /\ Exit(w)
  /\ Rollback(w)

(* The connection to the broker is lost while the process lives on.        *)
LoseLink(w) ==
  /\ link[w]
  /\ CloseLink(w)
  /\ UNCHANGED <<workerVars, storeVars>>
=============================================================================
