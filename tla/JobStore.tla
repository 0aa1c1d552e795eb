------------------------------ MODULE JobStore ------------------------------
(***************************************************************************)
(* The tables jobs and predictions, and the worker's repository over them  *)
(* (worker/internal/repository/postgres/prediction_repository.go).         *)
(*                                                                         *)
(* status[j] is the committed row of table jobs with that job_id (UNIQUE,  *)
(* so at most one), batches[j] the number of committed prediction batches: *)
(* each successful SaveJobResult inserts one batch, the predictions of one *)
(* inference.  Isolation is PostgreSQL's default, READ COMMITTED.          *)
(***************************************************************************)
EXTENDS Domain

VARIABLES
  status,     (* status[j]: "absent", "pending" or "completed"             *)
  batches,    (* batches[j]: committed batches in table predictions        *)
  rowLock     (* rowLock[j]: whose open transaction locks row j            *)

storeVars == <<status, batches, rowLock>>

StoreTypeOK ==
  /\ status \in [Jobs -> {"absent", "pending", "completed"}]
  /\ batches \in [Jobs -> Nat]
  /\ rowLock \in [Jobs -> Workers \cup {NoWorker}]

StoreInit ==
  /\ status = [j \in Jobs |-> "absent"]
  /\ batches = [j \in Jobs |-> 0]
  /\ rowLock = [j \in Jobs |-> NoWorker]

(* OnConflict with DoUpdates in place of DoNothing.                        *)
OverwritePendingJob(j) ==
  /\ status' = [status EXCEPT ![j] = "pending"]
  /\ UNCHANGED <<batches, rowLock>>

(* INSERT ... ON CONFLICT (job_id) DO NOTHING                              *)
CreatePendingJob(j) ==
  /\ status' = [status EXCEPT ![j] = IF @ = "absent" THEN "pending" ELSE @]
  /\ UNCHANGED <<batches, rowLock>>

(* The upsert of SaveJobResult commits by itself: no enclosing transaction.*)
AutoCommitUpsert(w, j) ==
  /\ rowLock[j] = NoWorker
  /\ rowLock' = [rowLock EXCEPT ![j] = w]
  /\ status' = [status EXCEPT ![j] = "completed"]
  /\ UNCHANGED batches

(* First statement of SaveJobResult's transaction, INSERT ... ON CONFLICT  *)
(* DO UPDATE SET status, processed_at: waits while another transaction     *)
(* holds the row, then locks it; readers see nothing of it yet.            *)
UpsertJob(w, j) ==
  /\ rowLock[j] = NoWorker
  /\ rowLock' = [rowLock EXCEPT ![j] = w]
  /\ UNCHANGED <<status, batches>>

(* Second statement, the batch insert, and COMMIT.                         *)
CommitResult(w, j) ==
  /\ status' = [status EXCEPT ![j] = "completed"]
  /\ batches' = [batches EXCEPT ![j] = @ + 1]
  /\ rowLock' = [rowLock EXCEPT ![j] = NoWorker]

(* ROLLBACK, or the server's cleanup when the client goes away.            *)
Rollback(w) ==
  /\ rowLock' = [j \in Jobs |-> IF rowLock[j] = w THEN NoWorker ELSE rowLock[j]]
  /\ UNCHANGED <<status, batches>>
=============================================================================
