------------------------------- MODULE Domain -------------------------------
(***************************************************************************)
(* The names the components of the detection pipeline share.               *)
(*                                                                         *)
(* A job is identified with the upload request that creates it:            *)
(* generateJobID (api/internal/modules/file/service.go) draws a fresh ULID *)
(* for every request that reaches it, and the ULID is used from there on   *)
(* as the message id, the primary lookup key of table jobs and the id the  *)
(* client polls.  That two requests never draw the same ULID is an         *)
(* assumption of this model.                                               *)
(***************************************************************************)
EXTENDS Naturals

CONSTANTS
  Jobs,      (* upload requests, and the job each of them creates          *)
  Workers,   (* worker processes: worker/cmd/main.go, one consumer each    *)
  NoJob,     (* "no job": a worker with an empty hand                      *)
  NoWorker   (* "no worker": a row nobody holds a lock on                  *)

(* Where the broker's copy of a message can be, besides a worker.          *)
Shelf == {"unpublished", "ready", "acked", "discarded", "lost"}

ASSUME NoJobAssumption == NoJob \notin Jobs
ASSUME NoWorkerAssumption == NoWorker \notin Workers
ASSUME ShelfAssumption == Workers \cap Shelf = {}
=============================================================================
