------------------------------ MODULE JobQuery ------------------------------
(***************************************************************************)
(* GET /v1/jobs/:id (api/internal/modules/job): FindByJobID reads the row  *)
(* of table jobs, and then, in a second statement outside any transaction, *)
(* the predictions GORM preloads.  Each reader is a client that waits for  *)
(* one answer before it asks again.                                        *)
(***************************************************************************)
EXTENDS JobStore

CONSTANT Readers

VARIABLES
  query,   (* query[r]: the job asked for and the status read so far       *)
  reply    (* reply[r]: the last answer other than a 500                   *)

queryVars == <<query, reply>>

NoQuery == [job |-> NoJob, status |-> "absent"]
NoReply == [job |-> NoJob, status |-> "absent", batches |-> 0]

RowStates == {"absent", "pending", "completed"}

QueryTypeOK ==
  /\ query \in [Readers -> {NoQuery} \cup [job : Jobs, status : RowStates]]
  /\ reply \in [Readers ->
                  {NoReply} \cup [job : Jobs, status : RowStates, batches : Nat]]

QueryInit ==
  /\ query = [r \in Readers |-> NoQuery]
  /\ reply = [r \in Readers |-> NoReply]

Answer(r, j, s, n) ==
  reply' = [reply EXCEPT ![r] = [job |-> j, status |-> s, batches |-> n]]

(* First(&job): no row is the 404 of an unknown job.                       *)
FindByJobID(r, j) ==
  /\ query[r] = NoQuery
  /\ IF status[j] = "absent"
       THEN Answer(r, j, "absent", 0) /\ UNCHANGED query
       ELSE /\ query' = [query EXCEPT ![r] = [job |-> j, status |-> status[j]]]
            /\ UNCHANGED reply
  /\ UNCHANGED storeVars

(* Preload("Predictions"), and the answer is put together.                 *)
Preload(r) ==
  /\ query[r] # NoQuery
  /\ Answer(r, query[r].job, query[r].status, batches[query[r].job])
  /\ query' = [query EXCEPT ![r] = NoQuery]
  /\ UNCHANGED storeVars

(* Either statement fails: a 500, and nothing is learnt.                   *)
QueryError(r) ==
  /\ query[r] # NoQuery
  /\ query' = [query EXCEPT ![r] = NoQuery]
  /\ UNCHANGED <<reply, storeVars>>
=============================================================================
