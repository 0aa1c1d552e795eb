--------------------------- MODULE PipelineProofs ---------------------------
(***************************************************************************)
(* Proofs about Pipeline, for any number of jobs, workers, readers and     *)
(* faults.                                                                 *)
(***************************************************************************)
EXTENDS Pipeline, TLAPS

-----------------------------------------------------------------------------
(* Type correctness, operation by operation: first what each operation of  *)
(* the broker and of the database does, then the steps that use them.      *)

(* What the API and the broker itself do keeps the broker well-typed ...   *)
LEMMA PublisherTypes ==
  ASSUME BrokerTypeOK, NEW j \in Jobs, NEW b \in {"json", "invalid"},
         Enqueue(j, b) \/ LoseInTransit(j, b)
  PROVE  BrokerTypeOK'
<1> USE DEF BrokerTypeOK, Places, Shelf
<1>1. CASE Enqueue(j, b) BY <1>1, SMT DEF Enqueue
<1>2. CASE LoseInTransit(j, b) BY <1>2, SMT DEF LoseInTransit
<1> QED BY <1>1, <1>2

LEMMA BrokerFaultTypes ==
  ASSUME BrokerTypeOK, Restart \/ ClosePublisher \/ OpenPublisher
  PROVE  BrokerTypeOK'
<1> USE DEF BrokerTypeOK, Places, Shelf
<1>1. CASE Restart BY <1>1, SMT DEF Restart, Unsettled
<1>2. CASE ClosePublisher \/ OpenPublisher
  BY <1>2, SMT DEF ClosePublisher, OpenPublisher
<1> QED BY <1>1, <1>2

(* ... and so does what consumers do.                                      *)
LEMMA ConsumerTypes ==
  ASSUME BrokerTypeOK, NEW w \in Workers, NEW j \in Jobs,
         NEW fate \in {"acked", "discarded"},
         HandOut(w, j) \/ Settle(w, j, fate)
  PROVE  BrokerTypeOK'
<1> USE DEF BrokerTypeOK, Places, Shelf
<1>1. CASE HandOut(w, j) BY <1>1, SMT DEF HandOut
<1>2. CASE Settle(w, j, fate) BY <1>2, SMT DEF Settle
<1> QED BY <1>1, <1>2

LEMMA LinkTypes ==
  ASSUME BrokerTypeOK, NEW w \in Workers, OpenLink(w) \/ CloseLink(w)
  PROVE  BrokerTypeOK'
<1> USE DEF BrokerTypeOK, Places, Shelf
<1>1. CASE OpenLink(w) BY <1>1, SMT DEF OpenLink
<1>2. CASE CloseLink(w) BY <1>2, SMT DEF CloseLink, Requeue
<1> QED BY <1>1, <1>2

LEMMA BrokerStutters ==
  ASSUME BrokerTypeOK, UNCHANGED brokerVars
  PROVE  BrokerTypeOK'
BY DEF BrokerTypeOK, brokerVars

(* Every repository operation keeps the database's variables well-typed.   *)
LEMMA StoreTypes ==
  ASSUME StoreTypeOK, NEW j \in Jobs, NEW w \in Workers,
         CreatePendingJob(j) \/ UpsertJob(w, j) \/ CommitResult(w, j)
  PROVE  StoreTypeOK'
<1> USE DEF StoreTypeOK
<1>1. CASE CreatePendingJob(j) BY <1>1, SMT DEF CreatePendingJob
<1>2. CASE UpsertJob(w, j) BY <1>2, SMT DEF UpsertJob
<1>3. CASE CommitResult(w, j) BY <1>3, SMT DEF CommitResult
<1> QED BY <1>1, <1>2, <1>3

LEMMA RollbackTypes ==
  ASSUME StoreTypeOK, NEW w \in Workers, Rollback(w)
  PROVE  StoreTypeOK'
BY SMT DEF StoreTypeOK, Rollback

LEMMA StoreStutters ==
  ASSUME StoreTypeOK, UNCHANGED storeVars
  PROVE  StoreTypeOK'
BY DEF StoreTypeOK, storeVars

(* Handling a message keeps a worker's memory well-typed.                  *)
LEMMA GotoTypes ==
  ASSUME WorkerTypeOK, NEW w \in Workers, NEW label \in Labels, Goto(w, label)
  PROVE  WorkerTypeOK'
BY SMT DEF WorkerTypeOK, Goto

LEMMA RejectTypes ==
  ASSUME WorkerTypeOK, NEW w \in Workers, NEW e \in Errors, Reject(w, e)
  PROVE  WorkerTypeOK'
BY SMT DEF WorkerTypeOK, Reject, Labels

LEMMA TypeInit == Init => TypeOK
<1> SUFFICES ASSUME Init PROVE TypeOK OBVIOUS
<1>1. BrokerTypeOK /\ StoreTypeOK
  BY SMT DEF Init, BrokerInit, StoreInit, BrokerTypeOK, StoreTypeOK, Places, Shelf
<1>2. ApiTypeOK
  BY SMT DEF Init, ApiInit, ApiTypeOK, Phases
<1>3. WorkerTypeOK
  BY SMT DEF Init, WorkerInit, WorkerTypeOK, Labels, Errors
<1>4. QueryTypeOK
  BY SMT DEF Init, QueryInit, QueryTypeOK, NoQuery, NoReply, RowStates
<1>5. faults \in 0 .. MaxFaults
  BY MaxFaultsAssumption, SMT DEF Init
<1> QED BY <1>1, <1>2, <1>3, <1>4, <1>5 DEF TypeOK

LEMMA TypeApi ==
  ASSUME TypeOK, NEW u \in Jobs, ApiStep(u)
  PROVE  TypeOK'
<1>1. BrokerTypeOK /\ ApiTypeOK /\ StoreTypeOK /\ WorkerTypeOK /\ QueryTypeOK
  BY DEF TypeOK
<1>2. BrokerTypeOK'
  <2>1. MessageBody(u) \in {"json", "invalid"}
    BY DEF MessageBody
  <2>2. Enqueue(u, MessageBody(u)) \/ UNCHANGED brokerVars
    BY DEF ApiStep, ReceiveUpload, UploadToStorage, PublishJob, AnswerUpload
  <2> QED BY <1>1, <2>1, <2>2, PublisherTypes, BrokerStutters
<1>3. ApiTypeOK'
  <2> USE <1>1 DEF ApiTypeOK, Phases, InFlight
  <2>1. CASE ReceiveUpload(u) BY <2>1, SMT DEF ReceiveUpload
  <2>2. CASE UploadToStorage(u) BY <2>2, SMT DEF UploadToStorage
  <2>3. CASE PublishJob(u) BY <2>3, SMT DEF PublishJob
  <2>4. CASE AnswerUpload(u) BY <2>4, SMT DEF AnswerUpload
  <2> QED BY <2>1, <2>2, <2>3, <2>4 DEF ApiStep
<1>4. StoreTypeOK' /\ WorkerTypeOK'
  BY <1>1 DEF ApiStep, StoreTypeOK, WorkerTypeOK, storeVars, workerVars
<1>5. QueryTypeOK' /\ (faults \in 0 .. MaxFaults)'
  BY <1>1 DEF ApiStep, QueryTypeOK, queryVars, TypeOK
<1> QED BY <1>2, <1>3, <1>4, <1>5 DEF TypeOK

LEMMA HandIsFull ==
  ASSUME TypeOK, HandInv, NEW w \in Workers, pc[w] # "idle"
  PROVE  cur[w] \in Jobs
BY DEF TypeOK, WorkerTypeOK, HandInv

LEMMA TypeHandle ==
  ASSUME TypeOK, HandInv, NEW w \in Workers, HandleStep(w)
  PROVE  BrokerTypeOK' /\ StoreTypeOK' /\ WorkerTypeOK'
<1>1. BrokerTypeOK /\ StoreTypeOK /\ WorkerTypeOK
  BY DEF TypeOK
<1>2. cur[w] \in Jobs
  BY HandIsFull DEF HandleStep, CreatePending, Detect, Inferred, Upsert, Save, Ack, Nack
<1>3. CASE CreatePending(w) \/ Detect(w) \/ Inferred(w) \/ Upsert(w) \/ Save(w)
  <2>1. BrokerTypeOK'
    BY <1>1, <1>3, BrokerStutters DEF CreatePending, Detect, Inferred, Upsert, Save
  <2>2. StoreTypeOK'
    <3>1. \/ CreatePendingJob(cur[w]) \/ UpsertJob(w, cur[w]) \/ CommitResult(w, cur[w])
          \/ Rollback(w) \/ UNCHANGED storeVars
      BY <1>3 DEF CreatePending, Detect, Inferred, Upsert, Save
    <3> QED BY <1>1, <1>2, <3>1, StoreTypes, RollbackTypes, StoreStutters
  <2>3. WorkerTypeOK'
    <3>1. (\E label \in Labels : Goto(w, label)) \/ (\E e \in Errors : Reject(w, e))
      BY <1>3, SMT DEF CreatePending, Detect, Inferred, Upsert, Save, Labels, Errors
    <3> QED BY <1>1, <3>1, GotoTypes, RejectTypes
  <2> QED BY <2>1, <2>2, <2>3
<1>4. CASE Ack(w) \/ Nack(w)
  <2>1. Settle(w, cur[w], "acked") \/ Settle(w, cur[w], "discarded")
    BY <1>4 DEF Ack, Nack
  <2>2. Finish(w)
    BY <1>4 DEF Ack, Nack
  <2>3. BrokerTypeOK'
    BY <1>1, <1>2, <2>1, ConsumerTypes
  <2>4. StoreTypeOK'
    BY <1>1, <2>2, StoreStutters DEF Finish
  <2>5. WorkerTypeOK'
    BY <1>1, <2>2, SMT DEF Finish, WorkerTypeOK, Labels, Errors
  <2> QED BY <2>3, <2>4, <2>5
<1> QED BY <1>3, <1>4 DEF HandleStep

LEMMA ExitTypes ==
  ASSUME BrokerTypeOK, WorkerTypeOK, NEW w \in Workers, Exit(w)
  PROVE  BrokerTypeOK' /\ WorkerTypeOK'
<1>1. BrokerTypeOK'
  BY LinkTypes DEF Exit
<1>2. WorkerTypeOK'
  BY SMT DEF Exit, WorkerTypeOK, Labels, Errors
<1> QED BY <1>1, <1>2

LEMMA TypeWorker ==
  ASSUME TypeOK, HandInv, NEW w \in Workers, WorkerStep(w)
  PROVE  TypeOK'
<1>1. BrokerTypeOK /\ ApiTypeOK /\ StoreTypeOK /\ WorkerTypeOK /\ QueryTypeOK
  BY DEF TypeOK
<1>2. BrokerTypeOK' /\ StoreTypeOK' /\ WorkerTypeOK'
  <2>1. CASE Start(w)
    <3>1. WorkerTypeOK' BY <1>1, <2>1, SMT DEF Start, WorkerTypeOK
    <3> QED BY <1>1, <2>1, <3>1, LinkTypes, StoreStutters DEF Start
  <2>2. CASE Stop(w)
    BY <1>1, <2>2, ExitTypes, StoreStutters DEF Stop
  <2>3. ASSUME NEW j \in Jobs, Deliver(w, j)
        PROVE  BrokerTypeOK' /\ StoreTypeOK' /\ WorkerTypeOK'
    <3>1. WorkerTypeOK' BY <1>1, <2>3, SMT DEF Deliver, WorkerTypeOK
    <3> QED BY <1>1, <2>3, <3>1, ConsumerTypes, StoreStutters DEF Deliver
  <2>4. ASSUME NEW j \in Jobs, Receive(w, j)
        PROVE  BrokerTypeOK' /\ StoreTypeOK' /\ WorkerTypeOK'
    <3>1. WorkerTypeOK'
      BY <1>1, <2>4, SMT DEF Receive, WorkerTypeOK, Labels, Errors
    <3> QED BY <1>1, <2>4, <3>1, BrokerStutters, StoreStutters DEF Receive
  <2>5. CASE HandleStep(w)
    BY <2>5, TypeHandle
  <2> QED BY <2>1, <2>2, <2>3, <2>4, <2>5 DEF WorkerStep
<1>3. ApiTypeOK' /\ QueryTypeOK' /\ (faults \in 0 .. MaxFaults)'
  BY <1>1 DEF WorkerStep, ApiTypeOK, QueryTypeOK, apiVars, queryVars, TypeOK
<1> QED BY <1>2, <1>3 DEF TypeOK

LEMMA TypeReader ==
  ASSUME TypeOK, NEW r \in Readers, ReaderStep(r)
  PROVE  TypeOK'
<1>1. BrokerTypeOK /\ ApiTypeOK /\ StoreTypeOK /\ WorkerTypeOK /\ QueryTypeOK
  BY DEF TypeOK
<1>2. UNCHANGED storeVars
  BY DEF ReaderStep, FindByJobID, Preload, QueryError
<1>3. QueryTypeOK'
  <2> USE <1>1 DEF QueryTypeOK, StoreTypeOK, RowStates, Answer, NoQuery
  <2>1. ASSUME NEW j \in Jobs, FindByJobID(r, j) PROVE QueryTypeOK'
    BY <2>1, SMT DEF FindByJobID
  <2>2. CASE Preload(r)
    <3>1. query[r].job \in Jobs /\ query[r].status \in RowStates
      BY <2>2, SMT DEF Preload
    <3> QED BY <2>2, <3>1, SMT DEF Preload
  <2>3. CASE QueryError(r)
    BY <2>3, SMT DEF QueryError
  <2> QED BY <2>1, <2>2, <2>3 DEF ReaderStep
<1>4. BrokerTypeOK' /\ ApiTypeOK' /\ StoreTypeOK' /\ WorkerTypeOK'
  BY <1>1, <1>2 DEF ReaderStep, BrokerTypeOK, ApiTypeOK, StoreTypeOK, WorkerTypeOK,
     brokerVars, apiVars, storeVars, workerVars
<1>5. (faults \in 0 .. MaxFaults)'
  BY DEF ReaderStep, TypeOK
<1> QED BY <1>3, <1>4, <1>5 DEF TypeOK

LEMMA TypeFault ==
  ASSUME TypeOK, Fault
  PROVE  TypeOK'
<1>1. BrokerTypeOK /\ ApiTypeOK /\ StoreTypeOK /\ WorkerTypeOK /\ QueryTypeOK
  BY DEF TypeOK
<1>2. ASSUME BrokerFault
      PROVE  BrokerTypeOK' /\ ApiTypeOK' /\ StoreTypeOK' /\ WorkerTypeOK'
  <2>1. BrokerTypeOK'
    BY <1>1, <1>2, BrokerFaultTypes DEF BrokerFault
  <2>2. ApiTypeOK' /\ StoreTypeOK' /\ WorkerTypeOK'
    BY <1>1, <1>2 DEF BrokerFault, ApiTypeOK, StoreTypeOK, WorkerTypeOK,
       apiVars, storeVars, workerVars
  <2> QED BY <2>1, <2>2
<1>3. ASSUME ApiFault
      PROVE  BrokerTypeOK' /\ ApiTypeOK' /\ StoreTypeOK' /\ WorkerTypeOK'
  <2>1. BrokerTypeOK' /\ ApiTypeOK'
    <3>1. CASE RestartApi
      <4>1. ApiTypeOK' BY <1>1, <3>1, SMT DEF RestartApi, ApiTypeOK, Phases, InFlight
      <4> QED BY <1>1, <3>1, <4>1, BrokerFaultTypes DEF RestartApi
    <3>2. ASSUME NEW u \in Jobs, PublishLost(u) PROVE BrokerTypeOK' /\ ApiTypeOK'
      <4>1. MessageBody(u) \in {"json", "invalid"} BY DEF MessageBody
      <4>2. BrokerTypeOK' BY <1>1, <3>2, <4>1, PublisherTypes DEF PublishLost
      <4>3. ApiTypeOK' BY <1>1, <3>2, SMT DEF PublishLost, ApiTypeOK, Phases, InFlight
      <4> QED BY <4>2, <4>3
    <3> QED BY <1>3, <3>1, <3>2 DEF ApiFault
  <2>2. StoreTypeOK' /\ WorkerTypeOK'
    BY <1>1, <1>3 DEF ApiFault, StoreTypeOK, WorkerTypeOK, storeVars, workerVars
  <2> QED BY <2>1, <2>2
<1>4. ASSUME NEW w \in Workers, WorkerFault(w)
      PROVE  BrokerTypeOK' /\ ApiTypeOK' /\ StoreTypeOK' /\ WorkerTypeOK'
  <2>1. ApiTypeOK'
    BY <1>1, <1>4 DEF WorkerFault, ApiTypeOK, apiVars
  <2>2. CASE Cancel(w)
    <3>1. WorkerTypeOK' BY <1>1, <2>2, SMT DEF Cancel, WorkerTypeOK
    <3> QED BY <1>1, <2>1, <2>2, <3>1, BrokerStutters, StoreStutters DEF Cancel
  <2>3. CASE Crash(w)
    BY <1>1, <2>1, <2>3, ExitTypes, RollbackTypes DEF Crash
  <2>4. CASE LoseLink(w)
    <3>1. WorkerTypeOK' BY <1>1, <2>4 DEF LoseLink, WorkerTypeOK, workerVars
    <3> QED BY <1>1, <2>1, <2>4, <3>1, LinkTypes, StoreStutters DEF LoseLink
  <2> QED BY <1>4, <2>2, <2>3, <2>4 DEF WorkerFault
<1>5. QueryTypeOK'
  BY <1>1 DEF Fault, QueryTypeOK, queryVars
<1>6. (faults \in 0 .. MaxFaults)'
  BY MaxFaultsAssumption, SMT DEF Fault, TypeOK
<1> QED BY <1>2, <1>3, <1>4, <1>5, <1>6 DEF Fault, TypeOK

LEMMA TypeStep ==
  ASSUME TypeOK, HandInv, [Next]_vars
  PROVE  TypeOK'
<1>1. CASE Next
  BY <1>1, TypeApi, TypeWorker, TypeReader, TypeFault DEF Next
<1>2. CASE UNCHANGED vars
  BY <1>2 DEF TypeOK, BrokerTypeOK, ApiTypeOK, StoreTypeOK, WorkerTypeOK, QueryTypeOK,
     vars, brokerVars, apiVars, storeVars, workerVars, queryVars
<1> QED BY <1>1, <1>2
-----------------------------------------------------------------------------
(* The hand of a worker. *)

LEMMA HandStep ==
  ASSUME TypeOK, TypeOK', HandInv, [Next]_vars
  PROVE  HandInv'
<1> USE DEF TypeOK, BrokerTypeOK, WorkerTypeOK, HandInv, brokerVars, workerVars
<1>1. ASSUME NEW u \in Jobs, ApiStep(u) PROVE HandInv'
  BY <1>1, SMT DEF ApiStep, ReceiveUpload, UploadToStorage, PublishJob, AnswerUpload, Enqueue
<1>2. ASSUME NEW w \in Workers, WorkerStep(w) PROVE HandInv'
  <2>1. CASE Start(w)
    BY <2>1, SMT DEF Start, OpenLink
  <2>2. CASE Stop(w)
    BY <2>2, SMT DEF Stop, Exit, CloseLink
  <2>3. ASSUME NEW j \in Jobs, Deliver(w, j) PROVE HandInv'
    BY <2>3, SMT DEF Deliver, HandOut
  <2>4. ASSUME NEW j \in Jobs, Receive(w, j) PROVE HandInv'
    BY <2>4, NoJobAssumption, SMT DEF Receive, Alive
  <2>5. CASE CreatePending(w)
    BY <2>5, SMT DEF CreatePending, Goto, Reject
  <2>6. CASE Detect(w) \/ Inferred(w)
    BY <2>6, SMT DEF Detect, Inferred, Goto, Reject
  <2>7. CASE Upsert(w) \/ Save(w)
    BY <2>7, SMT DEF Upsert, Save, Goto, Reject
  <2>8. CASE Ack(w) \/ Nack(w)
    BY <2>8, SMT DEF Ack, Nack, Finish, Settle
  <2> QED BY <1>2, <2>1, <2>2, <2>3, <2>4, <2>5, <2>6, <2>7, <2>8
          DEF WorkerStep, HandleStep
<1>3. ASSUME NEW r \in Readers, ReaderStep(r) PROVE HandInv'
  BY <1>3 DEF ReaderStep
<1>4. CASE Fault
  <2>1. CASE BrokerFault
    BY <2>1, SMT DEF BrokerFault, Restart, ClosePublisher
  <2>2. CASE ApiFault
    BY <2>2, SMT DEF ApiFault, RestartApi, OpenPublisher, PublishLost, LoseInTransit
  <2>3. ASSUME NEW w \in Workers, WorkerFault(w) PROVE HandInv'
    BY <2>3, SMT DEF WorkerFault, Cancel, Crash, Exit, LoseLink, CloseLink
  <2> QED BY <1>4, <2>1, <2>2, <2>3 DEF Fault
<1>5. CASE UNCHANGED vars
  BY <1>5 DEF vars
<1> QED BY <1>1, <1>2, <1>3, <1>4, <1>5 DEF Next
-----------------------------------------------------------------------------
(* The database: only worker steps write it, and a Crash undoes a          *)
(* transaction that is open.                                               *)

(* Everything that is not a worker's step or a worker's fault leaves the   *)
(* database and every worker's hand alone.                                 *)
LEMMA OthersKeepStore ==
  ASSUME [Next]_vars,
         ~ \E w \in Workers : WorkerStep(w) \/ WorkerFault(w)
  PROVE  UNCHANGED <<storeVars, workerVars>>
<1>1. ASSUME NEW u \in Jobs, ApiStep(u) PROVE UNCHANGED <<storeVars, workerVars>>
  BY <1>1 DEF ApiStep
<1>2. ASSUME NEW r \in Readers, ReaderStep(r) PROVE UNCHANGED <<storeVars, workerVars>>
  BY <1>2 DEF ReaderStep, FindByJobID, Preload, QueryError
<1>3. CASE Fault
  BY <1>3 DEF Fault, BrokerFault, ApiFault
<1>4. CASE UNCHANGED vars
  BY <1>4 DEF vars
<1> QED BY <1>1, <1>2, <1>3, <1>4 DEF Next

LEMMA StoreStep ==
  ASSUME TypeOK, HandInv, HandInv', StoreInv, [Next]_vars
  PROVE  StoreInv'
<1> USE NoJobAssumption, NoWorkerAssumption
    DEF TypeOK, StoreTypeOK, WorkerTypeOK, HandInv, StoreInv, PastCreate,
        storeVars, workerVars
<1>1. ASSUME NEW w \in Workers, WorkerStep(w) PROVE StoreInv'
  <2>1. CASE Start(w)
    BY <2>1, SMT DEF Start
  <2>2. CASE Stop(w)
    BY <2>2, SMT DEF Stop, Exit
  <2>3. ASSUME NEW j \in Jobs, Deliver(w, j) PROVE StoreInv'
    BY <2>3, SMT DEF Deliver
  <2>4. ASSUME NEW j \in Jobs, Receive(w, j) PROVE StoreInv'
    BY <2>4, SMT DEF Receive
  <2>5. CASE CreatePending(w)
    BY <2>5, SMT DEF CreatePending, CreatePendingJob, Goto, Reject
  <2>6. CASE Detect(w) \/ Inferred(w)
    BY <2>6, SMT DEF Detect, Inferred, Goto, Reject
  <2>7. CASE Upsert(w)
    BY <2>7, SMT DEF Upsert, UpsertJob, Goto, Reject
  <2>8. CASE Save(w)
    BY <2>8, SMT DEF Save, CommitResult, Rollback, Goto, Reject
  <2>9. CASE Ack(w) \/ Nack(w)
    BY <2>9, SMT DEF Ack, Nack, Finish
  <2> QED BY <1>1, <2>1, <2>2, <2>3, <2>4, <2>5, <2>6, <2>7, <2>8, <2>9
          DEF WorkerStep, HandleStep
<1>2. ASSUME NEW w \in Workers, WorkerFault(w) PROVE StoreInv'
  <2>1. CASE Cancel(w)
    BY <2>1, SMT DEF Cancel
  <2>2. CASE Crash(w)
    BY <2>2, SMT DEF Crash, Exit, Rollback
  <2>3. CASE LoseLink(w)
    BY <2>3, SMT DEF LoseLink
  <2> QED BY <1>2, <2>1, <2>2, <2>3 DEF WorkerFault
<1>3. CASE UNCHANGED <<storeVars, workerVars>>
  BY <1>3
<1> QED BY <1>1, <1>2, <1>3, OthersKeepStore

LEMMA CompletedStep ==
  ASSUME TypeOK, HandInv, CompletedIffResults, [Next]_vars
  PROVE  CompletedIffResults'
<1> USE DEF TypeOK, StoreTypeOK, CompletedIffResults, storeVars
<1>1. ASSUME NEW w \in Workers, HandleStep(w) PROVE CompletedIffResults'
  <2>1. cur[w] \in Jobs
    BY <1>1, HandIsFull
       DEF HandleStep, CreatePending, Detect, Inferred, Upsert, Save, Ack, Nack
  <2>2. CASE CreatePending(w)
    BY <2>1, <2>2, SMT DEF CreatePending, CreatePendingJob
  <2>3. CASE Upsert(w)
    BY <2>3, SMT DEF Upsert, UpsertJob
  <2>4. CASE Save(w)
    BY <2>1, <2>4, SMT DEF Save, CommitResult, Rollback
  <2>5. CASE Detect(w) \/ Inferred(w) \/ Ack(w) \/ Nack(w)
    BY <2>5, SMT DEF Detect, Inferred, Ack, Nack, Finish
  <2> QED BY <1>1, <2>2, <2>3, <2>4, <2>5 DEF HandleStep
<1>2. ASSUME NEW w \in Workers, WorkerStep(w), ~HandleStep(w) PROVE CompletedIffResults'
  BY <1>2, SMT DEF WorkerStep, Start, Stop, Deliver, Receive
<1>3. ASSUME NEW w \in Workers, WorkerFault(w) PROVE CompletedIffResults'
  BY <1>3, SMT DEF WorkerFault, Cancel, Crash, LoseLink, Rollback
<1>4. CASE UNCHANGED <<storeVars, workerVars>>
  BY <1>4
<1> QED BY <1>1, <1>2, <1>3, <1>4, OthersKeepStore
-----------------------------------------------------------------------------
(* Where things come from. *)

LEMMA OriginStep ==
  ASSUME TypeOK, HandInv, OriginInv, [Next]_vars
  PROVE  OriginInv'
<1> USE NoJobAssumption, ShelfAssumption
    DEF TypeOK, BrokerTypeOK, StoreTypeOK, ApiTypeOK, WorkerTypeOK, HandInv, OriginInv,
        Shelf, brokerVars, storeVars, apiVars, workerVars
<1>1. ASSUME NEW u \in Jobs, ApiStep(u) PROVE OriginInv'
  <2>1. CASE ReceiveUpload(u)
    BY <1>1, <2>1, SMT DEF ApiStep, ReceiveUpload
  <2>2. CASE UploadToStorage(u)
    BY <1>1, <2>2, SMT DEF ApiStep, UploadToStorage
  <2>3. CASE PublishJob(u)
    BY <1>1, <2>3, SMT DEF ApiStep, PublishJob, Enqueue
  <2>4. CASE AnswerUpload(u)
    BY <1>1, <2>4, SMT DEF ApiStep, AnswerUpload
  <2> QED BY <1>1, <2>1, <2>2, <2>3, <2>4 DEF ApiStep
<1>2. ASSUME NEW w \in Workers, WorkerStep(w) PROVE OriginInv'
  <2>1. CASE Start(w)
    BY <1>2, <2>1, SMT DEF WorkerStep, Start, OpenLink
  <2>2. CASE Stop(w)
    BY <1>2, <2>2, SMT DEF WorkerStep, Stop, Exit, CloseLink, Requeue
  <2>3. ASSUME NEW j \in Jobs, Deliver(w, j) PROVE OriginInv'
    BY <1>2, <2>3, SMT DEF WorkerStep, Deliver, HandOut
  <2>4. ASSUME NEW j \in Jobs, Receive(w, j) PROVE OriginInv'
    BY <1>2, <2>4, SMT DEF WorkerStep, Receive
  <2>5. CASE CreatePending(w)
    BY <1>2, <2>5, SMT DEF WorkerStep, CreatePending, CreatePendingJob, Goto, Reject
  <2>6. CASE Detect(w) \/ Inferred(w)
    BY <1>2, <2>6, SMT DEF WorkerStep, Detect, Inferred, Goto, Reject
  <2>7. CASE Upsert(w)
    BY <1>2, <2>7, SMT DEF WorkerStep, Upsert, UpsertJob, Goto, Reject
  <2>8. CASE Save(w)
    BY <1>2, <2>8, SMT DEF WorkerStep, Save, CommitResult, Rollback, Goto, Reject
  <2>9. CASE Ack(w) \/ Nack(w)
    BY <1>2, <2>9, SMT DEF WorkerStep, Ack, Nack, Finish, Settle
  <2> QED BY <1>2, <2>1, <2>2, <2>3, <2>4, <2>5, <2>6, <2>7, <2>8, <2>9
          DEF WorkerStep, HandleStep
<1>3. ASSUME NEW r \in Readers, ReaderStep(r) PROVE OriginInv'
  BY <1>3 DEF ReaderStep, FindByJobID, Preload, QueryError
<1>4. CASE Fault
  <2>1. CASE BrokerFault
    BY <2>1, SMT DEF BrokerFault, Restart, Unsettled, ClosePublisher
  <2>2. CASE ApiFault
    <3>1. CASE RestartApi
      BY <2>2, <3>1, SMT DEF ApiFault, RestartApi, OpenPublisher, InFlight
    <3>2. ASSUME NEW u \in Jobs, PublishLost(u) PROVE OriginInv'
      BY <2>2, <3>2, SMT DEF ApiFault, PublishLost, LoseInTransit
    <3> QED BY <2>2, <3>1, <3>2 DEF ApiFault
  <2>3. ASSUME NEW w \in Workers, WorkerFault(w) PROVE OriginInv'
    <3>1. CASE Cancel(w)
      BY <2>3, <3>1, SMT DEF WorkerFault, Cancel
    <3>2. CASE Crash(w)
      BY <2>3, <3>2, SMT DEF WorkerFault, Crash, Exit, CloseLink, Requeue, Rollback
    <3>3. CASE LoseLink(w)
      BY <2>3, <3>3, SMT DEF WorkerFault, LoseLink, CloseLink, Requeue
    <3> QED BY <2>3, <3>1, <3>2, <3>3 DEF WorkerFault
  <2> QED BY <1>4, <2>1, <2>2, <2>3 DEF Fault
<1>5. CASE UNCHANGED vars
  BY <1>5 DEF vars
<1> QED BY <1>1, <1>2, <1>3, <1>4, <1>5 DEF Next
-----------------------------------------------------------------------------
(* Who has a message. *)

LEMMA CustodyStep ==
  ASSUME TypeOK, HandInv, OriginInv, CustodyInv, [Next]_vars
  PROVE  CustodyInv'
<1> USE NoJobAssumption, ShelfAssumption
    DEF TypeOK, BrokerTypeOK, WorkerTypeOK, HandInv, OriginInv, CustodyInv,
        Shelf, brokerVars, workerVars
<1>1. ASSUME NEW u \in Jobs, ApiStep(u) PROVE CustodyInv'
  <2>1. CASE PublishJob(u)
    BY <1>1, <2>1, SMT DEF ApiStep, PublishJob, Enqueue
  <2>2. CASE ReceiveUpload(u) \/ UploadToStorage(u) \/ AnswerUpload(u)
    BY <1>1, <2>2, SMT DEF ApiStep, ReceiveUpload, UploadToStorage, AnswerUpload
  <2> QED BY <1>1, <2>1, <2>2 DEF ApiStep
<1>2. ASSUME NEW w \in Workers, WorkerStep(w) PROVE CustodyInv'
  <2>1. CASE Start(w)
    BY <2>1, SMT DEF Start, OpenLink
  <2>2. CASE Stop(w)
    BY <2>2, SMT DEF Stop, Exit, CloseLink, Requeue
  <2>3. ASSUME NEW j \in Jobs, Deliver(w, j) PROVE CustodyInv'
    BY <2>3, SMT DEF Deliver, HandOut
  <2>4. ASSUME NEW j \in Jobs, Receive(w, j) PROVE CustodyInv'
    BY <2>4, SMT DEF Receive
  <2>5. CASE CreatePending(w) \/ Detect(w) \/ Inferred(w) \/ Upsert(w) \/ Save(w)
    BY <2>5, SMT DEF CreatePending, Detect, Inferred, Upsert, Save, Goto, Reject
  <2>6. CASE Ack(w) \/ Nack(w)
    BY <2>6, SMT DEF Ack, Nack, Finish, Settle
  <2> QED BY <1>2, <2>1, <2>2, <2>3, <2>4, <2>5, <2>6 DEF WorkerStep, HandleStep
<1>3. ASSUME NEW r \in Readers, ReaderStep(r) PROVE CustodyInv'
  BY <1>3 DEF ReaderStep
<1>4. CASE Fault
  <2>1. CASE BrokerFault
    BY <2>1, SMT DEF BrokerFault, Restart, Unsettled, ClosePublisher
  <2>2. CASE ApiFault
    <3>1. CASE RestartApi
      BY <2>2, <3>1, SMT DEF ApiFault, RestartApi, OpenPublisher
    <3>2. ASSUME NEW u \in Jobs, PublishLost(u) PROVE CustodyInv'
      BY <2>2, <3>2, SMT DEF ApiFault, PublishLost, LoseInTransit
    <3> QED BY <2>2, <3>1, <3>2 DEF ApiFault
  <2>3. ASSUME NEW w \in Workers, WorkerFault(w) PROVE CustodyInv'
    <3>1. CASE Cancel(w)
      BY <3>1, SMT DEF Cancel
    <3>2. CASE Crash(w)
      BY <3>2, SMT DEF Crash, Exit, CloseLink, Requeue
    <3>3. CASE LoseLink(w)
      BY <3>3, SMT DEF LoseLink, CloseLink, Requeue
    <3> QED BY <2>3, <3>1, <3>2, <3>3 DEF WorkerFault
  <2> QED BY <1>4, <2>1, <2>2, <2>3 DEF Fault
<1>5. CASE UNCHANGED vars
  BY <1>5 DEF vars
<1> QED BY <1>1, <1>2, <1>3, <1>4, <1>5 DEF Next
-----------------------------------------------------------------------------
(* What is acknowledged, and what is queued. *)

(* A place becomes "acked" only by the Ack of the worker that has the job  *)
(* in its hand.                                                            *)
LEMMA OnlyAckSettlesAsAcked ==
  ASSUME TypeOK, HandInv, [Next]_vars,
         NEW j \in Jobs, place[j] # "acked", place'[j] = "acked"
  PROVE  \E w \in Workers : Ack(w) /\ cur[w] = j
<1> USE ShelfAssumption DEF TypeOK, BrokerTypeOK, Shelf, brokerVars
<1>1. ASSUME NEW u \in Jobs, ApiStep(u) PROVE FALSE
  BY <1>1, SMT DEF ApiStep, ReceiveUpload, UploadToStorage, PublishJob, AnswerUpload, Enqueue
<1>2. ASSUME NEW w \in Workers, WorkerStep(w) PROVE Ack(w) /\ cur[w] = j
  <2>1. CASE Ack(w)
    BY <2>1, SMT DEF Ack, Settle
  <2>2. CASE Nack(w)
    BY <2>2, SMT DEF Nack, Settle
  <2>3. CASE Start(w) \/ Stop(w)
    BY <2>3, SMT DEF Start, OpenLink, Stop, Exit, CloseLink, Requeue
  <2>4. ASSUME NEW i \in Jobs, Deliver(w, i) \/ Receive(w, i) PROVE FALSE
    BY <2>4, SMT DEF Deliver, HandOut, Receive
  <2>5. CASE CreatePending(w) \/ Detect(w) \/ Inferred(w) \/ Upsert(w) \/ Save(w)
    BY <2>5, SMT DEF CreatePending, Detect, Inferred, Upsert, Save
  <2> QED BY <1>2, <2>1, <2>2, <2>3, <2>4, <2>5 DEF WorkerStep, HandleStep
<1>3. ASSUME NEW r \in Readers, ReaderStep(r) PROVE FALSE
  BY <1>3, SMT DEF ReaderStep
<1>4. CASE Fault
  <2>1. CASE BrokerFault
    BY <2>1, SMT DEF BrokerFault, Restart, ClosePublisher
  <2>2. CASE ApiFault
    BY <2>2, SMT DEF ApiFault, RestartApi, OpenPublisher, PublishLost, LoseInTransit
  <2>3. ASSUME NEW w \in Workers, WorkerFault(w) PROVE FALSE
    BY <2>3, SMT DEF WorkerFault, Cancel, Crash, Exit, LoseLink, CloseLink, Requeue
  <2> QED BY <1>4, <2>1, <2>2, <2>3 DEF Fault
<1>5. CASE UNCHANGED vars
  BY <1>5 DEF vars
<1> QED BY <1>1, <1>2, <1>3, <1>4, <1>5 DEF Next

(* A row that says "completed" says so for ever, and batches only grow.    *)
LEMMA CompletedStays ==
  ASSUME TypeOK, HandInv, [Next]_vars, NEW j \in Jobs
  PROVE  /\ status[j] = "completed" => status'[j] = "completed"
         /\ batches'[j] >= batches[j]
<1> DEFINE Kept == /\ status[j] = "completed" => status'[j] = "completed"
                   /\ batches'[j] >= batches[j]
<1> USE DEF TypeOK, StoreTypeOK, storeVars
<1>1. ASSUME NEW w \in Workers, HandleStep(w) PROVE Kept
  <2>1. cur[w] \in Jobs
    BY <1>1, HandIsFull
       DEF HandleStep, CreatePending, Detect, Inferred, Upsert, Save, Ack, Nack
  <2>2. CASE CreatePending(w)
    BY <2>1, <2>2, SMT DEF CreatePending, CreatePendingJob
  <2>3. CASE Upsert(w)
    BY <2>3, SMT DEF Upsert, UpsertJob
  <2>4. CASE Save(w)
    BY <2>1, <2>4, SMT DEF Save, CommitResult, Rollback
  <2>5. CASE Detect(w) \/ Inferred(w) \/ Ack(w) \/ Nack(w)
    BY <2>5, SMT DEF Detect, Inferred, Ack, Nack, Finish
  <2> QED BY <1>1, <2>2, <2>3, <2>4, <2>5 DEF HandleStep
<1>2. ASSUME NEW w \in Workers, WorkerStep(w), ~HandleStep(w) PROVE Kept
  BY <1>2, SMT DEF WorkerStep, Start, Stop, Deliver, Receive
<1>3. ASSUME NEW w \in Workers, WorkerFault(w) PROVE Kept
  BY <1>3, SMT DEF WorkerFault, Cancel, Crash, LoseLink, Rollback
<1>4. CASE UNCHANGED <<storeVars, workerVars>>
  BY <1>4, SMT
<1> QED BY <1>1, <1>2, <1>3, <1>4, OthersKeepStore

LEMMA AckedStep ==
  ASSUME TypeOK, HandInv, StoreInv, AckedIsStored, [Next]_vars
  PROVE  AckedIsStored'
<1> SUFFICES ASSUME NEW j \in Jobs, place'[j] = "acked"
             PROVE  status'[j] = "completed"
  BY DEF AckedIsStored
<1>1. CASE place[j] = "acked"
  BY <1>1, CompletedStays DEF AckedIsStored
<1>2. CASE place[j] # "acked"
  <2>1. PICK w \in Workers : Ack(w) /\ cur[w] = j
    BY <1>2, OnlyAckSettlesAsAcked
  <2> QED BY <2>1, CompletedStays DEF StoreInv, Ack
<1> QED BY <1>1, <1>2

LEMMA ImageStep ==
  ASSUME TypeOK, HandInv, OriginInv, QueuedHasImage, [Next]_vars
  PROVE  QueuedHasImage'
<1> USE ShelfAssumption
    DEF TypeOK, BrokerTypeOK, ApiTypeOK, OriginInv, QueuedHasImage, Shelf, brokerVars, apiVars
<1>1. ASSUME NEW u \in Jobs, ApiStep(u) PROVE QueuedHasImage'
  <2>1. CASE PublishJob(u)
    BY <2>1, SMT DEF PublishJob, Enqueue
  <2>2. CASE ReceiveUpload(u) \/ UploadToStorage(u) \/ AnswerUpload(u)
    BY <2>2, SMT DEF ReceiveUpload, UploadToStorage, AnswerUpload, Urls
  <2> QED BY <1>1, <2>1, <2>2 DEF ApiStep
<1>2. ASSUME NEW w \in Workers, WorkerStep(w) PROVE QueuedHasImage'
  <2>1. CASE Start(w) \/ Stop(w)
    BY <1>2, <2>1, SMT DEF WorkerStep, Start, OpenLink, Stop, Exit, CloseLink, Requeue
  <2>2. ASSUME NEW j \in Jobs, Deliver(w, j) \/ Receive(w, j) PROVE QueuedHasImage'
    BY <1>2, <2>2, SMT DEF WorkerStep, Deliver, HandOut, Receive
  <2>3. CASE CreatePending(w) \/ Detect(w) \/ Inferred(w) \/ Upsert(w) \/ Save(w)
    BY <1>2, <2>3, SMT DEF WorkerStep, CreatePending, Detect, Inferred, Upsert, Save
  <2>4. CASE Ack(w) \/ Nack(w)
    <3>1. place[cur[w]] = w => cur[w] \in Jobs /\ place[cur[w]] # "unpublished"
      BY <2>4, HandIsFull DEF Ack, Nack
    <3> QED BY <1>2, <2>4, <3>1, SMT DEF WorkerStep, Ack, Nack, Settle
  <2> QED BY <1>2, <2>1, <2>2, <2>3, <2>4 DEF WorkerStep, HandleStep
<1>3. ASSUME NEW r \in Readers, ReaderStep(r) PROVE QueuedHasImage'
  BY <1>3 DEF ReaderStep
<1>4. CASE Fault
  <2>1. CASE BrokerFault
    BY <2>1, SMT DEF BrokerFault, Restart, Unsettled, ClosePublisher
  <2>2. CASE ApiFault
    BY <2>2, SMT DEF ApiFault, RestartApi, InFlight, OpenPublisher, PublishLost, LoseInTransit
  <2>3. ASSUME NEW w \in Workers, WorkerFault(w) PROVE QueuedHasImage'
    BY <2>3, SMT DEF WorkerFault, Cancel, Crash, Exit, LoseLink, CloseLink, Requeue
  <2> QED BY <1>4, <2>1, <2>2, <2>3 DEF Fault
<1>5. CASE UNCHANGED vars
  BY <1>5 DEF vars
<1> QED BY <1>1, <1>2, <1>3, <1>4, <1>5 DEF Next
-----------------------------------------------------------------------------
(* The inductive invariant. *)

LEMMA InvInit == Init => IInv
<1> SUFFICES ASSUME Init PROVE IInv OBVIOUS
<1>1. TypeOK
  BY TypeInit
<1>2. HandInv /\ StoreInv
  BY NoJobAssumption, NoWorkerAssumption, SMT
     DEF Init, BrokerInit, StoreInit, WorkerInit, HandInv, StoreInv, PastCreate
<1>3. OriginInv /\ CustodyInv
  BY NoJobAssumption, ShelfAssumption, SMT
     DEF Init, BrokerInit, StoreInit, ApiInit, WorkerInit, OriginInv, CustodyInv, Shelf
<1>4. AckedIsStored /\ CompletedIffResults /\ QueuedHasImage
  BY SMT DEF Init, BrokerInit, StoreInit, ApiInit, AckedIsStored, CompletedIffResults,
     QueuedHasImage
<1> QED BY <1>1, <1>2, <1>3, <1>4 DEF IInv

LEMMA InvStep == IInv /\ [Next]_vars => IInv'
<1> SUFFICES ASSUME IInv, [Next]_vars PROVE IInv' OBVIOUS
<1>1. /\ TypeOK /\ HandInv /\ StoreInv /\ OriginInv /\ CustodyInv
      /\ AckedIsStored /\ CompletedIffResults /\ QueuedHasImage
  BY DEF IInv
<1>2. TypeOK' BY <1>1, TypeStep
<1>3. HandInv' BY <1>1, <1>2, HandStep
<1>4. StoreInv' BY <1>1, <1>3, StoreStep
<1>5. OriginInv' /\ CustodyInv' BY <1>1, OriginStep, CustodyStep
<1>6. AckedIsStored' /\ CompletedIffResults' BY <1>1, AckedStep, CompletedStep
<1>7. QueuedHasImage' BY <1>1, ImageStep
<1> QED BY <1>2, <1>3, <1>4, <1>5, <1>6, <1>7 DEF IInv

(* IInv holds in every reachable state of the pipeline: what a worker, the *)
(* broker, the database and the API each believe about a job fits together.*)
THEOREM Invariance == Spec => []IInv
BY InvInit, InvStep, PTL DEF Spec

(* Every variable keeps its type.                                          *)
THEOREM TypeCorrect == Spec => []TypeOK
<1>1. IInv => TypeOK BY DEF IInv
<1> QED BY <1>1, Invariance, PTL

(* No worker acknowledges a message whose result is not committed.         *)
THEOREM AckedStored == Spec => []AckedIsStored
<1>1. IInv => AckedIsStored BY DEF IInv
<1> QED BY <1>1, Invariance, PTL

(* Status and predictions are committed together or not at all.            *)
THEOREM ResultsAreAtomic == Spec => []CompletedIffResults
<1>1. IInv => CompletedIffResults BY DEF IInv
<1> QED BY <1>1, Invariance, PTL

(* Nothing is queued before its image is stored.                           *)
THEOREM ImagesFirst == Spec => []QueuedHasImage
<1>1. IInv => QueuedHasImage BY DEF IInv
<1> QED BY <1>1, Invariance, PTL

(* An upload answered with an error has queued nothing.                    *)
THEOREM FailuresQueueNothing == Spec => []FailedIsNotQueued
<1>1. IInv => FailedIsNotQueued
  BY DEF IInv, OriginInv, FailedIsNotQueued
<1> QED BY <1>1, Invariance, PTL

(* No two connected workers ever have the same message.                    *)
THEOREM HandlingIsExclusive == Spec => []ExclusiveHandling
<1>1. IInv => ExclusiveHandling
  BY DEF IInv, CustodyInv, ExclusiveHandling, Holds
<1> QED BY <1>1, Invariance, PTL

(* A message the broker is rid of stays so.                                *)
LEMMA SettledStays ==
  ASSUME IInv, [Next]_vars, NEW j \in Jobs, place[j] \in {"acked", "discarded", "lost"}
  PROVE  place'[j] = place[j]
<1> USE ShelfAssumption
    DEF IInv, TypeOK, BrokerTypeOK, OriginInv, Shelf, brokerVars
<1>1. ASSUME NEW u \in Jobs, ApiStep(u) PROVE place'[j] = place[j]
  <2>1. CASE PublishJob(u)
    BY <2>1, SMT DEF PublishJob, Enqueue
  <2>2. CASE ReceiveUpload(u) \/ UploadToStorage(u) \/ AnswerUpload(u)
    BY <2>2 DEF ReceiveUpload, UploadToStorage, AnswerUpload
  <2> QED BY <1>1, <2>1, <2>2 DEF ApiStep
<1>2. ASSUME NEW w \in Workers, WorkerStep(w) PROVE place'[j] = place[j]
  <2>1. CASE Ack(w) \/ Nack(w)
    BY <2>1, SMT DEF Ack, Nack, Settle
  <2>2. CASE Start(w) \/ Stop(w)
    BY <2>2, SMT DEF Start, OpenLink, Stop, Exit, CloseLink, Requeue
  <2>3. ASSUME NEW i \in Jobs, Deliver(w, i) \/ Receive(w, i) PROVE place'[j] = place[j]
    BY <2>3, SMT DEF Deliver, HandOut, Receive
  <2>4. CASE CreatePending(w) \/ Detect(w) \/ Inferred(w) \/ Upsert(w) \/ Save(w)
    BY <2>4 DEF CreatePending, Detect, Inferred, Upsert, Save
  <2> QED BY <1>2, <2>1, <2>2, <2>3, <2>4 DEF WorkerStep, HandleStep
<1>3. ASSUME NEW r \in Readers, ReaderStep(r) PROVE place'[j] = place[j]
  BY <1>3 DEF ReaderStep
<1>4. CASE Fault
  <2>1. CASE BrokerFault
    BY <2>1, SMT DEF BrokerFault, Restart, Unsettled, ClosePublisher
  <2>2. CASE ApiFault
    BY <2>2, SMT DEF ApiFault, RestartApi, OpenPublisher, PublishLost, LoseInTransit
  <2>3. ASSUME NEW w \in Workers, WorkerFault(w) PROVE place'[j] = place[j]
    BY <2>3, SMT DEF WorkerFault, Cancel, Crash, Exit, LoseLink, CloseLink, Requeue
  <2> QED BY <1>4, <2>1, <2>2, <2>3 DEF Fault
<1>5. CASE UNCHANGED vars
  BY <1>5 DEF vars
<1> QED BY <1>1, <1>2, <1>3, <1>4, <1>5 DEF Next

(* Nothing that has been achieved for a job is undone.                     *)
THEOREM NothingRegresses == Spec => NoRegression
<1> DEFINE Step == \A j \in Jobs :
                     /\ status[j] = "completed" => status'[j] = "completed"
                     /\ batches'[j] >= batches[j]
                     /\ place[j] \in {"acked", "discarded", "lost"} => place'[j] = place[j]
<1>1. IInv /\ [Next]_vars => Step
  <2> SUFFICES ASSUME IInv, [Next]_vars PROVE Step OBVIOUS
  <2>1. TypeOK /\ HandInv BY DEF IInv
  <2> QED BY <2>1, CompletedStays, SettledStays
<1>2. IInv /\ [Next]_vars => [Step]_vars
  BY <1>1
<1> QED BY <1>2, Invariance, PTL DEF Spec, NoRegression
-----------------------------------------------------------------------------
(* The pipeline implements JobLedger. *)

LEMMA TicketNow ==
  ASSUME TypeOK, NEW j \in Jobs
  PROVE  /\ place[j] = "unpublished" <=> Ticket[j] = "none"
         /\ Unsettled(j) <=> Ticket[j] = "open"
         /\ place[j] = "acked" <=> Ticket[j] = "done"
         /\ place[j] \in {"discarded", "lost"} <=> Ticket[j] = "dropped"
BY ShelfAssumption, SMT DEF TypeOK, BrokerTypeOK, Places, Shelf, Ticket, Unsettled

LEMMA TicketNext ==
  ASSUME TypeOK', NEW j \in Jobs
  PROVE  /\ place'[j] = "unpublished" <=> Ticket'[j] = "none"
         /\ (place'[j] = "ready" \/ place'[j] \in Workers) <=> Ticket'[j] = "open"
         /\ place'[j] = "acked" <=> Ticket'[j] = "done"
         /\ place'[j] \in {"discarded", "lost"} <=> Ticket'[j] = "dropped"
BY ShelfAssumption, SMT DEF TypeOK, BrokerTypeOK, Places, Shelf, Ticket, Unsettled

(* A step that moves messages only between the queue and the workers does  *)
(* not show in the tickets.                                                *)
LEMMA TicketKept ==
  ASSUME TypeOK, TypeOK',
         \A j \in Jobs : \/ place'[j] = place[j]
                        \/ /\ place[j] = "ready" \/ place[j] \in Workers
                           /\ place'[j] = "ready" \/ place'[j] \in Workers
  PROVE  Ticket' = Ticket
<1>1. \A j \in Jobs : Ticket'[j] = Ticket[j]
  <2> SUFFICES ASSUME NEW j \in Jobs PROVE Ticket'[j] = Ticket[j] OBVIOUS
  <2>1. CASE place'[j] = place[j]
    BY <2>1 DEF Ticket, Unsettled
  <2>2. CASE place'[j] # place[j]
    BY <2>2, TicketNow, TicketNext DEF Unsettled
  <2> QED BY <2>1, <2>2
<1> QED BY <1>1 DEF Ticket

(* When one message moves, one ticket changes.                             *)
LEMMA TicketMoves ==
  ASSUME NEW u \in Jobs, \A j \in Jobs \ {u} : place'[j] = place[j]
  PROVE  Ticket' = [Ticket EXCEPT ![u] = Ticket'[u]]
<1>1. \A j \in Jobs \ {u} : Ticket'[j] = Ticket[j]
  BY DEF Ticket, Unsettled
<1>2. Ticket = [j \in Jobs |-> Ticket[j]] /\ Ticket' = [j \in Jobs |-> Ticket'[j]]
  BY DEF Ticket
<1> QED BY <1>1, <1>2, SMT

LEMMA LedgerInit == Init => Ledger!Init
<1> SUFFICES ASSUME Init PROVE Ledger!Init OBVIOUS
<1>1. \A j \in Jobs : Ticket[j] = "none"
  BY TypeInit, TicketNow DEF Init, BrokerInit
<1>2. Ticket = [j \in Jobs |-> Ticket[j]]
  BY DEF Ticket
<1> QED BY <1>1, <1>2 DEF Init, StoreInit, Ledger!Init

LEMMA LedgerApi ==
  ASSUME IInv, IInv', NEW u \in Jobs, ApiStep(u)
  PROVE  Ledger!Next \/ UNCHANGED Ledger!vars
<1> USE DEF IInv, TypeOK, BrokerTypeOK, brokerVars, storeVars
<1>1. CASE PublishJob(u) /\ publisher = "open"
  <2>1. place[u] = "unpublished" /\ place' = [place EXCEPT ![u] = "ready"]
    BY <1>1, SMT DEF PublishJob, Enqueue, OriginInv
  <2>2. Ticket' = [Ticket EXCEPT ![u] = "open"]
    <3>1. place'[u] = "ready" /\ \A j \in Jobs \ {u} : place'[j] = place[j]
      BY <2>1, SMT
    <3> QED BY <3>1, TicketMoves, TicketNext
  <2>3. Ticket[u] = "none"
    BY <2>1, TicketNow
  <2>4. Ledger!Submit(u)
    BY <2>2, <2>3, SMT DEF ApiStep, Ledger!Submit
  <2> QED BY <2>4 DEF Ledger!Next
<1>2. CASE ~ (PublishJob(u) /\ publisher = "open")
  <2>1. UNCHANGED <<place, status, batches>>
    BY <1>2 DEF ApiStep, ReceiveUpload, UploadToStorage, PublishJob, AnswerUpload
  <2> QED BY <2>1, TicketKept DEF Ledger!vars
<1> QED BY <1>1, <1>2

LEMMA LedgerHandle ==
  ASSUME IInv, IInv', NEW w \in Workers, HandleStep(w)
  PROVE  Ledger!Next \/ UNCHANGED Ledger!vars
<1> USE DEF IInv, TypeOK, BrokerTypeOK, StoreTypeOK, brokerVars, storeVars
<1>1. cur[w] \in Jobs
  BY HandIsFull DEF HandleStep, CreatePending, Detect, Inferred, Upsert, Save, Ack, Nack
<1>2. CASE CreatePending(w)
  <2>1. Ticket' = Ticket
    BY <1>2, TicketKept DEF CreatePending
  <2>2. Ticket[cur[w]] # "none"
    BY <1>1, TicketNow DEF OriginInv
  <2>3. CASE status[cur[w]] = "absent" /\ CreatePendingJob(cur[w])
    <3>1. status' = [status EXCEPT ![cur[w]] = "pending"]
      BY <2>3, SMT DEF CreatePendingJob
    <3>2. Ledger!OpenEntry(cur[w])
      BY <2>1, <2>2, <2>3, <3>1 DEF CreatePendingJob, Ledger!OpenEntry
    <3> QED BY <1>1, <3>2 DEF Ledger!Next
  <2>4. CASE ~ (status[cur[w]] = "absent" /\ CreatePendingJob(cur[w]))
    BY <1>1, <1>2, <2>1, <2>4, SMT DEF CreatePending, CreatePendingJob, Ledger!vars
  <2> QED BY <2>3, <2>4
<1>3. CASE Save(w)
  <2>1. Ticket' = Ticket
    BY <1>3, TicketKept DEF Save
  <2>2. CASE CommitResult(w, cur[w])
    <3>1. status[cur[w]] # "absent"
      BY <1>3 DEF Save, StoreInv, PastCreate
    <3>2. Ledger!Record(cur[w])
      BY <2>1, <2>2, <3>1 DEF CommitResult, Ledger!Record
    <3> QED BY <1>1, <3>2 DEF Ledger!Next
  <2>3. CASE Rollback(w)
    BY <2>1, <2>3, SMT DEF Rollback, Ledger!vars
  <2> QED BY <1>3, <2>2, <2>3 DEF Save
<1>4. CASE Detect(w) \/ Inferred(w) \/ Upsert(w)
  <2>1. UNCHANGED <<place, status, batches>>
    BY <1>4 DEF Detect, Inferred, Upsert, UpsertJob
  <2> QED BY <2>1, TicketKept DEF Ledger!vars
<1>5. CASE (Ack(w) \/ Nack(w)) /\ place[cur[w]] # w
  <2>1. UNCHANGED <<place, status, batches>>
    BY <1>5 DEF Ack, Nack, Finish, Settle
  <2> QED BY <2>1, TicketKept DEF Ledger!vars
<1>6. CASE Ack(w) /\ place[cur[w]] = w
  <2>1. place' = [place EXCEPT ![cur[w]] = "acked"]
    BY <1>6 DEF Ack, Settle
  <2>2. Ticket[cur[w]] = "open"
    BY <1>1, <1>6, TicketNow DEF Unsettled
  <2>3. Ticket' = [Ticket EXCEPT ![cur[w]] = "done"]
    <3>1. place'[cur[w]] = "acked" /\ \A j \in Jobs \ {cur[w]} : place'[j] = place[j]
      BY <1>1, <2>1, SMT
    <3> QED BY <1>1, <3>1, TicketMoves, TicketNext
  <2>4. status[cur[w]] = "completed" /\ UNCHANGED <<status, batches>>
    BY <1>6 DEF Ack, Finish, StoreInv
  <2>5. Ledger!Complete(cur[w])
    BY <2>2, <2>3, <2>4 DEF Ledger!Complete
  <2> QED BY <1>1, <2>5 DEF Ledger!Next
<1>7. CASE Nack(w) /\ place[cur[w]] = w
  <2>1. place' = [place EXCEPT ![cur[w]] = "discarded"]
    BY <1>7 DEF Nack, Settle
  <2>2. Ticket[cur[w]] = "open"
    BY <1>1, <1>7, TicketNow DEF Unsettled
  <2>3. Ticket' = [j \in Jobs |-> IF j \in {cur[w]} THEN "dropped" ELSE Ticket[j]]
    BY <1>1, <2>1, ShelfAssumption, SMT DEF Ticket, Unsettled, Shelf
  <2>4. Ledger!Drop({cur[w]})
    BY <1>7, <2>2, <2>3 DEF Nack, Finish, Ledger!Drop
  <2> QED BY <1>1, <2>4 DEF Ledger!Next
<1> QED BY <1>2, <1>3, <1>4, <1>5, <1>6, <1>7 DEF HandleStep

LEMMA LedgerWorker ==
  ASSUME IInv, IInv', NEW w \in Workers, WorkerStep(w)
  PROVE  Ledger!Next \/ UNCHANGED Ledger!vars
<1> USE DEF IInv, TypeOK, BrokerTypeOK, brokerVars, storeVars
<1>1. CASE Start(w) \/ Stop(w)
  <2>1. \A j \in Jobs : place'[j] = place[j] \/ (place[j] = w /\ place'[j] = "ready")
    BY <1>1, SMT DEF Start, OpenLink, Stop, Exit, CloseLink, Requeue
  <2>2. UNCHANGED <<status, batches>>
    BY <1>1 DEF Start, Stop
  <2> QED BY <2>1, <2>2, TicketKept DEF Ledger!vars
<1>2. ASSUME NEW j \in Jobs, Deliver(w, j) \/ Receive(w, j)
      PROVE  UNCHANGED Ledger!vars
  <2>1. \A i \in Jobs : place'[i] = place[i] \/ (place[i] = "ready" /\ place'[i] = w)
    BY <1>2, SMT DEF Deliver, HandOut, Receive
  <2>2. UNCHANGED <<status, batches>>
    BY <1>2 DEF Deliver, Receive
  <2> QED BY <2>1, <2>2, TicketKept DEF Ledger!vars
<1> QED BY <1>1, <1>2, LedgerHandle DEF WorkerStep

LEMMA LedgerFault ==
  ASSUME IInv, IInv', Fault
  PROVE  Ledger!Next \/ UNCHANGED Ledger!vars
<1> USE DEF IInv, TypeOK, BrokerTypeOK, brokerVars, storeVars
<1>1. CASE Restart /\ UNCHANGED storeVars
  <2> DEFINE S == {j \in Jobs : Unsettled(j)}
  <2>1. \A j \in S : Ticket[j] = "open"
    BY TicketNow
  <2>2. Ticket' = [j \in Jobs |-> IF j \in S THEN "dropped" ELSE Ticket[j]]
    BY <1>1, ShelfAssumption, SMT DEF Restart, Ticket, Unsettled, Shelf
  <2>3. Ledger!Drop(S)
    BY <1>1, <2>1, <2>2 DEF Ledger!Drop
  <2> QED BY <2>3 DEF Ledger!Next
<1>2. ASSUME NEW u \in Jobs, PublishLost(u), UNCHANGED storeVars PROVE Ledger!Next
  <2>1. place[u] = "unpublished" /\ place' = [place EXCEPT ![u] = "lost"]
    BY <1>2, SMT DEF PublishLost, LoseInTransit, OriginInv
  <2>2. Ticket' = [Ticket EXCEPT ![u] = "dropped"]
    <3>1. place'[u] = "lost" /\ \A j \in Jobs \ {u} : place'[j] = place[j]
      BY <2>1, SMT
    <3> QED BY <3>1, TicketMoves, TicketNext
  <2>3. Ticket[u] = "none"
    BY <2>1, TicketNow
  <2>4. Ledger!Submit(u)
    BY <1>2, <2>2, <2>3, SMT DEF Ledger!Submit
  <2> QED BY <2>4 DEF Ledger!Next
<1>3. CASE (ClosePublisher \/ RestartApi) /\ UNCHANGED storeVars
  <2>1. UNCHANGED <<place, status, batches>>
    BY <1>3 DEF ClosePublisher, RestartApi, OpenPublisher
  <2> QED BY <2>1, TicketKept DEF Ledger!vars
<1>4. ASSUME NEW w \in Workers, WorkerFault(w) PROVE UNCHANGED Ledger!vars
  <2>1. \A j \in Jobs : place'[j] = place[j] \/ (place[j] = w /\ place'[j] = "ready")
    BY <1>4, SMT DEF WorkerFault, Cancel, Crash, Exit, LoseLink, CloseLink, Requeue
  <2>2. UNCHANGED <<status, batches>>
    BY <1>4 DEF WorkerFault, Cancel, Crash, LoseLink, Rollback
  <2> QED BY <2>1, <2>2, TicketKept DEF Ledger!vars
<1> QED BY <1>1, <1>2, <1>3, <1>4 DEF Fault, BrokerFault, ApiFault

LEMMA LedgerStep == IInv /\ IInv' /\ [Next]_vars => [Ledger!Next]_(Ledger!vars)
<1> SUFFICES ASSUME IInv, IInv', [Next]_vars
             PROVE  Ledger!Next \/ UNCHANGED Ledger!vars
  OBVIOUS
<1>1. ASSUME NEW r \in Readers, ReaderStep(r) PROVE UNCHANGED Ledger!vars
  <2>1. UNCHANGED <<place, status, batches>>
    BY <1>1 DEF ReaderStep, FindByJobID, Preload, QueryError, brokerVars, storeVars
  <2> QED BY <2>1, TicketKept DEF Ledger!vars, IInv
<1>2. CASE UNCHANGED vars
  <2>1. UNCHANGED <<place, status, batches>>
    BY <1>2 DEF vars, brokerVars, storeVars
  <2> QED BY <2>1, TicketKept DEF Ledger!vars, IInv
<1> QED BY <1>1, <1>2, LedgerApi, LedgerWorker, LedgerFault DEF Next

(* The pipeline does nothing JobLedger does not allow: tickets are closed  *)
(* once, as done only with a result on record, and no entry goes back.     *)
THEOREM KeepsLedger == Spec => LedgerSpec
<1>1. Init => Ledger!Init BY LedgerInit
<1>2. IInv /\ IInv' /\ [Next]_vars => [Ledger!Next]_(Ledger!vars) BY LedgerStep
<1> QED BY <1>1, <1>2, Invariance, PTL DEF Spec, LedgerSpec, Ledger!Spec
=============================================================================
