--------------------------- MODULE DeliveryProofs ---------------------------
(***************************************************************************)
(* More proofs about Pipeline: what clients that poll are told, and how    *)
(* often the result of a job that is delivered again is stored.            *)
(***************************************************************************)
EXTENDS PipelineProofs, FiniteSetTheorems

LEMMA RankOrder ==
  ASSUME NEW s \in RowStates
  PROVE  Rank(s) = IF s = "absent" THEN 0 ELSE IF s = "pending" THEN 1 ELSE 2
BY SMT DEF RowStates, Rank

(* A job's row and its predictions only ever get further.                  *)
LEMMA RowGrows ==
  ASSUME TypeOK, TypeOK', HandInv, [Next]_vars, NEW j \in Jobs
  PROVE  Rank(status[j]) <= Rank(status'[j]) /\ batches[j] <= batches'[j]
<1>1. status[j] \in RowStates /\ status'[j] \in RowStates
      /\ batches[j] \in Nat /\ batches'[j] \in Nat
  BY SMT DEF TypeOK, StoreTypeOK, RowStates
<1>2. status[j] = "completed" => status'[j] = "completed"
  BY CompletedStays
<1>3. batches'[j] >= batches[j]
  BY CompletedStays
<1>4. status[j] # "absent" => status'[j] # "absent"
  <2> USE DEF TypeOK, StoreTypeOK, storeVars
  <2>1. ASSUME NEW w \in Workers, HandleStep(w)
        PROVE  status[j] # "absent" => status'[j] # "absent"
    <3>1. cur[w] \in Jobs
      BY <2>1, HandIsFull
         DEF HandleStep, CreatePending, Detect, Inferred, Upsert, Save, Ack, Nack
    <3> QED
      BY <2>1, <3>1, SMT
         DEF HandleStep, CreatePending, CreatePendingJob, Upsert, UpsertJob, Save,
             CommitResult, Rollback, Detect, Inferred, Ack, Nack, Finish
  <2>2. ASSUME NEW w \in Workers, WorkerStep(w), ~HandleStep(w) PROVE status' = status
    BY <2>2 DEF WorkerStep, Start, Stop, Deliver, Receive
  <2>3. ASSUME NEW w \in Workers, WorkerFault(w) PROVE status' = status
    BY <2>3 DEF WorkerFault, Cancel, Crash, LoseLink, Rollback
  <2> QED BY <2>1, <2>2, <2>3, OthersKeepStore
<1>5. \A s \in {status[j], status'[j]} :
        Rank(s) = IF s = "absent" THEN 0 ELSE IF s = "pending" THEN 1 ELSE 2
  BY <1>1, RankOrder
<1> QED BY <1>1, <1>2, <1>3, <1>4, <1>5, SMT DEF RowStates
-----------------------------------------------------------------------------
(* What a reader has read, or was answered last, the database has reached; *)
(* a row read after an answer about the same job is no older than it.      *)
QueryInv ==
  \A r \in Readers :
    /\ query[r].job \in Jobs =>
         /\ Rank(query[r].status) <= Rank(status[query[r].job])
         /\ reply[r].job = query[r].job => Rank(reply[r].status) <= Rank(query[r].status)
    /\ reply[r].job \in Jobs =>
         /\ Rank(reply[r].status) <= Rank(status[reply[r].job])
         /\ reply[r].batches <= batches[reply[r].job]
    /\ reply[r].status = "completed" => reply[r].batches > 0

(* The fields of a query and of an answer.                                 *)
LEMMA QueryFields ==
  ASSUME QueryTypeOK, NEW r \in Readers
  PROVE  /\ query[r].job \in Jobs \cup {NoJob} /\ query[r].status \in RowStates
         /\ query[r] = NoQuery <=> query[r].job = NoJob
         /\ reply[r].job \in Jobs \cup {NoJob} /\ reply[r].status \in RowStates
         /\ reply[r].batches \in Nat
         /\ reply[r].job = NoJob => reply[r] = NoReply
<1>1. query[r] \in {NoQuery} \cup [job : Jobs, status : RowStates]
  BY DEF QueryTypeOK
<1>2. reply[r] \in {NoReply} \cup [job : Jobs, status : RowStates, batches : Nat]
  BY DEF QueryTypeOK
<1> QED BY <1>1, <1>2, NoJobAssumption, SMT DEF NoQuery, NoReply, RowStates

(* Every answer follows from what QueryInv says of the row that was read.  *)
LEMMA ReaderKeepsQueryInv ==
  ASSUME IInv, QueryInv, NEW r \in Readers, ReaderStep(r)
  PROVE  /\ QueryInv'
         /\ \A s \in Readers : reply'[s].job = reply[s].job =>
              Rank(reply'[s].status) >= Rank(reply[s].status)
              /\ reply'[s].batches >= reply[s].batches
<1>1. QueryTypeOK /\ StoreTypeOK /\ CompletedIffResults
  BY DEF IInv, TypeOK
<1>2. UNCHANGED <<status, batches>>
  BY DEF ReaderStep, FindByJobID, Preload, QueryError, storeVars
<1>3. \A s \in RowStates :
        Rank(s) = IF s = "absent" THEN 0 ELSE IF s = "pending" THEN 1 ELSE 2
  BY RankOrder
<1>4. \A j \in Jobs : /\ status[j] \in RowStates /\ batches[j] \in Nat
                      /\ status[j] = "completed" <=> batches[j] > 0
  BY <1>1 DEF StoreTypeOK, RowStates, CompletedIffResults
<1>5. \A s \in Readers :
         /\ query[s].job \in Jobs \cup {NoJob} /\ query[s].status \in RowStates
         /\ query[s] = NoQuery <=> query[s].job = NoJob
         /\ reply[s].job \in Jobs \cup {NoJob} /\ reply[s].status \in RowStates
         /\ reply[s].batches \in Nat
         /\ reply[s].job = NoJob => reply[s] = NoReply
  BY <1>1, QueryFields
<1>6. /\ \A s \in Readers \ {r} : query'[s] = query[s] /\ reply'[s] = reply[s]
      /\ \/ \E j \in Jobs : status[j] = "absent" /\ query[r] = NoQuery /\ query'[r] = query[r]
              /\ reply'[r] = [job |-> j, status |-> "absent", batches |-> 0]
         \/ \E j \in Jobs : status[j] # "absent" /\ reply'[r] = reply[r]
              /\ query'[r] = [job |-> j, status |-> status[j]]
         \/ /\ query[r] # NoQuery /\ query'[r] = NoQuery
            /\ reply'[r] = [job |-> query[r].job, status |-> query[r].status,
                            batches |-> batches[query[r].job]]
         \/ query'[r] = NoQuery /\ reply'[r] = reply[r]
  BY <1>1, SMT DEF ReaderStep, FindByJobID, Preload, QueryError, Answer, QueryTypeOK
<1> DEFINE Good(s) ==
      /\ query'[s].job \in Jobs =>
           /\ Rank(query'[s].status) <= Rank(status[query'[s].job])
           /\ reply'[s].job = query'[s].job => Rank(reply'[s].status) <= Rank(query'[s].status)
      /\ reply'[s].job \in Jobs =>
           /\ Rank(reply'[s].status) <= Rank(status[reply'[s].job])
           /\ reply'[s].batches <= batches[reply'[s].job]
      /\ reply'[s].status = "completed" => reply'[s].batches > 0
      /\ reply'[s].job = reply[s].job =>
           Rank(reply'[s].status) >= Rank(reply[s].status)
           /\ reply'[s].batches >= reply[s].batches
<1>7. \A s \in Readers \ {r} : Good(s)
  BY <1>3, <1>5, <1>6, SMT DEF QueryInv
<1>8. Good(r)
  <2>1. CASE \E j \in Jobs : status[j] = "absent" /\ query[r] = NoQuery /\ query'[r] = query[r]
               /\ reply'[r] = [job |-> j, status |-> "absent", batches |-> 0]
    BY <1>3, <1>4, <1>5, <2>1, NoJobAssumption, SMT DEF QueryInv, RowStates
  <2>2. CASE \E j \in Jobs : status[j] # "absent" /\ reply'[r] = reply[r]
               /\ query'[r] = [job |-> j, status |-> status[j]]
    BY <1>3, <1>4, <1>5, <2>2, SMT DEF QueryInv
  <2>3. CASE /\ query[r] # NoQuery /\ query'[r] = NoQuery
             /\ reply'[r] = [job |-> query[r].job, status |-> query[r].status,
                             batches |-> batches[query[r].job]]
    BY <1>3, <1>4, <1>5, <2>3, NoJobAssumption, SMT DEF QueryInv, NoQuery, RowStates
  <2>4. CASE query'[r] = NoQuery /\ reply'[r] = reply[r]
    BY <1>3, <1>5, <2>4, NoJobAssumption, SMT DEF QueryInv, NoQuery
  <2> QED BY <1>6, <2>1, <2>2, <2>3, <2>4
<1> QED BY <1>2, <1>7, <1>8, SMT DEF QueryInv

LEMMA OthersKeepQueries ==
  ASSUME [Next]_vars, ~ \E r \in Readers : ReaderStep(r)
  PROVE  UNCHANGED queryVars
BY DEF Next, ApiStep, WorkerStep, Fault, vars

LEMMA QueryInvStep ==
  ASSUME IInv, IInv', QueryInv, [Next]_vars
  PROVE  QueryInv'
<1>1. CASE \E r \in Readers : ReaderStep(r)
  BY <1>1, ReaderKeepsQueryInv
<1>2. CASE ~ \E r \in Readers : ReaderStep(r)
  <2>1. query' = query /\ reply' = reply
    BY <1>2, OthersKeepQueries DEF queryVars
  <2>2. \A j \in Jobs : Rank(status[j]) <= Rank(status'[j]) /\ batches[j] <= batches'[j]
    BY RowGrows DEF IInv
  <2>3. \A j \in Jobs : /\ status[j] \in RowStates /\ status'[j] \in RowStates
                        /\ batches[j] \in Nat /\ batches'[j] \in Nat
    BY DEF IInv, TypeOK, StoreTypeOK, RowStates
  <2>4. \A s \in RowStates : Rank(s) \in Nat
    BY RankOrder, SMT
  <2>5. \A r \in Readers : query[r].status \in RowStates /\ reply[r].status \in RowStates
                           /\ reply[r].batches \in Nat
    BY QueryFields DEF IInv, TypeOK
  <2> QED BY <2>1, <2>2, <2>3, <2>4, <2>5, SMT DEF QueryInv
<1> QED BY <1>1, <1>2

LEMMA QueryInvInit == Init => QueryInv
BY NoJobAssumption, SMT DEF Init, QueryInit, QueryInv, NoQuery, NoReply

(* Whoever polls, and whatever commits between the two reads of an answer. *)
LEMMA QueryInvariance == Spec => [](IInv /\ QueryInv)
<1>1. Init => IInv /\ QueryInv BY InvInit, QueryInvInit
<1>2. IInv /\ QueryInv /\ [Next]_vars => IInv' /\ QueryInv'
  BY InvStep, QueryInvStep
<1> QED BY <1>1, <1>2, PTL DEF Spec

(* An answer that says "completed" lists predictions.                      *)
THEOREM CompletedRepliesHaveResults == Spec => []CompletedReplyHasResults
<1>1. QueryInv => CompletedReplyHasResults BY DEF QueryInv, CompletedReplyHasResults
<1> QED BY <1>1, QueryInvariance, PTL

(* No client sees its job go back from one answer to the next.             *)
THEOREM RepliesAreMonotone == Spec => RepliesNeverRegress
<1> DEFINE Kept == \A r \in Readers :
                     reply'[r].job = reply[r].job =>
                       /\ Rank(reply'[r].status) >= Rank(reply[r].status)
                       /\ reply'[r].batches >= reply[r].batches
<1>1. IInv /\ QueryInv /\ [Next]_vars => [Kept]_vars
  <2> SUFFICES ASSUME IInv, QueryInv, Next PROVE Kept OBVIOUS
  <2>1. CASE \E r \in Readers : ReaderStep(r)
    BY <2>1, ReaderKeepsQueryInv
  <2>2. CASE ~ \E r \in Readers : ReaderStep(r)
    <3>1. reply' = reply
      BY <2>2, OthersKeepQueries DEF queryVars
    <3>2. \A s \in RowStates : Rank(s) \in Nat
      BY RankOrder, SMT
    <3>3. \A r \in Readers : reply[r].status \in RowStates /\ reply[r].batches \in Nat
      BY QueryFields DEF IInv, TypeOK
    <3> QED BY <3>1, <3>2, <3>3, SMT
  <2> QED BY <2>1, <2>2
<1> QED BY <1>1, QueryInvariance, PTL DEF Spec, RepliesNeverRegress
-----------------------------------------------------------------------------
(* The workers that may still store a result of j for a delivery of theirs.*)
Unsaved == {"create", "detect", "infer", "upsert", "insert"}
Owes(w, j) == j \in buf[w] \/ (cur[w] = j /\ pc[w] \in Unsaved)
Owing(j) == {w \in Workers : Owes(w, j)}

(* Every delivery is good for one batch.                                   *)
DeliveryInv == \A j \in Jobs : batches[j] + Cardinality(Owing(j)) <= deliveries[j]

(* A step of the pipeline, as far as DeliveryInv is concerned.             *)
Settles(j) ==
  /\ \A w \in Workers : Owes(w, j)' => Owes(w, j)
  /\ batches'[j] = batches[j] /\ deliveries'[j] = deliveries[j]

HandsOut(j) ==
  \E v \in Workers :
    /\ \A w \in Workers : Owes(w, j)' => Owes(w, j) \/ w = v
    /\ batches'[j] = batches[j] /\ deliveries'[j] = deliveries[j] + 1

Stores(j) ==
  \E v \in Workers :
    /\ Owes(v, j) /\ ~Owes(v, j)'
    /\ \A w \in Workers : Owes(w, j)' => Owes(w, j)
    /\ batches'[j] = batches[j] + 1 /\ deliveries'[j] = deliveries[j]

LEMMA DeliveryCases ==
  ASSUME IInv, [Next]_vars, NEW j \in Jobs
  PROVE  Settles(j) \/ HandsOut(j) \/ Stores(j)
<1> USE DEF IInv, TypeOK, BrokerTypeOK, StoreTypeOK, WorkerTypeOK, Owes, Unsaved
<1>1. ASSUME NEW w \in Workers, HandleStep(w) PROVE Settles(j) \/ Stores(j)
  <2>1. cur[w] \in Jobs
    BY <1>1, HandIsFull
       DEF HandleStep, CreatePending, Detect, Inferred, Upsert, Save, Ack, Nack
  <2>2. CASE CreatePending(w) \/ Detect(w) \/ Inferred(w) \/ Upsert(w)
    BY <2>2, SMT
       DEF CreatePending, Detect, Inferred, Upsert, CreatePendingJob, UpsertJob, Goto, Reject,
           Settles, brokerVars, storeVars
  <2>3. CASE Save(w)
    <3>1. UNCHANGED <<buf, cur, deliveries>> /\ pc[w] = "insert"
      BY <2>3 DEF Save, Goto, Reject, brokerVars
    <3>2. pc'[w] \notin Unsaved /\ \A v \in Workers \ {w} : pc'[v] = pc[v]
      BY <2>3, SMT DEF Save, Goto, Reject
    <3>3. CASE CommitResult(w, cur[w])
      <4>1. batches' = [batches EXCEPT ![cur[w]] = @ + 1]
        BY <3>3 DEF CommitResult
      <4>2. CASE cur[w] = j
        <5>1. j \notin buf[w]
          BY <4>2 DEF CustodyInv
        <5> QED BY <3>1, <3>2, <4>1, <4>2, <5>1, SMT DEF Stores
      <4>3. CASE cur[w] # j
        BY <2>1, <3>1, <3>2, <4>1, <4>3, SMT DEF Settles
      <4> QED BY <4>2, <4>3
    <3>4. CASE Rollback(w)
      BY <3>1, <3>2, <3>4, SMT DEF Rollback, Settles
    <3> QED BY <2>3, <3>3, <3>4 DEF Save
  <2>4. CASE Ack(w) \/ Nack(w)
    BY <2>4, SMT DEF Ack, Nack, Finish, Settle, Settles, storeVars
  <2> QED BY <1>1, <2>2, <2>3, <2>4 DEF HandleStep
<1>2. ASSUME NEW w \in Workers, NEW i \in Jobs, Deliver(w, i) PROVE Settles(j) \/ HandsOut(j)
  <2>1. CASE i = j
    BY <1>2, <2>1, SMT DEF Deliver, HandOut, HandsOut, storeVars
  <2>2. CASE i # j
    BY <1>2, <2>2, SMT DEF Deliver, HandOut, Settles, storeVars
  <2> QED BY <2>1, <2>2
<1>3. ASSUME NEW w \in Workers, NEW i \in Jobs, Receive(w, i) PROVE Settles(j)
  <2>1. batches' = batches /\ deliveries' = deliveries
    BY <1>3 DEF Receive, brokerVars, storeVars
  <2>2. \A v \in Workers \ {w} : buf'[v] = buf[v] /\ cur'[v] = cur[v] /\ pc'[v] = pc[v]
    BY <1>3, SMT DEF Receive
  <2>3. i \in buf[w] /\ buf'[w] = buf[w] \ {i} /\ cur'[w] = i
    BY <1>3, SMT DEF Receive
  <2>4. \A v \in Workers : Owes(v, j)' => Owes(v, j)
    <3>1. Owes(w, j)' => Owes(w, j)
      BY <2>3, SMT
    <3>2. \A v \in Workers \ {w} : Owes(v, j)' => Owes(v, j)
      BY <2>2, SMT
    <3> QED BY <3>1, <3>2
  <2> QED BY <2>1, <2>4, SMT DEF Settles
<1>4. ASSUME NEW w \in Workers, Start(w) \/ Stop(w) PROVE Settles(j)
  BY <1>4, NoJobAssumption, SMT DEF Start, OpenLink, Stop, Exit, CloseLink, Settles, storeVars
<1>5. ASSUME NEW w \in Workers, WorkerFault(w) PROVE Settles(j)
  BY <1>5, NoJobAssumption, SMT
     DEF WorkerFault, Cancel, Crash, LoseLink, Exit, CloseLink, Rollback, Settles, brokerVars,
         storeVars, workerVars
<1>6. CASE ~ \E w \in Workers : WorkerStep(w) \/ WorkerFault(w)
  <2>1. UNCHANGED <<storeVars, workerVars>>
    BY <1>6, OthersKeepStore
  <2>2. deliveries' = deliveries
    <3>1. ASSUME NEW u \in Jobs, ApiStep(u) PROVE deliveries' = deliveries
      BY <3>1 DEF ApiStep, ReceiveUpload, UploadToStorage, PublishJob, AnswerUpload, Enqueue,
                  brokerVars
    <3>2. ASSUME NEW r \in Readers, ReaderStep(r) PROVE deliveries' = deliveries
      BY <3>2 DEF ReaderStep, brokerVars
    <3>3. CASE Fault
      BY <1>6, <3>3 DEF Fault, BrokerFault, ApiFault, Restart, ClosePublisher, RestartApi,
                        OpenPublisher, PublishLost, LoseInTransit, brokerVars
    <3>4. CASE UNCHANGED vars
      BY <3>4 DEF vars, brokerVars
    <3> QED BY <1>6, <3>1, <3>2, <3>3, <3>4 DEF Next
  <2> QED BY <2>1, <2>2, SMT DEF Settles, storeVars, workerVars
<1> QED BY <1>1, <1>2, <1>3, <1>4, <1>5, <1>6 DEF WorkerStep

LEMMA DeliveryInvStep ==
  ASSUME IsFiniteSet(Workers), IInv, DeliveryInv, [Next]_vars
  PROVE  DeliveryInv'
<1> SUFFICES ASSUME NEW j \in Jobs
             PROVE  batches'[j] + Cardinality(Owing(j)') <= deliveries'[j]
  BY DEF DeliveryInv
<1>1. /\ batches[j] \in Nat /\ deliveries[j] \in Nat
      /\ batches[j] + Cardinality(Owing(j)) <= deliveries[j]
  BY DEF IInv, TypeOK, StoreTypeOK, BrokerTypeOK, DeliveryInv
<1>2. IsFiniteSet(Owing(j)) /\ IsFiniteSet(Owing(j)')
  BY FS_Subset DEF Owing
<1>3. Cardinality(Owing(j)) \in Nat /\ Cardinality(Owing(j)') \in Nat
  BY <1>2, FS_CardinalityType
<1>4. CASE Settles(j)
  <2>1. Owing(j)' \in SUBSET Owing(j)
    BY <1>4 DEF Settles, Owing
  <2>2. Cardinality(Owing(j)') <= Cardinality(Owing(j))
    BY <1>2, <2>1, FS_Subset
  <2> QED BY <1>1, <1>3, <1>4, <2>2, SMT DEF Settles
<1>5. CASE HandsOut(j)
  <2>1. PICK v \in Workers :
          /\ \A w \in Workers : Owes(w, j)' => Owes(w, j) \/ w = v
          /\ batches'[j] = batches[j] /\ deliveries'[j] = deliveries[j] + 1
    BY <1>5 DEF HandsOut
  <2>2. Owing(j)' \in SUBSET (Owing(j) \cup {v})
    BY <2>1 DEF Owing
  <2>3. IsFiniteSet(Owing(j) \cup {v})
    BY <1>2, FS_AddElement
  <2>4. Cardinality(Owing(j)') <= Cardinality(Owing(j) \cup {v})
    BY <2>2, <2>3, FS_Subset
  <2>5. Cardinality(Owing(j) \cup {v}) =
          IF v \in Owing(j) THEN Cardinality(Owing(j)) ELSE Cardinality(Owing(j)) + 1
    BY <1>2, FS_AddElement
  <2> QED BY <1>1, <1>3, <2>1, <2>4, <2>5, SMT
<1>6. CASE Stores(j)
  <2>1. PICK v \in Workers :
          /\ Owes(v, j) /\ ~Owes(v, j)'
          /\ \A w \in Workers : Owes(w, j)' => Owes(w, j)
          /\ batches'[j] = batches[j] + 1 /\ deliveries'[j] = deliveries[j]
    BY <1>6 DEF Stores
  <2>2. Owing(j)' \in SUBSET (Owing(j) \ {v}) /\ v \in Owing(j)
    BY <2>1 DEF Owing
  <2>3. IsFiniteSet(Owing(j) \ {v})
    BY <1>2, FS_RemoveElement
  <2>4. Cardinality(Owing(j)') <= Cardinality(Owing(j) \ {v})
    BY <2>2, <2>3, FS_Subset
  <2>5. Cardinality(Owing(j) \ {v}) = Cardinality(Owing(j)) - 1
    BY <1>2, <2>2, FS_RemoveElement
  <2> QED BY <1>1, <1>3, <2>1, <2>4, <2>5, SMT
<1> QED BY <1>4, <1>5, <1>6, DeliveryCases

(* Batches stored twice come from messages delivered twice.                *)
THEOREM BatchesBounded ==
  ASSUME IsFiniteSet(Workers) PROVE Spec => []BatchesWithinDeliveries
<1>1. Init => DeliveryInv
  <2> SUFFICES ASSUME Init, NEW j \in Jobs
               PROVE  batches[j] + Cardinality(Owing(j)) <= deliveries[j]
    BY DEF DeliveryInv
  <2>1. Owing(j) = {}
    BY NoJobAssumption DEF Init, WorkerInit, Owing, Owes, Unsaved
  <2>2. batches[j] = 0 /\ deliveries[j] = 0
    BY DEF Init, StoreInit, BrokerInit
  <2> QED BY <2>1, <2>2, FS_EmptySet, SMT
<1>2. IInv /\ DeliveryInv /\ [Next]_vars => DeliveryInv'
  BY DeliveryInvStep
<1>3. IInv /\ DeliveryInv => BatchesWithinDeliveries
  <2> SUFFICES ASSUME IInv, DeliveryInv, NEW j \in Jobs PROVE batches[j] <= deliveries[j]
    BY DEF BatchesWithinDeliveries
  <2>1. IsFiniteSet(Owing(j))
    BY FS_Subset DEF Owing
  <2>2. Cardinality(Owing(j)) \in Nat
    BY <2>1, FS_CardinalityType
  <2> QED BY <2>2, SMT DEF IInv, TypeOK, StoreTypeOK, BrokerTypeOK, DeliveryInv
<1> QED BY <1>1, <1>2, <1>3, Invariance, PTL DEF Spec
-----------------------------------------------------------------------------
(* The workers that will give their messages back without another fault:   *)
(* told to stop, and still connected.                                      *)
Leaving == {w \in Workers : proc[w] = "cancelled" /\ link[w]}

(* The deliveries of j still to come if no further fault happens: one for  *)
(* a message that is, or is to be, in the queue, and one for each worker   *)
(* that is about to requeue what it holds.                                 *)
Pending(j) == IF place[j] \in {"unpublished", "ready"} THEN 1 ELSE 0

FaultInv ==
  \A j \in Jobs : deliveries[j] + Pending(j) + Cardinality(Leaving) <= faults + 1

(* A step of the pipeline, as far as FaultInv is concerned: it costs       *)
(* nothing, a leaving worker gives its messages back, or it is a fault.    *)
Calm(j) ==
  /\ deliveries'[j] + Pending(j)' <= deliveries[j] + Pending(j)
  /\ Leaving' \in SUBSET Leaving /\ faults' = faults

Leaves(j) ==
  \E v \in Leaving :
    /\ deliveries'[j] = deliveries[j] /\ Leaving' \in SUBSET (Leaving \ {v})
    /\ faults' = faults

Counted(j) ==
  /\ deliveries'[j] = deliveries[j] /\ faults' = faults + 1
  /\ \/ Leaving' \in SUBSET Leaving
     \/ /\ Pending(j)' = Pending(j)
        /\ \E v \in Workers : Leaving' \in SUBSET (Leaving \cup {v})

LEMMA FaultCases ==
  ASSUME IInv, [Next]_vars, NEW j \in Jobs
  PROVE  Calm(j) \/ Leaves(j) \/ Counted(j)
<1> USE ShelfAssumption
    DEF IInv, TypeOK, BrokerTypeOK, WorkerTypeOK, Pending, Leaving, Shelf, brokerVars, workerVars
<1>1. ASSUME NEW u \in Jobs, ApiStep(u) PROVE Calm(j)
  <2>1. UNCHANGED <<workerVars, faults, link, deliveries>>
    BY <1>1 DEF ApiStep, ReceiveUpload, UploadToStorage, PublishJob, AnswerUpload, Enqueue
  <2>2. Pending(j)' <= Pending(j)
    <3>1. place'[j] = place[j] \/ place[j] = "unpublished"
      BY <1>1, SMT DEF ApiStep, ReceiveUpload, UploadToStorage, PublishJob, AnswerUpload,
                       Enqueue, OriginInv
    <3> QED BY <3>1, SMT
  <2> QED BY <2>1, <2>2, SMT DEF Calm
<1>2. ASSUME NEW w \in Workers, HandleStep(w), faults' = faults PROVE Calm(j)
  <2>1. UNCHANGED <<proc, link, deliveries>>
    BY <1>2 DEF HandleStep, CreatePending, Detect, Inferred, Upsert, Save, Ack, Nack, Goto,
                Reject, Finish, Settle
  <2>2. place'[j] = place[j] \/ place'[j] \in {"acked", "discarded"}
    BY <1>2, SMT DEF HandleStep, CreatePending, Detect, Inferred, Upsert, Save, Ack, Nack, Settle
  <2>3. deliveries'[j] + Pending(j)' <= deliveries[j] + Pending(j)
    BY <2>1, <2>2, SMT
  <2> QED BY <1>2, <2>1, <2>3 DEF Calm
<1>3. ASSUME NEW w \in Workers, NEW i \in Jobs, Deliver(w, i) \/ Receive(w, i),
             faults' = faults
      PROVE  Calm(j)
  <2>1. UNCHANGED <<proc, link>>
    BY <1>3 DEF Deliver, Receive, HandOut
  <2>2. \/ place'[j] = place[j] /\ deliveries'[j] = deliveries[j]
        \/ place[j] = "ready" /\ place'[j] = w /\ deliveries'[j] = deliveries[j] + 1
    BY <1>3, SMT DEF Deliver, Receive, HandOut
  <2>3. deliveries'[j] + Pending(j)' <= deliveries[j] + Pending(j)
    BY <2>2, SMT
  <2>4. Leaving' \in SUBSET Leaving
    BY <2>1
  <2> QED BY <1>3, <2>3, <2>4 DEF Calm
<1>4. ASSUME NEW w \in Workers, Start(w), faults' = faults PROVE Calm(j)
  BY <1>4, SMT DEF Start, OpenLink, Calm
<1>5. ASSUME NEW w \in Workers, Stop(w), faults' = faults PROVE Calm(j) \/ Leaves(j)
  <2>1. /\ deliveries' = deliveries /\ Leaving' \in SUBSET (Leaving \ {w})
        /\ place' = Requeue(w)
    BY <1>5, SMT DEF Stop, Exit, CloseLink
  <2>2. CASE link[w]
    <3>1. w \in Leaving
      BY <1>5, <2>2 DEF Stop
    <3> QED BY <1>5, <2>1, <3>1 DEF Leaves
  <2>3. CASE ~link[w]
    <3>1. place'[j] = place[j]
      BY <2>1, <2>3, SMT DEF Requeue, CustodyInv
    <3> QED BY <1>5, <2>1, <3>1, SMT DEF Calm
  <2> QED BY <2>2, <2>3
<1>6. ASSUME NEW r \in Readers, ReaderStep(r) PROVE Calm(j)
  BY <1>6, SMT DEF ReaderStep, Calm
<1>7. CASE Fault
  <2>1. faults' = faults + 1
    BY <1>7 DEF Fault
  <2>2. ASSUME NEW w \in Workers, Cancel(w) PROVE Counted(j)
    <3>1. Leaving' \in SUBSET (Leaving \cup {w})
      BY <2>2, SMT DEF Cancel
    <3>2. deliveries' = deliveries /\ place' = place
      BY <2>2 DEF Cancel
    <3> QED BY <2>1, <3>1, <3>2 DEF Counted
  <2>3. ASSUME NEW w \in Workers, Crash(w) \/ LoseLink(w) PROVE Counted(j)
    BY <2>1, <2>3, SMT DEF Crash, LoseLink, Exit, CloseLink, Counted
  <2>4. ASSUME BrokerFault PROVE Counted(j)
    BY <2>1, <2>4, SMT DEF BrokerFault, Restart, ClosePublisher, Counted
  <2>5. ASSUME ApiFault PROVE Counted(j)
    BY <2>1, <2>5, SMT
       DEF ApiFault, RestartApi, OpenPublisher, PublishLost, LoseInTransit, Counted
  <2> QED BY <1>7, <2>2, <2>3, <2>4, <2>5 DEF Fault, WorkerFault
<1>8. CASE UNCHANGED vars
  BY <1>8, SMT DEF vars, Calm
<1> QED BY <1>1, <1>2, <1>3, <1>4, <1>5, <1>6, <1>7, <1>8 DEF Next, WorkerStep

LEMMA FaultInvStep ==
  ASSUME IsFiniteSet(Workers), IInv, FaultInv, [Next]_vars
  PROVE  FaultInv'
<1> SUFFICES ASSUME NEW j \in Jobs
             PROVE  deliveries'[j] + Pending(j)' + Cardinality(Leaving') <= faults' + 1
  BY DEF FaultInv
<1>1. /\ deliveries[j] \in Nat /\ faults \in Nat
      /\ deliveries[j] + Pending(j) + Cardinality(Leaving) <= faults + 1
  BY MaxFaultsAssumption, SMT DEF IInv, TypeOK, BrokerTypeOK, FaultInv
<1>2. deliveries'[j] \in Nat
  <2>1. IInv'
    BY InvStep
  <2> QED BY <2>1 DEF IInv, TypeOK, BrokerTypeOK
<1>3. Pending(j) \in 0 .. 1 /\ Pending(j)' \in 0 .. 1
  BY SMT DEF Pending
<1>4. IsFiniteSet(Leaving) /\ IsFiniteSet(Leaving')
  BY FS_Subset DEF Leaving
<1>5. Cardinality(Leaving) \in Nat /\ Cardinality(Leaving') \in Nat
  BY <1>4, FS_CardinalityType
<1>6. Leaving' \in SUBSET Leaving => Cardinality(Leaving') <= Cardinality(Leaving)
  BY <1>4, FS_Subset
<1>7. CASE Calm(j)
  BY <1>1, <1>2, <1>3, <1>5, <1>6, <1>7, SMT DEF Calm
<1>8. CASE Leaves(j)
  <2>1. PICK v \in Leaving : /\ deliveries'[j] = deliveries[j] /\ faults' = faults
                             /\ Leaving' \in SUBSET (Leaving \ {v})
    BY <1>8 DEF Leaves
  <2>2. IsFiniteSet(Leaving \ {v}) /\ Cardinality(Leaving \ {v}) = Cardinality(Leaving) - 1
    BY <1>4, FS_RemoveElement
  <2>3. Cardinality(Leaving') <= Cardinality(Leaving \ {v})
    BY <2>1, <2>2, FS_Subset
  <2> QED BY <1>1, <1>3, <1>5, <2>1, <2>2, <2>3, SMT
<1>9. CASE Counted(j)
  <2>1. deliveries'[j] = deliveries[j] /\ faults' = faults + 1
    BY <1>9 DEF Counted
  <2>2. CASE Leaving' \in SUBSET Leaving
    BY <1>1, <1>3, <1>5, <1>6, <2>1, <2>2, SMT
  <2>3. ASSUME Pending(j)' = Pending(j), NEW v \in Workers,
               Leaving' \in SUBSET (Leaving \cup {v})
        PROVE  deliveries'[j] + Pending(j)' + Cardinality(Leaving') <= faults' + 1
    <3>1. IsFiniteSet(Leaving \cup {v})
      BY <1>4, FS_AddElement
    <3>2. Cardinality(Leaving') <= Cardinality(Leaving \cup {v})
      BY <2>3, <3>1, FS_Subset
    <3>3. Cardinality(Leaving \cup {v}) \in {Cardinality(Leaving), Cardinality(Leaving) + 1}
      BY <1>4, FS_AddElement
    <3> QED BY <1>1, <1>3, <1>5, <2>1, <2>3, <3>2, <3>3, SMT
  <2> QED BY <1>9, <2>2, <2>3 DEF Counted
<1> QED BY <1>7, <1>8, <1>9, FaultCases

(* Every delivery after the first is owed to a fault of its own.           *)
LEMMA FaultInvariance ==
  ASSUME IsFiniteSet(Workers) PROVE Spec => []FaultInv
<1>1. Init => FaultInv
  <2> SUFFICES ASSUME Init, NEW j \in Jobs
               PROVE  deliveries[j] + Pending(j) + Cardinality(Leaving) <= faults + 1
    BY DEF FaultInv
  <2>1. Leaving = {}
    BY DEF Init, WorkerInit, Leaving
  <2>2. deliveries[j] = 0 /\ Pending(j) = 1 /\ faults = 0
    BY DEF Init, BrokerInit, Pending
  <2> QED BY <2>1, <2>2, FS_EmptySet, SMT
<1>2. IInv /\ FaultInv /\ [Next]_vars => FaultInv'
  BY FaultInvStep
<1> QED BY <1>1, <1>2, Invariance, PTL DEF Spec

(* One result per job, and one more per fault: a shutdown, a crash or a    *)
(* lost connection can cost one duplicate, never a second one.             *)
THEOREM ResultsWithinFaults ==
  ASSUME IsFiniteSet(Workers) PROVE Spec => []BatchesWithinFaults
<1>1. IInv /\ FaultInv /\ BatchesWithinDeliveries => BatchesWithinFaults
  <2> SUFFICES ASSUME IInv, FaultInv, BatchesWithinDeliveries, NEW j \in Jobs
               PROVE  batches[j] <= faults + 1
    BY DEF BatchesWithinFaults
  <2>1. /\ batches[j] \in Nat /\ deliveries[j] \in Nat /\ faults \in Nat
        /\ batches[j] <= deliveries[j]
    BY MaxFaultsAssumption, SMT
       DEF IInv, TypeOK, StoreTypeOK, BrokerTypeOK, BatchesWithinDeliveries
  <2>2. IsFiniteSet(Leaving)
    BY FS_Subset DEF Leaving
  <2>3. Cardinality(Leaving) \in Nat /\ Pending(j) \in 0 .. 1
    BY <2>2, FS_CardinalityType, SMT DEF Pending
  <2>4. deliveries[j] + Pending(j) + Cardinality(Leaving) <= faults + 1
    BY DEF FaultInv
  <2> QED BY <2>1, <2>3, <2>4, SMT
<1> QED BY <1>1, FaultInvariance, BatchesBounded, Invariance, PTL
-----------------------------------------------------------------------------
(* Whatever left the queue for a worker was delivered, and what was lost   *)
(* was lost by a fault.                                                    *)
WhereaboutsInv ==
  \A j \in Jobs :
    /\ place[j] \in Workers \cup {"acked", "discarded"} => deliveries[j] > 0
    /\ place[j] = "lost" => faults > 0

LEMMA WhereaboutsStep ==
  ASSUME IInv, WhereaboutsInv, [Next]_vars
  PROVE  WhereaboutsInv'
<1> SUFFICES ASSUME NEW j \in Jobs
             PROVE  /\ place'[j] \in Workers \cup {"acked", "discarded"} => deliveries'[j] > 0
                    /\ place'[j] = "lost" => faults' > 0
  BY DEF WhereaboutsInv
<1> DEFINE Kept == /\ place'[j] \in Workers \cup {"acked", "discarded"} => deliveries'[j] > 0
                   /\ place'[j] = "lost" => faults' > 0
<1> USE ShelfAssumption DEF IInv, TypeOK, BrokerTypeOK, WhereaboutsInv, Shelf, brokerVars
<1>1. deliveries[j] \in Nat /\ faults \in Nat
  BY MaxFaultsAssumption, SMT
<1>2. ASSUME NEW u \in Jobs, ApiStep(u) PROVE Kept
  BY <1>2, SMT DEF ApiStep, ReceiveUpload, UploadToStorage, PublishJob, AnswerUpload, Enqueue
<1>3. ASSUME NEW w \in Workers, HandleStep(w), faults' = faults PROVE Kept
  BY <1>3, SMT DEF HandleStep, CreatePending, Detect, Inferred, Upsert, Save, Ack, Nack, Settle
<1>4. ASSUME NEW w \in Workers, NEW i \in Jobs, Deliver(w, i) \/ Receive(w, i),
             faults' = faults
      PROVE  Kept
  BY <1>1, <1>4, SMT DEF Deliver, Receive, HandOut
<1>5. ASSUME NEW w \in Workers, Start(w) \/ Stop(w), faults' = faults PROVE Kept
  BY <1>5, SMT DEF Start, OpenLink, Stop, Exit, CloseLink, Requeue
<1>6. ASSUME NEW r \in Readers, ReaderStep(r) PROVE Kept
  BY <1>6 DEF ReaderStep
<1>7. CASE Fault
  <2>1. faults' > 0 /\ faults' = faults + 1
    BY <1>1, <1>7, SMT DEF Fault
  <2>2. ASSUME NEW w \in Workers, WorkerFault(w) PROVE Kept
    BY <2>1, <2>2, SMT DEF WorkerFault, Cancel, Crash, LoseLink, Exit, CloseLink, Requeue
  <2>3. ASSUME BrokerFault PROVE Kept
    BY <2>1, <2>3, SMT DEF BrokerFault, Restart, ClosePublisher
  <2>4. ASSUME ApiFault PROVE Kept
    BY <2>1, <2>4, SMT DEF ApiFault, RestartApi, OpenPublisher, PublishLost, LoseInTransit
  <2> QED BY <1>7, <2>2, <2>3, <2>4 DEF Fault
<1>8. CASE UNCHANGED vars
  BY <1>8 DEF vars
<1> QED BY <1>2, <1>3, <1>4, <1>5, <1>6, <1>7, <1>8 DEF Next, WorkerStep

(* A 202 stands for a message that is in the queue, has been delivered, or *)
(* was lost by a fault: the handler never answers it for one it still has. *)
THEOREM AcceptanceHolds == Spec => []AcceptedUnlessLost
<1>1. Init => WhereaboutsInv
  <2>1. "unpublished" \notin Workers
    BY ShelfAssumption DEF Shelf
  <2> SUFFICES ASSUME Init, NEW j \in Jobs
               PROVE  place[j] \notin Workers \cup {"acked", "discarded", "lost"}
    BY DEF WhereaboutsInv
  <2>2. place[j] = "unpublished"
    BY DEF Init, BrokerInit
  <2> QED BY <2>1, <2>2
<1>2. IInv /\ WhereaboutsInv /\ [Next]_vars => WhereaboutsInv'
  BY WhereaboutsStep
<1>3. IInv /\ WhereaboutsInv => AcceptedUnlessLost
  BY SMT DEF IInv, TypeOK, BrokerTypeOK, OriginInv, Places, Shelf, WhereaboutsInv,
             AcceptedUnlessLost, Unsettled
<1> QED BY <1>1, <1>2, <1>3, Invariance, PTL DEF Spec

(* README.md's promise holds as long as nothing fails.                     *)
THEOREM FaultlessAcceptance == Spec => [](faults = 0 => AcceptedIsQueued)
<1>1. AcceptedUnlessLost => (faults = 0 => AcceptedIsQueued)
  BY SMT DEF AcceptedUnlessLost, AcceptedIsQueued
<1> QED BY <1>1, AcceptanceHolds, PTL
-----------------------------------------------------------------------------
(* Row locks: a worker that waits for one holds none, and one that holds   *)
(* one waits for nothing, holds no other and has its process; so no two    *)
(* transactions wait for each other, and the death of a worker frees the   *)
(* rows it held.                                                           *)
NoLockCycle ==
  /\ \A w \in Workers : pc[w] = "upsert" => \A j \in Jobs : rowLock[j] # w
  /\ \A j \in Jobs :
       rowLock[j] # NoWorker =>
         /\ rowLock[j] \in Workers /\ Alive(rowLock[j]) /\ pc[rowLock[j]] = "insert"
         /\ \A i \in Jobs \ {j} : rowLock[i] # rowLock[j]

(* Concurrent SaveJobResult calls cannot deadlock.                         *)
THEOREM LocksAreAcyclic == Spec => []NoLockCycle
<1>1. IInv => NoLockCycle
  BY SMT DEF IInv, TypeOK, StoreTypeOK, HandInv, StoreInv, NoLockCycle, Alive
<1> QED BY <1>1, Invariance, PTL
-----------------------------------------------------------------------------
(* What handleMessage still has to call, the settlement included.          *)
CallsLeft(label) ==
  CASE label = "idle" -> 0
    [] label \in {"ack", "nack"} -> 1
    [] label = "insert" -> 2
    [] label = "upsert" -> 3
    [] label = "infer" -> 4
    [] label = "detect" -> 5
    [] label = "create" -> 6

(* A worker that handles a message sticks to it, and no step of it or of   *)
(* anybody else takes it back to a call it has made: whatever fails,       *)
(* handleMessage is at most six calls away from the select, and a signal   *)
(* is seen there.                                                          *)
HandlingAdvances ==
  [][\A w \in Workers :
       pc[w] # "idle" /\ pc'[w] # pc[w] =>
         /\ CallsLeft(pc'[w]) < CallsLeft(pc[w])
         /\ cur'[w] = cur[w] \/ pc'[w] = "idle"]_vars

LEMMA CallsLeftOrder ==
  /\ CallsLeft("idle") = 0 /\ CallsLeft("ack") = 1 /\ CallsLeft("nack") = 1
  /\ CallsLeft("insert") = 2 /\ CallsLeft("upsert") = 3 /\ CallsLeft("infer") = 4
  /\ CallsLeft("detect") = 5 /\ CallsLeft("create") = 6
BY SMT DEF CallsLeft

(* The measure behind ShutdownCompletes and QueuedIsSettled.               *)
THEOREM HandlingTerminates == Spec => HandlingAdvances
<1> DEFINE Nearer(w) == pc[w] # "idle" /\ pc'[w] # pc[w] =>
                          /\ CallsLeft(pc'[w]) < CallsLeft(pc[w])
                          /\ cur'[w] = cur[w] \/ pc'[w] = "idle"
<1>1. IInv /\ [Next]_vars => [\A w \in Workers : Nearer(w)]_vars
  <2> SUFFICES ASSUME IInv, Next, NEW w \in Workers PROVE Nearer(w)
    OBVIOUS
  <2> USE DEF IInv, TypeOK, WorkerTypeOK, workerVars
  <2>1. ASSUME NEW v \in Workers, HandleStep(v) PROVE Nearer(w)
    <3>1. CASE v = w
      BY <2>1, <3>1, CallsLeftOrder, SMT
         DEF HandleStep, CreatePending, Detect, Inferred, Upsert, Save, Ack, Nack, Goto, Reject,
             Finish
    <3>2. CASE v # w
      BY <2>1, <3>2, SMT
         DEF HandleStep, CreatePending, Detect, Inferred, Upsert, Save, Ack, Nack, Goto, Reject,
             Finish
    <3> QED BY <3>1, <3>2
  <2>2. ASSUME NEW v \in Workers, WorkerStep(v), ~HandleStep(v) PROVE Nearer(w)
    BY <2>2, SMT DEF WorkerStep, Start, Stop, Exit, Deliver, Receive
  <2>3. ASSUME NEW v \in Workers, WorkerFault(v) PROVE Nearer(w)
    <3>1. pc'[w] = pc[w] \/ pc'[w] = "idle"
      BY <2>3, SMT DEF WorkerFault, Cancel, Crash, Exit, LoseLink
    <3> QED BY <3>1, CallsLeftOrder, SMT DEF Labels
  <2>4. CASE ~ \E v \in Workers : WorkerStep(v) \/ WorkerFault(v)
    BY <2>4, OthersKeepStore
  <2> QED BY <2>1, <2>2, <2>3, <2>4
<1> QED BY <1>1, Invariance, PTL DEF Spec, HandlingAdvances
-----------------------------------------------------------------------------
(* What Dashboard takes for granted of its server: the row of a job goes   *)
(* from nothing to pending to completed, one at a time, and only for an    *)
(* upload whose message is out and which was not answered with an error.   *)
RowAdvances(j) ==
  /\ \/ status[j] = "absent" /\ status'[j] = "pending"
     \/ status[j] = "pending" /\ status'[j] = "completed"
  /\ place[j] # "unpublished" /\ phase[j] # "failed"
  /\ \A i \in Jobs \ {j} : status'[i] = status[i]

(* GET /v1/jobs/:id answers out of rows that behave as Dashboard!Process.  *)
THEOREM ServesDashboard == Spec => [][\E j \in Jobs : RowAdvances(j)]_status
<1>1. IInv /\ IInv' /\ [Next]_vars => [\E j \in Jobs : RowAdvances(j)]_status
  <2> SUFFICES ASSUME IInv, IInv', [Next]_vars, status' # status
               PROVE  \E j \in Jobs : RowAdvances(j)
    OBVIOUS
  <2> USE DEF IInv, TypeOK, StoreTypeOK, Ledger!vars
  <2>1. Ledger!Next
    BY LedgerStep
  <2>2. PICK j \in Jobs : Ledger!OpenEntry(j) \/ Ledger!Record(j)
    BY <2>1 DEF Ledger!Next, Ledger!Submit, Ledger!Complete, Ledger!Drop
  <2>3. place[j] # "unpublished"
    <3>1. CASE Ledger!OpenEntry(j)
      BY <3>1, TicketNow DEF Ledger!OpenEntry
    <3>2. CASE Ledger!Record(j)
      BY <3>2, SMT DEF Ledger!Record, OriginInv
    <3> QED BY <2>2, <3>1, <3>2
  <2>4. phase[j] # "failed"
    BY <2>3 DEF OriginInv
  <2>5. CASE Ledger!OpenEntry(j)
    BY <2>3, <2>4, <2>5, SMT DEF Ledger!OpenEntry, RowAdvances
  <2>6. CASE Ledger!Record(j)
    <3>1. status[j] \in {"pending", "completed"}
      BY <2>6, SMT DEF Ledger!Record
    <3>2. status' = [status EXCEPT ![j] = "completed"]
      BY <2>6 DEF Ledger!Record
    <3>3. status[j] # "completed"
      BY <3>2, SMT
    <3> QED BY <2>3, <2>4, <3>1, <3>2, <3>3, SMT DEF RowAdvances
  <2> QED BY <2>2, <2>5, <2>6
<1> QED BY <1>1, Invariance, PTL DEF Spec
=============================================================================
