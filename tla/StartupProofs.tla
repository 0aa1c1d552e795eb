---------------------------- MODULE StartupProofs ----------------------------
(***************************************************************************)
(* Proofs about Startup, for any number of processes and faults.           *)
(***************************************************************************)
EXTENDS Startup, TLAPS

(* What the rest of the proof needs to know of the migrations. *)
LEMMA MigrationFacts ==
  /\ Len(Migrations) = 2
  /\ \A f \in 1 .. 2 : Migrations[f] \subseteq AllTables
  /\ Migrations[1] \cup Migrations[2] = AllTables
  /\ PipelineTables \subseteq AllTables
  /\ "files" \in Found /\ "none" \in Found
BY SMT DEF Migrations, AllTables, PipelineTables, Found

LEMMA StartupInvInit == Init => StartupInv
<1> SUFFICES ASSUME Init PROVE StartupInv
  OBVIOUS
<1>1. /\ brokerUp \in BOOLEAN /\ databaseUp \in BOOLEAN
      /\ ~queue /\ ~posted /\ served = {}
      /\ queue \in BOOLEAN /\ posted \in BOOLEAN
  BY Zenon DEF Init
<1>2. TypeOK
  BY <1>1, MigrationFacts, MaxFaultsAssumption, SMT DEF Init, TypeOK, ApiSteps, WorkerSteps
<1>3. \A a \in Apis : api[a] = "down"
  BY DEF Init
<1>4. \A w \in Workers : ~Handling(w)
  BY DEF Init, Handling
<1> QED BY <1>1, <1>2, <1>3, <1>4 DEF StartupInv, ProgressInv, ReadyForGood, PublishedByApi

LEMMA StartupInvStep == StartupInv /\ [Next]_vars => StartupInv'
<1> SUFFICES ASSUME StartupInv, [Next]_vars PROVE StartupInv'
  OBVIOUS
<1> USE MigrationFacts, MaxFaultsAssumption
    DEF PublishedByApi, StartupInv, TypeOK, ProgressInv, ReadyForGood, ApiSteps, WorkerSteps,
        Handling, ApiAt, ApiEnds, WorkerAt, Fault, serverVars, apiVars
<1>1. ASSUME NEW a \in Apis, StartApi(a) PROVE StartupInv'
  BY <1>1, SMT DEF StartApi
<1>2. ASSUME NEW a \in Apis, DialBroker(a) PROVE StartupInv'
  <2>1. TypeOK'
    BY <1>2, SMT DEF DialBroker
  <2>2. ProgressInv'
    BY <1>2, SMT DEF DialBroker
  <2>3. ReadyForGood'
    BY <1>2, SMT DEF DialBroker
  <2>4. PublishedByApi'
    BY <1>2, SMT DEF DialBroker
  <2> QED BY <2>1, <2>2, <2>3, <2>4, Zenon DEF PublishedByApi, StartupInv
<1>3. ASSUME NEW a \in Apis, DeclareQueue(a) PROVE StartupInv'
  <2>1. CASE a \in channel
    <3>1. queue' BY <1>3, <2>1 DEF DeclareQueue
    <3>2. TypeOK' BY <1>3, <2>1, <3>1, SMT DEF DeclareQueue
    <3> QED BY <1>3, <2>1, <3>1, <3>2, SMT DEF DeclareQueue
  <2>2. CASE a \notin channel
    BY <1>3, <2>2, SMT DEF DeclareQueue
  <2> QED BY <2>1, <2>2
<1>4. ASSUME NEW a \in Apis, ConnectDatabase(a) PROVE StartupInv'
  <2>1. TypeOK'
    BY <1>4, SMT DEF ConnectDatabase
  <2>2. ProgressInv'
    BY <1>4, SMT DEF ConnectDatabase
  <2>3. ReadyForGood'
    BY <1>4, SMT DEF ConnectDatabase
  <2>4. PublishedByApi'
    BY <1>4, SMT DEF ConnectDatabase
  <2> QED BY <2>1, <2>2, <2>3, <2>4, Zenon DEF PublishedByApi, StartupInv
<1>5. ASSUME NEW a \in Apis, SendMigration(a) PROVE StartupInv'
  <2>1. TypeOK'
    BY <1>5, SMT DEF SendMigration
  <2>2. ProgressInv'
    BY <1>5, SMT DEF SendMigration
  <2>3. ReadyForGood'
    BY <1>5, SMT DEF SendMigration
  <2>4. PublishedByApi'
    BY <1>5, SMT DEF SendMigration
  <2> QED BY <2>1, <2>2, <2>3, <2>4, Zenon DEF PublishedByApi, StartupInv
<1>6. ASSUME NEW a \in Apis, ExecuteMigration(a) PROVE StartupInv'
  <2>1. /\ queue' = queue
        /\ \/ served' = served /\ (tables' = tables \/ tables' = tables \cup Migrations[file[a]])
           \/ /\ file[a] = 2 /\ api[a] = "execute"
              /\ served' = served \cup {"files"} /\ tables' = tables \cup Migrations[2]
    BY <1>6, SMT DEF ExecuteMigration
  <2>2. served' \in SUBSET Found /\ tables' \in SUBSET AllTables
    <3>1. served \in SUBSET Found /\ tables \in SUBSET AllTables /\ file[a] \in 1 .. 2
      BY SMT
    <3>2. Migrations[file[a]] \subseteq AllTables
      BY <3>1
    <3>3. "files" \in Found
      BY MigrationFacts
    <3> QED BY <2>1, <3>1, <3>2, <3>3, Zenon
  <2>3. TypeOK'
    BY <1>6, <2>2, SMT DEF ExecuteMigration
  <2>4. ProgressInv'
    BY <1>6, SMT DEF ExecuteMigration
  <2>5. ReadyForGood'
    <3>1. CASE served' = served
      BY <2>1, <2>2, <3>1, Zenon
    <3>2. CASE file[a] = 2 /\ api[a] = "execute" /\ tables' = tables \cup Migrations[2]
      <4>1. Migrations[1] \subseteq tables /\ queue
        BY <3>2
      <4>2. tables' = AllTables
        BY <2>2, <3>2, <4>1
      <4> QED BY <2>1, <4>1, <4>2
    <3> QED BY <2>1, <3>1, <3>2
  <2>6. PublishedByApi'
    BY <1>6, SMT DEF ExecuteMigration
  <2> QED BY <2>3, <2>4, <2>5, <2>6, Zenon DEF PublishedByApi, StartupInv
<1>7. ASSUME NEW a \in Apis, Publish(a) PROVE StartupInv'
  BY <1>7, SMT DEF Publish
<1>8. ASSUME NEW a \in Apis, CrashApi(a) PROVE StartupInv'
  BY <1>8, SMT DEF CrashApi
<1>9. ASSUME NEW w \in Workers, StartWorker(w) PROVE StartupInv'
  BY <1>9, SMT DEF StartWorker
<1>10. ASSUME NEW w \in Workers,
              ConnectWorker(w) \/ DialWorker(w) \/ Consume(w) \/ Handled(w) \/ Finished(w)
       PROVE  StartupInv'
  <2>1. TypeOK'
    BY <1>10, SMT DEF ConnectWorker, DialWorker, Consume, Handled, Finished, WorkerStep
  <2>2. ProgressInv'
    BY <1>10, SMT DEF ConnectWorker, DialWorker, Consume, Handled, Finished, WorkerStep
  <2>3. ReadyForGood'
    BY <1>10, SMT DEF ConnectWorker, DialWorker, Consume, Handled, Finished, WorkerStep
  <2>4. PublishedByApi'
    BY <1>10, SMT DEF ConnectWorker, DialWorker, Consume, Handled, Finished, WorkerStep
  <2> QED BY <2>1, <2>2, <2>3, <2>4, Zenon DEF PublishedByApi, StartupInv
<1>11. ASSUME NEW w \in Workers, Deliver(w) PROVE StartupInv'
  <2>1. posted /\ ~posted' /\ posted' \in BOOLEAN
    BY <1>11, Zenon DEF Deliver
  <2>2. TypeOK'
    BY <1>11, <2>1, SMT DEF Deliver
  <2> QED BY <1>11, <2>1, <2>2, SMT DEF Deliver
<1>12. ASSUME NEW w \in Workers, CrashWorker(w) PROVE StartupInv'
  BY <1>12, SMT DEF CrashWorker
<1>13. CASE KeepQueue
  <2>1. /\ ~posted' /\ ~brokerUp' /\ queue' = queue
        /\ posted' \in BOOLEAN /\ brokerUp' \in BOOLEAN
    BY <1>13, Zenon DEF KeepQueue, BrokerStops
  <2>2. \A w \in Workers : Handling(w)' => Handling(w)
    BY <1>13, SMT DEF KeepQueue, BrokerStops
  <2>3. TypeOK'
    BY <1>13, <2>1, SMT DEF KeepQueue, BrokerStops
  <2>4. ProgressInv' /\ ReadyForGood'
    BY <1>13, <2>1, SMT DEF KeepQueue, BrokerStops
  <2>5. (\E w \in Workers : Handling(w)') => served' # {}
    BY <1>13, <2>2, SMT DEF KeepQueue, BrokerStops
  <2> QED BY <2>1, <2>3, <2>4, <2>5, Zenon
<1>14. CASE DatabaseStops \/ BrokerStarts \/ DatabaseStarts
  <2>1. brokerUp' \in BOOLEAN /\ databaseUp' \in BOOLEAN /\ faults' \in 0 .. MaxFaults
    <3>1. CASE DatabaseStops
      <4>1. brokerUp' \in BOOLEAN /\ databaseUp' \in BOOLEAN
        BY <3>1, Zenon DEF DatabaseStops
      <4>2. faults' \in 0 .. MaxFaults
        BY <3>1, SMT DEF DatabaseStops
      <4> QED BY <4>1, <4>2
    <3>2. CASE BrokerStarts
      BY <3>2, SMT DEF BrokerStarts
    <3>3. CASE DatabaseStarts
      BY <3>3, SMT DEF DatabaseStarts
    <3> QED BY <1>14, <3>1, <3>2, <3>3
  <2>2. UNCHANGED <<queue, tables, posted, apiVars, worker>>
    BY <1>14, Zenon DEF DatabaseStops, BrokerStarts, DatabaseStarts
  <2> QED BY <2>1, <2>2, SMT
<1>15. CASE UNCHANGED vars
  BY <1>15, SMT DEF vars
<1>16. ASSUME NEW a \in Apis, SkipMigrations(a) PROVE StartupInv'
  <2>1. served' = served \cup {"none"} /\ "files" # "none"
    BY <1>16, SMT DEF SkipMigrations
  <2>2. TypeOK'
    BY <1>16, <2>1, SMT DEF SkipMigrations
  <2>3. ProgressInv' /\ ReadyForGood' /\ PublishedByApi'
    BY <1>16, <2>1, SMT DEF SkipMigrations
  <2> QED BY <2>2, <2>3, Zenon DEF PublishedByApi, StartupInv
<1> QED BY <1>1, <1>2, <1>3, <1>4, <1>5, <1>6, <1>7, <1>8, <1>9, <1>10, <1>11, <1>12,
           <1>13, <1>14, <1>15, <1>16 DEF Next, ApiStep, WorkerStarts

(* However many processes are started, in whatever order, and whatever     *)
(* fails meanwhile.                                                        *)
THEOREM StartupInvariance == Spec => []StartupInv
BY StartupInvInit, StartupInvStep, PTL DEF Spec

(* Once an API has listened the queue is there for good, and the tables    *)
(* are if one of those found its migrations.                               *)
THEOREM StaysReady == Spec => []ReadyForGood
<1>1. StartupInv => ReadyForGood BY DEF StartupInv
<1> QED BY <1>1, StartupInvariance, PTL

(* No message is handled before its tables are there, unless some API has  *)
(* listened without having found its migrations.                           *)
THEOREM HandlesWithTables == Spec => []HandledHasTables
<1>1. StartupInv => HandledHasTables
  <2> SUFFICES ASSUME StartupInv, posted \/ \E w \in Workers : Handling(w), "none" \notin served
               PROVE  PipelineTables \subseteq tables
    BY DEF HandledHasTables
  <2>1. served # {} /\ served \subseteq {"files", "none"}
    BY DEF StartupInv, PublishedByApi, TypeOK, Found
  <2>2. "files" \in served
    BY <2>1
  <2> QED BY <2>2, MigrationFacts DEF StartupInv, ReadyForGood
<1> QED BY <1>1, StartupInvariance, PTL
-----------------------------------------------------------------------------
(* The schema is one of three: nothing, the first file's tables, or all.   *)
(* No crash, and no race of several APIs at their migrations, leaves half  *)
(* a file's tables or the second file's without the first's.               *)
SchemaInv == tables \in {{}, Migrations[1], AllTables}

(* What is declared or created stays: broker outages keep the queue, and   *)
(* nothing drops a table.                                                  *)
NothingUndone == [][(queue => queue') /\ tables \subseteq tables']_vars

LEMMA SchemaStep ==
  ASSUME StartupInv, [Next]_vars
  PROVE  /\ queue => queue'
         /\ tables \subseteq tables'
         /\ SchemaInv => SchemaInv'
<1> DEFINE Kept == (queue => queue') /\ tables' = tables
<1> USE DEF serverVars, apiVars, ApiEnds, WorkerAt
<1>1. ASSUME NEW a \in Apis, ExecuteMigration(a)
      PROVE  queue' = queue /\ tables \subseteq tables' /\ (SchemaInv => SchemaInv')
  <2>1. CASE ApiEnds(a)
    BY <2>1 DEF SchemaInv
  <2>2. CASE tables' = tables \cup Migrations[file[a]] /\ queue' = queue /\ api[a] = "execute"
    <3>1. file[a] = 1 \/ (file[a] = 2 /\ Migrations[1] \subseteq tables)
      BY <2>2, MigrationFacts, SMT DEF StartupInv, TypeOK, ProgressInv
    <3>2. tables \subseteq AllTables
      BY DEF StartupInv, TypeOK
    <3>3. SchemaInv => SchemaInv'
      <4>1. CASE file[a] = 1
        BY <2>2, <4>1, MigrationFacts DEF SchemaInv
      <4>2. CASE file[a] = 2 /\ Migrations[1] \subseteq tables
        <5>1. tables' = AllTables
          BY <2>2, <3>2, <4>2, MigrationFacts
        <5> QED BY <5>1 DEF SchemaInv
      <4> QED BY <3>1, <4>1, <4>2
    <3> QED BY <2>2, <3>3
  <2>3. queue' = queue /\ api[a] = "execute"
        /\ (ApiEnds(a) \/ tables' = tables \cup Migrations[file[a]])
    BY <1>1, Zenon DEF ExecuteMigration
  <2> QED BY <2>1, <2>2, <2>3
<1>2. ASSUME NEW a \in Apis, ApiStep(a), ~ExecuteMigration(a) PROVE Kept
  <2>1. CASE DeclareQueue(a)
    <3>1. queue' = TRUE \/ UNCHANGED queue
      BY <2>1, Zenon DEF DeclareQueue
    <3>2. tables' = tables
      BY <2>1, Zenon DEF DeclareQueue
    <3> QED BY <3>1, <3>2
  <2>2. CASE ~DeclareQueue(a)
    <3>1. UNCHANGED <<queue, tables>>
      BY <1>2, <2>2, Zenon DEF ApiStep, StartApi, DialBroker, ConnectDatabase, SkipMigrations,
                              SendMigration
    <3> QED BY <3>1
  <2> QED BY <2>1, <2>2
<1>3. ASSUME NEW a \in Apis, Publish(a) \/ CrashApi(a) PROVE Kept
  BY <1>3 DEF Publish, CrashApi
<1>4. ASSUME NEW w \in Workers, WorkerStarts(w) \/ Deliver(w) \/ CrashWorker(w) PROVE Kept
  BY <1>4 DEF WorkerStarts, StartWorker, ConnectWorker, DialWorker, Consume, Handled, Finished,
              WorkerStep, Deliver, CrashWorker
<1>5. ASSUME KeepQueue \/ DatabaseStops \/ BrokerStarts \/ DatabaseStarts PROVE Kept
  <2>1. UNCHANGED <<queue, tables>>
    BY <1>5, Zenon DEF KeepQueue, BrokerStops, DatabaseStops, BrokerStarts, DatabaseStarts
  <2> QED BY <2>1
<1>6. ASSUME UNCHANGED vars PROVE Kept
  <2>1. UNCHANGED <<queue, tables>>
    BY <1>6 DEF vars
  <2> QED BY <2>1
<1>7. Kept => (queue => queue') /\ tables \subseteq tables' /\ (SchemaInv => SchemaInv')
  BY DEF SchemaInv
<1> HIDE DEF Kept
<1> QED BY <1>1, <1>2, <1>3, <1>4, <1>5, <1>6, <1>7 DEF Next

(* Migrations cut off anywhere and run again by anybody build the schema   *)
(* file by file.                                                           *)
THEOREM SchemaByFiles == Spec => []SchemaInv
<1>1. Init => SchemaInv
  BY DEF Init, SchemaInv
<1>2. StartupInv /\ SchemaInv /\ [Next]_vars => SchemaInv'
  BY SchemaStep
<1> QED BY <1>1, <1>2, StartupInvariance, PTL DEF Spec

(* Neither a table nor the queue is ever lost.                             *)
THEOREM StartupOnlyAdds == Spec => NothingUndone
<1>1. StartupInv /\ [Next]_vars => [(queue => queue') /\ tables \subseteq tables']_vars
  BY SchemaStep
<1> QED BY <1>1, StartupInvariance, PTL DEF Spec, NothingUndone

(* Once an API has listened, a worker that is about to consume is not      *)
(* turned away: it ends there by a fault only.                             *)
ConsumeSucceeds ==
  [][\A w \in Workers :
       served # {} /\ worker[w] = "consume" /\ faults' = faults => worker'[w] # "down"]_vars

(* The queue a worker does not declare itself is there for it.             *)
THEOREM WorkersFindQueue == Spec => ConsumeSucceeds
<1> DEFINE Admitted ==
      \A w \in Workers :
        served # {} /\ worker[w] = "consume" /\ faults' = faults => worker'[w] # "down"
<1>1. StartupInv /\ [Next]_vars => [Admitted]_vars
  <2> SUFFICES ASSUME StartupInv, Next, NEW w \in Workers,
                      served # {}, worker[w] = "consume", faults' = faults
               PROVE  worker'[w] # "down"
    OBVIOUS
  <2> USE DEF StartupInv, TypeOK, WorkerAt, apiVars
  <2>1. ASSUME NEW a \in Apis, ApiStep(a) \/ Publish(a) PROVE worker' = worker
    BY <2>1 DEF ApiStep, StartApi, DialBroker, DeclareQueue, ConnectDatabase, SkipMigrations,
                SendMigration, ExecuteMigration, Publish
  <2>2. ASSUME Fault PROVE FALSE
    BY <2>2, SMT DEF Fault
  <2>3. ASSUME NEW v \in Workers, WorkerStarts(v) \/ Deliver(v) PROVE worker'[w] # "down"
    <3>1. queue
      BY DEF ReadyForGood
    <3>2. CASE v # w
      <4>1. \E s : worker' = [worker EXCEPT ![v] = s]
        BY <2>3, Zenon
           DEF WorkerStarts, StartWorker, ConnectWorker, DialWorker, Consume, Handled, Finished,
               WorkerStep, Deliver
      <4> QED BY <3>2, <4>1
    <3>3. CASE v = w
      <4>1. Consume(w)
        BY <2>3, <3>3 DEF WorkerStarts, StartWorker, ConnectWorker, DialWorker, Handled, Finished,
                          WorkerStep, Deliver
      <4>2. worker' = [worker EXCEPT ![w] = "consuming"]
        BY <3>1, <4>1, Zenon DEF Consume, WorkerStep
      <4> QED BY <4>2
    <3> QED BY <3>2, <3>3
  <2>4. CASE BrokerStarts \/ DatabaseStarts
    BY <2>4 DEF BrokerStarts, DatabaseStarts
  <2> QED BY <2>1, <2>2, <2>3, <2>4
          DEF Next, CrashApi, CrashWorker, KeepQueue, BrokerStops, DatabaseStops
<1> QED BY <1>1, StartupInvariance, PTL DEF Spec, ConsumeSucceeds
=============================================================================
