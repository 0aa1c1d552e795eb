------------------------------- MODULE Startup -------------------------------
(***************************************************************************)
(* How the system comes up: the API (api/cmd/server.go, PublisherFactory,  *)
(* RunMigrations) and the workers (worker/cmd/main.go), started in any     *)
(* order and again and again, against a broker and a database that go      *)
(* away and come back.  A process that meets an error while it starts ends *)
(* (log.Fatal, panic); whoever runs it starts it again.                    *)
(*                                                                         *)
(* RunMigrations looks for *.sql under a relative path and skips quietly   *)
(* when it finds none: a start from another working directory listens on   *)
(* whatever tables there are.  Each start finds all files or none.         *)
(*                                                                         *)
(* The environment variables are assumed to be set.                        *)
(***************************************************************************)
EXTENDS Integers, Sequences

CONSTANTS
  Apis, Workers,   (* processes *)
  MaxFaults        (* bound on crashes and outages                         *)

ASSUME MaxFaultsAssumption == MaxFaults \in Nat

VARIABLES
  brokerUp, databaseUp,
  queue,       (* the queue is declared                                    *)
  tables,      (* the tables in the database                               *)
  posted,      (* a message is in the queue                                *)
  api,         (* api[a]: the next step of main                            *)
  file,        (* file[a]: the migration a is at                           *)
  channel,     (* the APIs whose AMQP channel is open                      *)
  worker,      (* worker[w]: the next step of main, or what it is doing    *)
  served,      (* what APIs that have listened found to migrate            *)
  faults

serverVars == <<brokerUp, databaseUp, queue, tables, posted>>
apiVars == <<api, file, channel, served>>
vars == <<serverVars, apiVars, worker, faults>>

(* The tables each file of migrations/ creates, in the order of their names*)
Migrations == <<{"jobs", "predictions"}, {"users", "refresh_tokens"}>>
PipelineTables == Migrations[1]
AllTables == Migrations[1] \cup Migrations[2]

ApiSteps == {"down", "dial", "declare", "connect", "migrate", "execute", "serving"}
(* What RunMigrations finds under its path. *)
Found == {"files", "none"}

WorkerSteps == {"down", "connect", "dial", "consume", "consuming", "handling", "finishing"}

TypeOK ==
  /\ brokerUp \in BOOLEAN /\ databaseUp \in BOOLEAN
  /\ queue \in BOOLEAN
  /\ tables \in SUBSET AllTables
  /\ posted \in BOOLEAN
  /\ api \in [Apis -> ApiSteps]
  /\ file \in [Apis -> 1 .. Len(Migrations)]
  /\ channel \in SUBSET Apis
  /\ worker \in [Workers -> WorkerSteps]
  /\ served \in SUBSET Found
  /\ faults \in 0 .. MaxFaults

Init ==
  /\ brokerUp \in BOOLEAN /\ databaseUp \in BOOLEAN
  /\ queue = FALSE /\ tables = {} /\ posted = FALSE
  /\ api = [a \in Apis |-> "down"]
  /\ file = [a \in Apis |-> 1]
  /\ channel = {}
  /\ worker = [w \in Workers |-> "down"]
  /\ served = {}
  /\ faults = 0
-----------------------------------------------------------------------------
ApiAt(a, s) == api' = [api EXCEPT ![a] = s]

(* log.Fatal, or the process is killed: its connections end with it.       *)
ApiEnds(a) ==
  /\ ApiAt(a, "down")
  /\ channel' = channel \ {a}
  /\ UNCHANGED <<serverVars, file, served>>

StartApi(a) ==
  /\ api[a] = "down"
  /\ ApiAt(a, "dial")
  /\ UNCHANGED <<serverVars, file, channel, served, worker, faults>>

(* PublisherFactory: connection and channel. *)
DialBroker(a) ==
  /\ api[a] = "dial"
  /\ IF brokerUp
       THEN /\ ApiAt(a, "declare")
            /\ channel' = channel \cup {a}
            /\ UNCHANGED <<serverVars, file, served>>
       ELSE ApiEnds(a)
  /\ UNCHANGED <<worker, faults>>

(* A declaration whose error is ignored. *)
DeclareQueueOrNot(a) ==
  /\ api[a] = "declare"
  /\ ApiAt(a, "connect")
  /\ queue' = (queue \/ a \in channel)
  /\ UNCHANGED <<brokerUp, databaseUp, tables, posted, file, channel, served, worker, faults>>

(* QueueDeclare: a durable queue, there already or not.                    *)
DeclareQueue(a) ==
  /\ api[a] = "declare"
  /\ IF a \in channel
       THEN /\ ApiAt(a, "connect")
            /\ queue' = TRUE
            /\ UNCHANGED <<brokerUp, databaseUp, tables, posted, file, channel, served>>
       ELSE ApiEnds(a)
  /\ UNCHANGED <<worker, faults>>

(* The API listens while its migrations have yet to run.                   *)
ConnectAndServe(a) ==
  /\ api[a] = "connect"
  /\ IF databaseUp
       THEN /\ ApiAt(a, "serving")
            /\ served' = served \cup {"files"}
            /\ UNCHANGED <<serverVars, file, channel>>
       ELSE ApiEnds(a)
  /\ UNCHANGED <<worker, faults>>

(* NewConnection and its ping. *)
ConnectDatabase(a) ==
  /\ api[a] = "connect"
  /\ IF databaseUp
       THEN /\ ApiAt(a, "migrate")
            /\ file' = [file EXCEPT ![a] = 1]
            /\ UNCHANGED <<serverVars, channel, served>>
       ELSE ApiEnds(a)
  /\ UNCHANGED <<worker, faults>>

(* RunMigrations finds no file: logged, no error, and ListenAndServe.      *)
SkipMigrations(a) ==
  /\ api[a] = "migrate" /\ file[a] = 1
  /\ ApiAt(a, "serving")
  /\ served' = served \cup {"none"}
  /\ UNCHANGED <<serverVars, file, channel, worker, faults>>

(* RunMigrations sends the next file; its statements are one transaction.  *)
SendMigration(a) ==
  /\ api[a] = "migrate"
  /\ IF databaseUp
       THEN ApiAt(a, "execute") /\ UNCHANGED <<serverVars, file, channel, served>>
       ELSE ApiEnds(a)
  /\ UNCHANGED <<worker, faults>>

(* CREATE TABLE without IF NOT EXISTS. *)
CreateTablesOnce(a) ==
  /\ api[a] = "execute"
  /\ IF ~databaseUp \/ Migrations[file[a]] \subseteq tables
       THEN ApiEnds(a)
       ELSE /\ tables' = tables \cup Migrations[file[a]]
            /\ IF file[a] = Len(Migrations) THEN ApiAt(a, "serving") /\ UNCHANGED file
                 ELSE ApiAt(a, "migrate") /\ file' = [file EXCEPT ![a] = @ + 1]
            /\ served' = IF file[a] = Len(Migrations) THEN served \cup {"files"} ELSE served
            /\ UNCHANGED <<brokerUp, databaseUp, queue, posted, channel>>
  /\ UNCHANGED <<worker, faults>>

(* The file is executed: CREATE TABLE IF NOT EXISTS.  PostgreSQL does not  *)
(* make that safe against another session that creates the same table at   *)
(* the same time: an API at the same file may get an error and end.  After *)
(* the last file comes ListenAndServe.                                     *)
ExecuteMigration(a) ==
  /\ api[a] = "execute"
  /\ \/ ~databaseUp /\ ApiEnds(a)
     \/ LET created == Migrations[file[a]]
            rivals == {b \in Apis \ {a} : api[b] = "execute" /\ file[b] = file[a]
                                          /\ ~(created \subseteq tables)}
            next == IF file[a] = Len(Migrations) THEN "serving" ELSE "migrate"
        IN  \E ended \in SUBSET rivals :
              /\ databaseUp
              /\ tables' = tables \cup created
              /\ api' = [b \in Apis |-> IF b = a THEN next
                                        ELSE IF b \in ended THEN "down" ELSE api[b]]
              /\ channel' = channel \ ended
              /\ file' = [file EXCEPT ![a] = IF next = "migrate" THEN @ + 1 ELSE @]
              /\ served' = IF next = "serving" THEN served \cup {"files"} ELSE served
              /\ UNCHANGED <<brokerUp, databaseUp, queue, posted>>
  /\ UNCHANGED <<worker, faults>>

(* An upload's job is published; on a closed channel it never is again.    *)
Publish(a) ==
  /\ api[a] = "serving" /\ a \in channel
  /\ posted' = TRUE
  /\ UNCHANGED <<brokerUp, databaseUp, queue, tables, apiVars, worker, faults>>
-----------------------------------------------------------------------------
WorkerAt(w, s) == worker' = [worker EXCEPT ![w] = s]

StartWorker(w) ==
  /\ worker[w] = "down"
  /\ WorkerAt(w, "connect")
  /\ UNCHANGED <<serverVars, apiVars, faults>>

(* A step of main succeeds, or panics. *)
WorkerStep(w, s, ok, next) ==
  /\ worker[w] = s
  /\ WorkerAt(w, IF ok THEN next ELSE "down")
  /\ UNCHANGED <<serverVars, apiVars, faults>>

ConnectWorker(w) == WorkerStep(w, "connect", databaseUp, "dial")

(* NewRabbittMQConnection and its channel. *)
DialWorker(w) == WorkerStep(w, "dial", brokerUp, "consume")

(* Consume: the broker closes the channel if there is no such queue.       *)
Consume(w) == WorkerStep(w, "consume", queue, "consuming")

(* ProcessMessages: a message is delivered; the tables are written.        *)
Deliver(w) ==
  /\ worker[w] = "consuming" /\ posted
  /\ WorkerAt(w, "handling")
  /\ posted' = FALSE
  /\ UNCHANGED <<brokerUp, databaseUp, queue, tables, apiVars, faults>>

Handled(w) == WorkerStep(w, "handling", TRUE, "consuming")

(* Back from its last message it finds the channel closed, and main ends.  *)
Finished(w) == WorkerStep(w, "finishing", TRUE, "down")

Handling(w) == worker[w] \in {"handling", "finishing"}
-----------------------------------------------------------------------------
Fault == faults < MaxFaults /\ faults' = faults + 1

CrashApi(a) ==
  /\ Fault
  /\ api[a] # "down" /\ ApiEnds(a)
  /\ UNCHANGED worker

(* A message in hand goes back to the queue. *)
CrashWorker(w) ==
  /\ Fault
  /\ worker[w] # "down" /\ WorkerAt(w, "down")
  /\ posted' = (posted \/ worker[w] = "handling")
  /\ UNCHANGED <<brokerUp, databaseUp, queue, tables, apiVars>>

(* The broker stops: workers see their channel closed and end; an API does *)
(* not look.  Messages are transient; the queue is as durable as stays.    *)
BrokerStops(stays) ==
  /\ Fault
  /\ brokerUp /\ brokerUp' = FALSE
  /\ queue' = stays /\ posted' = FALSE
  /\ channel' = {}
  /\ worker' = [w \in Workers |->
                  IF worker[w] \in {"consume", "consuming"} THEN "down"
                  ELSE IF worker[w] = "handling" THEN "finishing" ELSE worker[w]]
  /\ UNCHANGED <<databaseUp, tables, api, file, served>>

(* A queue that is not declared durable. *)
LoseQueue == BrokerStops(FALSE)

KeepQueue == BrokerStops(queue)

(* database/sql opens new connections when the database is back.           *)
DatabaseStops ==
  /\ Fault
  /\ databaseUp /\ databaseUp' = FALSE
  /\ UNCHANGED <<brokerUp, queue, tables, posted, apiVars, worker>>

BrokerStarts ==
  /\ ~brokerUp /\ brokerUp' = TRUE
  /\ UNCHANGED <<databaseUp, queue, tables, posted, apiVars, worker, faults>>

DatabaseStarts ==
  /\ ~databaseUp /\ databaseUp' = TRUE
  /\ UNCHANGED <<brokerUp, queue, tables, posted, apiVars, worker, faults>>

ApiStep(a) ==
  \/ StartApi(a)
  \/ DialBroker(a)
  \/ DeclareQueue(a)
  \/ ConnectDatabase(a)
  \/ SkipMigrations(a)
  \/ SendMigration(a)
  \/ ExecuteMigration(a)

WorkerStarts(w) ==
  \/ StartWorker(w)
  \/ ConnectWorker(w)
  \/ DialWorker(w)
  \/ Consume(w)
  \/ Handled(w)
  \/ Finished(w)

Next ==
  \/ \E a \in Apis : ApiStep(a) \/ Publish(a) \/ CrashApi(a)
  \/ \E w \in Workers : WorkerStarts(w) \/ Deliver(w) \/ CrashWorker(w)
  \/ KeepQueue \/ DatabaseStops
  \/ BrokerStarts \/ DatabaseStarts

Spec == Init /\ [][Next]_vars
-----------------------------------------------------------------------------
(* Fairness.  A process takes its next step, and whoever runs the system   *)
(* starts what has ended: processes, broker and database.  Nobody has to   *)
(* upload anything.                                                        *)
FairSpec ==
  /\ Spec
  /\ \A a \in Apis : WF_vars(ApiStep(a))
  /\ \A w \in Workers : WF_vars(WorkerStarts(w))
  /\ WF_vars(BrokerStarts) /\ WF_vars(DatabaseStarts)
-----------------------------------------------------------------------------
(* What main has behind it at each of its steps.                           *)
ProgressInv ==
  \A a \in Apis :
    /\ api[a] \in {"connect", "migrate", "execute", "serving"} => queue
    /\ api[a] \in {"migrate", "execute"} /\ file[a] = 2 => Migrations[1] \subseteq tables
    /\ api[a] = "serving" => served # {}

(* From the first moment an API listens, and through every later crash and *)
(* outage, the queue is declared: no worker ends for want of it.  One that *)
(* found its migrations leaves every table there for good, whoever else    *)
(* starts without them before or after.                                    *)
ReadyForGood ==
  /\ served # {} => queue
  /\ "files" \in served => tables = AllTables

(* A worker may consume before the migrations have run, but only a         *)
(* listening API publishes: a message met by missing tables was let in     *)
(* because some API has skipped its migrations.                            *)
HandledHasTables ==
  (posted \/ \E w \in Workers : Handling(w)) =>
    PipelineTables \subseteq tables \/ "none" \in served

(* Messages come from an API that has listened. *)
PublishedByApi == (posted \/ \E w \in Workers : Handling(w)) => served # {}

StartupInv == TypeOK /\ ProgressInv /\ ReadyForGood /\ PublishedByApi

(* In whatever order the processes are started and wherever a start is cut *)
(* off, half-done migrations included, in the end all of them are up.      *)
ComesUp ==
  <>[](/\ \A a \in Apis : api[a] = "serving"
       /\ \A w \in Workers : worker[w] \in {"consuming", "handling"})
=============================================================================
