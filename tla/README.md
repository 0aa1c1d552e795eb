# GoVision in TLA+

GoVision detects objects in images. A Go API takes an upload, puts the image
into an external storage and a job on a RabbitMQ queue; Go workers take jobs
from the queue, call Roboflow for the inference and write the result to
PostgreSQL; a JavaScript dashboard uploads, polls the jobs and saves annotated
images; an authentication service issues access and refresh tokens. The
repository has no tests. This directory holds TLA+ models of it, the TLC runs
that check them and proofs checked by TLAPS.

## Inventory

| part | code | state | operations | module |
|---|---|---|---|---|
| upload service | `api/internal/modules/file`, `api/services/{rabbitmq,storage}` | none but the requests in flight and one AMQP channel | `UploadFileImage`, `ProcessUpload`, `Publish`, `PublisherFactory` | `UploadService` |
| upload limits | `dashboard.js`, `security.go`, `validator.go` | none | `addFiles`, `BodyLimit`, `ValidateFileSize`, `ValidateFileContent` | `UploadValidation`, `UploadGate` |
| broker | RabbitMQ (external) | queue, unacknowledged messages, connections | publish, deliver, ack, nack, requeue | `Broker` |
| worker | `worker/cmd`, `worker/internal` | the message in hand, the buffered ones | `ProcessMessages`, `handleMessage`, signals | `Worker` |
| job store | `prediction_repository.go`, `001_create_tables.sql` | tables `jobs`, `predictions` | `CreatePendingJob`, `SaveJobResult` | `JobStore` |
| job query | `api/internal/modules/job` | none | `FindByJobID` | `JobQuery` |
| tokens | `api/internal/modules/auth`, `002_create_auth_tables.sql` | table `refresh_tokens` | `Login`, `Refresh` | `Auth` |
| accounts | the same, and `validator.go` | table `users` and its unique index | `Register`, `Login` | `Accounts` |
| browser session | `api.js`, `login.js`, `jwt.go` | `localStorage` | `authFetch`, `refreshAccessToken`, `logout`, sign-in | `Session` |
| dashboard | `dashboard.js` | selection, map of jobs, poll timer | `onUploadAll`, `pollPendingJobs`, `fetchJobStatus`, `autoDownload` | `Dashboard` |
| start-up | `server.go`, `migrations.go`, both `connection.go` and `postgres.go`, `worker/cmd/main.go` | queue declared, tables created, what each process has reached | `main`, `PublisherFactory`, `RunMigrations`, `NewConnection` | `Startup` |

API and workers share nothing but the queue and the tables; the API writes
neither table of the pipeline, the workers never talk to the API. A job exists
first as a message, then as a row `pending`, then as a row `completed` with
its predictions. What makes this hard:

* **Redelivery.** A message a worker has not acknowledged when its connection
  ends goes back to the queue. The worker may be dead, or alive and still busy
  with it, and so two workers may handle one job; the row is then protected by
  PostgreSQL's row lock only.
* **Failures between two effects.** Commit and Ack, storage and publish,
  revocation of the old token and insertion of the new one are separate steps,
  and each may fail or be applied although an error is reported.
* **Two-statement reads** without a transaction, in the job query and in the
  token refresh.
* **Parallel requests of one browser**, whose answers come back in any order:
  several refreshes with one stored token, polls that overlap because
  `setInterval` does not wait for the previous one.
* **Shutdown** while a message is handled or buffered.
* **Concurrent registrations** of one address, with no lookup before the
  `INSERT`: the unique index alone decides, and the handlers tell its error
  from others by a word in a text that is not theirs.
* **Start-up in any order**: API and workers depend on the broker, the database,
  a queue and four tables, do not wait for any of them, and end when one is
  missing; a start may be cut off between two migrations, or find none and go on.

The properties that make each part correct are the ones listed under
[Runs](#runs); every place where the code is exposed is in `hazards` of
`PROJECT.json`, with the properties that cover it.

## Modules

```
Domain --- Broker --+-- UploadService --+
   |                |     |             |
   |   UploadValidation --+             +-- Pipeline --- MCPipeline
   |     |          |                   |      |  |
   |     UploadGate +-- Worker ---------+      |  PipelineProofs --- DeliveryProofs
   |       |          |                 |      |
   |   UploadGateProofs                 |   JobLedger (abstract)
   +------ JobStore --+                 |
              |                         |
              +-- JobQuery -------------+

Auth --+-- Session --- MCSession, SessionProofs
       +-- Accounts --- MCAccounts, AccountsProofs
       +-- MCAuth, AuthProofs

Dashboard --- MCDashboard, DashboardProofs
Startup --- MCStartup, StartupProofs
```

* **Domain**: the sets of jobs and workers. A job is identified with the
  upload that creates it; identifiers are assumed distinct.
* **Broker** (external): where each message is (`place`): `unpublished`,
  `ready`, with a worker, or `acked`, `discarded`, `lost`. The queue is a set,
  so every order of delivery is allowed; messages are transient, as `Publish`
  sets no delivery mode, and do not survive `Restart`. `deliveries` counts
  how often the broker handed a job out.
* **UploadService**: one handler per upload, `phase` says how far it is.
  `UploadToStorage` and `PublishJob` have the code's error exits;
  `PublishLost` is a write that succeeds on a connection that is breaking;
  `RestartApi` kills every handler in flight. A request that fails the
  validations of **UploadValidation** is refused at once. An upload whose
  answer is lost ends `aborted`, with its message published.
* **Worker**: `pc[w]` is the next call of `handleMessage`. Each repository
  call and the inference may succeed, fail, or (for writes) be applied and
  reported as an error. `Cancel` is a signal, `Crash` kills the process
  anywhere, `LoseLink` ends its connection while it works on. A cancelled
  worker may still receive a buffered message, as Go's `select` picks among
  ready cases at random.
* **JobStore**: `status` and `batches` are the committed contents, `rowLock`
  the lock between the upsert and the end of `SaveJobResult`'s transaction.
  Rows never disappear: no code deletes them.
* **JobQuery**: `First` and `Preload` are two steps.
* **Pipeline** composes these; `faults` counts what goes wrong, up to
  `MaxFaults`. **JobLedger** is what it promises: a ticket per job, opened and
  closed once, and a book entry that moves forward and is completed together
  with its results. It does *not* promise that a ticket is done rather than
  dropped, nor that there is one result per job, because the code does not.
* **UploadGate** takes one file through the four checks in their order.
* **Auth**: one repository statement per step, `row[t]` is the row of token
  `t`; `parent[t]`, `issued`, `stale[c]` are history variables. Tokens are distinct
  random values, of which only the hash is stored; a client presents one that some
  request was answered with. `CheckCredentials` leaves open how a sign-in ends.
  `LoseCall` is the death of the API process. A client that goes away ends nothing
  at the server: the repository's statements do not take the request's context.
* **Accounts** is the whole service: Auth with table `users` behind it, so that
  the sign-in is decided by what registrations have stored. `Register` is
  validation, hashing, `INSERT` and `COMMIT`, each a step with its errors (gorm
  puts a single `Create` into a transaction of its own); `holder[a]` is the
  uncommitted entry of the unique index, for which another `INSERT` of the
  address waits. A `COMMIT` may be applied and reported as an error. The handler
  takes an error for a conflict if its text contains `duplicate` or `unique`
  (`AnswerError`). The texts are PostgreSQL's and pgx's, in the server's language and
  with the names it quotes, so each failure may read as 409 or as 500, the
  unique index's too. That no database error contains `invalid credentials`, the
  text that makes a failed login a 401, is assumed; a refresh whose error contains
  `expired` would be a 401 instead of a 500, which the browser treats alike. A payload is
  an address and a password with their lengths, so that the validators and
  bcrypt's limit are the code's comparisons; of a password bcrypt looks at the
  first 72 bytes, its `key`. Accounts implements Auth (`AuthSpec`).
* **Session** puts one browser in front of Auth. A pair of tokens is named by
  its refresh token; `stalePairs` are those whose access token has expired.
  `leaving` is the time between `logout` and the navigation taking effect,
  when scripts still run, and may send requests and save an answer; the login page
  ignores a pair left that way, but opening the dashboard uses it
  (`OpenDashboard`). The connection of a refresh or a sign-in may break at any time,
  while the server goes on with it. The user may press the logout button or reload the
  page at any time; a navigation forgets the calls but not their requests, so it
  may cut off an exchange of the stored pair. `cutOff` records that: it is the
  only way a used-up pair stays in `localStorage` (the next `401` then ends in
  `logout`). One tab is modelled; tabs share `localStorage` but not calls.
* **Startup** follows `main` of API and workers up to the point where they serve
  or consume. Broker and database stop and start; an error ends a process, which
  may be started again. Each file of `migrations/` is sent as one statement and
  is a transaction of its own. `RunMigrations` looks under a relative path, and when it
  finds no file there it logs that and the API listens (`SkipMigrations`): each start finds
  all files or none. `served` records what the APIs that have listened had found. `CREATE TABLE IF NOT EXISTS` is not atomic against
  another session doing the same: of two processes at one file one may get an
  error. The broker keeps the durable queue and loses its messages. `posted` and
  the handling of a message are as much of the pipeline as its dependence on the
  tables needs.
* **Dashboard**: an action is the code between two `await`s; `fetch[p][i]` is
  what the status request for job `i` in poll `p` awaits. What the server
  answers is left open here: a job moves from no row to `pending` to
  `completed`, or stops on the way; that the pipeline's rows do so is the
  theorem `ServesDashboard`.

Some operators describe a plausible bug (`AckMultiple`,
`SaveIgnoringError`, `FindAnyToken`, ...); they stand before the definition
they deviate from, are used by nothing, and serve to show that the properties
would notice: `mutants` in `PROJECT.json` says which property notices which.

## Runs

| run | bounds | shows |
|---|---|---|
| `pipeline_safety` | 2 uploads, 2 workers, 1 fault | `IInv` (the invariant of the proofs), `ExclusiveHandling`, `FailedIsNotQueued`, `QueuedHasImage`; refinement of `JobLedger` (`LedgerSpec`) |
| `pipeline_redelivery` | 1 upload, 2 workers, 1 reader, 3 faults | `AckedIsStored`, `CompletedIffResults`, `BatchesWithinDeliveries`, `BatchesWithinFaults`, `AcceptedUnlessLost`, `NoRegression`; `CompletedReplyHasResults`, `RepliesNeverRegress` |
| `pipeline_settled` | 1 upload, 2 workers, 3 faults, fairness | `QueuedIsSettled`, `ShutdownCompletes` |
| `pipeline_accepted` | 1 upload, 1 worker, 1 fault | `AcceptedIsQueued` does not hold |
| `upload_gate` | sizes on both sides of each limit, declared and real types, two origins | `PickedImageIsNotRefused`, `AcceptedIsImage` |
| `auth_single_use` | 3 tokens, 2 requests at a time | `ExchangedOnce` does not hold |
| `session` | 3 tokens, 2 calls at a time | `SessionInv`, `StoredTokenIsUsable`, and of the token service behind the browser `RotationRevokes`, `StaleTokenIsRefused`, `RevokedForGood` |
| `session_kept` | the same | `GoodPairIsKept` does not hold |
| `dashboard` | 2 uploads, 1 lane, 2 overlapping polls, fairness | `DashboardInv`, `StoppedMeansSaved`, `CompletedIsSaved`, `ResultIsSaved` |
| `accounts` | 2 requests at a time, 2 tokens, 4 payloads | `AccountsInv`, `CreatedIsStored`, `CreatedByOne`, `AccountIsKept`, `CreatedCanSignIn`; refinement of `Auth` (`AuthSpec`) |
| `accounts_documented` | the same | `ValidIsTried` does not hold |
| `startup` | 2 APIs, 2 workers, 3 faults, fairness | `StartupInv`, `ReadyForGood`, `HandledHasTables`, `ComesUp` |

Why the bounds are enough: two workers are what exclusive handling and double
saving need, and a job is touched by no third party; two jobs, in
`pipeline_safety`, suffice for a message in hand and one in the buffer. The
reader polls one job, as the dashboard does per row. Three faults allow a worker to
be cut off, the job to be redelivered, cut off again and redelivered once
more, or a broker restart or a crash in between. Three tokens are the one a user signs
in with and two exchanges of it, sequential or concurrent; no request concerns
more than one old and one new token. Two uploads over one lane make the lane take a
second file while the first job is polled, and two polls overlap; liveness is
checked there, without symmetry, which is what keeps the instance small. Two
registrations at a time are what the unique index has to tell apart, and one
address is enough for them; the payloads have addresses of 255 and 256 bytes and
passwords of 8, 72 and 73, of which bcrypt cannot tell the last two apart when
comparing. Two API processes are what the migrations can
disturb, and three faults let the broker and the database fail in one start and
a process die in the next. The proved invariants need no bound.

Deadlock is not checked: every instance may stop legitimately, when its
uploads are answered and no worker is connected, when its tokens are used up,
when every file has been dealt with, when everything is up and no API with an
open channel is left to publish.

**Symmetry** is used for jobs, workers, readers, tokens and calls, in runs
that check safety only.

**Fairness.** `Pipeline!FairSpec` is weakly fair towards a worker's own next
step, towards receiving a buffered message, stopping, and delivery by the
broker. The code justifies the first: the inference has a timeout of 120 s and
the signal's context, repository calls return or fail (the database is assumed
to answer). A worker that waits for a row lock (`Waits`) is owed nothing, since
PostgreSQL has no lock timeout by default: it gets on because the other worker's
commit, rollback or death releases the lock, and a crash that did not would
show as a violation of `ShutdownCompletes`. Nobody has to start a worker and no upload has to go on:
the storage call has no timeout. `Dashboard!FairSpec` is weakly fair towards
the timer, the end of a request, and the code that awaits it, and strongly
fair towards an answer being received: the network does not fail for ever.
`ResultIsSaved` is conditional on the server completing the job, which the
pipeline does not promise. `Startup!FairSpec` is weakly fair towards the next
step of each process, which is a call that returns or fails, and towards being
started again, processes as well as broker and database. The last is not in
the code: it is whoever runs the system that starts what has ended, and `ComesUp`
says that this is all that person has to do, once the faults, of which a run has
`MaxFaults`, are over.

### What the failing runs show

* `AcceptedIsQueued`: README.md line 25 of the repository promises that
  successful uploads are always queued. Messages are transient and published
  without confirms, so one broker restart or one broken connection loses a job
  whose upload was answered with 202. What does hold, and is proved, is that
  it takes a fault (`FaultlessAcceptance`), and that a 202 is never answered for
  a message the handler still has or could not hand over (`AcceptedUnlessLost`).
* `ExchangedOnce`: rotation (service.go lines 102-103) revokes by primary key
  without looking whether the row was revoked meanwhile; two concurrent
  refreshes with one token both succeed. What does hold, and is proved, is
  that a token stale when it is *sent* is refused, and that without two requests
  that present one token at the same time every token buys one pair
  (`ExchangedOnceIfNotShared`).
* `GoodPairIsKept`: of two calls that get a 401 together, the slower refresh is
  refused and logs the user out, deleting the pair the faster one has stored,
  where the comment of `authFetch` promises a retry. A browser that awaits one
  refresh at a time keeps its pair (`GoodPairKeptByOneRefresh`, proved).
* `ValidIsTried`: the validator admits passwords of up to 128 bytes (and says so
  in its message), bcrypt refuses to hash more than 72; such a registration ends
  in a 500 that no retry gets around.

Two more disagreements between documentation and code need no run. README.md
(lines 99 and 110) states a limit of 5 MB for an upload; `validator.go` accepts
15 MiB and the middleware `20M`. README.md (lines 258-260) names the variables
`ROBOFLOW_WORKSPACE_ID` and `ROBOFLOW_WORKFLOW_ID`; the worker reads
`ROBOFLOW_MODEL` instead (`worker/cmd/main.go` line 29), and panics without it.

README.md line 408 lists migrations that are executed automatically when the API
starts. They are if the API is started from the repository's root: from elsewhere
`RunMigrations` finds no file and returns nil (`migrations.go` lines 24-27), the API
listens, and accounts, jobs and workers fail on missing tables. The code says so
in its log, so this is recorded as a hazard. `ReadyForGood` and
`HandledHasTables` say what holds with it: one API that listens with its files
found leaves every table for good, and no worker is handed a message for missing
tables unless some API has skipped.

Some consequences of the code contradict nothing it or its documents say, and
are therefore no findings; they are recorded as hazards with a note: a failed
job stays `pending` for ever and is polled for ever; a late poll may set a
finished job back to `pending` on the page after polling has stopped; two
overlapping polls may start the download twice (both only if two requests about
one job are awaited at once, `PollsInOrder`); a redelivered job stores its
predictions twice (at most once per delivery, `BatchesWithinDeliveries`, and at
most once more than there were faults, `BatchesWithinFaults`).

## Proofs

All for arbitrary constants, with the named assumptions of `Domain`,
`UploadValidation`, `UploadGate`, `Auth`, `Accounts`, `Dashboard` and `Startup`:
the "none" values are outside their sets, workers are not shelf names, sizes and
limits are naturals, payloads are records of the declared shape. The few theorems
with a further hypothesis (`Workers` finite, `Fits`) are named below. Three
(`ExchangedOnceIfNotShared`, `GoodPairKeptByOneRefresh`, `PollsInOrder`) assume
that requests of one kind do not overlap. The code does not ensure that; they
say that the overlap is the only way to what a failing run, or a hazard, shows.

**PipelineProofs.** `Invariance`: `Spec => []IInv`. The properties wanted are
`AckedIsStored`, `CompletedIffResults` and `QueuedHasImage`; none is inductive
alone. `AckedIsStored` needs that a worker about to acknowledge has committed
(`StoreInv`) and that the message it settles is its own (`HandInv`: hand and
label agree; `CustodyInv`: the broker's books and the worker's memory agree
while they are connected). `StoreInv` needs that the row exists from
`CreatePendingJob` on, that a transaction's row lock belongs to the worker
between upsert and commit, and nothing else. `OriginInv` says that nothing is
known of an unpublished job anywhere but in the API; `QueuedHasImage`,
`FailedIsNotQueued` and the refinement's `Submit` rest on it. The proof goes
over the actions of `Next`, one lemma per part of the invariant. From the
invariant follow `AckedStored`, `ResultsAreAtomic`, `ImagesFirst`,
`FailuresQueueNothing`, `HandlingIsExclusive`, the action property
`NothingRegresses`, and `KeepsLedger`: every step of the pipeline is a step of
`JobLedger` under the refinement mapping or leaves its variables alone.

**AuthProofs.** `AuthInvariance` proves `AuthInv`: `ProgressInv` ties the
position of each request to the row of its token, in particular that past the
revocation the row is revoked for good, whatever concurrent requests do. From
it follow `StaleRefused`, `Rotates` and `RevocationIsFinal`.
`ExchangedOnceIfNotShared` assumes `NoSharedToken`, that no two requests present
one token at the same time. `ExchangedOnce` needs `ExchangeInv` then: the token of
a request past the lookup has no successor. When it was looked up it was not
revoked, so that by `AuthInv` it had none, and nobody else can exchange it since.

**DashboardProofs.** `DashboardInvariance` proves `DashboardInv`.
`StoppedMeansSaved` is not inductive: a late "pending" can turn a completed
row into an unfinished one while the timer is off, and it is
`CompletedIsSaved`, with `FetchInv` (requests exist for accepted jobs only)
and `BatchInv` (untaken files have no row), that says such a job has already
been dealt with. `ShownIsServed` is an invariant over polls and server:
`NothingInvented`, what a row shows or a request carries the server has reached.
`PollsInOrder` assumes `NoOverlap`, that no two requests about one job are awaited
at once; with `QuietInv` (none is awaited about a finished job but the download)
a finished row stays finished and a download is started once.

**DeliveryProofs** builds on `IInv`. `CompletedReplyHasResults` and
`RepliesNeverRegress` need `QueryInv`: what a reader has read, or was answered
last, the tables have reached by now, and a row read after an answer about the
same job is no older than that answer; `RowGrows` says that the tables only ever
get further. `BatchesWithinDeliveries` is not inductive, since a worker that was
cut off may still save. `DeliveryInv` counts: the batches of a job plus the
workers that may still store one for it (the message is in their buffer, or in
hand before the commit) are no more than its deliveries. Each step of the
pipeline settles some of these workers, hands the message to one more, or turns
one into a batch (`DeliveryCases`). The count needs `Workers` to be finite,
which the theorem assumes. `BatchesWithinFaults` bounds deliveries in turn:
`FaultInv` counts the deliveries of a job, the one still to come for a message
that is not settled, and the connected workers that have been told to stop, which
will give their messages back without another fault; the sum exceeds the faults
by at most one. The hard case is a worker that stops: it returns a message and
leaves the count in the same step. `AcceptanceHolds` needs `WhereaboutsInv`, that what left
the queue for a worker was delivered and what was lost was lost by a fault.
`LocksAreAcyclic` and `HandlingTerminates` are the safety behind the liveness that
TLC checks: no worker waits for a row lock while it holds one, and nobody, not
the worker, a colleague or a fault, takes a worker back to a call of
`handleMessage` it has made (`CallsLeft` decreases). `ServesDashboard` joins the pipeline to the dashboard:
the rows its answers come from move exactly as `Dashboard!Process` lets the
server move, and only for an upload whose message is out. It follows from the
steps of `JobLedger` and `OriginInv`.

**UploadGateProofs.** The sizes of files are arbitrary. `AcceptsImagesOnly`
rests on `StageInv`, what the passed checks have established.
`RefusesNoPickedImage` holds under `Fits`: what the form adds to the file is no
more than the two limits are apart, 5 319 936 bytes. `ChecksDecide`, with
`PassedInv`, says that 202 is answered exactly for what all checks accept.

**AccountsProofs.** `AccountsInvariance` proves `AccountsInv`. `AccountIsKept`
needs `IndexInv`: whoever is about to commit an address has it in the index, and
nobody has an account of that address yet, so that of two registrations the
second waits or fails. `CreatedCanSignIn` needs `CreatedIsStored` and
`EntitledInv`, that a login which began after the 201 still has that payload.
`SignInNeedsPassword` and `FirstComeOnly` are action properties: at the
moment a pair is answered to a sign-in the stored password is still the one sent,
and of two registrations that run side by side only the one that creates the
account is told so (`CreatedByOne`). What 409 says has no theorem: it is decided by
the text of an error. `ImplementsAuth` shows that every step of the service is one of Auth, which
carries the three theorems of AuthProofs over to it.

**SessionProofs.** `SessionInvariance` proves `SessionInv`.
`StoredTokenIsUsable` is not inductive: the pair that is saved next must be
good when it arrives. `HandoverInv` says that a pair on its way to the browser is
live, not stored yet, presented by no request and given to no other call, and
`StoreInv` that the server works on the stored pair only for a call that still
waits, unless a navigation has cut it off. `ServeFacts` is all the browser's proof
needs to know of the server's steps. `ClientKeepsAuth` carries AuthProofs over
(`SessionRefusesStale`, `SessionRotates`, `SessionRevokesForGood`).
`GoodPairKeptByOneRefresh` assumes `OneRefresh`, that the browser awaits one
refresh at a time. Its `RefusalInv` says that this refresh is about the stored
pair, and that a refusal has a reason that lasts: the token is revoked or expired
for good, so the pair that `logout` deletes is no good.

**StartupProofs.** `StartupInvariance` proves `StartupInv`, for any number of
processes and faults: `ProgressInv` says what each step of `main` has behind it.
From it `StaysReady` and `HandlesWithTables`, which rest on what APIs that have
listened had found (`served`). `SchemaByFiles` adds `SchemaInv`: the tables
are those of no migration file, of the first, or of both, whoever ran them and
wherever he was cut off; `StartupOnlyAdds` that queue and tables stay, and
`WorkersFindQueue` that after an API has listened only a fault turns a worker away.

Every safety and action property of the passing runs is proved, and for three of
the four failing runs the hypothesis under which their property holds. Only
model-checked is what the prover cannot do: `QueuedIsSettled`,
`ShutdownCompletes`, `ResultIsSaved` and `ComesUp`, which are liveness.

## Not modelled

* Contents of tokens and the user a refresh token belongs to: the code looks a
  token up by its hash and never compares its owner with anybody. Contents of
  passwords beyond their length and the part bcrypt reads.
* `RevokeAllUserTokens`: nothing calls it.
* The registration form (`register.js`): it sends one request and shows the
  answer, and keeps nothing. The request is an action of Accounts.
* Generation of job ids: `generateJobID` seeds a generator from the clock for
  every call; the models assume distinct ids. That they are not when two
  requests meet in one nanosecond is a hazard in `PROJECT.json`; the clock's
  resolution is no part of the code.
* Environment variables: a process with one missing ends at once.
* Routing, CORS and header constants; connection pools (no operation holds a
  connection while it waits for another); rendering and the canvas; deletion of
  rows, which no code does.

The image storage, Roboflow, RabbitMQ, PostgreSQL and the browser are
modelled by what the code can see of them.

## Plan

Done: pipeline with its abstract ledger; upload limits; token service; accounts;
browser session; dashboard; start-up; and the proofs of all of these. What could
still be added:

1. **Client**: Dashboard over Session. A poll whose refresh is refused logs out
   in the middle of a batch, which neither module can show alone; the product of
   the two is out of TLC's reach at two files and two polls, so it needs a
   coarser Session proved to be implemented by this one.
2. **Redelivery by hand**: the code drops every failed job; if it starts to
   requeue or to write a status `failed`, JobLedger has to say so first.
