# Verification of the CM TechMap backend

TLA+ models of the parts of `src/cm-techmap-backend` whose correctness depends on the order
in which processes act, on what fails between two of their steps, or on what a file or a row
goes through on its way to a user; the TLC configurations that check them on small instances;
and TLAPS proofs of the invariants that matter most. Paths below are relative to
`src/cm-techmap-backend/app` unless they begin with `src/`.

`PROJECT.json` lists the components, the runs, the theorems, the hazards at their source
lines and, for every definition of a module, the lines it is translated from.

## 1. The system

CM TechMap turns drone photographs of a municipality into orthomosaics, elevation models,
detected buildings, fiscal discrepancies and reports. A FastAPI process (one event loop, many
requests) writes PostgreSQL, one schema per tenant, and MinIO, and sends Celery tasks through
Redis to worker pools. Celery beat sends maintenance tasks. Redis also carries progress events
to WebSocket clients, one lock per flight, and the budgets of an external inference service.
Keycloak keeps the users. No component holds a lock on another's state: what keeps them
consistent is the order of commits, publications and calls. That order is what the modules
model.

### 1.1 Inventory

| Component (source) | State it keeps | Operations | Interacts with | What is hard | What makes it correct |
|---|---|---|---|---|---|
| Report generation (`api/v1/reports.py`, `tasks/report_tasks.py`, `tasks/maintenance.py`) | `reports` rows, the queue, PDF objects | request, delete, generate with retry, watchdog | broker, MinIO, beat | messages acknowledged early, a watchdog that guesses who is alive, delete against generate | a served file exists and is the report's; results are not taken back; nothing stays pending |
| Report presets (`api/v1/reports.py` 71-285) | versions of the preset in force | upsert, deactivate, resolve | report generation | MAX + 1 under concurrency | one version of a municipality in force, the last one asked for |
| Chunked upload (`api/v1/uploads.py`, `core/storage.py`) | `uploads` row, part objects | chunk, complete, cleanup | drone pipeline, beat | every handler reads the row, awaits, writes it back | a job sees the whole file, once |
| Import of parcels (`api/v1/integration.py`, `api/v1/urban_analytics.py` 115-174) | `parcels` | CSV, GeoJSON | fiscal review | savepoints, row locks, deadlocks, an aborted transaction that goes on | the register is what the committed imports counted |
| Surface model of a flight (`api/v1/flights.py`, `api/v1/assets.py`, `tasks/post_processing.py`) | flight status, DSM rows, Redis lock | trigger, GeoTIFF upload, generate | Redis, MinIO | a lock that expires, killed workers, double triggers | one run per flight; one DSM unless requests overlap |
| Maps, tiles and models (`api/v1/tiles.py`, `api/v1/models.py`, `core/dsm_normalizer.py`) | asset rows, shared object names | publish, normalise, serve, measure | all pipelines | several runs write under one name; nodata passes through six formats | what is shown belongs together; heights keep their differences |
| Persistence of detections (`tasks/post_processing.py`) | `ai_detections` rows | replace a generation | both DSM tasks | READ COMMITTED transactions that do not see each other | generations replace each other |
| Review of detections (`tasks/post_processing.py`, `tasks/maintenance.py`) | verdict, votes, roof analysis | validate, adjudicate, roofs, watchdog | broker, external judges | tasks write verdicts computed from rows that moved on | an agreed verdict stays; doubt is resolved; every roof is analyzed |
| AI pipeline (`tasks/processing.py` 946-1424) | detections and measurements of an orthomosaic | run, fall back, measure | inference, broker | three detectors that stand in for one another, AUTOCOMMIT, redelivery | what is stored says who made it |
| Drone pipeline (`tasks/processing.py`, `core/odm_client.py`) | upload, flight and asset rows, NodeODM tasks, files | attempt, retry, publish, follow up | NodeODM, MinIO, detections | hours of work, lost workers, redelivery, partial downloads | nothing is removed before it is published; one active asset per type |
| Fiscal review (`services/iptu_malha_fina.py`, `api/v1/discrepancies.py`) | runs and discrepancies | analyse, approve, reject, schedule, inspect | detections, parcels | reads and decisions that cross, detections replaced under an analysis | an analysis is whole and true; a decision stays |
| Progress stream (`core/pubsub.py`, `api/v1/websocket.py`) | a channel and a last known state per task | publish, subscribe, relay | every task, browsers | pub/sub forgets; reading and subscribing are two steps | events are news; the stream ends |
| Inference rate control (`services/groq_rate_control.py`, `services/groq_inference.py`) | minute budgets, circuit breaker, adaptive factor | reserve, call, retry, report, trip | review, AI pipeline | counters shared by all workers, read-modify-write, retries | budgets hold however calls interleave; an open breaker stops calls |
| Tenant routing (`core/database.py`, `middleware/tenant.py`, `api/v1/projects.py`) | `search_path` of pooled connections | bind, work, commit, return | every request | session state that survives in a pool | a request works in its tenant's schema |
| Tenant lifecycle, subscriptions (`api/v1/admin.py`, `services/tenant_lifecycle.py`, `api/v1/subscriptions.py`, `middleware/subscription_enforcement.py`) | tenants, subscriptions, schemas | onboard, migrate, (de)activate, subscribe, upgrade, new project | routing | four commits per onboarding, DDL on shared names, check then act | who is told 201 can work; one broken tenant breaks no other |
| Schema migrations (`src/cm-techmap-backend/alembic`, `src/cm-techmap-backend/migrations`, `src/deploy/all-in-one/entrypoint.sh`) | the shape of the database | revisions, scripts, boots | all | three sources, databases in any state | the head has every column, old rows keep their values |
| Users and authentication (`api/v1/users.py`, `api/v1/auth.py`, `services/keycloak_admin.py`, `core/security.py`) | users in Keycloak, a copy of its keys | administer, register, verify | Keycloak | an operation is several calls, a cache that is stale | one role, or none until one is given; the tenant asked for; keys come and go |
| Maintenance (`tasks/maintenance.py`, `celery_app.py`) | none of its own | expiry, watchdogs; backup, statistics | the rows of others | runs beside everything | expiry and both watchdogs are actions of the modules they touch |
| Rate limit, IPTU rules, notifications and audit log, urban analytics, telemetry | single rows, a window per process, or none | CRUD, reads, computations | database | little: one transaction or no await | not modelled (section 6) |
| Raster and geometry algorithms (`core/*_detector*.py`, `core/*_converter.py`, ...) | files | floating-point image processing | pipelines | numeric | out of a model checker's reach, but for `normalize_dsm` |

## 2. Modules

Every module names one variable per piece of state the code keeps (a column, a Redis key,
an object, a local variable that survives an await or a commit) and one action per stretch
of code between two points at which another process can be seen: a commit, a publication, a
call to the store, an `await`. Histories used by properties are marked as such where they
are declared. What an image, a model or a judge computes is a nondeterministic outcome.

### 2.1 Reports and uploads

**ReportQueue.** `status`, `file`, `taskId`, `created` are columns of `reports`; `request`
and `delete` are the program counters of the two handlers; `phase`, `report`, `attempt`,
`eta`, `upload` describe the Celery message and execution of each task id; `watchdog`,
`live`, `todo`, `saved` are the run of `requeue_stuck_reports`, whose UPDATEs stay
uncommitted and lock their rows until its loop ends; `stored` is the bucket. The three
commits of `POST /reports` are three actions. `Restore`, `Lose`, `RequestFails`,
`DeleteFails`, `WatchdogFails` are what the environment may do, at most `MaxFaults` times.
The object key is the project code and the second of the upload, so two reports of one
project finished in the same second share an object: the property about files is stated for
a report that is `Alone` in its project.

**ReportPresets.** An upsert reads the highest version, ends the active rows *its statement
sees* and inserts; only databases that ran `src/cm-techmap-backend/migrations/003_report_config_presets.sql` refuse the
same version twice (`unique`). `presets` starts with the rows that script and revision 004 seed
(`SeedCodes`). `Effective` is what a report takes: the active row of its municipality with the
highest version, without one that of 5208707 (`HomeCode`), without that one the first in the
order of codes (`Chosen`), without any the values of the code. The values of the code also stand
in for a table that is missing or cannot be read, which is left out.

**ChunkedUpload.** One upload: `status`, `received` and `expired` are its row, `parts` and
`object` the bucket. A chunk request reads the row, stores its part and writes back the count
it read plus one; nothing checks its number, so it may be a stray one outside the chunks
(`Strays`). A complete request reads the row, composes, removes the parts one by one,
dispatches the job, and only then commits `processing`. The job is reduced to what it does to
the row.

**ParcelImport.** CSV lines run in savepoints and keep what they leave out; GeoJSON features
run bare in one transaction. A feature that fails before its statement reaches the server
(`FeatureRefused`: a value the driver cannot encode, no properties) is passed over; the first
one the server refuses (`FeatureError`) aborts what follows although the loop goes on, and the
COMMIT of an aborted transaction rolls it back and answers like any other (`rolledBack`). A line
takes the row lock of its parcel until its import ends; imports that wait for one another get
one of them an error (`Deadlocked`). `ImportFails` is an error outside the loop's `try`, or a
lost process.

### 2.2 From a flight to the map

**FlightProcessing.** The synthetic DSM of the flights of a project. A run is one call that
launches `generate_dsm_and_buildings` together with the task. `lock` and `lockUntil` are the
Redis key and its expiry; `Tick` moves the clock only while no task would outlive its hard
time limit, which Celery enforces by killing the process. `KillRun` loses the task and leaves
the lock. `carries`/`Tenanted` say which schema the worker's statements reach. A direct upload
into a project without a flight inserts one that is `completed` (`UploadGeotiff`), and
photogrammetry sets the status of its flight too (`StartPhotogrammetry`, `PublishDsm`,
`PublishNoDsm`); `ours` records whether the status is a launch's or run's of this module,
`marked` whether a request wrote `processing` before or after its run completed the flight.

**ProjectMap.** The rows and files of one project: five kinds of drone products, direct
uploads, synthetic surfaces, the extraction of buildings and the normalisation by hand. Files
are stored under names shared by the project (`KeyOf`), rows have the time of their
transaction, and the endpoints (`TerrainForProject`, `BuildingsForProject`,
`OffsetForProject`, ...) are operators over both.

**SurfaceHeights.** The same surface pixel by pixel: `normalize_dsm` with a terrain model of
its shape, with one of another shape that is resampled without its nodata (`Terrain`: the mean of
the two cells `Under` a pixel, 0 outside the model) and without one, its fall-backs, the minimum of the row, the Terrarium encoding of a tile and
what `_normalize_terrain_tile` makes of it, and the point, line, polygon and legend tools.
Heights are integers in steps of half the step of a tile.

**DronePipeline.** `process_drone_upload` from message to clean-up. An attempt creates a new
NodeODM task, downloads what it made, stores it, publishes it in one transaction, queues the
extraction, and only then removes the NodeODM task. `FailAttempt` is any exception with
Celery's retry, `LoseWorker` a redelivery (`acks_late`), `HardTimeLimit` the end without one.
`request` is what each job was sent with: the first finished upload of the project and the flight
asked for (`api/v1/flights.py` 433), or an upload alone (`api/v1/uploads.py` 141), which ends in
files in the folder `unknown` and no row. Orthomosaic and surface model stand for all assets.

**DetectionGenerations.** What `_persist_building_detections` does to the detections of one
orthomosaic, statement by statement: each DELETE finds the committed rows its snapshot shows
and waits for transactions that are deleting one of them, a commit or abort wakes the waiting,
PostgreSQL may abort any transaction.

**DetectionReview.** The three review tasks and the watchdog over a queue of messages, for
any number of workers; loops commit every `BatchSize` rows. The watchdog reads the schema
`public` only (`Public`). "contradicted" is treated as
"confirmed", since nothing in the chain tells them apart, and equal messages are merged.

**AiPipeline.** `run_ai_pipeline` tries vision, network and heuristic in turn, in the three
provider modes, writes each row in AUTOCOMMIT and may be redelivered at any point. A row has
the detector that found it (`source`) and the name it is stored under (`label`).

**FiscalReview.** `run_analysis` reads detections and parcels in statements of one READ
COMMITTED transaction (`Read`, `Cross`) and stores everything or nothing (`Persist`); the
post-processing replaces detections under it (`Regenerate`; a run that detected nothing returns
before its DELETE and leaves the old ones); reviewers check in one statement
and decide in the next. `home` is the schema: the tenant's lacks columns that public has.

**ProgressStream.** `publish_progress` is `Report`, `Publish`, `StoreState` (or
`PublishFails`), in this order; a stream sends the known state, subscribes and relays.

**GroqRate.** One step per command sent to Redis; a pipeline is one step. Windows of a minute,
a bucket per entity, the adaptive state as one value that is read, changed and written back
whole, the breaker's key, and the loop of `_chat_with_retries`. The factor is a level and the
limits are given per level; the assumption is that they grow with it.

### 2.3 Tenants and users

**TenantRouting** and **ScopedAccess.** Connections of the pool with the `search_path` they
carry and the one a rollback restores, sessions that take the connection that waited longest,
the second session of `enforce_project_limit`, and `create_project`'s retries. A request whose token names no tenant gets what the middleware
falls back to (`Resolved`): the only tenant, the one of the header `X-Tenant-ID`, or none (that
look-up has a session of its own, which ends before the request and is left out).
ScopedAccess is the abstract promise of a session: it has no pool and no paths; a transaction
acts in one schema from its first statement to its last, the first one in the schema of the
request's tenant, and no later one counts as the first. The property `ScopePromise` is its
specification under the mapping of `home`, `turn`, `where` and `act` to `Home`, `Turn`, `Where`
and `Made`, the schema that the path of the session's connection resolves to. TLC checks the
refinement and TenantRouting_proofs proves it.

**TenantAccounts.** Onboarding in its separate commits, the DDL of a schema (two steps, since
a second transaction waits for the names of the first), `migrate_all_tenants` with its shared
session, (de)activation, subscriptions and the limit of a project.

**SchemaShapes** and **SchemaUpgrades.** Every alembic revision, every SQL script and the
tables of a tenant's schema as functions on shapes (table to set of columns); the upgrades
start from an empty database or any of the 32 that revision 005 names, and boot with
or without the scripts, with an upgrade that may be lost as a whole.

**UserDirectory.** Each route of the user administration as the sequence of its HTTP calls;
any call may be refused (where the code goes on) or lost (where it ends). An update may change
the email, and the name at Keycloak with it, which Keycloak refuses when another user has it
(`Taken`; a realm that forbids new names refuses more). A registration gives its role to the user
it finds under the email by then (`AssignViewer`). The first login by single sign-on makes a user
with no role of the platform (`SsoFirstLogin`; the realm file gives the identity provider a mapper
for the tenant and none for a role); `social` are those to whom none was given since. Such users,
and users with one role, may be there at the start; users an administrator made in Keycloak's own
console with several roles are not.

**KeyCache.** The copy of Keycloak's keys, its stamp taken before the call, its age without
days, the second look for an unknown key, the old copy when Keycloak does not answer; requests
overlap and answers overtake one another.

### 2.4 How they compose

The modules meet at rows and messages, and each treats its neighbour as an environment that
may do anything the neighbour's own module allows: ChunkedUpload sends the job that
DronePipeline runs and keeps only its effect on `uploads.status`; DronePipeline and
FlightProcessing both end in a writer of DetectionGenerations, which assumes nothing about
how many there are; new detections are `Redetect` in DetectionReview and `Regenerate` in
FiscalReview, which may happen at any moment; what the runs of DronePipeline and
FlightProcessing leave in the bucket and in the rows is composed with the endpoints that read
them in ProjectMap; TenantAccounts takes the shapes of schemas from SchemaShapes.

`MC*` modules give values to constants. Four of them extend several components of one part of
the system: MCUploads (ChunkedUpload, ParcelImport), MCFlight (FlightProcessing, ProjectMap,
SurfaceHeights), MCDetections (DetectionGenerations, DetectionReview, FiscalReview, AiPipeline)
and MCTenants (TenantAccounts, SchemaUpgrades, UserDirectory, KeyCache, ReportPresets). In each
of their initial states one component, named by `part` or `mode`, is in any of its own initial
states and takes all the steps; the others rest in one of theirs. The state space is the union
of the components, not the product. TenantPromises extends the five around a tenant and joins
what they promise (`StepsKeep`, `LastWordStands`).

## 3. Runs

TLC exhausts the states of each run's bounds.

| Run | Instance | Shows |
|---|---|---|
| `reports` | one report, two task ids, one retry, a watchdog with an age of one tick, one environment failure; liveness | `FileServesItsReport`: until someone deletes it, the file of a report is in the bucket and its own; `FailedHasNoFile`, `CompletedStays`: without a second dispatch, no later step takes a result back; `ReportsEnd`: a dead request, a lost message or a killed worker does not leave a report pending, and unless the environment fails, reports reach a final status for good |
| `uploads` | two chunks, a stray chunk number, three chunk requests, two complete requests; two files of two lines each over two parcels, CSV or GeoJSON, with lines the driver and lines the server refuses | `JobSeesWholeObject`; `ReadyIsTrue`: while no number is sent twice the counter is never ahead of the bucket, and all chunks are there when it says so unless a stray number was counted; `OneJobUnlessOverlap`; `ImportsAreSerial`: the register is what the answered imports counted, in the order of the commits, but for the GeoJSON imports that the server refused a feature of |
| `flight` | one flight, two launches, hard limit and lock of two ticks, three ticks; two drone flights, an upload and a normalisation, one failure; all surfaces of three pixels over five elevations, with all terrain models of three pixels and of two coarser ones | `OneRunPerFlight` through expiry and kills; `TwoDsmsOnlyByOverlap`; `StatusIsTrue`: a flight that a run completed has its surface model, one that a launch left at `processing` has a run that did not complete it or was overtaken by the status; `MapAgrees`: terrain, its base and buildings are of one run, when none failed or met another; `RowsServeFiles`; `HeightsAreShown`, of the pixels whose ground was surveyed |
| `detections` | three writers, two model versions; two workers, two flights, a new detection; two buildings, two parcels, two analyses, two reviewers; two deliveries of two features, two faults | `GenerationsMixOnlyByOverlap`; `JudgedStays`; `AnalysisIsTrue` (totals, generations, and "demolished" only where nothing stood or detections were replaced); `TwoVerdictsOnlyByOverlap`; `DecisionsKept`; `AiIsTrue` |
| `review` | one worker, a flight of two detections, one without a surface, one failure, one replacement of the detections; liveness | `WeakIsJudged`; `StaleIsAnalyzed`: in public, what can be analyzed is, unless another flight has for ever as many detections that cannot be (`Starved`) |
| `drone` | two jobs, each for either of two uploads and either of two flights or none, one retry each, two attempts in all retried or redelivered | `OneActivePerUpload`: of one upload in one flight; `OrthomosaicNotLost`: of a job sent with a flight, registered before its NodeODM task goes; `CompletedHasOrthomosaic` |
| `progress` | one stream, three events, one retry, one lost worker, two timeouts; liveness | `LiveIsNew`, `StreamEnds` |
| `groq` | three calls, one entity, two levels, two attempts, two minutes; liveness | `GuardHolds`: budgets of every minute, of the service and of an entity, and the breaker opens only after so many failures and lets at most one attempt per call through; `CallsReturn` |
| `routing` | two requests of one tenant that race for a code, one whose token may name no tenant; four connections; liveness | `RequestsAtHome`; `ScopePromise` (refinement of ScopedAccess); `RequestsEnd` |
| `tenants` | two tenants, three administrators' requests, one fault, from schemas of any version; 33 databases, three boots, one lost upgrade; two users, at most one of them there at the start, two requests (one creates, registers or changes, the other changes or deletes), first logins, one refused or lost call; two requests with tokens over two keys; three editors of the presets of three municipalities, two of which have one | `CreatedIsUsable`, `OnlyTheBrokenFail`, `TwoSubscriptionsOnlyByOverlap`; `HeadKeepsEverything`; `LastWordStands` (users and presets); `OneActiveUnlessOverlap`; `KeysServe`; `StepsKeep` |
| `finding_lost_dsm`, `finding_stray_write` | the smallest instance with the effect | section 5 |

**Why these bounds.** Two is the number at which requests, workers, transactions and jobs
begin to race, and the invariants speak of pairs at most; three editors or writers let two
overlap and one follow. Two task ids are a first dispatch and the watchdog's; one tick is the
watchdog's age limit. A third chunk request exists to repeat a chunk while another one is on
its way. Three ticks are a life of the lock and a run that starts at its end.
One retry and one crash in the same job give every position of the second attempt. Four
connections are what two creates hold at once, so that a third request meets an empty pool.
Three boots are a first, one whose upgrade is lost, and one that repairs. Budgets of two
requests and an entity's share of one make each limit bite on its own. Three pixels are two
heights and a hole; of the coarser terrain model one lies within a cell, one between two and one
outside. Deadlock is not checked (`CHECK_DEADLOCK FALSE`) where the system really
stops: when all requests, runs, writers or jobs of the instance have ended.

**Symmetry** is used only in runs without liveness properties, over sets whose members the
specification treats alike.

### 3.1 Fairness

- *ReportQueue*: the handlers' own steps and the workers' steps are weakly fair (the event
  loop and the pool go on), beat keeps sending the watchdog, time passes. Nothing is owed by
  users, exceptions or the environment, whose failures are bounded.
- *DetectionReview*: a worker goes on with its task and beat keeps sending the watchdog
  (weak); one of the messages of a kind for a flight is started eventually although other
  messages come and go (strong: the broker's list is first in first out, so a message is
  overtaken finitely often).
- *ProgressStream*: each stream's own steps are weakly fair; that assumes Redis answers
  again. While it does not, only the silence of the client ends the handler.
- *GroqRate*: each call's steps are weakly fair: the client's timeout ends every attempt.
- *TenantRouting*: a request that can take its next step does; one that waits for a
  connection is ended by `pool_timeout`. Arrivals and aborts are not fair.
- The other modules state safety only and have no fairness.

## 4. Proofs

All constants are arbitrary values that satisfy the module's assumption; the assumptions only
give the constants their types, with the exceptions named below.

| Theorem | States | Inductive invariant, and why it is needed |
|---|---|---|
| `ReportQueue_proofs!TypeCorrect` | `TypeOK` | `AllRequested`: a task, row or deletion belongs to a report that was requested; otherwise an UPDATE could touch a row that is not there |
| `ReportQueue_proofs!FilesServed` | `FileServesItsReport` | a worker between `put_object` and its commit holds a key that the row does not show yet, so the property is not inductive: `UploadServesItsReport` says the same of that key, `KeysByProject` that keys and objects are of the report's project |
| `ReportQueue_proofs!FailedWithoutFile`, `ResultsStay` | `FailedHasNoFile`, `CompletedStays` | `ResultIsFinal`: where a report has a result and was dispatched once, its only task is done, so nothing is left that could write; "once" is a cardinality, which the lemma `OneTask` turns into "any two tasks are equal" |
| `Tenants_proofs!PresetsReplaceEachOther` | `OneActiveUnlessOverlap` | `Ending`: an active row of the municipality that an upsert past its UPDATE does not end was written by a request it overlapped; `Overlapped`: overlap is mutual and two open requests overlap; `OwnRow`: a row is that of one finished request |
| `Tenants_proofs!LastWordsStand` | `LastWordStands` | users: `Given` (an identifier is not given twice), `Kept` (attributes a request has kept are still so, unless another change met it), `Singly` and `Halfway` (one request at a time changes the roles of a user who is not torn, from one role to none to one); `social` users have none until a request gives one; presets: `Counted` (versions are counted by the requests that are over), `LastInForce` (without overlap the row in force in each municipality is that of its last change), from which `Chosen` agrees on rows and on changes |
| `Tenants_proofs!BrokenAlone` | `OnlyTheBrokenFail` | `ErrorsHit`: what the loop over all tenants lists was hit by a fault of its own; the lemma `StepOnward` says once for all actions that a step leaves a request in its operation and with its slug |
| `Tenants_proofs!SubscribedTwiceByOverlap` | `TwoSubscriptionsOnlyByOverlap` | `Recorded`: who has a subscription or is about to write one has a tenant row; `Mutual`: overlap is on both sides and two requests under way overlap; `Ahead`: who is about to write overlaps the writer of any active subscription that is there |
| `Tenants_proofs!OnboardedIsUsable` | `CreatedIsUsable` | `Schemas`: every schema has the shape some version's DDL leaves, and at the current version that of a new one, which `Meets` what the fiscal analysis and the import of the cadastre write; `Made`: the tenant row and its subscription that an onboarding has committed stand, past the DDL its schema is of the current version; a tenant that lacks either has the onboarding that is under way or was cut |
| `Tenants_proofs!NothingTaken` | `StepsKeep` | `Indebted`: a request that asked and was told of a debt that stands does not go on to its insert (one that did not ask, since its token names no tenant or the query failed, is the exception of the property); lemmas that every statement of the DDL, the revisions and the scripts lets a shape grow (`Grows`) |
| `Tenants_proofs!HeadsKeepEverything` | `HeadKeepsEverything` | `Staged`: at revision 0 the schema is empty or begun by a script, later it is one of those in the field or holds all that the revisions so far add (`Stage`); `Passes`: a boot past alembic whose upgrade was not lost is at the head, unless a script came first; `RowsKept`: the values of an old report are where revision 005 reads them. The recursive function of the revisions is unrolled one at a time |
| `Tenants_proofs!SigningKeysServe` | `KeysServe` | `Dated`: the keys of a copy or an answer were in the realm when the look for them began; `AllAlong`: a key that was there all along is in the answer on its way |
| `Uploads_proofs!WholeObject` | `JobSeesWholeObject` | `ComposedWhole`: every complete request past the composition found the whole file, and no later composition can succeed with less |
| `Uploads_proofs!OneJob` | `OneJobUnlessOverlap` | `LeftBehind`: once a complete request has succeeded the row is not `uploading` again, so no later one gets past its read |
| `Uploads_proofs!ReadyMeansReady` | `ReadyIsTrue` | `CountsStored`: a chunk request on its way holds a count that is at most the number of parts other than its own; the row's count is at most the number of parts; without stray numbers the parts are chunks |
| `Uploads_proofs!RegisterIsSerial` | `ImportsAreSerial` | `Counting`, `Settled`: what is counted is what was taken, only features bring an import down, and one without an open transaction has no draft; `Locked`: a row is in one draft at most; `DraftHolds`: a draft is what the lines so far make of the committed rows, which the lock keeps as they were; and that the register is the fold of the committed imports. The lemmas `FoldExists` and `FoldsAlong` unroll the folds |
| `FlightProcessing_proofs!LockExcludes` | `OneRunPerFlight` | `InTime` (a live run is within its hard limit) and `Owns` (a run past the lock is the one the key names, and the key outlives the run). Here the assumption `HardLimit <= LockTTL` is used, which is what the two constants of the code satisfy; without it the lock does not exclude |
| `FlightProcessing_proofs!StatusTells` | `StatusIsTrue` | `Produced`: past its upload a run's surface model is in the bucket, past its INSERT its row is there, active or replaced; a status of this module is that of a flight that exists. `StatusStays` says once what the many steps do that leave the status or make it another's |
| `FlightProcessing_proofs!DsmsReplaceEachOther` | `TwoDsmsOnlyByOverlap` | `Beside`: a launch on its way while a row is active was beside the one that wrote it or has still to deactivate it; `Ordered`: it deactivates before it sends the task |
| `FlightProcessing_proofs!MapServesFiles` | `RowsServeFiles` | `Stored`: what a run has put is in the store; `RowsFilled`: a row names an object that is there, a model has an offset of its time; `OwnFile`: nobody else writes under the name of a direct upload |
| `FlightProcessing_proofs!MapBelongsTogether` | `MapAgrees` | `Alone`: one run at a time and none by hand; `Agreed`: what the run has stored is still there, and its surface is the newest until its buildings lie beside it; `Shown`: the terrain in force, its base and the buildings are of one run |
| `Sums_proofs!HeightsReachTheMap` | `HeightsAreShown` | `HeightsTyped`, `AsNormalized`: what was published, with its value for no data and its base, is what the normalisation makes of the surface; then lemmas on the coding of tiles and on the telescoping sum of a line's climbs |
| `Detections_proofs!GenerationsReplaceEachOther` | `GenerationsMixOnlyByOverlap` | `OwnSeen`, `AllSeen`: what a transaction has not marked for deletion was written by one it overlapped; `OpenOverlap`: overlap is recorded on both sides |
| `Detections_proofs!AnalysesAreTrue` | `AnalysisIsTrue` | `Sighted`: until the detections are replaced, an analysis at work knows those that are there (a run without detections replaces nothing, `NothingDetected`); `Drafted`: what it is about to store is its own and as true as what is stored; `Recorded`: a discrepancy belongs to a committed run, a run to an analysis that is done |
| `Detections_proofs!VerdictsOnlyByOverlap`, `DecisionsStay` | `TwoVerdictsOnlyByOverlap`, `DecisionsKept` | `ReviewInv`: a decided discrepancy is not pending, so a request that still decides it has read it before and overlaps the one that did |
| `Detections_proofs!PipelineIsTrue` | `AiIsTrue` | `Named`: the name a task has got is that of a detector which found it, or which found nothing; `VisionAnswered`: past the vision model a task that asked for it has its answer; `Measured`: the features before the next one are measured |
| `Detections_proofs!VerdictsOfJudgesStay` | `JudgedStays` | `JudgesVoted`: only judges agree, and they leave their votes, by which a later measurement knows their verdict |
| `DronePipeline_proofs!TypeCorrect` | `TypeOK` | `AttemptsCounted`: each NodeODM task but the first costs a retry or a lost worker; `OwnTask` |
| `DronePipeline_proofs!RemovedAfterPublication` | `OrthomosaicNotLost` | `Registered`: past the commit the rows of an attempt for a flight are there; `HasOrthomosaic`: the fallback gives every real attempt its orthomosaic; `InBucket`: an attempt without a flight has stored it |
| `DronePipeline_proofs!UploadsReplaceTheirRows` | `OneActivePerUpload` | `Apart`: the row lock keeps transactions of an upload apart; `FoundRight`: the UPDATE misses none of its rows in the flight, and none can be added until the commit |
| `DronePipeline_proofs!CompletedFlightsShow` | `CompletedHasOrthomosaic` | `FoundRight`: a transaction deactivates only types it replaces and rows of its own flight; `InBucket`: it publishes only what it has stored |
| `DronePipeline_proofs!RelaysNews` | `LiveIsNew` | `Numbered`: what is stored or told was PUBLISHed before; `Ahead`: the next event of a live stream is later than all it has told |
| `Sums_proofs!GuardKeepsItsWord` | `GuardHolds` | `InTurn`: no call is counted before its turn, none admitted that was not counted within the limits; `Booking`: buckets and tickets agree like a ledger, so the admissions of a minute sum to no more than the last admitted ticket's count; `Reasoned`: no copy of the state counts more failures than there were; `Stopped`: while the circuit is open a call that may still begin an attempt has begun none |
| `TenantRouting_proofs!ActsAtHome` | `RequestsAtHome` | `InPool`: a connection is idle or held by one session; `InCode`: which statement of its handler a request is at, and whether its session has ended a transaction by then; `AtHome`: the connection of a session in its first transaction carries its tenant's path |
| `TenantRouting_proofs!KeepsThePromise` | `ScopePromise` | the same; one lemma per kind of step gives its step of ScopedAccess: `AtHome` for the opening of a first transaction, and for every step that it touches no path of a connection another session holds (`Alone`) |

Each proof has one lemma or step per action and combines `Init => IInv`,
`IInv /\ [Next]_vars => IInv'` and `IInv => Inv` with PTL.

The modules `Tenants_proofs`, `Detections_proofs`, `Uploads_proofs`, `DronePipeline_proofs` and
`Sums_proofs` each hold the proofs of several components. `DirectoryAssumption`,
`KeysAssumption`, `FiscalAssumption`, `AiAssumption`, `MapAssumption`, `HeightsAssumption` and
`ImportAssumption` are definitions, which the MC module asserts and the theorems take as
a hypothesis. Beyond types these say: the limits of GroqRate grow with the factor
(`LimitsAssumption`), no elevation is below the abyss and a metre is 512 steps of a tile
(`HeightsAssumption`), the fictitious identifiers (nobody, none, never) are not real ones.

**Data of any size.** `FoldLeft` over the lines of a file and over the committed imports, the
sums of a minute's admissions and of a line's climbs, and the recursive function of the
revisions are proved without an induction theorem: the natural numbers are well founded, so
if a claim fails somewhere there is a least place where it fails, and that is led to a
contradiction.

**Only model-checked.** Liveness under fairness (`ReportsEnd`, `WeakIsJudged`, `StaleIsAnalyzed`,
`StreamEnds`, `CallsReturn`, `RequestsEnd`) needs ENABLED and stays with TLC. Every other property of
a passing run is a theorem. No module declares a recursive operator.

## 5. Where the code and what it says disagree

Two runs each show TLC refuting a statement of the repository:

- `finding_lost_dsm`: `tasks/processing.py` 687-689 removes the NodeODM task when everything
  is published, "nunca dado perdido"; an asset whose download fails is skipped
  (`core/odm_client.py` 372), the run completes, and the only copy is removed. (The model of
  the finding asks for no more than a file in the bucket.)
- `finding_stray_write`: `get_db_session` (`core/database.py` 85-86) says it routes "all
  queries to the correct tenant schema"; the rollback of a create that lost a race for its code also undoes
  the session's SET search_path (`api/v1/projects.py` 106), and the second attempt reads the
  next code of, and writes to, whatever schema its connection was left with.

**Further divergences** met while modelling. Most are behaviours of the modules that the
properties name as exceptions; a reader can turn each into an invariant.

*Reports and uploads*
- A report that is `generating` when its worker dies stays so: the watchdog selects `pending`
  only (`tasks/maintenance.py` 252), while `tasks/report_tasks.py` 53-54 relies on it. Reports
  outside `PublicReports` are never seen by it. `inspect` does not list messages still in the
  queue, so a second dispatch of a live task happens. A busy worker uploads the file of a
  report that was deleted (`api/v1/reports.py` 558-576).
- The upload job is dispatched before `processing` is committed (`api/v1/uploads.py` 149): a
  job that ends first is overwritten, and the row says processing for ever.
- `upload_chunk` compares `chunk_index` with nothing (`api/v1/uploads.py` 69-96): a number
  outside the chunks is stored and counted, the upload reads ready with a chunk missing, and
  `compose_parts` then fails on the part it lacks.
- A GeoJSON import that the server refuses a feature of stores nothing and still answers with
  the number of features before it (`api/v1/urban_analytics.py` 168-173), in the same words as
  one whose features failed in the driver, which stores the others; features without a code get `auto_{n}`,
  which collides between files; a feature erases attributes it lacks but never the owner. An
  empty area cell of a CSV file becomes 0.0, and WKT of a point is counted as a geometry.
- Presets of overlapping upserts can both stay in force. A municipality whose preset was ended
  takes that of another one (`api/v1/reports.py` 139-140), and its reports then change with
  changes that do not name it. The simulation of IPTU rules and the analysis compute differently.

*From a flight to the map*
- A run that fails, or is killed, leaves the flight `processing` (`tasks/post_processing.py` 555),
  and so does one that ends before its request writes that status (`api/v1/flights.py` 417). A
  direct upload makes its placeholder flight `completed` before any surface
  (`api/v1/assets.py` 185), and its project stays so if the queue refuses the task; the extraction after photogrammetry is queued without the
  tenant's schema (`tasks/processing.py` 645), the omission that 773-777 describe as fixed.
- A job that `POST /uploads/{id}/complete` sends has neither flight nor project
  (`api/v1/uploads.py` 141-146): hours of photogrammetry end with the upload `completed`, files under
  `{tenant}/unknown/` that the next such job overwrites, no asset row (`tasks/processing.py`
  853), no flight changed and no follow-up, and the NodeODM task is removed all the same (690).
  `POST /flights/{id}/process` processes the project's first finished upload into whichever
  flight is asked for (`api/v1/flights.py` 446), not the upload of that flight.
- Normalising by hand keeps the recorded minimum, so tiles are lowered twice; it and the
  drone runs write `dsm_normalized` under the project's shared name; `MarkReal` relabels
  synthetic and retired rows; `offset_xyz` and `model_offset` tie on their creation time; the
  buildings endpoint answers "processing" for ever after a failed follow-up.
- A terrain model of another shape is resampled without `src_nodata` (`core/dsm_normalizer.py`
  235-243): beside a hole of the model the ground becomes an elevation kilometres below, outside
  the model 0, and the height there is whatever the clamp leaves, up to 200 m. The property
  speaks of the pixels whose ground is resampled from data alone (`Surveyed`).
- `normalize_dsm` makes 0 both the ground and the nodata of its file: the ground is
  transparent, a flat surface has no valid pixel and is published raw, and the terrain tile
  of a hole in a raw surface with a negative minimum is a wall, although
  `api/v1/tiles.py` 287-293 says nodata is ground. The profile tool reads -9999 as a height.
- Overlapping detection runs mix generations, and a commit removes rows of other model
  versions although the docstring says otherwise (`tasks/post_processing.py` 76-112). The
  watchdog of stale flights takes the flight with the most pending detections each time, so one
  that cannot be analyzed starves those with fewer (`tasks/maintenance.py` 308), and it sees the
  flights of public only (298-310), while its docstring speaks of every machine's. A run that
  detects nothing keeps the old detections (`tasks/post_processing.py` 87).
- AI pipeline: `asset_id` is never in `processed_assets`, so `tasks/processing.py` 704
  passes the id of the upload for that of the orthomosaic; heuristic detections are stored under the name of the vision model or the
  network that found nothing before them; a measurement run is `completed` before its
  measurements are inserted.

*Fiscal review*
- With no detections at all every built parcel is DEMOLISHED; a second analysis stores its
  discrepancies again; an approval whose notification fails is rolled back and answered
  "approved"; the result of an inspection checks no status; a discrepancy of a tenant's schema
  (`detection_id` without ON DELETE) blocks the next post-processing of its flight.

*Progress and inference*
- A final event published between the read of the known state and the subscription is missed
  (`core/pubsub.py` 100-110); the connection then waits for its idle limit. The stage `error`
  of two tasks ends no stream, a `failed` that will be retried ends it too early, and a client
  that only listens is cut after ten minutes although updates reach it.
- A request refused for its entity has spent the budget of the minute; retries are not
  reserved; two workers that fail together count one failure, a success erases failures of
  others; the estimate of tokens counts the characters of the encoded image.

*Tenants, schemas, users*
- A half-created tenant (a row without a schema) works in public; it cannot be deactivated;
  `migrate_all_tenants` looks at active tenants only. A cancelled subscription keeps
  `is_active`, so a new one is refused for ever; `enforce_project_limit` counts
  `public.projects`, and an error of the query for the subscription, or a token without a tenant,
  lets a tenant in debt create one (`middleware/subscription_enforcement.py` 34, 49-52, 62-63);
  the functions of `services/tenant_quota.py` are called from nowhere; the
  tenant of a user is cached without an end (`middleware/tenant.py` 83).
- The tables of a tenant lack columns the code writes (`reports`: status, output_format,
  requested_by; `uploads`: processing_job_id; `discrepancies`: reviewer_notes and others).
- Revision 005 adds `output_format` with a default before it copies `format` into rows where
  it is NULL, so the copy never fires; a boot whose upgrade is lost on an empty database runs
  the scripts, after which revision 003 can never be applied (`src/deploy/all-in-one/entrypoint.sh`
  123).
- `update_user` reads the attributes and takes an error other than 404 for "none": the write
  erases the tenant. A change of role ignores the answer to its DELETE. An update that
  disables a user ends no session. A user whom single sign-on made has no role of the platform
  until somebody gives one, and is in the tenant "default". The age of the key copy is `timedelta.seconds`: a copy a
  day old can look fresh.

## 6. What is not modelled

- **Request rate limit**: one dictionary per process with no `await` between check and append.
- **IPTU rules, notifications, audit log, most of projects and assets**: one transaction on
  one row. Where a failed insert ends the transaction around it, that is an action.
- **Urban analytics, dashboards, telemetry, health, backup, statistics**: reads and
  computations that keep nothing between requests.
- **Raster and geometry algorithms** other than `normalize_dsm`, and the contents of reports:
  floating-point processing. Gaussian splats, vector styles, the public map and the tile
  server's own cache are proxies.
- **Keycloak, PostgreSQL, Redis, MinIO, NodeODM, Celery** are environments: what the code relies on
  (row locks, READ COMMITTED, unique indexes, MULTI/EXEC, acknowledgement, time limits) is
  in the actions, marked external in `PROJECT.json`.
- **The cache of a user's tenant**: no statement says when a change takes effect. Password
  resets, token refresh and the listing of users change nothing the properties speak of.
- Types, defaults and indexes of columns in SchemaShapes; row level security.

## 7. Plan

1. Proofs: the step simulation behind `KeepsThePromise` for more than one promise (a serial
   register as the abstract specification of ParcelImport, a fair budget as that of GroqRate).
2. `DronePipeline` for all kinds of assets, with `run_ai_pipeline` and the notification as its
   last steps, so that AiPipeline's redelivery is its own.
3. The synthetic heights of `core/dsm_generator.py` at the level of SurfaceHeights, and the
   comparison report.
