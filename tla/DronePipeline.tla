----------------------------- MODULE DronePipeline -----------------------------
(***************************************************************************)
(* process_drone_upload (tasks/processing.py): the photogrammetry of the   *)
(* uploads of one project.  An attempt creates a task in NodeODM, downloads *)
(* what it produced, publishes it in one transaction, queues the           *)
(* extraction of buildings, and only then removes the NodeODM task.  An    *)
(* attempt that fails is retried from the start with a new NodeODM task;   *)
(* a lost worker gives the message back (acks_late).                       *)
(*                                                                         *)
(* A job is sent in two ways.  POST /flights/{id}/process sends the first  *)
(* finished upload of the project with whichever flight was asked for, so  *)
(* an upload may be processed into several flights.  POST                  *)
(* /uploads/{id}/complete sends its upload with neither flight nor project: *)
(* such a job publishes nothing but the files, in the folder `unknown`.    *)
(* The lookup of the newest flight of a project is for a job with a project *)
(* and no flight, which nobody sends.                                      *)
(*                                                                         *)
(* A NodeODM task t = <<j, k>> is the k-th of job j; the rows that its     *)
(* attempt inserts, and the objects it stores, are named by t.             *)
(* Bounds: the jobs Jobs, and MaxSetbacks attempts that are retried or     *)
(* redelivered.                                                            *)
(***************************************************************************)
EXTENDS Naturals, FiniteSets

CONSTANTS
    Jobs,
    Uploads,
    Flights,
    NoFlight,
    Produced,       \* the assets NodeODM makes of the images
    MaxRetries,     \* max_retries of the task
    MaxSetbacks,     \* bound
    AllowSimulation,\* settings.allow_simulation
    Tenanted        \* the flight lives in a tenant schema, not in public

Assets == {"orthomosaic", "dsm"}

ASSUME DronePipelineAssumption ==
    /\ NoFlight \notin Flights
    /\ Produced \subseteq Assets
    /\ MaxRetries \in Nat
    /\ MaxSetbacks \in Nat
    /\ AllowSimulation \in BOOLEAN
    /\ Tenanted \in BOOLEAN

OdmTasks == Jobs \X (1..(1 + MaxSetbacks))
NoTask == <<>>

\* The objects are named tenant/project/type/name, the same for every flight of the project.
Folders == {"project", "unknown"}

VARIABLES
    request,     \* the upload and the flight, or NoFlight, each job was sent with
    stage,       \* where each job is
    retries,     \* of each job
    setbacks,    \* the attempts that were retried or redelivered
    odmTask,     \* the number of NodeODM tasks each job has created
    odm,         \* what NodeODM holds
    task,        \* its NodeODM task
    have,        \* what the attempt has downloaded
    stored,      \* of that, what it has put in MinIO
    object,      \* the object of each folder and type, of whichever flight
    upload,      \* uploads.status
    flight,      \* flights.status
    rows,        \* flight_assets: <<type, NodeODM task>>
    active,      \* those with is_active
    found,       \* the active rows the open transaction's UPDATE found
    followUp,    \* the extraction of buildings the job queued
    detections   \* the jobs whose follow-up wrote detections for the flight

localVars == <<task, have, stored>>
attemptVars == <<stage, retries, setbacks, localVars, found>>
odmVars == <<odmTask, odm>>
dbVars == <<upload, flight, rows, active>>
followVars == <<followUp, detections>>
vars == <<request, attemptVars, odmVars, object, dbVars, followVars>>

Stages == {"queued", "started", "submitted", "downloaded", "updating", "replacing",
           "published", "followed", "done", "failed"}

TypeOK ==
    /\ request \in [Jobs -> Uploads \X (Flights \cup {NoFlight})]
    /\ stage \in [Jobs -> Stages]
    /\ retries \in [Jobs -> 0..MaxRetries]
    /\ setbacks \in 0..MaxSetbacks
    /\ odmTask \in [Jobs -> 0..(1 + MaxSetbacks)]
    /\ odm \in [OdmTasks -> {"none", "running", "completed", "failed", "removed"}]
    /\ task \in [Jobs -> OdmTasks \cup {NoTask}]
    /\ have \in [Jobs -> SUBSET Produced]
    /\ stored \in [Jobs -> SUBSET Produced]
    /\ object \in [Folders \X Assets -> OdmTasks \cup {NoTask}]
    /\ upload \in [Uploads -> {"processing", "completed"}]
    /\ flight \in [Flights -> {"processing", "completed"}]
    /\ rows \in SUBSET (Assets \X OdmTasks)
    /\ active \in SUBSET rows
    /\ found \in [Jobs -> SUBSET rows]
    /\ followUp \in [Jobs -> {"none", "queued", "ended"}]
    /\ detections \in SUBSET Jobs

Init ==
    /\ request \in [Jobs -> Uploads \X (Flights \cup {NoFlight})]
    /\ stage = [j \in Jobs |-> "queued"]
    /\ retries = [j \in Jobs |-> 0]
    /\ setbacks = 0
    /\ odmTask = [j \in Jobs |-> 0]
    /\ odm = [t \in OdmTasks |-> "none"]
    /\ task = [j \in Jobs |-> NoTask]
    /\ have = [j \in Jobs |-> {}]
    /\ stored = [j \in Jobs |-> {}]
    /\ object = [p \in Folders \X Assets |-> NoTask]
    /\ upload = [u \in Uploads |-> "processing"]
    /\ flight = [f \in Flights |-> "processing"]
    /\ rows = {} /\ active = {}
    /\ found = [j \in Jobs |-> {}]
    /\ followUp = [j \in Jobs |-> "none"]
    /\ detections = {}

UploadOf(j) == request[j][1]
FlightOf(j) == request[j][2]

Folder(j) == IF FlightOf(j) = NoFlight THEN "unknown" ELSE "project"

\* Without a flight no row is inserted.
RowsOf(j) == IF FlightOf(j) = NoFlight THEN {} ELSE {<<a, task[j]>> : a \in have[j]}

Goto(j, s) == stage' = [stage EXCEPT ![j] = s]
Forget(j) ==
    /\ task' = [task EXCEPT ![j] = NoTask]
    /\ have' = [have EXCEPT ![j] = {}]
    /\ stored' = [stored EXCEPT ![j] = {}]
    /\ found' = [found EXCEPT ![j] = {}]

-----------------------------------------------------------------------------
(* Stages 1 to 5: validation, preparation, NodeODM *)

\* The worker takes the message; stat and download of the images.
StartAttempt(j) ==
    /\ stage[j] = "queued"
    /\ Goto(j, "started")
    /\ UNCHANGED <<request, retries, setbacks, localVars, found, odmVars, object, dbVars, followVars>>

\* NodeODM answers and there are three images: a new task, whatever the attempts before left.
SubmitOdm(j) ==
    /\ stage[j] = "started"
    /\ odmTask' = [odmTask EXCEPT ![j] = @ + 1]
    /\ task' = [task EXCEPT ![j] = <<j, odmTask'[j]>>]
    /\ odm' = [odm EXCEPT ![task'[j]] = "running"]
    /\ Goto(j, "submitted")
    /\ UNCHANGED <<request, retries, setbacks, have, stored, found, object, dbVars, followVars>>

\* NodeODM is away or there are fewer images: no retry unless simulation is allowed; a
\* simulated run has no NodeODM task and no assets.
SimulateOrGiveUp(j) ==
    /\ stage[j] = "started"
    /\ Goto(j, IF AllowSimulation THEN "downloaded" ELSE "failed")
    /\ UNCHANGED <<request, retries, setbacks, localVars, found, odmVars, object, dbVars, followVars>>

OdmFinishes(t) ==
    /\ odm[t] = "running"
    /\ \E end \in {"completed", "failed"} : odm' = [odm EXCEPT ![t] = end]
    /\ UNCHANGED <<request, attemptVars, odmTask, object, dbVars, followVars>>

\* download_all_assets skips what it fails to download; without the orthomosaic it falls
\* back to all.zip, which has all there is, and whose failure raises.
NoFallback(got) == got
WithFallback(got) == IF "orthomosaic" \in got THEN got ELSE Produced

DownloadResults(j) ==
    /\ stage[j] = "submitted"
    /\ odm[task[j]] = "completed"
    /\ \E got \in SUBSET Produced : have' = [have EXCEPT ![j] = WithFallback(got)]
    /\ Goto(j, "downloaded")
    /\ UNCHANGED <<request, retries, setbacks, task, stored, found, odmVars, object, dbVars, followVars>>

-----------------------------------------------------------------------------
(* Stages 6 and 7: conversion, MinIO, and _update_database_records *)

\* The converted asset is put in MinIO, the orthomosaic first.
StoreAsset(j, a) ==
    /\ stage[j] = "downloaded"
    /\ a \in have[j] \ stored[j]
    /\ a = "dsm" => "orthomosaic" \notin have[j] \ stored[j]
    /\ object' = [object EXCEPT ![<<Folder(j), a>>] = task[j]]
    /\ stored' = [stored EXCEPT ![j] = @ \cup {a}]
    /\ UNCHANGED <<request, stage, retries, setbacks, task, have, found, odmVars, dbVars, followVars>>

InTransaction(j) == stage[j] \in {"updating", "replacing"}
NobodyWaits(j) == TRUE
UploadRowFree(j) == \A k \in Jobs \ {j} : InTransaction(k) => UploadOf(k) # UploadOf(j)

\* UPDATE uploads: its row lock keeps other transactions of the same upload waiting.
UpdateUpload(j) ==
    /\ stage[j] = "downloaded"
    /\ stored[j] = have[j]
    /\ UploadRowFree(j)
    /\ Goto(j, "updating")
    /\ UNCHANGED <<request, retries, setbacks, localVars, found, odmVars, object, dbVars, followVars>>

\* With a flight, for each type: UPDATE is_active = false where it is true, which sees the
\* committed rows of the flight, and INSERT.
FoundBy(j) ==
    {r \in active : FlightOf(j) # NoFlight /\ r[1] \in have[j] /\ FlightOf(r[2][1]) = FlightOf(j)}

ReplaceAssets(j) ==
    /\ stage[j] = "updating"
    /\ found' = [found EXCEPT ![j] = FoundBy(j)]
    /\ Goto(j, "replacing")
    /\ UNCHANGED <<request, retries, setbacks, localVars, odmVars, object, dbVars, followVars>>

\* UPDATE projects and the flight, if there is one, COMMIT: all of it at once.
CommitRecords(j) ==
    /\ stage[j] = "replacing"
    /\ upload' = [upload EXCEPT ![UploadOf(j)] = "completed"]
    /\ flight' = [f \in Flights |-> IF f = FlightOf(j) THEN "completed" ELSE flight[f]]
    /\ rows' = rows \cup RowsOf(j)
    /\ active' = (active \ found[j]) \cup RowsOf(j)
    /\ found' = [found EXCEPT ![j] = {}]
    /\ Goto(j, "published")
    /\ UNCHANGED <<request, retries, setbacks, localVars, odmVars, object, followVars>>

-----------------------------------------------------------------------------
(* What follows the publication *)

\* The extraction from the real DSM of a flight; a failure to queue is swallowed.  Without a dsm the
\* synthetic one is queued for an orthomosaic that does not exist, and nothing comes of it.
QueueFollowUp(j) ==
    /\ stage[j] = "published"
    /\ \/ "dsm" \in have[j] /\ FlightOf(j) # NoFlight /\ followUp' = [followUp EXCEPT ![j] = "queued"]
       \/ UNCHANGED followUp
    /\ Goto(j, "followed")
    /\ UNCHANGED <<request, retries, setbacks, localVars, found, odmVars, object, dbVars, detections>>

RemoveUnpublished(j) ==
    /\ stage[j] \in {"downloaded", "followed"}
    /\ task[j] # NoTask
    /\ odm' = [odm EXCEPT ![task[j]] = "removed"]
    /\ stage' = [stage EXCEPT ![j] = IF @ = "followed" THEN "done" ELSE @]
    /\ UNCHANGED <<request, retries, setbacks, localVars, found, odmTask, object, dbVars, followVars>>

\* Only now the NodeODM task goes, if it can be reached; then the AI pipeline is queued
\* and the sender notified.
RemoveOdm(j) ==
    /\ stage[j] = "followed"
    /\ \/ task[j] # NoTask /\ odm' = [odm EXCEPT ![task[j]] = "removed"]
       \/ UNCHANGED odm
    /\ Goto(j, "done")
    /\ UNCHANGED <<request, retries, setbacks, localVars, found, odmTask, object, dbVars, followVars>>

\* The follow-ups are queued without a tenant schema: the tables they look into are those
\* of public.
FollowUpReachesFlight == ~Tenanted

\* The newest orthomosaic of the flight gets the detections; where there is no such flight
\* the task warns and completes.
RunFollowUp(j) ==
    /\ followUp[j] = "queued"
    /\ detections' = IF FollowUpReachesFlight THEN detections \cup {j} ELSE detections
    /\ followUp' = [followUp EXCEPT ![j] = "ended"]
    /\ UNCHANGED <<request, attemptVars, odmVars, object, dbVars>>

-----------------------------------------------------------------------------
(* Failures *)

Working == {"started", "submitted", "downloaded", "updating", "replacing", "published"}

CanRetry(j) == retries[j] < MaxRetries
TryAgain == setbacks < MaxSetbacks /\ setbacks' = setbacks + 1

\* Anything raises, the soft time limit and a failed NodeODM task included: the transaction
\* is rolled back and the task retried from the start, or it has failed for good.
FailAttempt(j) ==
    /\ stage[j] \in Working
    /\ \/ /\ CanRetry(j)
          /\ TryAgain
          /\ retries' = [retries EXCEPT ![j] = @ + 1]
          /\ Goto(j, "queued")
       \/ /\ ~CanRetry(j)
          /\ Goto(j, "failed")
          /\ UNCHANGED <<retries, setbacks>>
    /\ Forget(j)
    /\ UNCHANGED <<request, odmVars, object, dbVars, followVars>>

\* The worker is lost: the broker delivers the message again, with the same retries.
LoseWorker(j) ==
    /\ stage[j] \in Working \cup {"followed"}
    /\ TryAgain
    /\ Forget(j)
    /\ Goto(j, "queued")
    /\ UNCHANGED <<request, retries, odmVars, object, dbVars, followVars>>

\* The hard time limit: the message is acknowledged, nothing runs again.
HardTimeLimit(j) ==
    /\ stage[j] \in Working
    /\ Forget(j)
    /\ Goto(j, "failed")
    /\ UNCHANGED <<request, retries, setbacks, odmVars, object, dbVars, followVars>>

AttemptStep(j) ==
    \/ StartAttempt(j) \/ SubmitOdm(j) \/ SimulateOrGiveUp(j) \/ DownloadResults(j)
    \/ \E a \in Assets : StoreAsset(j, a)
    \/ UpdateUpload(j) \/ ReplaceAssets(j) \/ CommitRecords(j)
    \/ QueueFollowUp(j) \/ RemoveOdm(j)

Next ==
    \/ \E j \in Jobs :
          \/ AttemptStep(j) \/ RunFollowUp(j)
          \/ FailAttempt(j) \/ LoseWorker(j) \/ HardTimeLimit(j)
    \/ \E t \in OdmTasks : OdmFinishes(t)

Spec == Init /\ [][Next]_vars

-----------------------------------------------------------------------------
(* Properties *)

\* The NodeODM task of a job sent with a flight is removed only when its orthomosaic, if it made
\* one, is registered: whatever fails, is lost or is tried again, no result is destroyed before
\* its publication.  That of a job without a flight is removed with no row at all: there must be
\* an orthomosaic in the folder `unknown`, its own or that of a later job.
OrthomosaicNotLost ==
    "orthomosaic" \in Produced =>
        \A t \in OdmTasks : odm[t] = "removed" =>
            IF FlightOf(t[1]) = NoFlight THEN object[<<"unknown", "orthomosaic">>] # NoTask
            ELSE <<"orthomosaic", t>> \in rows

\* The jobs that process one upload into one flight replace each other's rows, also when they run
\* at the same time: one active row per type.  An upload processed into two flights leaves
\* each its rows, and two uploads in one flight are not kept apart by anything.
OneActivePerUpload ==
    \A r, s \in active :
        r[1] = s[1] /\ r # s /\ FlightOf(r[2][1]) = FlightOf(s[2][1]) =>
            UploadOf(r[2][1]) # UploadOf(s[2][1])

\* A flight shown as completed always has an active orthomosaic, and an object behind it, also
\* while another attempt replaces it; only a simulation completes it without.
CompletedHasOrthomosaic ==
    "orthomosaic" \in Produced /\ ~AllowSimulation =>
        \A f \in Flights : flight[f] = "completed" =>
            \E r \in active :
                /\ r[1] = "orthomosaic" /\ FlightOf(r[2][1]) = f
                /\ object[<<"project", "orthomosaic">>] # NoTask

\* Claimed at processing.py:687-689, the NodeODM task is removed only when everything is
\* converted and published, "nunca dado perdido": whatever it made is at least in the bucket.
NothingLost ==
    \A t \in OdmTasks : odm[t] = "removed" => \A a \in Produced : object[<<Folder(t[1]), a>>] # NoTask

=============================================================================
