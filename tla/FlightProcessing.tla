--------------------------- MODULE FlightProcessing ---------------------------
(***************************************************************************)
(* Synthetic DSM processing of the flights of one project: the "process"   *)
(* endpoint (api/v1/flights.py, strategy 1) and the GeoTIFF upload         *)
(* (api/v1/assets.py) launch generate_dsm_and_buildings                    *)
(* (tasks/post_processing.py), which a Redis lock with a time to live      *)
(* keeps to one run per flight.  The workers know no tenant but the one in *)
(* the task's arguments.  The detections a run writes are the subject of   *)
(* DetectionGenerations; of the photogrammetry that strategy 2 launches    *)
(* (DronePipeline) only what it does to the flight is here.                *)
(*                                                                         *)
(* A run r stands for one call that launches the task and for the task.    *)
(* Bounds: the calls Runs, the clock MaxTime.                              *)
(***************************************************************************)
EXTENDS Naturals

CONSTANTS
    Flights,
    Runs,
    Nobody,      \* not a run: no key in Redis, no object in MinIO
    HardLimit,   \* time_limit of the task, in ticks
    LockTTL,     \* ex= of the lock, in ticks
    MaxTime,     \* bound
    Tenanted     \* the flights live in a tenant schema, not in public

ASSUME FlightProcessingAssumption ==
    /\ Nobody \notin Runs
    /\ HardLimit \in Nat \ {0}
    /\ LockTTL \in Nat
    /\ HardLimit <= LockTTL
    /\ MaxTime \in Nat
    /\ Tenanted \in BOOLEAN

VARIABLES
    now,
    flight,      \* flights.status
    ours,        \* history: a launch or run of this module was the last to set it
    ortho,       \* the flight has an active orthomosaic row
    dsmRow,      \* the DSM row each run inserted, and whether it is active
    realDsm,     \* the DSM row of a photogrammetry of the flight
    dsmObject,   \* the run whose DSM is in the bucket under the project's key
    lock,        \* dsm_processing_lock:{flight_id}
    lockUntil,   \* when that key expires
    of,          \* the flight of each run
    handler,     \* where the launching request is
    deactivate,  \* it found an active DSM and force: it has to deactivate it
    carries,     \* the task has a tenant_schema argument
    marked,      \* history: when it wrote 'processing', before or after its task had completed
    beside,      \* history: the runs on their way when the request looked for a DSM
    task,        \* where the task is
    started      \* when it started

dbVars == <<flight, ours, ortho, dsmRow, realDsm>>
lockVars == <<lock, lockUntil>>
requestVars == <<handler, deactivate, carries, marked, beside>>
taskVars == <<task, started>>
vars == <<now, of, dsmObject, dbVars, lockVars, requestVars, taskVars>>

Holding == {"locked", "stored", "inserted", "committed"}
Alive == Holding \cup {"running"}
Ended == {"skipped", "done", "failed", "lost"}

TypeOK ==
    /\ now \in 0..MaxTime
    /\ flight \in [Flights -> {"absent", "pending", "processing", "completed"}]
    /\ ours \in [Flights -> BOOLEAN]
    /\ ortho \in [Flights -> BOOLEAN]
    /\ dsmRow \in [Runs -> {"none", "active", "inactive"}]
    /\ realDsm \in [Flights -> {"none", "active", "inactive"}]
    /\ dsmObject \in Runs \cup {Nobody}
    /\ lock \in [Flights -> Runs \cup {Nobody}]
    /\ lockUntil \in [Flights -> Nat]
    /\ of \in [Runs -> Flights]
    /\ handler \in [Runs -> {"idle", "read", "sent", "ended"}]
    /\ deactivate \in [Runs -> BOOLEAN]
    /\ carries \in [Runs -> BOOLEAN]
    /\ marked \in [Runs -> {"no", "before", "after"}]
    /\ beside \in [Runs -> SUBSET Runs]
    /\ task \in [Runs -> {"none", "queued"} \cup Alive \cup Ended]
    /\ started \in [Runs -> 0..MaxTime]

Init ==
    /\ now = 0
    /\ flight \in [Flights -> {"absent", "pending"}]
    /\ ours = [f \in Flights |-> FALSE]
    /\ ortho \in [Flights -> BOOLEAN] /\ \A f \in Flights : ortho[f] => flight[f] # "absent"
    /\ dsmRow = [r \in Runs |-> "none"]
    /\ realDsm = [f \in Flights |-> "none"]
    /\ dsmObject = Nobody
    /\ lock = [f \in Flights |-> Nobody]
    /\ lockUntil = [f \in Flights |-> 0]
    /\ of \in [Runs -> Flights]
    /\ handler = [r \in Runs |-> "idle"]
    /\ deactivate = [r \in Runs |-> FALSE]
    /\ carries = [r \in Runs |-> FALSE]
    /\ marked = [r \in Runs |-> "no"]
    /\ beside = [r \in Runs |-> {}]
    /\ task = [r \in Runs |-> "none"]
    /\ started = [r \in Runs |-> 0]

ActiveDsms(f) == {r \in Runs : of[r] = f /\ dsmRow[r] = "active"}
HasDsm(f) == ActiveDsms(f) # {} \/ realDsm[f] = "active"
Withdrawn(f) == [r \in Runs |-> IF of[r] = f /\ dsmRow[r] = "active" THEN "inactive" ELSE dsmRow[r]]

\* Requests and tasks of the flight that may still insert a DSM.
OnTheirWay(f) ==
    {r \in Runs : /\ of[r] = f
                  /\ dsmRow[r] = "none"
                  /\ handler[r] \in {"read", "sent"} \/ task[r] \in {"queued"} \cup Alive}

-----------------------------------------------------------------------------
(* POST /flights/{id}/process *)

NeverDeactivates(r, force) == FALSE
MustDeactivate(r, force) == force /\ HasDsm(of[r])

\* SELECT the orthomosaic, then the active DSM: with one and without force, answer
\* already_completed and launch nothing.
TriggerFlightProcessing(r) ==
    /\ handler[r] = "idle"
    /\ ortho[of[r]]
    /\ \E force \in BOOLEAN :
          /\ force \/ ~HasDsm(of[r])
          /\ deactivate' = [deactivate EXCEPT ![r] = MustDeactivate(r, force)]
    /\ handler' = [handler EXCEPT ![r] = "read"]
    /\ beside' = [beside EXCEPT ![r] = OnTheirWay(of[r])]
    /\ UNCHANGED <<now, of, dsmObject, dbVars, lockVars, carries, marked, taskVars>>

\* UPDATE is_active = false for every DSM row of the flight, and commit.
DeactivateDsm(r) ==
    /\ handler[r] = "read"
    /\ deactivate[r]
    /\ dsmRow' = Withdrawn(of[r])
    /\ realDsm' = [realDsm EXCEPT ![of[r]] = IF @ = "active" THEN "inactive" ELSE @]
    /\ deactivate' = [deactivate EXCEPT ![r] = FALSE]
    /\ UNCHANGED <<now, of, dsmObject, flight, ours, ortho, lockVars, handler, carries, marked,
                   beside, taskVars>>

\* send_task with the tenant of the request.
SendTask(r) ==
    /\ handler[r] = "read"
    /\ ~deactivate[r]
    /\ task' = [task EXCEPT ![r] = "queued"]
    /\ carries' = [carries EXCEPT ![r] = Tenanted]
    /\ handler' = [handler EXCEPT ![r] = "sent"]
    /\ UNCHANGED <<now, of, dsmObject, dbVars, lockVars, deactivate, marked, beside, started>>

\* UPDATE flights SET status = 'processing', whatever the task has done by now.
MarkProcessing(r) ==
    /\ handler[r] = "sent"
    /\ flight' = [flight EXCEPT ![of[r]] = "processing"]
    /\ ours' = [ours EXCEPT ![of[r]] = TRUE]
    /\ marked' = [marked EXCEPT ![r] = IF task[r] \in {"committed", "done"} THEN "after" ELSE "before"]
    /\ handler' = [handler EXCEPT ![r] = "ended"]
    /\ UNCHANGED <<now, of, dsmObject, ortho, dsmRow, realDsm, lockVars, deactivate, carries, beside, taskVars>>

\* The process dies, or the broker or the database raises.
RequestFails(r) ==
    /\ handler[r] \in {"read", "sent"}
    /\ handler' = [handler EXCEPT ![r] = "ended"]
    /\ UNCHANGED <<now, of, dsmObject, dbVars, lockVars, deactivate, carries, marked, beside,
                   taskVars>>

-----------------------------------------------------------------------------
(* What else touches the flight: POST /assets/upload-geotiff, POST /flights, photogrammetry *)

Exists(f) == flight[f] # "absent"

\* Both publish an orthomosaic and then .delay a run without a tenant, its failure swallowed;
\* neither looks for a synthetic DSM.
Launched(r) ==
    /\ handler[r] = "idle"
    /\ ortho' = [ortho EXCEPT ![of[r]] = TRUE]
    /\ \E queued \in {"queued", "none"} : task' = [task EXCEPT ![r] = queued]
    /\ handler' = [handler EXCEPT ![r] = "ended"]
    /\ beside' = [beside EXCEPT ![r] = Runs]
    /\ UNCHANGED <<now, of, dsmObject, dsmRow, realDsm, lockVars, deactivate, carries, marked, started>>

\* INSERT the orthomosaic into the flight, whose status stays; a project without a flight gets
\* one that is 'completed' (uploads that overlap may each insert theirs).
UploadGeotiff(r) ==
    /\ Launched(r)
    /\ flight' = [flight EXCEPT ![of[r]] = IF Exists(of[r]) THEN @ ELSE "completed"]
    /\ UNCHANGED ours

CreateFlight(f) ==
    /\ ~Exists(f)
    /\ flight' = [flight EXCEPT ![f] = "pending"]
    /\ UNCHANGED <<now, of, dsmObject, ours, ortho, dsmRow, realDsm, lockVars, requestVars, taskVars>>

\* Strategy 2: 'processing' once the photogrammetry is queued.
StartPhotogrammetry(f) ==
    /\ Exists(f)
    /\ flight' = [flight EXCEPT ![f] = "processing"]
    /\ ours' = [ours EXCEPT ![f] = FALSE]
    /\ UNCHANGED <<now, of, dsmObject, ortho, dsmRow, realDsm, lockVars, requestVars, taskVars>>

\* The photogrammetry completes the flight and replaces the rows of the types it has; when it
\* has made no DSM it launches a synthetic one.
PublishDsm(f) ==
    /\ Exists(f)
    /\ flight' = [flight EXCEPT ![f] = "completed"]
    /\ ours' = [ours EXCEPT ![f] = FALSE]
    /\ \E o \in {ortho[f], TRUE} : ortho' = [ortho EXCEPT ![f] = o]
    /\ dsmRow' = Withdrawn(f)
    /\ realDsm' = [realDsm EXCEPT ![f] = "active"]
    /\ UNCHANGED <<now, of, dsmObject, lockVars, requestVars, taskVars>>

PublishNoDsm(r) ==
    /\ Exists(of[r])
    /\ Launched(r)
    /\ flight' = [flight EXCEPT ![of[r]] = "completed"]
    /\ ours' = [ours EXCEPT ![of[r]] = FALSE]

-----------------------------------------------------------------------------
(* generate_dsm_and_buildings *)

StartRun(r) ==
    /\ task[r] = "queued"
    /\ task' = [task EXCEPT ![r] = "running"]
    /\ started' = [started EXCEPT ![r] = now]
    /\ UNCHANGED <<now, of, dsmObject, dbVars, lockVars, requestVars>>

LockFree(f) == lock[f] = Nobody \/ lockUntil[f] <= now
ShortExpiry == now + 1
LockExpiry == now + LockTTL
LockFlag(r) == "locked"
LockOwner(r) == r

\* SET NX EX: without the lock the run returns "skipped".
TakeLock(r) ==
    /\ task[r] = "running"
    /\ \/ /\ LockFree(of[r])
          /\ lock' = [lock EXCEPT ![of[r]] = LockOwner(r)]
          /\ lockUntil' = [lockUntil EXCEPT ![of[r]] = LockExpiry]
          /\ task' = [task EXCEPT ![r] = "locked"]
       \/ /\ ~LockFree(of[r])
          /\ task' = [task EXCEPT ![r] = "skipped"]
          /\ UNCHANGED lockVars
    /\ UNCHANGED <<now, of, dsmObject, dbVars, requestVars, started>>

\* The DSM goes under {tenant}/{project}/dsm/dsm_raw_cog.tif, the same key for every
\* flight of the project.
StoreDsm(r) ==
    /\ task[r] = "locked"
    /\ dsmObject' = r
    /\ task' = [task EXCEPT ![r] = "stored"]
    /\ UNCHANGED <<now, of, dbVars, lockVars, requestVars, started>>

\* Without a tenant schema the worker's statements go to public, where a tenant's
\* flight does not exist: the foreign key refuses the row.
ReachesFlight(r) == carries[r] = Tenanted

InsertDsm(r) ==
    /\ task[r] = "stored"
    /\ ReachesFlight(r)
    /\ dsmRow' = [dsmRow EXCEPT ![r] = "active"]
    /\ task' = [task EXCEPT ![r] = "inserted"]
    /\ UNCHANGED <<now, of, dsmObject, flight, ours, ortho, realDsm, lockVars, requestVars, started>>

CompleteUnstored(r) ==
    /\ task[r] \in {"stored", "inserted"}
    /\ flight' = [flight EXCEPT ![of[r]] = "completed"]
    /\ ours' = [ours EXCEPT ![of[r]] = TRUE]
    /\ task' = [task EXCEPT ![r] = "committed"]
    /\ UNCHANGED <<now, of, dsmObject, ortho, dsmRow, realDsm, lockVars, requestVars, started>>

\* After the detections: UPDATE flights SET status = 'completed', and commit.
CompleteFlight(r) ==
    /\ task[r] = "inserted"
    /\ flight' = [flight EXCEPT ![of[r]] = "completed"]
    /\ ours' = [ours EXCEPT ![of[r]] = TRUE]
    /\ task' = [task EXCEPT ![r] = "committed"]
    /\ UNCHANGED <<now, of, dsmObject, ortho, dsmRow, realDsm, lockVars, requestVars, started>>

\* finally: DELETE the key, whoever holds it; an error of Redis is suppressed.
ReleaseLock(f) ==
    /\ \E left \in {Nobody, lock[f]} : lock' = [lock EXCEPT ![f] = left]
    /\ UNCHANGED lockUntil

EndRun(r) ==
    /\ task[r] = "committed"
    /\ task' = [task EXCEPT ![r] = "done"]
    /\ ReleaseLock(of[r])
    /\ UNCHANGED <<now, of, dsmObject, dbVars, requestVars, started>>

\* Anything raises, the soft time limit included: no retry, and the flight keeps its
\* status.  Before the lock is taken nothing is released.
FailRun(r) ==
    /\ task' = [task EXCEPT ![r] = "failed"]
    /\ \/ task[r] \in Holding /\ ReleaseLock(of[r])
       \/ task[r] = "running" /\ UNCHANGED lockVars
    /\ UNCHANGED <<now, of, dsmObject, dbVars, requestVars, started>>

\* Out of memory, or the hard time limit: acks_late is off, the message is gone and
\* the lock stays until it expires.
KillRun(r) ==
    /\ task[r] \in Alive
    /\ task' = [task EXCEPT ![r] = "lost"]
    /\ UNCHANGED <<now, of, dsmObject, dbVars, lockVars, requestVars, started>>

\* No task outlives its hard time limit.
Tick ==
    /\ now < MaxTime
    /\ \A r \in Runs : task[r] \in Alive => now + 1 < started[r] + HardLimit
    /\ now' = now + 1
    /\ UNCHANGED <<of, dsmObject, dbVars, lockVars, requestVars, taskVars>>

RunStep(r) ==
    \/ StartRun(r) \/ TakeLock(r) \/ StoreDsm(r) \/ InsertDsm(r)
    \/ CompleteFlight(r) \/ EndRun(r) \/ FailRun(r) \/ KillRun(r)

RequestStep(r) ==
    \/ TriggerFlightProcessing(r) \/ DeactivateDsm(r) \/ SendTask(r)
    \/ MarkProcessing(r) \/ RequestFails(r) \/ UploadGeotiff(r) \/ PublishNoDsm(r)

FlightStep(f) == CreateFlight(f) \/ StartPhotogrammetry(f) \/ PublishDsm(f)

Next ==
    \/ Tick
    \/ \E r \in Runs : RunStep(r) \/ RequestStep(r)
    \/ \E f \in Flights : FlightStep(f)

Spec == Init /\ [][Next]_vars

-----------------------------------------------------------------------------
(* Properties *)

\* The deduplication lock does what its comment says, through expiry, kills and failed
\* releases: at most one run of a flight is past the lock.
OneRunPerFlight ==
    \A r, u \in Runs :
        r # u /\ of[r] = of[u] /\ task[r] \in Holding => task[u] \notin Holding

\* A flight never has two active synthetic DSM rows from requests that came one after the
\* other: one of them was on its way when the other looked, or nothing looked.
TwoDsmsOnlyByOverlap ==
    \A f \in Flights : \A r, u \in ActiveDsms(f) :
        r # u => r \in beside[u] \/ u \in beside[r]

\* A status that processing of the synthetic surface has left.  A flight that a run completed
\* has the row of its DSM, active or replaced, and a DSM of its project is in the bucket: a
\* flight is 'completed' without one only as the placeholder of an upload, or by photogrammetry.
CompletedHasDsm ==
    \A f \in Flights : ours[f] /\ flight[f] = "completed" =>
        dsmObject # Nobody /\ \E r \in Runs : of[r] = f /\ dsmRow[r] # "none"

\* A flight is 'processing' only for a run that has still to complete it or never will, or for
\* one whose request wrote the status after the run had completed it.
ProcessingHasReason ==
    \A f \in Flights : ours[f] /\ flight[f] = "processing" =>
        \E r \in Runs :
            /\ of[r] = f
            /\ marked[r] = "after" \/ (marked[r] = "before" /\ task[r] \notin {"committed", "done"})

\* The status of a flight says what the processing has come to.
StatusIsTrue == CompletedHasDsm /\ ProcessingHasReason

=============================================================================
