----------------------------- MODULE ReportQueue -----------------------------
(***************************************************************************)
(* Report generation: the API handlers of api/v1/reports.py, the Celery    *)
(* task of tasks/report_tasks.py and the requeue_stuck_reports watchdog of *)
(* tasks/maintenance.py, which run in different processes and share the    *)
(* reports table, the "reports" queue and the MinIO bucket.  A step is     *)
(* what one process does between two points where another can be seen: a   *)
(* commit, a publication to the broker, a call to the object store.        *)
(*                                                                         *)
(* Bounds: MaxTasks task ids, MaxClock seconds, MaxFaults failures of the  *)
(* environment (killed workers, lost messages, failing connections).       *)
(***************************************************************************)
EXTENDS Naturals, FiniteSets

CONSTANTS
    Reports,        \* ids of the reports users may request
    NoReport,       \* no report
    Projects,       \* project codes
    ProjectOf,      \* the project code of each report
    PublicReports,  \* the reports whose row lives in public.reports
    MaxTasks,       \* bound: Celery task ids
    MaxRetries,     \* max_retries of generate_project_report
    AgeTicks,       \* max_age_minutes of the watchdog, in ticks
    WorkerSlots,    \* concurrency of the workers that serve "reports"
    MaxClock,       \* bound: ticks of the clock
    MaxFaults       \* bound: environment failures

ASSUME ReportQueueAssumption ==
    /\ NoReport \notin Reports
    /\ ProjectOf \in [Reports -> Projects]
    /\ PublicReports \subseteq Reports
    /\ MaxTasks \in Nat /\ MaxRetries \in Nat /\ AgeTicks \in Nat
    /\ WorkerSlots \in Nat /\ MaxClock \in Nat /\ MaxFaults \in Nat

TaskIds == 1..MaxTasks
NoTask == 0
Ticks == 0..MaxClock

\* put_object's key: the project code and the second of the upload.
Keys == Projects \X Ticks
NoKey == <<>>

Running == {"started", "rendering", "uploaded", "failing"}
Live == Running \cup {"queued", "prefetched"}

VARIABLES
    (* the reports table *)
    status,   \* "none" before the INSERT, "deleted" after the DELETE
    file,     \* file_key
    taskId,   \* celery_task_id
    created,  \* created_at
    (* the generate_report and delete_report handlers, by report *)
    request,  \* where the request that creates the report is
    sent,     \* the id of the task it dispatched
    delete,   \* where the request that deletes the report is
    readKey,  \* the file_key it read
    (* the messages and executions of generate_project_report, by task id *)
    phase, report, attempt, eta, upload,
    (* the run of requeue_stuck_reports *)
    watchdog, \* where it is
    live,     \* the ids in the reply of inspect
    todo,     \* the rows its loop has still to dispatch again
    saved,    \* its uncommitted UPDATEs of celery_task_id
    (* the environment *)
    stored,   \* the bucket: whose report each key holds, NoReport if absent
    clock,
    faults    \* environment failures so far

rowVars == <<status, file, taskId, created>>
requestVars == <<request, sent>>
deleteVars == <<delete, readKey>>
taskVars == <<phase, report, attempt, eta, upload>>
watchdogVars == <<watchdog, live, todo, saved>>
vars == <<rowVars, requestVars, deleteVars, taskVars, watchdogVars, stored, clock, faults>>

TypeOK ==
    /\ status \in [Reports -> {"none", "pending", "generating", "completed", "failed", "deleted"}]
    /\ file \in [Reports -> Keys \cup {NoKey}]
    /\ taskId \in [Reports -> TaskIds \cup {NoTask}]
    /\ created \in [Reports -> Ticks]
    /\ request \in [Reports -> {"idle", "committed", "dispatched", "ended"}]
    /\ sent \in [Reports -> TaskIds \cup {NoTask}]
    /\ delete \in [Reports -> {"idle", "selected", "removed", "aborted", "ended"}]
    /\ readKey \in [Reports -> Keys \cup {NoKey}]
    /\ phase \in [TaskIds -> Live \cup {"unused", "done", "lost"}]
    /\ report \in [TaskIds -> Reports \cup {NoReport}]
    /\ attempt \in [TaskIds -> 0..MaxRetries]
    /\ eta \in [TaskIds -> Ticks]
    /\ upload \in [TaskIds -> Keys \cup {NoKey}]
    /\ watchdog \in {"idle", "inspected", "looping"}
    /\ live \in SUBSET TaskIds
    /\ todo \in SUBSET Reports
    /\ saved \in [Reports -> TaskIds \cup {NoTask}]
    /\ stored \in [Keys -> Reports \cup {NoReport}]
    /\ clock \in Ticks
    /\ faults \in 0..MaxFaults

Init ==
    /\ status = [r \in Reports |-> "none"]
    /\ file = [r \in Reports |-> NoKey]
    /\ taskId = [r \in Reports |-> NoTask]
    /\ created = [r \in Reports |-> 0]
    /\ request = [r \in Reports |-> "idle"]
    /\ sent = [r \in Reports |-> NoTask]
    /\ delete = [r \in Reports |-> "idle"]
    /\ readKey = [r \in Reports |-> NoKey]
    /\ phase = [t \in TaskIds |-> "unused"]
    /\ report = [t \in TaskIds |-> NoReport]
    /\ attempt = [t \in TaskIds |-> 0]
    /\ eta = [t \in TaskIds |-> 0]
    /\ upload = [t \in TaskIds |-> NoKey]
    /\ watchdog = "idle"
    /\ live = {}
    /\ todo = {}
    /\ saved = [r \in Reports |-> NoTask]
    /\ stored = [k \in Keys |-> NoReport]
    /\ clock = 0
    /\ faults = 0

-----------------------------------------------------------------------------
(* Shared by the processes *)

Exists(r) == status[r] \notin {"none", "deleted"}

\* UPDATE reports SET column = value WHERE id = r: no row, no effect.
Write(column, r, value) == IF Exists(r) THEN [column EXCEPT ![r] = value] ELSE column

\* The watchdog's UPDATEs stay uncommitted until its loop ends and hold the row.
Unlocked(r) == saved[r] = NoTask

\* A task id is a fresh uuid; taking the ids in order loses nothing.
Fresh(t) == phase[t] = "unused" /\ \A u \in TaskIds : u < t => phase[u] # "unused"

Publish(t, r) ==
    /\ phase' = [phase EXCEPT ![t] = "queued"]
    /\ report' = [report EXCEPT ![t] = r]
    /\ eta' = [eta EXCEPT ![t] = clock]
    /\ UNCHANGED <<attempt, upload>>

\* What a task held is gone when it ends, but not which report it was for.
Finish(t, how) ==
    /\ phase' = [phase EXCEPT ![t] = how]
    /\ attempt' = [attempt EXCEPT ![t] = 0]
    /\ eta' = [eta EXCEPT ![t] = 0]
    /\ upload' = [upload EXCEPT ![t] = NoKey]
    /\ UNCHANGED report

Fault == faults < MaxFaults /\ faults' = faults + 1

-----------------------------------------------------------------------------
(* POST /reports *)

\* INSERT the row as 'pending' and commit.
GenerateReport(r) ==
    /\ request[r] = "idle"
    /\ clock + AgeTicks <= MaxClock
    /\ status' = [status EXCEPT ![r] = "pending"]
    /\ created' = [created EXCEPT ![r] = clock]
    /\ request' = [request EXCEPT ![r] = "committed"]
    /\ UNCHANGED <<file, taskId, sent, deleteVars, taskVars, watchdogVars, stored, clock, faults>>

\* generate_project_report.delay(...)
DispatchReport(r) ==
    /\ request[r] = "committed"
    /\ \E t \in TaskIds :
          /\ Fresh(t)
          /\ Publish(t, r)
          /\ sent' = [sent EXCEPT ![r] = t]
    /\ request' = [request EXCEPT ![r] = "dispatched"]
    /\ UNCHANGED <<rowVars, deleteVars, watchdogVars, stored, clock, faults>>

EndRequest(r) ==
    /\ request' = [request EXCEPT ![r] = "ended"]
    /\ sent' = [sent EXCEPT ![r] = NoTask]

\* A variant that writes back the row it inserted.
SaveTaskIdAndStatus(r) ==
    /\ request[r] = "dispatched"
    /\ Unlocked(r)
    /\ taskId' = Write(taskId, r, sent[r])
    /\ status' = Write(status, r, "pending")
    /\ EndRequest(r)
    /\ UNCHANGED <<file, created, deleteVars, taskVars, watchdogVars, stored, clock, faults>>

\* UPDATE celery_task_id and commit: the worker may already be at work.
SaveTaskId(r) ==
    /\ request[r] = "dispatched"
    /\ Unlocked(r)
    /\ taskId' = Write(taskId, r, sent[r])
    /\ EndRequest(r)
    /\ UNCHANGED <<status, file, created, deleteVars, taskVars, watchdogVars, stored, clock, faults>>

\* The handler dies, or its presets, broker or database call raises.
RequestFails(r) ==
    /\ request[r] \in {"committed", "dispatched"}
    /\ Fault
    /\ EndRequest(r)
    /\ UNCHANGED <<rowVars, deleteVars, taskVars, watchdogVars, stored, clock>>

-----------------------------------------------------------------------------
(* DELETE /reports/{id} *)

\* SELECT file_key, 404 if there is no row.
DeleteReport(r) ==
    /\ delete[r] \in {"idle", "aborted"}
    /\ Exists(r)
    /\ delete' = [delete EXCEPT ![r] = "selected"]
    /\ readKey' = [readKey EXCEPT ![r] = file[r]]
    /\ UNCHANGED <<rowVars, requestVars, taskVars, watchdogVars, stored, clock, faults>>

\* remove_object, when a key was read; an error is only logged.
RemoveObject(r) ==
    /\ delete[r] = "selected"
    /\ delete' = [delete EXCEPT ![r] = "removed"]
    /\ readKey' = [readKey EXCEPT ![r] = NoKey]
    /\ \/ /\ stored' = [k \in Keys |-> IF k = readKey[r] THEN NoReport ELSE stored[k]]
          /\ UNCHANGED faults
       \/ readKey[r] # NoKey /\ Fault /\ UNCHANGED stored
    /\ UNCHANGED <<rowVars, requestVars, taskVars, watchdogVars, clock>>

\* DELETE FROM reports and commit.
DeleteRow(r) ==
    /\ delete[r] = "removed"
    /\ Unlocked(r)
    /\ status' = Write(status, r, "deleted")
    /\ file' = Write(file, r, NoKey)
    /\ taskId' = Write(taskId, r, NoTask)
    /\ delete' = [delete EXCEPT ![r] = "ended"]
    /\ UNCHANGED <<created, readKey, requestVars, taskVars, watchdogVars, stored, clock, faults>>

\* The handler dies or the DELETE raises: the object may already be gone.
DeleteFails(r) ==
    /\ delete[r] \in {"selected", "removed"}
    /\ Fault
    /\ delete' = [delete EXCEPT ![r] = "aborted"]
    /\ readKey' = [readKey EXCEPT ![r] = NoKey]
    /\ UNCHANGED <<rowVars, requestVars, taskVars, watchdogVars, stored, clock>>

-----------------------------------------------------------------------------
(* The broker and the worker pool (Celery, acks_late=False) *)

\* A worker takes the message from the queue: reserved, or scheduled until its
\* eta, and not acknowledged yet.
Prefetch(t) ==
    /\ phase[t] = "queued"
    /\ phase' = [phase EXCEPT ![t] = "prefetched"]
    /\ UNCHANGED <<rowVars, requestVars, deleteVars, report, attempt, eta, upload,
                   watchdogVars, stored, clock, faults>>

\* A pool process accepts the task, which acknowledges the message.
Start(t) ==
    /\ phase[t] = "prefetched"
    /\ clock >= eta[t]
    /\ Cardinality({u \in TaskIds : phase[u] \in Running}) < WorkerSlots
    /\ phase' = [phase EXCEPT ![t] = "started"]
    /\ eta' = [eta EXCEPT ![t] = 0]
    /\ UNCHANGED <<rowVars, requestVars, deleteVars, report, attempt, upload,
                   watchdogVars, stored, clock, faults>>

\* The worker restarts before the acknowledgement: the message is restored.
Restore(t) ==
    /\ phase[t] = "prefetched"
    /\ Fault
    /\ phase' = [phase EXCEPT ![t] = "queued"]
    /\ UNCHANGED <<rowVars, requestVars, deleteVars, report, attempt, eta, upload,
                   watchdogVars, stored, clock>>

\* The pool process is killed after the acknowledgement, or the broker loses
\* (evicts) a queued message: nobody will run the task again.
Lose(t) ==
    /\ phase[t] \in Running \cup {"queued"}
    /\ Fault
    /\ Finish(t, "lost")
    /\ UNCHANGED <<rowVars, requestVars, deleteVars, watchdogVars, stored, clock>>

-----------------------------------------------------------------------------
(* generate_project_report *)

\* UPDATE status = 'generating' and commit.
MarkGenerating(t) ==
    /\ phase[t] = "started"
    /\ Unlocked(report[t])
    /\ status' = Write(status, report[t], "generating")
    /\ phase' = [phase EXCEPT ![t] = "rendering"]
    /\ UNCHANGED <<file, taskId, created, requestVars, deleteVars, report, attempt, eta, upload,
                   watchdogVars, stored, clock, faults>>

ObjectKey(r) == <<ProjectOf[r], clock>>

\* Render and put_object; a key already in the bucket is overwritten.
Upload(t) ==
    /\ phase[t] = "rendering"
    /\ stored' = [stored EXCEPT ![ObjectKey(report[t])] = report[t]]
    /\ upload' = [upload EXCEPT ![t] = ObjectKey(report[t])]
    /\ phase' = [phase EXCEPT ![t] = "uploaded"]
    /\ UNCHANGED <<rowVars, requestVars, deleteVars, report, attempt, eta, watchdogVars, clock, faults>>

\* A variant that builds the key again for the row.
CompleteWithNewKey(t) ==
    /\ phase[t] = "uploaded"
    /\ Unlocked(report[t])
    /\ status' = Write(status, report[t], "completed")
    /\ file' = Write(file, report[t], ObjectKey(report[t]))
    /\ Finish(t, "done")
    /\ UNCHANGED <<taskId, created, requestVars, deleteVars, watchdogVars, stored, clock, faults>>

\* A variant that goes on working after the commit, and may still fail.
CompleteThenWork(t) ==
    /\ phase[t] = "uploaded"
    /\ Unlocked(report[t])
    /\ status' = Write(status, report[t], "completed")
    /\ file' = Write(file, report[t], upload[t])
    /\ phase' = [phase EXCEPT ![t] = "started"]
    /\ UNCHANGED <<report, attempt, eta, upload, taskId, created, requestVars, deleteVars, watchdogVars, stored,
                   clock, faults>>

\* UPDATE status = 'completed', file_key and commit.
Complete(t) ==
    /\ phase[t] = "uploaded"
    /\ Unlocked(report[t])
    /\ status' = Write(status, report[t], "completed")
    /\ file' = Write(file, report[t], upload[t])
    /\ Finish(t, "done")
    /\ UNCHANGED <<taskId, created, requestVars, deleteVars, watchdogVars, stored, clock, faults>>

\* Any exception of the attempt: missing project, rendering, storage, database.
AttemptFails(t) ==
    /\ phase[t] \in {"started", "rendering", "uploaded"}
    /\ phase' = [phase EXCEPT ![t] = "failing"]
    /\ upload' = [upload EXCEPT ![t] = NoKey]
    /\ UNCHANGED <<rowVars, requestVars, deleteVars, report, attempt, eta,
                   watchdogVars, stored, clock, faults>>

MayRetry(t) == attempt[t] < MaxRetries

NextAttempt(t) == attempt[t] + 1

\* self.retry: a message with the same id and a countdown, until max_retries.
\* At the last tick of the model the countdown is not waited for.
RetryOrGiveUp(t) ==
    \/ /\ MayRetry(t)
       /\ phase' = [phase EXCEPT ![t] = "queued"]
       /\ attempt' = [attempt EXCEPT ![t] = NextAttempt(t)]
       /\ eta' = [eta EXCEPT ![t] = IF clock < MaxClock THEN clock + 1 ELSE clock]
       /\ UNCHANGED <<report, upload>>
    \/ ~MayRetry(t) /\ Finish(t, "done")

\* The except branch: UPDATE status = 'failed', whose own failure is ignored, then retry.
MarkFailed(t) ==
    /\ phase[t] = "failing"
    /\ \/ /\ Unlocked(report[t])
          /\ status' = Write(status, report[t], "failed")
          /\ UNCHANGED faults
       \/ Fault /\ UNCHANGED status
    /\ RetryOrGiveUp(t)
    /\ UNCHANGED <<file, taskId, created, requestVars, deleteVars, watchdogVars, stored, clock>>

-----------------------------------------------------------------------------
(* requeue_stuck_reports, sent by beat; one run at a time *)

\* inspect active, reserved and scheduled; a worker that does not answer
\* within the timeout is missing from the reply.
Inspect ==
    /\ watchdog = "idle"
    /\ watchdog' = "inspected"
    /\ live' \in {{t \in TaskIds : phase[t] \in Running \cup {"prefetched"}}, {}}
    /\ UNCHANGED <<rowVars, requestVars, deleteVars, taskVars, todo, saved, stored, clock, faults>>

StuckWithTaskId(r) ==
    /\ r \in PublicReports
    /\ status[r] = "pending"
    /\ clock >= created[r] + AgeTicks
    /\ taskId[r] \notin live \cup {NoTask}

Stuck(r) ==
    /\ r \in PublicReports
    /\ status[r] = "pending"
    /\ clock >= created[r] + AgeTicks
    /\ taskId[r] \notin live

\* SELECT from public.reports, less the rows whose task was seen alive.
SelectStuck ==
    /\ watchdog = "inspected"
    /\ watchdog' = "looping"
    /\ todo' = {r \in Reports : Stuck(r)}
    /\ live' = {}
    /\ UNCHANGED <<rowVars, requestVars, deleteVars, taskVars, saved, stored, clock, faults>>

\* One turn of the loop: apply_async, then UPDATE celery_task_id.
Requeue(r) ==
    /\ watchdog = "looping"
    /\ r \in todo
    /\ \E t \in TaskIds :
          /\ Fresh(t)
          /\ Publish(t, r)
          /\ saved' = Write(saved, r, t)
    /\ todo' = todo \ {r}
    /\ UNCHANGED <<rowVars, requestVars, deleteVars, watchdog, live, stored, clock, faults>>

EndWatchdog ==
    /\ watchdog' = "idle"
    /\ live' = {}
    /\ todo' = {}
    /\ saved' = [r \in Reports |-> NoTask]

\* conn.commit() after the loop.  At the bound on task ids the rest is dropped.
CommitRequeued ==
    /\ watchdog = "looping"
    /\ todo = {} \/ \A t \in TaskIds : ~Fresh(t)
    /\ taskId' = [r \in Reports |-> IF Unlocked(r) THEN taskId[r] ELSE saved[r]]
    /\ EndWatchdog
    /\ UNCHANGED <<status, file, created, requestVars, deleteVars, taskVars, stored, clock, faults>>

\* An exception inside the loop: the tasks are out, their ids are rolled back.
WatchdogFails ==
    /\ watchdog # "idle"
    /\ Fault
    /\ EndWatchdog
    /\ UNCHANGED <<rowVars, requestVars, deleteVars, taskVars, stored, clock>>

-----------------------------------------------------------------------------
Tick ==
    /\ clock < MaxClock
    /\ clock' = clock + 1
    /\ UNCHANGED <<rowVars, requestVars, deleteVars, taskVars, watchdogVars, stored, faults>>

Handlers(r) ==
    \/ GenerateReport(r) \/ DispatchReport(r) \/ SaveTaskId(r) \/ RequestFails(r)
    \/ DeleteReport(r) \/ RemoveObject(r) \/ DeleteRow(r) \/ DeleteFails(r)

Worker(t) ==
    \/ Prefetch(t) \/ Start(t) \/ Restore(t) \/ Lose(t)
    \/ MarkGenerating(t) \/ Upload(t) \/ Complete(t)
    \/ AttemptFails(t) \/ MarkFailed(t)

Watchdog ==
    \/ Inspect \/ SelectStuck \/ CommitRequeued \/ WatchdogFails
    \/ \E r \in Reports : Requeue(r)

Next ==
    \/ \E r \in Reports : Handlers(r)
    \/ \E t \in TaskIds : Worker(t)
    \/ Watchdog
    \/ Tick

Spec == Init /\ [][Next]_vars

\* Handlers run to their end, workers serve their queue and beat keeps sending
\* the watchdog; users, exceptions and environment failures are never owed.
Fairness ==
    /\ \A r \in Reports : /\ WF_vars(DispatchReport(r))
                          /\ WF_vars(SaveTaskId(r))
                          /\ WF_vars(RemoveObject(r))
                          /\ WF_vars(DeleteRow(r))
                          /\ WF_vars(Requeue(r))
    /\ \A t \in TaskIds : /\ WF_vars(Prefetch(t))
                          /\ WF_vars(Start(t))
                          /\ WF_vars(MarkGenerating(t) \/ Upload(t) \/ Complete(t))
                          /\ WF_vars(MarkFailed(t))
    /\ WF_vars(Inspect)
    /\ WF_vars(SelectStuck)
    /\ WF_vars(CommitRequeued)
    /\ WF_vars(Tick)

FairSpec == Spec /\ Fairness

-----------------------------------------------------------------------------
(* Properties *)

\* No other report of the same project was requested: keys are per project code
\* and second, so two reports of one project may fall on one object.
Alone(r) == \A s \in Reports \ {r} : ProjectOf[s] = ProjectOf[r] => request[s] = "idle"

\* What download_report relies on (reports.py:494-549): while nobody has tried to
\* delete it, the file of a report is in the bucket and holds that report, whatever
\* duplicates, retries, lost workers and deletions of other reports happened.
FileServesItsReport ==
    \A r \in Reports :
        file[r] # NoKey /\ delete[r] = "idle" /\ Alone(r) => stored[file[r]] = r

Dispatched(r) == {t \in TaskIds : report[t] = r}

\* A report the user saw completed only stops being completed when it is deleted,
\* unless the watchdog dispatched it again: neither a retry of the same task nor a
\* late write of its own handlers takes the result back.
CompletedStays ==
    [][\A r \in Reports :
          status[r] = "completed" /\ status'[r] # "completed"
              => status'[r] = "deleted" \/ Cardinality(Dispatched(r)) > 1]_vars

\* A report that failed has no file to point at, unless the watchdog dispatched it
\* again: the attempt that stored one never goes on to report a failure.
FailedHasNoFile ==
    \A r \in Reports :
        status[r] = "failed" /\ Cardinality(Dispatched(r)) = 1 => file[r] = NoKey

\* "o gestor nunca fica com 'pendente' eterno" (maintenance.py:232): a pending report
\* in public.reports does not stay pending, even when the request dies before it
\* dispatches, the message is lost or the worker is killed.
PendingIsRescued == \A r \in PublicReports : status[r] = "pending" ~> status[r] # "pending"

\* Unless the environment fails, every requested report reaches a final status for
\* good: the watchdog's duplicates do not keep it moving.
ReportsSettle ==
    \A r \in Reports :
        status[r] = "pending" ~>
            faults > 0 \/ [](status[r] \in {"completed", "failed", "deleted"})

\* What the requester is owed: no report waits for ever, whatever fails, and without failures
\* of the environment every report comes to an end.
ReportsEnd == PendingIsRescued /\ ReportsSettle

=============================================================================
