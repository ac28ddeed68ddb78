------------------------- MODULE ReportQueue_proofs -------------------------
(* Proofs about ReportQueue, for every value of its constants. *)
EXTENDS ReportQueue, FiniteSetTheorems, TLAPS

USE ReportQueueAssumption DEF rowVars, requestVars, deleteVars, taskVars, watchdogVars

\* Everything that names a report names one that was requested.
AllRequested ==
    /\ \A r \in Reports : status[r] # "none" => request[r] # "idle"
    /\ \A r \in Reports : delete[r] # "idle" => request[r] # "idle"
    /\ \A r \in todo : request[r] # "idle"
    /\ \A t \in TaskIds : phase[t] # "unused" =>
          report[t] \in Reports /\ request[report[t]] # "idle"

\* A key recorded anywhere was made for the project of the report it is recorded for.
KeyFor(k, r) == k # NoKey => k[1] = ProjectOf[r]

KeysByProject ==
    /\ \A r \in Reports : KeyFor(file[r], r) /\ KeyFor(readKey[r], r)
    /\ \A r \in Reports : delete[r] = "idle" => readKey[r] = NoKey
    /\ \A t \in TaskIds : KeyFor(upload[t], report[t])
    /\ \A t \in TaskIds : phase[t] # "uploaded" => upload[t] = NoKey

\* An uploaded file is in place before its row points to it.
UploadServesItsReport ==
    \A t \in TaskIds :
        upload[t] # NoKey /\ delete[report[t]] = "idle" /\ Alone(report[t])
            => stored[upload[t]] = report[t]

IInv ==
    /\ TypeOK
    /\ AllRequested
    /\ KeysByProject
    /\ UploadServesItsReport
    /\ FileServesItsReport

-----------------------------------------------------------------------------
(* Types *)

LEMMA InitType == Init => TypeOK /\ AllRequested
  BY DEF Init, TypeOK, AllRequested, Live, Running, Ticks

LEMMA TypeStep == TypeOK /\ AllRequested /\ [Next]_vars => TypeOK'
<1> SUFFICES ASSUME TypeOK, AllRequested, [Next]_vars PROVE TypeOK'
  OBVIOUS
<1> USE DEF TypeOK, AllRequested, Live, Running, Ticks, Keys
<1>1. ASSUME NEW r \in Reports, GenerateReport(r) PROVE TypeOK'
  BY <1>1 DEF GenerateReport
<1>2. ASSUME NEW r \in Reports, DispatchReport(r) PROVE TypeOK'
  BY <1>2 DEF DispatchReport, Publish, Fresh
<1>3. ASSUME NEW r \in Reports, SaveTaskId(r) PROVE TypeOK'
  BY <1>3 DEF SaveTaskId, EndRequest, Write
<1>4. ASSUME NEW r \in Reports, RequestFails(r) PROVE TypeOK'
  BY <1>4 DEF RequestFails, EndRequest, Fault
<1>5. ASSUME NEW r \in Reports, DeleteReport(r) PROVE TypeOK'
  BY <1>5 DEF DeleteReport
<1>6. ASSUME NEW r \in Reports, RemoveObject(r) PROVE TypeOK'
  BY <1>6 DEF RemoveObject, Fault
<1>7. ASSUME NEW r \in Reports, DeleteRow(r) PROVE TypeOK'
  BY <1>7 DEF DeleteRow, Write
<1>8. ASSUME NEW r \in Reports, DeleteFails(r) PROVE TypeOK'
  BY <1>8 DEF DeleteFails, Fault
<1>9. ASSUME NEW r \in Reports, Requeue(r) PROVE TypeOK'
  BY <1>9 DEF Requeue, Publish, Fresh, Write
<1>10. ASSUME NEW t \in TaskIds, Prefetch(t) PROVE TypeOK'
  BY <1>10 DEF Prefetch
<1>11. ASSUME NEW t \in TaskIds, Start(t) PROVE TypeOK'
  BY <1>11 DEF Start
<1>12. ASSUME NEW t \in TaskIds, Restore(t) PROVE TypeOK'
  BY <1>12 DEF Restore, Fault
<1>13. ASSUME NEW t \in TaskIds, Lose(t) PROVE TypeOK'
  BY <1>13 DEF Lose, Finish, Fault
<1>14. ASSUME NEW t \in TaskIds, MarkGenerating(t) PROVE TypeOK'
  BY <1>14 DEF MarkGenerating, Write
<1>15. ASSUME NEW t \in TaskIds, Upload(t) PROVE TypeOK'
  BY <1>15 DEF Upload, ObjectKey
<1>16. ASSUME NEW t \in TaskIds, Complete(t) PROVE TypeOK'
  BY <1>16 DEF Complete, Write, Finish
<1>17. ASSUME NEW t \in TaskIds, AttemptFails(t) PROVE TypeOK'
  BY <1>17 DEF AttemptFails
<1>18. ASSUME NEW t \in TaskIds, MarkFailed(t) PROVE TypeOK'
  <2>1. TypeOK' <=> /\ status' \in [Reports -> {"none", "pending", "generating", "completed", "failed", "deleted"}]
                    /\ faults' \in 0..MaxFaults
                    /\ phase' \in [TaskIds -> Live \cup {"unused", "done", "lost"}]
                    /\ report' \in [TaskIds -> Reports \cup {NoReport}]
                    /\ attempt' \in [TaskIds -> 0..MaxRetries]
                    /\ eta' \in [TaskIds -> Ticks]
                    /\ upload' \in [TaskIds -> Keys \cup {NoKey}]
    BY <1>18 DEF MarkFailed
  <2>2. /\ status' \in [Reports -> {"none", "pending", "generating", "completed", "failed", "deleted"}]
        /\ faults' \in 0..MaxFaults
    BY <1>18 DEF MarkFailed, Write, Fault
  <2>3. CASE Finish(t, "done")
    BY <2>1, <2>2, <2>3 DEF Finish
  <2>4. CASE MayRetry(t) /\ ~Finish(t, "done")
    <3>1. attempt[t] + 1 \in 0..MaxRetries
      BY <2>4 DEF MayRetry
    <3>2. (IF clock < MaxClock THEN clock + 1 ELSE clock) \in Ticks
      OBVIOUS
    <3>3. /\ phase' = [phase EXCEPT ![t] = "queued"]
          /\ attempt' = [attempt EXCEPT ![t] = attempt[t] + 1]
          /\ eta' = [eta EXCEPT ![t] = IF clock < MaxClock THEN clock + 1 ELSE clock]
          /\ UNCHANGED <<report, upload>>
      BY <1>18, <2>4 DEF MarkFailed, RetryOrGiveUp, NextAttempt
    <3>4. attempt' \in [TaskIds -> 0..MaxRetries]
      BY <3>1, <3>3
    <3>5. eta' \in [TaskIds -> Ticks]
      BY <3>2, <3>3
    <3> QED
      BY <2>1, <2>2, <3>3, <3>4, <3>5
  <2> QED
    BY <1>18, <2>3, <2>4 DEF MarkFailed, RetryOrGiveUp
<1>19. CASE Inspect
  BY <1>19 DEF Inspect
<1>20. CASE SelectStuck
  BY <1>20 DEF SelectStuck, Stuck
<1>21. CASE CommitRequeued
  BY <1>21 DEF CommitRequeued, Unlocked, EndWatchdog
<1>22. CASE WatchdogFails
  BY <1>22 DEF WatchdogFails, Fault, EndWatchdog
<1>23. CASE Tick
  BY <1>23 DEF Tick
<1>24. CASE UNCHANGED vars
  BY <1>24 DEF vars
<1> QED
  BY <1>1, <1>2, <1>3, <1>4, <1>5, <1>6, <1>7, <1>8, <1>9, <1>10, <1>11, <1>12,
     <1>13, <1>14, <1>15, <1>16, <1>17, <1>18, <1>19, <1>20, <1>21, <1>22, <1>23, <1>24
     DEF Next, Handlers, Worker, Watchdog

LEMMA RequestedStep == TypeOK /\ AllRequested /\ [Next]_vars => AllRequested'
<1> SUFFICES ASSUME TypeOK, AllRequested, [Next]_vars PROVE AllRequested'
  OBVIOUS
<1> USE DEF TypeOK, AllRequested, Live, Running, Exists
<1>1. ASSUME NEW r \in Reports, GenerateReport(r) PROVE AllRequested'
  BY <1>1 DEF GenerateReport
<1>2. ASSUME NEW r \in Reports, DispatchReport(r) PROVE AllRequested'
  BY <1>2 DEF DispatchReport, Publish, Fresh
<1>3. ASSUME NEW r \in Reports, SaveTaskId(r) PROVE AllRequested'
  BY <1>3 DEF SaveTaskId, EndRequest, Write
<1>4. ASSUME NEW r \in Reports, RequestFails(r) PROVE AllRequested'
  BY <1>4 DEF RequestFails, EndRequest, Fault
<1>5. ASSUME NEW r \in Reports, DeleteReport(r) PROVE AllRequested'
  BY <1>5 DEF DeleteReport
<1>6. ASSUME NEW r \in Reports, RemoveObject(r) PROVE AllRequested'
  BY <1>6 DEF RemoveObject, Fault
<1>7. ASSUME NEW r \in Reports, DeleteRow(r) PROVE AllRequested'
  BY <1>7 DEF DeleteRow, Write
<1>8. ASSUME NEW r \in Reports, DeleteFails(r) PROVE AllRequested'
  BY <1>8 DEF DeleteFails, Fault
<1>9. ASSUME NEW r \in Reports, Requeue(r) PROVE AllRequested'
  BY <1>9 DEF Requeue, Publish, Fresh, Write
<1>10. ASSUME NEW t \in TaskIds, Prefetch(t) PROVE AllRequested'
  BY <1>10 DEF Prefetch
<1>11. ASSUME NEW t \in TaskIds, Start(t) PROVE AllRequested'
  BY <1>11 DEF Start
<1>12. ASSUME NEW t \in TaskIds, Restore(t) PROVE AllRequested'
  BY <1>12 DEF Restore, Fault
<1>13. ASSUME NEW t \in TaskIds, Lose(t) PROVE AllRequested'
  BY <1>13 DEF Lose, Finish, Fault
<1>14. ASSUME NEW t \in TaskIds, MarkGenerating(t) PROVE AllRequested'
  BY <1>14 DEF MarkGenerating, Write
<1>15. ASSUME NEW t \in TaskIds, Upload(t) PROVE AllRequested'
  BY <1>15 DEF Upload, ObjectKey
<1>16. ASSUME NEW t \in TaskIds, Complete(t) PROVE AllRequested'
  BY <1>16 DEF Complete, Write, Finish
<1>17. ASSUME NEW t \in TaskIds, AttemptFails(t) PROVE AllRequested'
  BY <1>17 DEF AttemptFails
<1>18. ASSUME NEW t \in TaskIds, MarkFailed(t) PROVE AllRequested'
  BY <1>18 DEF MarkFailed, Write, Finish, Fault, RetryOrGiveUp, MayRetry, NextAttempt
<1>19. CASE Inspect
  BY <1>19 DEF Inspect
<1>20. CASE SelectStuck
  BY <1>20 DEF SelectStuck, Stuck
<1>21. CASE CommitRequeued
  BY <1>21 DEF CommitRequeued, Unlocked, EndWatchdog
<1>22. CASE WatchdogFails
  BY <1>22 DEF WatchdogFails, Fault, EndWatchdog
<1>23. CASE Tick
  BY <1>23 DEF Tick
<1>24. CASE UNCHANGED vars
  BY <1>24 DEF vars
<1> QED
  BY <1>1, <1>2, <1>3, <1>4, <1>5, <1>6, <1>7, <1>8, <1>9, <1>10, <1>11, <1>12,
     <1>13, <1>14, <1>15, <1>16, <1>17, <1>18, <1>19, <1>20, <1>21, <1>22, <1>23, <1>24
     DEF Next, Handlers, Worker, Watchdog

\* Types are respected by every step of every process.
THEOREM TypeCorrect == Spec => [](TypeOK /\ AllRequested)
<1> USE DEF vars
<1>1. Init => TypeOK /\ AllRequested
  BY InitType
<1>2. TypeOK /\ AllRequested /\ [Next]_vars => (TypeOK /\ AllRequested)'
  BY TypeStep, RequestedStep
<1> QED
  BY <1>1, <1>2, PTL DEF Spec

-----------------------------------------------------------------------------
(* The file of a report *)

LEMMA InitFiles == Init => KeysByProject /\ UploadServesItsReport /\ FileServesItsReport
  BY DEF Init, KeysByProject, KeyFor, UploadServesItsReport, FileServesItsReport

LEMMA KeysStep == TypeOK /\ AllRequested /\ KeysByProject /\ [Next]_vars => KeysByProject'
<1> SUFFICES ASSUME TypeOK, AllRequested, KeysByProject, [Next]_vars PROVE KeysByProject'
  OBVIOUS
<1> USE DEF TypeOK, AllRequested, KeysByProject, KeyFor, Live, Running
<1>1. ASSUME NEW r \in Reports, GenerateReport(r) PROVE KeysByProject'
  BY <1>1 DEF GenerateReport
<1>2. ASSUME NEW r \in Reports, DispatchReport(r) PROVE KeysByProject'
  BY <1>2 DEF DispatchReport, Publish, Fresh
<1>3. ASSUME NEW r \in Reports, SaveTaskId(r) PROVE KeysByProject'
  BY <1>3 DEF SaveTaskId, EndRequest, Write
<1>4. ASSUME NEW r \in Reports, RequestFails(r) PROVE KeysByProject'
  BY <1>4 DEF RequestFails, EndRequest, Fault
<1>5. ASSUME NEW r \in Reports, DeleteReport(r) PROVE KeysByProject'
  BY <1>5 DEF DeleteReport
<1>6. ASSUME NEW r \in Reports, RemoveObject(r) PROVE KeysByProject'
  BY <1>6 DEF RemoveObject, Fault
<1>7. ASSUME NEW r \in Reports, DeleteRow(r) PROVE KeysByProject'
  BY <1>7 DEF DeleteRow, Write
<1>8. ASSUME NEW r \in Reports, DeleteFails(r) PROVE KeysByProject'
  BY <1>8 DEF DeleteFails, Fault
<1>9. ASSUME NEW r \in Reports, Requeue(r) PROVE KeysByProject'
  BY <1>9 DEF Requeue, Publish, Fresh, Write
<1>10. ASSUME NEW t \in TaskIds, Prefetch(t) PROVE KeysByProject'
  BY <1>10 DEF Prefetch
<1>11. ASSUME NEW t \in TaskIds, Start(t) PROVE KeysByProject'
  BY <1>11 DEF Start
<1>12. ASSUME NEW t \in TaskIds, Restore(t) PROVE KeysByProject'
  BY <1>12 DEF Restore, Fault
<1>13. ASSUME NEW t \in TaskIds, Lose(t) PROVE KeysByProject'
  BY <1>13 DEF Lose, Finish, Fault
<1>14. ASSUME NEW t \in TaskIds, MarkGenerating(t) PROVE KeysByProject'
  BY <1>14 DEF MarkGenerating, Write
<1>15. ASSUME NEW t \in TaskIds, Upload(t) PROVE KeysByProject'
  BY <1>15 DEF Upload, ObjectKey
<1>16. ASSUME NEW t \in TaskIds, Complete(t) PROVE KeysByProject'
  BY <1>16 DEF Complete, Write, Finish
<1>17. ASSUME NEW t \in TaskIds, AttemptFails(t) PROVE KeysByProject'
  BY <1>17 DEF AttemptFails
<1>18. ASSUME NEW t \in TaskIds, MarkFailed(t) PROVE KeysByProject'
  BY <1>18 DEF MarkFailed, Write, Finish, Fault, RetryOrGiveUp, MayRetry, NextAttempt
<1>19. CASE Inspect
  BY <1>19 DEF Inspect
<1>20. CASE SelectStuck
  BY <1>20 DEF SelectStuck, Stuck
<1>21. CASE CommitRequeued
  BY <1>21 DEF CommitRequeued, Unlocked, EndWatchdog
<1>22. CASE WatchdogFails
  BY <1>22 DEF WatchdogFails, Fault, EndWatchdog
<1>23. CASE Tick
  BY <1>23 DEF Tick
<1>24. CASE UNCHANGED vars
  BY <1>24 DEF vars
<1> QED
  BY <1>1, <1>2, <1>3, <1>4, <1>5, <1>6, <1>7, <1>8, <1>9, <1>10, <1>11, <1>12,
     <1>13, <1>14, <1>15, <1>16, <1>17, <1>18, <1>19, <1>20, <1>21, <1>22, <1>23, <1>24
     DEF Next, Handlers, Worker, Watchdog

LEMMA UploadStep == IInv /\ [Next]_vars => UploadServesItsReport'
<1> SUFFICES ASSUME IInv, [Next]_vars PROVE UploadServesItsReport'
  OBVIOUS
<1> USE DEF IInv, TypeOK, AllRequested, KeysByProject, KeyFor, Live, Running, Exists,
            Alone, UploadServesItsReport
<1>1. ASSUME NEW r \in Reports, GenerateReport(r) PROVE UploadServesItsReport'
  BY <1>1 DEF GenerateReport
<1>2. ASSUME NEW r \in Reports, DispatchReport(r) PROVE UploadServesItsReport'
  BY <1>2 DEF DispatchReport, Publish, Fresh
<1>3. ASSUME NEW r \in Reports, SaveTaskId(r) PROVE UploadServesItsReport'
  BY <1>3 DEF SaveTaskId, EndRequest, Write
<1>4. ASSUME NEW r \in Reports, RequestFails(r) PROVE UploadServesItsReport'
  BY <1>4 DEF RequestFails, EndRequest, Fault
<1>5. ASSUME NEW r \in Reports, DeleteReport(r) PROVE UploadServesItsReport'
  BY <1>5 DEF DeleteReport
<1>6. ASSUME NEW r \in Reports, RemoveObject(r) PROVE UploadServesItsReport'
  BY <1>6 DEF RemoveObject, Fault
<1>7. ASSUME NEW r \in Reports, DeleteRow(r) PROVE UploadServesItsReport'
  BY <1>7 DEF DeleteRow, Write
<1>8. ASSUME NEW r \in Reports, DeleteFails(r) PROVE UploadServesItsReport'
  BY <1>8 DEF DeleteFails, Fault
<1>9. ASSUME NEW r \in Reports, Requeue(r) PROVE UploadServesItsReport'
  BY <1>9 DEF Requeue, Publish, Fresh, Write
<1>10. ASSUME NEW t \in TaskIds, Prefetch(t) PROVE UploadServesItsReport'
  BY <1>10 DEF Prefetch
<1>11. ASSUME NEW t \in TaskIds, Start(t) PROVE UploadServesItsReport'
  BY <1>11 DEF Start
<1>12. ASSUME NEW t \in TaskIds, Restore(t) PROVE UploadServesItsReport'
  BY <1>12 DEF Restore, Fault
<1>13. ASSUME NEW t \in TaskIds, Lose(t) PROVE UploadServesItsReport'
  BY <1>13 DEF Lose, Finish, Fault
<1>14. ASSUME NEW t \in TaskIds, MarkGenerating(t) PROVE UploadServesItsReport'
  BY <1>14 DEF MarkGenerating, Write
<1>15. ASSUME NEW t \in TaskIds, Upload(t) PROVE UploadServesItsReport'
  <2> DEFINE k == ObjectKey(report[t])
  <2>1. /\ stored' = [stored EXCEPT ![k] = report[t]]
        /\ upload' = [upload EXCEPT ![t] = k]
        /\ UNCHANGED <<report, delete, request>>
        /\ phase[t] = "rendering"
    BY <1>15 DEF Upload
  <2>2. k \in Keys /\ k[1] = ProjectOf[report[t]]
    BY <2>1 DEF ObjectKey, Keys
  <2> HIDE DEF k
  <2> SUFFICES ASSUME NEW u \in TaskIds, upload'[u] # NoKey,
                      delete[report[u]] = "idle", Alone(report[u])
               PROVE  stored'[upload'[u]] = report[u]
    BY <2>1
  <2>3. CASE u = t
    BY <2>1, <2>2, <2>3
  <2>4. CASE u # t /\ upload[u] = k
    <3>1. ProjectOf[report[u]] = ProjectOf[report[t]]
      BY <2>1, <2>2, <2>4
    <3>2. report[u] = report[t]
      BY <2>1, <3>1
    <3> QED
      BY <2>1, <2>2, <2>4, <3>2
  <2>5. CASE u # t /\ upload[u] # k
    BY <2>1, <2>2, <2>5
  <2> QED
    BY <2>3, <2>4, <2>5
<1>16. ASSUME NEW t \in TaskIds, Complete(t) PROVE UploadServesItsReport'
  BY <1>16 DEF Complete, Write, Finish
<1>17. ASSUME NEW t \in TaskIds, AttemptFails(t) PROVE UploadServesItsReport'
  BY <1>17 DEF AttemptFails
<1>18. ASSUME NEW t \in TaskIds, MarkFailed(t) PROVE UploadServesItsReport'
  BY <1>18 DEF MarkFailed, Write, Finish, Fault, RetryOrGiveUp, MayRetry, NextAttempt
<1>19. CASE Inspect
  BY <1>19 DEF Inspect
<1>20. CASE SelectStuck
  BY <1>20 DEF SelectStuck, Stuck
<1>21. CASE CommitRequeued
  BY <1>21 DEF CommitRequeued, Unlocked, EndWatchdog
<1>22. CASE WatchdogFails
  BY <1>22 DEF WatchdogFails, Fault, EndWatchdog
<1>23. CASE Tick
  BY <1>23 DEF Tick
<1>24. CASE UNCHANGED vars
  BY <1>24 DEF vars
<1> QED
  BY <1>1, <1>2, <1>3, <1>4, <1>5, <1>6, <1>7, <1>8, <1>9, <1>10, <1>11, <1>12,
     <1>13, <1>14, <1>15, <1>16, <1>17, <1>18, <1>19, <1>20, <1>21, <1>22, <1>23, <1>24
     DEF Next, Handlers, Worker, Watchdog

LEMMA FileStep == IInv /\ [Next]_vars => FileServesItsReport'
<1> SUFFICES ASSUME IInv, [Next]_vars PROVE FileServesItsReport'
  OBVIOUS
<1> USE DEF IInv, TypeOK, AllRequested, KeysByProject, KeyFor, Live, Running, Exists,
            Alone, UploadServesItsReport, FileServesItsReport
<1>1. ASSUME NEW r \in Reports, GenerateReport(r) PROVE FileServesItsReport'
  BY <1>1 DEF GenerateReport
<1>2. ASSUME NEW r \in Reports, DispatchReport(r) PROVE FileServesItsReport'
  BY <1>2 DEF DispatchReport, Publish, Fresh
<1>3. ASSUME NEW r \in Reports, SaveTaskId(r) PROVE FileServesItsReport'
  BY <1>3 DEF SaveTaskId, EndRequest, Write
<1>4. ASSUME NEW r \in Reports, RequestFails(r) PROVE FileServesItsReport'
  BY <1>4 DEF RequestFails, EndRequest, Fault
<1>5. ASSUME NEW r \in Reports, DeleteReport(r) PROVE FileServesItsReport'
  BY <1>5 DEF DeleteReport
<1>6. ASSUME NEW r \in Reports, RemoveObject(r) PROVE FileServesItsReport'
  BY <1>6 DEF RemoveObject, Fault
<1>7. ASSUME NEW r \in Reports, DeleteRow(r) PROVE FileServesItsReport'
  BY <1>7 DEF DeleteRow, Write
<1>8. ASSUME NEW r \in Reports, DeleteFails(r) PROVE FileServesItsReport'
  BY <1>8 DEF DeleteFails, Fault
<1>9. ASSUME NEW r \in Reports, Requeue(r) PROVE FileServesItsReport'
  BY <1>9 DEF Requeue, Publish, Fresh, Write
<1>10. ASSUME NEW t \in TaskIds, Prefetch(t) PROVE FileServesItsReport'
  BY <1>10 DEF Prefetch
<1>11. ASSUME NEW t \in TaskIds, Start(t) PROVE FileServesItsReport'
  BY <1>11 DEF Start
<1>12. ASSUME NEW t \in TaskIds, Restore(t) PROVE FileServesItsReport'
  BY <1>12 DEF Restore, Fault
<1>13. ASSUME NEW t \in TaskIds, Lose(t) PROVE FileServesItsReport'
  BY <1>13 DEF Lose, Finish, Fault
<1>14. ASSUME NEW t \in TaskIds, MarkGenerating(t) PROVE FileServesItsReport'
  BY <1>14 DEF MarkGenerating, Write
<1>15. ASSUME NEW t \in TaskIds, Upload(t) PROVE FileServesItsReport'
  BY <1>15 DEF Upload, ObjectKey
<1>16. ASSUME NEW t \in TaskIds, Complete(t) PROVE FileServesItsReport'
  BY <1>16 DEF Complete, Write, Finish
<1>17. ASSUME NEW t \in TaskIds, AttemptFails(t) PROVE FileServesItsReport'
  BY <1>17 DEF AttemptFails
<1>18. ASSUME NEW t \in TaskIds, MarkFailed(t) PROVE FileServesItsReport'
  BY <1>18 DEF MarkFailed, Write, Finish, Fault, RetryOrGiveUp, MayRetry, NextAttempt
<1>19. CASE Inspect
  BY <1>19 DEF Inspect
<1>20. CASE SelectStuck
  BY <1>20 DEF SelectStuck, Stuck
<1>21. CASE CommitRequeued
  BY <1>21 DEF CommitRequeued, Unlocked, EndWatchdog
<1>22. CASE WatchdogFails
  BY <1>22 DEF WatchdogFails, Fault, EndWatchdog
<1>23. CASE Tick
  BY <1>23 DEF Tick
<1>24. CASE UNCHANGED vars
  BY <1>24 DEF vars
<1> QED
  BY <1>1, <1>2, <1>3, <1>4, <1>5, <1>6, <1>7, <1>8, <1>9, <1>10, <1>11, <1>12,
     <1>13, <1>14, <1>15, <1>16, <1>17, <1>18, <1>19, <1>20, <1>21, <1>22, <1>23, <1>24
     DEF Next, Handlers, Worker, Watchdog

\* Until someone tries to delete it, the file of a report that is alone in its project
\* stays in the bucket and holds that report: download_report (reports.py:494-549) finds it.
THEOREM FilesServed == Spec => []FileServesItsReport
<1>1. Init => IInv
  BY InitType, InitFiles DEF IInv
<1>2. IInv /\ [Next]_vars => IInv'
  BY TypeStep, RequestedStep, KeysStep, UploadStep, FileStep DEF IInv
<1>3. IInv => FileServesItsReport
  BY DEF IInv
<1> QED
  BY <1>1, <1>2, <1>3, PTL DEF Spec

-----------------------------------------------------------------------------
(* The result of a report *)

One(r) == \A t, u \in TaskIds : report[t] = r /\ report[u] = r => t = u

HasResult(r) == status[r] = "completed" \/ file[r] # NoKey

\* Where a report has a result and was dispatched once, its only task has ended.
ResultIsFinal ==
    /\ \A t \in TaskIds : phase[t] = "unused" => report[t] = NoReport
    /\ \A r \in Reports : HasResult(r) /\ One(r) =>
          /\ status[r] # "failed"
          /\ \E t \in TaskIds : report[t] = r
          /\ \A t \in TaskIds : report[t] = r => phase[t] = "done"

ResultInv == TypeOK /\ AllRequested /\ ResultIsFinal

LEMMA OneTask ==
    ASSUME NEW r \in Reports
    PROVE  /\ Cardinality(Dispatched(r)) = 1 => One(r)
           /\ (\E t \in TaskIds : report[t] = r) /\ ~One(r) => Cardinality(Dispatched(r)) > 1
<1>1. IsFiniteSet(Dispatched(r))
  <2>1. IsFiniteSet(TaskIds) /\ Dispatched(r) \in SUBSET TaskIds
    BY FS_Interval DEF Dispatched, TaskIds
  <2> QED BY <2>1, FS_Subset
<1>2. Cardinality(Dispatched(r)) \in Nat
  BY <1>1, FS_CardinalityType
<1>3. Cardinality(Dispatched(r)) = 1 => One(r)
  BY <1>1, FS_Singleton DEF Dispatched, One
<1>4. Cardinality(Dispatched(r)) = 0 => ~\E t \in TaskIds : report[t] = r
  BY <1>1, FS_EmptySet DEF Dispatched
<1> QED BY <1>2, <1>3, <1>4 DEF One, Dispatched

\* A task that has not ended is not the only one of a report with a result.
LEMMA NotTheOnlyOne ==
    ASSUME ResultInv, NEW t \in TaskIds, phase[t] \notin {"unused", "done"}, HasResult(report[t])
    PROVE  ~One(report[t])
  BY DEF ResultInv, ResultIsFinal, AllRequested

\* The steps of a task: its phase moves, and it writes to its own report only.
LEMMA TaskStep ==
    ASSUME ResultInv, NEW t \in TaskIds, phase[t] \notin {"unused", "done"},
           NEW next, next # "unused", phase' = [phase EXCEPT ![t] = next], report' = report,
           \A r \in Reports \ {report[t]} : status'[r] = status[r] /\ file'[r] = file[r],
           \/ next = "done" /\ status'[report[t]] # "failed"
           \/ /\ HasResult(report[t])' => HasResult(report[t])
    PROVE  ResultIsFinal'
<1>1. \A u \in TaskIds : phase'[u] = "unused" => report'[u] = NoReport
  BY DEF ResultInv, ResultIsFinal, TypeOK
<1>2. ASSUME NEW r \in Reports, HasResult(r)', One(r)'
      PROVE  /\ status'[r] # "failed" /\ \E u \in TaskIds : report'[u] = r
             /\ \A u \in TaskIds : report'[u] = r => phase'[u] = "done"
  <2>1. One(r)
    BY <1>2 DEF One
  <2>2. CASE r # report[t]
    BY <1>2, <2>1, <2>2 DEF ResultInv, ResultIsFinal, HasResult, TypeOK
  <2>3. CASE r = report[t]
    <3>1. next = "done" /\ status'[r] # "failed"
      BY <1>2, <2>1, <2>3, NotTheOnlyOne
    <3> QED BY <2>1, <2>3, <3>1 DEF One, ResultInv, TypeOK
  <2> QED BY <2>2, <2>3
<1> QED BY <1>1, <1>2 DEF ResultIsFinal

LEMMA ResultStep == ResultInv /\ [Next]_vars => ResultInv'
<1> SUFFICES ASSUME ResultInv, [Next]_vars PROVE ResultIsFinal'
  BY TypeStep, RequestedStep DEF ResultInv
<1>1. TypeOK /\ AllRequested /\ ResultIsFinal
  BY DEF ResultInv
<1>2. CASE status' = status /\ file' = file /\ phase' = phase /\ report' = report
  BY <1>1, <1>2 DEF ResultIsFinal, HasResult, One
<1>3. ASSUME NEW r \in Reports, GenerateReport(r) PROVE ResultIsFinal'
  <2>1. /\ status' = [status EXCEPT ![r] = "pending"]
        /\ file' = file /\ phase' = phase /\ report' = report
    BY <1>3 DEF GenerateReport
  <2> QED BY <1>1, <2>1 DEF ResultIsFinal, HasResult, One, TypeOK
<1>4. ASSUME NEW r \in Reports, NEW t \in TaskIds, Fresh(t), Publish(t, r),
             status' = status, file' = file
      PROVE  ResultIsFinal'
  <2>1. /\ phase' = [phase EXCEPT ![t] = "queued"] /\ report' = [report EXCEPT ![t] = r]
        /\ report[t] = NoReport
    BY <1>1, <1>4 DEF Publish, Fresh, ResultIsFinal
  <2>2. \A u \in TaskIds : phase'[u] = "unused" => report'[u] = NoReport
    BY <1>1, <2>1 DEF ResultIsFinal, TypeOK
  <2>3. ASSUME NEW s \in Reports, HasResult(s)', One(s)'
        PROVE  /\ status'[s] # "failed" /\ \E u \in TaskIds : report'[u] = s
               /\ \A u \in TaskIds : report'[u] = s => phase'[u] = "done"
    <3>1. HasResult(s) /\ One(s)
      BY <1>1, <1>4, <2>1, <2>3 DEF HasResult, One, TypeOK
    <3>2. PICK v \in TaskIds : report[v] = s /\ v # t
      BY <1>1, <2>1, <3>1 DEF ResultIsFinal
    <3>3. s # r
      BY <1>1, <2>1, <2>3, <3>2 DEF One, TypeOK
    <3> QED BY <1>1, <1>4, <2>1, <3>1, <3>2, <3>3 DEF ResultIsFinal, TypeOK
  <2> QED BY <2>2, <2>3 DEF ResultIsFinal
<1>5. ASSUME NEW r \in Reports, DeleteRow(r) PROVE ResultIsFinal'
  <2>1. /\ phase' = phase /\ report' = report
        /\ \A s \in Reports : HasResult(s)' => HasResult(s) /\ status'[s] = status[s]
    BY <1>1, <1>5 DEF DeleteRow, Write, HasResult, Exists, TypeOK
  <2> QED BY <1>1, <2>1 DEF ResultIsFinal, One
<1>6. ASSUME NEW t \in TaskIds,
             \/ Prefetch(t) \/ Start(t) \/ Restore(t) \/ Lose(t) \/ Upload(t) \/ AttemptFails(t)
             \/ MarkGenerating(t) \/ MarkFailed(t)
      PROVE  ResultIsFinal'
  <2>1. /\ phase[t] \notin {"unused", "done"} /\ report' = report
        /\ \E next \in Live \cup {"done", "lost"} : phase' = [phase EXCEPT ![t] = next]
    BY <1>6 DEF Prefetch, Start, Restore, Lose, Upload, AttemptFails, MarkGenerating, MarkFailed,
       Finish, RetryOrGiveUp, Live, Running
  <2>2. file' = file
    BY <1>6 DEF Prefetch, Start, Restore, Lose, Upload, AttemptFails, MarkGenerating, MarkFailed
  <2>3. \A r \in Reports : r # report[t] => status'[r] = status[r]
    BY <1>1, <1>6 DEF Prefetch, Start, Restore, Lose, Upload, AttemptFails, MarkGenerating,
       MarkFailed, Write, TypeOK
  <2>4. HasResult(report[t])' => HasResult(report[t])
    <3>1. report[t] \in Reports
      BY <1>1, <2>1 DEF AllRequested
    <3>2. status' = status \/ status'[report[t]] # "completed"
      BY <1>1, <1>6, <3>1 DEF Prefetch, Start, Restore, Lose, Upload, AttemptFails, MarkGenerating,
         MarkFailed, Write, TypeOK
    <3> QED BY <2>1, <2>2, <3>2 DEF HasResult
  <2> QED BY <2>1, <2>2, <2>3, <2>4, TaskStep DEF Live, Running
<1>7. ASSUME NEW t \in TaskIds, Complete(t) PROVE ResultIsFinal'
  <2>1. /\ phase[t] = "uploaded" /\ report' = report /\ phase' = [phase EXCEPT ![t] = "done"]
        /\ report[t] \in Reports
    BY <1>1, <1>7 DEF Complete, Finish, AllRequested
  <2>2. /\ \A r \in Reports \ {report[t]} : status'[r] = status[r] /\ file'[r] = file[r]
        /\ \/ status'[report[t]] = "completed"
           \/ status'[report[t]] = status[report[t]] /\ file'[report[t]] = file[report[t]]
    BY <1>1, <1>7, <2>1 DEF Complete, Write, TypeOK
  <2>3. status'[report[t]] # "failed" \/ (HasResult(report[t])' => HasResult(report[t]))
    BY <2>1, <2>2 DEF HasResult
  <2> QED BY <2>1, <2>2, <2>3, TaskStep
<1> QED
  BY <1>1, <1>2, <1>3, <1>4, <1>5, <1>6, <1>7
  DEF Next, Handlers, Worker, Watchdog, DispatchReport, SaveTaskId, RequestFails, DeleteReport,
      RemoveObject, DeleteFails, Inspect, SelectStuck, CommitRequeued, WatchdogFails, Requeue,
      Tick, vars

LEMMA ResultAlways == Spec => []ResultInv
<1>1. Init => ResultInv
  BY InitType DEF ResultInv, ResultIsFinal, HasResult, Init
<1> QED BY <1>1, ResultStep, PTL DEF Spec

\* A report that failed has no file, unless it was dispatched more than once: the attempt that
\* stores the file is the last of its task (report_tasks.py).
THEOREM FailedWithoutFile == Spec => []FailedHasNoFile
<1>1. ResultInv => FailedHasNoFile
  BY OneTask DEF ResultInv, ResultIsFinal, HasResult, FailedHasNoFile
<1> QED BY <1>1, ResultAlways, PTL

\* The result a user saw is taken back by a deletion or by a second dispatch of the watchdog,
\* by nothing else: the handlers write no status after the task was sent.
THEOREM ResultsStay == Spec => CompletedStays
<1>1. ResultInv /\ [Next]_vars =>
        [\A r \in Reports :
           status[r] = "completed" /\ status'[r] # "completed"
               => status'[r] = "deleted" \/ Cardinality(Dispatched(r)) > 1]_vars
  <2> SUFFICES ASSUME ResultInv, Next, NEW r \in Reports,
                      status[r] = "completed", status'[r] # "completed"
               PROVE  status'[r] = "deleted" \/ Cardinality(Dispatched(r)) > 1
    OBVIOUS
  <2>1. TypeOK /\ AllRequested /\ HasResult(r)
    BY DEF ResultInv, HasResult
  <2>2. ASSUME NEW s \in Reports, GenerateReport(s) PROVE status'[r] = "completed"
    BY <2>1, <2>2 DEF GenerateReport, TypeOK, AllRequested
  <2>3. ASSUME NEW s \in Reports, DeleteRow(s) PROVE status'[r] \in {"completed", "deleted"}
    BY <2>1, <2>3 DEF DeleteRow, Write, TypeOK
  <2>4. ASSUME NEW t \in TaskIds, MarkGenerating(t) \/ MarkFailed(t) \/ Complete(t)
        PROVE  Cardinality(Dispatched(r)) > 1
    <3>1. report[t] = r /\ phase[t] \notin {"unused", "done"}
      BY <2>1, <2>4 DEF MarkGenerating, MarkFailed, Complete, Write, TypeOK
    <3> QED BY <2>1, <3>1, NotTheOnlyOne, OneTask
  <2>5. CASE status' = status
    BY <2>5
  <2> QED
    BY <2>2, <2>3, <2>4, <2>5
    DEF Next, Handlers, Worker, Watchdog, DispatchReport, SaveTaskId, RequestFails, DeleteReport,
        RemoveObject, DeleteFails, Prefetch, Start, Restore, Lose, Upload, AttemptFails, Inspect,
        SelectStuck, CommitRequeued, WatchdogFails, Requeue, Tick
<1> QED BY <1>1, ResultAlways, PTL DEF Spec, CompletedStays
=============================================================================
