------------------------ MODULE FlightProcessing_proofs ------------------------
(***************************************************************************)
(* For any number of flights and launches, any hard time limit of          *)
(* generate_dsm_and_buildings and any time to live of its lock that is not *)
(* shorter: the lock excludes, a flight's status is true, and two active   *)
(* DSMs are of launches that overlapped. For any runs of a project: *)
(* its map serves files that are there, and what it shows belongs          *)
(* together.                                                               *)
(***************************************************************************)
EXTENDS FlightProcessing, ProjectMap, WellFoundedInduction, TLAPS

\* The clock and the functions the argument reads have their types.
Typed ==
    /\ now \in Nat
    /\ task \in [Runs -> {"none", "queued"} \cup Alive \cup Ended]
    /\ started \in [Runs -> Nat]
    /\ of \in [Runs -> Flights]
    /\ lock \in [Flights -> Runs \cup {Nobody}]
    /\ lockUntil \in [Flights -> Nat]

\* A run that lives is younger than its hard limit.
InTime == \A r \in Runs : task[r] \in Alive => started[r] <= now /\ now < started[r] + HardLimit

\* A run past the lock owns its flight's key, and the key outlives the run.
Owns == \A r \in Runs : task[r] \in Holding =>
            /\ lock[of[r]] = r
            /\ started[r] + HardLimit <= lockUntil[of[r]]

IInv == Typed /\ InTime /\ Owns

LEMMA InitIInv == Init => IInv
  BY FlightProcessingAssumption
  DEF Init, IInv, Typed, InTime, Owns, Alive, Holding, Ended

\* A run that passes the lock finds it free, so no other run of the flight is past it.
LEMMA TakeLockIInv == ASSUME IInv, NEW r \in Runs, TakeLock(r) PROVE IInv'
<1> USE FlightProcessingAssumption DEF IInv, TakeLock, LockOwner, LockExpiry, dbVars, requestVars, lockVars
<1>1. Typed'
  BY DEF Typed, Alive, Holding, Ended
<1>2. InTime'
  BY DEF Typed, InTime, Alive, Holding, Ended
<1>3. Owns'
  <2>1. CASE ~LockFree(of[r])
    BY <2>1 DEF Typed, Owns, Alive, Holding, Ended
  <2>2. CASE LockFree(of[r])
    <3>1. ASSUME NEW u \in Runs, task[u] \in Holding PROVE of[u] # of[r]
      BY <2>2, <3>1 DEF Typed, InTime, Owns, LockFree, Alive, Holding
    <3>2. lock' = [lock EXCEPT ![of[r]] = r]
          /\ lockUntil' = [lockUntil EXCEPT ![of[r]] = now + LockTTL]
          /\ task' = [task EXCEPT ![r] = "locked"]
          /\ UNCHANGED <<of, started, now>>
      BY <2>2
    <3>3. started[r] + HardLimit <= now + LockTTL
      BY DEF Typed, InTime, Alive
    <3>4. ASSUME NEW u \in Runs, task'[u] \in Holding
          PROVE /\ lock'[of'[u]] = u
                /\ started'[u] + HardLimit <= lockUntil'[of'[u]]
      <4>1. CASE u = r
        BY <3>2, <3>3, <4>1 DEF Typed
      <4>2. CASE u # r
        <5>1. task[u] \in Holding /\ of[u] # of[r]
          BY <3>1, <3>2, <3>4, <4>2 DEF Typed
        <5> QED BY <3>2, <5>1 DEF Typed, Owns
      <4> QED BY <4>1, <4>2
    <3> QED BY <3>4 DEF Owns
  <2> QED BY <2>1, <2>2
<1> QED BY <1>1, <1>2, <1>3

\* A run that releases the key owns it: no other run of the flight loses it.
LEMMA ReleaseIInv ==
    ASSUME IInv, NEW r \in Runs, task[r] \in Holding, ReleaseLock(of[r]),
           NEW end \in Ended, task' = [task EXCEPT ![r] = end], UNCHANGED <<now, of, started>>
    PROVE  IInv'
<1> USE FlightProcessingAssumption DEF IInv, ReleaseLock
<1>1. Typed'
  BY DEF Typed, Alive, Holding, Ended
<1>2. InTime'
  BY DEF Typed, InTime, Alive, Holding, Ended
<1>3. ASSUME NEW u \in Runs, task'[u] \in Holding
      PROVE  lock'[of'[u]] = u /\ started'[u] + HardLimit <= lockUntil'[of'[u]]
  <2>1. u # r /\ task[u] \in Holding
    BY <1>3 DEF Typed, Holding, Ended
  <2>2. of[u] # of[r]
    BY <2>1 DEF Owns
  <2> QED BY <2>1, <2>2 DEF Typed, Owns
<1> QED BY <1>1, <1>2, <1>3 DEF Owns

LEMMA StepIInv == IInv /\ [Next]_vars => IInv'
<1> USE FlightProcessingAssumption DEF IInv, dbVars, lockVars, requestVars, taskVars
<1> SUFFICES ASSUME IInv, [Next]_vars PROVE IInv'
  OBVIOUS
<1>1. CASE Tick
  BY <1>1 DEF Tick, Typed, InTime, Owns, Alive
<1>2. ASSUME NEW r \in Runs, RequestStep(r) PROVE IInv'
  BY <1>2 DEF RequestStep, TriggerFlightProcessing, DeactivateDsm, SendTask, MarkProcessing,
     RequestFails, Launched, UploadGeotiff, PublishNoDsm, Typed, InTime, Owns, Alive, Holding
<1>3. ASSUME NEW r \in Runs, RunStep(r) PROVE IInv'
  <2>1. CASE StartRun(r)
    BY <2>1 DEF StartRun, Typed, InTime, Owns, Alive, Holding
  <2>2. CASE TakeLock(r)
    BY <2>2, TakeLockIInv
  <2>3. CASE StoreDsm(r) \/ InsertDsm(r) \/ CompleteFlight(r)
    BY <2>3 DEF StoreDsm, InsertDsm, CompleteFlight, Typed, InTime, Owns, Alive, Holding
  <2>4. CASE EndRun(r)
    BY <2>4, ReleaseIInv DEF EndRun, Holding, Ended
  <2>5. CASE FailRun(r) /\ task[r] \in Holding
    BY <2>5, ReleaseIInv DEF FailRun, Holding, Ended
  <2>6. CASE FailRun(r) /\ task[r] \notin Holding
    BY <2>6 DEF FailRun, Typed, InTime, Owns, Alive, Holding, Ended
  <2>7. CASE KillRun(r)
    BY <2>7 DEF KillRun, Typed, InTime, Owns, Alive, Holding, Ended
  <2> QED BY <1>3, <2>1, <2>2, <2>3, <2>4, <2>5, <2>6, <2>7 DEF RunStep
<1>4. ASSUME NEW f \in Flights, FlightStep(f) PROVE IInv'
  BY <1>4 DEF FlightStep, CreateFlight, StartPhotogrammetry, PublishDsm, Typed, InTime, Owns
<1>5. CASE UNCHANGED vars
  BY <1>5 DEF vars, Typed, InTime, Owns
<1> QED BY <1>1, <1>2, <1>3, <1>4, <1>5 DEF Next

LEMMA IInvExcludes == IInv => OneRunPerFlight
  BY DEF IInv, Owns, OneRunPerFlight

\* post_processing.py:358-373: whatever expires, is killed or fails to release, two runs of
\* one flight are never past the deduplication lock together, provided the time to live of
\* the key is at least the hard time limit of the task.
THEOREM LockExcludes == Spec => []OneRunPerFlight
<1>1. Init => IInv
  BY InitIInv
<1>2. IInv /\ [Next]_vars => IInv'
  BY StepIInv
<1>3. IInv => OneRunPerFlight
  BY IInvExcludes
<1> QED BY <1>1, <1>2, <1>3, PTL DEF Spec

-----------------------------------------------------------------------------
(* The status of a flight *)

\* Past its upload a run's project has a DSM in the bucket, past its INSERT it has a row.
Produced ==
    /\ task = [r \in Runs |-> task[r]] /\ dsmRow = [r \in Runs |-> dsmRow[r]]
    /\ marked = [r \in Runs |-> marked[r]]
    /\ flight = [f \in Flights |-> flight[f]] /\ ours = [f \in Flights |-> ours[f]]
    /\ of \in [Runs -> Flights]
    /\ \A r \in Runs : task[r] \in {"stored", "inserted", "committed"} => dsmObject # Nobody
    /\ \A r \in Runs : task[r] \in {"inserted", "committed"} => dsmRow[r] # "none"
    /\ \A f \in Flights : ours[f] => flight[f] # "absent"

\* A row that is replaced is still a row.
LEMMA WithdrawnRows ==
    ASSUME Produced, NEW f
    PROVE  /\ Withdrawn(f) = [r \in Runs |-> Withdrawn(f)[r]]
           /\ \A r \in Runs : Withdrawn(f)[r] # "none" <=> dsmRow[r] # "none"
  BY DEF Withdrawn, Produced

\* Steps that leave the status, or make it another's, and complete no run.
LEMMA StatusStays ==
    ASSUME Produced, StatusIsTrue, of' = of,
           flight' = [f \in Flights |-> flight'[f]], ours' = [f \in Flights |-> ours'[f]],
           task' = [r \in Runs |-> task'[r]], dsmRow' = [r \in Runs |-> dsmRow'[r]], marked' = marked,
           dsmObject # Nobody => dsmObject' # Nobody,
           \A f \in Flights : ours'[f] => ours[f] /\ flight'[f] = flight[f],
           \A r \in Runs : /\ dsmRow[r] # "none" => dsmRow'[r] # "none"
                           /\ task'[r] \in {"committed", "done"} => task[r] \in {"committed", "done"}
                           /\ task'[r] \in {"stored", "inserted", "committed"} => dsmObject' # Nobody
                           /\ task'[r] \in {"inserted", "committed"} => dsmRow'[r] # "none"
    PROVE  Produced' /\ StatusIsTrue'
<1>1. Produced'
  BY DEF Produced
<1>2. CompletedHasDsm'
  BY DEF Produced, StatusIsTrue, CompletedHasDsm
<1>3. ProcessingHasReason'
  <2> SUFFICES ASSUME NEW f \in Flights, ours'[f], flight'[f] = "processing"
               PROVE  \E r \in Runs : /\ of[r] = f
                                      /\ \/ marked[r] = "after"
                                         \/ marked[r] = "before" /\ task'[r] \notin {"committed", "done"}
    BY DEF ProcessingHasReason
  <2>1. PICK r \in Runs : /\ of[r] = f
                          /\ \/ marked[r] = "after"
                             \/ marked[r] = "before" /\ task[r] \notin {"committed", "done"}
    BY DEF StatusIsTrue, ProcessingHasReason
  <2> QED BY <2>1
<1> QED BY <1>1, <1>2, <1>3 DEF StatusIsTrue

\* A flight that says 'processing' has at least the run of the request that wrote it.
LEMMA MarkedStatus ==
    ASSUME Produced, StatusIsTrue, NEW r \in Runs, MarkProcessing(r)
    PROVE  Produced' /\ StatusIsTrue'
<1>1. /\ of' = of /\ task' = task /\ dsmRow' = dsmRow /\ dsmObject' = dsmObject
      /\ flight' = [flight EXCEPT ![of[r]] = "processing"] /\ ours' = [ours EXCEPT ![of[r]] = TRUE]
      /\ marked' = [marked EXCEPT ![r] = IF task[r] \in {"committed", "done"} THEN "after" ELSE "before"]
  BY DEF MarkProcessing, dbVars, lockVars, taskVars
<1>2. /\ of[r] \in Flights /\ flight'[of[r]] = "processing"
      /\ \A f \in Flights : f # of[r] => flight'[f] = flight[f] /\ ours'[f] = ours[f]
  BY <1>1 DEF Produced
<1>3. /\ marked'[r] = "after" \/ (marked'[r] = "before" /\ task[r] \notin {"committed", "done"})
      /\ \A u \in Runs : u # r => marked'[u] = marked[u]
  BY <1>1 DEF Produced
<1>4. Produced'
  BY <1>1, <1>2 DEF Produced
<1>5. CompletedHasDsm'
  BY <1>1, <1>2 DEF StatusIsTrue, CompletedHasDsm
<1>6. ASSUME NEW f \in Flights, ours'[f], flight'[f] = "processing"
      PROVE  \E u \in Runs : /\ of'[u] = f
                             /\ \/ marked'[u] = "after"
                                \/ marked'[u] = "before" /\ task'[u] \notin {"committed", "done"}
  <2>1. CASE f = of[r]
    BY <1>1, <1>3, <2>1
  <2>2. CASE f # of[r]
    <3>1. PICK u \in Runs : /\ of[u] = f
                            /\ \/ marked[u] = "after"
                               \/ marked[u] = "before" /\ task[u] \notin {"committed", "done"}
      BY <1>2, <1>6, <2>2 DEF StatusIsTrue, ProcessingHasReason
    <3>2. u # r
      BY <2>2, <3>1
    <3> QED BY <1>1, <1>3, <3>1, <3>2
  <2> QED BY <2>1, <2>2
<1> QED BY <1>4, <1>5, <1>6 DEF StatusIsTrue, ProcessingHasReason

\* A run completes its own flight, whose row and file it has written.
LEMMA CompletedStatus ==
    ASSUME Produced, StatusIsTrue, NEW r \in Runs, CompleteFlight(r)
    PROVE  Produced' /\ StatusIsTrue'
<1>1. /\ of' = of /\ marked' = marked /\ dsmRow' = dsmRow /\ dsmObject' = dsmObject
      /\ flight' = [flight EXCEPT ![of[r]] = "completed"] /\ ours' = [ours EXCEPT ![of[r]] = TRUE]
      /\ task[r] = "inserted" /\ task' = [task EXCEPT ![r] = "committed"]
  BY DEF CompleteFlight, dbVars, lockVars, requestVars
<1>2. /\ of[r] \in Flights /\ flight'[of[r]] = "completed" /\ dsmRow[r] # "none" /\ dsmObject # Nobody
      /\ \A f \in Flights : f # of[r] => flight'[f] = flight[f] /\ ours'[f] = ours[f]
      /\ \A u \in Runs : u # r => task'[u] = task[u]
  BY <1>1 DEF Produced
<1>3. Produced'
  BY <1>1, <1>2 DEF Produced
<1>4. CompletedHasDsm'
  BY <1>1, <1>2 DEF StatusIsTrue, CompletedHasDsm
<1>5. ASSUME NEW f \in Flights, ours'[f], flight'[f] = "processing"
      PROVE  \E u \in Runs : /\ of'[u] = f
                             /\ \/ marked'[u] = "after"
                                \/ marked'[u] = "before" /\ task'[u] \notin {"committed", "done"}
  <2>1. f # of[r]
    BY <1>2, <1>5
  <2>2. PICK u \in Runs : /\ of[u] = f
                          /\ \/ marked[u] = "after"
                             \/ marked[u] = "before" /\ task[u] \notin {"committed", "done"}
    BY <1>2, <1>5, <2>1 DEF StatusIsTrue, ProcessingHasReason
  <2> QED BY <1>1, <1>2, <2>1, <2>2
<1> QED BY <1>3, <1>4, <1>5 DEF StatusIsTrue, ProcessingHasReason

\* The flight is completed in the transaction that holds the row, after the upload, and rows
\* are only ever deactivated: post_processing.py completes no flight without its DSM.  A flight
\* that stays 'processing' has a run that did not complete it, or one that completed it before
\* flights.py 417 said 'processing'.
THEOREM StatusTells == Spec => []StatusIsTrue
<1> DEFINE Inv == Produced /\ StatusIsTrue
<1>1. Init => Inv
  BY DEF Init, Produced, StatusIsTrue, CompletedHasDsm, ProcessingHasReason
<1>2. Inv /\ [Next]_vars => Inv'
  <2> SUFFICES ASSUME Inv, [Next]_vars PROVE Inv'
    OBVIOUS
  <2> USE FlightProcessingAssumption DEF dbVars, lockVars, requestVars, taskVars
  <2>1. CASE Tick \/ UNCHANGED vars
    BY <2>1 DEF Tick, vars, Produced, StatusIsTrue, CompletedHasDsm, ProcessingHasReason
  <2>2. ASSUME NEW r \in Runs, TriggerFlightProcessing(r) \/ SendTask(r) \/ RequestFails(r)
        PROVE  Inv'
    <3>1. /\ of' = of /\ marked' = marked /\ dsmObject' = dsmObject
          /\ flight' = flight /\ ours' = ours /\ dsmRow' = dsmRow
          /\ task' = task \/ task' = [task EXCEPT ![r] = "queued"]
      BY <2>2 DEF TriggerFlightProcessing, SendTask, RequestFails
    <3>2. /\ task' = [u \in Runs |-> task'[u]]
          /\ \A u \in Runs : task'[u] = task[u] \/ task'[u] = "queued"
      BY <3>1 DEF Produced
    <3> QED BY <3>1, <3>2, StatusStays DEF Produced
  <2>3. ASSUME NEW r \in Runs, UploadGeotiff(r) \/ PublishNoDsm(r) PROVE Inv'
    <3>1. /\ of' = of /\ marked' = marked /\ dsmObject' = dsmObject /\ dsmRow' = dsmRow
          /\ task' = [task EXCEPT ![r] = "queued"] \/ task' = [task EXCEPT ![r] = "none"]
      BY <2>3 DEF UploadGeotiff, PublishNoDsm, Launched
    <3>2. /\ task' = [u \in Runs |-> task'[u]]
          /\ \A u \in Runs : task'[u] = task[u] \/ task'[u] \in {"queued", "none"}
      BY <3>1 DEF Produced
    <3>3. CASE PublishNoDsm(r)
      <4>1. /\ flight' = [flight EXCEPT ![of[r]] = "completed"]
            /\ ours' = [ours EXCEPT ![of[r]] = FALSE]
        BY <3>3 DEF PublishNoDsm
      <4>2. /\ flight' = [f \in Flights |-> flight'[f]] /\ ours' = [f \in Flights |-> ours'[f]]
            /\ \A f \in Flights : ours'[f] => ours[f] /\ flight'[f] = flight[f]
        BY <4>1 DEF Produced
      <4> QED BY <3>1, <3>2, <4>2, StatusStays DEF Produced
    <3>4. CASE UploadGeotiff(r)
      <4>1. /\ flight' = [flight EXCEPT ![of[r]] = IF Exists(of[r]) THEN @ ELSE "completed"]
            /\ ours' = ours
        BY <3>4 DEF UploadGeotiff
      <4>2. flight' = [f \in Flights |-> flight'[f]]
        BY <4>1 DEF Produced
      <4>3. ASSUME NEW f \in Flights, ours'[f] PROVE ours[f] /\ flight'[f] = flight[f]
        <5>1. ours[f] /\ flight[f] # "absent"
          BY <4>1, <4>3 DEF Produced
        <5> QED BY <4>1, <5>1 DEF Produced, Exists
      <4> QED BY <3>1, <3>2, <4>1, <4>2, <4>3, StatusStays DEF Produced
    <3> QED BY <2>3, <3>3, <3>4
  <2>4. ASSUME NEW r \in Runs, MarkProcessing(r) PROVE Inv'
    BY <2>4, MarkedStatus
  <2>5. ASSUME NEW r \in Runs, CompleteFlight(r) PROVE Inv'
    BY <2>5, CompletedStatus
  <2>6. ASSUME NEW r \in Runs, DeactivateDsm(r) PROVE Inv'
    <3>1. /\ of' = of /\ marked' = marked /\ dsmObject' = dsmObject
          /\ flight' = flight /\ ours' = ours /\ task' = task /\ dsmRow' = Withdrawn(of[r])
      BY <2>6 DEF DeactivateDsm
    <3> QED BY <3>1, WithdrawnRows, StatusStays DEF Produced
  <2>7. ASSUME NEW f \in Flights, FlightStep(f) PROVE Inv'
    <3>1. /\ of' = of /\ marked' = marked /\ dsmObject' = dsmObject /\ task' = task
          /\ dsmRow' = dsmRow \/ dsmRow' = Withdrawn(f)
      BY <2>7 DEF FlightStep, CreateFlight, StartPhotogrammetry, PublishDsm
    <3>2. \E status \in {"pending", "processing", "completed"} : flight' = [flight EXCEPT ![f] = status]
      BY <2>7 DEF FlightStep, CreateFlight, StartPhotogrammetry, PublishDsm
    <3>3. \/ ours' = [ours EXCEPT ![f] = FALSE]
          \/ ours' = ours /\ flight[f] = "absent"
      BY <2>7 DEF FlightStep, CreateFlight, StartPhotogrammetry, PublishDsm, Exists
    <3>4. /\ flight' = [g \in Flights |-> flight'[g]] /\ ours' = [g \in Flights |-> ours'[g]]
          /\ \A g \in Flights : g # f => flight'[g] = flight[g]
      BY <3>2, <3>3 DEF Produced
    <3>5. \A g \in Flights : ours'[g] => ours[g] /\ g # f
      BY <3>3 DEF Produced
    <3>6. /\ dsmRow' = [r \in Runs |-> dsmRow'[r]]
          /\ \A r \in Runs : dsmRow[r] # "none" => dsmRow'[r] # "none"
      BY <3>1, WithdrawnRows DEF Produced
    <3> QED BY <3>1, <3>4, <3>5, <3>6, StatusStays DEF Produced
  <2>8. ASSUME NEW r \in Runs, RunStep(r), ~CompleteFlight(r) PROVE Inv'
    <3>1. /\ of' = of /\ marked' = marked /\ flight' = flight /\ ours' = ours
          /\ dsmObject' = dsmObject \/ dsmObject' = r
          /\ dsmRow' = dsmRow \/ dsmRow' = [dsmRow EXCEPT ![r] = "active"]
          /\ task' = [task EXCEPT ![r] = task'[r]]
      BY <2>8 DEF RunStep, StartRun, TakeLock, StoreDsm, InsertDsm, EndRun, FailRun, KillRun, Produced
    <3>2. /\ task'[r] \in {"committed", "done"} => task[r] \in {"committed", "done"}
          /\ task'[r] \in {"stored", "inserted", "committed"} => dsmObject' = r \/ task[r] = "stored"
          /\ task'[r] \in {"inserted", "committed"} => dsmRow'[r] = "active"
      BY <2>8 DEF RunStep, StartRun, TakeLock, StoreDsm, InsertDsm, EndRun, FailRun, KillRun, Produced
    <3>3. dsmObject # Nobody => dsmObject' # Nobody
      BY <3>1
    <3>4. /\ task' = [u \in Runs |-> task'[u]] /\ dsmRow' = [u \in Runs |-> dsmRow'[u]]
          /\ \A u \in Runs : dsmRow[u] # "none" => dsmRow'[u] # "none"
          /\ \A u \in Runs : u # r => task'[u] = task[u]
      BY <3>1 DEF Produced
    <3>5. task'[r] \in {"stored", "inserted", "committed"} => dsmObject' # Nobody
      BY <3>2, <3>3 DEF Produced
    <3> QED BY <3>1, <3>2, <3>3, <3>4, <3>5, StatusStays DEF Produced
  <2> QED BY <2>1, <2>2, <2>3, <2>4, <2>5, <2>6, <2>7, <2>8 DEF Next, RequestStep, RunStep
<1> QED BY <1>1, <1>2, PTL DEF Spec

-----------------------------------------------------------------------------
(* Two DSMs only by overlap *)

\* A launch that may still insert its DSM.
Coming(r) ==
    dsmRow[r] = "none" /\ (handler[r] \in {"read", "sent"} \/ task[r] \in {"queued"} \cup Alive)

Overlap(r, u) == r \in beside[u] \/ u \in beside[r]

\* Where a launch is.  It deactivates before it sends the task; a run inserts once.
Ordered ==
    /\ task = [r \in Runs |-> task[r]] /\ dsmRow = [r \in Runs |-> dsmRow[r]]
    /\ handler = [r \in Runs |-> handler[r]] /\ beside = [r \in Runs |-> beside[r]]
    /\ deactivate \in [Runs -> BOOLEAN] /\ of \in [Runs -> Flights]
    /\ \A r \in Runs :
          /\ handler[r] \in {"idle", "read"} => task[r] = "none"
          /\ task[r] \in {"none", "queued", "running", "locked", "stored"} => dsmRow[r] = "none"
          /\ deactivate[r] => task[r] = "none" /\ handler[r] # "idle"

\* Two launches on their way looked while the other was; one that follows an active row was
\* beside the one that wrote it, or has still to deactivate it.
Beside ==
    \A r, u \in Runs : r # u /\ of[r] = of[u] =>
        /\ Coming(r) /\ Coming(u) => Overlap(r, u)
        /\ dsmRow[r] = "active" /\ Coming(u) => Overlap(r, u) \/ deactivate[u]
        /\ dsmRow[r] = "active" /\ dsmRow[u] = "active" => Overlap(r, u)

DsmInv == Ordered /\ Beside

\* Most steps bring no launch on its way and activate no row.
LEMMA NothingNew ==
    ASSUME DsmInv, Ordered', of' = of, beside' = beside,
           \A r \in Runs : /\ Coming(r)' => Coming(r)
                           /\ dsmRow'[r] = "active" => dsmRow[r] = "active"
                           /\ Coming(r)' => (deactivate[r] => deactivate'[r])
    PROVE  DsmInv'
  BY DEF DsmInv, Beside, Overlap

\* A launch looks around before it is on its way.
LEMMA Looks ==
    ASSUME DsmInv, Ordered', NEW r \in Runs, of' = of, dsmRow' = dsmRow,
           dsmRow[r] = "none", ~Coming(r),
           \A u \in Runs \ {r} : /\ Coming(u)' => Coming(u)
                                 /\ beside'[u] = beside[u] /\ (deactivate'[u] <=> deactivate[u]),
           OnTheirWay(of[r]) \subseteq beside'[r],
           ActiveDsms(of[r]) \subseteq beside'[r] \/ ActiveDsms(of[r]) = {} \/ deactivate'[r]
    PROVE  DsmInv'
<1>1. SUFFICES ASSUME NEW u \in Runs, NEW v \in Runs, u # v, of[u] = of[v]
               PROVE  /\ Coming(u)' /\ Coming(v)' => Overlap(u, v)'
                      /\ dsmRow'[u] = "active" /\ Coming(v)' => Overlap(u, v)' \/ deactivate'[v]
                      /\ dsmRow'[u] = "active" /\ dsmRow'[v] = "active" => Overlap(u, v)'
  BY DEF DsmInv, Beside
<1>2. /\ Coming(u) /\ Coming(v) => Overlap(u, v)
      /\ dsmRow[u] = "active" /\ Coming(v) => Overlap(u, v) \/ deactivate[v]
      /\ dsmRow[u] = "active" /\ dsmRow[v] = "active" => Overlap(u, v)
  BY <1>1 DEF DsmInv, Beside
<1>3. \A w \in Runs : Coming(w) /\ of[w] = of[r] => w \in beside'[r]
  BY DEF OnTheirWay, Coming
<1>4. CASE u # r /\ v # r
  BY <1>2, <1>4 DEF Overlap
<1>5. CASE u = r
  <2>1. v # r /\ (Coming(v)' => v \in beside'[r])
    BY <1>1, <1>3, <1>5
  <2> QED BY <1>1, <1>5, <2>1 DEF Overlap
<1>6. CASE v = r
  <2>1. u # r /\ (Coming(u)' => u \in beside'[r])
    BY <1>1, <1>3, <1>6
  <2>2. dsmRow[u] = "active" => u \in beside'[r] \/ deactivate'[r]
    BY <1>1, <1>6 DEF ActiveDsms
  <2> QED BY <1>1, <1>6, <2>1, <2>2 DEF Overlap
<1> QED BY <1>4, <1>5, <1>6

LEMMA OrderedStep == Ordered /\ [Next]_vars => Ordered'
<1> SUFFICES ASSUME Ordered, [Next]_vars PROVE Ordered'
  OBVIOUS
<1> USE DEF Ordered, dbVars, lockVars, requestVars, taskVars
<1>1. CASE Tick \/ UNCHANGED vars
  BY <1>1 DEF Tick, vars
<1>2. ASSUME NEW r \in Runs, TriggerFlightProcessing(r) PROVE Ordered'
  <2>1. PICK force \in BOOLEAN : deactivate' = [deactivate EXCEPT ![r] = MustDeactivate(r, force)]
    BY <1>2 DEF TriggerFlightProcessing
  <2>2. MustDeactivate(r, force) \in BOOLEAN
    BY DEF MustDeactivate
  <2>3. deactivate' \in [Runs -> BOOLEAN]
    BY <2>1, <2>2
  <2>4. \A u \in Runs : u # r => (deactivate'[u] <=> deactivate[u])
    BY <2>1
  <2> QED BY <1>2, <2>3, <2>4 DEF TriggerFlightProcessing
<1>3. ASSUME NEW r \in Runs, DeactivateDsm(r) PROVE Ordered'
  <2>1. \A u \in Runs : /\ dsmRow'[u] = "none" <=> dsmRow[u] = "none"
                        /\ deactivate'[u] => deactivate[u]
    BY <1>3 DEF DeactivateDsm, Withdrawn
  <2> QED BY <1>3, <2>1 DEF DeactivateDsm, Withdrawn
<1>4. ASSUME NEW r \in Runs, SendTask(r) PROVE Ordered'
  BY <1>4 DEF SendTask
<1>5. ASSUME NEW r \in Runs, MarkProcessing(r) \/ RequestFails(r) \/ Launched(r) PROVE Ordered'
  BY <1>5 DEF MarkProcessing, RequestFails, Launched
<1>6. ASSUME NEW r \in Runs, StartRun(r) \/ TakeLock(r) \/ StoreDsm(r) \/ CompleteFlight(r) \/ EndRun(r)
      PROVE  Ordered'
  BY <1>6 DEF StartRun, TakeLock, StoreDsm, CompleteFlight, EndRun
<1>7. ASSUME NEW r \in Runs, InsertDsm(r) PROVE Ordered'
  BY <1>7 DEF InsertDsm
<1>8. ASSUME NEW r \in Runs, FailRun(r) \/ KillRun(r) PROVE Ordered'
  <2>1. /\ task[r] \in Alive /\ \E end \in Ended : task' = [task EXCEPT ![r] = end]
        /\ of' = of /\ dsmRow' = dsmRow /\ deactivate' = deactivate /\ beside' = beside
        /\ handler' = handler
    BY <1>8 DEF FailRun, KillRun, Alive, Ended
  <2>2. handler[r] \notin {"idle", "read"} /\ ~deactivate[r]
    BY <2>1 DEF Alive, Holding
  <2> QED BY <2>1, <2>2 DEF Ended
<1>9. ASSUME NEW f \in Flights, FlightStep(f) PROVE Ordered'
  <2>1. \A r \in Runs : dsmRow'[r] = "none" <=> dsmRow[r] = "none"
    BY <1>9 DEF FlightStep, CreateFlight, StartPhotogrammetry, PublishDsm, Withdrawn
  <2> QED BY <1>9, <2>1 DEF FlightStep, CreateFlight, StartPhotogrammetry, PublishDsm, Withdrawn
<1> QED BY <1>1, <1>2, <1>3, <1>4, <1>5, <1>6, <1>7, <1>8, <1>9
    DEF Next, RunStep, RequestStep, UploadGeotiff, PublishNoDsm

LEMMA DsmStep == DsmInv /\ [Next]_vars => DsmInv'
<1> SUFFICES ASSUME DsmInv, [Next]_vars PROVE DsmInv'
  OBVIOUS
<1>1. Ordered /\ Ordered'
  BY OrderedStep DEF DsmInv
<1> USE DEF dbVars, lockVars, requestVars, taskVars
<1>2. CASE Tick \/ UNCHANGED vars
  BY <1>1, <1>2, NothingNew DEF Tick, vars, Coming
<1>3. ASSUME NEW r \in Runs, TriggerFlightProcessing(r) PROVE DsmInv'
  <2>1. PICK force \in BOOLEAN :
          /\ force \/ ~HasDsm(of[r])
          /\ deactivate' = [deactivate EXCEPT ![r] = MustDeactivate(r, force)]
    BY <1>3 DEF TriggerFlightProcessing
  <2>2. deactivate'[r] \/ ActiveDsms(of[r]) = {}
    BY <1>1, <2>1 DEF MustDeactivate, HasDsm, Ordered
  <2>3. \A u \in Runs \ {r} : deactivate'[u] <=> deactivate[u]
    BY <1>1, <2>1 DEF Ordered
  <2>4. /\ handler[r] = "idle" /\ handler' = [handler EXCEPT ![r] = "read"]
        /\ beside' = [beside EXCEPT ![r] = OnTheirWay(of[r])]
        /\ of' = of /\ dsmRow' = dsmRow /\ task' = task
    BY <1>3 DEF TriggerFlightProcessing
  <2>5. dsmRow[r] = "none" /\ ~Coming(r)
    BY <1>1, <2>4 DEF Ordered, Coming, Alive, Holding
  <2>6. \A u \in Runs \ {r} : (Coming(u)' => Coming(u)) /\ beside'[u] = beside[u]
    BY <1>1, <2>4 DEF Ordered, Coming
  <2>7. OnTheirWay(of[r]) \subseteq beside'[r]
    BY <1>1, <2>4 DEF Ordered
  <2> QED BY <1>1, <2>2, <2>3, <2>4, <2>5, <2>6, <2>7, Looks
<1>4. ASSUME NEW r \in Runs, Launched(r) PROVE DsmInv'
  <2>1. /\ handler[r] = "idle" /\ handler' = [handler EXCEPT ![r] = "ended"]
        /\ beside' = [beside EXCEPT ![r] = Runs] /\ deactivate' = deactivate
        /\ of' = of /\ dsmRow' = dsmRow /\ \A u \in Runs \ {r} : task'[u] = task[u]
    BY <1>1, <1>4 DEF Launched, Ordered
  <2>2. dsmRow[r] = "none" /\ ~Coming(r)
    BY <1>1, <2>1 DEF Ordered, Coming, Alive, Holding
  <2>3. \A u \in Runs \ {r} : (Coming(u)' => Coming(u)) /\ beside'[u] = beside[u]
    BY <1>1, <2>1 DEF Ordered, Coming
  <2>4. OnTheirWay(of[r]) \subseteq beside'[r] /\ ActiveDsms(of[r]) \subseteq beside'[r]
    BY <1>1, <2>1 DEF Ordered, OnTheirWay, ActiveDsms
  <2> QED BY <1>1, <2>1, <2>2, <2>3, <2>4, Looks
<1>5. ASSUME NEW r \in Runs, DeactivateDsm(r) PROVE DsmInv'
  <2>1. \A u \in Runs : /\ dsmRow'[u] = "active" <=> dsmRow[u] = "active" /\ of[u] # of[r]
                        /\ Coming(u)' => Coming(u)
                        /\ u # r => (deactivate'[u] <=> deactivate[u])
    BY <1>1, <1>5 DEF DeactivateDsm, Withdrawn, Ordered, Coming
  <2>2. of' = of /\ beside' = beside
    BY <1>5 DEF DeactivateDsm
  <2> QED BY <1>1, <2>1, <2>2 DEF DsmInv, Beside, Overlap
<1>6. ASSUME NEW r \in Runs, SendTask(r) \/ MarkProcessing(r) \/ RequestFails(r) PROVE DsmInv'
  <2>1. of' = of /\ beside' = beside /\ dsmRow' = dsmRow /\ deactivate' = deactivate
    BY <1>6 DEF SendTask, MarkProcessing, RequestFails
  <2>2. \A u \in Runs : Coming(u)' => Coming(u)
    BY <1>1, <1>6 DEF SendTask, MarkProcessing, RequestFails, Ordered, Coming, Alive, Holding
  <2> QED BY <1>1, <2>1, <2>2, NothingNew
<1>7. ASSUME NEW r \in Runs,
             \/ StartRun(r) \/ TakeLock(r) \/ StoreDsm(r) \/ CompleteFlight(r) \/ EndRun(r)
             \/ FailRun(r) \/ KillRun(r)
      PROVE  DsmInv'
  <2>1. of' = of /\ beside' = beside /\ dsmRow' = dsmRow /\ deactivate' = deactivate /\ handler' = handler
    BY <1>7 DEF StartRun, TakeLock, StoreDsm, CompleteFlight, EndRun, FailRun, KillRun
  <2>2. /\ \A u \in Runs \ {r} : task'[u] = task[u]
        /\ task'[r] \in {"queued"} \cup Alive => task[r] \in {"queued"} \cup Alive
    BY <1>1, <1>7 DEF StartRun, TakeLock, StoreDsm, CompleteFlight, EndRun, FailRun, KillRun,
       Ordered, Alive, Holding
  <2>3. \A u \in Runs : Coming(u)' => Coming(u)
    BY <2>1, <2>2 DEF Coming
  <2> QED BY <1>1, <2>1, <2>3, NothingNew
<1>8. ASSUME NEW r \in Runs, InsertDsm(r) PROVE DsmInv'
  <2>1. /\ of' = of /\ beside' = beside /\ deactivate' = deactivate /\ handler' = handler
        /\ dsmRow' = [dsmRow EXCEPT ![r] = "active"] /\ task' = [task EXCEPT ![r] = "inserted"]
        /\ task[r] = "stored"
    BY <1>8 DEF InsertDsm
  <2>2. Coming(r) /\ ~deactivate[r]
    BY <1>1, <2>1 DEF Ordered, Coming, Alive, Holding
  <2>3. \A u \in Runs \ {r} : /\ Coming(u)' => Coming(u)
                              /\ dsmRow'[u] = dsmRow[u]
    BY <1>1, <2>1 DEF Ordered, Coming
  <2>4. dsmRow'[r] = "active" /\ ~Coming(r)'
    BY <1>1, <2>1 DEF Ordered, Coming
  <2>5. Beside
    BY DEF DsmInv
  <2>6. ASSUME NEW u \in Runs, NEW v \in Runs, u # v, of[u] = of[v]
        PROVE  /\ Coming(u)' /\ Coming(v)' => Overlap(u, v)
               /\ dsmRow'[u] = "active" /\ Coming(v)' => Overlap(u, v) \/ deactivate[v]
               /\ dsmRow'[u] = "active" /\ dsmRow'[v] = "active" => Overlap(u, v)
    <3>1. CASE u # r /\ v # r
      BY <2>3, <2>5, <2>6, <3>1 DEF Beside
    <3>2. CASE u = r
      BY <2>2, <2>3, <2>4, <2>5, <2>6, <3>2 DEF Beside, Overlap
    <3>3. CASE v = r
      BY <2>2, <2>3, <2>4, <2>5, <2>6, <3>3 DEF Beside, Overlap
    <3> QED BY <3>1, <3>2, <3>3
  <2> QED BY <1>1, <2>1, <2>6 DEF DsmInv, Beside, Overlap
<1>9. ASSUME NEW f \in Flights, FlightStep(f) PROVE DsmInv'
  <2>1. of' = of /\ beside' = beside /\ deactivate' = deactivate /\ handler' = handler /\ task' = task
    BY <1>9 DEF FlightStep, CreateFlight, StartPhotogrammetry, PublishDsm
  <2>2. \A r \in Runs : /\ dsmRow'[r] = "none" <=> dsmRow[r] = "none"
                        /\ dsmRow'[r] = "active" => dsmRow[r] = "active"
    BY <1>1, <1>9 DEF FlightStep, CreateFlight, StartPhotogrammetry, PublishDsm, Withdrawn, Ordered
  <2> QED BY <1>1, <2>1, <2>2, NothingNew DEF Coming
<1> QED BY <1>2, <1>3, <1>4, <1>5, <1>6, <1>7, <1>8, <1>9
    DEF Next, RunStep, RequestStep, UploadGeotiff, PublishNoDsm

\* trigger_flight_processing looks for an active DSM and, with force, deactivates what it has
\* found before it sends the task: requests that come one after the other never leave two.
THEOREM DsmsReplaceEachOther == Spec => []TwoDsmsOnlyByOverlap
<1>1. Init => DsmInv
  BY DEF Init, DsmInv, Ordered, Beside, Coming, Alive, Holding
<1>2. DsmInv => TwoDsmsOnlyByOverlap
  BY DEF DsmInv, Beside, Overlap, TwoDsmsOnlyByOverlap, ActiveDsms
<1> QED BY <1>1, <1>2, DsmStep, PTL DEF Spec

-----------------------------------------------------------------------------
(* The map of a project (ProjectMap), for any runs and failures: two invariants, one of what *)
(* lies behind every row whatever happens (ServeInv), one of what the runs have left when    *)
(* none failed and no two met (AgreeInv). Each step is summarised by what it does to the     *)
(* store (ObjectsGrow) and to the rows (RowsGoOn).                                            *)

MapStep == {"waiting", "storing", "extracting", "marking", "generating", "inserting", "updating", "done", "failed"}
MapFile == [of : MapRuns \cup {"none"}, relative : BOOLEAN]
MapRow ==
    [run : MapRuns, flight : {FlightOf[q] : q \in MapRuns}, type : DroneTypes, key : Keys, at : Nat,
     active : BOOLEAN, source : {"real", "synthetic", "none"}, grounded : BOOLEAN]

\* Rows are older than the transaction to come.
MapTyped ==
    /\ object \in [Keys -> MapFile]
    /\ rows \subseteq MapRow /\ \A x \in rows : x.at < clock
    /\ step \in [MapRuns -> MapStep]
    /\ made \in [MapRuns -> SUBSET DroneTypes]
    /\ files \in [MapRuns -> SUBSET DroneTypes]
    /\ clock \in Nat /\ met \in BOOLEAN /\ broken \in Nat

Filled(k) == object[k].of # "none"

\* What a run has made and stored when it comes to a step, and what the step will find.
InStep(r) ==
    /\ files[r] \subseteq made[r]
    /\ step[r] = "waiting" => files[r] = {}
    /\ "model_3d" \in made[r] => "model_offset" \in made[r]
    /\ step[r] = "storing" => "orthomosaic" \in made[r]
    /\ step[r] \in {"extracting", "marking"} => "dsm" \in files[r]
    /\ step[r] = "generating" => "orthomosaic" \in files[r]
    /\ step[r] = "inserting" => Filled(Shared("dsm_raw"))
    /\ step[r] = "updating" => Filled(Shared("dsm_normalized"))

Stored == \A r \in MapRuns : InStep(r) /\ \A t \in files[r] : Filled(KeyOf(r, t))

RowsFilled ==
    \A x \in rows :
        /\ Filled(x.key)
        /\ x.type = "orthomosaic" /\ Kind[x.run] = "upload" => x.key = Own(x.run)
        /\ x.type = "model_3d" => \E y \in rows : y.type = "model_offset" /\ y.at = x.at

\* Nobody else writes under the name of a direct upload.
OwnFile == \A r \in MapRuns : object[Own(r)].of \in {"none", r}

ServeInv == MapTyped /\ Stored /\ RowsFilled /\ OwnFile

\* The steps of one run.
MapAct(r) ==
    \/ Begin(r) \/ StoreFile(r) \/ PublishRows(r) \/ UploadRow(r)
    \/ ExtractBuildings(r) \/ MarkReal(r) \/ StoreSynthetic(r) \/ InsertSynthetic(r)
    \/ NormalizeDsm(r) \/ UpdateDsmRows(r) \/ Fail(r)

LEMMA FiveTypes == DroneTypes = {"orthomosaic", "dsm", "offset_xyz", "model_3d", "model_offset"}
<1>1. DOMAIN Order = 1..5
  BY DEF Order
<1>2. /\ Order[1] = "orthomosaic" /\ Order[2] = "dsm" /\ Order[3] = "offset_xyz"
      /\ Order[4] = "model_3d" /\ Order[5] = "model_offset"
  BY DEF Order
<1>3. DroneTypes = {Order[i] : i \in 1..5}
  BY <1>1 DEF DroneTypes
<1>4. \A i \in 1..5 : i \in {1, 2, 3, 4, 5}
  OBVIOUS
<1> QED BY <1>2, <1>3, <1>4

\* The names: a direct upload's is its own, and a run stores each type under a name apart from
\* the others and from those of the follow-ups.
LEMMA OwnNames ==
    /\ \A r \in MapRuns : \A name : Own(r) # Shared(name)
    /\ \A q, r \in MapRuns : Own(q) = Own(r) => q = r
    /\ \A name, other : Shared(name) = Shared(other) => name = other
<1>1. ASSUME NEW r \in MapRuns, NEW name PROVE Own(r) # Shared(name)
  <2>1. 2 \in DOMAIN Own(r)
    BY DEF Own
  <2>2. 2 \notin DOMAIN Shared(name)
    BY DEF Shared
  <2> QED BY <2>1, <2>2
<1>2. ASSUME NEW q \in MapRuns, NEW r \in MapRuns, Own(q) = Own(r) PROVE q = r
  BY <1>2 DEF Own
<1>3. ASSUME NEW name, NEW other, Shared(name) = Shared(other) PROVE name = other
  BY <1>3 DEF Shared
<1> QED BY <1>1, <1>2, <1>3

LEMMA NamesAreKeys ==
    /\ \A r \in MapRuns : Own(r) \in Keys
    /\ \A name \in {"orthophoto", "dsm", "dsm_normalized", "dsm_raw", "model_3d", "offset_xyz", "model_offset",
                    "footprints"} : Shared(name) \in Keys
    /\ \A r \in MapRuns, t \in DroneTypes : KeyOf(r, t) \in Keys
<1>1. \A r \in MapRuns : Own(r) \in Keys
  BY DEF Keys
<1>2. \A name \in {"orthophoto", "dsm", "dsm_normalized", "dsm_raw", "model_3d", "offset_xyz", "model_offset",
                    "footprints"} : Shared(name) \in Keys
  BY DEF Keys
<1>3. ASSUME NEW r \in MapRuns, NEW t \in DroneTypes PROVE KeyOf(r, t) \in Keys
  BY <1>1, <1>2, FiveTypes DEF KeyOf
<1> QED BY <1>1, <1>2, <1>3

LEMMA KeysApart ==
    ASSUME NEW r \in MapRuns, NEW t \in DroneTypes
    PROVE  /\ KeyOf(r, t) \notin {Shared("footprints"), Shared("dsm_raw")}
           /\ \A u \in DroneTypes : KeyOf(r, t) = KeyOf(r, u) => t = u
           /\ \A q \in MapRuns : KeyOf(r, t) = Own(q) => q = r
           /\ t = "orthomosaic" /\ Kind[r] = "upload" => KeyOf(r, t) = Own(r)
<1>1. /\ \A q \in MapRuns : /\ Own(q) # Shared("orthophoto") /\ Own(q) # Shared("dsm")
                            /\ Own(q) # Shared("dsm_normalized") /\ Own(q) # Shared("dsm_raw")
                            /\ Own(q) # Shared("footprints") /\ Own(q) # Shared("offset_xyz")
                            /\ Own(q) # Shared("model_3d") /\ Own(q) # Shared("model_offset")
      /\ \A q \in MapRuns : Own(q) = Own(r) => q = r
  BY OwnNames
<1>2. \A name, other : Shared(name) = Shared(other) => name = other
  BY OwnNames
<1>3. /\ KeyOf(r, "orthomosaic") = IF Kind[r] = "upload" THEN Own(r) ELSE Shared("orthophoto")
      /\ KeyOf(r, "dsm") \in {Shared("dsm"), Shared("dsm_normalized")}
      /\ KeyOf(r, "offset_xyz") = Shared("offset_xyz")
      /\ KeyOf(r, "model_3d") = Shared("model_3d")
      /\ KeyOf(r, "model_offset") = Shared("model_offset")
  BY DEF KeyOf
<1>4. t \in {"orthomosaic", "dsm", "offset_xyz", "model_3d", "model_offset"}
  BY FiveTypes
<1> QED BY <1>1, <1>2, <1>3, <1>4, FiveTypes

-----------------------------------------------------------------------------
(* Every row has its file. *)

LEMMA InitServeInv == ASSUME MapAssumption, MapInit PROVE ServeInv
<1>1. \A k \in Keys : object[k] = [of |-> "none", relative |-> FALSE]
  BY DEF MapInit, Nothing, File
<1>2. MapTyped
  BY <1>1 DEF MapInit, MapTyped, MapFile, MapStep, Nothing, File
<1>3. OwnFile
  BY <1>1, NamesAreKeys DEF OwnFile
<1>4. Stored
  BY DEF Stored, InStep, MapInit
<1>5. RowsFilled
  BY DEF RowsFilled, MapInit
<1> QED BY <1>2, <1>3, <1>4, <1>5 DEF ServeInv

\* Whatever is written is a file of a run; nothing else is written under an upload's name.
LEMMA ObjectsGrow ==
    ASSUME MapAssumption, ServeInv, NEW r \in MapRuns, MapAct(r)
    PROVE  /\ object' \in [Keys -> MapFile]
           /\ \A k \in Keys : Filled(k) => Filled(k)'
           /\ OwnFile'
<1>1. /\ object \in [Keys -> MapFile] /\ \A k \in Keys : object[k].of \in MapRuns \cup {"none"}
      /\ r # "none" /\ OwnFile
  BY DEF ServeInv, MapTyped, MapFile, MapAssumption
<1>2. CASE object' = object
  BY <1>1, <1>2 DEF Filled, OwnFile
<1>3. ASSUME NEW k \in Keys, NEW f \in MapFile, f.of # "none", object' = [object EXCEPT ![k] = f],
             \A q \in MapRuns : k = Own(q) => f.of = q
      PROVE  /\ object' \in [Keys -> MapFile]
             /\ \A j \in Keys : Filled(j) => Filled(j)'
             /\ OwnFile'
  BY <1>1, <1>3, NamesAreKeys DEF Filled, OwnFile
<1>4. ASSUME NEW k \in Keys, NEW f \in MapFile, f.of # "none", NEW j \in Keys, NEW g \in MapFile,
             g.of # "none", object' = [object EXCEPT ![k] = f, ![j] = g],
             \A q \in MapRuns : Own(q) \notin {k, j}
      PROVE  /\ object' \in [Keys -> MapFile]
             /\ \A i \in Keys : Filled(i) => Filled(i)'
             /\ OwnFile'
  BY <1>1, <1>4, NamesAreKeys DEF Filled, OwnFile
<1>5. CASE StoreFile(r)
  <2>1. PICK i \in DOMAIN Order :
               object' = [object EXCEPT ![KeyOf(r, Order[i])] = ContentOf(r, Order[i])]
    BY <1>5 DEF StoreFile
  <2> DEFINE t == Order[i]
             f == ContentOf(r, t)
  <2>2. t \in DroneTypes
    BY DEF DroneTypes
  <2>3. f \in MapFile /\ f.of = r
    <3>1. (t = "dsm" /\ "offset_xyz" \in made[r]) \in BOOLEAN
      BY Zenon
    <3> QED BY <3>1 DEF ContentOf, File, MapFile
  <2> HIDE DEF t, f
  <2>4. object' = [object EXCEPT ![KeyOf(r, t)] = f]
    BY <2>1 DEF t, f
  <2>5. KeyOf(r, t) \in Keys /\ \A q \in MapRuns : KeyOf(r, t) = Own(q) => f.of = q
    BY <2>2, <2>3, NamesAreKeys, KeysApart
  <2> QED BY <1>1, <1>3, <2>3, <2>4, <2>5
<1>6. CASE ExtractBuildings(r)
  <2>1. "dsm" \in files[r] /\ "dsm" \in DroneTypes
    BY <1>6 DEF ExtractBuildings, ServeInv, Stored, InStep, MapTyped
  <2> DEFINE f == File(object[KeyOf(r, "dsm")].of, FALSE)
  <2>2. f \in MapFile /\ f.of # "none"
    <3>1. Filled(KeyOf(r, "dsm")) /\ KeyOf(r, "dsm") \in Keys
      BY <2>1, NamesAreKeys DEF ServeInv, Stored
    <3> QED BY <1>1, <3>1 DEF Filled, File, MapFile
  <2>3. object' = [object EXCEPT ![Shared("footprints")] = f]
    BY <1>6 DEF ExtractBuildings
  <2>4. Shared("footprints") \in Keys /\ \A q \in MapRuns : Shared("footprints") # Own(q)
    BY NamesAreKeys, OwnNames
  <2> HIDE DEF f
  <2> QED BY <1>3, <2>2, <2>3, <2>4
<1>7. CASE StoreSynthetic(r)
  <2>1. "orthomosaic" \in files[r] /\ "orthomosaic" \in DroneTypes
    BY <1>7 DEF StoreSynthetic, ServeInv, Stored, InStep, MapTyped
  <2> DEFINE f == object[KeyOf(r, "orthomosaic")]
  <2>2. f \in MapFile /\ f.of # "none"
    <3>1. Filled(KeyOf(r, "orthomosaic")) /\ KeyOf(r, "orthomosaic") \in Keys
      BY <2>1, NamesAreKeys DEF ServeInv, Stored
    <3> QED BY <1>1, <3>1 DEF Filled
  <2>3. object' = [object EXCEPT ![Shared("dsm_raw")] = f, ![Shared("footprints")] = f]
    BY <1>7 DEF StoreSynthetic
  <2>4. /\ Shared("dsm_raw") \in Keys /\ Shared("footprints") \in Keys
        /\ \A q \in MapRuns : Own(q) \notin {Shared("dsm_raw"), Shared("footprints")}
    BY NamesAreKeys, OwnNames
  <2> HIDE DEF f
  <2> QED BY <1>4, <2>2, <2>3, <2>4
<1>8. CASE NormalizeDsm(r)
  <2>1. PICK x \in rows :
           object' = [object EXCEPT ![Shared("dsm_normalized")] = File(object[x.key].of, TRUE),
                                    ![Shared("offset_xyz")] = File(r, FALSE)]
    BY <1>8 DEF NormalizeDsm, OfFlight, Of
  <2> DEFINE f == File(object[x.key].of, TRUE)
             g == File(r, FALSE)
  <2>2. f \in MapFile /\ f.of # "none" /\ g \in MapFile /\ g.of # "none"
    <3>1. Filled(x.key) /\ x.key \in Keys
      BY DEF ServeInv, RowsFilled, MapTyped, MapRow
    <3> QED BY <1>1, <3>1 DEF Filled, File, MapFile
  <2>3. object' = [object EXCEPT ![Shared("dsm_normalized")] = f, ![Shared("offset_xyz")] = g]
    BY <2>1
  <2>4. /\ Shared("dsm_normalized") \in Keys /\ Shared("offset_xyz") \in Keys
        /\ \A q \in MapRuns : Own(q) \notin {Shared("dsm_normalized"), Shared("offset_xyz")}
    BY NamesAreKeys, OwnNames
  <2> HIDE DEF f, g
  <2> QED BY <1>4, <2>2, <2>3, <2>4
<1>9. CASE \/ Begin(r) \/ PublishRows(r) \/ UploadRow(r) \/ MarkReal(r)
           \/ InsertSynthetic(r) \/ UpdateDsmRows(r) \/ Fail(r)
  BY <1>2, <1>9 DEF Begin, PublishRows, UploadRow, MarkReal, InsertSynthetic,
                    UpdateDsmRows, Fail
<1> QED BY <1>5, <1>6, <1>7, <1>8, <1>9 DEF MapAct

\* A row that stays may be retired, marked or renamed: it is of the same run, type and time.
SameRow(x, y) ==
    /\ y \in MapRow
    /\ y.run = x.run /\ y.flight = x.flight /\ y.type = x.type /\ y.at = x.at /\ y.grounded = x.grounded

\* A row that a run adds: of a file it has stored, or of the synthetic surface.
NewRow(r, y) ==
    /\ y \in MapRow /\ y.run = r /\ y.at = clock /\ clock' = clock + 1
    /\ \/ /\ step[r] = "storing" /\ y.type \in files[r]
          /\ y.key = KeyOf(r, y.type)
          /\ y.grounded = ContentOf(r, y.type).relative
       \/ /\ step[r] = "inserting" /\ y.type = "dsm"
          /\ y.key = Shared("dsm_raw") /\ y.grounded = FALSE

Renamed(r, y) == step[r] = "updating" /\ y.type = "dsm" /\ y.key = Shared("dsm_normalized")

RowsGoOn(r) ==
    /\ \A y \in rows' : NewRow(r, y) \/ \E x \in rows : SameRow(x, y) /\ (y.key = x.key \/ Renamed(r, y))
    /\ \A x \in rows : \E y \in rows' : SameRow(x, y)
    /\ \A y \in rows' : y.at = clock /\ y.type = "model_3d" =>
           \E z \in rows' : z.type = "model_offset" /\ z.at = clock

LEMMA RowsChange ==
    ASSUME MapAssumption, ServeInv, NEW r \in MapRuns, MapAct(r)
    PROVE  RowsGoOn(r)
<1>1. /\ rows \subseteq MapRow /\ clock \in Nat /\ \A x \in rows : SameRow(x, x) /\ x.at # clock
  BY DEF ServeInv, MapTyped, SameRow
<1>2. CASE rows' = rows
  BY <1>1, <1>2 DEF RowsGoOn
\* Rows replaced one by one.
<1>3. ASSUME \A x \in rows : \E y \in rows' : SameRow(x, y),
             \A y \in rows' : \E x \in rows : SameRow(x, y) /\ (y.key = x.key \/ Renamed(r, y))
      PROVE  RowsGoOn(r)
  BY <1>1, <1>3 DEF RowsGoOn, SameRow
<1>4. ASSUME PublishRows(r) PROVE RowsGoOn(r)
  <2> DEFINE Retired(x) == IF x.flight = FlightOf[r] /\ x.type \in made[r] THEN [x EXCEPT !.active = FALSE] ELSE x
  <2>1. /\ rows' = {Retired(x) : x \in rows} \cup {Row(r, t) : t \in made[r]}
        /\ files[r] = made[r] /\ step[r] = "storing" /\ clock' = clock + 1
    BY <1>4 DEF PublishRows, Retire
  <2>2. ASSUME NEW x \in rows PROVE SameRow(x, Retired(x)) /\ Retired(x).key = x.key
    <3>1. x \in MapRow
      BY <1>1
    <3> QED BY <3>1 DEF SameRow, MapRow
  <2>3. ASSUME NEW t \in made[r] PROVE NewRow(r, Row(r, t)) /\ Row(r, t).type = t
    <3>1. t \in DroneTypes /\ KeyOf(r, t) \in Keys
      BY NamesAreKeys DEF ServeInv, MapTyped
    <3> DEFINE g == ContentOf(r, t).relative
    <3>2. g \in BOOLEAN
      <4>1. (t = "dsm" /\ "offset_xyz" \in made[r]) \in BOOLEAN
        BY Zenon
      <4> QED BY <4>1 DEF ContentOf, File
    <3>3. Row(r, t) =
            [run |-> r, flight |-> FlightOf[r], type |-> t, key |-> KeyOf(r, t), at |-> clock,
             active |-> TRUE, source |-> IF t = "dsm" THEN "real" ELSE "none", grounded |-> g]
      BY DEF Row
    <3>4. (IF t = "dsm" THEN "real" ELSE "none") \in {"real", "synthetic", "none"}
      OBVIOUS
    <3> HIDE DEF g
    <3>5. Row(r, t) \in MapRow
      BY <1>1, <3>1, <3>2, <3>3, <3>4 DEF MapRow
    <3>6. /\ Row(r, t).run = r /\ Row(r, t).at = clock /\ Row(r, t).type = t
          /\ Row(r, t).key = KeyOf(r, t) /\ Row(r, t).grounded = g
      BY <3>3
    <3> QED BY <2>1, <3>5, <3>6 DEF NewRow, g
  <2>4. "model_3d" \in made[r] => "model_offset" \in made[r]
    BY DEF ServeInv, Stored, InStep
  <2> HIDE DEF Retired
  <2>5. ASSUME NEW y \in rows'
        PROVE NewRow(r, y) \/ \E x \in rows : SameRow(x, y) /\ (y.key = x.key \/ Renamed(r, y))
    BY <2>1, <2>2, <2>3
  <2>6. \A x \in rows : \E y \in rows' : SameRow(x, y)
    BY <2>1, <2>2
  <2>7. ASSUME NEW y \in rows', y.at = clock, y.type = "model_3d"
        PROVE  \E z \in rows' : z.type = "model_offset" /\ z.at = clock
    <3>1. PICK t \in made[r] : y = Row(r, t)
      <4>1. ASSUME NEW x \in rows, y = Retired(x) PROVE FALSE
        BY <1>1, <2>2, <2>7, <4>1 DEF SameRow
      <4> QED BY <2>1, <4>1
    <3>2. "model_offset" \in made[r]
      BY <2>3, <2>4, <2>7, <3>1
    <3> QED BY <2>1, <2>3, <3>2 DEF NewRow
  <2> QED BY <2>5, <2>6, <2>7 DEF RowsGoOn
\* One row added.
<1>5. ASSUME NEW z, NewRow(r, z), z.type # "model_3d", rows' = rows \cup {z} PROVE RowsGoOn(r)
  BY <1>1, <1>5 DEF RowsGoOn
<1>6. CASE UploadRow(r)
  <2>1. /\ step[r] = "storing" /\ clock' = clock + 1 /\ rows' = rows \cup {Row(r, "orthomosaic")}
        /\ "orthomosaic" \in files[r] /\ "orthomosaic" \in DroneTypes
    BY <1>6 DEF UploadRow, ServeInv, Stored, InStep, MapTyped
  <2>2. KeyOf(r, "orthomosaic") \in Keys
    BY <2>1, NamesAreKeys
  <2> DEFINE k == KeyOf(r, "orthomosaic")
             z == [run |-> r, flight |-> FlightOf[r], type |-> "orthomosaic", key |-> k,
                   at |-> clock, active |-> TRUE, source |-> "none", grounded |-> FALSE]
  <2>3. Row(r, "orthomosaic") = z /\ ContentOf(r, "orthomosaic").relative = FALSE
    BY DEF Row, ContentOf, File
  <2>4. k = KeyOf(r, z.type)
    OBVIOUS
  <2> HIDE DEF k
  <2>5. z \in MapRow /\ z.type # "model_3d"
    BY <1>1, <2>1, <2>2 DEF MapRow, k
  <2>6. NewRow(r, z)
    BY <1>1, <2>1, <2>3, <2>4, <2>5 DEF NewRow
  <2> HIDE DEF z
  <2> QED BY <1>5, <2>1, <2>3, <2>5, <2>6
<1>7. CASE InsertSynthetic(r)
  <2> DEFINE z == [run |-> r, flight |-> FlightOf[r], type |-> "dsm", key |-> Shared("dsm_raw"),
                   at |-> clock, active |-> TRUE, source |-> "synthetic", grounded |-> FALSE]
  <2>1. step[r] = "inserting" /\ clock' = clock + 1 /\ rows' = rows \cup {z}
    BY <1>7 DEF InsertSynthetic
  <2>2. "dsm" \in DroneTypes /\ Shared("dsm_raw") \in Keys
    BY FiveTypes, NamesAreKeys
  <2>3. NewRow(r, z) /\ z.type # "model_3d"
    BY <1>1, <2>1, <2>2 DEF NewRow, MapRow
  <2> QED BY <1>5, <2>1, <2>3
<1>8. CASE MarkReal(r)
  <2> DEFINE Marked(x) == IF x.flight = FlightOf[r] /\ x.type = "dsm" THEN [x EXCEPT !.source = "real"] ELSE x
  <2>1. rows' = {Marked(x) : x \in rows}
    BY <1>8 DEF MarkReal
  <2>2. ASSUME NEW x \in rows PROVE SameRow(x, Marked(x)) /\ Marked(x).key = x.key
    <3>1. x \in MapRow
      BY <1>1
    <3> QED BY <3>1 DEF SameRow, MapRow
  <2> HIDE DEF Marked
  <2> QED BY <1>3, <2>1, <2>2
<1>9. CASE UpdateDsmRows(r)
  <2> DEFINE k == Shared("dsm_normalized")
             Moved(x) == IF x.flight = FlightOf[r] /\ x.type = "dsm" THEN [x EXCEPT !.key = k, !.source = "real"] ELSE x
  <2>1. rows' = {Moved(x) : x \in rows} /\ step[r] = "updating"
    BY <1>9 DEF UpdateDsmRows
  <2>2. k \in Keys
    BY NamesAreKeys
  <2>3. ASSUME NEW x \in rows PROVE SameRow(x, Moved(x)) /\ (Moved(x).key = x.key \/ Renamed(r, Moved(x)))
    <3>1. x \in MapRow
      BY <1>1
    <3> HIDE DEF k
    <3>2. CASE x.flight = FlightOf[r] /\ x.type = "dsm"
      <4>1. Moved(x) = [x EXCEPT !.key = k, !.source = "real"]
        BY <3>2
      <4>2. Moved(x) \in MapRow /\ Moved(x).key = k /\ SameRow(x, Moved(x))
        BY <2>2, <3>1, <4>1 DEF SameRow, MapRow
      <4> QED BY <2>1, <3>2, <4>2 DEF Renamed, k, SameRow
    <3>3. CASE ~(x.flight = FlightOf[r] /\ x.type = "dsm")
      BY <1>1, <3>3
    <3> QED BY <3>2, <3>3
  <2> HIDE DEF Moved, k
  <2> QED BY <1>3, <2>1, <2>3
<1>10. CASE \/ Begin(r) \/ StoreFile(r) \/ ExtractBuildings(r) \/ StoreSynthetic(r)
            \/ NormalizeDsm(r) \/ Fail(r)
  BY <1>2, <1>10 DEF Begin, StoreFile, ExtractBuildings, StoreSynthetic, NormalizeDsm, Fail
<1> QED BY <1>4, <1>6, <1>7, <1>8, <1>9, <1>10 DEF MapAct

\* A step leaves the progress of the other runs alone.
LEMMA OnlyItsOwn ==
    ASSUME MapTyped, NEW r \in MapRuns, MapAct(r)
    PROVE  /\ step' \in [MapRuns -> MapStep]
           /\ made' \in [MapRuns -> SUBSET DroneTypes] /\ files' \in [MapRuns -> SUBSET DroneTypes]
           /\ clock' \in {clock, clock + 1} /\ met' \in BOOLEAN /\ broken' \in {broken, broken + 1}
           /\ step[r] \notin {"done", "failed"}
           /\ step[r] # "waiting" => made' = made
           /\ \A q \in MapRuns \ {r} : step'[q] = step[q] /\ made'[q] = made[q] /\ files'[q] = files[q]
<1>1. CASE Begin(r)
  <2>1. /\ step' = [step EXCEPT ![r] = "storing"] /\ step[r] = "waiting" /\ UNCHANGED <<files, clock, broken>>
        /\ met' = (met \/ ~Quiet)
    BY <1>1 DEF Begin, Goto
  <2>2. met' \in BOOLEAN
    BY <2>1, Zenon
  <2>3. PICK got \in SUBSET DroneTypes : made' = [made EXCEPT ![r] = got]
    BY <1>1, FiveTypes DEF Begin
  <2> QED BY <2>1, <2>2, <2>3 DEF MapTyped, MapStep
<1>2. CASE StoreFile(r)
  <2>1. PICK i \in DOMAIN Order : files' = [files EXCEPT ![r] = @ \cup {Order[i]}]
    BY <1>2 DEF StoreFile
  <2>2. Order[i] \in DroneTypes
    BY DEF DroneTypes
  <2> QED BY <1>2, <2>1, <2>2 DEF StoreFile, MapTyped
<1>3. CASE PublishRows(r) \/ UploadRow(r)
  <2>1. /\ \E s \in MapStep : step' = [step EXCEPT ![r] = s]
        /\ UNCHANGED <<made, files, met, broken>> /\ step[r] = "storing" /\ clock' = clock + 1
    BY <1>3 DEF PublishRows, UploadRow, Goto, MapStep
  <2> QED BY <2>1 DEF MapTyped
<1>4. CASE \/ ExtractBuildings(r) \/ MarkReal(r) \/ StoreSynthetic(r) \/ InsertSynthetic(r)
           \/ NormalizeDsm(r) \/ UpdateDsmRows(r) \/ Fail(r)
  <2>1. /\ \E s \in MapStep : step' = [step EXCEPT ![r] = s]
        /\ UNCHANGED <<made, files>> /\ clock' \in {clock, clock + 1} /\ met' \in {met, TRUE}
        /\ broken' \in {broken, broken + 1} /\ step[r] \notin {"done", "failed"}
    BY <1>4 DEF ExtractBuildings, MarkReal, StoreSynthetic, InsertSynthetic, NormalizeDsm,
                UpdateDsmRows, Fail, UnderWay, Goto, MapStep
  <2> QED BY <2>1 DEF MapTyped
<1> QED BY <1>1, <1>2, <1>3, <1>4 DEF MapAct

LEMMA RowsFilledStep ==
    ASSUME MapAssumption, ServeInv, NEW r \in MapRuns, MapAct(r)
    PROVE  RowsFilled' /\ rows' \subseteq MapRow /\ \A y \in rows' : y.at < clock'
<1>1. /\ RowsGoOn(r) /\ \A k \in Keys : Filled(k) => Filled(k)'
      /\ clock' \in {clock, clock + 1} /\ clock \in Nat
  BY RowsChange, ObjectsGrow, OnlyItsOwn DEF ServeInv, MapTyped
<1>2. ASSUME NEW x \in rows
      PROVE  /\ x \in MapRow /\ x.key \in Keys /\ x.at < clock /\ Filled(x.key)
             /\ x.type = "orthomosaic" /\ Kind[x.run] = "upload" => x.key = Own(x.run)
             /\ x.type = "model_3d" => \E y \in rows : y.type = "model_offset" /\ y.at = x.at
  BY DEF ServeInv, MapTyped, RowsFilled, MapRow
<1>3. ASSUME NEW y \in rows'
      PROVE  /\ Filled(y.key)' /\ y \in MapRow /\ y.at < clock'
             /\ y.type = "orthomosaic" /\ Kind[y.run] = "upload" => y.key = Own(y.run)
             /\ y.type = "model_3d" => \E z \in rows' : z.type = "model_offset" /\ z.at = y.at
  <2>1. CASE NewRow(r, y)
    <3>1. y \in MapRow /\ y.type \in DroneTypes /\ y.key \in Keys
      BY <2>1 DEF NewRow, MapRow
    <3>2. Filled(y.key)
      BY <2>1 DEF NewRow, ServeInv, Stored, InStep
    <3>3. y.type = "orthomosaic" /\ Kind[y.run] = "upload" => y.key = Own(y.run)
      BY <2>1, <3>1, KeysApart DEF NewRow
    <3>4. y.at = clock /\ clock' = clock + 1
      BY <2>1 DEF NewRow
    <3>5. y.type = "model_3d" => \E z \in rows' : z.type = "model_offset" /\ z.at = y.at
      BY <1>1, <3>4 DEF RowsGoOn
    <3> QED BY <1>1, <3>1, <3>2, <3>3, <3>4, <3>5
  <2>2. ASSUME NEW x \in rows, SameRow(x, y), y.key = x.key \/ Renamed(r, y)
        PROVE  /\ Filled(y.key)' /\ y \in MapRow /\ y.at < clock'
               /\ y.type = "orthomosaic" /\ Kind[y.run] = "upload" => y.key = Own(y.run)
               /\ y.type = "model_3d" => \E z \in rows' : z.type = "model_offset" /\ z.at = y.at
    <3>1. y \in MapRow /\ y.key \in Keys
      BY <2>2 DEF SameRow, MapRow
    <3>2. Filled(y.key)
      BY <1>2, <2>2 DEF Renamed, ServeInv, Stored, InStep
    <3>3. y.type = "orthomosaic" /\ Kind[y.run] = "upload" => y.key = Own(y.run)
      BY <1>2, <2>2 DEF Renamed, SameRow
    <3>4. y.at < clock'
      BY <1>1, <1>2, <2>2 DEF SameRow, MapRow
    <3>5. ASSUME y.type = "model_3d" PROVE \E z \in rows' : z.type = "model_offset" /\ z.at = y.at
      <4>1. PICK w \in rows : w.type = "model_offset" /\ w.at = x.at
        BY <1>2, <2>2, <3>5 DEF SameRow
      <4>2. PICK z \in rows' : SameRow(w, z)
        BY <1>1 DEF RowsGoOn
      <4> QED BY <2>2, <4>1, <4>2 DEF SameRow
    <3> QED BY <1>1, <3>1, <3>2, <3>3, <3>4, <3>5
  <2> QED BY <1>1, <2>1, <2>2 DEF RowsGoOn
<1> QED BY <1>3 DEF RowsFilled

LEMMA StoredStep ==
    ASSUME MapAssumption, ServeInv, NEW r \in MapRuns, MapAct(r)
    PROVE  Stored'
<1>1. /\ object' \in [Keys -> MapFile] /\ \A k \in Keys : Filled(k) => Filled(k)'
      /\ MapTyped
  BY ObjectsGrow DEF ServeInv
<1>2. /\ Shared("dsm_raw") \in Keys /\ Shared("dsm_normalized") \in Keys
      /\ \A q \in MapRuns, t \in DroneTypes : KeyOf(q, t) \in Keys
  BY NamesAreKeys
<1>3. ASSUME NEW q \in MapRuns, made'[q] = made[q], NEW t \in files[q] PROVE Filled(KeyOf(q, t))'
  <2>1. t \in DroneTypes /\ Filled(KeyOf(q, t))
    BY DEF ServeInv, MapTyped, Stored
  <2>2. KeyOf(q, t)' = KeyOf(q, t)
    BY <1>3 DEF KeyOf
  <2> QED BY <1>1, <1>2, <2>1, <2>2 DEF Filled
<1>4. ASSUME NEW q \in MapRuns, q # r PROVE InStep(q)' /\ \A t \in files'[q] : Filled(KeyOf(q, t))'
  <2>1. step'[q] = step[q] /\ made'[q] = made[q] /\ files'[q] = files[q] /\ InStep(q)
    BY <1>1, <1>4, OnlyItsOwn DEF ServeInv, Stored
  <2> QED BY <1>1, <1>2, <1>3, <2>1 DEF InStep
<1>5. InStep(r) /\ step \in [MapRuns -> MapStep] /\ made \in [MapRuns -> SUBSET DroneTypes]
      /\ files \in [MapRuns -> SUBSET DroneTypes]
  BY DEF ServeInv, Stored, MapTyped
<1> SUFFICES InStep(r)' /\ \A t \in files'[r] : Filled(KeyOf(r, t))'
  BY <1>4 DEF Stored
\* A step after which the run has stored what it had.
<1>6. ASSUME InStep(r)', files' = files, step[r] = "waiting" \/ made'[r] = made[r]
      PROVE  InStep(r)' /\ \A t \in files'[r] : Filled(KeyOf(r, t))'
  BY <1>3, <1>5, <1>6 DEF InStep
<1>7. CASE Begin(r)
  <2>1. /\ files' = files /\ step[r] = "waiting" /\ step'[r] = "storing"
        /\ \E got : made' = [made EXCEPT ![r] = got] /\ "orthomosaic" \in got
                    /\ ("model_3d" \in got => "model_offset" \in got)
    BY <1>5, <1>7 DEF Begin, Goto
  <2> QED BY <1>5, <1>6, <2>1 DEF InStep
<1>8. CASE StoreFile(r)
  <2>1. PICK i \in DOMAIN Order :
           /\ Order[i] \in made[r]
           /\ object' = [object EXCEPT ![KeyOf(r, Order[i])] = ContentOf(r, Order[i])]
           /\ files' = [files EXCEPT ![r] = @ \cup {Order[i]}]
    BY <1>8 DEF StoreFile
  <2> DEFINE t == Order[i]
  <2>2. /\ t \in DroneTypes /\ files'[r] = files[r] \cup {t} /\ t \in made[r]
        /\ made' = made /\ step' = step /\ step[r] = "storing"
        /\ object' = [object EXCEPT ![KeyOf(r, t)] = ContentOf(r, t)]
    BY <1>5, <1>8, <2>1 DEF StoreFile, DroneTypes
  <2> HIDE DEF t
  <2>3. KeyOf(r, t)' = KeyOf(r, t) /\ KeyOf(r, t) \in Keys /\ ContentOf(r, t).of = r /\ r # "none"
    BY <1>2, <2>2 DEF KeyOf, ContentOf, File, MapAssumption
  <2>4. Filled(KeyOf(r, t))'
    BY <1>1, <2>2, <2>3 DEF Filled, MapTyped
  <2> QED BY <1>3, <1>5, <2>2, <2>4 DEF InStep
<1>9. CASE PublishRows(r) \/ UploadRow(r)
  <2>1. /\ files' = files /\ made' = made /\ files[r] = made[r] /\ step[r] = "storing"
        /\ step'[r] = "generating" \/ (step'[r] = "extracting" /\ "dsm" \in made[r])
    BY <1>5, <1>9 DEF PublishRows, UploadRow, Goto
  <2> QED BY <1>5, <1>6, <2>1 DEF InStep
<1>10. CASE ExtractBuildings(r)
  <2>1. files' = files /\ made' = made /\ step[r] = "extracting" /\ step'[r] = "marking"
    BY <1>5, <1>10 DEF ExtractBuildings, Goto
  <2> QED BY <1>5, <1>6, <2>1 DEF InStep
<1>11. CASE StoreSynthetic(r)
  <2>1. /\ files' = files /\ made' = made /\ step[r] = "generating" /\ step'[r] = "inserting"
        /\ object'[Shared("dsm_raw")] = object[KeyOf(r, "orthomosaic")]
    <3>1. Shared("dsm_raw") # Shared("footprints")
      BY OwnNames
    <3> QED BY <1>1, <1>2, <1>5, <1>11, <3>1 DEF StoreSynthetic, Goto, MapTyped
  <2>2. Filled(Shared("dsm_raw"))'
    BY <1>5, <2>1 DEF InStep, ServeInv, Stored, Filled
  <2> QED BY <1>5, <1>6, <2>1, <2>2 DEF InStep
<1>12. CASE NormalizeDsm(r)
  <2>1. PICK x \in rows :
           object' = [object EXCEPT ![Shared("dsm_normalized")] = File(object[x.key].of, TRUE),
                                    ![Shared("offset_xyz")] = File(r, FALSE)]
    BY <1>12 DEF NormalizeDsm, OfFlight, Of
  <2>2. /\ files' = files /\ made' = made /\ step[r] = "waiting" /\ step'[r] = "updating"
        /\ object'[Shared("dsm_normalized")].of = object[x.key].of
    <3>1. Shared("dsm_normalized") # Shared("offset_xyz")
      BY OwnNames
    <3> QED BY <1>1, <1>2, <1>5, <1>12, <2>1, <3>1 DEF NormalizeDsm, Goto, File, MapTyped
  <2>3. Filled(Shared("dsm_normalized"))'
    BY <2>2 DEF ServeInv, RowsFilled, Filled
  <2> QED BY <1>5, <1>6, <2>2, <2>3 DEF InStep
<1>13. CASE MarkReal(r) \/ InsertSynthetic(r) \/ UpdateDsmRows(r) \/ Fail(r)
  <2>1. files' = files /\ made' = made /\ step'[r] \in {"done", "failed"}
    BY <1>5, <1>13 DEF MarkReal, InsertSynthetic, UpdateDsmRows, Fail, Goto
  <2> QED BY <1>5, <1>6, <2>1 DEF InStep
<1> QED BY <1>7, <1>8, <1>9, <1>10, <1>11, <1>12, <1>13 DEF MapAct

LEMMA ServeStep == ASSUME MapAssumption, ServeInv, NEW r \in MapRuns, MapAct(r) PROVE ServeInv'
<1>1. object' \in [Keys -> MapFile] /\ OwnFile'
  BY ObjectsGrow
<1>2. MapTyped'
  BY <1>1, OnlyItsOwn, RowsFilledStep DEF ServeInv, MapTyped
<1> QED BY <1>1, <1>2, StoredStep, RowsFilledStep DEF ServeInv

\* A non-empty set of naturals has a least member.
LEMMA LeastNatural ==
    ASSUME NEW T, T \subseteq Nat, T # {}
    PROVE  \E m \in T : \A n \in T : m <= n
<1>1. IsWellFoundedOn(OpToRel(<, Nat), Nat)
  BY NatLessThanWellFounded
<1>2. PICK x \in T : \A y \in T : ~ (<<y, x>> \in OpToRel(<, Nat))
  BY <1>1, WFMin
<1>3. \A y \in T : ~ (y < x)
  BY <1>2 DEF OpToRel
<1> QED BY <1>3

\* Of rows there is a newest one.
LEMMA NewestExists ==
    ASSUME MapTyped, NEW S, S \subseteq rows, S # {}
    PROVE  \E x \in Newest(S) : \A y \in S : y.at <= x.at
<1> DEFINE T == {clock - x.at : x \in S}
<1>1. /\ clock \in Nat /\ \A x \in S : x.at \in Nat /\ x.at < clock
  BY DEF MapTyped, MapRow
<1>2. T \subseteq Nat /\ T # {}
  BY <1>1
<1>3. PICK m \in T : \A n \in T : m <= n
  <2> HIDE DEF T
  <2> QED BY <1>2, LeastNatural
<1>4. PICK x \in S : m = clock - x.at
  BY DEF T
<1>5. \A y \in S : clock - x.at <= clock - y.at
  BY <1>3, <1>4 DEF T
<1> QED BY <1>1, <1>5 DEF Newest

LEMMA MapSteps ==
    ASSUME MapAssumption, [MapNext]_mapVars
    PROVE  UNCHANGED mapVars \/ \E r \in MapRuns : MapAct(r)
  BY DEF MapNext, MapAct

LEMMA ServeInvariant == ASSUME MapAssumption PROVE MapSpec => []ServeInv
<1>1. MapInit => ServeInv
  BY InitServeInv
<1>2. ServeInv /\ [MapNext]_mapVars => ServeInv'
  <2>1. ASSUME ServeInv, UNCHANGED mapVars PROVE ServeInv'
    BY <2>1 DEF mapVars, ServeInv, MapTyped, Stored, InStep, RowsFilled, OwnFile, Filled, KeyOf
  <2> QED BY <2>1, ServeStep, MapSteps
<1> QED BY <1>1, <1>2, PTL DEF MapSpec

\* However runs interleave and fail, a row of the map has its file, a direct upload keeps its own
\* file, and a model is never shown without an offset as new as the model.
THEOREM MapServesFiles == ASSUME MapAssumption PROVE MapSpec => []RowsServeFiles
<1>1. ASSUME ServeInv PROVE RowsServeFiles
  <2>1. ASSUME NEW x \in rows PROVE object[x.key] # Nothing
    <3>1. Nothing.of = "none"
      BY DEF Nothing, File
    <3> QED BY <1>1, <3>1 DEF ServeInv, RowsFilled, Filled
  <2>2. ASSUME NEW x \in Of("orthomosaic"), Kind[x.run] = "upload" PROVE RasterTile(x) = x.run
    <3>1. x \in rows /\ x.type = "orthomosaic" /\ x.run \in MapRuns
      BY <1>1 DEF Of, ServeInv, MapTyped, MapRow
    <3> QED BY <1>1, <2>2, <3>1 DEF ServeInv, RowsFilled, OwnFile, Filled, RasterTile
  <2>3. ASSUME NEW m \in ModelForProject PROVE \E o \in OffsetForProject : o.at >= m.at
    <3> DEFINE S == Of("offset_xyz") \cup Of("model_offset")
    <3>1. m \in rows /\ m.type = "model_3d" /\ S \subseteq rows
      BY DEF ModelForProject, Newest, Of
    <3>2. PICK y \in rows : y.type = "model_offset" /\ y.at = m.at
      BY <1>1, <3>1 DEF ServeInv, RowsFilled
    <3>3. y \in S
      BY <3>2 DEF Of
    <3> HIDE DEF S
    <3>4. PICK o \in Newest(S) : \A z \in S : z.at <= o.at
      BY <1>1, <3>1, <3>3, NewestExists DEF ServeInv
    <3>5. y.at <= o.at /\ y.at \in Nat /\ o.at \in Nat
      BY <1>1, <3>1, <3>2, <3>3, <3>4 DEF Newest, ServeInv, MapTyped, MapRow
    <3> QED BY <3>2, <3>4, <3>5 DEF S, OffsetForProject
  <2> QED BY <2>1, <2>2, <2>3 DEF RowsServeFiles
<1> QED BY <1>1, ServeInvariant, PTL

-----------------------------------------------------------------------------
(* What the map shows belongs together. *)

Faultless == ~met /\ broken = 0

\* One run at a time, and none by hand.
Alone ==
    /\ \A q, r \in MapRuns : UnderWay(q) /\ UnderWay(r) => q = r
    /\ \A r \in MapRuns : step[r] # "updating"

\* The rows of the last transaction that has surfaces.
Last(r, key, grounded) ==
    /\ \E y \in Of("dsm") : y.at = clock - 1
    /\ \A x \in Of("dsm") : x.at = clock - 1 => x.run = r /\ x.key = key /\ x.grounded = grounded

\* What a run has stored is still there, and its surface is the newest until its buildings lie beside it.
Agreed(r) ==
    /\ \A t \in files[r] : object[KeyOf(r, t)] = ContentOf(r, t)
    /\ step[r] \in {"extracting", "marking"} =>
          Last(r, KeyOf(r, "dsm"), ContentOf(r, "dsm").relative)
    /\ step[r] = "marking" => object[Shared("footprints")].of = r
    /\ step[r] = "inserting" =>
          object[Shared("dsm_raw")] = File(r, FALSE) /\ object[Shared("footprints")].of = r

Shown ==
    \A x \in TerrainForProject :
        /\ object[x.key].of = x.run
        /\ object[x.key].relative => x.grounded
        /\ object[Shared("footprints")].of = x.run

AgreeInv ==
    Faultless => /\ Alone
                 /\ \A r \in MapRuns : UnderWay(r) => Agreed(r)
                 /\ Quiet => Shown

\* A step keeps the order: nothing is at once under way and by hand.
LEMMA AloneStep ==
    ASSUME ServeInv, Faultless => Alone, NEW r \in MapRuns, MapAct(r), Faultless'
    PROVE  /\ Faultless /\ Alone /\ Alone'
           /\ ~NormalizeDsm(r) /\ ~UpdateDsmRows(r) /\ ~Fail(r)
           /\ \A q \in MapRuns : UnderWay(q)' => q = r
           /\ Begin(r) \/ UnderWay(r)
<1>1. broken \in Nat /\ met \in BOOLEAN /\ step \in [MapRuns -> MapStep] /\ met' \in BOOLEAN
  BY OnlyItsOwn DEF ServeInv, MapTyped
<1>2. (met => met') /\ broken' \in {broken, broken + 1}
  <2>1. met => met'
    BY DEF MapAct, Begin, StoreFile, PublishRows, UploadRow, ExtractBuildings, MarkReal,
           StoreSynthetic, InsertSynthetic, NormalizeDsm, UpdateDsmRows, Fail
  <2> QED BY <2>1, OnlyItsOwn DEF ServeInv
<1>3. Faultless /\ Alone
  BY <1>1, <1>2 DEF Faultless
<1>4. ~NormalizeDsm(r) /\ ~UpdateDsmRows(r) /\ ~Fail(r)
  <2>1. NormalizeDsm(r) => met'
    BY DEF NormalizeDsm
  <2>2. UpdateDsmRows(r) => step[r] = "updating"
    BY DEF UpdateDsmRows
  <2>3. Fail(r) => broken' = broken + 1
    BY DEF Fail
  <2> QED BY <1>1, <1>3, <2>1, <2>2, <2>3 DEF Faultless, Alone
<1>5. Begin(r) => Quiet
  BY <1>1 DEF Begin, Faultless
<1>6. Begin(r) \/ UnderWay(r)
  BY <1>4 DEF MapAct, StoreFile, PublishRows, UploadRow, ExtractBuildings, MarkReal,
              StoreSynthetic, InsertSynthetic, UnderWay
<1>7. ASSUME NEW q \in MapRuns, UnderWay(q)' PROVE q = r
  BY <1>3, <1>5, <1>6, <1>7, OnlyItsOwn DEF UnderWay, Quiet, Alone, ServeInv
<1>8. step'[r] # "updating"
  <2>1. \/ Begin(r) /\ step'[r] = "storing"
        \/ StoreFile(r) /\ step' = step /\ step[r] = "storing"
        \/ step'[r] \in {"extracting", "generating", "marking", "inserting", "done"}
    BY <1>1, <1>4 DEF MapAct, Begin, StoreFile, PublishRows, UploadRow, ExtractBuildings,
              MarkReal, StoreSynthetic, InsertSynthetic, Goto
  <2> QED BY <2>1
<1>9. Alone'
  BY <1>3, <1>7, <1>8, OnlyItsOwn DEF Alone, ServeInv
<1> QED BY <1>3, <1>4, <1>6, <1>7, <1>9

\* The rows with the time of the transaction that ends are those the run has added.
LEMMA JustAdded ==
    ASSUME ServeInv, NEW r \in MapRuns, RowsGoOn(r), NEW y \in rows', y.at >= clock
    PROVE  NewRow(r, y)
<1>1. clock \in Nat /\ \A x \in rows : x.at \in Nat /\ x.at < clock
  BY DEF ServeInv, MapTyped, MapRow
<1>2. ASSUME NEW x \in rows, SameRow(x, y) PROVE FALSE
  BY <1>1, <1>2 DEF SameRow
<1> QED BY <1>2 DEF RowsGoOn

\* What a run has stored stays while only the follow-ups write.
LEMMA StaysStored ==
    ASSUME ServeInv, NEW r \in MapRuns, Agreed(r), files' = files, made' = made,
           \A k \in Keys \ {Shared("footprints"), Shared("dsm_raw")} : object'[k] = object[k]
    PROVE  \A t \in files'[r] : object'[KeyOf(r, t)'] = ContentOf(r, t)'
<1>1. ASSUME NEW t \in files[r]
      PROVE  object'[KeyOf(r, t)] = ContentOf(r, t)
  <2>1. t \in DroneTypes
    BY DEF ServeInv, MapTyped
  <2> QED BY <2>1, NamesAreKeys, KeysApart DEF Agreed
<1>2. \A t : KeyOf(r, t)' = KeyOf(r, t) /\ ContentOf(r, t)' = ContentOf(r, t)
  BY DEF KeyOf, ContentOf
<1> QED BY <1>1, <1>2

LEMMA StoreAgreed ==
    ASSUME ServeInv, NEW r \in MapRuns, Agreed(r), StoreFile(r)
    PROVE  Agreed(r)'
<1>1. PICK i \in DOMAIN Order :
         /\ object' = [object EXCEPT ![KeyOf(r, Order[i])] = ContentOf(r, Order[i])]
         /\ files' = [files EXCEPT ![r] = @ \cup {Order[i]}]
  BY DEF StoreFile
<1> DEFINE u == Order[i]
<1>2. /\ u \in DroneTypes /\ files'[r] = files[r] \cup {u} /\ files[r] \subseteq DroneTypes
      /\ object' = [object EXCEPT ![KeyOf(r, u)] = ContentOf(r, u)]
      /\ made' = made /\ step'[r] = "storing"
      /\ object \in [Keys -> MapFile]
  BY <1>1 DEF ServeInv, MapTyped, DroneTypes, StoreFile
<1> HIDE DEF u
<1>3. \A t : KeyOf(r, t)' = KeyOf(r, t) /\ ContentOf(r, t)' = ContentOf(r, t)
  BY <1>2 DEF KeyOf, ContentOf
<1>4. ASSUME NEW t \in files'[r] PROVE object'[KeyOf(r, t)] = ContentOf(r, t)
  <2>1. KeyOf(r, t) \in Keys /\ (KeyOf(r, t) = KeyOf(r, u) => t = u)
    BY <1>2, NamesAreKeys, KeysApart
  <2> QED BY <1>2, <2>1 DEF Agreed
<1> QED BY <1>2, <1>3, <1>4 DEF Agreed

LEMMA AgreedStep ==
    ASSUME MapAssumption, ServeInv, NEW r \in MapRuns, MapAct(r), UnderWay(r) => Agreed(r),
           ~NormalizeDsm(r), ~UpdateDsmRows(r), ~Fail(r)
    PROVE  /\ UnderWay(r)' => Agreed(r)'
           /\ (\A q \in MapRuns : UnderWay(q)' => q = r) /\ Quiet' => Shown'
<1>1. /\ RowsGoOn(r) /\ step \in [MapRuns -> MapStep] /\ object \in [Keys -> MapFile] /\ clock \in Nat
      /\ files[r] \subseteq DroneTypes /\ \A y \in rows' : y.at \in Nat /\ y.at < clock'
  BY RowsChange, RowsFilledStep DEF ServeInv, MapTyped, MapRow
<1>2. /\ Shared("footprints") \in Keys /\ Shared("dsm_raw") \in Keys
      /\ Shared("footprints") # Shared("dsm_raw")
  BY NamesAreKeys, OwnNames
<1>3. /\ \A t : ContentOf(r, t).of = r
      /\ ContentOf(r, "orthomosaic") = File(r, FALSE)
  BY DEF ContentOf, File
<1>4. CASE Begin(r)
  <2>1. step'[r] = "storing" /\ files'[r] = {}
    BY <1>1, <1>4 DEF Begin, Goto, ServeInv, Stored, InStep
  <2> QED BY <2>1 DEF Agreed, UnderWay, Quiet
<1>5. CASE StoreFile(r)
  <2>1. step'[r] = "storing" /\ step[r] = "storing"
    BY <1>5 DEF StoreFile
  <2> QED BY <1>5, <2>1, StoreAgreed DEF UnderWay, Quiet
<1>6. CASE PublishRows(r)
  <2>1. /\ step[r] = "storing" /\ files[r] = made[r] /\ UNCHANGED <<object, made, files>> /\ clock' = clock + 1
        /\ step'[r] = "generating" \/ (step'[r] = "extracting" /\ "dsm" \in made[r])
        /\ \A t \in made[r] : Row(r, t) \in rows'
    BY <1>1, <1>6 DEF PublishRows, Goto
  <2>2. Agreed(r) /\ UnderWay(r)'
    BY <2>1 DEF UnderWay
  <2>3. \A t \in files'[r] : object'[KeyOf(r, t)'] = ContentOf(r, t)'
    BY <2>1, <2>2, StaysStored
  <2>4. ASSUME "dsm" \in made[r]
        PROVE  Last(r, KeyOf(r, "dsm"), ContentOf(r, "dsm").relative)'
    <3>1. /\ KeyOf(r, "dsm")' = KeyOf(r, "dsm") /\ ContentOf(r, "dsm")' = ContentOf(r, "dsm")
          /\ clock' - 1 = clock
      BY <1>1, <2>1 DEF KeyOf, ContentOf
    <3>2. \E y \in rows' : y.type = "dsm" /\ y.at = clock
      <4>1. Row(r, "dsm").type = "dsm" /\ Row(r, "dsm").at = clock
        BY DEF Row
      <4> QED BY <2>1, <2>4, <4>1
    <3>3. ASSUME NEW y \in rows', y.type = "dsm", y.at = clock
          PROVE  y.run = r /\ y.key = KeyOf(r, "dsm") /\ y.grounded = ContentOf(r, "dsm").relative
      <4>1. NewRow(r, y)
        BY <1>1, <3>3, JustAdded
      <4> QED BY <2>1, <3>3, <4>1 DEF NewRow
    <3> QED BY <3>1, <3>2, <3>3 DEF Last, Of
  <2> QED BY <2>1, <2>2, <2>3, <2>4 DEF Agreed, Quiet
<1>7. CASE UploadRow(r)
  <2>1. step[r] = "storing" /\ UNCHANGED <<object, made, files>> /\ step'[r] = "generating"
    BY <1>1, <1>7 DEF UploadRow, Goto
  <2>2. Agreed(r) /\ UnderWay(r)'
    BY <2>1 DEF UnderWay
  <2>3. \A t \in files'[r] : object'[KeyOf(r, t)'] = ContentOf(r, t)'
    BY <2>1, <2>2, StaysStored
  <2> QED BY <2>1, <2>2, <2>3 DEF Agreed, Quiet
<1>8. CASE ExtractBuildings(r)
  <2>1. /\ step[r] = "extracting" /\ UNCHANGED <<rows, made, files, clock>> /\ step'[r] = "marking"
        /\ object' = [object EXCEPT ![Shared("footprints")] = File(object[KeyOf(r, "dsm")].of, FALSE)]
    BY <1>1, <1>8 DEF ExtractBuildings, Goto
  <2>2. Agreed(r) /\ UnderWay(r)' /\ "dsm" \in files[r]
    BY <2>1 DEF UnderWay, ServeInv, Stored, InStep
  <2>3. \A t \in files'[r] : object'[KeyOf(r, t)'] = ContentOf(r, t)'
    BY <1>1, <2>1, <2>2, StaysStored
  <2>4. object[KeyOf(r, "dsm")].of = r
    BY <1>3, <2>2 DEF Agreed
  <2>5. object'[Shared("footprints")].of = r
    BY <1>1, <1>2, <2>1, <2>4 DEF File
  <2>6. Last(r, KeyOf(r, "dsm"), ContentOf(r, "dsm").relative)'
    <3>1. Last(r, KeyOf(r, "dsm"), ContentOf(r, "dsm").relative)
      BY <2>1, <2>2 DEF Agreed
    <3> QED BY <2>1, <3>1 DEF Last, KeyOf, ContentOf, Of
  <2> QED BY <2>1, <2>2, <2>3, <2>5, <2>6 DEF Agreed, Quiet
<1>9. CASE MarkReal(r)
  <2>1. step[r] = "marking" /\ UNCHANGED <<object, made, files, clock>> /\ step'[r] = "done"
    BY <1>1, <1>9 DEF MarkReal, Goto
  <2>2. Agreed(r) /\ "dsm" \in files[r]
    BY <2>1 DEF UnderWay, ServeInv, Stored, InStep
  <2>3. /\ object[KeyOf(r, "dsm")] = ContentOf(r, "dsm") /\ object[Shared("footprints")].of = r
        /\ Last(r, KeyOf(r, "dsm"), ContentOf(r, "dsm").relative)
    BY <2>1, <2>2 DEF Agreed
  <2>4. ASSUME NEW x \in TerrainForProject'
        PROVE  /\ object'[x.key].of = x.run
               /\ object'[x.key].relative => x.grounded
               /\ object'[Shared("footprints")].of = x.run
    <3>1. x \in rows' /\ x.type = "dsm" /\ \A y \in rows' : y.type = "dsm" => y.at <= x.at
      BY DEF TerrainForProject, Newest, Of
    <3>2. PICK y \in rows : y.type = "dsm" /\ y.at = clock - 1
      BY <2>3 DEF Last, Of
    <3>3. PICK z \in rows' : SameRow(y, z)
      BY <1>1 DEF RowsGoOn
    <3>4. x.at = clock - 1
      BY <1>1, <2>1, <3>1, <3>2, <3>3 DEF SameRow
    <3>5. PICK w \in rows : SameRow(w, x) /\ w.key = x.key
      BY <1>1, <2>1, <3>1 DEF RowsGoOn, NewRow, Renamed
    <3>6. w.run = r /\ w.key = KeyOf(r, "dsm") /\ w.grounded = ContentOf(r, "dsm").relative
      BY <2>3, <3>1, <3>4, <3>5 DEF Last, Of, SameRow
    <3> QED BY <1>3, <2>1, <2>3, <3>5, <3>6 DEF SameRow
  <2> QED BY <2>1, <2>4 DEF Shown, UnderWay
<1>10. CASE StoreSynthetic(r)
  <2>1. /\ step[r] = "generating" /\ UNCHANGED <<rows, made, files, clock>> /\ step'[r] = "inserting"
        /\ object' = [object EXCEPT ![Shared("dsm_raw")] = object[KeyOf(r, "orthomosaic")],
                                    ![Shared("footprints")] = object[KeyOf(r, "orthomosaic")]]
    BY <1>1, <1>10 DEF StoreSynthetic, Goto
  <2>2. Agreed(r) /\ UnderWay(r)' /\ "orthomosaic" \in files[r]
    BY <2>1 DEF UnderWay, ServeInv, Stored, InStep
  <2>3. \A t \in files'[r] : object'[KeyOf(r, t)'] = ContentOf(r, t)'
    BY <1>1, <2>1, <2>2, StaysStored
  <2>4. object[KeyOf(r, "orthomosaic")] = File(r, FALSE)
    BY <1>3, <2>2 DEF Agreed
  <2>5. object'[Shared("dsm_raw")] = File(r, FALSE) /\ object'[Shared("footprints")] = File(r, FALSE)
    BY <1>1, <1>2, <2>1, <2>4
  <2>6. File(r, FALSE).of = r
    BY DEF File
  <2> QED BY <2>1, <2>2, <2>3, <2>5, <2>6 DEF Agreed, Quiet
<1>11. CASE InsertSynthetic(r)
  <2>1. /\ step[r] = "inserting" /\ object' = object /\ step'[r] = "done"
    BY <1>1, <1>11 DEF InsertSynthetic, Goto
  <2>2. object[Shared("dsm_raw")] = File(r, FALSE) /\ object[Shared("footprints")].of = r
    BY <2>1 DEF UnderWay, Agreed
  <2>3. ASSUME NEW x \in TerrainForProject'
        PROVE  /\ object'[x.key].of = x.run
               /\ object'[x.key].relative => x.grounded
               /\ object'[Shared("footprints")].of = x.run
    <3>1. x \in rows' /\ \A y \in rows' : y.type = "dsm" => y.at <= x.at
      BY DEF TerrainForProject, Newest, Of
    <3>2. x.at >= clock
      <4> DEFINE z == [run |-> r, flight |-> FlightOf[r], type |-> "dsm", key |-> Shared("dsm_raw"), at |-> clock,
                       active |-> TRUE, source |-> "synthetic", grounded |-> FALSE]
      <4>1. z \in rows' /\ z.type = "dsm" /\ z.at = clock
        BY <1>11 DEF InsertSynthetic
      <4> HIDE DEF z
      <4> QED BY <1>1, <3>1, <4>1
    <3>3. NewRow(r, x)
      BY <1>1, <3>1, <3>2, JustAdded
    <3> QED BY <2>1, <2>2, <3>3 DEF NewRow, File
  <2> QED BY <2>1, <2>3 DEF Shown, UnderWay
<1> QED BY <1>4, <1>5, <1>6, <1>7, <1>8, <1>9, <1>10, <1>11 DEF MapAct

LEMMA AgreeStep ==
    ASSUME MapAssumption, ServeInv, AgreeInv, NEW r \in MapRuns, MapAct(r)
    PROVE  AgreeInv'
<1> SUFFICES ASSUME Faultless'
             PROVE  /\ Alone'
                    /\ \A q \in MapRuns : UnderWay(q)' => Agreed(q)'
                    /\ Quiet' => Shown'
  BY DEF AgreeInv
<1>1. /\ Faultless /\ Alone /\ Alone' /\ ~NormalizeDsm(r) /\ ~UpdateDsmRows(r) /\ ~Fail(r)
      /\ \A q \in MapRuns : UnderWay(q)' => q = r
  BY AloneStep DEF AgreeInv
<1>2. UnderWay(r) => Agreed(r)
  BY <1>1 DEF AgreeInv
<1> QED BY <1>1, <1>2, AgreedStep

\* However many runs there are: when none failed, no two met and none was normalised by hand, the
\* terrain is that of the newest run, lowered by its own minimum, with the buildings of that run.
THEOREM MapBelongsTogether == ASSUME MapAssumption PROVE MapSpec => []MapAgrees
<1>1. MapInit => AgreeInv
  BY DEF MapInit, AgreeInv, Alone, UnderWay, Shown, TerrainForProject, Newest, Of
<1>2. ServeInv /\ AgreeInv /\ [MapNext]_mapVars => AgreeInv'
  <2>1. ASSUME AgreeInv, UNCHANGED mapVars PROVE AgreeInv'
    <3>1. UNCHANGED <<object, rows, step, made, files, clock, met, broken>>
      BY <2>1 DEF mapVars
    <3>2. /\ Faultless' = Faultless /\ Alone' = Alone /\ Quiet' = Quiet
          /\ \A q \in MapRuns : UnderWay(q)' = UnderWay(q)
      BY <3>1 DEF Faultless, Alone, UnderWay, Quiet
    <3>3. ASSUME NEW q \in MapRuns PROVE Agreed(q)' = Agreed(q)
      BY <3>1 DEF Agreed, Last, KeyOf, ContentOf, Of
    <3>4. Shown' = Shown
      BY <3>1 DEF Shown, TerrainForProject, Newest, Of
    <3> QED BY <2>1, <3>2, <3>3, <3>4 DEF AgreeInv
  <2> QED BY <2>1, AgreeStep, MapSteps
<1>3. ServeInv /\ AgreeInv => MapAgrees
  <2> SUFFICES ASSUME ServeInv, AgreeInv, Quiet, ~met, broken = 0, NEW x \in TerrainForProject
               PROVE  /\ TerrainTile(x) = [surface |-> x.run, flat |-> FALSE]
                      /\ BuildingsForProject = x.run
                      /\ \A o \in OfFlight(x.flight, "orthomosaic") : x \in TerrainForOrthomosaic(o)
    BY DEF MapAgrees
  <2>1. /\ object[x.key].of = x.run /\ (object[x.key].relative => x.grounded)
        /\ object[Shared("footprints")].of = x.run
    BY DEF AgreeInv, Faultless, Shown
  <2>2. x \in rows /\ x.type = "dsm" /\ x.run # "none" /\ \A y \in Of("dsm") : y.at <= x.at
    BY DEF TerrainForProject, Newest, Of, ServeInv, MapTyped, MapRow, MapAssumption
  <2>3. TerrainTile(x) = [surface |-> x.run, flat |-> FALSE]
    <3>1. (object[x.key].relative /\ ~x.grounded) = FALSE
      BY <2>1
    <3> QED BY <2>1, <3>1 DEF TerrainTile
  <2>4. BuildingsForProject = x.run
    <3>1. Of("dsm") # {} /\ Nothing.of = "none"
      BY <2>2 DEF Of, Nothing, File
    <3> QED BY <2>1, <2>2, <3>1 DEF BuildingsForProject
  <2>5. \A o \in OfFlight(x.flight, "orthomosaic") : x \in TerrainForOrthomosaic(o)
    BY <2>2 DEF OfFlight, TerrainForOrthomosaic, Newest, Of
  <2> QED BY <2>3, <2>4, <2>5
<1> QED BY <1>1, <1>2, <1>3, ServeInvariant, PTL DEF MapSpec
=============================================================================
