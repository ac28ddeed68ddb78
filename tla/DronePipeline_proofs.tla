------------------------- MODULE DronePipeline_proofs -------------------------
(***************************************************************************)
(* For any number of jobs, uploads, flights, retries and lost workers: the *)
(* NodeODM task of a job sent with a flight goes after its orthomosaic is  *)
(* registered, the transactions of one upload leave one active row of a    *)
(* type in a flight, and a completed flight keeps an active orthomosaic.   *)
(* For any number of streams and events: what a    *)
(* stream relays of the progress of a job is newer than all it has sent.   *)
(***************************************************************************)
EXTENDS DronePipeline, ProgressStream, SequenceTheorems, TLAPS

Carrying == {"downloaded", "updating", "replacing", "published", "followed", "done"}

\* An attempt starts without a NodeODM task, and the one it submits is its own.
OwnTask ==
    \A j \in Jobs :
        /\ stage[j] \in {"queued", "started"} => task[j] = NoTask
        /\ stage[j] = "submitted" => task[j] # NoTask
        /\ task[j] # NoTask => task[j] \in OdmTasks /\ task[j][1] = j
        /\ have[j] # {} => task[j] # NoTask

\* Past the download of a real run there is an orthomosaic; no run is a simulation unless
\* that is allowed.
HasOrthomosaic ==
    \A j \in Jobs : stage[j] \in Carrying =>
        /\ task[j] # NoTask /\ "orthomosaic" \in Produced => "orthomosaic" \in have[j]
        /\ ~AllowSimulation => task[j] # NoTask

\* Every attempt but the first follows one that was retried or redelivered.
AttemptsCounted ==
    \A j \in Jobs :
        odmTask[j] <= setbacks + (IF stage[j] \in {"queued", "started"} THEN 0 ELSE 1)

\* What a transaction has committed is there, and only jobs sent with a flight have rows.
Registered ==
    /\ \A j \in Jobs : stage[j] \in {"published", "followed"} => RowsOf(j) \subseteq rows
    /\ \A r \in rows : FlightOf(r[2][1]) # NoFlight

\* The row lock of the upload keeps its transactions apart.
Apart == \A j, k \in Jobs : j # k /\ InTransaction(j) /\ InTransaction(k) => UploadOf(j) # UploadOf(k)

\* What a transaction deactivates is of its types and its flight, and misses no row of its
\* upload in its flight.
FoundRight ==
    \A j \in Jobs :
        /\ \A r \in found[j] : r[1] \in have[j] /\ FlightOf(r[2][1]) = FlightOf(j)
        /\ stage[j] # "replacing" => found[j] = {}
        /\ stage[j] = "replacing" =>
              \A r \in active :
                  /\ r[1] \in have[j]
                  /\ UploadOf(r[2][1]) = UploadOf(j) /\ FlightOf(r[2][1]) = FlightOf(j)
                  => r \in found[j]

\* A transaction publishes what its attempt has put into the bucket.
InBucket ==
    /\ \A j \in Jobs :
          /\ stage[j] \in {"updating", "replacing", "published", "followed"} => stored[j] = have[j]
          /\ \A a \in stored[j] : object[<<Folder(j), a>>] # NoTask
    /\ \A r \in rows : object[<<"project", r[1]>>] # NoTask

IInv ==
    /\ TypeOK /\ OwnTask /\ HasOrthomosaic /\ AttemptsCounted /\ Registered /\ Apart /\ FoundRight
    /\ InBucket /\ OrthomosaicNotLost /\ OneActivePerUpload /\ CompletedHasOrthomosaic

LEMMA InitIInv == Init => IInv
<1> SUFFICES ASSUME Init PROVE IInv
  OBVIOUS
<1> USE DronePipelineAssumption DEF Init
<1>1. TypeOK
  BY DEF TypeOK, Stages, NoTask
<1>2. OwnTask /\ HasOrthomosaic /\ AttemptsCounted /\ Registered
  BY DEF OwnTask, HasOrthomosaic, AttemptsCounted, Registered, Carrying
<1>3. Apart /\ FoundRight /\ InBucket
  BY DEF Apart, FoundRight, InTransaction, InBucket
<1>4. OrthomosaicNotLost /\ OneActivePerUpload /\ CompletedHasOrthomosaic
  BY DEF OrthomosaicNotLost, OneActivePerUpload, CompletedHasOrthomosaic
<1> QED BY <1>1, <1>2, <1>3, <1>4 DEF IInv

\* Stages 1 to 5 change what the attempt is about to publish, and nothing that is published.
LEMMA StartAttemptIInv == ASSUME IInv, NEW j \in Jobs, StartAttempt(j) PROVE IInv'
<1> USE DronePipelineAssumption
    DEF IInv, TypeOK, UploadOf, FlightOf, Folder, Folders, StartAttempt, Goto, attemptVars,
        localVars, odmVars, dbVars, followVars
<1>1. TypeOK'
  BY DEF Stages, RowsOf, OwnTask, AttemptsCounted, OdmTasks
<1>2. (OwnTask /\ HasOrthomosaic /\ AttemptsCounted)'
  BY DEF OwnTask, HasOrthomosaic, AttemptsCounted, Carrying, OdmTasks, NoTask, FoundRight
<1>3. (Registered /\ Apart /\ FoundRight /\ InBucket)'
  <2>1. Registered'
    BY DEF Registered, RowsOf, OwnTask
  <2>2. Apart'
    BY DEF Apart, InTransaction
  <2>3. FoundRight'
    BY DEF FoundRight
  <2>4. InBucket'
    BY DEF InBucket, Registered, OwnTask, NoTask, OdmTasks
  <2> QED BY <2>1, <2>2, <2>3, <2>4
<1>4. (OrthomosaicNotLost /\ OneActivePerUpload /\ CompletedHasOrthomosaic)'
  BY DEF OrthomosaicNotLost, OneActivePerUpload, CompletedHasOrthomosaic,
         Registered, RowsOf, HasOrthomosaic, Carrying, InBucket
<1> QED BY <1>1, <1>2, <1>3, <1>4

LEMMA SubmitOdmIInv == ASSUME IInv, NEW j \in Jobs, SubmitOdm(j) PROVE IInv'
<1> USE DronePipelineAssumption
    DEF IInv, TypeOK, UploadOf, FlightOf, Folder, Folders, SubmitOdm, Goto, attemptVars,
        localVars, odmVars, dbVars, followVars
<1>1. TypeOK'
  BY DEF Stages, RowsOf, OwnTask, AttemptsCounted, OdmTasks
<1>2. (OwnTask /\ HasOrthomosaic /\ AttemptsCounted)'
  BY DEF OwnTask, HasOrthomosaic, AttemptsCounted, Carrying, OdmTasks, NoTask, FoundRight
<1>3. (Registered /\ Apart /\ FoundRight /\ InBucket)'
  <2>1. Registered'
    BY DEF Registered, RowsOf, OwnTask
  <2>2. Apart'
    BY DEF Apart, InTransaction
  <2>3. FoundRight'
    BY DEF FoundRight
  <2>4. InBucket'
    BY DEF InBucket, Registered, OwnTask, NoTask, OdmTasks
  <2> QED BY <2>1, <2>2, <2>3, <2>4
<1>4. (OrthomosaicNotLost /\ OneActivePerUpload /\ CompletedHasOrthomosaic)'
  BY DEF OrthomosaicNotLost, OneActivePerUpload, CompletedHasOrthomosaic,
         Registered, RowsOf, HasOrthomosaic, Carrying, InBucket
<1> QED BY <1>1, <1>2, <1>3, <1>4

LEMMA SimulateOrGiveUpIInv == ASSUME IInv, NEW j \in Jobs, SimulateOrGiveUp(j) PROVE IInv'
<1> USE DronePipelineAssumption
    DEF IInv, TypeOK, UploadOf, FlightOf, Folder, Folders, SimulateOrGiveUp, Goto,
        attemptVars, localVars, odmVars, dbVars, followVars
<1>1. TypeOK'
  BY DEF Stages, RowsOf, OwnTask, AttemptsCounted, OdmTasks
<1>2. (OwnTask /\ HasOrthomosaic /\ AttemptsCounted)'
  BY DEF OwnTask, HasOrthomosaic, AttemptsCounted, Carrying, OdmTasks, NoTask, FoundRight
<1>3. (Registered /\ Apart /\ FoundRight /\ InBucket)'
  <2>1. Registered'
    BY DEF Registered, RowsOf, OwnTask
  <2>2. Apart'
    BY DEF Apart, InTransaction
  <2>3. FoundRight'
    BY DEF FoundRight
  <2>4. InBucket'
    BY DEF InBucket, Registered, OwnTask, NoTask, OdmTasks
  <2> QED BY <2>1, <2>2, <2>3, <2>4
<1>4. (OrthomosaicNotLost /\ OneActivePerUpload /\ CompletedHasOrthomosaic)'
  BY DEF OrthomosaicNotLost, OneActivePerUpload, CompletedHasOrthomosaic,
         Registered, RowsOf, HasOrthomosaic, Carrying, InBucket
<1> QED BY <1>1, <1>2, <1>3, <1>4

LEMMA OdmFinishesIInv == ASSUME IInv, NEW t \in OdmTasks, OdmFinishes(t) PROVE IInv'
<1> USE DronePipelineAssumption
    DEF IInv, TypeOK, UploadOf, FlightOf, Folder, Folders, OdmFinishes, attemptVars,
        localVars, odmVars, dbVars, followVars
<1>1. TypeOK'
  BY DEF Stages, RowsOf, OwnTask, AttemptsCounted, OdmTasks
<1>2. (OwnTask /\ HasOrthomosaic /\ AttemptsCounted)'
  BY DEF OwnTask, HasOrthomosaic, AttemptsCounted, Carrying, OdmTasks, NoTask, FoundRight
<1>3. (Registered /\ Apart /\ FoundRight /\ InBucket)'
  <2>1. Registered'
    BY DEF Registered, RowsOf, OwnTask
  <2>2. Apart'
    BY DEF Apart, InTransaction
  <2>3. FoundRight'
    BY DEF FoundRight
  <2>4. InBucket'
    BY DEF InBucket, Registered, OwnTask, NoTask, OdmTasks
  <2> QED BY <2>1, <2>2, <2>3, <2>4
<1>4. (OrthomosaicNotLost /\ OneActivePerUpload /\ CompletedHasOrthomosaic)'
  BY DEF OrthomosaicNotLost, OneActivePerUpload, CompletedHasOrthomosaic,
         Registered, RowsOf, HasOrthomosaic, Carrying, InBucket
<1> QED BY <1>1, <1>2, <1>3, <1>4

LEMMA DownloadResultsIInv == ASSUME IInv, NEW j \in Jobs, DownloadResults(j) PROVE IInv'
<1> USE DronePipelineAssumption
    DEF IInv, TypeOK, UploadOf, FlightOf, Folder, Folders, DownloadResults, Goto,
        WithFallback, attemptVars, localVars, odmVars, dbVars, followVars
<1>1. TypeOK'
  BY DEF Stages, RowsOf, OwnTask, AttemptsCounted, OdmTasks
<1>2. (OwnTask /\ HasOrthomosaic /\ AttemptsCounted)'
  BY DEF OwnTask, HasOrthomosaic, AttemptsCounted, Carrying, OdmTasks, NoTask, FoundRight
<1>3. (Registered /\ Apart /\ FoundRight /\ InBucket)'
  <2>1. Registered'
    BY DEF Registered, RowsOf, OwnTask
  <2>2. Apart'
    BY DEF Apart, InTransaction
  <2>3. FoundRight'
    BY DEF FoundRight
  <2>4. InBucket'
    BY DEF InBucket, Registered, OwnTask, NoTask, OdmTasks
  <2> QED BY <2>1, <2>2, <2>3, <2>4
<1>4. (OrthomosaicNotLost /\ OneActivePerUpload /\ CompletedHasOrthomosaic)'
  BY DEF OrthomosaicNotLost, OneActivePerUpload, CompletedHasOrthomosaic,
         Registered, RowsOf, HasOrthomosaic, Carrying, InBucket
<1> QED BY <1>1, <1>2, <1>3, <1>4

\* The objects carry no promise, so overwriting one breaks none.
LEMMA StoreAssetIInv == ASSUME IInv, NEW j \in Jobs, NEW a \in Assets, StoreAsset(j, a) PROVE IInv'
<1> USE DronePipelineAssumption
    DEF IInv, TypeOK, UploadOf, FlightOf, Folder, Folders, StoreAsset, attemptVars, localVars,
        odmVars, dbVars, followVars
<1>1. TypeOK'
  BY DEF Stages, RowsOf, OwnTask, AttemptsCounted, OdmTasks
<1>2. (OwnTask /\ HasOrthomosaic /\ AttemptsCounted)'
  BY DEF OwnTask, HasOrthomosaic, AttemptsCounted, Carrying, OdmTasks, NoTask, FoundRight
<1>3. (Registered /\ Apart /\ FoundRight /\ InBucket)'
  <2>1. Registered'
    BY DEF Registered, RowsOf, OwnTask
  <2>2. Apart'
    BY DEF Apart, InTransaction
  <2>3. FoundRight'
    BY DEF FoundRight
  <2>4. InBucket'
    BY DEF InBucket, Registered, OwnTask, NoTask, OdmTasks
  <2> QED BY <2>1, <2>2, <2>3, <2>4
<1>4. (OrthomosaicNotLost /\ OneActivePerUpload /\ CompletedHasOrthomosaic)'
  <2>1. \A p \in Folders \X Assets : object[p] # NoTask => object'[p] # NoTask
    BY DEF OwnTask
  <2>2. OrthomosaicNotLost' /\ CompletedHasOrthomosaic'
    BY <2>1 DEF OrthomosaicNotLost, CompletedHasOrthomosaic, Assets
  <2>3. OneActivePerUpload'
    BY DEF OneActivePerUpload
  <2> QED BY <2>2, <2>3
<1> QED BY <1>1, <1>2, <1>3, <1>4

\* The row lock: whoever enters finds no other transaction of its upload.
LEMMA UpdateUploadIInv == ASSUME IInv, NEW j \in Jobs, UpdateUpload(j) PROVE IInv'
<1> USE DronePipelineAssumption
    DEF IInv, TypeOK, UploadOf, FlightOf, Folder, Folders, UpdateUpload, Goto, UploadRowFree,
        attemptVars, localVars, odmVars, dbVars, followVars
<1>1. TypeOK'
  BY DEF Stages, RowsOf, OwnTask, AttemptsCounted, OdmTasks
<1>2. (OwnTask /\ HasOrthomosaic /\ AttemptsCounted)'
  BY DEF OwnTask, HasOrthomosaic, AttemptsCounted, Carrying, OdmTasks, NoTask, FoundRight
<1>3. (Registered /\ Apart /\ FoundRight /\ InBucket)'
  <2>1. Registered'
    BY DEF Registered, RowsOf, OwnTask
  <2>2. Apart'
    BY DEF Apart, InTransaction
  <2>3. FoundRight'
    BY DEF FoundRight
  <2>4. InBucket'
    BY DEF InBucket, Registered, OwnTask, NoTask, OdmTasks
  <2> QED BY <2>1, <2>2, <2>3, <2>4
<1>4. (OrthomosaicNotLost /\ OneActivePerUpload /\ CompletedHasOrthomosaic)'
  BY DEF OrthomosaicNotLost, OneActivePerUpload, CompletedHasOrthomosaic,
         Registered, RowsOf, HasOrthomosaic, Carrying, InBucket
<1> QED BY <1>1, <1>2, <1>3, <1>4

\* The UPDATE misses no row of the upload, and none can be added before the commit.
LEMMA ReplaceAssetsIInv == ASSUME IInv, NEW j \in Jobs, ReplaceAssets(j) PROVE IInv'
<1> USE DronePipelineAssumption
    DEF IInv, TypeOK, UploadOf, FlightOf, Folder, Folders, ReplaceAssets, Goto, FoundBy,
        attemptVars, localVars, odmVars, dbVars, followVars
<1>1. TypeOK'
  BY DEF Stages, RowsOf, OwnTask, AttemptsCounted, OdmTasks
<1>2. (OwnTask /\ HasOrthomosaic /\ AttemptsCounted)'
  BY DEF OwnTask, HasOrthomosaic, AttemptsCounted, Carrying, OdmTasks, NoTask, FoundRight
<1>3. (Registered /\ Apart /\ FoundRight /\ InBucket)'
  <2>1. Registered'
    BY DEF Registered, RowsOf, OwnTask
  <2>2. Apart'
    BY DEF Apart, InTransaction
  <2>3. FoundRight'
    BY DEF FoundRight, Registered
  <2>4. InBucket'
    BY DEF InBucket, Registered, OwnTask, NoTask, OdmTasks
  <2> QED BY <2>1, <2>2, <2>3, <2>4
<1>4. (OrthomosaicNotLost /\ OneActivePerUpload /\ CompletedHasOrthomosaic)'
  BY DEF OrthomosaicNotLost, OneActivePerUpload, CompletedHasOrthomosaic,
         Registered, RowsOf, HasOrthomosaic, Carrying, InBucket
<1> QED BY <1>1, <1>2, <1>3, <1>4

\* The new rows take the place of those found, of the same types and the same flight.
LEMMA CommitRecordsIInv == ASSUME IInv, NEW j \in Jobs, CommitRecords(j) PROVE IInv'
<1> USE DronePipelineAssumption
    DEF IInv, TypeOK, UploadOf, FlightOf, Folder, Folders, CommitRecords, Goto, attemptVars,
        localVars, odmVars, dbVars, followVars
<1>a. RowsOf(j) \subseteq Produced \X OdmTasks
  BY DEF RowsOf, OwnTask
<1>b. \A r \in RowsOf(j) :
          r[1] \in have[j] /\ r[2] = task[j] /\ r[2][1] = j /\ FlightOf(j) # NoFlight
  BY DEF RowsOf, OwnTask
<1>c. FlightOf(j) # NoFlight => \A a \in have[j] : <<a, task[j]>> \in RowsOf(j)
  BY DEF RowsOf
<1>1. TypeOK'
  <2>1. rows' \in SUBSET (Assets \X OdmTasks) /\ active' \in SUBSET rows'
    BY <1>a
  <2>2. found' \in [Jobs -> SUBSET rows']
    OBVIOUS
  <2> QED BY <2>1, <2>2 DEF Stages
<1>2. OwnTask'
  BY DEF OwnTask, OdmTasks, AttemptsCounted, NoTask, FoundRight
<1>3. HasOrthomosaic'
  BY DEF HasOrthomosaic, Carrying, OwnTask, NoTask
<1>4. AttemptsCounted'
  BY DEF AttemptsCounted
<1>5. Registered'
  BY <1>b DEF Registered, RowsOf
<1>6. Apart'
  BY DEF Apart, InTransaction
<1>7. FoundRight'
  <2> SUFFICES ASSUME NEW k \in Jobs, k # j, stage[k] = "replacing", NEW r \in active',
                      r[1] \in have[k], UploadOf(r[2][1]) = UploadOf(k), FlightOf(r[2][1]) = FlightOf(k)
               PROVE  r \in found[k]
    BY DEF FoundRight
  <2>1. r \notin RowsOf(j)
    BY <1>b DEF Apart, InTransaction
  <2> QED BY <2>1 DEF FoundRight
<1>8. OrthomosaicNotLost'
  BY DEF OrthomosaicNotLost, Registered, RowsOf, HasOrthomosaic, Carrying
<1>9. OneActivePerUpload'
  <2> SUFFICES ASSUME NEW r \in active', NEW t \in active', r[1] = t[1], r # t,
                      FlightOf(r[2][1]) = FlightOf(t[2][1]), UploadOf(r[2][1]) = UploadOf(t[2][1])
               PROVE  FALSE
    BY DEF OneActivePerUpload
  <2>1. CASE r \in RowsOf(j) /\ t \in RowsOf(j)
    BY <2>1, <1>a, <1>b
  <2>2. CASE r \in RowsOf(j) /\ t \notin RowsOf(j)
    BY <2>2, <1>b DEF FoundRight
  <2>3. CASE r \notin RowsOf(j) /\ t \in RowsOf(j)
    BY <2>3, <1>b DEF FoundRight
  <2>4. CASE r \notin RowsOf(j) /\ t \notin RowsOf(j)
    BY <2>4 DEF OneActivePerUpload
  <2> QED BY <2>1, <2>2, <2>3, <2>4
<1>10. InBucket'
  BY DEF InBucket, RowsOf
<1>11. CompletedHasOrthomosaic'
  <2> SUFFICES ASSUME "orthomosaic" \in Produced, ~AllowSimulation,
                      NEW f \in Flights, flight'[f] = "completed"
               PROVE  \E r \in active' :
                          /\ r[1] = "orthomosaic" /\ FlightOf(r[2][1]) = f
                          /\ object'[<<"project", "orthomosaic">>] # NoTask
    BY DEF CompletedHasOrthomosaic, FlightOf
  <2>1. CASE f = FlightOf(j)
    <3>1. "orthomosaic" \in have[j] /\ task[j][1] = j
      BY DEF HasOrthomosaic, Carrying, OwnTask
    <3>2. <<"orthomosaic", task[j]>> \in active'
      BY <2>1, <3>1, <1>c
    <3> QED BY <2>1, <3>1, <3>2, <1>10 DEF InBucket
  <2>2. CASE f # FlightOf(j)
    <3>1. PICK r \in active : r[1] = "orthomosaic" /\ FlightOf(r[2][1]) = f
      BY <2>2 DEF CompletedHasOrthomosaic, FlightOf
    <3>2. r \notin found[j]
      BY <2>2, <3>1 DEF FoundRight
    <3> QED BY <3>1, <3>2, <1>10 DEF InBucket
  <2> QED BY <2>1, <2>2
<1> QED BY <1>1, <1>2, <1>3, <1>4, <1>5, <1>6, <1>7, <1>8, <1>9, <1>11, <1>10

\* After the commit only the NodeODM task goes, and its rows are there.
LEMMA QueueFollowUpIInv == ASSUME IInv, NEW j \in Jobs, QueueFollowUp(j) PROVE IInv'
<1> USE DronePipelineAssumption
    DEF IInv, TypeOK, UploadOf, FlightOf, Folder, Folders, QueueFollowUp, Goto, attemptVars,
        localVars, odmVars, dbVars, followVars
<1>1. TypeOK'
  <2>1. stage' \in [Jobs -> Stages]
    BY DEF Stages
  <2>2. followUp' \in [Jobs -> {"none", "queued", "ended"}]
    OBVIOUS
  <2> QED BY <2>1, <2>2
<1>2. (OwnTask /\ HasOrthomosaic /\ AttemptsCounted)'
  BY DEF OwnTask, HasOrthomosaic, AttemptsCounted, Carrying, OdmTasks, NoTask, FoundRight
<1>3. (Registered /\ Apart /\ FoundRight /\ InBucket)'
  <2>1. Registered'
    BY DEF Registered, RowsOf, OwnTask
  <2>2. Apart'
    BY DEF Apart, InTransaction
  <2>3. FoundRight'
    BY DEF FoundRight
  <2>4. InBucket'
    BY DEF InBucket, Registered, OwnTask, NoTask, OdmTasks
  <2> QED BY <2>1, <2>2, <2>3, <2>4
<1>4. (OrthomosaicNotLost /\ OneActivePerUpload /\ CompletedHasOrthomosaic)'
  BY DEF OrthomosaicNotLost, OneActivePerUpload, CompletedHasOrthomosaic,
         Registered, RowsOf, HasOrthomosaic, Carrying, InBucket
<1> QED BY <1>1, <1>2, <1>3, <1>4

LEMMA RemoveOdmIInv == ASSUME IInv, NEW j \in Jobs, RemoveOdm(j) PROVE IInv'
<1> USE DronePipelineAssumption
    DEF IInv, TypeOK, UploadOf, FlightOf, Folder, Folders, RemoveOdm, Goto, attemptVars,
        localVars, odmVars, dbVars, followVars
<1>1. TypeOK'
  BY DEF Stages, RowsOf, OwnTask, AttemptsCounted, OdmTasks
<1>2. (OwnTask /\ HasOrthomosaic /\ AttemptsCounted)'
  BY DEF OwnTask, HasOrthomosaic, AttemptsCounted, Carrying, OdmTasks, NoTask, FoundRight
<1>3. (Registered /\ Apart /\ FoundRight /\ InBucket)'
  <2>1. Registered'
    BY DEF Registered, RowsOf, OwnTask
  <2>2. Apart'
    BY DEF Apart, InTransaction
  <2>3. FoundRight'
    BY DEF FoundRight
  <2>4. InBucket'
    BY DEF InBucket, Registered, OwnTask, NoTask, OdmTasks
  <2> QED BY <2>1, <2>2, <2>3, <2>4
<1>4. (OrthomosaicNotLost /\ OneActivePerUpload /\ CompletedHasOrthomosaic)'
  <2>1. OrthomosaicNotLost'
    <3> SUFFICES ASSUME "orthomosaic" \in Produced, NEW t \in OdmTasks, odm'[t] = "removed"
                 PROVE  IF FlightOf(t[1]) = NoFlight THEN object[<<"unknown", "orthomosaic">>] # NoTask
                        ELSE <<"orthomosaic", t>> \in rows
      BY DEF OrthomosaicNotLost
    <3>1. CASE odm[t] = "removed"
      BY <3>1 DEF OrthomosaicNotLost
    <3>2. CASE odm[t] # "removed"
      <4>1. t = task[j] /\ t # NoTask /\ t[1] = j
        BY <3>2 DEF OwnTask
      <4>2. "orthomosaic" \in have[j] /\ stored[j] = have[j]
        BY <4>1 DEF HasOrthomosaic, Carrying, InBucket
      <4>3. object[<<Folder(j), "orthomosaic">>] # NoTask
        BY <4>2 DEF InBucket
      <4>4. FlightOf(j) # NoFlight => <<"orthomosaic", t>> \in rows
        BY <4>1, <4>2 DEF Registered, RowsOf
      <4> QED BY <4>1, <4>3, <4>4
    <3> QED BY <3>1, <3>2
  <2>2. OneActivePerUpload' /\ CompletedHasOrthomosaic'
    BY DEF OneActivePerUpload, CompletedHasOrthomosaic
  <2> QED BY <2>1, <2>2
<1> QED BY <1>1, <1>2, <1>3, <1>4

LEMMA RunFollowUpIInv == ASSUME IInv, NEW j \in Jobs, RunFollowUp(j) PROVE IInv'
<1> USE DronePipelineAssumption
    DEF IInv, TypeOK, UploadOf, FlightOf, Folder, Folders, RunFollowUp, attemptVars,
        localVars, odmVars, dbVars, followVars
<1>1. TypeOK'
  BY DEF Stages, RowsOf, OwnTask, AttemptsCounted, OdmTasks
<1>2. (OwnTask /\ HasOrthomosaic /\ AttemptsCounted)'
  BY DEF OwnTask, HasOrthomosaic, AttemptsCounted, Carrying, OdmTasks, NoTask, FoundRight
<1>3. (Registered /\ Apart /\ FoundRight /\ InBucket)'
  <2>1. Registered'
    BY DEF Registered, RowsOf, OwnTask
  <2>2. Apart'
    BY DEF Apart, InTransaction
  <2>3. FoundRight'
    BY DEF FoundRight
  <2>4. InBucket'
    BY DEF InBucket, Registered, OwnTask, NoTask, OdmTasks
  <2> QED BY <2>1, <2>2, <2>3, <2>4
<1>4. (OrthomosaicNotLost /\ OneActivePerUpload /\ CompletedHasOrthomosaic)'
  BY DEF OrthomosaicNotLost, OneActivePerUpload, CompletedHasOrthomosaic,
         Registered, RowsOf, HasOrthomosaic, Carrying, InBucket
<1> QED BY <1>1, <1>2, <1>3, <1>4

\* An attempt that ends early forgets its locals and frees its transaction.
LEMMA FailAttemptIInv == ASSUME IInv, NEW j \in Jobs, FailAttempt(j) PROVE IInv'
<1> USE DronePipelineAssumption
    DEF IInv, TypeOK, UploadOf, FlightOf, Folder, Folders, FailAttempt, Goto, Forget, Working,
        TryAgain, CanRetry, attemptVars, localVars, odmVars, dbVars, followVars
<1>1. TypeOK'
  <2>1. stage' \in [Jobs -> Stages]
    BY DEF Stages
  <2>2. retries' \in [Jobs -> 0..MaxRetries] /\ setbacks' \in 0..MaxSetbacks
    OBVIOUS
  <2>3. /\ task' \in [Jobs -> OdmTasks \cup {NoTask}]
        /\ have' \in [Jobs -> SUBSET Produced] /\ stored' \in [Jobs -> SUBSET Produced]
        /\ found' \in [Jobs -> SUBSET rows]
    OBVIOUS
  <2> QED BY <2>1, <2>2, <2>3
<1>2. (OwnTask /\ HasOrthomosaic /\ AttemptsCounted)'
  <2>1. OwnTask' /\ HasOrthomosaic'
    BY DEF OwnTask, HasOrthomosaic, Carrying, OdmTasks, NoTask
  <2>2. AttemptsCounted'
    BY DEF AttemptsCounted
  <2> QED BY <2>1, <2>2
<1>3. (Registered /\ Apart /\ FoundRight /\ InBucket)'
  <2>1. Registered'
    BY DEF Registered, RowsOf, OwnTask
  <2>2. Apart'
    BY DEF Apart, InTransaction
  <2>3. FoundRight'
    BY DEF FoundRight
  <2>4. InBucket'
    BY DEF InBucket, Registered, OwnTask, NoTask, OdmTasks
  <2> QED BY <2>1, <2>2, <2>3, <2>4
<1>4. (OrthomosaicNotLost /\ OneActivePerUpload /\ CompletedHasOrthomosaic)'
  BY DEF OrthomosaicNotLost, OneActivePerUpload, CompletedHasOrthomosaic,
         Registered, RowsOf, HasOrthomosaic, Carrying, InBucket
<1> QED BY <1>1, <1>2, <1>3, <1>4

LEMMA LoseWorkerIInv == ASSUME IInv, NEW j \in Jobs, LoseWorker(j) PROVE IInv'
<1> USE DronePipelineAssumption
    DEF IInv, TypeOK, UploadOf, FlightOf, Folder, Folders, LoseWorker, Goto, Forget, Working,
        TryAgain, attemptVars, localVars, odmVars, dbVars, followVars
<1>1. TypeOK'
  BY DEF Stages, RowsOf, OwnTask, AttemptsCounted, OdmTasks
<1>2. (OwnTask /\ HasOrthomosaic /\ AttemptsCounted)'
  BY DEF OwnTask, HasOrthomosaic, AttemptsCounted, Carrying, OdmTasks, NoTask, FoundRight
<1>3. (Registered /\ Apart /\ FoundRight /\ InBucket)'
  <2>1. Registered'
    BY DEF Registered, RowsOf, OwnTask
  <2>2. Apart'
    BY DEF Apart, InTransaction
  <2>3. FoundRight'
    BY DEF FoundRight
  <2>4. InBucket'
    BY DEF InBucket, Registered, OwnTask, NoTask, OdmTasks
  <2> QED BY <2>1, <2>2, <2>3, <2>4
<1>4. (OrthomosaicNotLost /\ OneActivePerUpload /\ CompletedHasOrthomosaic)'
  BY DEF OrthomosaicNotLost, OneActivePerUpload, CompletedHasOrthomosaic,
         Registered, RowsOf, HasOrthomosaic, Carrying, InBucket
<1> QED BY <1>1, <1>2, <1>3, <1>4

LEMMA HardTimeLimitIInv == ASSUME IInv, NEW j \in Jobs, HardTimeLimit(j) PROVE IInv'
<1> USE DronePipelineAssumption
    DEF IInv, TypeOK, UploadOf, FlightOf, Folder, Folders, HardTimeLimit, Goto, Forget,
        Working, attemptVars, localVars, odmVars, dbVars, followVars
<1>1. TypeOK'
  BY DEF Stages, RowsOf, OwnTask, AttemptsCounted, OdmTasks
<1>2. (OwnTask /\ HasOrthomosaic /\ AttemptsCounted)'
  BY DEF OwnTask, HasOrthomosaic, AttemptsCounted, Carrying, OdmTasks, NoTask, FoundRight
<1>3. (Registered /\ Apart /\ FoundRight /\ InBucket)'
  <2>1. Registered'
    BY DEF Registered, RowsOf, OwnTask
  <2>2. Apart'
    BY DEF Apart, InTransaction
  <2>3. FoundRight'
    BY DEF FoundRight
  <2>4. InBucket'
    BY DEF InBucket, Registered, OwnTask, NoTask, OdmTasks
  <2> QED BY <2>1, <2>2, <2>3, <2>4
<1>4. (OrthomosaicNotLost /\ OneActivePerUpload /\ CompletedHasOrthomosaic)'
  BY DEF OrthomosaicNotLost, OneActivePerUpload, CompletedHasOrthomosaic,
         Registered, RowsOf, HasOrthomosaic, Carrying, InBucket
<1> QED BY <1>1, <1>2, <1>3, <1>4

\* Every step of every job keeps the invariant.
LEMMA NextIInv == IInv /\ [Next]_vars => IInv'
<1> SUFFICES ASSUME IInv, [Next]_vars PROVE IInv'
  OBVIOUS
<1>1. CASE \E j \in Jobs : AttemptStep(j)
  BY <1>1, StartAttemptIInv, SubmitOdmIInv, SimulateOrGiveUpIInv, DownloadResultsIInv,
     StoreAssetIInv, UpdateUploadIInv,
     ReplaceAssetsIInv, CommitRecordsIInv, QueueFollowUpIInv, RemoveOdmIInv
  DEF AttemptStep
<1>2. CASE \E j \in Jobs : RunFollowUp(j) \/ FailAttempt(j) \/ LoseWorker(j) \/ HardTimeLimit(j)
  BY <1>2, RunFollowUpIInv, FailAttemptIInv, LoseWorkerIInv, HardTimeLimitIInv
<1>3. CASE \E t \in OdmTasks : OdmFinishes(t)
  BY <1>3, OdmFinishesIInv
<1>4. CASE UNCHANGED vars
  BY <1>4 DEF IInv, vars, attemptVars, localVars, odmVars, dbVars, followVars, TypeOK, OwnTask,
     HasOrthomosaic, AttemptsCounted, Registered, RowsOf, Apart, InTransaction, FoundRight, InBucket,
     UploadOf, FlightOf, Folder, Folders,
     OrthomosaicNotLost, OneActivePerUpload, CompletedHasOrthomosaic
<1> QED BY <1>1, <1>2, <1>3, <1>4 DEF Next

LEMMA IInvHolds == Spec => []IInv
  BY InitIInv, NextIInv, PTL DEF Spec

\* The pipeline (processing.py:106-945) keeps its variables in their types for any number of
\* jobs, retries and lost workers; in particular no job creates more NodeODM tasks than
\* it has attempts.
THEOREM TypeCorrect == Spec => []TypeOK
  BY IInvHolds, PTL DEF IInv

\* Whatever fails, is retried or redelivered, the NodeODM task of a job sent with a flight is
\* removed after the commit that registers its orthomosaic, and that of a job without a flight
\* after an orthomosaic is in the bucket (processing.py:687-689, 853).
THEOREM RemovedAfterPublication == Spec => []OrthomosaicNotLost
  BY IInvHolds, PTL DEF IInv

\* Whatever flights an upload is processed into (flights.py:433-455), the row lock of the
\* upload is enough for its own jobs: in each flight their transactions leave one active
\* row of each type (processing.py:795, 854-859).
THEOREM UploadsReplaceTheirRows == Spec => []OneActivePerUpload
  BY IInvHolds, PTL DEF IInv

\* No interleaving of publications takes the last orthomosaic from a completed flight
\* (processing.py:854-875, 924-929).
THEOREM CompletedFlightsShow == Spec => []CompletedHasOrthomosaic
  BY IInvHolds, PTL DEF IInv

-----------------------------------------------------------------------------
(* What a job reports reaches its clients as a ProgressStream *)

\* The events are numbered as they are reported; what is PUBLISHed was reported, what is
\* stored or told was PUBLISHed.
Numbered ==
    /\ log \in Seq(Reportable) /\ sent \in 0..Len(log) /\ state \in 0..sent
    /\ half = "new" => sent < Len(log)
    /\ half = "published" => sent = Len(log)
    /\ last \in [Streams -> Nat] /\ \A s \in Streams : last[s] <= sent

\* A live stream waits for an event it has not told.
Ahead ==
    /\ next \in [Streams -> Nat] /\ pc = [s \in Streams |-> pc[s]]
    /\ \A s \in Streams : pc[s] = "live" => last[s] < next[s]

StreamInv == Numbered /\ Ahead

\* The client is told e, or nothing.
LEMMA Told ==
    ASSUME StreamInv, NEW s \in Streams, NEW e \in 0..sent, NEW then, Tell(s, e, then)
    PROVE  /\ last' = [t \in Streams |-> IF t = s /\ e # 0 THEN e ELSE last[t]]
           /\ \E p \in {"final", then} : pc' = [t \in Streams |-> IF t = s THEN p ELSE pc[t]]
<1>1. last \in [Streams -> Nat] /\ pc = [t \in Streams |-> pc[t]]
  BY DEF StreamInv, Numbered, Ahead
<1>2. last' = [last EXCEPT ![s] = IF e = 0 THEN last[s] ELSE e]
  BY DEF Tell
<1>3. last' = [t \in Streams |-> IF t = s /\ e # 0 THEN e ELSE last[t]]
  BY <1>1, <1>2
<1>4. PICK p \in {"final", then} : pc' = [pc EXCEPT ![s] = p]
  BY DEF Tell
<1>5. pc' = [t \in Streams |-> IF t = s THEN p ELSE pc[t]]
  BY <1>1, <1>4
<1> QED BY <1>3, <1>5

\* The log grows by an event, loses the last one, or is cut to what was PUBLISHed.
LEMMA Grown ==
    ASSUME NEW S, NEW q \in Seq(S), NEW e \in S
    PROVE  Append(q, e) \in Seq(S) /\ Len(Append(q, e)) = Len(q) + 1
  OBVIOUS

LEMMA Cut ==
    ASSUME NEW S, NEW q \in Seq(S), NEW n \in 0..Len(q)
    PROVE  SubSeq(q, 1, n) \in Seq(S) /\ Len(SubSeq(q, 1, n)) = n
  OBVIOUS

LEMMA StreamInvStep == StreamInv /\ [StreamNext]_progressVars => StreamInv'
<1> SUFFICES ASSUME StreamInv, [StreamNext]_progressVars PROVE StreamInv'
  OBVIOUS
<1> USE DEF reporterVars, redisVars, streamVars
<1>1. ASSUME NEW e \in Reportable, Report(e) PROVE StreamInv'
  <2>1. log' \in Seq(Reportable) /\ Len(log') = Len(log) + 1 /\ half' = "new"
    BY <1>1, Grown DEF Report, StreamInv, Numbered
  <2> QED BY <1>1, <2>1 DEF Report, StreamInv, Numbered, Ahead, Reportable
<1>2. CASE Publish
  BY <1>2 DEF Publish, StreamInv, Numbered, Ahead, Reportable
<1>3. CASE StoreState
  BY <1>3 DEF StoreState, StreamInv, Numbered, Ahead, Reportable
<1>4. CASE PublishFails
  <2>1. Len(log) - 1 \in 0..Len(log)
    BY <1>4 DEF PublishFails, StreamInv, Numbered
  <2>2. log' \in Seq(Reportable) /\ Len(log') = Len(log) - 1
    BY <1>4, <2>1, Cut DEF PublishFails, StreamInv, Numbered
  <2> QED BY <1>4, <2>2 DEF PublishFails, StreamInv, Numbered, Ahead
<1>5. CASE LoseReporter \/ StopReporter
  <2>1. log' \in Seq(Reportable) /\ Len(log') = sent
    BY <1>5, Cut DEF LoseReporter, StopReporter, StreamInv, Numbered
  <2> QED BY <1>5, <2>1 DEF LoseReporter, StopReporter, StreamInv, Numbered, Ahead
<1>6. CASE ExpireState
  BY <1>6 DEF ExpireState, StreamInv, Numbered, Ahead, Reportable
<1>7. ASSUME NEW s \in Streams, SendKnown(s) \/ SendKnownAgain(s) PROVE StreamInv'
  <2>1. PICK e \in 0..sent, then \in {"known", "subscribing"} : Tell(s, e, then)
    BY <1>7 DEF SendKnown, SendKnownAgain, StreamInv, Numbered
  <2>2. UNCHANGED <<redisVars, next>>
    BY <1>7 DEF SendKnown, SendKnownAgain
  <2>3. last' = [t \in Streams |-> IF t = s /\ e # 0 THEN e ELSE last[t]]
    BY <2>1, Told
  <2>4. PICK p \in {"final", then} : pc' = [t \in Streams |-> IF t = s THEN p ELSE pc[t]]
    BY <2>1, Told
  <2>5. Numbered'
    BY <2>2, <2>3 DEF StreamInv, Numbered
  <2>6. Ahead'
    BY <2>2, <2>3, <2>4 DEF StreamInv, Ahead
  <2> QED BY <2>5, <2>6 DEF StreamInv
<1>8. ASSUME NEW s \in Streams, Subscribe(s) PROVE StreamInv'
  <2>1. Numbered'
    BY <1>8 DEF Subscribe, StreamInv, Numbered, Reportable
  <2>2. /\ next' = [t \in Streams |-> IF t = s THEN sent + 1 ELSE next[t]]
        /\ pc' = [t \in Streams |-> IF t = s THEN "live" ELSE pc[t]]
        /\ last' = last
    BY <1>8 DEF Subscribe, StreamInv, Ahead
  <2>3. Ahead'
    BY <2>2 DEF StreamInv, Numbered, Ahead
  <2> QED BY <2>1, <2>3 DEF StreamInv
<1>9. ASSUME NEW s \in Streams, Receive(s) PROVE StreamInv'
  <2>1. next[s] \in 0..sent /\ next[s] # 0 /\ Tell(s, next[s], "live") /\ UNCHANGED redisVars
    BY <1>9 DEF Receive, StreamInv, Numbered, Ahead
  <2>2. next' = [t \in Streams |-> IF t = s THEN next[t] + 1 ELSE next[t]]
    BY <1>9 DEF Receive, StreamInv, Ahead
  <2>3. last' = [t \in Streams |-> IF t = s THEN next[t] ELSE last[t]]
    BY <2>1, Told DEF StreamInv, Numbered
  <2>4. PICK p : pc' = [t \in Streams |-> IF t = s THEN p ELSE pc[t]]
    BY <2>1, Told
  <2>5. Numbered'
    BY <2>1, <2>3 DEF StreamInv, Numbered
  <2>6. Ahead'
    BY <2>1, <2>2, <2>3, <2>4 DEF StreamInv, Ahead
  <2> QED BY <2>5, <2>6 DEF StreamInv
<1>10. ASSUME NEW s \in Streams, IdleTimeout(s) \/ LoseRedis(s) \/ ClientSilent(s) \/ ClientLeaves(s)
       PROVE  StreamInv'
  <2>1. PICK p \in {pc[s], "idle", "lost", "silent", "left"} :
          pc' = [t \in Streams |-> IF t = s THEN p ELSE pc[t]]
    BY <1>10 DEF IdleTimeout, LoseRedis, ClientSilent, ClientLeaves, StreamInv, Ahead
  <2>2. UNCHANGED <<redisVars, next, last>>
    BY <1>10 DEF IdleTimeout, LoseRedis, ClientSilent, ClientLeaves
  <2> QED BY <2>1, <2>2 DEF StreamInv, Numbered, Ahead
<1>11. CASE UNCHANGED progressVars
  BY <1>11 DEF progressVars, StreamInv, Numbered, Ahead
<1> QED
  BY <1>1, <1>2, <1>3, <1>4, <1>5, <1>6, <1>7, <1>8, <1>9, <1>10, <1>11
  DEF StreamNext, PublishStep, StreamStep

\* publish_progress PUBLISHes before it stores, and subscribe_progress reads the stored state
\* before it subscribes: no event comes both ways, and no client is taken back.
THEOREM RelaysNews == StreamSpec => LiveIsNew
<1>1. StreamInit => StreamInv
  BY DEF StreamInit, StreamInv, Numbered, Ahead
<1>2. StreamInv /\ [StreamNext]_progressVars =>
        [\A s \in Streams : next'[s] # next[s] /\ pc[s] = "live" => last'[s] > last[s]]_progressVars
  <2> SUFFICES ASSUME StreamInv, StreamNext, NEW s \in Streams, next'[s] # next[s], pc[s] = "live"
               PROVE  last'[s] > last[s]
    OBVIOUS
  <2>1. next' = next \/ \E t \in Streams : Subscribe(t) \/ Receive(t)
    BY DEF StreamNext, PublishStep, StreamStep, Report, Publish,
       StoreState, PublishFails, LoseReporter, StopReporter,
       ExpireState, SendKnown, SendKnownAgain, IdleTimeout,
       LoseRedis, ClientSilent, ClientLeaves, reporterVars,
       redisVars, streamVars
  <2>2. Receive(s)
    BY <2>1 DEF Subscribe, Receive, StreamInv, Ahead
  <2>3. next[s] \in 0..sent /\ Tell(s, next[s], "live") /\ last[s] < next[s]
    BY <2>2 DEF Receive, StreamInv, Numbered, Ahead
  <2>4. last'[s] = next[s]
    BY <2>3, Told DEF StreamInv, Numbered, Ahead
  <2> QED BY <2>3, <2>4
<1> QED BY <1>1, <1>2, StreamInvStep, PTL DEF StreamSpec, LiveIsNew
=============================================================================
