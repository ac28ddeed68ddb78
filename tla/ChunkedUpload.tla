---------------------------- MODULE ChunkedUpload ----------------------------
(***************************************************************************)
(* One chunked upload (api/v1/uploads.py): concurrent chunk and complete   *)
(* requests over one row of uploads and the part objects in MinIO, the     *)
(* hourly cleanup of tasks/maintenance.py, and the processing job, of      *)
(* which only what it does to the row is kept.  Handlers run on one event  *)
(* loop but yield at every await; the row they read is not locked.         *)
(*                                                                         *)
(* Bounds: one chunk request per Senders, one complete request per         *)
(* Completers.                                                             *)
(***************************************************************************)
EXTENDS Integers, FiniteSets

CONSTANTS
    ChunkCount,  \* ceil(file_size / chunk_size)
    Strays,      \* chunk numbers outside the file that a client may send
    Senders,     \* bound: the chunk requests, retries of the client included
    Completers   \* bound: the complete requests

ASSUME ChunkedUploadAssumption ==
    /\ ChunkCount \in Nat \ {0}
    /\ IsFiniteSet(Senders)
    /\ IsFiniteSet(Strays) /\ \A i \in Strays : i \in Int /\ i \notin 0..(ChunkCount - 1)

Chunks == 0..(ChunkCount - 1)
Numbers == Chunks \cup Strays

VARIABLES
    status,      \* uploads.status, "deleted" once the row is gone
    received,    \* uploads.chunks_received
    expired,     \* the row is older than 24 hours
    parts,       \* the chunk numbers whose part object is in the bucket
    object,      \* the chunk numbers the composed object holds, {} if absent
    sender,      \* where each chunk request is
    index,       \* its chunk number
    seen,        \* the chunks_received it read
    completer,   \* where each complete request is
    toRemove,    \* the parts it has still to remove
    after,       \* history: the complete requests that had succeeded when it read the row
    job          \* the processing job each complete request sent

rowVars == <<status, received, expired>>
bucketVars == <<parts, object>>
senderVars == <<sender, index, seen>>
completerVars == <<completer, toRemove, after>>
vars == <<rowVars, bucketVars, senderVars, completerVars, job>>

TypeOK ==
    /\ status \in {"uploading", "processing", "completed", "deleted"}
    /\ received \in 0..Cardinality(Senders)
    /\ expired \in BOOLEAN
    /\ parts \in SUBSET Numbers
    /\ object \in SUBSET Chunks
    /\ sender \in [Senders -> {"idle", "read", "stored", "ended"}]
    /\ index \in [Senders -> Numbers]
    /\ seen \in [Senders -> 0..Cardinality(Senders)]
    /\ completer \in [Completers -> {"idle", "read", "composed", "dispatched", "failed", "succeeded"}]
    /\ toRemove \in [Completers -> SUBSET Chunks]
    /\ after \in [Completers -> SUBSET Completers]
    /\ job \in [Completers -> {"none", "queued", "running", "done", "failed"}]

\* The row init_upload inserted and committed.
Init ==
    /\ status = "uploading" /\ received = 0 /\ expired = FALSE
    /\ parts = {} /\ object = {}
    /\ sender = [q \in Senders |-> "idle"]
    /\ index = [q \in Senders |-> 0]
    /\ seen = [q \in Senders |-> 0]
    /\ completer = [c \in Completers |-> "idle"]
    /\ toRemove = [c \in Completers |-> {}]
    /\ after = [c \in Completers |-> {}]
    /\ job = [c \in Completers |-> "none"]

Exists == status # "deleted"

-----------------------------------------------------------------------------
(* POST /uploads/{id}/chunk *)

\* SELECT the row; 404 without it, 400 unless it is 'uploading'.  The number is not compared
\* with chunk_count: a client that counts from one sends a number outside the file.
UploadChunk(q) ==
    /\ sender[q] = "idle"
    /\ status = "uploading"
    /\ sender' = [sender EXCEPT ![q] = "read"]
    /\ \E i \in Numbers : index' = [index EXCEPT ![q] = i]
    /\ seen' = [seen EXCEPT ![q] = received]
    /\ UNCHANGED <<rowVars, bucketVars, completerVars, job>>

\* Await the body, then put the part object.
StorePart(q) ==
    /\ sender[q] = "read"
    /\ parts' = parts \cup {index[q]}
    /\ sender' = [sender EXCEPT ![q] = "stored"]
    /\ UNCHANGED <<rowVars, object, index, seen, completerVars, job>>

CountTwice(q) == seen[q] + 2
NextCount(q) == seen[q] + 1

\* UPDATE chunks_received with the count read before, whatever the row is by now.
CountPart(q) ==
    /\ sender[q] = "stored"
    /\ received' = IF Exists THEN NextCount(q) ELSE received
    /\ sender' = [sender EXCEPT ![q] = "ended"]
    /\ UNCHANGED <<status, expired, bucketVars, index, seen, completerVars, job>>

\* The connection drops or the store or the database raises: the client may send again.
ChunkFails(q) ==
    /\ sender[q] \in {"read", "stored"}
    /\ sender' = [sender EXCEPT ![q] = "ended"]
    /\ UNCHANGED <<rowVars, bucketVars, index, seen, completerVars, job>>

-----------------------------------------------------------------------------
(* POST /uploads/{id}/complete *)

Succeeded == {c \in Completers : completer[c] = "succeeded"}

CompleteAnyStatus(c) ==
    /\ completer[c] = "idle"
    /\ Exists
    /\ received >= ChunkCount
    /\ completer' = [completer EXCEPT ![c] = "read"]
    /\ after' = [after EXCEPT ![c] = Succeeded]
    /\ UNCHANGED <<rowVars, bucketVars, senderVars, toRemove, job>>

\* SELECT ... AND status = 'uploading'; 404 without it, 400 while chunks are missing.
CompleteUpload(c) ==
    /\ completer[c] = "idle"
    /\ status = "uploading"
    /\ received >= ChunkCount
    /\ completer' = [completer EXCEPT ![c] = "read"]
    /\ after' = [after EXCEPT ![c] = Succeeded]
    /\ UNCHANGED <<rowVars, bucketVars, senderVars, toRemove, job>>

PartsListed == parts
PartsNeeded == Chunks

\* compose_object needs every source; without one it raises and the request fails.
Compose(c) ==
    /\ completer[c] = "read"
    /\ \/ /\ PartsNeeded \subseteq parts
          /\ object' = PartsNeeded
          /\ toRemove' = [toRemove EXCEPT ![c] = PartsNeeded]
          /\ completer' = [completer EXCEPT ![c] = "composed"]
       \/ /\ ~(PartsNeeded \subseteq parts)
          /\ completer' = [completer EXCEPT ![c] = "failed"]
          /\ UNCHANGED <<object, toRemove>>
    /\ UNCHANGED <<rowVars, parts, senderVars, after, job>>

\* compose_parts removes the parts one by one; an error leaves the part behind.
RemovePart(c) ==
    /\ completer[c] = "composed"
    /\ \E i \in toRemove[c] :
          /\ toRemove' = [toRemove EXCEPT ![c] = @ \ {i}]
          /\ parts' \in {parts, parts \ {i}}
    /\ UNCHANGED <<rowVars, object, senderVars, completer, after, job>>

\* send_task process_drone_upload
DispatchJob(c) ==
    /\ completer[c] = "composed"
    /\ toRemove[c] = {}
    /\ job' = [job EXCEPT ![c] = "queued"]
    /\ completer' = [completer EXCEPT ![c] = "dispatched"]
    /\ UNCHANGED <<rowVars, bucketVars, senderVars, toRemove, after>>

\* UPDATE status = 'processing', whatever the job has made of the row by now.
SaveProcessing(c) ==
    /\ completer[c] = "dispatched"
    /\ status' = IF Exists THEN "processing" ELSE status
    /\ completer' = [completer EXCEPT ![c] = "succeeded"]
    /\ UNCHANGED <<received, expired, bucketVars, senderVars, toRemove, after, job>>

\* The process dies, or MinIO, the broker or the database raises.
CompleteFails(c) ==
    /\ completer[c] \in {"read", "composed", "dispatched"}
    /\ completer' = [completer EXCEPT ![c] = "failed"]
    /\ toRemove' = [toRemove EXCEPT ![c] = {}]
    /\ UNCHANGED <<rowVars, bucketVars, senderVars, after, job>>

-----------------------------------------------------------------------------
(* The job, as the row sees it, and the cleanup *)

StartJob(c) ==
    /\ job[c] = "queued"
    /\ job' = [job EXCEPT ![c] = "running"]
    /\ UNCHANGED <<rowVars, bucketVars, senderVars, completerVars>>

\* _update_database_records: UPDATE uploads SET status = 'completed'.
FinishJob(c) ==
    /\ job[c] = "running"
    /\ status' = IF Exists THEN "completed" ELSE status
    /\ job' = [job EXCEPT ![c] = "done"]
    /\ UNCHANGED <<received, expired, bucketVars, senderVars, completerVars>>

\* A failed job says nothing to the row; acks_late redelivers it after a lost worker.
FailJob(c) ==
    /\ job[c] = "running"
    /\ \E end \in {"failed", "queued"} : job' = [job EXCEPT ![c] = end]
    /\ UNCHANGED <<rowVars, bucketVars, senderVars, completerVars>>

Expire ==
    /\ expired' = TRUE
    /\ UNCHANGED <<status, received, bucketVars, senderVars, completerVars, job>>

\* DELETE ... WHERE status = 'uploading' AND created_at < cutoff; the parts stay.
CleanupExpiredUploads ==
    /\ expired
    /\ status = "uploading"
    /\ status' = "deleted"
    /\ UNCHANGED <<received, expired, bucketVars, senderVars, completerVars, job>>

Next ==
    \/ \E q \in Senders : UploadChunk(q) \/ StorePart(q) \/ CountPart(q) \/ ChunkFails(q)
    \/ \E c \in Completers :
          \/ CompleteUpload(c) \/ Compose(c) \/ RemovePart(c) \/ DispatchJob(c)
          \/ SaveProcessing(c) \/ CompleteFails(c)
          \/ StartJob(c) \/ FinishJob(c) \/ FailJob(c)
    \/ Expire
    \/ CleanupExpiredUploads

Spec == Init /\ [][Next]_vars

-----------------------------------------------------------------------------
(* Properties *)

\* A job only ever finds the whole file: chunks_received may count a chunk twice or
\* miss one, and requests may race with the removal of the parts, but nothing is
\* dispatched before a composition that had every part, and none is spoilt later.
JobSeesWholeObject == \A c \in Completers : job[c] # "none" => object = Chunks

\* While no chunk number is sent twice, the counter never runs ahead of the store; and when it
\* reaches chunk_count ("ready_to_complete") a chunk is missing only if a number outside the file
\* was sent.
NoResend ==
    \A p, q \in Senders :
        p # q /\ sender[p] # "idle" /\ sender[q] # "idle" => index[p] # index[q]
NoStray == \A q \in Senders : sender[q] # "idle" => index[q] \in Chunks
ReadyIsTrue ==
    NoResend => /\ received <= Cardinality(parts \cup object)
                /\ received >= ChunkCount /\ NoStray => parts \cup object = Chunks

\* A complete request sent after another has succeeded dispatches nothing; two jobs
\* need requests that overlap, or one that died half way.
OneJobUnlessOverlap == \A c \in Completers : job[c] # "none" => after[c] = {}

=============================================================================
