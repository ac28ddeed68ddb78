------------------------- MODULE DetectionGenerations -------------------------
(***************************************************************************)
(* The building detections of one orthomosaic (table ai_detections) as     *)
(* _persist_building_detections of tasks/post_processing.py replaces them: *)
(* each writer, a run of the synthetic or of the real DSM task, deletes    *)
(* the rows of its own model version, then those of the other versions,    *)
(* then inserts its batch, in one READ COMMITTED transaction of            *)
(* PostgreSQL.  Only the synthetic task takes the flight's lock, so the    *)
(* transactions of two writers may overlap.                                *)
(*                                                                         *)
(* A batch of rows is named by its writer: a deleted or inserted set of    *)
(* rows is a set of writers.  Bound: one transaction per writer.           *)
(***************************************************************************)
EXTENDS Naturals, FiniteSets

CONSTANTS
    Writers,
    Versions     \* model_version: geobase_onnx_v1, dsm_synthetic_v1, fusion_rgb3d_v1

VARIABLES
    version,     \* the model version of each writer, which the detector decided
    rows,        \* the committed batches of the orthomosaic
    txn,         \* where each transaction is
    doomed,      \* the batches its DELETE statements found
    waits,       \* the open transactions its statement waits for
    beside       \* history: the writers whose transaction was open at some time of this one

txnVars == <<txn, doomed, waits, beside>>
writerVars == <<version, rows, txnVars>>

Open == {"open", "own", "others"}

OpenTxns == {w \in Writers : txn[w] \in Open}

TypeOK ==
    /\ version \in [Writers -> Versions]
    /\ rows \in SUBSET Writers
    /\ txn \in [Writers -> {"idle", "committed", "aborted"} \cup Open]
    /\ doomed \in [Writers -> SUBSET Writers]
    /\ waits \in [Writers -> SUBSET Writers] /\ \A w \in Writers : waits[w] \subseteq OpenTxns
    /\ beside \in [Writers -> SUBSET Writers]

WritersInit ==
    /\ version \in [Writers -> Versions]
    /\ rows = {}
    /\ txn = [w \in Writers |-> "idle"]
    /\ doomed = [w \in Writers |-> {}]
    /\ waits = [w \in Writers |-> {}]
    /\ beside = [w \in Writers |-> {}]

\* The first statement of the transaction; a run without polygons opens none, and leaves
\* what is there.
Begin(w) ==
    /\ txn[w] = "idle"
    /\ txn' = [txn EXCEPT ![w] = "open"]
    /\ beside' = [u \in Writers |->
          CASE u = w           -> OpenTxns
            [] u \in OpenTxns  -> beside[u] \cup {w}
            [] OTHER           -> beside[u]]
    /\ UNCHANGED <<version, rows, doomed, waits>>

\* A DELETE finds the committed rows its snapshot shows, and waits for every open
\* transaction that is deleting one of them.
Delete(w, found) ==
    /\ doomed' = [doomed EXCEPT ![w] = @ \cup found]
    /\ waits' = [waits EXCEPT ![w] = {u \in OpenTxns \ {w} : doomed[u] \cap found # {}}]

KeepsOthers(w, b) == FALSE
OtherVersion(w, b) == version[b] # version[w]

DeleteOwnVersion(w) ==
    /\ txn[w] = "open"
    /\ Delete(w, {b \in rows : version[b] = version[w]})
    /\ txn' = [txn EXCEPT ![w] = "own"]
    /\ UNCHANGED <<version, rows, beside>>

DeleteOtherVersions(w) ==
    /\ txn[w] = "own"
    /\ waits[w] = {}
    /\ Delete(w, {b \in rows : OtherVersion(w, b)})
    /\ txn' = [txn EXCEPT ![w] = "others"]
    /\ UNCHANGED <<version, rows, beside>>

Wake(w) == waits' = [u \in Writers |-> waits[u] \ {w}]

\* INSERT row by row, each under a savepoint: the batch may turn out empty.  COMMIT.
InsertAndCommit(w) ==
    /\ txn[w] = "others"
    /\ waits[w] = {}
    /\ \E batch \in {{}, {w}} : rows' = (rows \ doomed[w]) \cup batch
    /\ txn' = [txn EXCEPT ![w] = "committed"]
    /\ Wake(w)
    /\ UNCHANGED <<version, doomed, beside>>

\* A lost connection, a statement that raises, a deadlock that PostgreSQL breaks.
Abort(w) ==
    /\ txn[w] \in Open
    /\ txn' = [txn EXCEPT ![w] = "aborted"]
    /\ doomed' = [doomed EXCEPT ![w] = {}]
    /\ Wake(w)
    /\ UNCHANGED <<version, rows, beside>>

WritersNext ==
    \E w \in Writers :
        \/ Begin(w) \/ DeleteOwnVersion(w) \/ DeleteOtherVersions(w)
        \/ InsertAndCommit(w) \/ Abort(w)

WritersSpec == WritersInit /\ [][WritersNext]_writerVars

-----------------------------------------------------------------------------
(* Properties *)

\* The map and the fiscal analysis show two batches of one orthomosaic only if the
\* transactions that wrote them overlapped: runs one after the other replace each other,
\* whatever their versions.
GenerationsMixOnlyByOverlap ==
    \A b, c \in rows : b # c => b \in beside[c] \/ c \in beside[b]

=============================================================================
