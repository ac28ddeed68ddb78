------------------------------ MODULE AiPipeline ------------------------------
(***************************************************************************)
(* The AI pipeline of an orthomosaic (run_ai_pipeline of                   *)
(* tasks/processing.py): three detectors tried in turn, the detections     *)
(* and the measurement run written row by row with AUTOCOMMIT, and the     *)
(* redelivery of a task whose worker was lost (acks_late).                 *)
(*                                                                         *)
(* A row is named by its delivery and its number; source is the detector   *)
(* that found it, label the model_version it is stored under.              *)
(* Left out: the files in the bucket, which each delivery overwrites.      *)
(* Bounds: Features rows, MaxDeliveries, MaxFaults refused statements.     *)
(***************************************************************************)
EXTENDS Naturals, FiniteSets

CONSTANTS Features, MaxDeliveries, MaxFaults

AiAssumption ==
    Features \in Nat \ {0} /\ MaxDeliveries \in Nat \ {0} /\ MaxFaults \in Nat

VARIABLES
    mode,       \* provider_mode: "local", "hybrid" or "groq"
    enabled,    \* settings.groq_enabled
    detector,   \* settings.ai_detector: "ml" or "heuristic"
    task,       \* the delivery under way
    finds,      \* ai_detections: records [delivery, k, source, label]
    aiRuns,     \* ai_measurement_runs: records [delivery, total, scored]
    measured,   \* ai_building_measurements: pairs <<delivery, k>>
    surveyed,   \* ai_terrain_measurements: the deliveries
    empty,      \* history: pairs <<delivery, detector that found nothing>>
    faults

aiVars == <<mode, enabled, detector, task, finds, aiRuns, measured, surveyed, empty, faults>>
settings == <<mode, enabled, detector>>
stored == <<finds, aiRuns, measured, surveyed>>

Sources == {"groq", "ml", "heuristic"}
Step(pc) == task' = [task EXCEPT !.pc = pc]
Fault == faults < MaxFaults /\ faults' = faults + 1

Fresh(n) == [delivery |-> n, pc |-> "vision", source |-> "none", label |-> "heuristic",
             found |-> FALSE, next |-> 1]

AiInit ==
    /\ mode \in {"local", "hybrid", "groq"} /\ enabled \in BOOLEAN
    /\ detector \in {"ml", "heuristic"}
    /\ task = Fresh(1)
    /\ finds = {} /\ aiRuns = {} /\ measured = {} /\ surveyed = {} /\ empty = {} /\ faults = 0

-----------------------------------------------------------------------------
UseGroq == enabled /\ mode \in {"groq", "hybrid"}

\* A detector that answers gives the label, whether it found a building or not.
Answers(source, next) ==
    /\ task' = [task EXCEPT !.pc = next, !.source = source, !.label = source, !.found = TRUE]
    /\ UNCHANGED <<empty, faults>>

Nothing(source, next) ==
    /\ task' = [task EXCEPT !.pc = next, !.label = source]
    /\ empty' = empty \cup {<<task.delivery, source>>}
    /\ UNCHANGED faults

\* Any mode passes over the failure of the vision model.
VisionLenient ==
    /\ task.pc = "vision" /\ UNCHANGED <<settings, stored>>
    /\ \/ ~UseGroq /\ Step("ml") /\ UNCHANGED <<empty, faults>>
       \/ UseGroq /\ Answers("groq", "terrain")
       \/ UseGroq /\ Nothing("groq", "ml")
       \/ UseGroq /\ Fault /\ Step("ml") /\ UNCHANGED empty

\* The vision model: its failure ends a task that asked for it, and is passed over by a hybrid.
Vision ==
    /\ task.pc = "vision" /\ UNCHANGED <<settings, stored>>
    /\ \/ ~UseGroq /\ Step("ml") /\ UNCHANGED <<empty, faults>>
       \/ UseGroq /\ Answers("groq", "terrain")
       \/ UseGroq /\ Nothing("groq", "ml")
       \/ UseGroq /\ Fault /\ Step(IF mode = "groq" THEN "error" ELSE "ml") /\ UNCHANGED empty

\* The neural network: its failure is passed over.
Ml ==
    /\ task.pc = "ml" /\ UNCHANGED <<settings, stored>>
    /\ \/ detector # "ml" /\ Step("heuristic") /\ UNCHANGED <<empty, faults>>
       \/ detector = "ml" /\ Answers("ml", "terrain")
       \/ detector = "ml" /\ Nothing("ml", "heuristic")
       \/ detector = "ml" /\ Fault /\ Step("heuristic") /\ UNCHANGED empty

\* Colour and height: the label stays what the detectors before it left.
Heuristic ==
    /\ task.pc = "heuristic"
    /\ \/ /\ task' = [task EXCEPT !.pc = "terrain", !.source = "heuristic", !.found = TRUE]
          /\ UNCHANGED faults
       \/ Step("terrain") /\ UNCHANGED faults
       \/ Fault /\ Step("error")
    /\ UNCHANGED <<settings, stored, empty>>

\* The terrain patches and the upload of both files, any of which may fail.
Terrain ==
    /\ task.pc = "terrain"
    /\ \/ Step(IF task.found THEN "rows" ELSE "run") /\ UNCHANGED faults
       \/ Fault /\ Step("error")
    /\ UNCHANGED <<settings, stored, empty>>

Advance(pc, after) ==
    IF task.next = Features THEN task' = [task EXCEPT !.pc = after, !.next = 1]
                            ELSE task' = [task EXCEPT !.pc = pc, !.next = @ + 1]

\* Each row on its own: one the database refuses is logged and left out.
WriteDetection ==
    /\ task.pc = "rows"
    /\ \/ /\ finds' = finds \cup {[delivery |-> task.delivery, k |-> task.next,
                                 source |-> task.source, label |-> task.label]}
          /\ UNCHANGED faults
       \/ Fault /\ UNCHANGED finds
    /\ Advance("rows", "run")
    /\ UNCHANGED <<settings, aiRuns, measured, surveyed, empty>>

-----------------------------------------------------------------------------
(* _persist_ai_measurements: a failure is logged and the task is completed without the rest. *)

InsertRun ==
    /\ task.pc = "run"
    /\ \/ /\ aiRuns' = aiRuns \cup {[delivery |-> task.delivery, scored |-> FALSE,
                                 total |-> IF task.found THEN Features ELSE 0]}
          /\ Step("survey") /\ UNCHANGED faults
       \/ Fault /\ Step("done") /\ UNCHANGED aiRuns
    /\ UNCHANGED <<settings, finds, measured, surveyed, empty>>

MeasureTerrain ==
    /\ task.pc = "survey"
    /\ \/ /\ surveyed' = surveyed \cup {task.delivery}
          /\ Step(IF task.found THEN "measure" ELSE "score") /\ UNCHANGED faults
       \/ Fault /\ Step("done") /\ UNCHANGED surveyed
    /\ UNCHANGED <<settings, finds, aiRuns, measured, empty>>

MeasureBuilding ==
    /\ task.pc = "measure"
    /\ \/ /\ measured' = measured \cup {<<task.delivery, task.next>>}
          /\ Advance("measure", "score") /\ UNCHANGED faults
       \/ Fault /\ Step("done") /\ UNCHANGED measured
    /\ UNCHANGED <<settings, finds, aiRuns, surveyed, empty>>

\* qa_score
Score ==
    /\ task.pc = "score"
    /\ \/ /\ aiRuns' = {IF u.delivery = task.delivery THEN [u EXCEPT !.scored = TRUE] ELSE u :
                        u \in aiRuns}
          /\ UNCHANGED faults
       \/ Fault /\ UNCHANGED aiRuns
    /\ Step("done")
    /\ UNCHANGED <<settings, finds, measured, surveyed, empty>>

\* The worker is lost before it acknowledges the task: the queue delivers it again, from the
\* start, beside what the first delivery stored.
Redeliver ==
    /\ task.delivery < MaxDeliveries /\ task.pc # "error"
    /\ task' = Fresh(task.delivery + 1)
    /\ UNCHANGED <<settings, stored, empty, faults>>

AiNext ==
    \/ Vision \/ Ml \/ Heuristic \/ Terrain \/ WriteDetection
    \/ InsertRun \/ MeasureTerrain \/ MeasureBuilding \/ Score \/ Redeliver

AiSpec == AiInit /\ [][AiNext]_aiVars

-----------------------------------------------------------------------------
\* The state: rows of deliveries so far, each once.
AiTypeOK ==
    /\ task.delivery \in 1..MaxDeliveries /\ task.next \in 1..Features
    /\ task.source \in Sources \cup {"none"} /\ task.label \in Sources
    /\ \A r \in finds : r.source \in Sources /\ r.delivery <= task.delivery
    /\ faults \in 0..MaxFaults

\* A detection is stored under the name of another model only when that model had answered
\* and found nothing, which leaves its name behind.
WrongLabelOnlyAfterNothing ==
    \A r \in finds : r.label # r.source => <<r.delivery, r.label>> \in empty

\* A task that asked for the vision model stores what another detector found only when the
\* model is not configured or found nothing: its failure is never papered over.
GroqFailureIsNotReplaced ==
    mode = "groq" /\ enabled =>
        \A r \in finds : r.source # "groq" => <<r.delivery, "groq">> \in empty

\* A measurement run with a score has its terrain and every building of its total.
ScoredIsWhole ==
    \A u \in aiRuns :
        u.scored => /\ u.delivery \in surveyed
                    /\ \A k \in 1..u.total : <<u.delivery, k>> \in measured

\* What a task has stored says truly which model made it, and a score stands for a whole run.
AiIsTrue == AiTypeOK /\ WrongLabelOnlyAfterNothing /\ GroqFailureIsNotReplaced /\ ScoredIsWhole
=============================================================================
