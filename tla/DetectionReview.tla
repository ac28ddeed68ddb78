---------------------------- MODULE DetectionReview ----------------------------
(***************************************************************************)
(* The review of the building detections (tasks/post_processing.py):       *)
(* validate_detections_elevation measures every detection of a flight and  *)
(* gives a verdict, sends the weak ones to adjudicate_weak_detections and  *)
(* every flight to analyze_roofs; reanalyze_stale_detections of            *)
(* tasks/maintenance.py starts the chain again for the flight of the       *)
(* public schema with the most detections without a roof analysis.  The tasks run in any number   *)
(* of workers and a new detection may replace the rows under them.         *)
(*                                                                         *)
(* The verdict "contradicted" is treated like "confirmed": nothing in the  *)
(* chain tells them apart.  Equal messages in the broker are merged.       *)
(* Bounds: failures of workers MaxFailures, new detections MaxRedetections.*)
(***************************************************************************)
EXTENDS Naturals, FiniteSets

CONSTANTS
    Flights,
    Public,          \* those in public; the others are in a tenant's schema
    Detections,
    FlightOf,        \* the flight of each detection
    Unanalyzable,    \* the detections whose roof analysis raises, every time
    NoDsm,           \* the flights without an active DSM row
    Workers,
    BatchSize,       \* detections between two commits
    MaxFailures,     \* bound
    MaxRedetections  \* bound

ASSUME DetectionReviewAssumption ==
    /\ Public \subseteq Flights
    /\ FlightOf \in [Detections -> Flights]
    /\ Unanalyzable \subseteq Detections
    /\ NoDsm \subseteq Flights
    /\ BatchSize \in Nat \ {0}
    /\ MaxFailures \in Nat
    /\ MaxRedetections \in Nat

Kinds == {"validate", "adjudicate", "roofs"}
Messages == [kind : Kinds, flight : Flights, retried : BOOLEAN]
Message(kind, f) == [kind |-> kind, flight |-> f, retried |-> FALSE]

Judged == {"confirmed_unanimous", "rejected"}

VARIABLES
    verdict,     \* ai_detections.validation_status
    votes,       \* consensus_votes is not null
    roof,        \* roof_analysis is not null
    queue,       \* the messages in the broker
    running,     \* the message each worker works on, as a set of at most one
    todo,        \* the detections it selected and has not committed
    failures,
    redetections

rowVars == <<verdict, votes, roof>>
workVars == <<running, todo>>
boundVars == <<failures, redetections>>
reviewVars == <<rowVars, queue, workVars, boundVars>>

DetectionsOf(f) == {d \in Detections : FlightOf[d] = f}
Runs(w, kind) == \E m \in running[w] : m.kind = kind

ReviewInit ==
    /\ verdict = [d \in Detections |-> "null"]
    /\ votes = [d \in Detections |-> FALSE]
    /\ roof = [d \in Detections |-> FALSE]
    /\ queue = {}
    /\ running = [w \in Workers |-> {}]
    /\ todo = [w \in Workers |-> {}]
    /\ failures = 0
    /\ redetections = 0

-----------------------------------------------------------------------------
(* What starts the chain *)

\* POST /flights/{id}/validate-detections, and the end of a detection run.
TriggerDetectionValidation(f) ==
    /\ queue' = queue \cup {Message("validate", f)}
    /\ UNCHANGED <<rowVars, workVars, boundVars>>

Pending(f) == {d \in DetectionsOf(f) : ~roof[d]}

ReanalyzeAny ==
    /\ \E f \in Public :
          /\ Pending(f) # {}
          /\ queue' = queue \cup {Message("validate", f)}
    /\ UNCHANGED <<rowVars, workVars, boundVars>>

\* Every 15 minutes: the flight with the most pending detections, and no other.  The statement
\* runs without a tenant and reads public.
ReanalyzeStaleDetections ==
    /\ \E f \in Public :
          /\ Pending(f) # {}
          /\ \A g \in Public : Cardinality(Pending(g)) <= Cardinality(Pending(f))
          /\ queue' = queue \cup {Message("validate", f)}
    /\ UNCHANGED <<rowVars, workVars, boundVars>>

\* _persist_building_detections puts new rows, and new ids, in the place of the old: what
\* a worker has selected is gone.
Redetect(f) ==
    /\ redetections < MaxRedetections
    /\ redetections' = redetections + 1
    /\ verdict' = [d \in Detections |-> IF FlightOf[d] = f THEN "null" ELSE verdict[d]]
    /\ votes' = [d \in Detections |-> FlightOf[d] # f /\ votes[d]]
    /\ roof' = [d \in Detections |-> FlightOf[d] # f /\ roof[d]]
    /\ todo' = [w \in Workers |-> todo[w] \ DetectionsOf(f)]
    /\ UNCHANGED <<queue, running, failures>>

-----------------------------------------------------------------------------
(* The tasks *)

\* The rows a task works on: only the weak ones for the adjudication.  A flight without a
\* DSM gives it nothing.
Selected(m) ==
    IF m.flight \in NoDsm THEN {}
    ELSE {d \in DetectionsOf(m.flight) : m.kind = "adjudicate" => verdict[d] = "weak"}

\* With nothing to work on the task returns, and sends nothing.
StartTask(w, m) ==
    /\ running[w] = {}
    /\ m \in queue
    /\ queue' = queue \ {m}
    /\ \/ Selected(m) # {} /\ running' = [running EXCEPT ![w] = {m}]
                           /\ todo' = [todo EXCEPT ![w] = Selected(m)]
       \/ Selected(m) = {} /\ UNCHANGED workVars
    /\ UNCHANGED <<rowVars, boundVars>>

Idle(w) == running' = [running EXCEPT ![w] = {}] /\ todo' = [todo EXCEPT ![w] = {}]

\* The verdict of the adjudication outlives a new measurement.
NeverKeeps(d) == FALSE
KeepsVerdict(d) == votes[d] /\ verdict[d] \in Judged

\* One UPDATE per row, one commit; then the weak ones are sent to the adjudication, and
\* every flight to the analysis of roofs.
ValidateDetections(w) ==
    \E m \in running[w], measured \in [todo[w] -> {"no_data", "weak", "confirmed"}] :
        /\ m.kind = "validate"
        /\ verdict' = [d \in Detections |->
              IF d \notin todo[w] \/ (measured[d] # "no_data" /\ KeepsVerdict(d))
              THEN verdict[d] ELSE measured[d]]
        /\ queue' = queue \cup {Message("roofs", m.flight)} \cup
              {Message("adjudicate", m.flight) : d \in {e \in todo[w] : measured[e] = "weak"}}
        /\ Idle(w)
        /\ UNCHANGED <<votes, roof, boundVars>>

Batches(w) == {B \in SUBSET todo[w] : Cardinality(B) <= BatchSize /\ (B = {} => todo[w] = {})}

\* A batch is committed; after the last one the task ends.
CommitBatch(w, B) ==
    IF B = todo[w] THEN Idle(w)
    ELSE todo' = [todo EXCEPT ![w] = @ \ B] /\ UNCHANGED running

\* validation_status = COALESCE(verdict, validation_status): a kept doubt stays as it is.
AdjudicateBatch(w) ==
    /\ Runs(w, "adjudicate")
    /\ \E B \in Batches(w) :
          /\ \E judged \in [B -> {"kept", "confirmed"} \cup Judged] :
                verdict' = [d \in Detections |->
                    IF d \notin B \/ judged[d] = "kept" THEN verdict[d] ELSE judged[d]]
          /\ votes' = [d \in Detections |-> votes[d] \/ d \in B]
          /\ CommitBatch(w, B)
    /\ UNCHANGED <<roof, queue, boundVars>>

\* A detection whose analysis raises is skipped: it keeps a null roof_analysis.
AnalyzeRoofsBatch(w) ==
    /\ Runs(w, "roofs")
    /\ \E B \in Batches(w) :
          /\ roof' = [d \in Detections |-> roof[d] \/ d \in B \ Unanalyzable]
          /\ CommitBatch(w, B)
    /\ UNCHANGED <<verdict, votes, queue, boundVars>>

\* What is not committed is lost.  validate and adjudicate retry once, roofs never.
NoRetry(m) == {}
Retry(m) == IF m.kind # "roofs" /\ ~m.retried THEN {[m EXCEPT !.retried = TRUE]} ELSE {}

FailTask(w) ==
    /\ failures < MaxFailures
    /\ failures' = failures + 1
    /\ \E m \in running[w] : queue' = queue \cup Retry(m)
    /\ Idle(w)
    /\ UNCHANGED <<rowVars, redetections>>

\* The worker is killed: acks_late gives the message back.
LoseWorker(w) ==
    /\ failures < MaxFailures
    /\ failures' = failures + 1
    /\ running[w] # {}
    /\ queue' = queue \cup running[w]
    /\ Idle(w)
    /\ UNCHANGED <<rowVars, redetections>>

WorkStep(w) == ValidateDetections(w) \/ AdjudicateBatch(w) \/ AnalyzeRoofsBatch(w)

ReviewNext ==
    \/ ReanalyzeStaleDetections
    \/ \E f \in Flights : TriggerDetectionValidation(f) \/ Redetect(f)
    \/ \E w \in Workers :
          \/ WorkStep(w) \/ FailTask(w) \/ LoseWorker(w)
          \/ \E m \in queue : StartTask(w, m)

ReviewSpec == ReviewInit /\ [][ReviewNext]_reviewVars

\* The beat goes on, the broker is first in first out (of the messages of one kind and flight, which
\* ask for the same work, one is enough), and a worker goes on with its task.
Fairness ==
    /\ WF_reviewVars(ReanalyzeStaleDetections)
    /\ \A kind \in Kinds, f \in Flights :
          SF_reviewVars(\E w \in Workers, m \in queue : m.kind = kind /\ m.flight = f /\ StartTask(w, m))
    /\ \A w \in Workers : WF_reviewVars(WorkStep(w))

FairSpec == ReviewSpec /\ Fairness

-----------------------------------------------------------------------------
(* Properties *)

Adjudicating(d) == \E w \in Workers : Runs(w, "adjudicate") /\ d \in todo[w]
JudgedIsKept ==
    \A d \in Detections :
        verdict[d] \in Judged /\ verdict'[d] # verdict[d] =>
            Adjudicating(d) \/ verdict'[d] = "no_data" \/ redetections' # redetections

\* A verdict the judges agreed on is taken back only by a new detection, by an adjudication, or
\* by a measurement that found no elevation at all (post_processing.py:1262).
JudgedStays == [][JudgedIsKept]_reviewVars

\* Doubt does not stand still (post_processing.py:1282): while failures stay within the one
\* retry of the tasks, a weak detection is put before the judges or measured again.  (A flight
\* without a surface has none.)
WeakIsJudged ==
    \A d \in Detections : FlightOf[d] \notin NoDsm =>
        (verdict[d] = "weak" /\ ~votes[d] ~> verdict[d] # "weak" \/ votes[d])

\* What no run of the chain analyzes, and the flights it keeps from their turn: those that have
\* no more pending than another has for ever.
Hopeless(f) == IF f \in NoDsm THEN DetectionsOf(f) ELSE DetectionsOf(f) \cap Unanalyzable
Starved(f) ==
    \E g \in Public \ {f} : Hopeless(g) # {} /\ Cardinality(Pending(f)) <= Cardinality(Hopeless(g))

\* Claimed at maintenance.py:291-294, the watchdog brings every flight up to date, one at a
\* time.  In public what can be analyzed is, unless the flight is starved.
StaleIsAnalyzed ==
    \A d \in Detections \ Unanalyzable :
        FlightOf[d] \in Public \ NoDsm => (~roof[d] ~> roof[d] \/ Starved(FlightOf[d]))

=============================================================================
