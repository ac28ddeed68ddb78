---------------------------- MODULE ProgressStream ----------------------------
(***************************************************************************)
(* The progress of one Celery task on its way to the clients that watch it *)
(* (core/pubsub.py, api/v1/websocket.py).  publish_progress PUBLISHes an   *)
(* event to whoever is subscribed and then stores it as the last known     *)
(* state; a WebSocket handler sends the last known state, sends it again   *)
(* on entering subscribe_progress, subscribes, and relays until a final    *)
(* stage, 20 timeouts without a message, a silent client or a closed       *)
(* connection.                                                             *)
(*                                                                         *)
(* An event is its place in log, the sequence of stages the task reports.  *)
(* Bounds: MaxEvents events, LostWorkers redeliveries.                     *)
(***************************************************************************)
EXTENDS Naturals, Sequences

CONSTANTS
    Streams,
    MaxEvents,        \* bound
    LostWorkers,      \* bound
    ReporterRetries,  \* max_retries of the task; 0 for the tasks that only raise
    FailureStage,     \* the stage the task reports when it fails: "failed" or "error"
    IdleLimit         \* timeouts in a row a stream waits out

ASSUME ProgressStreamAssumption ==
    /\ MaxEvents \in Nat \ {0}
    /\ LostWorkers \in Nat
    /\ ReporterRetries \in Nat
    /\ FailureStage \in {"failed", "error"}
    /\ IdleLimit \in Nat

VARIABLES
    reporter, \* the Celery task
    again,
    lost,
    log,      \* the events reported so far
    half,     \* how far publish_progress is with the last of them
    sent,     \* the last event PUBLISHed
    state,    \* the event in cm_techmap:state, 0 when there is none
    pc,       \* where each stream is, and why it closed
    next,     \* the next event of its subscription
    last,     \* the last event sent to the client, 0 for none
    idle      \* timeouts without a message

reporterVars == <<reporter, again, lost>>
redisVars == <<log, half, sent, state>>
streamVars == <<pc, next, last, idle>>
progressVars == <<reporterVars, redisVars, streamVars>>

Open == {"connecting", "known", "subscribing", "live"}
Closed == {"final", "idle", "silent", "lost", "left"}
FinalStages == {"completed", "failed", "canceled"}
IsFinal(e) == e # 0 /\ log[e] \in FinalStages
Reportable == {"progress", "completed", FailureStage}

StreamTypeOK ==
    /\ reporter \in {"running", "succeeded", "failed"}
    /\ again \in 0..ReporterRetries
    /\ lost \in 0..LostWorkers
    /\ log \in Seq(Reportable) /\ Len(log) <= MaxEvents
    /\ half \in {"none", "new", "published"}
    /\ sent \in 0..Len(log)
    /\ state \in 0..sent
    /\ pc \in [Streams -> Open \cup Closed]
    /\ next \in [Streams -> 0..(MaxEvents + 1)]
    /\ last \in [Streams -> 0..sent]
    /\ idle \in [Streams -> 0..IdleLimit]

StreamInit ==
    /\ reporter = "running" /\ again = 0 /\ lost = 0
    /\ log = <<>> /\ half = "none" /\ sent = 0 /\ state = 0
    /\ pc = [s \in Streams |-> "connecting"]
    /\ next = [s \in Streams |-> 0]
    /\ last = [s \in Streams |-> 0]
    /\ idle = [s \in Streams |-> 0]

-----------------------------------------------------------------------------
(* publish_progress, and the task that calls it *)

\* What the task does once the call for its last event has returned.
GoOn(stage) ==
    CASE stage = "progress" -> UNCHANGED <<reporter, again>>
      [] stage = "completed" -> reporter' = "succeeded" /\ UNCHANGED again
      [] stage = FailureStage /\ again < ReporterRetries -> again' = again + 1 /\ UNCHANGED reporter
      [] OTHER -> reporter' = "failed" /\ UNCHANGED again

\* The task calls publish_progress.
Report(stage) ==
    /\ reporter = "running" /\ half = "none"
    /\ Len(log) < MaxEvents
    /\ log' = Append(log, stage)
    /\ half' = "new"
    /\ UNCHANGED <<reporterVars, sent, state, streamVars>>

Publish ==
    /\ half = "new"
    /\ sent' = Len(log)
    /\ half' = "published"
    /\ UNCHANGED <<reporterVars, log, state, streamVars>>

\* SETEX, or its failure, which is logged.
StoreState ==
    /\ half = "published"
    /\ state' \in {state, Len(log)}
    /\ half' = "none"
    /\ GoOn(log[Len(log)])
    /\ UNCHANGED <<lost, log, sent, streamVars>>

\* PUBLISH fails and SETEX is skipped: nobody hears of the event.
PublishFails ==
    /\ half = "new"
    /\ log' = SubSeq(log, 1, Len(log) - 1)
    /\ half' = "none"
    /\ GoOn(log[Len(log)])
    /\ UNCHANGED <<lost, sent, state, streamVars>>

\* The worker is lost at any step, and the task delivered again.
LoseReporter ==
    /\ reporter = "running" /\ lost < LostWorkers
    /\ lost' = lost + 1
    /\ log' = SubSeq(log, 1, sent)
    /\ half' = "none"
    /\ UNCHANGED <<reporter, again, sent, state, streamVars>>

\* The hard time limit ends the task without a word.
StopReporter ==
    /\ reporter = "running"
    /\ reporter' = "failed"
    /\ log' = SubSeq(log, 1, sent)
    /\ half' = "none"
    /\ UNCHANGED <<again, lost, sent, state, streamVars>>

\* One hour after the last event.
ExpireState ==
    /\ reporter # "running" /\ state # 0
    /\ state' = 0
    /\ UNCHANGED <<reporterVars, log, half, sent, streamVars>>

-----------------------------------------------------------------------------
(* A stream *)

\* The client gets event e: a final stage closes the connection.
Tell(s, e, then) ==
    /\ last' = [last EXCEPT ![s] = IF e = 0 THEN @ ELSE e]
    /\ pc' = [pc EXCEPT ![s] = IF IsFinal(e) THEN "final" ELSE then]

\* The handler sends the last known state, if Redis has it and answers.
SendKnown(s) ==
    /\ pc[s] = "connecting"
    /\ \E e \in {0, state} : Tell(s, e, "known")
    /\ UNCHANGED <<reporterVars, redisVars, next, idle>>

\* subscribe_progress begins with the same state, or with what it is by now.
SendKnownAgain(s) ==
    /\ pc[s] = "known"
    /\ Tell(s, state, "subscribing")
    /\ UNCHANGED <<reporterVars, redisVars, next, idle>>

SubscribeToLast(s) ==
    /\ pc[s] = "subscribing"
    /\ pc' = [pc EXCEPT ![s] = "live"]
    /\ next' = [next EXCEPT ![s] = IF sent = 0 THEN 1 ELSE sent]
    /\ UNCHANGED <<reporterVars, redisVars, last, idle>>

\* From here on the stream gets what is PUBLISHed, and nothing of before.
Subscribe(s) ==
    /\ pc[s] = "subscribing"
    /\ pc' = [pc EXCEPT ![s] = "live"]
    /\ next' = [next EXCEPT ![s] = sent + 1]
    /\ UNCHANGED <<reporterVars, redisVars, last, idle>>

Receive(s) ==
    /\ pc[s] = "live"
    /\ next[s] <= sent
    /\ Tell(s, next[s], "live")
    /\ next' = [next EXCEPT ![s] = @ + 1]
    /\ idle' = [idle EXCEPT ![s] = 0]
    /\ UNCHANGED <<reporterVars, redisVars>>

IdleUncounted(s) ==
    /\ pc[s] = "live" /\ next[s] > sent
    /\ UNCHANGED progressVars

\* 30 seconds without a message, and after IdleLimit of them the task is taken for dead.
IdleTimeout(s) ==
    /\ pc[s] = "live" /\ next[s] > sent
    /\ IF idle[s] < IdleLimit THEN idle' = [idle EXCEPT ![s] = @ + 1] /\ UNCHANGED pc
                              ELSE pc' = [pc EXCEPT ![s] = "idle"] /\ UNCHANGED idle
    /\ UNCHANGED <<reporterVars, redisVars, next, last>>

\* Redis refuses the connection: the client gets an error of its own and the stream ends.
LoseRedis(s) ==
    /\ pc[s] \in {"known", "subscribing"}
    /\ pc' = [pc EXCEPT ![s] = "lost"]
    /\ UNCHANGED <<reporterVars, redisVars, next, last, idle>>

Serving == {"known", "subscribing", "live"}

\* Ten minutes without a word of the client end the handler, whatever it was sent.
ClientSilent(s) ==
    /\ pc[s] \in Serving
    /\ pc' = [pc EXCEPT ![s] = "silent"]
    /\ UNCHANGED <<reporterVars, redisVars, next, last, idle>>

ClientLeaves(s) ==
    /\ pc[s] \in Open
    /\ pc' = [pc EXCEPT ![s] = "left"]
    /\ UNCHANGED <<reporterVars, redisVars, next, last, idle>>

StreamStep(s) ==
    SendKnown(s) \/ SendKnownAgain(s) \/ Subscribe(s) \/ Receive(s) \/ IdleTimeout(s)

PublishStep ==
    \/ \E stage \in Reportable : Report(stage)
    \/ Publish \/ StoreState \/ PublishFails

StreamNext ==
    \/ PublishStep \/ LoseReporter \/ StopReporter \/ ExpireState
    \/ \E s \in Streams :
          StreamStep(s) \/ LoseRedis(s) \/ ClientSilent(s) \/ ClientLeaves(s)

\* The event loop comes back to every stream, and Redis answers again: no step of a stream
\* waits for another stream.
Fairness == \A s \in Streams : WF_progressVars(StreamStep(s))

StreamSpec == StreamInit /\ [][StreamNext]_progressVars
FairSpec == StreamSpec /\ Fairness

-----------------------------------------------------------------------------
(* Properties *)

\* A message of the subscription is news: publishing before storing means that no event
\* comes both as the known state and live, and that no client goes back.
LiveIsNew ==
    [][\A s \in Streams : next'[s] # next[s] /\ pc[s] = "live" => last'[s] > last[s]]_progressVars

\* A stream ends, also when the task died, ended without a final stage or the stream came
\* too late for it.
StreamEnds == \A s \in Streams : <>(pc[s] \in Closed)

=============================================================================
