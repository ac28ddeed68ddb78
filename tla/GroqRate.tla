------------------------------ MODULE GroqRate ------------------------------
(***************************************************************************)
(* The admission guard, the adaptive factor and the circuit breaker that   *)
(* all processes calling the Groq service share in Redis                   *)
(* (services/groq_rate_control.py), and the calls that pass through them   *)
(* (services/groq_inference.py).                                           *)
(*                                                                         *)
(* Each command sent to Redis is a step of its own; a pipeline is one      *)
(* MULTI/EXEC step.  The adaptive state is one JSON value that is read,    *)
(* changed by the process and written back whole.                          *)
(*                                                                         *)
(* The utilization factor is a level from 0 (groq_min_utilization_factor)  *)
(* to Top (1.0), and the limits are given per level.  Time is counted in   *)
(* minutes, the window of the budget; a bucket outlives its minute (130    *)
(* seconds), so buckets are never removed.  Bound: MaxMinute.              *)
(***************************************************************************)
EXTENDS Integers, FiniteSets, Functions, FiniteSetsExt

CONSTANTS
    Calls,         \* the calls of _chat_with_retries
    Entities,      \* tenant:..., project:...
    NoEntity,
    EntityOf,      \* the fairness entity of each call, or NoEntity
    NoCall,
    BaseOf,        \* the call whose result this one refines by tiles, or NoCall
    Cost,          \* estimated input tokens + maximal output tokens
    Top,
    Drop,          \* levels lost by a 429
    Rpm, Tpm,      \* the limits of a minute at each level of the factor
    EntityRpm, EntityTpm,
    MaxRetries,
    BreakerFailures,
    OpenMinutes,
    MaxMinute

Levels == 0..Top
Minutes == 0..MaxMinute

ASSUME ConstantsAssumption ==
    /\ Top \in Nat /\ Drop \in Nat /\ MaxMinute \in Nat /\ OpenMinutes \in Nat
    /\ IsFiniteSet(Calls) /\ MaxRetries \in Nat /\ BreakerFailures \in Nat \ {0}
    /\ NoEntity \notin Entities /\ EntityOf \in [Calls -> Entities \cup {NoEntity}]
    /\ NoCall \notin Calls /\ BaseOf \in [Calls -> Calls \cup {NoCall}]
    /\ Cost \in [Calls -> Nat \ {0}]
    /\ \A limit \in {Rpm, Tpm, EntityRpm, EntityTpm} : limit \in [Levels -> Nat \ {0}]

\* The limits grow with the factor.
ASSUME LimitsAssumption ==
    \A limit \in {Rpm, Tpm, EntityRpm, EntityTpm} : \A l \in Levels : limit[l] <= limit[Top]

VARIABLES
    minute,
    req, tok,        \* the buckets of each minute
    entReq, entTok,  \* the buckets of each entity and minute
    adaptive,        \* STATE_KEY: utilization_factor and consecutive_failures
    openUntil,       \* CB_KEY: the circuit is open before this minute
    pc,
    window,          \* now_minute, as each call read it
    ticket,          \* what INCR returned to it: requests and tokens
    entWindow, entTicket,
    seen,            \* the adaptive state it read
    attempt,
    throttled,       \* its last error was a 429
    failed,          \* history: attempts that failed, counted up to BreakerFailures
    late             \* history: attempts of each call begun while the circuit has been open

redis == <<req, tok, entReq, entTok, adaptive, openUntil>>
locals == <<window, ticket, entWindow, entTicket, seen, attempt, throttled>>
history == <<failed, late>>
vars == <<minute, redis, pc, locals, history>>

Final == {"denied", "failed", "done"}
PCs == {"start", "reserve", "decide", "reserve_entity", "decide_entity", "calling", "feedback",
        "answered", "success", "failure", "opened", "recorded", "sleeping"} \cup Final

Ticket == [req : Nat, tok : Nat]
Adaptive == [factor : Levels, failures : Nat]

TypeOK ==
    /\ minute \in Minutes
    /\ req \in [Minutes -> Nat] /\ tok \in [Minutes -> Nat]
    /\ entReq \in [Entities -> [Minutes -> Nat]] /\ entTok \in [Entities -> [Minutes -> Nat]]
    /\ adaptive \in Adaptive /\ openUntil \in Nat
    /\ pc \in [Calls -> PCs]
    /\ window \in [Calls -> Minutes] /\ entWindow \in [Calls -> Minutes]
    /\ ticket \in [Calls -> Ticket] /\ entTicket \in [Calls -> Ticket]
    /\ seen \in [Calls -> Adaptive]
    /\ attempt \in [Calls -> Nat] /\ throttled \in [Calls -> BOOLEAN]
    /\ failed \in Nat /\ late \in [Calls -> Nat]

NoTicket == [req |-> 0, tok |-> 0]
Fresh == [factor |-> Top, failures |-> 0]

Init ==
    /\ minute = 0
    /\ req = [m \in Minutes |-> 0] /\ tok = [m \in Minutes |-> 0]
    /\ entReq = [e \in Entities |-> [m \in Minutes |-> 0]]
    /\ entTok = [e \in Entities |-> [m \in Minutes |-> 0]]
    /\ adaptive = Fresh /\ openUntil = 0
    /\ pc = [c \in Calls |-> "start"]
    /\ window = [c \in Calls |-> 0] /\ entWindow = [c \in Calls |-> 0]
    /\ ticket = [c \in Calls |-> NoTicket] /\ entTicket = [c \in Calls |-> NoTicket]
    /\ seen = [c \in Calls |-> Fresh]
    /\ attempt = [c \in Calls |-> 0] /\ throttled = [c \in Calls |-> FALSE]
    /\ failed = 0 /\ late = [c \in Calls |-> 0]

Lower(a, b) == IF a < b THEN a ELSE b

CircuitOpen == openUntil > minute

GoTo(c, from, to) == pc[c] = from /\ pc' = [pc EXCEPT ![c] = to]

-----------------------------------------------------------------------------
(* Admission *)

\* A call with tiles starts when the call it refines has its answer.
Start(c) ==
    /\ BaseOf[c] # NoCall => pc[BaseOf[c]] = "done"
    /\ GoTo(c, "start", IF CircuitOpen THEN "denied" ELSE "reserve")
    /\ window' = [window EXCEPT ![c] = minute]
    /\ UNCHANGED <<minute, redis, ticket, entWindow, entTicket, seen, attempt, throttled, history>>

\* A mutant: the counters are read before the increment, not by it.
ReserveUnpiped(c) ==
    LET m == window[c] IN
    /\ GoTo(c, "reserve", "decide")
    /\ req' = [req EXCEPT ![m] = @ + 1]
    /\ tok' = [tok EXCEPT ![m] = @ + Cost[c]]
    /\ ticket' = [ticket EXCEPT ![c] = [req |-> req[m], tok |-> tok[m]]]
    /\ UNCHANGED <<minute, entReq, entTok, adaptive, openUntil, window, entWindow, entTicket,
                   seen, attempt, throttled, history>>

\* One pipeline increments both buckets: what is refused afterwards stays counted.
Reserve(c) ==
    LET m == window[c] IN
    /\ GoTo(c, "reserve", "decide")
    /\ req' = [req EXCEPT ![m] = @ + 1]
    /\ tok' = [tok EXCEPT ![m] = @ + Cost[c]]
    /\ ticket' = [ticket EXCEPT ![c] = [req |-> req[m] + 1, tok |-> tok[m] + Cost[c]]]
    /\ UNCHANGED <<minute, entReq, entTok, adaptive, openUntil, window, entWindow, entTicket,
                   seen, attempt, throttled, history>>

\* The first attempt of an admitted call follows at once.
Admit(c) ==
    /\ attempt' = [attempt EXCEPT ![c] = 1]
    /\ late' = [late EXCEPT ![c] = IF CircuitOpen THEN @ + 1 ELSE @]

Within(t, requests, tokens) == t.req <= requests /\ t.tok <= tokens
Decide(c) ==
    LET f == adaptive.factor
        granted == Within(ticket[c], Rpm[f], Tpm[f])
    IN
    /\ GoTo(c, "decide",
            IF ~granted THEN "denied"
            ELSE IF EntityOf[c] = NoEntity THEN "calling" ELSE "reserve_entity")
    /\ IF granted /\ EntityOf[c] = NoEntity
       THEN Admit(c) /\ UNCHANGED entWindow
       ELSE entWindow' = [entWindow EXCEPT ![c] = minute] /\ UNCHANGED <<attempt, late>>
    /\ UNCHANGED <<minute, redis, window, ticket, entTicket, seen, throttled, failed>>

ReserveEntity(c) ==
    LET e == EntityOf[c]
        m == entWindow[c]
    IN
    /\ GoTo(c, "reserve_entity", "decide_entity")
    /\ entReq' = [entReq EXCEPT ![e][m] = @ + 1]
    /\ entTok' = [entTok EXCEPT ![e][m] = @ + Cost[c]]
    /\ entTicket' = [entTicket EXCEPT
          ![c] = [req |-> entReq[e][m] + 1, tok |-> entTok[e][m] + Cost[c]]]
    /\ UNCHANGED <<minute, req, tok, adaptive, openUntil, window, ticket, entWindow,
                   seen, attempt, throttled, history>>

DecideEntity(c) ==
    LET f == adaptive.factor
        granted == Within(entTicket[c], EntityRpm[f], EntityTpm[f])
    IN
    /\ GoTo(c, "decide_entity", IF granted THEN "calling" ELSE "denied")
    /\ IF granted THEN Admit(c) ELSE UNCHANGED <<attempt, late>>
    /\ UNCHANGED <<minute, redis, window, ticket, entWindow, entTicket, seen, throttled, failed>>

-----------------------------------------------------------------------------
(* Attempts *)

Read(c) == seen' = [seen EXCEPT ![c] = adaptive]

\* A copy that was written back is used no more.
Forget(c) == seen' = [seen EXCEPT ![c] = Fresh]

\* An answer, with or without rate headers; the state is read for what follows.
Answer(c) ==
    /\ \E next \in {"feedback", "success"} : GoTo(c, "calling", next)
    /\ Read(c)
    /\ UNCHANGED <<minute, redis, window, ticket, entWindow, entTicket, attempt, throttled, history>>

\* remember_headers: the remaining share of the tokens may lower the factor, never raise it.
WriteFeedback(c) ==
    /\ GoTo(c, "feedback", "answered")
    /\ \E target \in Levels :
          adaptive' = [seen[c] EXCEPT !.factor = Lower(@, target)]
    /\ Forget(c)
    /\ UNCHANGED <<minute, req, tok, entReq, entTok, openUntil, window, ticket, entWindow, entTicket,
                   attempt, throttled, history>>

ReadForSuccess(c) ==
    /\ GoTo(c, "answered", "success")
    /\ Read(c)
    /\ UNCHANGED <<minute, redis, window, ticket, entWindow, entTicket, attempt, throttled, history>>

WriteSuccess(c) ==
    /\ GoTo(c, "success", "done")
    /\ adaptive' = [factor |-> Lower(Top, seen[c].factor + 1), failures |-> 0]
    /\ Forget(c)
    /\ UNCHANGED <<minute, req, tok, entReq, entTok, openUntil, window, ticket, entWindow, entTicket,
                   attempt, throttled, history>>

\* An error of any kind, a 429 or another, of the service or in reading its answer.
Fail(c) ==
    /\ \E from \in {"calling", "answered"} : GoTo(c, from, "failure")
    /\ Read(c)
    /\ \E is429 \in BOOLEAN : throttled' = [throttled EXCEPT ![c] = is429]
    /\ failed' = Lower(failed + 1, BreakerFailures)
    /\ UNCHANGED <<minute, redis, window, ticket, entWindow, entTicket, attempt, late>>

\* A 429 lowers the factor, to its minimum at most.
Decreased(f) == IF f > Drop THEN f - Drop ELSE 0

Tripped(c) == seen[c].failures + 1 >= BreakerFailures

\* record_failure sets the breaker's key first ...
OpenCircuit(c) ==
    /\ Tripped(c)
    /\ GoTo(c, "failure", "opened")
    /\ openUntil' = minute + OpenMinutes
    /\ late' = IF CircuitOpen THEN late ELSE [d \in Calls |-> 0]
    /\ UNCHANGED <<minute, req, tok, entReq, entTok, adaptive, locals, failed>>

\* ... and writes back the state it has read, whatever others wrote since.
WriteFailure(c) ==
    /\ \/ GoTo(c, "opened", "recorded")
       \/ ~Tripped(c) /\ GoTo(c, "failure", "recorded")
    /\ adaptive' = [factor |-> IF throttled[c] THEN Decreased(seen[c].factor) ELSE seen[c].factor,
                    failures |-> seen[c].failures + 1]
    /\ Forget(c)
    /\ throttled' = [throttled EXCEPT ![c] = FALSE]
    /\ UNCHANGED <<minute, req, tok, entReq, entTok, openUntil, window, ticket, entWindow, entTicket,
                   attempt, history>>

\* A mutant: the loop does not look at the breaker.
AfterFailureUnchecked(c) ==
    /\ GoTo(c, "recorded", "sleeping")
    /\ UNCHANGED <<minute, redis, locals, history>>

\* The loop breaks when the circuit is open; otherwise it sleeps, after the last attempt too.
AfterFailure(c) ==
    /\ GoTo(c, "recorded", IF CircuitOpen THEN "failed" ELSE "sleeping")
    /\ UNCHANGED <<minute, redis, locals, history>>

\* A mutant: the attempts are not counted.
RetryUncounted(c) ==
    /\ GoTo(c, "sleeping", "calling")
    /\ late' = [late EXCEPT ![c] = IF CircuitOpen THEN @ + 1 ELSE @]
    /\ UNCHANGED <<minute, redis, locals, failed>>

\* The next attempt asks neither the guard nor the breaker.
Retry(c) ==
    /\ attempt[c] < MaxRetries
    /\ GoTo(c, "sleeping", "calling")
    /\ attempt' = [attempt EXCEPT ![c] = @ + 1]
    /\ late' = [late EXCEPT ![c] = IF CircuitOpen THEN @ + 1 ELSE @]
    /\ UNCHANGED <<minute, redis, window, ticket, entWindow, entTicket, seen, throttled, failed>>

GiveUp(c) ==
    /\ attempt[c] >= MaxRetries
    /\ GoTo(c, "sleeping", "failed")
    /\ UNCHANGED <<minute, redis, locals, history>>

Tick ==
    /\ minute < MaxMinute
    /\ minute' = minute + 1
    /\ late' = IF openUntil > minute + 1 THEN late ELSE [c \in Calls |-> 0]
    /\ UNCHANGED <<redis, pc, locals, failed>>

Step(c) ==
    \/ Start(c) \/ Reserve(c) \/ Decide(c) \/ ReserveEntity(c) \/ DecideEntity(c)
    \/ Answer(c) \/ WriteFeedback(c) \/ ReadForSuccess(c) \/ WriteSuccess(c)
    \/ Fail(c) \/ OpenCircuit(c) \/ WriteFailure(c) \/ AfterFailure(c)
    \/ Retry(c) \/ GiveUp(c)

Next == Tick \/ \E c \in Calls : Step(c)

Spec == Init /\ [][Next]_vars

\* A process goes on with its call, and the client's own timeout ends every attempt.
FairSpec == Spec /\ \A c \in Calls : WF_vars(Step(c))

-----------------------------------------------------------------------------
(* Properties *)

Admitted(c) == attempt[c] > 0
AdmittedIn(m) == {c \in Calls : Admitted(c) /\ window[c] = m}

\* However the calls of a minute interleave, and whatever the factor was when each was
\* decided, no more of them are admitted than the full limit of a minute.
RequestsWithinLimit ==
    \A m \in Minutes : Cardinality(AdmittedIn(m)) <= Rpm[Top]

\* The same for the tokens they reserved.
TokensWithinLimit ==
    \A m \in Minutes : MapThenSumSet(LAMBDA c : Cost[c], AdmittedIn(m)) <= Tpm[Top]

\* No entity is admitted beyond its own share of a minute, in requests or in tokens.
EntityWithinShare ==
    \A e \in Entities, m \in Minutes :
        LET own == {c \in Calls : Admitted(c) /\ EntityOf[c] = e /\ entWindow[c] = m} IN
        /\ Cardinality(own) <= EntityRpm[Top]
        /\ MapThenSumSet(LAMBDA c : Cost[c], own) <= EntityTpm[Top]

\* The read-modify-write of the state loses failures, and successes, but never invents one:
\* the circuit has been opened only if so many attempts have failed.
OpenNeedsFailures == openUntil > 0 => failed = BreakerFailures

\* The budgets of a minute hold, of the service and of every entity.
WithinLimits == RequestsWithinLimit /\ TokensWithinLimit /\ EntityWithinShare

\* A retry does not ask the breaker, so an attempt may begin while the circuit is open; but
\* no call begins two of them before the circuit closes.
OneLateAttempt == \A c \in Calls : CircuitOpen => late[c] <= 1

\* The breaker opens for a reason, and an open breaker stops every call after one attempt.
BreakerHolds == OpenNeedsFailures /\ OneLateAttempt

\* What the guard promises of every minute and of every failure.
GuardHolds == WithinLimits /\ BreakerHolds

\* Every call returns, admitted or not, whatever the service answers.
CallsReturn == \A c \in Calls : pc[c] # "start" ~> pc[c] \in Final

=============================================================================
