----------------------------- MODULE MCDetections -----------------------------
(* The detections of an orthomosaic, each question from its own initial states while the     *)
(* others rest in one of theirs: the runs that write them (DetectionGenerations), the tasks  *)
(* that judge them (DetectionReview), the fiscal analysis made from them (FiscalReview) and  *)
(* the AI pipeline (AiPipeline).                                                             *)
EXTENDS DetectionGenerations, DetectionReview, FiscalReview, AiPipeline, TLC

CONSTANTS w1, w2, w3, v1, v2, f1, f2, d1, d2, b1, b2, p1, p2, a1, a2, r1, r2

VARIABLE part

\* Three writers: two that overlap and one before or after them.
MCWriters == {w1, w2, w3}
MCVersions == {v1, v2}

\* Two detections of one flight each; the roof of the second, which is a tenant's, cannot be analyzed.
MCFlights == {f1, f2}
MCPublic == {f1}
MCDetected == {d1, d2}
MCFlightOf == d1 :> f1 @@ d2 :> f2
MCUnanalyzable == {d2}
MCNoDsm == {}
MCWorkers == {w1, w2}

\* The first building stands on both parcels, the second on one of them; one parcel is registered
\* as built.
MCBuildings == {b1, b2}
MCParcels == {p1, p2}
Covers == b1 :> {p1, p2} @@ b2 :> {p2}
Compared == b1 :> (p1 :> {} @@ p2 :> {"under_declared", "height"}) @@
            b2 :> (p1 :> {} @@ p2 :> {"over_declared"})
MCBuilt == {p2}
MCAnalyses == {a1, a2}
MCReviewers == {r1, r2}

ASSUME FiscalAssumption /\ AiAssumption

WritersRest == WritersInit /\ version = [w \in Writers |-> v1]
FiscalRests == Init /\ home = "tenant" /\ gen = 0
AiRests == AiInit /\ mode = "local" /\ ~enabled /\ detector = "ml"

MCInit ==
    \/ part = "writers" /\ WritersInit /\ ReviewInit /\ FiscalRests /\ AiRests
    \/ part = "review" /\ ReviewInit /\ WritersRest /\ FiscalRests /\ AiRests
    \/ part = "fiscal" /\ Init /\ WritersRest /\ ReviewInit /\ AiRests
    \/ part = "ai" /\ AiInit /\ WritersRest /\ ReviewInit /\ FiscalRests

MCNext ==
    /\ UNCHANGED part
    /\ \/ part = "writers" /\ WritersNext /\ UNCHANGED <<reviewVars, vars, aiVars>>
       \/ part = "review" /\ ReviewNext /\ UNCHANGED <<writerVars, vars, aiVars>>
       \/ part = "fiscal" /\ Next /\ UNCHANGED <<writerVars, reviewVars, aiVars>>
       \/ part = "ai" /\ AiNext /\ UNCHANGED <<writerVars, reviewVars, vars>>

MCSpec == MCInit /\ [][MCNext]_<<part, writerVars, reviewVars, vars, aiVars>>
=============================================================================
