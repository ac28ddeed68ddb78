------------------------------- MODULE MCFlight -------------------------------
(* The surface of a flight, from three sides, each from its own initial states while the     *)
(* others rest in one of theirs: two launches of its processing (FlightProcessing), what its *)
(* runs leave on the map of the project (ProjectMap), and the heights the map and its tools  *)
(* show (SurfaceHeights).                                                                    *)
EXTENDS FlightProcessing, ProjectMap, SurfaceHeights, TLC

CONSTANTS f1, g1, r1, r2, q1, q2, q3, q4

VARIABLE part

MCFlights == {f1}
MCRuns == {r1, r2}
Symmetry == Permutations(MCRuns)

\* Two drone flights, an orthomosaic uploaded to the first, and its surface normalised again.
MCMapRuns == {q1, q2, q3, q4}
Kinds == q1 :> "drone" @@ q2 :> "drone" @@ q3 :> "upload" @@ q4 :> "normalize"
FlightOfRun == q1 :> f1 @@ q2 :> g1 @@ q3 :> f1 @@ q4 :> f1

\* Three pixels: below sea level, at it, within a step of the tile, and above the clamp of 200 m.
HalfStep == 512
MCElevations == {-3 * HalfStep, 0, 5 * HalfStep + 1, 12 * HalfStep + 3, 250 * HalfStep}
MCGrounds == {-3 * HalfStep, 2 * HalfStep + 1}
MCClamp == 200 * HalfStep

\* A coarser terrain model: one pixel within it, one between two of its own, one outside.
MCCells == 1..2
MCUnder == 1 :> <<1, 1>> @@ 2 :> <<1, 2>>
MCCovered == {1, 2}

ASSUME MapAssumption /\ HeightsAssumption

\* A surface without a single height.
NoSurface == HeightsInit /\ dsm = [p \in Pixels |-> Void] /\ dtm = NoModel

MCInit ==
    /\ Init /\ MapInit
    /\ \/ part = "runs" /\ NoSurface
       \/ part = "map" /\ ortho[f1] /\ NoSurface
       \/ part = "heights" /\ ortho[f1] /\ HeightsInit

MCNext ==
    /\ UNCHANGED part
    /\ \/ part = "runs" /\ Next /\ UNCHANGED <<mapVars, heightVars>>
       \/ part = "map" /\ MapNext /\ UNCHANGED <<vars, heightVars>>
       \/ part = "heights" /\ HeightsNext /\ UNCHANGED <<vars, mapVars>>

MCSpec == MCInit /\ [][MCNext]_<<part, vars, mapVars, heightVars>>
=============================================================================
