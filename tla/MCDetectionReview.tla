-------------------------- MODULE MCDetectionReview --------------------------
(* A flight of two detections, one without a surface whose detection nothing analyzes, and    *)
(* one worker.                                                                                *)
EXTENDS DetectionReview
CONSTANTS f1, f2, d1, d2, d3, w1
MCFlights == {f1, f2}
MCDetections == {d1, d2, d3}
MCFlightOf == [d \in MCDetections |-> IF d = d3 THEN f2 ELSE f1]
MCNoDsm == {f2}
MCWorkers == {w1}
MCNone == {}
=============================================================================
