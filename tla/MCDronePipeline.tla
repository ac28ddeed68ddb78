--------------------------- MODULE MCDronePipeline ---------------------------
(* One or two jobs, each sent with either upload and either flight or none. *)
EXTENDS DronePipeline, TLC
CONSTANTS j1, j2, u1, u2, f1, f2
MCJobs == {j1, j2}
MCOneJob == {j1}
MCUploads == {u1, u2}
MCFlights == {f1, f2}
Symmetry == Permutations(MCJobs) \cup Permutations(MCUploads) \cup Permutations(MCFlights)
=============================================================================
