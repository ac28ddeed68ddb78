--------------------------- MODULE MCProgressStream ---------------------------
(* One stream: streams share nothing but what they read. *)
EXTENDS ProgressStream
CONSTANTS s1
MCStreams == {s1}
=============================================================================
