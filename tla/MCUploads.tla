------------------------------ MODULE MCUploads ------------------------------
(* What a municipality brings in, each question from its own initial states: a file in       *)
(* chunks (ChunkedUpload) and the files of its parcels (ParcelImport).                       *)
EXTENDS ChunkedUpload, ParcelImport, TLC

CONSTANTS q1, q2, q3, c1, c2, i1, i2

VARIABLE part

\* Two parcels, the second not registered yet: lines that bring all, that leave values out, that
\* have no code, and that fail.
LineOf(c, names, size, shape) == [code |-> c, given |-> names, area |-> size, wkt |-> shape]
House == <<"house", 1>>
Plot == <<"plot", 1>>
Both == {"address", "owner"}

MCImports == {i1, i2}
MCRegistered == {House}
MCCsvLines ==
    {LineOf(House, Both, "given", "polygon"), LineOf(House, {"owner"}, "missing", "none"),
     LineOf(Plot, {"address"}, "text", "point"), LineOf(Plot, Both, "given", "broken"),
     LineOf(<<>>, Both, "given", "polygon")}
MCFeatures ==
    {LineOf(House, {"owner"}, "given", "polygon"), LineOf(Plot, Both, "missing", "polygon"),
     LineOf(<<>>, {"address"}, "given", "polygon"), LineOf(House, Both, "given", "none"),
     LineOf(Plot, {"owner"}, "text", "polygon")}

ASSUME ImportAssumption

\* While chunks are sent, the files of the parcels are empty and wait.
MCInit ==
    \/ part = "upload" /\ Init /\ ImportInit
       /\ \A i \in Imports : imp[i].kind = "csv" /\ imp[i].header /\ imp[i].lines = <<>>
    \/ part = "import" /\ ImportInit /\ Init

MCNext ==
    /\ UNCHANGED part
    /\ \/ part = "upload" /\ Next /\ UNCHANGED importVars
       \/ part = "import" /\ ImportNext /\ UNCHANGED vars

MCSpec == MCInit /\ [][MCNext]_<<part, vars, importVars>>

\* The client counts from one.
MCStrays == {2}
MCSenders == {q1, q2, q3}
MCCompleters == {c1, c2}
Symmetry == Permutations(MCSenders) \cup Permutations(MCCompleters)
=============================================================================
