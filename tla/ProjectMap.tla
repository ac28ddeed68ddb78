------------------------------ MODULE ProjectMap ------------------------------
(* What the map of one project shows, and what its runs publish for it. A run stores files   *)
(* under names that are fixed per project (only a direct upload has a name of its own), then  *)
(* inserts rows for its flight; the follow-up extracts buildings from the file it finds under *)
(* the name. The map takes the newest row of the project and the file under that row's name.  *)
(* Rows of flights in the public schema; the rows of one transaction have one creation time.  *)
EXTENDS Integers, FiniteSets, TLC

CONSTANTS
    MapRuns,
    Kind,       \* Kind[r]: "drone", "upload" or "normalize"
    FlightOf,   \* the flight each run publishes for
    MaxFailures \* bound on the steps that fail

\* The types of a run of the pipeline, in the order in which they are stored.
Order == <<"orthomosaic", "dsm", "offset_xyz", "model_3d", "model_offset">>
DroneTypes == {Order[i] : i \in DOMAIN Order}

MapAssumption ==
    /\ "none" \notin MapRuns
    /\ Kind \in [MapRuns -> {"drone", "upload", "normalize"}]
    /\ DOMAIN FlightOf = MapRuns
    /\ MaxFailures \in Nat

VARIABLES
    object,    \* name in the store -> what it holds
    rows,      \* flight_assets
    step,      \* of each run
    made,      \* what each run has produced
    files,     \* what each run has stored
    clock,     \* transactions so far: the creation time of the next rows
    met,       \* two runs were under way at once
    broken     \* steps that failed

mapVars == <<object, rows, step, made, files, clock, met, broken>>

\* Names in the store: one per project and kind of file, and one per direct upload.
Shared(name) == <<name>>
Own(r) == <<"orthomosaic", r>>
Keys ==
    {Shared(name) : name \in {"orthophoto", "dsm", "dsm_normalized", "dsm_raw", "model_3d", "offset_xyz",
                              "model_offset", "footprints"}} \cup {Own(r) : r \in MapRuns}

\* A file: the run it was made from and, of a surface, whether it is relative to the ground.
File(r, relative) == [of |-> r, relative |-> relative]
Nothing == File("none", FALSE)

MapInit ==
    /\ object = [k \in Keys |-> Nothing]
    /\ rows = {}
    /\ step = [r \in MapRuns |-> "waiting"]
    /\ made = [r \in MapRuns |-> {}]
    /\ files = [r \in MapRuns |-> {}]
    /\ clock = 0 /\ met = FALSE /\ broken = 0

UnderWay(r) == step[r] \notin {"waiting", "done", "failed"}
Quiet == \A r \in MapRuns : ~UnderWay(r)
Goto(r, s) == step' = [step EXCEPT ![r] = s]

\* Mutant: a direct upload takes the name that the project's orthophoto has.
KeyOf_NoUuid(r, type) ==
    CASE type = "orthomosaic" -> Shared("orthophoto")
      [] type = "dsm" -> IF "offset_xyz" \in made[r] THEN Shared("dsm_normalized") ELSE Shared("dsm")
      [] OTHER -> Shared(type)

\* A surface that could not be normalised is published as it is, in absolute elevations.
KeyOf(r, type) ==
    CASE type = "orthomosaic" -> IF Kind[r] = "upload" THEN Own(r) ELSE Shared("orthophoto")
      [] type = "dsm" -> IF "offset_xyz" \in made[r] THEN Shared("dsm_normalized") ELSE Shared("dsm")
      [] OTHER -> Shared(type)

ContentOf(r, type) == File(r, type = "dsm" /\ "offset_xyz" \in made[r])

\* Mutant: the row takes the metadata of the surface before it was normalised.
Row_RawMinimum(r, type) ==
    [run |-> r, flight |-> FlightOf[r], type |-> type, key |-> KeyOf(r, type), at |-> clock,
     active |-> TRUE, source |-> IF type = "dsm" THEN "real" ELSE "none", grounded |-> FALSE]

\* The row; grounded: the minimum in its metadata is that of a surface relative to the ground.
Row(r, type) ==
    [run |-> r, flight |-> FlightOf[r], type |-> type, key |-> KeyOf(r, type), at |-> clock,
     active |-> TRUE, source |-> IF type = "dsm" THEN "real" ELSE "none",
     grounded |-> ContentOf(r, type).relative]

\* Whoever lists the rows of a type gets the retired ones too.
Of(type) == {x \in rows : x.type = type}
Newest(set) == {x \in set : \A y \in set : y.at <= x.at}
OfFlight(f, type) == {x \in Of(type) : x.flight = f}

Retire(f, types) ==
    {IF x.flight = f /\ x.type \in types THEN [x EXCEPT !.active = FALSE] ELSE x : x \in rows}

----------------------------------------------------------------------------
(* A run of the pipeline, and a direct upload. *)

\* The post-processing makes the assets: a dsm may fail to be normalised, a model to be converted.
Begin(r) ==
    /\ step[r] = "waiting" /\ Kind[r] \in {"drone", "upload"}
    /\ IF Kind[r] = "upload"
       THEN made' = [made EXCEPT ![r] = {"orthomosaic"}]
       ELSE \E got \in SUBSET DroneTypes :
              /\ "orthomosaic" \in got
              /\ "offset_xyz" \in got => "dsm" \in got
              /\ "model_3d" \in got <=> "model_offset" \in got
              /\ made' = [made EXCEPT ![r] = got]
    /\ Goto(r, "storing")
    /\ met' = (met \/ ~Quiet)
    /\ UNCHANGED <<object, rows, files, clock, broken>>

StoreFile(r) ==
    /\ step[r] = "storing"
    /\ \E i \in DOMAIN Order :
          /\ Order[i] \in made[r] \ files[r]
          /\ \A j \in 1..(i - 1) : Order[j] \notin made[r] \ files[r]
          /\ object' = [object EXCEPT ![KeyOf(r, Order[i])] = ContentOf(r, Order[i])]
          /\ files' = [files EXCEPT ![r] = @ \cup {Order[i]}]
    /\ UNCHANGED <<rows, step, made, clock, met, broken>>

\* _update_database_records: the flight's rows of the same types are retired, one commit.
PublishRows(r) ==
    /\ step[r] = "storing" /\ Kind[r] = "drone" /\ files[r] = made[r]
    /\ rows' = Retire(FlightOf[r], made[r]) \cup {Row(r, type) : type \in made[r]}
    /\ clock' = clock + 1
    /\ Goto(r, IF "dsm" \in made[r] THEN "extracting" ELSE "generating")
    /\ UNCHANGED <<object, made, files, met, broken>>

\* The upload inserts its row and retires nothing; a synthetic surface is queued.
UploadRow(r) ==
    /\ step[r] = "storing" /\ Kind[r] = "upload" /\ files[r] = made[r]
    /\ rows' = rows \cup {Row(r, "orthomosaic")}
    /\ clock' = clock + 1
    /\ Goto(r, "generating")
    /\ UNCHANGED <<object, made, files, met, broken>>

----------------------------------------------------------------------------
(* The follow-ups. *)

\* extract_buildings_from_real_dsm: buildings of the surface found under the name.
ExtractBuildings(r) ==
    /\ step[r] = "extracting"
    /\ object' = [object EXCEPT ![Shared("footprints")] = File(object[KeyOf(r, "dsm")].of, FALSE)]
    /\ Goto(r, "marking")
    /\ UNCHANGED <<rows, made, files, clock, met, broken>>

\* Every dsm row of the flight is marked real, the synthetic and the retired ones included.
MarkReal(r) ==
    /\ step[r] = "marking"
    /\ rows' = {IF x.flight = FlightOf[r] /\ x.type = "dsm" THEN [x EXCEPT !.source = "real"] ELSE x : x \in rows}
    /\ Goto(r, "done")
    /\ UNCHANGED <<object, made, files, clock, met, broken>>

\* generate_dsm_and_buildings: a surface and buildings of the orthomosaic under the name.
StoreSynthetic(r) ==
    /\ step[r] = "generating"
    /\ LET image == object[KeyOf(r, "orthomosaic")]
       IN  object' = [object EXCEPT ![Shared("dsm_raw")] = image, ![Shared("footprints")] = image]
    /\ Goto(r, "inserting")
    /\ UNCHANGED <<rows, made, files, clock, met, broken>>

InsertSynthetic(r) ==
    /\ step[r] = "inserting"
    /\ rows' = rows \cup {[run |-> r, flight |-> FlightOf[r], type |-> "dsm", key |-> Shared("dsm_raw"), at |-> clock,
                           active |-> TRUE, source |-> "synthetic", grounded |-> FALSE]}
    /\ clock' = clock + 1
    /\ Goto(r, "done")
    /\ UNCHANGED <<object, made, files, met, broken>>

----------------------------------------------------------------------------
(* normalize_and_process_real_dsm, queued by hand for a flight that has a surface. *)

NormalizeDsm(r) ==
    /\ step[r] = "waiting" /\ Kind[r] = "normalize"
    /\ \E x \in OfFlight(FlightOf[r], "dsm") :
          object' = [object EXCEPT ![Shared("dsm_normalized")] = File(object[x.key].of, TRUE),
                                      ![Shared("offset_xyz")] = File(r, FALSE)]
    /\ met' = TRUE
    /\ Goto(r, "updating")
    /\ UNCHANGED <<rows, made, files, clock, broken>>

\* All dsm rows of the flight get the name; the recorded minimum stays what it was.
UpdateDsmRows(r) ==
    /\ step[r] = "updating"
    /\ rows' = {IF x.flight = FlightOf[r] /\ x.type = "dsm"
                THEN [x EXCEPT !.key = Shared("dsm_normalized"), !.source = "real"] ELSE x : x \in rows}
    /\ Goto(r, "done")
    /\ UNCHANGED <<object, made, files, clock, met, broken>>

----------------------------------------------------------------------------
\* A step that raises: what was stored stays stored, and the run is not taken up again.
Fail(r) ==
    /\ UnderWay(r) /\ broken < MaxFailures
    /\ broken' = broken + 1
    /\ Goto(r, "failed")
    /\ UNCHANGED <<object, rows, made, files, clock, met>>

MapNext ==
    \E r \in MapRuns :
        \/ Begin(r) \/ StoreFile(r) \/ PublishRows(r) \/ UploadRow(r)
        \/ ExtractBuildings(r) \/ MarkReal(r) \/ StoreSynthetic(r) \/ InsertSynthetic(r)
        \/ NormalizeDsm(r) \/ UpdateDsmRows(r) \/ Fail(r)

MapSpec == MapInit /\ [][MapNext]_mapVars

----------------------------------------------------------------------------
(* What the endpoints answer. *)

RasterTile(x) == object[x.key].of
TerrainForProject == Newest(Of("dsm"))
TerrainForOrthomosaic(x) == Newest(OfFlight(x.flight, "dsm"))

\* Terrarium tiles: the surface under the row's name, lowered by the minimum of the row.
TerrainTile(x) == [surface |-> object[x.key].of, flat |-> object[x.key].relative /\ ~x.grounded]

\* The buildings lie beside the surface: "processing" as long as it has a row and they have no
\* file. Without a row the name that is tried instead is one that no run writes.
BuildingsForProject ==
    IF Of("dsm") = {} THEN "not_available"
    ELSE IF object[Shared("footprints")] = Nothing THEN "processing"
    ELSE object[Shared("footprints")].of

ModelForProject == Newest(Of("model_3d"))
OffsetForProject == Newest(Of("offset_xyz") \cup Of("model_offset"))

\* When nothing failed, no two runs met and none was normalised again by hand, the terrain of
\* the project is the newest run's, lowered by its own minimum, with the buildings of the same
\* run, and it is the terrain of every orthomosaic of that flight.
MapAgrees ==
    Quiet /\ ~met /\ broken = 0 =>
        \A x \in TerrainForProject :
            /\ TerrainTile(x) = [surface |-> x.run, flat |-> FALSE]
            /\ BuildingsForProject = x.run
            /\ \A o \in OfFlight(x.flight, "orthomosaic") : x \in TerrainForOrthomosaic(o)

\* A row has its file as soon as it is read, a direct upload keeps its own file for ever, and a
\* model is never shown without an offset as new as the model.
RowsServeFiles ==
    /\ \A x \in rows : object[x.key] # Nothing
    /\ \A x \in Of("orthomosaic") : Kind[x.run] = "upload" => RasterTile(x) = x.run
    /\ \A m \in ModelForProject : \E o \in OffsetForProject : o.at >= m.at
=============================================================================
