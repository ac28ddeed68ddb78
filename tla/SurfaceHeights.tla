---------------------------- MODULE SurfaceHeights ----------------------------
(* The heights of one surface on their way to the map: normalize_dsm makes them relative to   *)
(* the ground, extract_elevation_stats records their minimum, the terrain tiles subtract that *)
(* minimum, and the tools of the map read the file again, each with its own idea of what a    *)
(* pixel without data is. Heights count in steps of half the step of a Terrarium tile.        *)
EXTENDS Integers, FiniteSetsExt

CONSTANTS
    Width,       \* the number of pixels, those under one line drawn on the map
    Elevations,  \* of the photogrammetric surface
    Grounds,     \* of the terrain model
    Cells,       \* the pixels of a terrain model of another shape,
    Under,       \* the two of them that weigh on a pixel of the surface,
    Covered,     \* which the others have none of
    Metre,       \* steps of one metre: 512, half the step of a tile
    Clamp        \* max_height_clamp, and max_relative_elev of a real surface

Pixels == 1..Width

\* nodata of the photogrammetric rasters, the abyss of a masked pixel in a Terrarium tile, and
\* the elevation below which a pixel of a tile is taken for one.
Void == -9999 * Metre
Abyss == -32768 * Metre
AbyssLimit == -100 * Metre

HeightsAssumption ==
    /\ Width \in Nat \ {0} /\ Metre = 512 /\ Clamp \in Nat
    /\ \A e \in Elevations \cup Grounds : e \in Int /\ e > AbyssLimit
    /\ Cells # Pixels /\ Covered \subseteq Pixels /\ Under \in [Covered -> Cells \X Cells]

VARIABLES
    dsm,     \* the surface
    dtm,     \* the terrain model, of the surface's shape or another, or none
    file,    \* the published raster
    nodata,  \* the value that means no data in it
    base,    \* min_elevation_m of its row
    stage,   \* "raw", "written", "published" or "failed"
    again    \* normalised a second time, by normalize_and_process_real_dsm

heightVars == <<dsm, dtm, file, nodata, base, stage, again>>

NoModel == <<>>

HeightsInit ==
    /\ dsm \in [Pixels -> Elevations \cup {Void}]
    /\ dtm \in [Pixels -> Grounds \cup {Void}] \cup [Cells -> Grounds \cup {Void}] \cup {NoModel}
    /\ file = NoModel /\ nodata = Void /\ base = 0 /\ stage = "raw" /\ again = FALSE

Clip(v, low, high) == IF v < low THEN low ELSE IF v > high THEN high ELSE v
Valid(raster, void) == {p \in Pixels : raster[p] # void}
Lowest(raster, void) == Min({raster[p] : p \in Valid(raster, void)})

SameShape == DOMAIN dtm = Pixels
Near(p, i) == dtm[Under[p][i]]

\* A model of another shape is resampled without a word of its nodata: what is between a pixel
\* with data and one without becomes an elevation deep below, what is outside the model 0.
Terrain(p) ==
    IF SameShape THEN dtm[p]
    ELSE IF p \in Covered THEN (Near(p, 1) + Near(p, 2)) \div 2 ELSE 0

\* Height above the terrain model where both have data; without one, above the lowest pixel.
Ground(p) == IF dtm = NoModel THEN Lowest(dsm, Void) ELSE Terrain(p)
HasHeight(p) == dsm[p] # Void /\ (dtm # NoModel => Terrain(p) # Void)

\* Mutant: what has no data is taken below the ground, and not clipped with the rest.
Normalized_Unmasked == [p \in Pixels |-> Clip(dsm[p] - Ground(p), -Clamp, Clamp)]

\* The pixels without height get 0, which becomes the nodata of the file.
Normalized == [p \in Pixels |-> IF HasHeight(p) THEN Clip(dsm[p] - Ground(p), 0, Clamp) ELSE 0]

\* What the first normalisation raises on: no valid pixel, or (the range that is logged, and
\* the minimum of the file) none with a height or none above the ground.
NormalizeSurface ==
    /\ stage = "raw"
    /\ IF Valid(dsm, Void) # {} /\ \E p \in Pixels : HasHeight(p) /\ dsm[p] > Ground(p)
       THEN file' = Normalized /\ nodata' = 0 /\ stage' = "written"
       ELSE file' = dsm /\ nodata' = Void /\ stage' = "written"
    /\ UNCHANGED <<dsm, dtm, base, again>>

\* The normalisation fails for another reason: the surface is published as it is.
FallBackToRaw ==
    /\ stage = "raw"
    /\ file' = dsm /\ nodata' = Void /\ stage' = "written"
    /\ UNCHANGED <<dsm, dtm, base, again>>

\* extract_elevation_stats: an empty raster has no minimum, and the run fails.
ExtractElevationStats ==
    /\ stage = "written"
    /\ IF Valid(file, nodata) = {} THEN stage' = "failed" /\ UNCHANGED base
       ELSE base' = Lowest(file, nodata) /\ stage' = "published"
    /\ UNCHANGED <<dsm, dtm, file, nodata, again>>

\* normalize_and_process_real_dsm reads the published file, with no terrain model, and keeps
\* the minimum the row already has.
NormalizeAgain ==
    /\ stage = "published" /\ ~again
    /\ again' = TRUE
    /\ LET lowest == Lowest(file, nodata)
       IN  file' = [p \in Pixels |-> IF file[p] = nodata THEN 0 ELSE Clip(file[p] - lowest, 0, Clamp)]
    /\ nodata' = 0
    /\ UNCHANGED <<dsm, dtm, base, stage>>

HeightsNext == NormalizeSurface \/ FallBackToRaw \/ ExtractElevationStats \/ NormalizeAgain

HeightsSpec == HeightsInit /\ [][HeightsNext]_heightVars

----------------------------------------------------------------------------
(* Terrarium tiles: (R * 256 + G + B / 256) - 32768 metres, in steps of two.               *)

Encode(v) ==
    LET n == v - Abyss
    IN  [r |-> n \div (256 * Metre), g |-> (n \div Metre) % 256, b |-> (n % Metre) \div 2]
Decode(t) == (t.r * 256 + t.g) * Metre + t.b * 2 + Abyss

\* What the tile server encodes: a masked pixel is (0, 0, 0).
TileOf(p) == IF file[p] = nodata THEN [r |-> 0, g |-> 0, b |-> 0] ELSE Encode(file[p])

NormalizeTerrainTile(t) ==
    LET v == IF Decode(t) < AbyssLimit THEN 0 ELSE Decode(t)
    IN  Encode(Clip(v - base, 0, Clamp))

GetTerrainTile(p) == Decode(NormalizeTerrainTile(TileOf(p)))

----------------------------------------------------------------------------
(* The tools: a point, a polygon of pixels, a line.                                          *)

\* 404 for a masked pixel and for the value 0.
PointAnswers(p) == file[p] # nodata /\ file[p] # 0

\* Statistics over what is neither masked nor 0, unless that is nothing; volume over all.
ZonalBase(P) ==
    LET vals == {p \in P : file[p] # nodata}
        nonzero == {p \in vals : file[p] # 0}
    IN  IF nonzero # {} THEN nonzero ELSE vals
Total(f) == MapThenSumSet(LAMBDA p : f[p], DOMAIN f)
Volume(P) == Total([p \in P |-> IF file[p] # nodata /\ file[p] > 0 THEN file[p] ELSE 0])
SumOf(P) == Total([p \in P |-> file[p]])

\* Mutant: the value that the photogrammetric rasters have for no data is looked for.
HasSample_Void(p) == file[p] # Void

\* The samples of a line are the stored values: only 0 is without data.
HasSample(p) == file[p] # 0
Steps == {p \in Pixels : p > 1 /\ HasSample(p) /\ HasSample(p - 1)}
Gain == Total([p \in Steps |-> Clip(file[p] - file[p - 1], 0, 2 * Clamp)])
Loss == Total([p \in Steps |-> Clip(file[p - 1] - file[p], 0, 2 * Clamp)])

\* The legend: a low maximum and a minimum near 0 make a surface relative, and 0 transparent.
Label ==
    LET values == {file[p] : p \in Valid(file, nodata)}
    IN  Max(values) < 100 * Metre /\ Min(values) < 5 * Metre /\ Min(values) > -5 * Metre
Painted(p) == IF Label THEN file[p] # 0 ELSE file[p] # nodata

----------------------------------------------------------------------------
Published == stage = "published"
Heights == nodata = 0 /\ ~again

\* The height of a pixel above its ground, as photogrammetry measured it: where the terrain model
\* was resampled from data alone.
Measured(p) == dsm[p] - Ground(p)
Surveyed(p) == dtm = NoModel \/ SameShape \/ (p \in Covered /\ Near(p, 1) # Void /\ Near(p, 2) # Void)
Standing(p) == HasHeight(p) /\ Surveyed(p) /\ Measured(p) > 0 /\ Measured(p) <= Clamp

\* The terrain of a normalised surface is never higher than what was measured, two pixels above
\* the ground keep their difference to one step of the tile, and what has no height lies at the
\* bottom ("nodata is ground, not a well"). A raw surface has its bottom at 0 as well.
TerrainKeepsHeights ==
    Published =>
        /\ \A p \in Pixels : GetTerrainTile(p) \in 0..Clamp
        /\ Heights =>
              \A p, q \in {x \in Pixels : Standing(x)} :
                  /\ GetTerrainTile(p) <= Measured(p)
                  /\ LET off == (GetTerrainTile(p) - GetTerrainTile(q)) - (Measured(p) - Measured(q))
                     IN  off \in -2..2
        /\ (base >= 0 \/ Heights) => \A p \in Pixels : file[p] = nodata => GetTerrainTile(p) = 0

\* The tools read one normalised surface alike: a point answers where a line has a sample and
\* the statistics count, which is what is painted under the label of heights; the volume is that
\* of the pixels the statistics are over, and a line without a gap ends where its gain and loss lead.
ToolsAgree ==
    Published /\ nodata = 0 =>
        /\ \A p \in Pixels : PointAnswers(p) <=> HasSample(p)
        /\ ZonalBase(Pixels) = {p \in Pixels : PointAnswers(p)}
        /\ Valid(file, nodata) # {} /\ Label => \A p \in Pixels : PointAnswers(p) <=> Painted(p)
        /\ Volume(Pixels) = SumOf(ZonalBase(Pixels))
        /\ (\A p \in Pixels : HasSample(p)) => Gain - Loss = file[Max(Pixels)] - file[1]

\* What is shown of a surface, on the terrain and by the tools, are its heights above the ground.
HeightsAreShown == TerrainKeepsHeights /\ ToolsAgree
=============================================================================
