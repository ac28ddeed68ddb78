----------------------------- MODULE ParcelImport -----------------------------
(***************************************************************************)
(* The two imports of the parcels of a municipality: a CSV file            *)
(* (integration.py), whose lines run in savepoints and keep what they do   *)
(* not name, and a GeoJSON file (urban_analytics.py), whose features run   *)
(* bare in one transaction and replace the parcel: a feature that the      *)
(* driver refuses is passed over, one that the server refuses ends the     *)
(* transaction.  Imports run side by side; a line takes the row lock of    *)
(* its parcel until its import ends.                                       *)
(* Parameters: Imports, the files of Lines each may bring, MaxLines.       *)
(***************************************************************************)
EXTENDS Integers, FiniteSets, Sequences, SequencesExt

CONSTANTS
    Imports,     \* requests, one file each
    CsvLines,    \* lines [code, given, area, wkt]; a code is a tuple
    Features,    \* features of the same shape
    Registered,  \* parcels there before
    MaxLines     \* bound on the lines of a file

ImportAssumption == MaxLines \in Nat /\ "null" \notin Imports

NoCode == <<>>   \* an empty cell, a feature without the attribute
Null == "null"
NoParcel == [there |-> FALSE]
Old == [there |-> TRUE, address |-> "old", owner |-> "old", area |-> "old", polygon |-> "old"]

\* The code of a feature without one counts the features before it.
AutoCode(n) == <<"auto", n>>

VARIABLES
    parcels,   \* committed rows: cadastral code -> parcel, NoParcel
    imp,       \* import -> [step, kind, lines, at, count, errors]
    draft,     \* import -> the rows its open transaction wrote, locked by it
    taken,     \* history: import -> the numbers of the lines it counted as imported
    order      \* history: the imports that committed, in order

importVars == <<parcels, imp, draft, taken, order>>

Codes == ({l.code : l \in CsvLines \cup Features} \ {NoCode}) \cup {AutoCode(n) : n \in 0..MaxLines}

ImportInit ==
    /\ parcels = [c \in Codes |-> IF c \in Registered THEN Old ELSE NoParcel]
    /\ imp \in [Imports -> UNION {
           {[step |-> "arrive", kind |-> k, lines |-> f, header |-> h, at |-> 1, count |-> 0, errors |-> 0] :
               f \in SeqOf(IF k = "csv" THEN CsvLines ELSE Features, MaxLines), h \in {TRUE, k # "csv"}} :
           k \in {"csv", "geojson"}}]
    /\ draft = [i \in Imports |-> <<>>] /\ taken = [i \in Imports |-> {}] /\ order = <<>>

\* A CSV file without the column of the codes is refused, a GeoJSON file without features too.
ImportCsv(i) ==
    /\ imp[i].step = "arrive" /\ imp[i].kind = "csv"
    /\ imp' = [imp EXCEPT ![i].step = IF imp[i].header THEN "rows" ELSE "refused"]
    /\ UNCHANGED <<parcels, draft, taken, order>>

ImportParcels(i) ==
    /\ imp[i].step = "arrive" /\ imp[i].kind = "geojson"
    /\ imp' = [imp EXCEPT ![i].step = IF imp[i].lines = <<>> THEN "refused" ELSE "rows"]
    /\ UNCHANGED <<parcels, draft, taken, order>>

-----------------------------------------------------------------------------
(* One line: its parcel, its values, the lock, the upsert. *)

AtRow(i) == imp[i].step \in {"rows", "aborted"} /\ imp[i].at <= Len(imp[i].lines)
Line(i) == imp[i].lines[imp[i].at]
CodeOf(i) == IF imp[i].kind = "geojson" /\ Line(i).code = NoCode THEN AutoCode(imp[i].count) ELSE Line(i).code

\* An empty cell of a CSV area is the number 0, a text in one that is no number is NULL; a
\* feature's area is NULL when it has none.
AreaOf(i, l) == CASE l.area = "given" -> i
                  [] l.area = "missing" -> IF imp[i].kind = "csv" THEN "zero" ELSE Null
                  [] OTHER -> Null
Given(i, l, name) == IF name \in l.given THEN i ELSE Null
RowOf(i, l) == [there |-> TRUE, address |-> Given(i, l, "address"), owner |-> Given(i, l, "owner"),
                area |-> AreaOf(i, l), polygon |-> IF l.wkt = "polygon" THEN i ELSE Null]

Or(new, old) == IF new = Null THEN old ELSE new
Coalesced(new, old) == [there |-> TRUE, address |-> Or(new.address, old.address),
                        owner |-> Or(new.owner, old.owner), area |-> Or(new.area, old.area),
                        polygon |-> Or(new.polygon, old.polygon)]
Replaced(new, old) == [there |-> TRUE, address |-> new.address, owner |-> old.owner,
                       area |-> new.area, polygon |-> new.polygon]

\* ON CONFLICT (cadastral_code) DO UPDATE of each route; the GeoJSON one keeps the owner.
Upserted(kind, new, old) ==
    CASE ~old.there -> new
      [] old.there /\ kind = "csv" -> Coalesced(new, old)
      [] old.there /\ kind = "geojson" -> Replaced(new, old)

\* The row as the statement sees it once it holds the lock.
Row(i, c) == IF c \in DOMAIN draft[i] THEN draft[i][c] ELSE parcels[c]
With(rows, c, row) == [x \in DOMAIN rows \cup {c} |-> IF x = c THEN row ELSE rows[x]]

\* A geometry that cannot be read is an error; WKT of a point gives NULL, GeoJSON of one does
\* not fit the column.
Malformed(i) == Line(i).wkt = "broken" \/ (imp[i].kind = "geojson" /\ Line(i).wkt \in {"none", "point"})

\* A feature whose values the driver cannot encode (a text for an area), or without properties,
\* fails before its statement is sent: the transaction goes on.
Unencodable(i) == imp[i].kind = "geojson" /\ Line(i).area = "text"
Sent(i) == AtRow(i) /\ imp[i].step = "rows" /\ CodeOf(i) # NoCode /\ ~Unencodable(i)

\* Another import holds the parcel of the line: the statement waits.
WaitsFor(i, j) ==
    Sent(i) /\ ~Malformed(i) /\ j # i /\ CodeOf(i) \in DOMAIN draft[j]
\* Imports that wait for one another: the server gives one of them an error.
Deadlocked(i) ==
    \E S \in SUBSET Imports :
        i \in S /\ \A j \in S : (\E k \in S : WaitsFor(j, k)) /\ (\E k \in S : WaitsFor(k, j))

Counted(i, step, good) ==
    imp' = [imp EXCEPT ![i].step = step, ![i].at = @ + 1,
                       ![i].count = IF good THEN @ + 1 ELSE @,
                       ![i].errors = IF good THEN @ ELSE @ + 1]

\* A line without a code, an error of its statement (rolled back to its savepoint).
SkipEmpty(i) ==
    /\ AtRow(i) /\ imp[i].kind = "csv" /\ Line(i).code = NoCode
    /\ Counted(i, imp[i].step, FALSE) /\ UNCHANGED <<parcels, draft, taken, order>>

\* Mutant: the lines of a CSV file run without a savepoint.
RowError_NoSavepoint(i) ==
    /\ Sent(i) /\ imp[i].kind = "csv"
    /\ Malformed(i) \/ Deadlocked(i)
    /\ Counted(i, "aborted", FALSE) /\ draft' = [draft EXCEPT ![i] = <<>>]
    /\ UNCHANGED <<parcels, taken, order>>

RowError(i) ==
    /\ Sent(i) /\ imp[i].kind = "csv"
    /\ Malformed(i) \/ Deadlocked(i)
    /\ Counted(i, "rows", FALSE) /\ UNCHANGED <<parcels, draft, taken, order>>

\* Passed over without an error of the server.
FeatureRefused(i) ==
    /\ AtRow(i) /\ imp[i].step = "rows" /\ Unencodable(i)
    /\ Counted(i, "rows", FALSE) /\ UNCHANGED <<parcels, draft, taken, order>>

\* The server's error of a feature ends the transaction and gives its locks back; the loop goes on and
\* every later statement fails.
FeatureError(i) ==
    /\ AtRow(i) /\ imp[i].kind = "geojson"
    /\ imp[i].step = "aborted" \/ (Sent(i) /\ (Malformed(i) \/ Deadlocked(i)))
    /\ Counted(i, "aborted", FALSE) /\ draft' = [draft EXCEPT ![i] = <<>>]
    /\ UNCHANGED <<parcels, taken, order>>

Upsert(i) ==
    /\ Sent(i) /\ ~Malformed(i)
    /\ \A j \in Imports : ~WaitsFor(i, j)
    /\ LET c == CodeOf(i)
       IN  draft' = [draft EXCEPT ![i] = With(@, c, Upserted(imp[i].kind, RowOf(i, Line(i)), Row(i, c)))]
    /\ taken' = [taken EXCEPT ![i] = @ \cup {imp[i].at}]
    /\ Counted(i, "rows", TRUE) /\ UNCHANGED <<parcels, order>>

\* COMMIT of an aborted transaction is a rollback and no error: the answer counts the features
\* that succeeded before it.
Commit(i) ==
    /\ imp[i].step \in {"rows", "aborted"} /\ imp[i].at > Len(imp[i].lines)
    /\ parcels' = [c \in Codes |-> Row(i, c)]
    /\ draft' = [draft EXCEPT ![i] = <<>>]
    /\ imp' = [imp EXCEPT ![i].step = IF @ = "aborted" THEN "rolledBack" ELSE "answered"]
    /\ order' = Append(order, i)
    /\ UNCHANGED taken

\* An error outside the loop's try (a feature that is no object), a lost process or connection.
ImportFails(i) ==
    /\ imp[i].step \in {"rows", "aborted"}
    /\ imp' = [imp EXCEPT ![i].step = "failed"]
    /\ draft' = [draft EXCEPT ![i] = <<>>]
    /\ UNCHANGED <<parcels, taken, order>>

ImportNext == \E i \in Imports : ImportCsv(i) \/ ImportParcels(i) \/ SkipEmpty(i) \/ RowError(i)
                                 \/ FeatureRefused(i) \/ FeatureError(i) \/ Upsert(i)
                                 \/ Commit(i) \/ ImportFails(i)

ImportSpec == ImportInit /\ [][ImportNext]_importVars

-----------------------------------------------------------------------------
\* The lines an answer may be believed on: those its import counted, but of a GeoJSON import that
\* the server refused a feature of, none.  The answer does not tell such an import from one
\* whose features the driver refused.
Vouched(i) ==
    IF imp[i].kind = "geojson" /\ imp[i].step \in {"aborted", "rolledBack"} THEN {} ELSE taken[i]

CodeOfLine(i, n) ==
    IF imp[i].lines[n].code = NoCode THEN AutoCode(Cardinality({m \in taken[i] : m < n})) ELSE imp[i].lines[n].code

\* What a line tells of a parcel: a CSV line nothing of what it leaves out, but an area of zero;
\* a feature all but the owner of a parcel that was there.
Told(i, l, old) ==
    LET csv == imp[i].kind = "csv"
        kept(f) == IF old.there /\ (csv \/ f = "owner") THEN old[f] ELSE Null
        text(f) == IF f \in l.given /\ (csv \/ f # "owner" \/ ~old.there) THEN i ELSE kept(f)
    IN  [there |-> TRUE, address |-> text("address"), owner |-> text("owner"),
         area |-> IF l.area = "given" THEN i ELSE IF l.area = "missing" /\ csv THEN "zero" ELSE kept("area"),
         polygon |-> IF l.wkt = "polygon" THEN i ELSE kept("polygon")]

Applied(rows, i) ==
    LET Apply(tab, n) ==
            IF n \notin Vouched(i) THEN tab
            ELSE [tab EXCEPT ![CodeOfLine(i, n)] = Told(i, imp[i].lines[n], @)]
    IN  FoldLeft(Apply, rows, [n \in 1..Len(imp[i].lines) |-> n])

\* The register is what the answered imports counted, one import after the other in the order
\* of their commits, but for the GeoJSON imports that the server refused a feature of, which
\* leave nothing: no line of a CSV file is lost to the error of another, a feature that the
\* driver refuses costs no other, nothing of a failed import stays and nothing that a CSV file
\* leaves out is erased, however imports of the same parcels interleave or deadlock.
ImportsAreSerial ==
    parcels = FoldLeft(Applied, [c \in Codes |-> IF c \in Registered THEN Old ELSE NoParcel], order)
=============================================================================
