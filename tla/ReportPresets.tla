---------------------------- MODULE ReportPresets ----------------------------
(***************************************************************************)
(* The report presets of the municipalities (api/v1/reports.py): a new     *)
(* version is three statements of a READ COMMITTED transaction, the        *)
(* highest version of its municipality, the end of the active one and the  *)
(* insert.  Only a database that ran migrations/003_report_config_presets  *)
(* refuses a second row of the same version.  The fallback of a database   *)
(* without the table, to values of the code, is left out.  Bound: Editors, *)
(* one request each.                                                       *)
(***************************************************************************)
EXTENDS Integers, FiniteSets

CONSTANTS
    Editors,
    Codes,       \* of the municipalities, in the order of ORDER BY municipality_code
    HomeCode,    \* "5208707", whose preset stands in for one that is missing
    SeedCodes    \* those whose first version the migration writes

ASSUME EditorsAssumption == IsFiniteSet(Editors) /\ {"nobody", "system"} \cap Editors = {}
ASSUME CodesAssumption == Codes \subseteq Nat /\ HomeCode \in Codes /\ SeedCodes \subseteq Codes

VARIABLES
    unique,    \* the database has the unique index
    presets,   \* report_config_presets: records [code, version, active, by]
    edit,      \* editor -> [pc, code, max, old]
    last,      \* history: code -> its last committed change: who made it, "nobody" for an end
    beside     \* history: pairs of editors whose requests for one municipality overlapped

presetVars == <<unique, presets, edit, last, beside>>

PresetsInit ==
    /\ unique \in BOOLEAN
    /\ presets = {[code |-> c, version |-> 1, active |-> TRUE, by |-> "system"] : c \in SeedCodes}
    /\ edit = [e \in Editors |-> [pc |-> "idle", code |-> HomeCode, max |-> 0, old |-> {}]]
    /\ last = [c \in Codes |-> IF c \in SeedCodes THEN "system" ELSE "nobody"] /\ beside = {}

RowsOf(c) == {p \in presets : p.code = c}
ActiveOf(c) == {p \in RowsOf(c) : p.active}

Highest(rows) == IF rows = {} THEN 0
                 ELSE CHOOSE v \in {p.version : p \in rows} : \A p \in rows : p.version <= v

InFlight(c) == {e \in Editors : edit[e].pc \in {"end", "insert"} /\ edit[e].code = c}
Overlaps(e, c) == beside' = beside \cup UNION {{<<e, f>>, <<f, e>>} : f \in InFlight(c)}

ReadHighest(e, c) ==
    /\ edit[e].pc = "idle"
    /\ edit' = [edit EXCEPT ![e] = [pc |-> "end", code |-> c, max |-> Highest(RowsOf(c)),
                                    old |-> {}]]
    /\ Overlaps(e, c)
    /\ UNCHANGED <<unique, presets, last>>

\* The active row stays in force.
EndNone(e) ==
    /\ edit[e].pc = "end"
    /\ edit' = [edit EXCEPT ![e].pc = "insert"]
    /\ UNCHANGED <<unique, presets, last, beside>>

\* UPDATE of the rows that are active when the statement begins: one that another request
\* inserts before this one commits is not among them.
EndActive(e) ==
    /\ edit[e].pc = "end"
    /\ edit' = [edit EXCEPT ![e].pc = "insert", ![e].old = ActiveOf(edit[e].code)]
    /\ UNCHANGED <<unique, presets, last, beside>>

Ended(rows, old) ==
    {[code |-> p.code, version |-> p.version, active |-> p.active /\ p \notin old, by |-> p.by] :
        p \in rows}

\* The insert and the commit, or the error of the unique index and a rollback.
InsertPreset(e) ==
    /\ edit[e].pc = "insert"
    /\ LET new == [code |-> edit[e].code, version |-> edit[e].max + 1, active |-> TRUE, by |-> e]
       IN  IF unique /\ \E p \in RowsOf(new.code) : p.version = new.version
           THEN UNCHANGED <<presets, last>>
           ELSE /\ presets' = Ended(presets, edit[e].old) \cup {new}
                /\ last' = [last EXCEPT ![new.code] = e]
    /\ edit' = [edit EXCEPT ![e].pc = "done"]
    /\ UNCHANGED <<unique, beside>>

\* DELETE of a municipality's preset: its active rows end.
EndPreset(e, c) ==
    /\ edit[e].pc = "idle" /\ ActiveOf(c) # {}
    /\ presets' = Ended(presets, ActiveOf(c)) /\ last' = [last EXCEPT ![c] = "nobody"]
    /\ edit' = [edit EXCEPT ![e].pc = "done"]
    /\ Overlaps(e, c)
    /\ UNCHANGED unique

PresetsNext ==
    \E e \in Editors :
        \/ \E c \in Codes : ReadHighest(e, c) \/ EndPreset(e, c)
        \/ EndActive(e) \/ InsertPreset(e)

PresetsSpec == PresetsInit /\ [][PresetsNext]_presetVars

\* The highest active version of each municipality.
InForce(c) == {p \in ActiveOf(c) : p.version = Highest(ActiveOf(c))}

\* Of the municipalities in S a report of c takes the preset of its own, of HomeCode or of the
\* first: with none of any, the built-in values.
Chosen(c, S) ==
    CASE c \in S -> {c}
      [] c \notin S /\ HomeCode \in S -> {HomeCode}
      [] OTHER -> {d \in S : \A k \in S : d <= k}

\* What a report of the municipality takes: the rows whose values it reads.
Effective(c) == UNION {InForce(d) : d \in Chosen(c, {d \in Codes : ActiveOf(d) # {}})}

-----------------------------------------------------------------------------
\* The rows of the municipalities and the requests on them.
PresetsTypeOK ==
    /\ \A p \in presets : /\ p.code \in Codes /\ p.version \in 1..Cardinality(Editors) + 1
                          /\ p.by \in Editors \cup {"system"}
    /\ \A c \in Codes : last[c] \in Editors \cup {"nobody", "system"}

\* Two presets of one municipality are in force together only when their requests overlapped.
OneActiveUnlessOverlap ==
    \A p, q \in presets :
        p.code = q.code /\ p.active /\ q.active /\ p # q => <<p.by, q.by>> \in beside

\* Unless two requests for one municipality overlapped, a report takes what the last change of
\* its municipality's presets says.  When that was an end, or there was none, it takes the last
\* change of 5208707, or else of the first municipality that has a preset: ending a preset makes
\* a report follow another municipality's changes.
ReportsFollowTheLast ==
    beside = {} =>
        \A c \in Codes :
            {<<p.code, p.by>> : p \in Effective(c)} =
            {<<d, last[d]>> : d \in Chosen(c, {d \in Codes : last[d] # "nobody"})}
=============================================================================
