---------------------------- MODULE SchemaUpgrades ----------------------------
(***************************************************************************)
(* The public schema of a database, from any of the states the databases   *)
(* in the field are in, through the boots of the all-in-one container      *)
(* (deploy/all-in-one/entrypoint.sh: alembic upgrade head, then three SQL  *)
(* scripts, none of which may stop the boot) and the upgrades of the other *)
(* deployments (alembic only).                                             *)
(*                                                                         *)
(* alembic/env.py runs all pending revisions in one transaction: all of    *)
(* them or none.  One report written before the convergence stands for     *)
(* the rows: row holds its value in each column, "legacy" where an old     *)
(* column put it.  Bounds: MaxBoots, MaxLostUpgrades.                      *)
(***************************************************************************)
EXTENDS SchemaShapes, Integers

CONSTANTS MaxBoots, MaxLostUpgrades

VARIABLES
    rev,      \* alembic_version
    pub,      \* the tables of the public schema
    row,      \* the report, column by column
    step,     \* where the boot is
    failed,   \* the upgrade of this boot was lost
    boots, lost,
    sqlFirst  \* a script has run on a database that no revision had built

upgradeVars == <<rev, pub, row, step, failed, boots, lost, sqlFirst>>

Old == {"format", "parameters", "file_path", "generated_by"}
New == {"output_format", "config", "file_key", "requested_by"}

\* The database at revision 3, and how those in the field may differ from it.
Chain3 == CreateMissing(CreateMissing(Tables001, Uploads002), Notifications003)

Stamped(s, yes) == IF yes THEN Restrict(s, DOMAIN s \ DOMAIN Uploads002) ELSE s
Legacy(s, t, shape, yes) == IF yes THEN [s EXCEPT ![t] = shape] ELSE s
Scripted(s, yes) == IF yes THEN PresetsSql(MetrologySql(FiscalSql(s))) ELSE s

InTheField ==
    {Scripted(Legacy(Legacy(Legacy(Stamped(Chain3, b[1]),
        "reports", {"status"} \cup Old, b[2]),
        "report_sections", {"section_order"}, b[3]),
        "notifications", {"user_id uuid"}, b[4]), b[5]) :
            b \in [1..5 -> BOOLEAN]}

UpgradesInit ==
    /\ \/ rev = 0 /\ pub = EmptySchema
       \/ rev = 3 /\ pub \in InTheField
    /\ row = [c \in Old \cup New |-> IF Has(pub, "reports", c) THEN "legacy" ELSE "null"]
    /\ step = "down" /\ failed = FALSE /\ boots = 0 /\ lost = 0 /\ sqlFirst = FALSE

-----------------------------------------------------------------------------
Boot ==
    /\ step = "down" /\ boots < MaxBoots
    /\ step' = "alembic" /\ boots' = boots + 1 /\ failed' = FALSE
    /\ UNCHANGED <<rev, pub, row, lost, sqlFirst>>

\* The rows of reports in revision 005: defaults of the new columns, then the copies.
Copy(r, s) ==
    LET added == [c \in DOMAIN r |->
                    IF c \in New /\ ~Has(s, "reports", c)
                    THEN IF c \in {"output_format", "config"} THEN "default" ELSE "null"
                    ELSE r[c]]
        Copied(new, old, when) ==
            IF Has(s, "reports", old) /\ added[new] \in when /\ added[old] # "null"
            THEN added[old] ELSE added[new]
    IN  [added EXCEPT !["output_format"] = Copied("output_format", "format", {"null"}),
                      !["config"] = Copied("config", "parameters", {"null", "default"}),
                      !["file_key"] = Copied("file_key", "file_path", {"null"}),
                      !["requested_by"] = Copied("requested_by", "generated_by", {"null"})]

\* alembic upgrade head.
UpgradeHead ==
    IF AllApply(rev, pub)
    THEN /\ rev' = HeadRevision /\ pub' = Upgraded(rev, pub)
         /\ row' = IF rev < 5 /\ Exists(pub, "reports") THEN Copy(row, pub) ELSE row
    ELSE UNCHANGED <<rev, pub, row>>

Alembic ==
    /\ step = "alembic"
    /\ UpgradeHead
    /\ \E next \in {"fiscal", "up"} : step' = next  \* "up": a deployment without the scripts
    /\ UNCHANGED <<failed, boots, lost, sqlFirst>>

\* The upgrade is lost as a whole, and the boot goes on ("|| true").
AlembicFails ==
    /\ step = "alembic" /\ lost < MaxLostUpgrades
    /\ step' = "fiscal" /\ failed' = TRUE /\ lost' = lost + 1
    /\ UNCHANGED <<rev, pub, row, boots, sqlFirst>>

Script(from, to, s) ==
    /\ step = from /\ step' = to
    /\ pub' = s
    /\ sqlFirst' = (sqlFirst \/ rev = 0)
    /\ UNCHANGED <<rev, row, failed, boots, lost>>

Fiscal == Script("fiscal", "metrology", FiscalSql(pub))
Metrology == Script("metrology", "presets", MetrologySql(pub))
Presets == Script("presets", "up", PresetsSql(pub))

\* The container stops, in the middle of a boot or later.
Stop ==
    /\ step # "down"
    /\ step' = "down"
    /\ UNCHANGED <<rev, pub, row, failed, boots, lost, sqlFirst>>

UpgradesNext == Boot \/ Alembic \/ AlembicFails \/ Fiscal \/ Metrology \/ Presets \/ Stop

UpgradesSpec == UpgradesInit /\ [][UpgradesNext]_upgradeVars

-----------------------------------------------------------------------------
\* The state: a revision, a shape for each table, a value for each column of the report.
SchemasTypeOK ==
    /\ rev \in {0, 3, HeadRevision}
    /\ \A t \in DOMAIN pub : IsFiniteSet(pub[t])
    /\ row \in [Old \cup New -> {"legacy", "default", "null"}]
    /\ step \in {"down", "alembic", "fiscal", "metrology", "presets", "up"}

\* A database at the head has every canonical column, whatever state it came from: "this
\* revision converges every known state onto the canonical schema" (005_schema_convergence.py).
HeadIsCanonical ==
    rev = HeadRevision => \A t \in DOMAIN Canonical : Exists(pub, t) /\ Canonical[t] \subseteq pub[t]

\* A boot whose upgrade did not fail leaves the database at the head, unless a script of an
\* earlier boot ran before any revision had: that one leaves tables revision 003 cannot create.
UpReachesHead == step = "up" /\ ~failed /\ rev # HeadRevision => sqlFirst

\* What an old report said of its file, its author and its parameters is in the new columns.
ReportKept ==
    rev = HeadRevision /\ row["file_path"] = "legacy" =>
        \A c \in {"config", "file_key", "requested_by"} : row[c] = "legacy"

\* A database at the head has every canonical column and every value of the old ones, and a boot
\* leads there.
HeadKeepsEverything == SchemasTypeOK /\ HeadIsCanonical /\ ReportKept /\ UpReachesHead

\* No boot takes a table or a column away, except to give it the type the code writes.
NothingDropped ==
    \A t \in DOMAIN pub : Exists(pub', t) /\ pub[t] \ {"user_id uuid"} \subseteq pub'[t]

=============================================================================
