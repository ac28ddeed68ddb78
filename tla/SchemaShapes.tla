----------------------------- MODULE SchemaShapes -----------------------------
(***************************************************************************)
(* What the DDL of the repository makes of a schema: the Alembic           *)
(* revisions and the raw SQL of the public schema, and the idempotent DDL  *)
(* of a tenant's schema (services/tenant_lifecycle.py).                    *)
(*                                                                         *)
(* A schema is a function from the tables it has to the features of each   *)
(* table that the sources do not all agree on: a column, a column of       *)
(* another type ("user_id uuid"), a NOT NULL ("polygon required").  What   *)
(* every source gives a table alike is left out, so a table all sources    *)
(* agree on has no features.  Indexes and triggers are left out.           *)
(***************************************************************************)
EXTENDS FiniteSets, Functions, TLC

EmptySchema == [t \in {} |-> {}]
Exists(s, t) == t \in DOMAIN s
Has(s, t, f) == Exists(s, t) /\ f \in s[t]

\* CREATE TABLE IF NOT EXISTS: the shape of a table that is there stays as it is.
CreateMissing(s, shapes) ==
    [t \in DOMAIN s \cup DOMAIN shapes |-> IF Exists(s, t) THEN s[t] ELSE shapes[t]]
AddColumns(s, t, cols) == [s EXCEPT ![t] = @ \cup cols]
Without(s, t) == Restrict(s, DOMAIN s \ {t})

-----------------------------------------------------------------------------
(* The Alembic revisions.  A revision that creates a table plainly fails when it exists.    *)

Accounts001 ==
    [tenants |-> {}, subscriptions |-> {}, projects |-> {"created_by"}]

Flights001 ==
    [flights |-> {}, processing_jobs |-> {}, flight_assets |-> {}]

Reports001 ==
    [reports |-> {"status", "output_format", "config", "file_key", "requested_by",
                  "celery_task_id", "error_message"},
     report_sections |-> {"order", "content"}]

Tables001 == CreateMissing(CreateMissing(Accounts001, Flights001), Reports001)

Uploads002 == [uploads |-> {"processing_job_id", "uploaded_by"},
               activity_logs |-> {"user_id", "entity_id"}]

Notifications003 == [notifications |-> {"user_id", "entity_type", "entity_id"}]

Presets004 == [report_config_presets |-> {}]

Fiscal005 ==
    [parcels |-> {"owner_cpf_cnpj", "iptu_value_current_brl", "properties", "created_at"},
     ai_detections |-> {},
     analysis_runs |-> {"estimated_total_gap_brl", "updated_at"},
     discrepancies |-> {"reviewer_notes", "inspector_report", "polygon"}]

Rules005 ==
    [iptu_rule_sets |-> {}, iptu_rules |-> {"rule_set_id", "aliquot_pct"},
     measurements |-> {"measured_by"}]

Metrology005 ==
    [ai_measurement_runs |-> {}, ai_building_measurements |-> {},
     ai_terrain_measurements |-> {}]

\* reports, report_sections and notifications of older databases get the canonical columns.
ConvergeReports(s) ==
    AddColumns(s, "reports",
        {"output_format", "config", "file_key", "requested_by", "celery_task_id",
         "error_message"})

ConvergeSections(s) == AddColumns(s, "report_sections", {"order", "content"})

ConvergeNotifications(s) ==
    LET cols == s["notifications"]
        retyped == IF "user_id uuid" \in cols THEN (cols \ {"user_id uuid"}) \cup {"user_id"}
                                              ELSE cols
    IN  [s EXCEPT !["notifications"] = retyped \cup {"entity_type", "entity_id"}]

Converge005(s) ==
    LET created == CreateMissing(CreateMissing(s, Uploads002), Notifications003)
        converged == ConvergeSections(ConvergeReports(ConvergeNotifications(created)))
    IN  CreateMissing(CreateMissing(CreateMissing(converged, Fiscal005), Rules005), Metrology005)

Height006(s) == AddColumns(s, "ai_detections", {"height_m"})
Errors007(s) == CreateMissing(s, [usage_error_logs |-> {}])
Validation008(s) == AddColumns(s, "ai_detections", {"validation_status", "evidence_score"})

Consensus010(s) ==
    CreateMissing(AddColumns(s, "ai_detections", {"consensus_votes", "is_unanimous"}),
                  [audit_certificates |-> {}])

Roof011(s) == AddColumns(s, "ai_detections", {"roof_type", "shadow_rejected"})

HeadRevision == 11

\* Revision 005 as a plain CREATE TABLE of the fiscal tables.
ApplicablePlain(n, s) == n = 5 => DOMAIN Fiscal005 \cap DOMAIN s = {}

\* May revision n run on the schema, and what it leaves (009 repairs rows only).
Applicable(n, s) ==
    CASE n = 1 -> DOMAIN Tables001 \cap DOMAIN s = {}
      [] n = 2 -> DOMAIN Uploads002 \cap DOMAIN s = {} /\ Exists(s, "projects")
      [] n = 3 -> ~Exists(s, "notifications")
      [] n = 5 -> \A t \in {"projects", "flights", "reports", "report_sections"} : Exists(s, t)
      [] n \in {6, 8, 9, 10, 11} -> Exists(s, "ai_detections")
      [] OTHER -> TRUE

Revision(n, s) ==
    CASE n = 1 -> CreateMissing(s, Tables001)
      [] n = 2 -> CreateMissing(s, Uploads002)
      [] n = 3 -> CreateMissing(s, Notifications003)
      [] n = 4 -> CreateMissing(s, Presets004)
      [] n = 5 -> Converge005(s)
      [] n = 6 -> Height006(s)
      [] n = 7 -> Errors007(s)
      [] n = 8 -> Validation008(s)
      [] n = 10 -> Consensus010(s)
      [] n = 11 -> Roof011(s)
      [] OTHER -> s

\* The schema after each revision from n on, as long as each one applies.
Upgraded(n, s) ==
    LET after[k \in n..HeadRevision] == IF k = n THEN s ELSE Revision(k, after[k - 1])
    IN  after[HeadRevision]

AllApply(n, s) ==
    LET after[k \in n..HeadRevision] == IF k = n THEN s ELSE Revision(k, after[k - 1])
    IN  \A k \in n + 1..HeadRevision : Applicable(k, after[k - 1])

Canonical == Upgraded(0, EmptySchema)

-----------------------------------------------------------------------------
(* The raw SQL (migrations/00n_*.sql), run by psql statement by statement: a table whose    *)
(* REFERENCES are missing is not created, and the script goes on.                           *)

FiscalSql(s) ==
    LET fiscal == CreateMissing(s, Restrict(Fiscal005, {"parcels", "ai_detections"}))
        free == CreateMissing(CreateMissing(fiscal, Rules005), Notifications003)
        referring == CreateMissing(free, Restrict(Fiscal005, {"analysis_runs", "discrepancies"}))
    IN  IF Exists(s, "projects") THEN CreateMissing(referring, Reports001) ELSE free

MetrologySql(s) == IF Exists(s, "projects") THEN CreateMissing(s, Metrology005) ELSE s

\* Only this path makes (municipality_code, version) unique.
PresetsSql(s) ==
    AddColumns(CreateMissing(s, Presets004), "report_config_presets", {"unique version"})

-----------------------------------------------------------------------------
(* The DDL of a tenant's schema (_create_all_tenant_tables).                                *)

TenantVersion == 7

TenantCore ==
    [users |-> {}, projects |-> {"created_by uuid"}, flights |-> {}, processing_jobs |-> {}]

TenantFiles ==
    [uploads |-> {"uploaded_by uuid"}, flight_assets |-> {},
     ai_detections |-> {"height_m", "polygon required"}]

TenantParcels(s) ==
    LET created == CreateMissing(s, [parcels |-> {"owner_cpf_cnpj", "iptu_value_current_brl",
                                                  "properties", "created_at"}])
        added == AddColumns(created, "parcels",
                     {"owner_cpf_cnpj", "iptu_value_current_brl", "properties", "created_at"})
    IN  [added EXCEPT !["parcels"] = @ \ {"polygon required"}]

TenantRecords ==
    [measurements |-> {"measured_by uuid"},
     reports |-> {"file_key", "file_format", "parameters", "generated_by uuid"},
     activity_logs |-> {"user_id uuid", "entity_id uuid"},
     discrepancies |-> {"review_notes", "parcel_geometry", "detection_geometry"}]

TenantRuns(s) ==
    AddColumns(CreateMissing(s, [analysis_runs |-> {"estimated_total_gap_brl", "updated_at"}]),
               "analysis_runs", {"estimated_total_gap_brl", "updated_at"})

\* The table is dropped whatever its columns.
DropRules(s) == Without(s, "iptu_rules")

\* The table of the first versions, which shadowed the canonical one, is dropped.
DropLegacyRules(s) ==
    IF Has(s, "iptu_rules", "base_rate_per_sqm") THEN Without(s, "iptu_rules") ELSE s

TenantRules(s) ==
    CreateMissing(DropLegacyRules(s),
        [iptu_rule_sets |-> {}, iptu_rules |-> {"rule_set_id", "aliquot_pct"}])

CreateAllTenantTables(s) ==
    LET files == CreateMissing(CreateMissing(s, TenantCore), TenantFiles)
    IN  TenantRules(TenantRuns(CreateMissing(TenantParcels(files), TenantRecords)))

NewTenant == CreateAllTenantTables(EmptySchema)

\* A tenant's schema as the code of version 4 (no fiscal tables), 5 or 6 left it.
TenantOf(v) ==
    LET base == CreateMissing(TenantCore, TenantFiles)
        core == CreateMissing(base, [parcels |-> {"polygon required"}])
        sprint == CreateMissing(CreateMissing(core, TenantRecords), [analysis_runs |-> {}])
    IN  CASE v = 4 -> core
          [] v = 5 -> CreateMissing(sprint, [iptu_rules |-> {"base_rate_per_sqm"}])
          [] v = 6 -> CreateMissing(sprint, [iptu_rule_sets |-> {},
                                             iptu_rules |-> {"rule_set_id", "aliquot_pct"}])

-----------------------------------------------------------------------------
(* What the fiscal statements need of the tables that "tenant, public" resolves.        *)

Resolved(tenant, public, t) ==
    IF Exists(tenant, t) THEN tenant[t] ELSE IF Exists(public, t) THEN public[t] ELSE {"absent"}

\* run_analysis and the CSV import of the cadastre.
FiscalNeeds ==
    [parcels |-> {"owner_cpf_cnpj", "iptu_value_current_brl", "properties"},
     analysis_runs |-> {"estimated_total_gap_brl"},
     iptu_rules |-> {"rule_set_id", "aliquot_pct"}]

Meets(tenant, public, needs) ==
    \A t \in DOMAIN needs :
        LET shape == Resolved(tenant, public, t)
        IN  needs[t] \subseteq shape /\ "polygon required" \notin shape
=============================================================================
