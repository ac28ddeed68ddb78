---------------------------- MODULE TenantPromises ----------------------------
(***************************************************************************)
(* What the parts around a tenant promise together: its accounts           *)
(* (TenantAccounts), the public schema (SchemaUpgrades), the users of the  *)
(* identity server (UserDirectory), its signing keys (KeyCache) and the    *)
(* report presets (ReportPresets).  None of them reads another's state.    *)
(***************************************************************************)
EXTENDS TenantAccounts, SchemaUpgrades, UserDirectory, KeyCache, ReportPresets

\* No request takes a schema or the rows of a table away, but the rules of version 5, or creates
\* a project for a tenant in debt, if its subscription is asked for (services/tenant_lifecycle.py,
\* subscription_enforcement.py), and no boot takes a table or a column of the public schema away,
\* except to give it the type the code writes (alembic/versions, entrypoint.sh).
StepsKeep == AccountsKeep /\ [][NothingDropped]_upgradeVars

\* What was asked for last is what is in force: the role, tenant and sessions of a user, unless a
\* call was lost or refused or another change met it between its calls (users.py, auth.py,
\* keycloak_admin.py), and the presets that reports take, those of another municipality where
\* their own has none, unless requests overlapped (reports.py).
LastWordStands == UsersAsAsked /\ PresetsTypeOK /\ ReportsFollowTheLast
=============================================================================
