------------------------------- MODULE MCTenants -------------------------------
(***************************************************************************)
(* The parts around a tenant (TenantPromises) in one run: each runs from   *)
(* its own initial states while the others rest in one of theirs.          *)
(***************************************************************************)
EXTENDS TenantPromises, TLC

CONSTANTS a, b, r1, r2, r3, x1, x2, x3, i1, i2, e1, e2

VARIABLE mode

SlugOrder == <<a, b>>
MCReqs == {r1, r2, r3}

\* Two requests change accounts, the third is a tenant's work or the upgrade of all schemas.
RequestKinds ==
    r1 :> {"create", "migrate", "migrateAll", "subscribe", "pay"} @@
    r2 :> {"create", "deactivate", "subscribe", "pay"} @@
    r3 :> {"project", "reactivate", "upgrade", "migrateAll"}

MCEditors == {x1, x2, x3}

\* Two municipalities the migration writes a preset of, the second of which stands in for
\* others, and one it does not.
MCCodes == {1, 2, 3}
MCSeedCodes == {1, 2}

MCIds == {i1, i2}
MCEmails == {e1, e2}
MCTowns == {a, b}
MCCallers == {r1, r2}

\* Two requests: one makes a user or changes the profile, role or status of one, the other
\* changes and deletes them.
UserOperations ==
    r1 :> {"create", "register", "role", "profile", "toggle"} @@
    r2 :> {"role", "update", "toggle", "delete"}

\* Identifiers are alike, and so are emails: one user at most is there, with the first of each.
UsersStart == UsersInit /\ \A i \in There : i = i1 /\ users[i].email = e1

\* Three of the platform's roles: the caller's, one below it and the one of a registration.
RoleLevel == "tenant_admin" :> 1 @@ "gestor" :> 2 @@ "viewer" :> 4

\* A realm of two keys, a copy that lives one tick of a day of two.
MCKeys == {1, 2}

\* Keys are alike: the realm's first is 1.
KeysStart == KeysInit /\ published = {1}

ASSUME DirectoryAssumption /\ KeysAssumption

AccountsRest == Init /\ tenants[a] = "active" /\ ns[a] = NoSchema
UpgradesRest == UpgradesInit /\ rev = 0
UsersRest == UsersInit /\ There = {}
PresetsRest == PresetsInit /\ unique

MCInit ==
    \/ mode = "accounts" /\ Init /\ UpgradesRest /\ UsersRest /\ KeysStart /\ PresetsRest
    \/ mode = "schemas" /\ UpgradesInit /\ AccountsRest /\ UsersRest /\ KeysStart /\ PresetsRest
    \/ mode = "users" /\ UsersStart /\ AccountsRest /\ UpgradesRest /\ KeysStart /\ PresetsRest
    \/ mode = "keys" /\ KeysStart /\ AccountsRest /\ UpgradesRest /\ UsersRest /\ PresetsRest
    \/ mode = "presets" /\ PresetsInit /\ AccountsRest /\ UpgradesRest /\ UsersRest /\ KeysStart

MCNext ==
    /\ UNCHANGED mode
    /\ \/ mode = "accounts" /\ Next /\ UNCHANGED <<upgradeVars, userVars, keyVars, presetVars>>
       \/ mode = "schemas" /\ UpgradesNext /\ UNCHANGED <<vars, userVars, keyVars, presetVars>>
       \/ mode = "users" /\ UsersNext /\ UNCHANGED <<vars, upgradeVars, keyVars, presetVars>>
       \/ mode = "keys" /\ KeysNext /\ UNCHANGED <<vars, upgradeVars, userVars, presetVars>>
       \/ mode = "presets" /\ PresetsNext /\ UNCHANGED <<vars, upgradeVars, userVars, keyVars>>

MCSpec == MCInit /\ [][MCNext]_<<mode, vars, upgradeVars, userVars, keyVars, presetVars>>
=============================================================================
