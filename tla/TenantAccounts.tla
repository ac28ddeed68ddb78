---------------------------- MODULE TenantAccounts ----------------------------
(***************************************************************************)
(* The accounts of the municipalities: the tenant row, its subscription,   *)
(* its PostgreSQL schema and the requests of the administrators that make  *)
(* and change them (api/v1/admin.py, services/tenant_lifecycle.py,         *)
(* api/v1/subscriptions.py), with the check of the subscription a new      *)
(* project must pass (middleware/subscription_enforcement.py).             *)
(*                                                                         *)
(* Each transaction is one step; a transaction of DDL is two, because the  *)
(* next one that creates the same objects waits for it and may then fail   *)
(* on their names.  The shapes of the tables are those of SchemaShapes.    *)
(* Left out: the columns of a tenant row that nothing here reads, indexes, *)
(* row level security.  Bounds: Reqs, Kinds, MaxFaults.                           *)
(***************************************************************************)
EXTENDS SchemaShapes, Sequences, Integers

CONSTANTS
    Order,     \* the slugs, in the order of ORDER BY slug
    Reqs,
    Kinds,     \* what each request may ask for: request -> kinds of requests
    MaxFaults

Slugs == {Order[i] : i \in DOMAIN Order}

ASSUME AccountsAssumption ==
    /\ Order \in Seq(Slugs)
    /\ "import" \notin Reqs
    /\ MaxFaults \in Nat

VARIABLES
    tenants,   \* public.tenants: slug -> "absent", "active" or "inactive"
    subs,      \* public.subscriptions: records [slug, by, plan, paid]
    ns,        \* the schemas: slug -> [version, tables, rows], rows: tables with rows
    projects,  \* records [slug, by, at]: whose, made by which request, in which schema
    req,       \* the requests
    overlap,   \* pairs of requests that ran at the same time
    faults

vars == <<tenants, subs, ns, projects, req, overlap, faults>>

NoSchema == [version |-> -1, tables |-> EmptySchema, rows |-> {}]
HasSchema(s) == ns[s].version >= 0

Idle == [op |-> "none", pc |-> "idle", todo |-> {}, plan |-> "none", answer |-> "none",
         errors |-> {}, hit |-> {}, aborted |-> FALSE, owing |-> FALSE, asks |-> FALSE]

Busy(r) == req[r].pc \notin {"idle", "done"}
First(S) ==
    Order[CHOOSE i \in DOMAIN Order :
             Order[i] \in S /\ \A j \in DOMAIN Order : Order[j] \in S => i <= j]
Slug(r) == First(req[r].todo)
At(r, op, pc) == req[r].op = op /\ req[r].pc = pc
SubsOf(s) == {u \in subs : u.slug = s}
Owing(s) == SubsOf(s) # {} /\ \A u \in SubsOf(s) : ~u.paid

Goto(r, pc) == req' = [req EXCEPT ![r].pc = pc]
Answer(r, a) == req' = [req EXCEPT ![r].pc = "done", ![r].answer = a]

\* The schemas of a database before the upgrade: a tenant of any version, or only its row.
Init ==
    /\ \E s \in Slugs, v \in {-1, 4, 5, 6} :
         /\ tenants = [t \in Slugs |-> IF t = s THEN "active" ELSE "absent"]
         /\ subs = {[slug |-> s, by |-> "import", plan |-> "starter", paid |-> TRUE]}
         /\ ns = [t \in Slugs |->
                    IF t = s /\ v > 0
                    THEN [version |-> v, tables |-> TenantOf(v), rows |-> DOMAIN TenantOf(v)]
                    ELSE NoSchema]
    /\ projects = {} /\ req = [r \in Reqs |-> Idle] /\ overlap = {} /\ faults = 0

\* A request arrives; owing tells what its tenant's subscriptions say at that moment, asks
\* whether its token names the tenant, so that it is asked for them.
Start(r, op, todo, plan, pc, asks) ==
    /\ req[r].pc = "idle" /\ op \in Kinds[r]
    /\ req' = [req EXCEPT ![r] =
                 [Idle EXCEPT !.op = op, !.todo = todo, !.plan = plan, !.pc = pc, !.asks = asks,
                              !.owing = op = "project" /\ Owing(First(todo))]]
    /\ overlap' = overlap \cup UNION {{<<r, q>>, <<q, r>>} : q \in {q \in Reqs : Busy(q)}}
    /\ UNCHANGED <<tenants, subs, ns, projects, faults>>

Arrive(r) ==
    \/ \E s \in Slugs, kind \in {<<"create", "check">>, <<"migrate", "version">>,
                                 <<"deactivate", "run">>, <<"reactivate", "run">>,
                                 <<"pay", "run">>} :
          Start(r, kind[1], {s}, "none", kind[2], FALSE)
    \/ \E s \in Slugs, named \in BOOLEAN :
          tenants[s] # "absent" /\ Start(r, "project", {s}, "none", "limit", named)
    \/ \E s \in Slugs, kind \in {<<"subscribe", "check">>, <<"upgrade", "run">>} :
          Start(r, kind[1], {s}, "professional", kind[2], FALSE)
    \/ Start(r, "migrateAll", {}, "none", "list", FALSE)

-----------------------------------------------------------------------------
(* create_tenant: four transactions, each committed before the next begins.                 *)

CreateCheck(r) ==
    /\ At(r, "create", "check")
    /\ IF tenants[Slug(r)] = "absent" THEN Goto(r, "insert") ELSE Answer(r, "409")
    /\ UNCHANGED <<tenants, subs, ns, projects, overlap, faults>>

\* The slug is unique: the second of two that saw it free is an error.
CreateInsert(r) ==
    /\ At(r, "create", "insert")
    /\ IF tenants[Slug(r)] = "absent"
       THEN tenants' = [tenants EXCEPT ![Slug(r)] = "active"] /\ Goto(r, "default")
       ELSE Answer(r, "500") /\ UNCHANGED tenants
    /\ UNCHANGED <<subs, ns, projects, overlap, faults>>

\* A subscription that is paid ends what the requests under way were told of the debt.
Relieved(s) == [q \in Reqs |-> IF req[q].op = "project" /\ Slug(q) = s
                               THEN [req[q] EXCEPT !.owing = FALSE] ELSE req[q]]

Subscribe(r, plan) ==
    subs' = subs \cup {[slug |-> Slug(r), by |-> r, plan |-> plan, paid |-> TRUE]}

CreateSubscribe(r) ==
    /\ At(r, "create", "default")
    /\ Subscribe(r, "starter")
    /\ req' = [Relieved(Slug(r)) EXCEPT ![r].pc = "begin"]
    /\ UNCHANGED <<tenants, ns, projects, overlap, faults>>

Seeded == {"iptu_rule_sets", "iptu_rules", "projects"}

\* The wizard's rules and first project, if it has any: a failure is rolled back and reported,
\* with 201 all the same.
CreateSeed(r) ==
    /\ At(r, "create", "seed")
    /\ \/ /\ ns' = [ns EXCEPT ![Slug(r)].rows = @ \cup Seeded]
          /\ projects' = projects \cup {[slug |-> Slug(r), by |-> r, at |-> "tenant"]}
          /\ UNCHANGED faults
       \/ UNCHANGED <<ns, projects, faults>>
       \/ faults < MaxFaults /\ faults' = faults + 1 /\ UNCHANGED <<ns, projects>>
    /\ Answer(r, "201")
    /\ UNCHANGED <<tenants, subs, overlap>>

-----------------------------------------------------------------------------
(* The DDL of a schema: provision_tenant and migrate_tenant_schema.                         *)

Provisioned(n) ==
    [version |-> TenantVersion, tables |-> CreateAllTenantTables(n.tables),
     rows |-> n.rows \cap DOMAIN DropLegacyRules(n.tables)]

List(r) ==
    /\ At(r, "migrateAll", "list")
    /\ LET active == {s \in Slugs : tenants[s] = "active"}
       IN  req' = [req EXCEPT ![r].todo = active,
                              ![r].pc = IF active = {} THEN "done" ELSE "version",
                              ![r].answer = IF active = {} THEN "200" ELSE "none"]
    /\ UNCHANGED <<tenants, subs, ns, projects, overlap, faults>>

\* The next slug of the loop, or the answer.
Advanced(q) ==
    LET rest == q.todo \ {First(q.todo)}
    IN  IF rest # {} THEN [q EXCEPT !.todo = rest, !.pc = "version"]
                     ELSE [q EXCEPT !.pc = "done", !.answer = "200"]

\* The failed SELECT is not rolled back.
ReadVersionAborted(r) ==
    /\ req[r].pc = "version"
    /\ req' = [req EXCEPT ![r] =
                 IF ns[Slug(r)].version >= TenantVersion THEN Advanced(@)
                 ELSE [@ EXCEPT !.pc = "begin", !.aborted = ~HasSchema(Slug(r))]]
    /\ UNCHANGED <<tenants, subs, ns, projects, overlap, faults>>

\* A version that cannot be read aborts the transaction: it is rolled back and counts as 0.
ReadVersion(r) ==
    /\ req[r].pc = "version"
    /\ req' = [req EXCEPT ![r] =
                 IF ns[Slug(r)].version >= TenantVersion THEN Advanced(@)
                 ELSE [@ EXCEPT !.pc = "begin"]]
    /\ UNCHANGED <<tenants, subs, ns, projects, overlap, faults>>

Owner(s) == {q \in Reqs : req[q].pc = "ddl" /\ Slug(q) = s}

\* An error of the provisioning does not end the onboarding.
DdlErrorSwallowed(r) == [req[r] EXCEPT !.pc = IF @ = "ddl" THEN "seed" ELSE "done",
                                       !.answer = "500"]

\* create answers 500; the loop of migrate_all notes the error, rolls back and goes on.
DdlError(r) ==
    IF req[r].op = "migrateAll"
    THEN [Advanced([req[r] EXCEPT !.errors = @ \cup {Slug(r)}]) EXCEPT !.aborted = FALSE]
    ELSE [req[r] EXCEPT !.pc = "done", !.answer = "500", !.errors = @ \cup {Slug(r)}]

\* A request that finds the objects of another transaction waits for its end.
BeginDdl(r) ==
    /\ req[r].pc = "begin"
    /\ req' = [req EXCEPT ![r] = IF @.aborted THEN DdlError(r)
                                 ELSE [@ EXCEPT !.pc = IF Owner(Slug(r)) = {} THEN "ddl"
                                                       ELSE "wait"]]
    /\ UNCHANGED <<tenants, subs, ns, projects, overlap, faults>>

\* The other has ended: if it rolled back, or made nothing new, the names are free.
Waited(r) ==
    /\ req[r].pc = "wait" /\ Owner(Slug(r)) = {}
    /\ \/ req' = [req EXCEPT ![r].pc = "ddl"]
       \/ /\ ns[Slug(r)].version = TenantVersion
          /\ req' = [req EXCEPT ![r] = [DdlError(r) EXCEPT !.hit = @ \cup {Slug(r)}]]
    /\ UNCHANGED <<tenants, subs, ns, projects, overlap, faults>>

\* The tables, the version and the commit.
CommitDdl(r) ==
    /\ req[r].pc = "ddl"
    /\ ns' = [ns EXCEPT ![Slug(r)] = Provisioned(@)]
    /\ req' = [req EXCEPT ![r] = IF @.op = "create" THEN [@ EXCEPT !.pc = "seed"]
                                 ELSE Advanced(@)]
    /\ UNCHANGED <<tenants, subs, projects, overlap, faults>>

DdlFails(r) ==
    /\ req[r].pc = "ddl" /\ faults < MaxFaults
    /\ req' = [req EXCEPT ![r] = [DdlError(r) EXCEPT !.hit = @ \cup {Slug(r)}]]
    /\ faults' = faults + 1
    /\ UNCHANGED <<tenants, subs, ns, projects, overlap>>

\* REVOKE needs the schema: without one the transaction fails and the tenant stays active.
Deactivate(r) ==
    /\ At(r, "deactivate", "run")
    /\ IF HasSchema(Slug(r))
       THEN /\ tenants' = [tenants EXCEPT ![Slug(r)] = IF @ = "absent" THEN @ ELSE "inactive"]
            /\ Answer(r, "200")
       ELSE Answer(r, "500") /\ UNCHANGED tenants
    /\ UNCHANGED <<subs, ns, projects, overlap, faults>>

Reactivate(r) ==
    /\ At(r, "reactivate", "run")
    /\ tenants' = [tenants EXCEPT ![Slug(r)] = IF @ = "absent" THEN @ ELSE "active"]
    /\ Answer(r, "200")
    /\ UNCHANGED <<subs, ns, projects, overlap, faults>>

-----------------------------------------------------------------------------
(* Subscriptions.  No operation ever clears is_active.                                      *)

\* No check for an active subscription.
SubscribeUnchecked(r) ==
    /\ At(r, "subscribe", "check")
    /\ IF tenants[Slug(r)] = "absent" THEN Answer(r, "404") ELSE Goto(r, "insert")
    /\ UNCHANGED <<tenants, subs, ns, projects, overlap, faults>>

SubscribeCheck(r) ==
    /\ At(r, "subscribe", "check")
    /\ IF tenants[Slug(r)] = "absent" THEN Answer(r, "404")
       ELSE IF SubsOf(Slug(r)) # {} THEN Answer(r, "409") ELSE Goto(r, "insert")
    /\ UNCHANGED <<tenants, subs, ns, projects, overlap, faults>>

SubscribeInsert(r) ==
    /\ At(r, "subscribe", "insert")
    /\ Subscribe(r, req[r].plan)
    /\ req' = [Relieved(Slug(r)) EXCEPT ![r].pc = "done", ![r].answer = "201"]
    /\ UNCHANGED <<tenants, ns, projects, overlap, faults>>

\* Every active subscription of the tenant gets the plan.
Upgrade(r) ==
    /\ At(r, "upgrade", "run")
    /\ subs' = {IF u.slug = Slug(r) THEN [u EXCEPT !.plan = req[r].plan] ELSE u : u \in subs}
    /\ Answer(r, IF tenants[Slug(r)] = "absent" THEN "404" ELSE "200")
    /\ UNCHANGED <<tenants, ns, projects, overlap, faults>>

\* PATCH of one subscription: payment_status.
UpdateSubscription(r) ==
    /\ At(r, "pay", "run")
    /\ \/ SubsOf(Slug(r)) = {} /\ Answer(r, "404") /\ UNCHANGED subs
       \/ \E u \in SubsOf(Slug(r)) :
            /\ subs' = (subs \ {u}) \cup {[u EXCEPT !.paid = ~@]}
            /\ req' = [(IF u.paid THEN req ELSE Relieved(Slug(r)))
                         EXCEPT ![r].pc = "done", ![r].answer = "200"]
    /\ UNCHANGED <<tenants, ns, projects, overlap, faults>>

-----------------------------------------------------------------------------
(* A new project: the limit in a session of its own, the insert along "tenant, public".     *)

\* LIMIT 1: any one of the active subscriptions is asked, for its debt and then for its number
\* of projects.  None at all is a yes, and so are a token that names no tenant and an error of
\* the query, which is passed over.
EnforceProjectLimit(r) ==
    /\ At(r, "project", "limit")
    /\ \/ /\ ~req[r].asks \/ SubsOf(Slug(r)) = {}
          /\ Goto(r, "insert") /\ UNCHANGED faults
       \/ /\ req[r].asks
          /\ \E u \in SubsOf(Slug(r)) : (u.paid /\ Goto(r, "insert")) \/ Answer(r, "402")
          /\ UNCHANGED faults
       \/ /\ req[r].asks /\ faults < MaxFaults /\ faults' = faults + 1
          /\ req' = [req EXCEPT ![r].pc = "insert", ![r].asks = FALSE]
    /\ UNCHANGED <<tenants, subs, ns, projects, overlap>>

\* A tenant without a schema has its project in public.
CreateProject(r) ==
    /\ At(r, "project", "insert")
    /\ projects' = projects \cup
         {[slug |-> Slug(r), by |-> r, at |-> IF HasSchema(Slug(r)) THEN "tenant" ELSE "public"]}
    /\ ns' = [ns EXCEPT ![Slug(r)].rows = IF HasSchema(Slug(r)) THEN @ \cup {"projects"} ELSE @]
    /\ Answer(r, "201")
    /\ UNCHANGED <<tenants, subs, overlap, faults>>

-----------------------------------------------------------------------------
Step(r) ==
    \/ CreateCheck(r) \/ CreateInsert(r) \/ CreateSubscribe(r) \/ CreateSeed(r)
    \/ List(r) \/ ReadVersion(r) \/ BeginDdl(r) \/ Waited(r) \/ CommitDdl(r) \/ DdlFails(r)
    \/ Deactivate(r) \/ Reactivate(r)
    \/ SubscribeCheck(r) \/ SubscribeInsert(r) \/ Upgrade(r) \/ UpdateSubscription(r)
    \/ EnforceProjectLimit(r) \/ CreateProject(r)

Next == \E r \in Reqs : Arrive(r) \/ Step(r)

Spec == Init /\ [][Next]_vars

-----------------------------------------------------------------------------
\* The state: accounts, schemas with a version and tables, requests somewhere in their code.
AccountsTypeOK ==
    /\ tenants \in [Slugs -> {"absent", "active", "inactive"}]
    /\ \A u \in subs : u.slug \in Slugs /\ u.by \in Reqs \cup {"import"} /\ u.paid \in BOOLEAN
    /\ \A s \in Slugs : /\ ns[s].version \in {-1} \cup 4..TenantVersion
                        /\ ns[s].rows \subseteq DOMAIN ns[s].tables
    /\ \A p \in projects : p.slug \in Slugs /\ p.by \in Reqs /\ p.at \in {"tenant", "public"}
    /\ \A r \in Reqs : req[r].errors \cup req[r].hit \subseteq Slugs
    /\ overlap \subseteq Reqs \X Reqs /\ faults \in 0..MaxFaults

\* A schema that says version 7 has the tables of one that was just provisioned, whatever version
\* it came from (migrate_tenant_schema), among them what the fiscal analysis and the import of the
\* cadastre write: the columns for which version 7 was made (tenant_lifecycle.py 18-22).
VersionIsReal ==
    \A s \in Slugs :
        ns[s].version = TenantVersion =>
            ns[s].tables = NewTenant /\ Meets(ns[s].tables, Canonical, FiscalNeeds)

\* A tenant that lacks its subscription or its schema is one whose onboarding (create_tenant)
\* stands, or was cut off, between its first commit and its third, or whose DDL failed, or one
\* that came without a schema from before the upgrade.
HalfCreated(s) == tenants[s] # "absent" /\ (SubsOf(s) = {} \/ ~HasSchema(s))
Imported(s) == \E u \in SubsOf(s) : u.by = "import"
HalfOnlyByCut ==
    \A s \in Slugs : HalfCreated(s) =>
        \/ Imported(s)
        \/ \E r \in Reqs : /\ req[r].op = "create" /\ Slug(r) = s
                           /\ \/ req[r].pc \in {"default", "begin", "wait", "ddl"}
                              \/ s \in req[r].errors

\* An onboarding that is answered 201 leaves the tenant, a subscription and a schema of the
\* current version, even when its seed failed: nothing later takes them away. A tenant is half
\* created only where no onboarding has got that far, and a migration that is answered 200 gives
\* it the schema it lacks. A schema of the current version is like a new one.
CreatedIsUsable ==
    /\ AccountsTypeOK /\ VersionIsReal /\ HalfOnlyByCut
    /\ \A r \in Reqs :
          /\ req[r].op = "create" /\ req[r].answer = "201" =>
                /\ tenants[Slug(r)] # "absent" /\ SubsOf(Slug(r)) # {}
                /\ ns[Slug(r)].version = TenantVersion
          /\ req[r].op = "migrate" /\ req[r].answer = "200" => ns[Slug(r)].version = TenantVersion

\* A migration fails for a tenant only by a statement of that tenant's own DDL: "one broken
\* tenant does not cascade into failures for every tenant that follows it", and a tenant
\* that was never provisioned is migrated like any other.
OnlyTheBrokenFail == \A r \in Reqs : req[r].errors \subseteq req[r].hit

\* No request takes a schema or the rows of a table away, except the rules of version 5.
RowsStay ==
    \A s \in Slugs :
        LET legacy == IF Has(ns[s].tables, "iptu_rules", "base_rate_per_sqm")
                      THEN {"iptu_rules"} ELSE {}
        IN  ns[s].rows \ legacy \subseteq ns'[s].rows /\ ns[s].version <= ns'[s].version

\* Two active subscriptions of one tenant come from two requests that overlapped: nothing but
\* the check of create_subscription prevents them.
TwoSubscriptionsOnlyByOverlap ==
    \A u, w \in subs :
        u.slug = w.slug /\ u.by # w.by => <<u.by, w.by>> \in overlap

\* A request that arrives when every subscription of its tenant is in debt, and is under way
\* until one is paid, creates no project, unless its token names no tenant or the query for the
\* subscription fails: then nobody is asked (subscription_enforcement.py 34, 49, 62).
OwingCreatesNothing == \A p \in projects' \ projects : req[p.by].owing => ~req[p.by].asks

\* No request takes rows away, or creates a project for a tenant in debt that was asked for.
AccountsKeep == [][RowsStay /\ OwingCreatesNothing]_vars

=============================================================================
