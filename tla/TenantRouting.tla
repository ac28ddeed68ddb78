--------------------------- MODULE TenantRouting ---------------------------
(***************************************************************************)
(* Which schema a statement acts in.  A request works in a session of its  *)
(* tenant (core/database.py); the session takes a connection of the pool,  *)
(* first in first out, at its first statement and gives it back at every   *)
(* commit and rollback.  The schema is the search_path of the connection:  *)
(* SET changes it in the transaction, a commit keeps the change on the     *)
(* connection, a rollback undoes it, and nothing resets it between         *)
(* requests.  A path that names a schema without tables resolves to        *)
(* public.  The requests are those of api/v1/projects.py; the session of   *)
(* the plan's limit (middleware/subscription_enforcement.py) is a second   *)
(* one of the same request, open until the request ends.                   *)
(*                                                                         *)
(* Each member of Requests serves one request after another.  Projects are *)
(* counted: the next code of a schema is one more than the highest.  The   *)
(* path of a new connection stands for public, as that of the public       *)
(* session does.  Bound: MaxArrivals, requests in all.                     *)
(***************************************************************************)
EXTENDS Integers, Sequences, FiniteSets, Functions

CONSTANTS
    Requests,
    Tenants,
    Provisioned,   \* the tenants whose schema has its tables
    Public,
    NoTenant,      \* what the middleware leaves when it resolves no tenant
    NoRequest,
    TenantOf,      \* the tenant each request's user belongs to
    Unresolved,    \* the requests whose token names no tenant
    OpsOf,         \* the operations it asks for
    MaxConns,      \* database_pool_size + database_max_overflow
    MaxArrivals

Tries == 3
Ops == {"read", "create", "update", "delete"}
Schemas == Provisioned \cup {Public}
Paths == Tenants \cup {Public}
Conns == 1..MaxConns
NoConn == 0

ASSUME ConstantsAssumption ==
    /\ MaxConns \in Nat \ {0} /\ MaxArrivals \in Nat
    /\ Provisioned \subseteq Tenants /\ TenantOf \in [Requests -> Tenants] /\ Unresolved \subseteq Requests
    /\ OpsOf \in [Requests -> SUBSET Ops]
    /\ Public \notin Tenants /\ NoTenant \notin Tenants /\ Public # NoTenant
    /\ NoRequest \notin Requests

VARIABLES
    idle,      \* the pool's queue
    opened,    \* connections ever opened
    path,      \* the search_path of each connection
    base,      \* its search_path before the open transaction
    codes,     \* projects of each schema
    inserting, \* the request with an uncommitted project in the schema
    arrived,   \* requests so far
    pc, op,
    tenant,    \* current_tenant_schema of the request
    conn,      \* the connection its tenant session holds
    guard,     \* the connection its public session holds
    tries, code,
    ended,     \* history: the request has ended a transaction of its tenant session
    last       \* history: the statement just made, by whom and where

pool == <<idle, opened, path, base>>
data == <<codes, inserting>>
vars == <<pool, data, arrived, pc, op, tenant, conn, guard, tries, code, ended, last>>

Kinds == {"read", "write"}
PCs == {"new", "limit", "begin", "work", "coded", "inserted", "written", "again", "closing", "raised"}

Nothing == [req |-> NoRequest, kind |-> "read", schema |-> Public]

TypeOK ==
    /\ idle \in Seq(Conns) /\ opened \in 0..MaxConns
    /\ path \in [Conns -> Paths] /\ base \in [Conns -> Paths]
    /\ codes \in [Schemas -> Nat] /\ inserting \in [Schemas -> Requests \cup {NoRequest}]
    /\ arrived \in 0..MaxArrivals
    /\ pc \in [Requests -> PCs] /\ op \in [Requests -> Ops]
    /\ tenant \in [Requests -> Tenants \cup {NoTenant}]
    /\ conn \in [Requests -> Conns \cup {NoConn}] /\ guard \in [Requests -> Conns \cup {NoConn}]
    /\ tries \in [Requests -> 0..Tries] /\ code \in [Requests -> Nat]
    /\ ended \in [Requests -> BOOLEAN]
    /\ last \in [req : Requests \cup {NoRequest}, kind : Kinds, schema : Schemas]

Init ==
    /\ idle = <<>> /\ opened = 0
    /\ path = [c \in Conns |-> Public] /\ base = [c \in Conns |-> Public]
    /\ codes = [s \in Schemas |-> 0] /\ inserting = [s \in Schemas |-> NoRequest]
    /\ arrived = 0 /\ pc = [r \in Requests |-> "new"] /\ op = [r \in Requests |-> "read"]
    /\ tenant = [r \in Requests |-> NoTenant]
    /\ conn = [r \in Requests |-> NoConn] /\ guard = [r \in Requests |-> NoConn]
    /\ tries = [r \in Requests |-> 0] /\ code = [r \in Requests |-> 0]
    /\ ended = [r \in Requests |-> FALSE] /\ last = Nothing

GoTo(r, from, to) == pc[r] = from /\ pc' = [pc EXCEPT ![r] = to]

-----------------------------------------------------------------------------
(* The pool and its connections *)

Available == idle # <<>> \/ opened < MaxConns

NextConn == IF idle # <<>> THEN Head(idle) ELSE opened + 1

\* A session takes the connection that has waited longest, or opens one.
Take(c) ==
    /\ Available /\ c = NextConn
    /\ IF idle # <<>> THEN idle' = Tail(idle) /\ UNCHANGED opened
                      ELSE opened' = opened + 1 /\ UNCHANGED idle

\* The first statement is SET search_path, or another one that leaves the path alone.
OpenWith(c, p) == path' = [path EXCEPT ![c] = p] /\ UNCHANGED base
Open(c) == UNCHANGED <<path, base>>

\* The connections in q go back to the pool with the path their transaction has set ...
Commit(q) ==
    /\ idle' = idle \o q
    /\ base' = [c \in Conns |-> IF c \in Range(q) THEN path[c] ELSE base[c]]
    /\ UNCHANGED <<opened, path>>

\* ... or with the one it has found.
Rollback(q) ==
    /\ idle' = idle \o q
    /\ path' = [c \in Conns |-> IF c \in Range(q) THEN base[c] ELSE path[c]]
    /\ UNCHANGED <<opened, base>>

\* The tenant's session is closed before the public one.
Slot(c) == IF c = NoConn THEN <<>> ELSE <<c>>
Held(r) == Slot(conn[r]) \o Slot(guard[r])

\* The schema an unqualified table name stands for.
SchemaOf(c) == IF path[c] \in Provisioned THEN path[c] ELSE Public

Act(r, kind) == last' = [req |-> r, kind |-> kind, schema |-> SchemaOf(conn[r])]

-----------------------------------------------------------------------------
(* A request *)

\* What the middleware resolves: the tenant the token names, or of the user of a token without
\* one, whom it looks for in every tenant.  If it finds the user nowhere, or fails, that is the
\* only tenant there is, the one a header X-Tenant-ID names, or none.
Resolved(r) == IF r \in Unresolved THEN Tenants \cup {NoTenant} ELSE {TenantOf[r]}

Arrive(r) ==
    /\ arrived < MaxArrivals /\ arrived' = arrived + 1
    /\ \E o \in OpsOf[r], t \in Resolved(r) :
          /\ op' = [op EXCEPT ![r] = o]
          /\ tenant' = [tenant EXCEPT ![r] = t]
          /\ GoTo(r, "new", IF o = "create" THEN "limit" ELSE "begin")
    /\ last' = Nothing
    /\ UNCHANGED <<pool, data, conn, guard, tries, code, ended>>

\* enforce_project_limit works in a session of its own and lets the request go on or not.
EnforceLimit(r) ==
    /\ \E c \in Conns :
          /\ Take(c) /\ OpenWith(c, Public)
          /\ guard' = [guard EXCEPT ![r] = c]
    /\ \E next \in {"begin", "raised"} : GoTo(r, "limit", next)
    /\ last' = Nothing
    /\ UNCHANGED <<data, arrived, op, tenant, conn, tries, code, ended>>

\* A mutant: the session works on the path it finds.
BeginAnywhere(r) ==
    /\ GoTo(r, "begin", "work")
    /\ \E c \in Conns :
          /\ Take(c)
          /\ Open(c)
          /\ conn' = [conn EXCEPT ![r] = c]
    /\ last' = Nothing
    /\ UNCHANGED <<data, arrived, op, tenant, guard, tries, code, ended>>

\* The dependency sets the path if there is a tenant; else the first statement opens the
\* transaction on whatever path the connection has.
Begin(r) ==
    /\ GoTo(r, "begin", "work")
    /\ \E c \in Conns :
          /\ Take(c)
          /\ IF tenant[r] # NoTenant THEN OpenWith(c, tenant[r]) ELSE Open(c)
          /\ conn' = [conn EXCEPT ![r] = c]
    /\ last' = Nothing
    /\ UNCHANGED <<data, arrived, op, tenant, guard, tries, code, ended>>

\* The session goes on after a commit or a rollback: no path is set again.
Again(r) ==
    /\ GoTo(r, "again", "work")
    /\ \E c \in Conns :
          /\ Take(c) /\ Open(c)
          /\ conn' = [conn EXCEPT ![r] = c]
    /\ last' = Nothing
    /\ UNCHANGED <<data, arrived, op, tenant, guard, tries, code, ended>>

\* list_projects, get_project, and the read at the end of update_project.
Read(r) ==
    /\ op[r] = "read" \/ (op[r] = "update" /\ ended[r])
    /\ GoTo(r, "work", "closing")
    /\ Act(r, "read")
    /\ UNCHANGED <<pool, data, arrived, op, tenant, conn, guard, tries, code, ended>>

\* A mutant: the handler begins again after its commit.
UpdateAgain(r) ==
    /\ op[r] = "update"
    /\ GoTo(r, "work", "written")
    /\ Act(r, "write")
    /\ UNCHANGED <<pool, data, arrived, op, tenant, conn, guard, tries, code, ended>>

UpdateProject(r) ==
    /\ op[r] = "update" /\ ~ended[r]
    /\ GoTo(r, "work", "written")
    /\ Act(r, "write")
    /\ UNCHANGED <<pool, data, arrived, op, tenant, conn, guard, tries, code, ended>>

\* A project that is not there is a 404, raised through the session.
DeleteProject(r) ==
    /\ op[r] = "delete"
    /\ \E next \in {"written", "raised"} : GoTo(r, "work", next)
    /\ Act(r, "write")
    /\ UNCHANGED <<pool, data, arrived, op, tenant, conn, guard, tries, code, ended>>

NextProjectCode(r) ==
    /\ op[r] = "create"
    /\ GoTo(r, "work", "coded")
    /\ code' = [code EXCEPT ![r] = codes[SchemaOf(conn[r])] + 1]
    /\ Act(r, "read")
    /\ UNCHANGED <<pool, data, arrived, op, tenant, conn, guard, tries, ended>>

\* The unique index makes the insert wait for a transaction that has inserted the same code.
InsertProject(r) ==
    LET s == SchemaOf(conn[r]) IN
    /\ GoTo(r, "coded", "inserted")
    /\ inserting[s] = NoRequest /\ codes[s] < code[r]
    /\ inserting' = [inserting EXCEPT ![s] = r]
    /\ code' = [code EXCEPT ![r] = 0]
    /\ Act(r, "write")
    /\ UNCHANGED <<pool, codes, arrived, op, tenant, conn, guard, tries, ended>>

\* The code is taken: rollback, and another try in the same session.
InsertConflicts(r) ==
    LET s == SchemaOf(conn[r]) IN
    /\ GoTo(r, "coded", IF tries[r] + 1 < Tries THEN "again" ELSE "raised")
    /\ inserting[s] = NoRequest /\ codes[s] >= code[r]
    /\ tries' = [tries EXCEPT ![r] = @ + 1]
    /\ Rollback(<<conn[r]>>)
    /\ conn' = [conn EXCEPT ![r] = NoConn]
    /\ ended' = [ended EXCEPT ![r] = TRUE]
    /\ code' = [code EXCEPT ![r] = 0]
    /\ last' = Nothing
    /\ UNCHANGED <<data, arrived, op, tenant, guard>>

CommitInsert(r) ==
    LET s == SchemaOf(conn[r]) IN
    /\ GoTo(r, "inserted", "closing")
    /\ codes' = [codes EXCEPT ![s] = @ + 1]
    /\ inserting' = [inserting EXCEPT ![s] = NoRequest]
    /\ Commit(<<conn[r]>>)
    /\ conn' = [conn EXCEPT ![r] = NoConn]
    /\ ended' = [ended EXCEPT ![r] = TRUE]
    /\ last' = Nothing
    /\ UNCHANGED <<arrived, op, tenant, guard, tries, code>>

CommitChange(r) ==
    /\ GoTo(r, "written", IF op[r] = "update" THEN "again" ELSE "closing")
    /\ Commit(<<conn[r]>>)
    /\ conn' = [conn EXCEPT ![r] = NoConn]
    /\ ended' = [ended EXCEPT ![r] = TRUE]
    /\ last' = Nothing
    /\ UNCHANGED <<data, arrived, op, tenant, guard, tries, code>>

\* What the request knew is gone with it.
Forget(r) ==
    /\ pc' = [pc EXCEPT ![r] = "new"]
    /\ op' = [op EXCEPT ![r] = "read"] /\ tenant' = [tenant EXCEPT ![r] = NoTenant]
    /\ conn' = [conn EXCEPT ![r] = NoConn] /\ guard' = [guard EXCEPT ![r] = NoConn]
    /\ tries' = [tries EXCEPT ![r] = 0] /\ code' = [code EXCEPT ![r] = 0]
    /\ ended' = [ended EXCEPT ![r] = FALSE]
    /\ last' = Nothing

\* The dependencies end: commit what is open, close, give the connections back.
Close(r) ==
    /\ pc[r] = "closing"
    /\ Commit(Held(r))
    /\ Forget(r)
    /\ UNCHANGED <<data, arrived>>

\* An exception of the handler, an error of the database, a client that has gone: the
\* sessions roll back.
Abort(r) ==
    /\ pc[r] # "new"
    /\ Rollback(Held(r))
    /\ inserting' = [s \in Schemas |-> IF inserting[s] = r THEN NoRequest ELSE inserting[s]]
    /\ Forget(r)
    /\ UNCHANGED <<codes, arrived>>

\* pool_timeout: no connection came back in time.
PoolTimeout(r) ==
    /\ pc[r] \in {"limit", "begin", "again"} /\ ~Available
    /\ Abort(r)

Work(r) ==
    \/ EnforceLimit(r) \/ Begin(r) \/ Again(r) \/ Read(r) \/ UpdateProject(r)
    \/ DeleteProject(r) \/ NextProjectCode(r) \/ InsertProject(r) \/ InsertConflicts(r)
    \/ CommitInsert(r) \/ CommitChange(r) \/ Close(r) \/ PoolTimeout(r)
    \/ (pc[r] = "raised" /\ Abort(r))

Next == \E r \in Requests : Arrive(r) \/ Work(r) \/ Abort(r)

Spec == Init /\ [][Next]_vars

\* A handler goes on by itself; a wait for a connection is bounded by pool_timeout.
FairSpec == Spec /\ \A r \in Requests : WF_vars(Work(r))
-----------------------------------------------------------------------------
(* Properties *)

Places(c) == Cardinality({i \in DOMAIN idle : idle[i] = c})
             + Cardinality({r \in Requests : conn[r] = c}) + Cardinality({r \in Requests : guard[r] = c})

\* A connection is in one place: in the queue, or in one session of one request.
ConnHeldOnce == \A c \in Conns : Places(c) = IF c <= opened THEN 1 ELSE 0

Scoped(r) == tenant[r] \in Provisioned /\ ~ended[r]

\* Until its session has committed or rolled back, a request of a tenant with a schema acts
\* in that schema, whatever path other requests have left on the connection.
FirstTransactionAtHome ==
    last.req # NoRequest /\ Scoped(last.req) => last.schema = tenant[last.req]

\* Later on it may act elsewhere, but of the writes only the insert of a create that lost a
\* race for its code does.
OnlyRetriesStray ==
    /\ last.req # NoRequest /\ last.kind = "write"
    /\ tenant[last.req] \in Provisioned /\ last.schema # tenant[last.req]
    => op[last.req] = "create" /\ tries[last.req] > 0

\* Where a request of a tenant with a schema acts: at home until its session has committed or
\* rolled back; later the writes stay at home but for the insert of a create that is tried
\* again; and no connection serves two sessions.
RequestsAtHome == ConnHeldOnce /\ FirstTransactionAtHome /\ OnlyRetriesStray

\* Every request ends, also when each of them waits for a second connection.
RequestsEnd == \A r \in Requests : pc[r] # "new" ~> pc[r] = "new"

\* What get_db_session documents: a request of a tenant writes in no other schema.
NoStrayWrite ==
    last.req # NoRequest /\ last.kind = "write" /\ tenant[last.req] \in Provisioned
    => last.schema = tenant[last.req]

\* What a session promises is kept: each of its transactions acts in one schema, whatever other
\* sessions do to the paths of the pool, and the first one in that of the request's tenant.
Home == [r \in Requests |-> IF tenant[r] \in Provisioned THEN tenant[r] ELSE NoTenant]
Turn == [r \in Requests |-> IF pc[r] = "new" THEN "idle" ELSE IF ended[r] THEN "later" ELSE "first"]
Where == [r \in Requests |-> IF conn[r] = NoConn THEN NoTenant ELSE SchemaOf(conn[r])]
Made == IF last.req = NoRequest THEN <<>> ELSE <<last.req, last.schema>>
Promise == INSTANCE ScopedAccess WITH
    Nowhere <- NoTenant, home <- Home, turn <- Turn, where <- Where, act <- Made
ScopePromise == Promise!Spec
=============================================================================
