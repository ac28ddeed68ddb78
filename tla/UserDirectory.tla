----------------------------- MODULE UserDirectory -----------------------------
(* The users of the platform as the identity server keeps them, changed by the user routes   *)
(* (users.py), the admin client (keycloak_admin.py) and the registration of auth.py. One      *)
(* operation is a sequence of HTTP calls; any of them may be refused or time out, and nothing *)
(* undoes the calls before it. The attributes are read, merged and written back whole.        *)
(* The caller is none of these users: the routes refuse its own role, status and deletion.    *)
(* A user's name at the server is its email, and changes with it.                             *)
EXTENDS Integers

CONSTANTS
    Ids,        \* identifiers the identity server can give
    Emails,
    Towns,      \* values of the tenant_id attribute
    DefaultTown,  \* the one the identity provider's mapper writes
    Callers,    \* requests to the API
    Routes,     \* Routes[r]: the operations request r can be
    Level,      \* ROLE_HIERARCHY: the level of each platform role, 0 the highest
    AdminRole,  \* the role of the caller
    MaxRefused  \* bound on refused or lost calls

Roles == DOMAIN Level
NoUser == [there |-> FALSE]
None == "none"       \* an attribute the user does not have or the request does not name

DirectoryAssumption ==
    /\ Level \in [Roles -> Nat] /\ AdminRole \in Roles /\ MaxRefused \in Nat
    /\ "viewer" \in Roles
    /\ None \notin Ids /\ None \notin Towns /\ None \notin Emails /\ DefaultTown \in Towns

VARIABLES
    users,    \* identifier -> the user, or NoUser
    call,     \* request -> its operation, step and what it has read
    torn,     \* users on whom a call of a role operation failed or two role operations met,
              \* or whom a registration took for its own user
    muddled,  \* users whose attributes were not read, or were read before another one's write
    spared,   \* users disabled by an update, which ends no session, or whose logout failed
    asked,    \* identifier -> the tenant last written on request, None of one never given
    social,   \* users the identity provider made, to whom no role was given since
    refused

userVars == <<users, call, torn, muddled, spared, asked, social, refused>>

NoCall == [step |-> "idle"]

UsersInit ==
    /\ users \in [Ids -> {NoUser} \cup
           [there : {TRUE}, email : Emails, enabled : {TRUE}, roles : {{}, {"viewer"}},
            tenant : Towns, session : {TRUE}]]
    /\ \A i, j \in Ids : users[i].there /\ users[j].there /\ users[i].email = users[j].email => i = j
    /\ call = [r \in Callers |-> NoCall]
    /\ torn = {} /\ muddled = {} /\ spared = {} /\ refused = 0
    /\ asked = [i \in Ids |-> IF users[i].there THEN users[i].tenant ELSE None]
    /\ social = {i \in Ids : users[i].there /\ users[i].roles = {}}

RoleOps == {"create", "register", "role"}

There == {i \in Ids : users[i].there}
Taken(i, e) == \E j \in There \ {i} : users[j].email = e
Fresh == {i \in Ids \ There : asked[i] = None}
Open(r) == call[r].step \notin {"idle", "done", "failed"}
CallAt(r, s) == call[r].step = s
CallGoto(r, s) ==
    call' = IF s \in {"done", "failed"} THEN [call EXCEPT ![r] = [step |-> s]] ELSE [call EXCEPT ![r].step = s]

\* Another open role operation on the same user.
Contended(r, i) == \E q \in Callers \ {r} : Open(q) /\ call[q].op \in RoleOps /\ call[q].id = i

\* The level of the caller is not below that of the role it gives.
CanAssign(role) == Level[AdminRole] <= Level[role]

----------------------------------------------------------------------------
(* Handlers: what each route checks before the first call. *)

StartCall(r, request) ==
    /\ CallAt(r, "idle") /\ request.op \in Routes[r]
    /\ call' = [call EXCEPT ![r] = request]

CreateUser(r) ==
    /\ \E role \in Roles, e \in Emails, t \in Towns :
          CanAssign(role)
          /\ StartCall(r, [op |-> "create", step |-> "post", email |-> e, role |-> role, town |-> t, id |-> None])
    /\ UNCHANGED <<users, torn, muddled, spared, asked, social, refused>>

Register(r) ==
    /\ \E e \in Emails, t \in Towns :
          StartCall(r, [op |-> "register", step |-> "post", email |-> e, role |-> "viewer", town |-> t,
                    id |-> None])
    /\ UNCHANGED <<users, torn, muddled, spared, asked, social, refused>>

ChangeUserRole(r) ==
    /\ \E role \in Roles, i \in There :
          /\ CanAssign(role)
          /\ StartCall(r, [op |-> "role", step |-> "readRoles", id |-> i, role |-> role, old |-> {}])
          /\ torn' = IF Contended(r, i) THEN torn \cup {i} ELSE torn
    /\ UNCHANGED <<users, muddled, spared, asked, social, refused>>

\* An administrator's update may move the user; a user's own update names no tenant.
UpdateUser(r) ==
    /\ \E i \in There, e \in Emails \cup {None}, t \in Towns \cup {None}, flag \in {"on", "off", None},
          dept \in BOOLEAN :
          StartCall(r, [op |-> "update", step |-> "readUser", id |-> i, email |-> e, town |-> t,
                    enabled |-> flag, dept |-> dept, kept |-> None])
    /\ UNCHANGED <<users, torn, muddled, spared, asked, social, refused>>

UpdateMyProfile(r) ==
    /\ \E i \in There, dept \in BOOLEAN :
          StartCall(r, [op |-> "profile", step |-> "readUser", id |-> i, email |-> None, town |-> None,
                    enabled |-> None, dept |-> dept, kept |-> None])
    /\ UNCHANGED <<users, torn, muddled, spared, asked, social, refused>>

\* get_user of the toggle: the new status is decided here.
ToggleUserStatus(r) ==
    /\ \E i \in There :
          StartCall(r, [op |-> "toggle", step |-> "readUser", id |-> i, email |-> None, town |-> None,
                    enabled |-> IF users[i].enabled THEN "off" ELSE "on",
                    dept |-> FALSE, kept |-> None])
    /\ UNCHANGED <<users, torn, muddled, spared, asked, social, refused>>

DeleteUser(r) ==
    /\ \E i \in There :
          /\ StartCall(r, [op |-> "delete", step |-> "done"])
          /\ users' = [users EXCEPT ![i] = NoUser]
    /\ UNCHANGED <<torn, muddled, spared, asked, social, refused>>

----------------------------------------------------------------------------
(* The calls of create_user, register and change_user_role. *)

\* POST /users: the email is taken, or a fresh identifier holds a user with no role.
PostUser(r) ==
    /\ CallAt(r, "post")
    /\ IF Taken(None, call[r].email)
       THEN CallGoto(r, "failed") /\ UNCHANGED <<users, asked>>
       ELSE \E i \in Fresh :
              /\ users' = [users EXCEPT ![i] = [there |-> TRUE, email |-> call[r].email, enabled |-> TRUE,
                               roles |-> {}, tenant |-> call[r].town, session |-> FALSE]]
              /\ asked' = [asked EXCEPT ![i] = call[r].town]
              /\ call' = [call EXCEPT ![r].step = "assign", ![r].id = i]
    /\ UNCHANGED <<social, torn, muddled, spared, refused>>

\* Mutant: the role is assigned and the one held before is not looked for.
ReadRoles_AssignsOnly(r, answered) ==
    /\ CallAt(r, "readRoles")
    /\ call' = [call EXCEPT ![r].old = {}, ![r].step = "assign"]
    /\ UNCHANGED <<users, muddled, spared, asked, social>>

\* _get_user_realm_roles: a status other than 200 reads as no role at all.
ReadRoles(r, answered) ==
    /\ CallAt(r, "readRoles")
    /\ LET old == IF answered /\ users[call[r].id].there THEN users[call[r].id].roles ELSE {}
       IN  call' = [call EXCEPT ![r].old = old, ![r].step = IF old = {} THEN "assign" ELSE "remove"]
    /\ UNCHANGED <<users, muddled, spared, asked, social>>

\* DELETE of the role mappings: the status of the answer is not looked at.
RemoveRoles(r, answered) ==
    /\ CallAt(r, "remove")
    /\ users' = IF answered /\ users[call[r].id].there
                THEN [users EXCEPT ![call[r].id].roles = @ \ call[r].old] ELSE users
    /\ CallGoto(r, "assign")
    /\ UNCHANGED <<muddled, spared, asked, social>>

\* GET of the role and POST of the mapping; a user deleted meanwhile fails the request.
AssignRole(r) ==
    /\ CallAt(r, "assign") /\ call[r].op # "register"
    /\ LET i == call[r].id
       IN  IF users[i].there
           THEN /\ users' = [users EXCEPT ![i].roles = @ \cup {call[r].role}] /\ CallGoto(r, "done")
                /\ social' = social \ {i}
           ELSE CallGoto(r, "failed") /\ UNCHANGED <<users, social>>
    /\ UNCHANGED <<torn, muddled, spared, asked, refused>>

\* _assign_viewer_role of a registration: to the user who has the email by now, if there is one.
AssignViewer(r) ==
    /\ CallAt(r, "assign") /\ call[r].op = "register"
    /\ LET found == {i \in There : users[i].email = call[r].email}
       IN  /\ users' = [i \in Ids |-> IF i \in found THEN [users[i] EXCEPT !.roles = @ \cup {"viewer"}]
                                     ELSE users[i]]
           /\ torn' = IF found = {call[r].id} THEN torn ELSE torn \cup found \cup {call[r].id}
           /\ social' = social \ found
    /\ CallGoto(r, "done")
    /\ UNCHANGED <<muddled, spared, asked, refused>>

----------------------------------------------------------------------------
(* update_user: the attributes are read, merged with the request and put back. *)

\* Only a 404 stops it: the body of any other refusal has no attributes to keep.
ReadUser(r, answered) ==
    /\ CallAt(r, "readUser")
    /\ LET i == call[r].id
       IN  /\ IF users[i].there
              THEN call' = [call EXCEPT ![r].step = "put", ![r].kept = IF answered THEN users[i].tenant ELSE None]
              ELSE CallGoto(r, "failed")
           /\ muddled' = IF ~answered THEN muddled \cup {i} ELSE muddled
    /\ UNCHANGED <<users, torn, spared, asked, social>>

\* PUT is refused when the email is another user's. It replaces the attributes: of two merges
\* that overlap on one user the later one's stay.
PutUser(r) ==
    /\ CallAt(r, "put")
    /\ LET i == call[r].id
           town == IF call[r].town # None THEN call[r].town ELSE call[r].kept
           disables == call[r].enabled = "off"
       IN  IF ~users[i].there \/ Taken(i, call[r].email)
           THEN CallGoto(r, "failed") /\ UNCHANGED <<users, muddled, spared, asked>>
           ELSE /\ users' = [users EXCEPT
                       ![i].email = IF call[r].email = None THEN @ ELSE call[r].email,
                       ![i].tenant = IF town # None \/ call[r].dept THEN town ELSE @,
                       ![i].enabled = IF call[r].enabled = None THEN @ ELSE ~disables]
                /\ asked' = IF call[r].town # None THEN [asked EXCEPT ![i] = call[r].town] ELSE asked
                /\ muddled' = IF \E q \in Callers \ {r} : CallAt(q, "put") /\ call[q].id = i
                              THEN muddled \cup {i} ELSE muddled
                /\ spared' = IF disables /\ call[r].op = "update" THEN spared \cup {i} ELSE spared
                /\ CallGoto(r, IF disables /\ call[r].op = "toggle" THEN "logout" ELSE "done")
    /\ UNCHANGED <<social, torn, refused>>

\* The toggle that disables ends the sessions, and does not mind a failure.
LogoutUser(r, answered) ==
    /\ CallAt(r, "logout")
    /\ users' = IF answered /\ users[call[r].id].there
                THEN [users EXCEPT ![call[r].id].session = FALSE] ELSE users
    /\ spared' = IF answered THEN spared ELSE spared \cup {call[r].id}
    /\ CallGoto(r, "done")
    /\ UNCHANGED <<torn, muddled, asked, social>>

----------------------------------------------------------------------------
\* A call refused by the identity server, where the code goes on with what it has.
CallRefused(r) ==
    /\ refused < MaxRefused /\ refused' = refused + 1
    /\ \/ (ReadRoles(r, FALSE) \/ RemoveRoles(r, FALSE)) /\ torn' = torn \cup {call[r].id}
       \/ ReadUser(r, FALSE) \/ LogoutUser(r, FALSE)

\* A call that ends the request: refused or timed out before its effect; one that times out
\* after its effect is the step itself followed by the loss of the next call.
CallLost(r) ==
    /\ Open(r) /\ refused < MaxRefused /\ refused' = refused + 1
    /\ CallGoto(r, IF call[r].op = "register" /\ CallAt(r, "assign") THEN "done" ELSE "failed")
    /\ torn' = IF call[r].op \in RoleOps /\ call[r].id # None
               THEN torn \cup {call[r].id} ELSE torn
    /\ spared' = IF CallAt(r, "logout") THEN spared \cup {call[r].id} ELSE spared
    /\ UNCHANGED <<users, muddled, asked, social>>

Login(i) ==
    /\ users[i].there /\ users[i].enabled /\ ~users[i].session
    /\ users' = [users EXCEPT ![i].session = TRUE]
    /\ UNCHANGED <<call, torn, muddled, spared, asked, social, refused>>

\* POST /auth/sso/exchange of someone the platform does not know: the realm has just made a user
\* with the tenant of its mapper and none of the platform's roles.
SsoFirstLogin(i) ==
    /\ i \in Fresh
    /\ \E e \in Emails :
          /\ ~Taken(i, e)
          /\ users' = [users EXCEPT ![i] = [there |-> TRUE, email |-> e, enabled |-> TRUE, roles |-> {},
                           tenant |-> DefaultTown, session |-> TRUE]]
    /\ asked' = [asked EXCEPT ![i] = DefaultTown]
    /\ social' = social \cup {i}
    /\ UNCHANGED <<call, torn, muddled, spared, refused>>

UsersNext ==
    \/ \E r \in Callers :
        \/ CreateUser(r) \/ Register(r) \/ ChangeUserRole(r)
        \/ UpdateUser(r) \/ UpdateMyProfile(r) \/ ToggleUserStatus(r) \/ DeleteUser(r)
        \/ PostUser(r) \/ AssignRole(r) \/ AssignViewer(r) \/ PutUser(r)
        \/ (ReadRoles(r, TRUE) \/ RemoveRoles(r, TRUE)) /\ UNCHANGED <<torn, refused>>
        \/ (ReadUser(r, TRUE) \/ LogoutUser(r, TRUE)) /\ UNCHANGED refused
        \/ CallRefused(r) \/ CallLost(r)
    \/ \E i \in Ids : Login(i) \/ SsoFirstLogin(i)

UsersSpec == UsersInit /\ [][UsersNext]_userVars

----------------------------------------------------------------------------
\* A user at rest has exactly one platform role, or none if the identity provider made it and
\* no role was given to it since.
OneRole ==
    \A i \in There \ torn :
        (\A r \in Callers : ~(Open(r) /\ call[r].op \in RoleOps /\ call[r].id = i)) =>
            IF i \in social THEN users[i].roles = {}
            ELSE \E role \in Roles : users[i].roles = {role}

\* A user belongs to the tenant last asked for.
TownIsAsked == \A i \in There \ muddled : users[i].tenant = asked[i]

\* A user disabled by the toggle has no session once the toggle has answered.
DisabledIsOut ==
    \A i \in There \ spared :
        ~users[i].enabled /\ users[i].session => \E r \in Callers : CallAt(r, "logout") /\ call[r].id = i

\* Role, tenant and sessions of a user are what was last asked for, unless a call of the change
\* was lost or refused, or another change met it between its calls.
UsersAsAsked == OneRole /\ TownIsAsked /\ DisabledIsOut
=============================================================================
