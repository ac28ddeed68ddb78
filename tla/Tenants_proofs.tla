---------------------------- MODULE Tenants_proofs ----------------------------
(***************************************************************************)
(* For any municipalities, requests, editors, users, keys and faults: the  *)
(* accounts of the tenants (TenantAccounts, SchemaShapes), the presets of  *)
(* a municipality (ReportPresets), the signing keys (KeyCache), the users  *)
(* of the identity server (UserDirectory) and the public schema through    *)
(* its upgrades (SchemaUpgrades).                                          *)
(*                                                                         *)
(* Every theorem about the accounts rests on one summary: a step of a      *)
(* request leaves it in the same operation with the same tenant, and lets  *)
(* the others only forget a debt (Onward).  What a step makes of the rows  *)
(* (Effects), of the schemas (StepSchemas) and of the debts (StepDebts) is *)
(* stated once each, on top of it.                                         *)
(***************************************************************************)
EXTENDS TenantPromises, WellFoundedInduction, FiniteSetTheorems, TLAPS

\* A non-empty set of naturals has a least member.
LEMMA LeastNatural ==
    ASSUME NEW T, T \subseteq Nat, T # {}
    PROVE  \E m \in T : \A n \in T : m <= n
<1>1. IsWellFoundedOn(OpToRel(<, Nat), Nat)
  BY NatLessThanWellFounded
<1>2. PICK x \in T : \A y \in T : ~ (<<y, x>> \in OpToRel(<, Nat))
  BY <1>1, WFMin
<1>3. \A y \in T : ~ (y < x)
  BY <1>2 DEF OpToRel
<1> QED BY <1>3

LEMMA FirstIsMember ==
    ASSUME NEW S, S \subseteq Slugs, S # {}
    PROVE  First(S) \in S
<1> DEFINE Positions == {i \in DOMAIN Order : Order[i] \in S}
<1>1. DOMAIN Order \subseteq Nat
  BY AccountsAssumption
<1>2. Positions # {}
  BY DEF Slugs
<1>3. PICK i \in Positions : \A j \in Positions : i <= j
  BY <1>1, <1>2, LeastNatural
<1>4. \E k \in DOMAIN Order : Order[k] \in S /\ \A j \in DOMAIN Order : Order[j] \in S => k <= j
  BY <1>3
<1> QED BY <1>4 DEF First

LEMMA FirstOfOne == ASSUME NEW s \in Slugs PROVE First({s}) = s
  BY FirstIsMember

-----------------------------------------------------------------------------
Operations == {"none", "create", "migrate", "migrateAll", "deactivate", "reactivate", "pay",
               "project", "subscribe", "upgrade"}
Places == {"idle", "check", "insert", "default", "begin", "seed", "list", "version", "ddl",
           "wait", "run", "limit", "done"}

\* A request as a record.
Request ==
    [op : Operations, pc : Places, todo : SUBSET Slugs, plan : {"none", "professional"},
     answer : {"none", "200", "201", "402", "404", "409", "500"},
     errors : SUBSET Slugs, hit : SUBSET Slugs, aborted : BOOLEAN, owing : BOOLEAN,
     asks : BOOLEAN]

InDdl == {"version", "begin", "wait", "ddl"}

\* Where a request of each kind can be, and what it has before it.
InCode(q) ==
    /\ q.pc = "idle" <=> q.op = "none"
    /\ q.op = "create" => q.pc \in {"check", "insert", "default", "begin", "wait", "ddl", "seed", "done"}
    /\ q.op = "migrate" => q.pc \in InDdl \cup {"done"}
    /\ q.op = "migrateAll" => q.pc \in InDdl \cup {"list", "done"}
    /\ q.op \notin {"none", "migrateAll"} => \E s \in Slugs : q.todo = {s}
    /\ q.pc \in InDdl => q.op \in {"create", "migrate", "migrateAll"} /\ q.todo # {}
    /\ q.pc # "done" => q.answer = "none"
    /\ ~q.aborted
    /\ q.owing => q.op = "project"

\* The requests: what the others do to one is to forget its debt.
Requested ==
    /\ req \in [Reqs -> Request]
    /\ \A r \in Reqs : InCode(req[r])

Forgetting(q, p) == p = q \/ p = [q EXCEPT !.owing = FALSE]
Mine(r) ==
    /\ \A q \in Reqs \ {r} : Forgetting(req[q], req'[q])
    /\ req' = [q \in Reqs |-> req'[q]]

LEMMA InitRequested == Init => Requested
<1>1. Idle \in Request /\ InCode(Idle)
  BY DEF Request, InCode, Idle, Operations, Places, InDdl
<1> QED BY <1>1 DEF Init, Requested

LEMMA MineRequested ==
    ASSUME Requested, NEW r \in Reqs, Mine(r), req'[r] \in Request, InCode(req'[r])
    PROVE  Requested'
<1>1. ASSUME NEW q \in Reqs PROVE req'[q] \in Request /\ InCode(req'[q])
  <2>1. CASE q = r
    BY <2>1
  <2>2. CASE q # r /\ req'[q] = req[q]
    BY <2>2 DEF Requested
  <2>3. CASE q # r /\ req'[q] = [req[q] EXCEPT !.owing = FALSE]
    <3>1. req[q] \in Request /\ InCode(req[q])
      BY DEF Requested
    <3>2. req'[q] \in Request
      BY <2>3, <3>1 DEF Request
    <3>3. InCode(req'[q])
      BY <2>3, <3>1 DEF InCode, Request
    <3> QED BY <3>2, <3>3
  <2> QED BY <2>1, <2>2, <2>3 DEF Mine, Forgetting
<1>2. req' \in [Reqs -> Request]
  BY <1>1 DEF Mine
<1> QED BY <1>1, <1>2 DEF Requested

LEMMA SetRequested ==
    ASSUME Requested, NEW r \in Reqs, NEW x \in Request, InCode(x), req' = [req EXCEPT ![r] = x]
    PROVE  Requested' /\ Mine(r) /\ req'[r] = x
<1>1. req' = [q \in Reqs |-> IF q = r THEN x ELSE req[q]]
  BY DEF Requested
<1>2. Mine(r) /\ req'[r] = x
  BY <1>1 DEF Mine, Forgetting
<1> QED BY <1>2, MineRequested

LEMMA SetRelieved ==
    ASSUME Requested, NEW r \in Reqs, NEW s, NEW x \in Request, InCode(x), req[r].op # "project",
           req' = [Relieved(s) EXCEPT ![r] = x]
    PROVE  Requested' /\ Mine(r) /\ req'[r] = x
<1>1. req' = [q \in Reqs |-> IF q = r THEN x ELSE Relieved(s)[q]]
  BY DEF Relieved
<1>2. \A q \in Reqs : Forgetting(req[q], Relieved(s)[q])
  BY DEF Relieved, Forgetting
<1>3. Mine(r) /\ req'[r] = x
  BY <1>1, <1>2 DEF Mine
<1> QED BY <1>3, MineRequested

\* A request goes on in its code, or is answered.
LEMMA GotoRequested ==
    ASSUME Requested, NEW r \in Reqs, NEW pc \in Places, Goto(r, pc),
           InCode([req[r] EXCEPT !.pc = pc])
    PROVE  Requested' /\ Mine(r) /\ req'[r] = [req[r] EXCEPT !.pc = pc]
<1>1. req' = [req EXCEPT ![r] = [req[r] EXCEPT !.pc = pc]]
  BY DEF Goto, Requested
<1>2. [req[r] EXCEPT !.pc = pc] \in Request
  BY DEF Requested, Request
<1> QED BY <1>1, <1>2, SetRequested

LEMMA AnswerRequested ==
    ASSUME Requested, NEW r \in Reqs, NEW a \in {"200", "201", "402", "404", "409", "500"}, Answer(r, a),
           req[r].pc # "idle"
    PROVE  Requested' /\ Mine(r) /\ req'[r] = [req[r] EXCEPT !.pc = "done", !.answer = a]
<1>1. req' = [req EXCEPT ![r] = [req[r] EXCEPT !.pc = "done", !.answer = a]]
  BY DEF Answer, Requested
<1>2. [req[r] EXCEPT !.pc = "done", !.answer = a] \in Request
  <2>1. req[r] \in Request
    BY DEF Requested
  <2>2. "done" \in Places /\ a \in {"none", "200", "201", "402", "404", "409", "500"}
    BY DEF Places
  <2> QED BY <2>1, <2>2 DEF Request
<1>3. InCode([req[r] EXCEPT !.pc = "done", !.answer = a])
  <2>1. req[r] \in Request /\ InCode(req[r])
    BY DEF Requested
  <2> DEFINE x == [req[r] EXCEPT !.pc = "done", !.answer = a]
  <2>2. /\ x.pc = "done" /\ x.op = req[r].op /\ x.todo = req[r].todo
        /\ x.aborted = req[r].aborted /\ x.owing = req[r].owing /\ x.asks = req[r].asks
    BY <2>1 DEF Request
  <2> HIDE DEF x
  <2>3. InCode(x)
    BY <2>1, <2>2 DEF InCode, InDdl
  <2> QED BY <2>3 DEF x
<1> QED BY <1>1, <1>2, <1>3, SetRequested

\* The next slug of a loop, or its end.
LEMMA AdvancedIn ==
    ASSUME NEW q \in Request, InCode(q), q.pc \in InDdl, q.op # "create"
    PROVE  /\ Advanced(q) \in Request /\ InCode(Advanced(q))
           /\ Advanced(q).op = q.op /\ Advanced(q).pc \in {"version", "done"}
           /\ Advanced(q).errors = q.errors /\ Advanced(q).hit = q.hit
           /\ Advanced(q).owing = q.owing /\ Advanced(q).asks = q.asks
           /\ q.op = "migrate" => Advanced(q).pc = "done" /\ Advanced(q).todo = q.todo
<1> DEFINE rest == q.todo \ {First(q.todo)}
<1>1. q.op \in {"migrate", "migrateAll"}
  BY DEF InCode, InDdl, Request, Operations
<1>2. CASE rest # {}
  <2>1. Advanced(q) = [q EXCEPT !.todo = rest, !.pc = "version"]
    BY <1>2 DEF Advanced
  <2>2. q.op = "migrateAll"
    BY <1>1, <1>2, FirstOfOne DEF InCode
  <2>3. Advanced(q) \in Request
    BY <2>1 DEF Request, Places
  <2> QED BY <1>2, <2>1, <2>2, <2>3 DEF InCode, InDdl, Request
<1>3. CASE rest = {}
  <2>1. Advanced(q) = [q EXCEPT !.pc = "done", !.answer = "200"]
    BY <1>3 DEF Advanced
  <2>2. Advanced(q) \in Request
    BY <2>1 DEF Request, Places
  <2> QED BY <1>1, <2>1, <2>2 DEF InCode, InDdl, Request
<1> QED BY <1>2, <1>3

LEMMA DdlErrorIn ==
    ASSUME Requested, NEW r \in Reqs, req[r].pc \in InDdl
    PROVE  /\ DdlError(r) \in Request /\ InCode(DdlError(r))
           /\ DdlError(r).op = req[r].op
           /\ DdlError(r).pc \in {"version", "done"} /\ (req[r].op = "create" => DdlError(r).pc = "done")
           /\ req[r].op # "migrateAll" =>
                DdlError(r).pc = "done" /\ DdlError(r).answer = "500" /\ DdlError(r).todo = req[r].todo
           /\ DdlError(r).errors = req[r].errors \cup {Slug(r)} /\ DdlError(r).hit = req[r].hit
           /\ DdlError(r).owing = req[r].owing /\ DdlError(r).asks = req[r].asks
<1>1. req[r] \in Request /\ InCode(req[r])
  BY DEF Requested
<1>2. Slug(r) \in Slugs
  BY <1>1, FirstIsMember DEF InCode, Slug, Request
<1>3. CASE req[r].op = "migrateAll"
  <2> DEFINE q == [req[r] EXCEPT !.errors = @ \cup {Slug(r)}]
  <2>1. /\ q \in Request /\ q.op = req[r].op /\ q.pc = req[r].pc /\ q.todo = req[r].todo
        /\ q.aborted = req[r].aborted /\ q.owing = req[r].owing /\ q.asks = req[r].asks /\ q.hit = req[r].hit
        /\ q.answer = req[r].answer
        /\ q.errors = req[r].errors \cup {Slug(r)}
    BY <1>1, <1>2 DEF Request
  <2> HIDE DEF q
  <2>2. InCode(q)
    BY <1>1, <2>1 DEF InCode
  <2> DEFINE y == Advanced(q)
  <2>3. /\ y \in Request /\ InCode(y) /\ y.op = req[r].op /\ y.pc \in {"version", "done"}
        /\ y.errors = q.errors /\ y.hit = req[r].hit /\ y.owing = req[r].owing /\ y.asks = req[r].asks
    BY <1>3, <2>1, <2>2, AdvancedIn
  <2>4. DdlError(r) = [y EXCEPT !.aborted = FALSE]
    BY <1>3 DEF DdlError, q
  <2> HIDE DEF y
  <2>5. y.aborted = FALSE
    BY <2>3 DEF InCode, Request
  <2>6. DdlError(r) = y
    BY <2>3, <2>4, <2>5 DEF Request
  <2> QED BY <1>3, <2>1, <2>3, <2>6
<1>4. CASE req[r].op # "migrateAll"
  <2> DEFINE y == [req[r] EXCEPT !.pc = "done", !.answer = "500", !.errors = @ \cup {Slug(r)}]
  <2>1. DdlError(r) = y
    BY <1>4 DEF DdlError
  <2>2. /\ y \in Request /\ y.op = req[r].op /\ y.pc = "done" /\ y.todo = req[r].todo
        /\ y.aborted = req[r].aborted /\ y.owing = req[r].owing /\ y.asks = req[r].asks /\ y.hit = req[r].hit
        /\ y.errors = req[r].errors \cup {Slug(r)} /\ y.answer = "500"
    BY <1>1, <1>2 DEF Request, Places
  <2> HIDE DEF y
  <2>3. InCode(y)
    BY <1>1, <2>2 DEF InCode, InDdl
  <2> QED BY <2>1, <2>2, <2>3
<1> QED BY <1>3, <1>4

-----------------------------------------------------------------------------
(* Each step: what becomes of the request. *)

\* A request in its code has a slug.
LEMMA HasSlug ==
    ASSUME Requested, NEW r \in Reqs, req[r].op \notin {"none", "migrateAll"} \/ req[r].pc \in InDdl
    PROVE  Slug(r) \in Slugs /\ (req[r].op # "migrateAll" /\ req[r].op # "none" => req[r].todo = {Slug(r)})
  BY FirstIsMember, FirstOfOne DEF Requested, Request, InCode, Slug

LEMMA ArriveRequested ==
    ASSUME Requested, NEW r \in Reqs, Arrive(r)
    PROVE  /\ Requested' /\ Mine(r) /\ req[r].pc = "idle"
           /\ req'[r].errors = {} /\ req'[r].hit = {} /\ req'[r].answer = "none"
           /\ <<req'[r].op, req'[r].pc>> \in
                 {<<"create", "check">>, <<"migrate", "version">>, <<"deactivate", "run">>,
                  <<"reactivate", "run">>, <<"pay", "run">>, <<"project", "limit">>,
                  <<"subscribe", "check">>, <<"upgrade", "run">>, <<"migrateAll", "list">>}
           /\ req'[r].op = "project" /\ req'[r].owing => Owing(First(req'[r].todo))
           /\ overlap' = overlap \cup UNION {{<<r, q>>, <<q, r>>} : q \in {q \in Reqs : Busy(q)}}
           /\ UNCHANGED <<tenants, subs, ns, projects, faults>>
<1>1. PICK op \in Operations, todo \in SUBSET Slugs, plan \in {"none", "professional"}, pc \in Places,
          asks \in BOOLEAN :
        /\ Start(r, op, todo, plan, pc, asks)
        /\ <<op, pc>> \in
                 {<<"create", "check">>, <<"migrate", "version">>, <<"deactivate", "run">>,
                  <<"reactivate", "run">>, <<"pay", "run">>, <<"project", "limit">>,
                  <<"subscribe", "check">>, <<"upgrade", "run">>, <<"migrateAll", "list">>}
        /\ op # "migrateAll" => \E s \in Slugs : todo = {s}
  <2>1. CASE \E s \in Slugs, kind \in {<<"create", "check">>, <<"migrate", "version">>,
                                       <<"deactivate", "run">>, <<"reactivate", "run">>,
                                       <<"pay", "run">>} :
               Start(r, kind[1], {s}, "none", kind[2], FALSE)
    <3>1. PICK s \in Slugs, kind \in {<<"create", "check">>, <<"migrate", "version">>,
                                       <<"deactivate", "run">>, <<"reactivate", "run">>,
                                       <<"pay", "run">>} :
            Start(r, kind[1], {s}, "none", kind[2], FALSE)
      BY <2>1
    <3>2. /\ kind[1] \in Operations \ {"migrateAll"} /\ kind[2] \in Places
          /\ <<kind[1], kind[2]>> = kind
      BY DEF Operations, Places
    <3> QED BY <3>1, <3>2
  <2>2. CASE \E s \in Slugs, named \in BOOLEAN :
               tenants[s] # "absent" /\ Start(r, "project", {s}, "none", "limit", named)
    BY <2>2 DEF Operations, Places
  <2>3. CASE \E s \in Slugs, kind \in {<<"subscribe", "check">>, <<"upgrade", "run">>} :
               Start(r, kind[1], {s}, "professional", kind[2], FALSE)
    <3>1. PICK s \in Slugs, kind \in {<<"subscribe", "check">>, <<"upgrade", "run">>} :
            Start(r, kind[1], {s}, "professional", kind[2], FALSE)
      BY <2>3
    <3>2. /\ kind[1] \in Operations \ {"migrateAll"} /\ kind[2] \in Places
          /\ <<kind[1], kind[2]>> = kind
      BY DEF Operations, Places
    <3> QED BY <3>1, <3>2
  <2>4. CASE Start(r, "migrateAll", {}, "none", "list", FALSE)
    BY <2>4 DEF Operations, Places
  <2> QED BY <2>1, <2>2, <2>3, <2>4 DEF Arrive
<1> DEFINE x == [Idle EXCEPT !.op = op, !.todo = todo, !.plan = plan, !.pc = pc, !.asks = asks,
                              !.owing = op = "project" /\ Owing(First(todo))]
<1>2. req' = [req EXCEPT ![r] = x]
  BY <1>1 DEF Start
<1>3. /\ x \in Request /\ x.op = op /\ x.pc = pc /\ x.todo = todo /\ x.aborted = FALSE
      /\ x.errors = {} /\ x.hit = {} /\ x.answer = "none"
      /\ x.owing = (op = "project" /\ Owing(First(todo)))
  BY <1>1 DEF Idle, Request
<1> HIDE DEF x
<1>4. InCode(x)
  BY <1>1, <1>3 DEF InCode, InDdl
<1>5. Requested' /\ Mine(r) /\ req'[r] = x
  BY <1>2, <1>3, <1>4, SetRequested
<1> QED BY <1>1, <1>3, <1>5 DEF Start

\* Every other step: the request is under way and stays what it is, with its slug unless it is
\* the loop over all; what it reports as an error has hit it.
Onward(r) ==
    /\ Requested' /\ Mine(r) /\ Busy(r) /\ overlap' = overlap
    /\ req'[r].op = req[r].op
    /\ req[r].op \in {"create", "migrate", "subscribe", "project"} => req'[r].todo = req[r].todo
    /\ (req'[r].owing => req[r].owing) /\ (req'[r].asks => req[r].asks)
    /\ req[r].errors \subseteq req'[r].errors
    /\ req[r].errors \subseteq req[r].hit => req'[r].errors \subseteq req'[r].hit

LEMMA GotoOnward ==
    ASSUME Requested, NEW r \in Reqs, NEW op, NEW from, NEW pc \in Places, At(r, op, from), Goto(r, pc),
           op \in {"create", "subscribe", "project"}, from \notin {"idle", "done"},
           op = "create" => pc \in {"insert", "default", "begin", "seed"},
           op # "create" => pc = "insert", overlap' = overlap
    PROVE  Onward(r) /\ req'[r].pc = pc /\ req'[r].answer = req[r].answer
<1>1. req[r] \in Request /\ InCode(req[r])
  BY DEF Requested
<1> DEFINE x == [req[r] EXCEPT !.pc = pc]
<1>2. /\ x.op = req[r].op /\ x.pc = pc /\ x.todo = req[r].todo /\ x.aborted = req[r].aborted
      /\ x.owing = req[r].owing /\ x.asks = req[r].asks /\ x.errors = req[r].errors /\ x.hit = req[r].hit
      /\ x.answer = req[r].answer
  BY <1>1 DEF Request
<1> HIDE DEF x
<1>3. InCode(x)
  BY <1>1, <1>2 DEF InCode, InDdl, At
<1>4. Requested' /\ Mine(r) /\ req'[r] = x
  BY <1>3, GotoRequested DEF x
<1> QED BY <1>2, <1>4 DEF Onward, Busy, At

LEMMA AnswerOnward ==
    ASSUME Requested, NEW r \in Reqs, NEW a \in {"200", "201", "402", "404", "409", "500"}, Answer(r, a),
           Busy(r), overlap' = overlap
    PROVE  Onward(r) /\ req'[r].pc = "done" /\ req'[r].answer = a
<1>1. req[r] \in Request
  BY DEF Requested
<1>2. /\ Requested' /\ Mine(r) /\ req'[r] = [req[r] EXCEPT !.pc = "done", !.answer = a]
  BY AnswerRequested DEF Busy
<1> QED BY <1>1, <1>2 DEF Onward, Request

\* A step that ends in record x of the same request.
LEMMA SetOnward ==
    ASSUME Requested, NEW r \in Reqs, Busy(r), NEW x \in Request, InCode(x), overlap' = overlap,
           \/ req' = [req EXCEPT ![r] = x]
           \/ req[r].op # "project" /\ \E s : req' = [Relieved(s) EXCEPT ![r] = x],
           x.op = req[r].op, x.owing => req[r].owing, x.asks => req[r].asks,
           req[r].op \in {"create", "migrate", "subscribe", "project"} => x.todo = req[r].todo,
           req[r].errors \subseteq x.errors, req[r].errors \subseteq req[r].hit => x.errors \subseteq x.hit
    PROVE  Onward(r) /\ req'[r] = x
<1>1. Requested' /\ Mine(r) /\ req'[r] = x
  BY SetRequested, SetRelieved
<1> QED BY <1>1 DEF Onward

LEMMA OnboardingOnward ==
    ASSUME Requested, NEW r \in Reqs
    PROVE  /\ CreateCheck(r) \/ CreateInsert(r) \/ CreateSubscribe(r) \/ CreateSeed(r) => Onward(r)
           /\ CreateCheck(r) => req'[r].pc \in {"insert", "done"} /\ req'[r].answer # "201"
           /\ CreateInsert(r) => req'[r].pc \in {"default", "done"} /\ req'[r].answer # "201"
           /\ CreateSubscribe(r) => req'[r].pc = "begin" /\ req'[r].answer = req[r].answer
           /\ CreateSeed(r) => req'[r].pc = "done" /\ req'[r].answer = "201"
<1>1. req[r] \in Request /\ InCode(req[r])
  BY DEF Requested
<1>2. ASSUME CreateCheck(r)
      PROVE  Onward(r) /\ req'[r].pc \in {"insert", "done"} /\ req'[r].answer # "201"
  BY <1>1, <1>2, GotoOnward, AnswerOnward DEF CreateCheck, Places, Busy, At, InCode
<1>3. ASSUME CreateInsert(r)
      PROVE  Onward(r) /\ req'[r].pc \in {"default", "done"} /\ req'[r].answer # "201"
  BY <1>1, <1>3, GotoOnward, AnswerOnward DEF CreateInsert, Places, Busy, At, InCode
<1>4. ASSUME CreateSubscribe(r)
      PROVE  Onward(r) /\ req'[r].pc = "begin" /\ req'[r].answer = req[r].answer
  <2> DEFINE x == [req[r] EXCEPT !.pc = "begin"]
  <2>1. /\ x \in Request /\ x.op = req[r].op /\ x.pc = "begin" /\ x.todo = req[r].todo
        /\ x.aborted = req[r].aborted /\ x.owing = req[r].owing /\ x.asks = req[r].asks /\ x.errors = req[r].errors
        /\ x.hit = req[r].hit /\ x.answer = req[r].answer
    BY <1>1 DEF Request, Places
  <2>2. req' = [Relieved(Slug(r)) EXCEPT ![r] = x]
    BY <1>1, <1>4 DEF CreateSubscribe, Relieved, At
  <2> HIDE DEF x
  <2>3. InCode(x)
    BY <1>1, <1>4, <2>1 DEF InCode, InDdl, CreateSubscribe, At
  <2> QED BY <1>1, <1>4, <2>1, <2>2, <2>3, SetOnward DEF CreateSubscribe, At, Busy, InCode
<1>5. ASSUME CreateSeed(r)
      PROVE  Onward(r) /\ req'[r].pc = "done" /\ req'[r].answer = "201"
  BY <1>1, <1>5, AnswerOnward DEF CreateSeed, Busy, At
<1> QED BY <1>2, <1>3, <1>4, <1>5

LEMMA DdlOnward ==
    ASSUME Requested, NEW r \in Reqs
    PROVE  /\ \/ List(r) \/ ReadVersion(r) \/ BeginDdl(r)
              \/ Waited(r) \/ CommitDdl(r) \/ DdlFails(r)
              => Onward(r)
           /\ List(r) \/ ReadVersion(r) => req[r].op # "create"
           /\ BeginDdl(r) \/ Waited(r) \/ CommitDdl(r) \/ DdlFails(r) =>
                req[r].pc \in {"begin", "wait", "ddl"}
           /\ (BeginDdl(r) \/ Waited(r) \/ DdlFails(r)) /\ req[r].op \in {"create", "migrate"} =>
                /\ req'[r].answer \notin {"200", "201"}
                /\ \/ req'[r].pc \in {"wait", "ddl"}
                   \/ req'[r].pc = "done" /\ Slug(r) \in req'[r].errors
           /\ CommitDdl(r) /\ req[r].op = "create" => req'[r].pc = "seed" /\ req'[r].answer = "none"
<1>1. req[r] \in Request /\ InCode(req[r])
  BY DEF Requested
<1>2. ASSUME List(r) PROVE Onward(r) /\ req[r].op # "create"
  <2> DEFINE active == {s \in Slugs : tenants[s] = "active"}
             x == [req[r] EXCEPT !.todo = active, !.pc = IF active = {} THEN "done" ELSE "version",
                                 !.answer = IF active = {} THEN "200" ELSE "none"]
  <2>1. /\ x \in Request /\ x.op = req[r].op /\ x.pc = (IF active = {} THEN "done" ELSE "version")
        /\ x.todo = active /\ x.answer = (IF active = {} THEN "200" ELSE "none")
        /\ x.aborted = req[r].aborted /\ x.owing = req[r].owing /\ x.asks = req[r].asks /\ x.errors = req[r].errors
        /\ x.hit = req[r].hit
    BY <1>1 DEF Request, Places
  <2>2. req' = [req EXCEPT ![r] = x]
    BY <1>1, <1>2 DEF List, Requested
  <2>3. overlap' = overlap /\ req[r].op = "migrateAll" /\ req[r].pc = "list"
    BY <1>2 DEF List, At
  <2> HIDE DEF x
  <2>4. InCode(x)
    BY <1>1, <2>1, <2>3 DEF InCode, InDdl
  <2> QED BY <1>1, <2>1, <2>2, <2>3, <2>4, SetOnward DEF Busy
<1>3. ASSUME ReadVersion(r) PROVE Onward(r) /\ req[r].op # "create"
  <2>1. overlap' = overlap /\ req[r].pc = "version" /\ req[r].op \in {"migrate", "migrateAll"}
    BY <1>1, <1>3 DEF ReadVersion, InCode, InDdl
  <2>2. CASE req' = [req EXCEPT ![r] = Advanced(req[r])]
    BY <1>1, <2>1, <2>2, AdvancedIn, SetOnward DEF Busy, InDdl
  <2>3. CASE req' = [req EXCEPT ![r] = [req[r] EXCEPT !.pc = "begin"]]
    <3> DEFINE x == [req[r] EXCEPT !.pc = "begin"]
    <3>1. /\ x \in Request /\ x.op = req[r].op /\ x.pc = "begin" /\ x.todo = req[r].todo
          /\ x.aborted = req[r].aborted /\ x.owing = req[r].owing /\ x.asks = req[r].asks /\ x.errors = req[r].errors
          /\ x.hit = req[r].hit /\ x.answer = req[r].answer
      BY <1>1 DEF Request, Places
    <3> HIDE DEF x
    <3>2. InCode(x)
      BY <1>1, <2>1, <3>1 DEF InCode, InDdl
    <3> QED BY <1>1, <2>1, <2>3, <3>1, <3>2, SetOnward DEF Busy, x
  <2> QED BY <1>3, <2>1, <2>2, <2>3 DEF ReadVersion
<1>4. ASSUME BeginDdl(r)
      PROVE  /\ Onward(r) /\ req[r].pc = "begin"
             /\ req'[r].pc \in {"wait", "ddl"} /\ req'[r].answer \notin {"200", "201"}
  <2> DEFINE pc == IF Owner(Slug(r)) = {} THEN "ddl" ELSE "wait"
             x == [req[r] EXCEPT !.pc = pc]
  <2>1. /\ overlap' = overlap /\ req[r].pc = "begin" /\ req' = [req EXCEPT ![r] = x]
    BY <1>1, <1>4 DEF BeginDdl, InCode
  <2>2. /\ x \in Request /\ x.op = req[r].op /\ x.pc \in {"ddl", "wait"} /\ x.todo = req[r].todo
        /\ x.aborted = req[r].aborted /\ x.owing = req[r].owing /\ x.asks = req[r].asks /\ x.errors = req[r].errors
        /\ x.hit = req[r].hit /\ x.answer = req[r].answer
    BY <1>1 DEF Request, Places
  <2> HIDE DEF x
  <2>3. InCode(x)
    BY <1>1, <2>1, <2>2 DEF InCode, InDdl
  <2> QED BY <1>1, <2>1, <2>2, <2>3, SetOnward DEF Busy, InCode
<1>5. ASSUME Waited(r) \/ DdlFails(r)
      PROVE  /\ Onward(r) /\ req[r].pc \in {"wait", "ddl"}
             /\ req[r].op \in {"create", "migrate"} =>
                  /\ req'[r].answer \notin {"200", "201"}
                  /\ \/ req'[r].pc = "ddl"
                     \/ req'[r].pc = "done" /\ Slug(r) \in req'[r].errors
  <2>1. overlap' = overlap /\ req[r].pc \in {"wait", "ddl"}
    BY <1>5 DEF Waited, DdlFails
  <2>2. CASE req[r].pc = "wait" /\ req' = [req EXCEPT ![r].pc = "ddl"]
    <3> DEFINE x == [req[r] EXCEPT !.pc = "ddl"]
    <3>1. /\ x \in Request /\ x.op = req[r].op /\ x.pc = "ddl" /\ x.todo = req[r].todo
          /\ x.aborted = req[r].aborted /\ x.owing = req[r].owing /\ x.asks = req[r].asks /\ x.errors = req[r].errors
          /\ x.hit = req[r].hit /\ x.answer = req[r].answer
      BY <1>1 DEF Request, Places
    <3>2. req' = [req EXCEPT ![r] = x]
      BY <2>2 DEF Requested
    <3> HIDE DEF x
    <3>3. InCode(x)
      BY <1>1, <2>2, <3>1 DEF InCode, InDdl
    <3> QED BY <1>1, <2>1, <2>2, <3>1, <3>2, <3>3, SetOnward DEF Busy, InCode
  <2>3. CASE req' = [req EXCEPT ![r] = [DdlError(r) EXCEPT !.hit = @ \cup {Slug(r)}]]
    <3> DEFINE y == DdlError(r)
               x == [y EXCEPT !.hit = y.hit \cup {Slug(r)}]
    <3>1. /\ y \in Request /\ InCode(y) /\ y.op = req[r].op
          /\ y.pc \in {"version", "done"} /\ (req[r].op = "create" => y.pc = "done")
          /\ req[r].op # "migrateAll" => y.pc = "done" /\ y.answer = "500" /\ y.todo = req[r].todo
          /\ y.errors = req[r].errors \cup {Slug(r)} /\ y.hit = req[r].hit
          /\ y.owing = req[r].owing /\ y.asks = req[r].asks
      BY <2>1, DdlErrorIn DEF InDdl
    <3>2. req' = [req EXCEPT ![r] = x]
      BY <2>3
    <3>3. Slug(r) \in Slugs
      BY <2>1, HasSlug DEF InDdl
    <3> HIDE DEF y
    <3>4. /\ x \in Request /\ x.op = y.op /\ x.pc = y.pc /\ x.todo = y.todo
          /\ x.aborted = y.aborted /\ x.owing = y.owing /\ x.asks = y.asks /\ x.errors = y.errors
          /\ x.hit = y.hit \cup {Slug(r)} /\ x.answer = y.answer
      BY <3>1, <3>3 DEF Request
    <3> HIDE DEF x
    <3>5. InCode(x)
      BY <3>1, <3>4 DEF InCode
    <3>6. req[r].op \in {"create", "migrate", "migrateAll"}
      BY <1>1, <2>1 DEF InCode, InDdl
    <3>7. /\ req[r].errors \subseteq x.errors /\ Slug(r) \in x.errors
          /\ req[r].errors \subseteq req[r].hit => x.errors \subseteq x.hit
          /\ (x.owing => req[r].owing) /\ (x.asks => req[r].asks) /\ x.op = req[r].op
      <4>1. x.errors = req[r].errors \cup {Slug(r)} /\ x.hit = req[r].hit \cup {Slug(r)}
        BY <3>1, <3>4
      <4>2. x.owing = req[r].owing /\ x.asks = req[r].asks /\ x.op = req[r].op
        BY <3>1, <3>4
      <4> QED BY <4>1, <4>2
    <3>8. req[r].op \in {"create", "migrate", "subscribe", "project"} => x.todo = req[r].todo
      BY <3>1, <3>4, <3>6
    <3>9. Onward(r) /\ req'[r] = x
      BY <2>1, <3>2, <3>4, <3>5, <3>7, <3>8, SetOnward DEF Busy
    <3>10. req[r].op \in {"create", "migrate"} => x.pc = "done" /\ x.answer = "500"
      BY <3>1, <3>4
    <3> QED BY <2>1, <3>7, <3>9, <3>10
  <2> QED BY <1>5, <2>1, <2>2, <2>3 DEF Waited, DdlFails
<1>6. ASSUME CommitDdl(r)
      PROVE  /\ Onward(r) /\ req[r].pc = "ddl"
             /\ req[r].op = "create" => req'[r].pc = "seed" /\ req'[r].answer = "none"
  <2>1. overlap' = overlap /\ req[r].pc = "ddl"
    BY <1>6 DEF CommitDdl
  <2>2. CASE req[r].op = "create"
    <3> DEFINE x == [req[r] EXCEPT !.pc = "seed"]
    <3>1. /\ x \in Request /\ x.op = req[r].op /\ x.pc = "seed" /\ x.todo = req[r].todo
          /\ x.aborted = req[r].aborted /\ x.owing = req[r].owing /\ x.asks = req[r].asks /\ x.errors = req[r].errors
          /\ x.hit = req[r].hit /\ x.answer = req[r].answer
      BY <1>1 DEF Request, Places
    <3>2. req' = [req EXCEPT ![r] = x]
      BY <1>6, <2>2 DEF CommitDdl
    <3> HIDE DEF x
    <3>3. InCode(x)
      BY <1>1, <2>1, <2>2, <3>1 DEF InCode, InDdl
    <3> QED BY <1>1, <2>1, <2>2, <3>1, <3>2, <3>3, SetOnward DEF Busy, InCode
  <2>3. CASE req[r].op # "create"
    <3>1. req' = [req EXCEPT ![r] = Advanced(req[r])]
      BY <1>6, <2>3 DEF CommitDdl
    <3>2. req[r].op \in {"migrate", "migrateAll"}
      BY <1>1, <2>1, <2>3 DEF InCode, InDdl
    <3> QED BY <1>1, <2>1, <3>1, <3>2, AdvancedIn, SetOnward DEF Busy, InDdl
  <2> QED BY <2>1, <2>2, <2>3
<1> QED BY <1>2, <1>3, <1>4, <1>5, <1>6

LEMMA AccountsOnward ==
    ASSUME Requested, NEW r \in Reqs
    PROVE  /\ \/ Deactivate(r) \/ Reactivate(r) \/ SubscribeCheck(r) \/ SubscribeInsert(r)
              \/ Upgrade(r) \/ UpdateSubscription(r) \/ EnforceProjectLimit(r) \/ CreateProject(r)
              => Onward(r) /\ req[r].op \notin {"create", "migrate"}
           /\ \/ Deactivate(r) \/ Reactivate(r) \/ SubscribeInsert(r) \/ Upgrade(r)
              \/ UpdateSubscription(r) \/ CreateProject(r)
              => req'[r].pc = "done"
<1>1. req[r] \in Request /\ InCode(req[r])
  BY DEF Requested
<1>2. ASSUME Deactivate(r) \/ Reactivate(r) \/ Upgrade(r) \/ CreateProject(r)
      PROVE  Onward(r) /\ req[r].op \notin {"create", "migrate"} /\ req'[r].pc = "done"
  BY <1>1, <1>2, AnswerOnward DEF Deactivate, Reactivate, Upgrade, CreateProject, Busy, At
<1>3. ASSUME SubscribeCheck(r) \/ EnforceProjectLimit(r)
      PROVE  Onward(r) /\ req[r].op \notin {"create", "migrate"}
  <2>1. CASE \/ SubscribeCheck(r) /\ (Goto(r, "insert") \/ \E a \in {"404", "409"} : Answer(r, a))
             \/ EnforceProjectLimit(r) /\ (Goto(r, "insert") \/ Answer(r, "402"))
    BY <1>1, <2>1, GotoOnward, AnswerOnward
       DEF SubscribeCheck, EnforceProjectLimit, Places, Busy, At
  <2>2. CASE /\ EnforceProjectLimit(r)
             /\ req' = [req EXCEPT ![r].pc = "insert", ![r].asks = FALSE]
    <3> DEFINE x == [req[r] EXCEPT !.pc = "insert", !.asks = FALSE]
    <3>1. /\ x \in Request /\ x.op = req[r].op /\ x.pc = "insert" /\ x.todo = req[r].todo
          /\ x.aborted = req[r].aborted /\ x.owing = req[r].owing /\ x.asks = FALSE
          /\ x.errors = req[r].errors /\ x.hit = req[r].hit /\ x.answer = req[r].answer
      BY <1>1 DEF Request, Places
    <3>2. req' = [req EXCEPT ![r] = x] /\ At(r, "project", "limit") /\ overlap' = overlap
      BY <2>2 DEF Requested, EnforceProjectLimit
    <3> HIDE DEF x
    <3>3. InCode(x)
      BY <1>1, <3>1, <3>2 DEF InCode, InDdl, At
    <3> QED BY <1>1, <3>1, <3>2, <3>3, SetOnward DEF Busy, At
  <2> QED BY <1>3, <2>1, <2>2 DEF SubscribeCheck, EnforceProjectLimit
<1>4. ASSUME NEW a \in {"200", "201"}, NEW s, Busy(r), overlap' = overlap, req[r].op # "project",
             \/ req' = [Relieved(s) EXCEPT ![r].pc = "done", ![r].answer = a]
             \/ req' = [req EXCEPT ![r].pc = "done", ![r].answer = a]
      PROVE  Onward(r) /\ req'[r].pc = "done"
  <2> DEFINE x == [req[r] EXCEPT !.pc = "done", !.answer = a]
  <2>1. /\ x \in Request /\ x.op = req[r].op /\ x.pc = "done" /\ x.todo = req[r].todo
        /\ x.aborted = req[r].aborted /\ x.owing = req[r].owing /\ x.asks = req[r].asks /\ x.errors = req[r].errors
        /\ x.hit = req[r].hit
    BY <1>1 DEF Request, Places
  <2>2. req' = [Relieved(s) EXCEPT ![r] = x] \/ req' = [req EXCEPT ![r] = x]
    BY <1>1, <1>4 DEF Relieved, Requested
  <2> HIDE DEF x
  <2>3. InCode(x)
    BY <1>1, <1>4, <2>1 DEF InCode, InDdl, Busy
  <2> QED BY <1>4, <2>1, <2>2, <2>3, SetOnward
<1>5. ASSUME SubscribeInsert(r) \/ UpdateSubscription(r)
      PROVE  Onward(r) /\ req[r].op \notin {"create", "migrate"} /\ req'[r].pc = "done"
  <2>1. CASE SubscribeInsert(r)
    BY <1>4, <2>1 DEF SubscribeInsert, At, Busy
  <2>2. CASE UpdateSubscription(r) /\ Answer(r, "404")
    BY <2>2, AnswerOnward DEF UpdateSubscription, At, Busy
  <2>3. CASE UpdateSubscription(r) /\ \E u \in SubsOf(Slug(r)) :
               req' = [(IF u.paid THEN req ELSE Relieved(Slug(r)))
                         EXCEPT ![r].pc = "done", ![r].answer = "200"]
    BY <1>4, <2>3 DEF UpdateSubscription, At, Busy
  <2> QED BY <1>5, <2>1, <2>2, <2>3 DEF UpdateSubscription
<1> QED BY <1>2, <1>3, <1>5

LEMMA StepOnward ==
    ASSUME Requested, NEW r \in Reqs, Step(r) PROVE Onward(r)
  BY OnboardingOnward, DdlOnward, AccountsOnward DEF Step

\* Only what a statement hit is an error.
ErrorsHit == Requested /\ OnlyTheBrokenFail

LEMMA NextErrorsHit == ErrorsHit /\ [Next]_vars => ErrorsHit'
<1> SUFFICES ASSUME ErrorsHit, [Next]_vars PROVE ErrorsHit'
  OBVIOUS
<1>1. CASE UNCHANGED vars
  BY <1>1 DEF vars, ErrorsHit, Requested, OnlyTheBrokenFail
<1>2. ASSUME NEW r \in Reqs, Mine(r), Requested', req'[r].errors \subseteq req'[r].hit PROVE ErrorsHit'
  <2>1. ASSUME NEW q \in Reqs, q # r PROVE req'[q].errors = req[q].errors /\ req'[q].hit = req[q].hit
    <3>1. req[q] \in Request /\ Forgetting(req[q], req'[q])
      BY <1>2, <2>1 DEF ErrorsHit, Requested, Mine
    <3> QED BY <3>1 DEF Forgetting, Request
  <2> QED BY <1>2, <2>1 DEF ErrorsHit, OnlyTheBrokenFail
<1>3. ASSUME NEW r \in Reqs, Arrive(r) PROVE ErrorsHit'
  BY <1>2, <1>3, ArriveRequested DEF ErrorsHit
<1>4. ASSUME NEW r \in Reqs, Step(r) PROVE ErrorsHit'
  BY <1>2, <1>4, StepOnward DEF ErrorsHit, OnlyTheBrokenFail, Onward
<1> QED BY <1>1, <1>3, <1>4 DEF Next

\* For any tenants, requests and faults: the migration of all reports as failed only the
\* tenants whose own statements failed.
THEOREM BrokenAlone == Spec => []OnlyTheBrokenFail
<1>1. Init => ErrorsHit
  BY InitRequested DEF Init, ErrorsHit, OnlyTheBrokenFail, Idle
<1>2. ErrorsHit => OnlyTheBrokenFail
  BY DEF ErrorsHit
<1> QED BY <1>1, <1>2, NextErrorsHit, PTL DEF Spec

-----------------------------------------------------------------------------
Subscription ==
    [slug : Slugs, by : Reqs \cup {"import"}, plan : {"none", "starter", "professional"}, paid : BOOLEAN]
Project == [slug : Slugs, by : Reqs, at : {"tenant", "public"}]

\* A request that is about to write a subscription.
Pending(r) == At(r, "create", "default") \/ At(r, "subscribe", "insert")

\* The rows of public; who has or is about to have a subscription has a tenant row.
Recorded ==
    /\ tenants \in [Slugs -> {"absent", "active", "inactive"}]
    /\ subs \subseteq Subscription /\ projects \subseteq Project
    /\ overlap \subseteq Reqs \X Reqs /\ faults \in 0..MaxFaults
    /\ \A u \in subs : tenants[u.slug] # "absent"
    /\ \A r \in Reqs : Pending(r) => tenants[Slug(r)] # "absent"

\* Overlapping is mutual, and two requests under way overlap.
Mutual ==
    /\ \A p, q \in Reqs : <<p, q>> \in overlap => <<q, p>> \in overlap
    /\ \A p, q \in Reqs : Busy(p) /\ Busy(q) /\ p # q => <<p, q>> \in overlap

\* Who is about to write a subscription overlaps the request of any that is there.
Ahead ==
    \A r \in Reqs : Pending(r) => \A u \in SubsOf(Slug(r)) : u.by # r => <<r, u.by>> \in overlap

LEMMA OnlyMine ==
    ASSUME Requested, NEW r \in Reqs, Mine(r), NEW q \in Reqs, q # r
    PROVE  /\ req'[q].op = req[q].op /\ req'[q].pc = req[q].pc /\ req'[q].todo = req[q].todo
           /\ req'[q].answer = req[q].answer /\ req'[q].errors = req[q].errors
           /\ (req'[q].owing => req[q].owing) /\ req'[q].asks = req[q].asks
           /\ Slug(q)' = Slug(q) /\ Busy(q)' = Busy(q) /\ Pending(q)' = Pending(q)
<1>1. req[q] \in Request /\ Forgetting(req[q], req'[q])
  BY DEF Requested, Mine
<1>2. /\ req'[q].op = req[q].op /\ req'[q].pc = req[q].pc /\ req'[q].todo = req[q].todo
      /\ req'[q].answer = req[q].answer /\ req'[q].errors = req[q].errors
      /\ (req'[q].owing => req[q].owing) /\ req'[q].asks = req[q].asks
  BY <1>1 DEF Forgetting, Request
<1> QED BY <1>2 DEF Slug, Busy, Pending, At

\* What one step makes of the rows of public: no tenant goes, no tenant loses its last
\* subscription, and a new one is that of a request that was about to write it.
Effects(r) ==
    /\ tenants' \in [Slugs -> {"absent", "active", "inactive"}]
    /\ \A s \in Slugs : tenants[s] # "absent" => tenants'[s] # "absent"
    /\ subs' \subseteq Subscription
    /\ \A u \in subs' : \/ \E w \in subs : w.slug = u.slug /\ w.by = u.by
                        \/ Pending(r) /\ u.slug = Slug(r) /\ u.by = r
    /\ \A u \in subs : \E w \in subs' : w.slug = u.slug /\ w.by = u.by
    /\ Pending(r)' => /\ SubsOf(Slug(r)) = {} /\ subs' = subs /\ Slug(r)' = Slug(r)
                      /\ tenants'[Slug(r)] # "absent"

LEMMA NotPending ==
    ASSUME Requested, NEW r \in Reqs, Onward(r),
           req'[r].op # "create" \/ req'[r].pc # "default",
           req'[r].op # "subscribe" \/ req'[r].pc # "insert"
    PROVE  ~Pending(r)'
  BY DEF Pending, At

\* A subscription is written by a request that is about to.
LEMMA SubscribeEffects ==
    ASSUME Requested, Recorded, NEW r \in Reqs, Pending(r), NEW plan \in {"starter", "none", "professional"},
           Subscribe(r, plan), UNCHANGED tenants, ~Pending(r)'
    PROVE  Effects(r)
<1>1. Slug(r) \in Slugs
  BY HasSlug DEF Pending, At
<1> DEFINE new == [slug |-> Slug(r), by |-> r, plan |-> plan, paid |-> TRUE]
<1>2. subs' = subs \cup {new} /\ new \in Subscription /\ new.slug = Slug(r) /\ new.by = r
  BY <1>1 DEF Subscribe, Subscription
<1> HIDE DEF new
<1> QED BY <1>2 DEF Effects, Recorded

LEMMA StepEffects ==
    ASSUME Requested, Recorded, NEW r \in Reqs, Step(r)
    PROVE  Effects(r)
<1>1. /\ Onward(r) /\ req[r] \in Request /\ InCode(req[r])
      /\ req'[r].op = req[r].op
  BY StepOnward DEF Requested, Onward
<1>2. ASSUME UNCHANGED <<tenants, subs>>, ~Pending(r)' PROVE Effects(r)
  BY <1>2 DEF Effects, Recorded
<1>3. CASE CreateCheck(r) \/ CreateSeed(r)
  BY <1>1, <1>2, <1>3, NotPending, OnboardingOnward DEF CreateCheck, CreateSeed, At
<1>4. CASE CreateInsert(r)
  <2>1. Slug(r) \in Slugs /\ Slug(r)' = Slug(r) /\ req[r].op = "create"
    BY <1>1, <1>4, HasSlug DEF CreateInsert, At, Slug, Onward
  <2>2. CASE tenants[Slug(r)] = "absent"
    <3>1. tenants' = [tenants EXCEPT ![Slug(r)] = "active"] /\ subs' = subs
      BY <1>4, <2>2 DEF CreateInsert
    <3>2. SubsOf(Slug(r)) = {}
      BY <2>2 DEF SubsOf, Recorded
    <3> QED BY <2>1, <3>1, <3>2 DEF Effects, Recorded
  <2>3. CASE tenants[Slug(r)] # "absent"
    <3>1. Answer(r, "500") /\ UNCHANGED <<tenants, subs>> /\ overlap' = overlap
      BY <1>4, <2>3 DEF CreateInsert
    <3>2. req'[r].pc = "done"
      BY <1>1, <3>1, AnswerOnward DEF Onward
    <3> QED BY <1>1, <1>2, <3>1, <3>2, NotPending
  <2> QED BY <2>2, <2>3
<1>5. CASE CreateSubscribe(r)
  BY <1>1, <1>5, NotPending, OnboardingOnward, SubscribeEffects DEF CreateSubscribe, Pending, At
<1>6. CASE List(r) \/ ReadVersion(r) \/ BeginDdl(r) \/ Waited(r) \/ CommitDdl(r) \/ DdlFails(r)
  <2>1. UNCHANGED <<tenants, subs>> /\ req[r].op # "subscribe"
    BY <1>1, <1>6 DEF List, ReadVersion, BeginDdl, Waited, CommitDdl, DdlFails, InCode, InDdl, At
  <2>2. req'[r].op = "create" => req'[r].pc \in {"wait", "ddl", "done", "seed"}
    BY <1>1, <1>6, DdlOnward
  <2> QED BY <1>1, <1>2, <2>1, <2>2, NotPending
<1>7. CASE Deactivate(r) \/ Reactivate(r)
  <2>1. ~Pending(r)' /\ subs' = subs
    <3>1. req'[r].pc = "done"
      BY <1>7, AccountsOnward
    <3> QED BY <1>1, <1>7, <3>1, NotPending DEF Deactivate, Reactivate
  <2>2. /\ tenants' \in [Slugs -> {"absent", "active", "inactive"}]
        /\ \A s \in Slugs : tenants[s] # "absent" => tenants'[s] # "absent"
    BY <1>7 DEF Deactivate, Reactivate, Recorded
  <2> QED BY <2>1, <2>2 DEF Effects, Recorded
<1>8. CASE SubscribeCheck(r)
  <2>1. Slug(r) \in Slugs /\ Slug(r)' = Slug(r) /\ UNCHANGED <<tenants, subs>>
        /\ overlap' = overlap
    BY <1>1, <1>8, HasSlug DEF SubscribeCheck, At, Slug, Onward
  <2>2. CASE SubsOf(Slug(r)) = {} /\ tenants[Slug(r)] # "absent"
    BY <2>1, <2>2 DEF Effects, Recorded
  <2>3. CASE \E a \in {"404", "409"} : Answer(r, a)
    <3>1. req'[r].pc = "done"
      BY <1>1, <2>1, <2>3, AnswerOnward DEF Onward
    <3> QED BY <1>1, <1>2, <2>1, <3>1, NotPending
  <2> QED BY <1>8, <2>2, <2>3 DEF SubscribeCheck
<1>9. CASE SubscribeInsert(r)
  <2>1. req'[r].pc = "done" /\ Pending(r)
    BY <1>9, AccountsOnward DEF SubscribeInsert, Pending
  <2>2. req[r].plan \in {"none", "professional"}
    BY <1>1 DEF Request
  <2> QED BY <1>1, <1>9, <2>1, <2>2, NotPending, SubscribeEffects DEF SubscribeInsert
<1>10. CASE Upgrade(r) \/ UpdateSubscription(r)
  <2>1. ~Pending(r)' /\ tenants' = tenants /\ req[r].plan \in {"none", "professional"}
    <3>1. req'[r].pc = "done"
      BY <1>10, AccountsOnward
    <3> QED BY <1>1, <1>10, <3>1, NotPending DEF Upgrade, UpdateSubscription, Request
  <2>2. CASE Upgrade(r)
    <3>1. \A u \in Subscription : LET w == [u EXCEPT !.plan = req[r].plan]
                                 IN  w \in Subscription /\ w.slug = u.slug /\ w.by = u.by
      BY <2>1 DEF Subscription
    <3>2. /\ \A w \in subs' : \E u \in subs : w = u \/ w = [u EXCEPT !.plan = req[r].plan]
          /\ \A u \in subs : u \in subs' \/ [u EXCEPT !.plan = req[r].plan] \in subs'
      BY <2>2 DEF Upgrade
    <3>3. subs \subseteq Subscription /\ tenants \in [Slugs -> {"absent", "active", "inactive"}]
      BY DEF Recorded
    <3>4. /\ subs' \subseteq Subscription
          /\ \A w \in subs' : \E u \in subs : w.slug = u.slug /\ w.by = u.by
          /\ \A u \in subs : \E w \in subs' : w.slug = u.slug /\ w.by = u.by
      <4>1. \A w \in subs' : w \in Subscription /\ \E u \in subs : w.slug = u.slug /\ w.by = u.by
        BY <3>1, <3>2, <3>3
      <4>2. ASSUME NEW u \in subs PROVE \E w \in subs' : w.slug = u.slug /\ w.by = u.by
        <5>1. CASE u \in subs'
          BY <5>1
        <5>2. CASE [u EXCEPT !.plan = req[r].plan] \in subs'
          BY <3>1, <3>3, <5>2
        <5> QED BY <3>2, <5>1, <5>2
      <4> QED BY <4>1, <4>2
    <3> QED BY <2>1, <3>3, <3>4 DEF Effects
  <2>3. CASE UpdateSubscription(r)
    <3>1. \A u \in Subscription : LET w == [u EXCEPT !.paid = ~@]
                                 IN  w \in Subscription /\ w.slug = u.slug /\ w.by = u.by
      BY DEF Subscription
    <3>2. CASE subs' = subs
      BY <1>2, <2>1, <3>2
    <3>3. CASE \E u \in subs : subs' = (subs \ {u}) \cup {[u EXCEPT !.paid = ~@]}
      <4>1. PICK u \in subs : subs' = (subs \ {u}) \cup {[u EXCEPT !.paid = ~@]}
        BY <3>3
      <4> DEFINE w == [u EXCEPT !.paid = ~@]
      <4>2. u \in Subscription /\ w \in Subscription /\ w.slug = u.slug /\ w.by = u.by
        BY <3>1 DEF Recorded
      <4>3. subs' = (subs \ {u}) \cup {w}
        BY <4>1
      <4> HIDE DEF w
      <4>4. \A x \in subs' : \E y \in subs : y.slug = x.slug /\ y.by = x.by
        BY <4>2, <4>3
      <4>5. \A x \in subs : \E y \in subs' : y.slug = x.slug /\ y.by = x.by
        BY <4>2, <4>3
      <4> QED BY <2>1, <4>2, <4>3, <4>4, <4>5 DEF Effects, Recorded
    <3> QED BY <2>3, <3>2, <3>3 DEF UpdateSubscription, SubsOf
  <2> QED BY <1>10, <2>2, <2>3
<1>11. CASE EnforceProjectLimit(r) \/ CreateProject(r)
  BY <1>1, <1>2, <1>11, NotPending DEF EnforceProjectLimit, CreateProject, At
<1> QED BY <1>3, <1>4, <1>5, <1>6, <1>7, <1>8, <1>9, <1>10, <1>11 DEF Step

AccountsInv == Requested /\ Recorded /\ Mutual /\ Ahead /\ TwoSubscriptionsOnlyByOverlap

LEMMA InitAccountsInv == Init => AccountsInv
<1> SUFFICES ASSUME Init PROVE AccountsInv
  OBVIOUS
<1>1. PICK s \in Slugs :
        /\ tenants = [t \in Slugs |-> IF t = s THEN "active" ELSE "absent"]
        /\ subs = {[slug |-> s, by |-> "import", plan |-> "starter", paid |-> TRUE]}
  BY DEF Init
<1>2. \A r \in Reqs : ~Pending(r) /\ ~Busy(r)
  BY DEF Init, Pending, Busy, At, Idle
<1>3. Recorded
  BY <1>1, <1>2, AccountsAssumption DEF Init, Recorded, Subscription
<1>4. Mutual /\ Ahead /\ TwoSubscriptionsOnlyByOverlap
  BY <1>1, <1>2 DEF Init, Mutual, Ahead, TwoSubscriptionsOnlyByOverlap
<1> QED BY <1>3, <1>4, InitRequested DEF AccountsInv

\* A request that arrives overlaps those under way.
LEMMA ArriveAccountsInv == ASSUME AccountsInv, NEW r \in Reqs, Arrive(r) PROVE AccountsInv'
<1>1. /\ Requested' /\ Mine(r) /\ req[r].pc = "idle" /\ ~Pending(r)'
      /\ overlap' = overlap \cup UNION {{<<r, q>>, <<q, r>>} : q \in {q \in Reqs : Busy(q)}}
      /\ UNCHANGED <<tenants, subs, projects, faults>>
  <2>1. Requested
    BY DEF AccountsInv
  <2>2. <<req'[r].op, req'[r].pc>> \in
                 {<<"create", "check">>, <<"migrate", "version">>, <<"deactivate", "run">>,
                  <<"reactivate", "run">>, <<"pay", "run">>, <<"project", "limit">>,
                  <<"subscribe", "check">>, <<"upgrade", "run">>, <<"migrateAll", "list">>}
    BY <2>1, ArriveRequested
  <2>3. ~Pending(r)'
    BY <2>2 DEF Pending, At
  <2> QED BY <2>1, <2>3, ArriveRequested
<1>2. /\ overlap' \subseteq Reqs \X Reqs /\ overlap \subseteq overlap'
      /\ \A p, q \in Reqs : <<p, q>> \in overlap' <=>
            <<p, q>> \in overlap \/ (p = r /\ Busy(q)) \/ (q = r /\ Busy(p))
  BY <1>1 DEF AccountsInv, Recorded
<1>3. \A q \in Reqs \ {r} : Pending(q)' = Pending(q) /\ Slug(q)' = Slug(q) /\ Busy(q)' = Busy(q)
  BY <1>1, OnlyMine DEF AccountsInv
<1>4. ~Busy(r)
  BY <1>1 DEF Busy
<1>5. Recorded'
  BY <1>1, <1>2, <1>3 DEF AccountsInv, Recorded
<1>6. Mutual'
  BY <1>2, <1>3, <1>4 DEF AccountsInv, Mutual
<1>7. Ahead'
  <2> SUFFICES ASSUME NEW q \in Reqs, Pending(q)', NEW u \in subs', u.slug = Slug(q)', u.by # q
               PROVE  <<q, u.by>> \in overlap'
    BY DEF Ahead, SubsOf
  <2> QED BY <1>1, <1>2, <1>3 DEF AccountsInv, Ahead, SubsOf
<1>8. TwoSubscriptionsOnlyByOverlap'
  BY <1>1, <1>2 DEF AccountsInv, TwoSubscriptionsOnlyByOverlap
<1> QED BY <1>1, <1>5, <1>6, <1>7, <1>8 DEF AccountsInv

LEMMA StepAccountsInv == ASSUME AccountsInv, NEW r \in Reqs, Step(r) PROVE AccountsInv'
<1>1. Requested' /\ Mine(r) /\ Busy(r) /\ overlap' = overlap /\ Effects(r)
  BY StepOnward, StepEffects DEF AccountsInv, Onward
<1>2. \A q \in Reqs \ {r} : Pending(q)' = Pending(q) /\ Slug(q)' = Slug(q) /\ Busy(q)' = Busy(q)
  BY <1>1, OnlyMine DEF AccountsInv
<1>3. ASSUME NEW q \in Reqs, Pending(q) PROVE Slug(q) \in Slugs /\ Busy(q)
  BY <1>3, HasSlug DEF AccountsInv, Pending, At, Busy
<1>4. faults' \in 0..MaxFaults
  <2>1. CASE CreateSeed(r) \/ DdlFails(r) \/ EnforceProjectLimit(r)
    <3>1. faults' = faults \/ (faults < MaxFaults /\ faults' = faults + 1)
      BY <2>1 DEF CreateSeed, DdlFails, EnforceProjectLimit
    <3> QED BY <3>1, AccountsAssumption DEF AccountsInv, Recorded
  <2>2. CASE ~(CreateSeed(r) \/ DdlFails(r) \/ EnforceProjectLimit(r))
    BY <2>2 DEF AccountsInv, Recorded, Step, CreateCheck, CreateInsert, CreateSubscribe, List,
        ReadVersion, BeginDdl, Waited, CommitDdl, Deactivate, Reactivate, SubscribeCheck,
        SubscribeInsert, Upgrade, UpdateSubscription, CreateProject
  <2> QED BY <2>1, <2>2
<1>10. projects' \subseteq Project
  <2>2. CASE CreateSeed(r) \/ CreateProject(r)
    <3>1. Slug(r) \in Slugs
      BY <2>2, HasSlug DEF AccountsInv, CreateSeed, CreateProject, At
    <3>2. \A at \in {"tenant", "public"} : [slug |-> Slug(r), by |-> r, at |-> at] \in Project
      BY <3>1 DEF Project
    <3>3. \E at \in {"tenant", "public"} :
             projects' \in {projects, projects \cup {[slug |-> Slug(r), by |-> r, at |-> at]}}
      BY <2>2 DEF CreateSeed, CreateProject
    <3> QED BY <3>2, <3>3 DEF AccountsInv, Recorded
  <2>3. CASE ~(CreateSeed(r) \/ CreateProject(r))
    BY <2>3 DEF AccountsInv, Recorded, Step, CreateCheck, CreateInsert, CreateSubscribe, List,
        ReadVersion, BeginDdl, Waited, CommitDdl, DdlFails, Deactivate, Reactivate, SubscribeCheck,
        SubscribeInsert, Upgrade, UpdateSubscription, EnforceProjectLimit
  <2> QED BY <2>2, <2>3
<1>5. \A u \in subs' : tenants'[u.slug] # "absent"
  <2> SUFFICES ASSUME NEW u \in subs' PROVE tenants'[u.slug] # "absent"
    OBVIOUS
  <2>1. u.slug \in Slugs /\ tenants[u.slug] # "absent"
    BY <1>1, <1>3 DEF Effects, AccountsInv, Recorded, Subscription
  <2> QED BY <1>1, <2>1 DEF Effects
<1>6. Recorded'
  <2>1. ASSUME NEW q \in Reqs, Pending(q)' PROVE tenants'[Slug(q)'] # "absent"
    BY <1>1, <1>2, <1>3, <2>1 DEF AccountsInv, Recorded, Effects
  <2>2. overlap' \subseteq Reqs \X Reqs /\ subs' \subseteq Subscription
        /\ tenants' \in [Slugs -> {"absent", "active", "inactive"}]
    BY <1>1 DEF AccountsInv, Recorded, Effects
  <2> QED BY <1>4, <1>5, <1>10, <2>1, <2>2 DEF Recorded
<1>7. Mutual'
  BY <1>1, <1>2 DEF AccountsInv, Mutual
<1>8. Ahead'
  <2> SUFFICES ASSUME NEW q \in Reqs, Pending(q)', NEW u \in subs', u.slug = Slug(q)', u.by # q
               PROVE  <<q, u.by>> \in overlap
    BY <1>1 DEF Ahead, SubsOf
  <2>1. CASE q = r
    BY <1>1, <2>1 DEF Effects, SubsOf
  <2>2. CASE q # r /\ \E w \in subs : w.slug = u.slug /\ w.by = u.by
    BY <1>2, <2>2 DEF AccountsInv, Ahead, SubsOf
  <2>3. CASE q # r /\ Pending(r) /\ u.slug = Slug(r) /\ u.by = r
    BY <1>1, <1>2, <1>3, <2>3 DEF AccountsInv, Mutual
  <2> QED BY <1>1, <2>1, <2>2, <2>3 DEF Effects
<1>9. TwoSubscriptionsOnlyByOverlap'
  <2> SUFFICES ASSUME NEW u \in subs', NEW w \in subs', u.slug = w.slug, u.by # w.by
               PROVE  <<u.by, w.by>> \in overlap
    BY <1>1 DEF TwoSubscriptionsOnlyByOverlap
  <2>1. ASSUME NEW x \in subs', NEW y \in subs', x.slug = y.slug, x.by # y.by,
               Pending(r), x.slug = Slug(r), x.by = r, \E v \in subs : v.slug = y.slug /\ v.by = y.by
        PROVE  <<r, y.by>> \in overlap /\ <<y.by, r>> \in overlap
    <3>1. <<r, y.by>> \in overlap
      BY <2>1 DEF AccountsInv, Ahead, SubsOf
    <3>2. y.by \in Reqs
      BY <3>1 DEF AccountsInv, Recorded
    <3> QED BY <3>1, <3>2 DEF AccountsInv, Mutual
  <2>2. CASE /\ \E v \in subs : v.slug = u.slug /\ v.by = u.by
             /\ \E v \in subs : v.slug = w.slug /\ v.by = w.by
    BY <2>2 DEF AccountsInv, TwoSubscriptionsOnlyByOverlap
  <2> QED BY <1>1, <2>1, <2>2 DEF Effects
<1> QED BY <1>1, <1>6, <1>7, <1>8, <1>9 DEF AccountsInv

LEMMA NextAccountsInv == AccountsInv /\ [Next]_vars => AccountsInv'
<1>1. ASSUME AccountsInv, UNCHANGED vars PROVE AccountsInv'
  BY <1>1 DEF vars, AccountsInv, Requested, Recorded, Mutual, Ahead, Busy, Pending, At, Slug,
              SubsOf, TwoSubscriptionsOnlyByOverlap
<1> QED BY <1>1, ArriveAccountsInv, StepAccountsInv DEF Next

\* For any tenants, requests and faults: two active subscriptions of one tenant come from two
\* requests that overlapped.
THEOREM SubscribedTwiceByOverlap == Spec => []TwoSubscriptionsOnlyByOverlap
<1>1. AccountsInv => TwoSubscriptionsOnlyByOverlap
  BY DEF AccountsInv
<1> QED BY <1>1, InitAccountsInv, NextAccountsInv, PTL DEF Spec

-----------------------------------------------------------------------------
(* What the DDL of a tenant's schema does to a table. *)

LEMMA CreateMissingGives ==
    ASSUME NEW s, NEW shapes
    PROVE  /\ DOMAIN CreateMissing(s, shapes) = DOMAIN s \cup DOMAIN shapes
           /\ \A t \in DOMAIN s : CreateMissing(s, shapes)[t] = s[t]
           /\ \A t \in DOMAIN shapes \ DOMAIN s : CreateMissing(s, shapes)[t] = shapes[t]
  BY DEF CreateMissing, Exists

LEMMA AddColumnsGives ==
    ASSUME NEW s, NEW t, NEW cols
    PROVE  /\ DOMAIN AddColumns(s, t, cols) = DOMAIN s
           /\ t \in DOMAIN s => AddColumns(s, t, cols)[t] = s[t] \cup cols
           /\ \A u \in DOMAIN s \ {t} : AddColumns(s, t, cols)[u] = s[u]
  BY DEF AddColumns

LEMMA WithoutGives ==
    ASSUME NEW s, NEW t
    PROVE  /\ DOMAIN Without(s, t) = DOMAIN s \ {t}
           /\ \A u \in DOMAIN s \ {t} : Without(s, t)[u] = s[u]
  BY DEF Without, Restrict

\* A new schema, table by table.
CadastreColumns == {"owner_cpf_cnpj", "iptu_value_current_brl", "properties", "created_at"}
RunColumns == {"estimated_total_gap_brl", "updated_at"}
FirstRules == {"base_rate_per_sqm"}
RuleColumns == {"rule_set_id", "aliquot_pct"}

Whole ==
    [t \in {"users", "projects", "flights", "processing_jobs", "uploads", "flight_assets",
            "ai_detections", "measurements", "reports", "activity_logs", "discrepancies",
            "parcels", "analysis_runs", "iptu_rule_sets", "iptu_rules"} |->
       CASE t = "projects" -> {"created_by uuid"}
         [] t = "uploads" -> {"uploaded_by uuid"}
         [] t = "ai_detections" -> {"height_m", "polygon required"}
         [] t = "measurements" -> {"measured_by uuid"}
         [] t = "reports" -> {"file_key", "file_format", "parameters", "generated_by uuid"}
         [] t = "activity_logs" -> {"user_id uuid", "entity_id uuid"}
         [] t = "discrepancies" -> {"review_notes", "parcel_geometry", "detection_geometry"}
         [] t = "parcels" -> CadastreColumns
         [] t = "analysis_runs" -> RunColumns
         [] t = "iptu_rules" -> RuleColumns
         [] OTHER -> {}]

\* A table of some version: the cadastre and the runs may lack columns of a new one, and the rules
\* may be those of the first versions.
OfSomeVersion(t, columns) ==
    /\ t \in DOMAIN Whole
    /\ t = "parcels" => columns \ {"polygon required"} \subseteq Whole[t]
    /\ t = "analysis_runs" => columns \subseteq Whole[t]
    /\ t = "iptu_rules" => columns \in {FirstRules, Whole[t]}
    /\ t \notin {"parcels", "analysis_runs", "iptu_rules"} => columns = Whole[t]

Plainly(s) == \A t \in DOMAIN s : OfSomeVersion(t, s[t])

LEMMA PlainMore ==
    ASSUME NEW s, NEW shapes, Plainly(s), Plainly(shapes)
    PROVE  LET after == CreateMissing(s, shapes)
           IN  /\ DOMAIN after = DOMAIN s \cup DOMAIN shapes /\ Plainly(after)
               /\ \A t \in DOMAIN s : after[t] = s[t]
               /\ \A t \in DOMAIN shapes \ DOMAIN s : after[t] = shapes[t]
<1> DEFINE after == CreateMissing(s, shapes)
<1>1. /\ DOMAIN after = DOMAIN s \cup DOMAIN shapes
      /\ \A t \in DOMAIN s : after[t] = s[t]
      /\ \A t \in DOMAIN shapes \ DOMAIN s : after[t] = shapes[t]
  BY CreateMissingGives
<1> HIDE DEF after
<1>2. Plainly(after)
  BY <1>1 DEF Plainly
<1> QED BY <1>1, <1>2 DEF after

LEMMA PlainTables ==
    /\ Plainly(TenantCore) /\ Plainly(TenantFiles) /\ Plainly(TenantRecords)
    /\ Plainly(EmptySchema)
    /\ DOMAIN TenantCore = {"users", "projects", "flights", "processing_jobs"}
    /\ DOMAIN TenantFiles = {"uploads", "flight_assets", "ai_detections"}
    /\ DOMAIN TenantRecords = {"measurements", "reports", "activity_logs", "discrepancies"}
<1>1. Plainly(TenantCore) /\ DOMAIN TenantCore = {"users", "projects", "flights", "processing_jobs"}
  <2>1. /\ DOMAIN TenantCore = {"users", "projects", "flights", "processing_jobs"}
        /\ TenantCore["users"] = {}
        /\ TenantCore["projects"] = {"created_by uuid"}
        /\ TenantCore["flights"] = {}
        /\ TenantCore["processing_jobs"] = {}
    BY DEF TenantCore
  <2>2. /\ "users" \in DOMAIN Whole /\ Whole["users"] = {}
        /\ "projects" \in DOMAIN Whole /\ Whole["projects"] = {"created_by uuid"}
        /\ "flights" \in DOMAIN Whole /\ Whole["flights"] = {}
        /\ "processing_jobs" \in DOMAIN Whole /\ Whole["processing_jobs"] = {}
    BY DEF Whole
  <2> QED BY <2>1, <2>2 DEF Plainly, OfSomeVersion
<1>2. Plainly(TenantFiles) /\ DOMAIN TenantFiles = {"uploads", "flight_assets", "ai_detections"}
  <2>1. /\ DOMAIN TenantFiles = {"uploads", "flight_assets", "ai_detections"}
        /\ TenantFiles["uploads"] = {"uploaded_by uuid"}
        /\ TenantFiles["flight_assets"] = {}
        /\ TenantFiles["ai_detections"] = {"height_m", "polygon required"}
    BY DEF TenantFiles
  <2>2. /\ "uploads" \in DOMAIN Whole /\ Whole["uploads"] = {"uploaded_by uuid"}
        /\ "flight_assets" \in DOMAIN Whole /\ Whole["flight_assets"] = {}
        /\ "ai_detections" \in DOMAIN Whole /\ Whole["ai_detections"] = {"height_m", "polygon required"}
    BY DEF Whole
  <2> QED BY <2>1, <2>2 DEF Plainly, OfSomeVersion
<1>3. /\ Plainly(TenantRecords)
      /\ DOMAIN TenantRecords = {"measurements", "reports", "activity_logs", "discrepancies"}
  <2>1. /\ DOMAIN TenantRecords = {"measurements", "reports", "activity_logs", "discrepancies"}
        /\ TenantRecords["measurements"] = {"measured_by uuid"}
        /\ TenantRecords["reports"] = {"file_key", "file_format", "parameters", "generated_by uuid"}
        /\ TenantRecords["activity_logs"] = {"user_id uuid", "entity_id uuid"}
        /\ TenantRecords["discrepancies"] = {"review_notes", "parcel_geometry", "detection_geometry"}
    BY DEF TenantRecords
  <2>2. /\ "measurements" \in DOMAIN Whole /\ Whole["measurements"] = {"measured_by uuid"}
        /\ "reports" \in DOMAIN Whole /\ Whole["reports"] = {"file_key", "file_format", "parameters", "generated_by uuid"}
        /\ "activity_logs" \in DOMAIN Whole /\ Whole["activity_logs"] = {"user_id uuid", "entity_id uuid"}
        /\ "discrepancies" \in DOMAIN Whole /\ Whole["discrepancies"] = {"review_notes", "parcel_geometry", "detection_geometry"}
    BY DEF Whole
  <2> QED BY <2>1, <2>2 DEF Plainly, OfSomeVersion
<1>4. Plainly(EmptySchema)
  BY DEF Plainly, EmptySchema
<1> QED BY <1>1, <1>2, <1>3, <1>4

\* The cadastre and the runs get the columns they lack; rules of the first versions go.
LEMMA PlainParcels ==
    ASSUME NEW s, Plainly(s)
    PROVE  LET after == TenantParcels(s)
           IN  /\ DOMAIN after = DOMAIN s \cup {"parcels"} /\ Plainly(after)
               /\ after["parcels"] = Whole["parcels"]
<1> DEFINE created == CreateMissing(s, [parcels |-> CadastreColumns])
           added == AddColumns(created, "parcels", CadastreColumns)
           after == [added EXCEPT !["parcels"] = @ \ {"polygon required"}]
<1>0. /\ Whole["parcels"] = CadastreColumns /\ "parcels" \in DOMAIN Whole
      /\ "polygon required" \notin CadastreColumns
  BY DEF Whole, CadastreColumns
<1>1. DOMAIN created = DOMAIN s \cup {"parcels"} /\ Plainly(created)
  <2> DEFINE shapes == [parcels |-> CadastreColumns]
  <2>1. DOMAIN shapes = {"parcels"} /\ shapes["parcels"] = CadastreColumns
    OBVIOUS
  <2>2. Plainly(shapes)
    BY <1>0, <2>1 DEF Plainly, OfSomeVersion
  <2> HIDE DEF shapes
  <2>3. LET more == CreateMissing(s, shapes)
        IN  DOMAIN more = DOMAIN s \cup DOMAIN shapes /\ Plainly(more)
    BY <2>2, PlainMore
  <2> QED BY <2>1, <2>3 DEF shapes
<1> HIDE DEF created
<1>2. /\ DOMAIN added = DOMAIN created
      /\ added["parcels"] = created["parcels"] \cup CadastreColumns
      /\ \A t \in DOMAIN created \ {"parcels"} : added[t] = created[t]
  BY <1>1, AddColumnsGives
<1> HIDE DEF added
<1>3. /\ DOMAIN after = DOMAIN created
      /\ after["parcels"] = (created["parcels"] \cup CadastreColumns) \ {"polygon required"}
      /\ \A t \in DOMAIN created \ {"parcels"} : after[t] = created[t]
  BY <1>1, <1>2
<1>4. TenantParcels(s) = after
  BY DEF TenantParcels, created, added, CadastreColumns
<1> HIDE DEF after
<1>5. after["parcels"] = Whole["parcels"]
  <2>1. OfSomeVersion("parcels", created["parcels"])
    BY <1>1 DEF Plainly
  <2> QED BY <1>0, <1>3, <2>1 DEF OfSomeVersion
<1>6. Plainly(after)
  <2>1. ASSUME NEW t \in DOMAIN after PROVE OfSomeVersion(t, after[t])
    <3>1. CASE t = "parcels"
      BY <1>0, <1>5, <3>1 DEF OfSomeVersion
    <3>2. CASE t # "parcels"
      BY <1>1, <1>3, <3>2 DEF Plainly
    <3> QED BY <3>1, <3>2
  <2> QED BY <2>1 DEF Plainly
<1> QED BY <1>1, <1>3, <1>4, <1>5, <1>6

LEMMA PlainRuns ==
    ASSUME NEW s, Plainly(s)
    PROVE  LET after == TenantRuns(s)
           IN  /\ DOMAIN after = DOMAIN s \cup {"analysis_runs"} /\ Plainly(after)
               /\ after["analysis_runs"] = Whole["analysis_runs"]
               /\ \A t \in DOMAIN s \ {"analysis_runs"} : after[t] = s[t]
<1> DEFINE shapes == [analysis_runs |-> RunColumns]
           created == CreateMissing(s, shapes)
           after == AddColumns(created, "analysis_runs", RunColumns)
<1>0. Whole["analysis_runs"] = RunColumns /\ "analysis_runs" \in DOMAIN Whole
  BY DEF Whole
<1>1. DOMAIN created = DOMAIN s \cup {"analysis_runs"} /\ Plainly(created)
      /\ \A t \in DOMAIN s : created[t] = s[t]
  <2>1. DOMAIN shapes = {"analysis_runs"} /\ shapes["analysis_runs"] = RunColumns
    OBVIOUS
  <2>2. Plainly(shapes)
    BY <1>0, <2>1 DEF Plainly, OfSomeVersion
  <2> HIDE DEF shapes
  <2>3. LET more == CreateMissing(s, shapes)
        IN  /\ DOMAIN more = DOMAIN s \cup DOMAIN shapes /\ Plainly(more)
            /\ \A t \in DOMAIN s : more[t] = s[t]
    BY <2>2, PlainMore
  <2> QED BY <2>1, <2>3
<1>2. TenantRuns(s) = after
  BY DEF TenantRuns, RunColumns
<1> HIDE DEF created
<1>3. /\ DOMAIN after = DOMAIN created
      /\ after["analysis_runs"] = created["analysis_runs"] \cup RunColumns
      /\ \A t \in DOMAIN created \ {"analysis_runs"} : after[t] = created[t]
  BY <1>1, AddColumnsGives
<1> HIDE DEF after
<1>4. after["analysis_runs"] = Whole["analysis_runs"]
  <2>1. OfSomeVersion("analysis_runs", created["analysis_runs"])
    BY <1>1 DEF Plainly
  <2> QED BY <1>0, <1>3, <2>1 DEF OfSomeVersion
<1>5. Plainly(after)
  <2>1. ASSUME NEW t \in DOMAIN after PROVE OfSomeVersion(t, after[t])
    <3>1. CASE t = "analysis_runs"
      BY <1>0, <1>4, <3>1 DEF OfSomeVersion
    <3>2. CASE t # "analysis_runs"
      BY <1>1, <1>3, <3>2 DEF Plainly
    <3> QED BY <3>1, <3>2
  <2> QED BY <2>1 DEF Plainly
<1> QED BY <1>1, <1>2, <1>3, <1>4, <1>5

LEMMA PlainRules ==
    ASSUME NEW s, Plainly(s)
    PROVE  LET after == TenantRules(s)
           IN  /\ DOMAIN after = DOMAIN s \cup {"iptu_rule_sets", "iptu_rules"}
               /\ after = [t \in DOMAIN after |-> after[t]]
               /\ after["iptu_rules"] = Whole["iptu_rules"]
               /\ after["iptu_rule_sets"] = Whole["iptu_rule_sets"]
               /\ \A t \in DOMAIN s \ {"iptu_rules"} : after[t] = s[t]
<1> DEFINE rest == DropLegacyRules(s)
           shapes == [iptu_rule_sets |-> {}, iptu_rules |-> RuleColumns]
           after == CreateMissing(rest, shapes)
<1>0. /\ Whole["iptu_rules"] = RuleColumns /\ Whole["iptu_rule_sets"] = {}
      /\ "base_rate_per_sqm" \notin RuleColumns
  BY DEF Whole, RuleColumns
<1>1. /\ DOMAIN rest \in {DOMAIN s, DOMAIN s \ {"iptu_rules"}}
      /\ \A t \in DOMAIN rest : rest[t] = s[t]
      /\ "iptu_rules" \in DOMAIN rest => s["iptu_rules"] = RuleColumns
      /\ DOMAIN s \ {"iptu_rules"} \subseteq DOMAIN rest
  <2>1. CASE Has(s, "iptu_rules", "base_rate_per_sqm")
    BY <2>1, WithoutGives DEF DropLegacyRules
  <2>2. CASE ~Has(s, "iptu_rules", "base_rate_per_sqm")
    BY <1>0, <2>2 DEF DropLegacyRules, Has, Exists, Plainly, OfSomeVersion, FirstRules
  <2> QED BY <2>1, <2>2
<1>2. TenantRules(s) = after
  BY DEF TenantRules, RuleColumns
<1>3. /\ DOMAIN after = DOMAIN rest \cup {"iptu_rule_sets", "iptu_rules"}
      /\ \A t \in DOMAIN rest : after[t] = rest[t]
      /\ "iptu_rules" \notin DOMAIN rest => after["iptu_rules"] = RuleColumns
      /\ "iptu_rule_sets" \notin DOMAIN rest => after["iptu_rule_sets"] = {}
  <2>1. /\ DOMAIN shapes = {"iptu_rule_sets", "iptu_rules"} /\ shapes["iptu_rules"] = RuleColumns
        /\ shapes["iptu_rule_sets"] = {}
    OBVIOUS
  <2> HIDE DEF shapes, rest
  <2>2. /\ DOMAIN after = DOMAIN rest \cup DOMAIN shapes
        /\ \A t \in DOMAIN rest : after[t] = rest[t]
        /\ \A t \in DOMAIN shapes \ DOMAIN rest : after[t] = shapes[t]
    BY CreateMissingGives
  <2> HIDE DEF after
  <2> QED BY <2>1, <2>2
<1>4. after = [t \in DOMAIN after |-> after[t]]
  BY DEF CreateMissing
<1> HIDE DEF rest, after
<1>5. after["iptu_rule_sets"] = Whole["iptu_rule_sets"]
  BY <1>0, <1>1, <1>3 DEF Plainly, OfSomeVersion
<1>6. after["iptu_rules"] = Whole["iptu_rules"]
  BY <1>0, <1>1, <1>3
<1> QED BY <1>1, <1>2, <1>3, <1>4, <1>5, <1>6

\* Whatever version it came from, a provisioned schema is whole.
LEMMA ProvisionedWhole == ASSUME NEW s, Plainly(s) PROVE CreateAllTenantTables(s) = Whole
<1> DEFINE core == CreateMissing(s, TenantCore)
           files == CreateMissing(core, TenantFiles)
           parcels == TenantParcels(files)
           records == CreateMissing(parcels, TenantRecords)
           runs == TenantRuns(records)
           after == TenantRules(runs)
<1>1. DOMAIN core = DOMAIN s \cup DOMAIN TenantCore /\ Plainly(core)
  BY PlainMore, PlainTables
<1> HIDE DEF core
<1>2. DOMAIN files = DOMAIN core \cup DOMAIN TenantFiles /\ Plainly(files)
  BY <1>1, PlainMore, PlainTables
<1> HIDE DEF files
<1>3. /\ DOMAIN parcels = DOMAIN files \cup {"parcels"} /\ Plainly(parcels)
      /\ parcels["parcels"] = Whole["parcels"]
  BY <1>2, PlainParcels
<1> HIDE DEF parcels
<1>4. /\ DOMAIN records = DOMAIN parcels \cup DOMAIN TenantRecords /\ Plainly(records)
      /\ records["parcels"] = Whole["parcels"]
  <2>1. Plainly(TenantRecords)
    BY PlainTables
  <2>2. /\ DOMAIN records = DOMAIN parcels \cup DOMAIN TenantRecords /\ Plainly(records)
        /\ \A t \in DOMAIN parcels : records[t] = parcels[t]
    BY <1>3, <2>1, PlainMore
  <2> QED BY <1>3, <2>2
<1> HIDE DEF records
<1>5. /\ DOMAIN runs = DOMAIN records \cup {"analysis_runs"} /\ Plainly(runs)
      /\ runs["parcels"] = Whole["parcels"] /\ runs["analysis_runs"] = Whole["analysis_runs"]
  BY <1>3, <1>4, PlainRuns
<1> HIDE DEF runs
<1>6. /\ DOMAIN after = DOMAIN runs \cup {"iptu_rule_sets", "iptu_rules"}
      /\ after = [t \in DOMAIN after |-> after[t]]
      /\ after["iptu_rules"] = Whole["iptu_rules"]
      /\ after["iptu_rule_sets"] = Whole["iptu_rule_sets"]
      /\ \A t \in DOMAIN runs \ {"iptu_rules"} : after[t] = runs[t]
  BY <1>5, PlainRules
<1> HIDE DEF after
<1>7. CreateAllTenantTables(s) = after
  BY DEF CreateAllTenantTables, core, files, parcels, records, runs, after
<1>8. DOMAIN after = DOMAIN Whole
  <2>1. DOMAIN s \subseteq DOMAIN Whole
    BY DEF Plainly, OfSomeVersion
  <2>2. DOMAIN Whole = DOMAIN TenantCore \cup DOMAIN TenantFiles \cup DOMAIN TenantRecords
                         \cup {"parcels", "analysis_runs", "iptu_rule_sets", "iptu_rules"}
    BY PlainTables DEF Whole
  <2> QED BY <1>1, <1>2, <1>3, <1>4, <1>5, <1>6, <2>1, <2>2
<1>9. ASSUME NEW t \in DOMAIN Whole PROVE after[t] = Whole[t]
  <2>1. CASE t \in {"iptu_rules", "iptu_rule_sets"}
    BY <1>6, <2>1
  <2>2. CASE t \in {"parcels", "analysis_runs"}
    BY <1>3, <1>4, <1>5, <1>6, <2>2
  <2>3. CASE t \notin {"iptu_rules", "iptu_rule_sets", "parcels", "analysis_runs"}
    <3>1. t \in DOMAIN runs /\ after[t] = runs[t]
      BY <1>6, <1>8, <2>3
    <3> QED BY <1>5, <2>3, <3>1 DEF Plainly, OfSomeVersion
  <2> QED BY <2>1, <2>2, <2>3
<1>10. Whole = [t \in DOMAIN Whole |-> Whole[t]]
  BY DEF Whole
<1> QED BY <1>6, <1>7, <1>8, <1>9, <1>10

\* A new schema, and what the fiscal analysis and the import write is there.
LEMMA WholeIsNew ==
    /\ NewTenant = Whole /\ Plainly(Whole) /\ Seeded \subseteq DOMAIN Whole
    /\ Meets(Whole, Canonical, FiscalNeeds)
<1>1. NewTenant = Whole
  BY ProvisionedWhole, PlainTables DEF NewTenant
<1>2. Plainly(Whole)
  <2>1. "polygon required" \notin Whole["parcels"]
    BY DEF Whole, CadastreColumns
  <2> QED BY <2>1 DEF Plainly, OfSomeVersion
<1>3. Seeded \subseteq DOMAIN Whole
  BY DEF Whole, Seeded
<1>4. Meets(Whole, Canonical, FiscalNeeds)
  <2>1. /\ {"parcels", "analysis_runs", "iptu_rules"} \subseteq DOMAIN Whole
        /\ Whole["parcels"] = CadastreColumns /\ Whole["analysis_runs"] = RunColumns
        /\ Whole["iptu_rules"] = RuleColumns
    BY DEF Whole
  <2>2. /\ DOMAIN FiscalNeeds = {"parcels", "analysis_runs", "iptu_rules"}
        /\ FiscalNeeds["parcels"] \subseteq CadastreColumns
        /\ FiscalNeeds["analysis_runs"] \subseteq RunColumns
        /\ FiscalNeeds["iptu_rules"] \subseteq RuleColumns
    BY DEF FiscalNeeds, CadastreColumns, RunColumns, RuleColumns
  <2>3. /\ "polygon required" \notin CadastreColumns /\ "polygon required" \notin RunColumns
        /\ "polygon required" \notin RuleColumns
    BY DEF CadastreColumns, RunColumns, RuleColumns
  <2>4. \A t \in DOMAIN FiscalNeeds :
          t \in DOMAIN Whole /\ FiscalNeeds[t] \subseteq Whole[t] /\ "polygon required" \notin Whole[t]
    BY <2>1, <2>2, <2>3
  <2> QED BY <2>4 DEF Meets, Resolved, Exists
<1> QED BY <1>1, <1>2, <1>3, <1>4

\* The schemas of the field.
LEMMA PlainInTheField ==
    ASSUME NEW v \in {4, 5, 6}
    PROVE  Plainly(TenantOf(v)) /\ "projects" \in DOMAIN TenantOf(v)
<1> DEFINE base == CreateMissing(TenantCore, TenantFiles)
           parcels == [parcels |-> {"polygon required"}]
           core == CreateMissing(base, parcels)
           records == CreateMissing(core, TenantRecords)
           runs == [analysis_runs |-> {}]
           sprint == CreateMissing(records, runs)
           legacy == [iptu_rules |-> {"base_rate_per_sqm"}]
           rules == [iptu_rule_sets |-> {}, iptu_rules |-> {"rule_set_id", "aliquot_pct"}]
<1>1. /\ {"parcels", "analysis_runs", "iptu_rules", "iptu_rule_sets"} \subseteq DOMAIN Whole
      /\ Whole["iptu_rule_sets"] = {} /\ Whole["iptu_rules"] = {"rule_set_id", "aliquot_pct"}
  BY DEF Whole, RuleColumns
<1>2. Plainly(parcels) /\ Plainly(runs)
  <2>1. /\ DOMAIN parcels = {"parcels"} /\ parcels["parcels"] = {"polygon required"}
        /\ DOMAIN runs = {"analysis_runs"} /\ runs["analysis_runs"] = {}
    OBVIOUS
  <2> HIDE DEF parcels, runs
  <2> QED BY <1>1, <2>1 DEF Plainly, OfSomeVersion
<1>3. Plainly(legacy)
  BY <1>1 DEF Plainly, OfSomeVersion, FirstRules
<1>4. Plainly(rules)
  <2>1. /\ DOMAIN rules = {"iptu_rule_sets", "iptu_rules"} /\ rules["iptu_rule_sets"] = {}
        /\ rules["iptu_rules"] = {"rule_set_id", "aliquot_pct"}
    OBVIOUS
  <2> HIDE DEF rules
  <2> QED BY <1>1, <2>1 DEF Plainly, OfSomeVersion
<1> HIDE DEF parcels, runs, legacy, rules
<1>5. Plainly(base) /\ "projects" \in DOMAIN base
  <2>1. Plainly(TenantCore) /\ Plainly(TenantFiles) /\ "projects" \in DOMAIN TenantCore
    BY PlainTables
  <2> QED BY <2>1, PlainMore
<1> HIDE DEF base
<1>6. Plainly(core) /\ "projects" \in DOMAIN core
  BY <1>2, <1>5, PlainMore
<1> HIDE DEF core
<1>7. Plainly(records) /\ "projects" \in DOMAIN records
  <2>1. Plainly(TenantRecords)
    BY PlainTables
  <2> QED BY <1>6, <2>1, PlainMore
<1> HIDE DEF records
<1>8. Plainly(sprint) /\ "projects" \in DOMAIN sprint
  BY <1>2, <1>7, PlainMore
<1> HIDE DEF sprint
<1>9. /\ Plainly(CreateMissing(sprint, legacy)) /\ "projects" \in DOMAIN CreateMissing(sprint, legacy)
      /\ Plainly(CreateMissing(sprint, rules)) /\ "projects" \in DOMAIN CreateMissing(sprint, rules)
  BY <1>3, <1>4, <1>8, PlainMore
<1>10. TenantOf(4) = core /\ TenantOf(5) = CreateMissing(sprint, legacy)
       /\ TenantOf(6) = CreateMissing(sprint, rules)
  BY DEF TenantOf, base, parcels, core, records, runs, sprint, legacy, rules
<1> QED BY <1>6, <1>9, <1>10

-----------------------------------------------------------------------------
\* A schema: the tables are those of some version, the rows are those of its tables, and one of
\* version 7 is whole.
SchemaOK(n) ==
    /\ n = [version |-> n.version, tables |-> n.tables, rows |-> n.rows]
    /\ n.version \in {-1} \cup 4..TenantVersion
    /\ n.rows \subseteq DOMAIN n.tables /\ Plainly(n.tables)
    /\ n.version >= 0 => "projects" \in DOMAIN n.tables
    /\ n.version = TenantVersion => n.tables = Whole

Schemas == ns = [s \in Slugs |-> ns[s]] /\ \A s \in Slugs : SchemaOK(ns[s])

\* What an onboarding has made where it stands.
Made ==
    \A r \in Reqs : req[r].op = "create" =>
        /\ req[r].pc \in {"begin", "wait", "ddl", "seed"} \/ req[r].answer = "201" =>
              tenants[Slug(r)] # "absent" /\ SubsOf(Slug(r)) # {}
        /\ req[r].pc = "seed" \/ req[r].answer = "201" => ns[Slug(r)].version = TenantVersion

\* A migration that is answered has migrated.
Migrated ==
    \A r \in Reqs :
        req[r].op = "migrate" /\ req[r].answer = "200" => ns[Slug(r)].version = TenantVersion

\* A tenant is imported, or some onboarding has made it: it is under way, or answered, or its
\* DDL has failed.
Maker(r, s) ==
    /\ req[r].op = "create" /\ Slug(r) = s
    /\ \/ req[r].pc \in {"default", "begin", "wait", "ddl", "seed"} \/ req[r].answer = "201"
       \/ s \in req[r].errors
Founded == \A s \in Slugs : tenants[s] # "absent" => Imported(s) \/ \E r \in Reqs : Maker(r, s)

UsableInv == AccountsInv /\ Schemas /\ Made /\ Migrated /\ Founded

LEMMA InitSchemas == Init => Schemas
<1> SUFFICES ASSUME Init PROVE Schemas
  OBVIOUS
<1>1. PICK s \in Slugs, v \in {-1, 4, 5, 6} :
        ns = [t \in Slugs |->
                    IF t = s /\ v > 0
                    THEN [version |-> v, tables |-> TenantOf(v), rows |-> DOMAIN TenantOf(v)]
                    ELSE NoSchema]
  BY DEF Init
<1>2. SchemaOK(NoSchema)
  <2>1. /\ NoSchema.version = -1 /\ NoSchema.tables = EmptySchema /\ NoSchema.rows = {}
        /\ NoSchema = [version |-> -1, tables |-> EmptySchema, rows |-> {}]
    BY DEF NoSchema
  <2>2. Plainly(EmptySchema)
    BY PlainTables
  <2> QED BY <2>1, <2>2 DEF SchemaOK, TenantVersion
<1>3. ASSUME v > 0
      PROVE  SchemaOK([version |-> v, tables |-> TenantOf(v), rows |-> DOMAIN TenantOf(v)])
  BY <1>3, PlainInTheField DEF SchemaOK, TenantVersion
<1> QED BY <1>1, <1>2, <1>3 DEF Schemas

\* The tables and the version of a provisioned schema; the rows that stay.
LEMMA ProvisionedOK ==
    ASSUME NEW n, SchemaOK(n)
    PROVE  /\ SchemaOK(Provisioned(n)) /\ Provisioned(n).version = TenantVersion
           /\ n.rows \ (IF Has(n.tables, "iptu_rules", "base_rate_per_sqm") THEN {"iptu_rules"} ELSE {})
                \subseteq Provisioned(n).rows
<1> DEFINE after == CreateAllTenantTables(n.tables)
           kept == n.rows \cap DOMAIN DropLegacyRules(n.tables)
<1>1. after = Whole /\ DOMAIN n.tables \subseteq DOMAIN Whole
  BY ProvisionedWhole DEF SchemaOK, Plainly, OfSomeVersion
<1>2. Provisioned(n) = [version |-> TenantVersion, tables |-> after, rows |-> kept]
  BY DEF Provisioned
<1> HIDE DEF after
<1>3. kept \subseteq DOMAIN after
  BY <1>1 DEF SchemaOK
<1>4. n.rows \ (IF Has(n.tables, "iptu_rules", "base_rate_per_sqm") THEN {"iptu_rules"} ELSE {}) \subseteq kept
  <2>1. CASE Has(n.tables, "iptu_rules", "base_rate_per_sqm")
    <3>1. DOMAIN DropLegacyRules(n.tables) = DOMAIN n.tables \ {"iptu_rules"}
      BY <2>1, WithoutGives DEF DropLegacyRules
    <3> QED BY <2>1, <3>1 DEF SchemaOK
  <2>2. CASE ~Has(n.tables, "iptu_rules", "base_rate_per_sqm")
    BY <2>2 DEF DropLegacyRules, SchemaOK
  <2> QED BY <2>1, <2>2
<1> HIDE DEF kept
<1>5. SchemaOK(Provisioned(n))
  BY <1>1, <1>2, <1>3, WholeIsNew DEF SchemaOK, TenantVersion, Seeded
<1> QED BY <1>2, <1>4, <1>5

\* Rows that are added to tables that are there.
LEMMA SeededOK ==
    ASSUME NEW n, SchemaOK(n), NEW more, more \subseteq DOMAIN n.tables
    PROVE  LET after == [n EXCEPT !.rows = @ \cup more]
           IN  SchemaOK(after) /\ after.version = n.version /\ n.rows \subseteq after.rows
<1> DEFINE after == [n EXCEPT !.rows = @ \cup more]
<1>1. /\ after = [version |-> n.version, tables |-> n.tables, rows |-> n.rows \cup more]
  BY DEF SchemaOK
<1>2. after.version = n.version /\ after.tables = n.tables /\ after.rows = n.rows \cup more
  BY <1>1
<1> HIDE DEF after
<1>3. SchemaOK(after)
  BY <1>1, <1>2 DEF SchemaOK
<1> QED BY <1>2, <1>3 DEF after

\* One schema changes: nothing is taken away from the others.
LEMMA SetSchema ==
    ASSUME Schemas, NEW s \in Slugs, NEW n, SchemaOK(n), ns' = [ns EXCEPT ![s] = n],
           ns[s].version <= n.version,
           LET legacy == IF Has(ns[s].tables, "iptu_rules", "base_rate_per_sqm")
                         THEN {"iptu_rules"} ELSE {}
           IN  ns[s].rows \ legacy \subseteq n.rows
    PROVE  Schemas' /\ RowsStay /\ ns'[s] = n
<1>1. ns' = [t \in Slugs |-> IF t = s THEN n ELSE ns[t]]
  BY DEF Schemas
<1>2. \A t \in Slugs : ns[t].version <= ns[t].version
  BY DEF Schemas, SchemaOK, TenantVersion
<1>3. Schemas' /\ ns'[s] = n
  BY <1>1 DEF Schemas
<1> QED BY <1>1, <1>2, <1>3 DEF RowsStay

LEMMA SameSchemas == ASSUME Schemas, ns' = ns PROVE Schemas' /\ RowsStay
  BY DEF Schemas, SchemaOK, RowsStay, TenantVersion

LEMMA StepSchemas ==
    ASSUME UsableInv, NEW r \in Reqs, Step(r)
    PROVE  /\ Schemas' /\ RowsStay
           /\ CommitDdl(r) => ns'[Slug(r)].version = TenantVersion
<1> USE DEF UsableInv
<1>0. Requested /\ Schemas /\ req[r] \in Request /\ InCode(req[r])
  BY DEF AccountsInv, Requested
<1>1. CASE CommitDdl(r)
  <2>1. Slug(r) \in Slugs
    BY <1>0, <1>1, HasSlug DEF CommitDdl, InDdl
  <2>2. ns' = [ns EXCEPT ![Slug(r)] = Provisioned(ns[Slug(r)])]
    BY <1>0, <1>1, <2>1 DEF CommitDdl
  <2>3. SchemaOK(ns[Slug(r)]) /\ ns[Slug(r)].version <= TenantVersion
    BY <1>0, <2>1 DEF Schemas, SchemaOK, TenantVersion
  <2> DEFINE n == Provisioned(ns[Slug(r)])
  <2>4. /\ SchemaOK(n) /\ n.version = TenantVersion
        /\ ns[Slug(r)].rows \ (IF Has(ns[Slug(r)].tables, "iptu_rules", "base_rate_per_sqm")
                               THEN {"iptu_rules"} ELSE {}) \subseteq n.rows
    BY <2>3, ProvisionedOK
  <2>5. ns' = [ns EXCEPT ![Slug(r)] = n] /\ ns[Slug(r)].version <= n.version
    BY <2>2, <2>3, <2>4
  <2> HIDE DEF n
  <2> QED BY <1>0, <2>1, <2>4, <2>5, SetSchema
<1>2. CASE CreateSeed(r)
  <2>1. Slug(r) \in Slugs /\ ns[Slug(r)].version = TenantVersion
    BY <1>0, <1>2, HasSlug DEF CreateSeed, At, Made
  <2>2. CASE ns' = [ns EXCEPT ![Slug(r)].rows = @ \cup Seeded]
    <3> DEFINE n == [ns[Slug(r)] EXCEPT !.rows = @ \cup Seeded]
    <3>1. ns' = [ns EXCEPT ![Slug(r)] = n]
      BY <1>0, <2>1, <2>2 DEF Schemas
    <3>2. SchemaOK(ns[Slug(r)]) /\ Seeded \subseteq DOMAIN ns[Slug(r)].tables
      BY <1>0, <2>1, WholeIsNew DEF Schemas, SchemaOK
    <3>3. SchemaOK(n) /\ n.version = ns[Slug(r)].version /\ ns[Slug(r)].rows \subseteq n.rows
      BY <3>2, SeededOK
    <3> HIDE DEF n
    <3>4. ns[Slug(r)].version <= n.version
      BY <2>1, <3>3 DEF TenantVersion
    <3>5. Schemas' /\ RowsStay
      BY <1>0, <2>1, <3>1, <3>3, <3>4, SetSchema
    <3> QED BY <1>2, <3>5 DEF CreateSeed, CommitDdl, At
  <2> QED BY <1>0, <1>2, <2>2, SameSchemas DEF CreateSeed, CommitDdl, At
<1>3. CASE CreateProject(r)
  <2>1. Slug(r) \in Slugs
    BY <1>0, <1>3, HasSlug DEF CreateProject, At
  <2> DEFINE more == IF HasSchema(Slug(r)) THEN {"projects"} ELSE {}
             n == [ns[Slug(r)] EXCEPT !.rows = @ \cup more]
  <2>2. ns' = [ns EXCEPT ![Slug(r)] = n]
    BY <1>0, <1>3, <2>1 DEF CreateProject, Schemas
  <2>3. SchemaOK(ns[Slug(r)]) /\ more \subseteq DOMAIN ns[Slug(r)].tables
    BY <1>0, <2>1 DEF Schemas, SchemaOK, HasSchema
  <2> HIDE DEF more
  <2>4. SchemaOK(n) /\ n.version = ns[Slug(r)].version /\ ns[Slug(r)].rows \subseteq n.rows
    BY <2>3, SeededOK
  <2> HIDE DEF n
  <2>5. ns[Slug(r)].version <= n.version
    BY <2>3, <2>4 DEF SchemaOK, TenantVersion
  <2>6. Schemas' /\ RowsStay
    BY <1>0, <2>1, <2>2, <2>4, <2>5, SetSchema
  <2> QED BY <1>3, <2>6 DEF CreateProject, CommitDdl, At
<1>4. CASE ~(CommitDdl(r) \/ CreateSeed(r) \/ CreateProject(r))
  <2>1. ns' = ns
    BY <1>4 DEF Step, CreateCheck, CreateInsert, CreateSubscribe, List, ReadVersion, BeginDdl, Waited,
        DdlFails, Deactivate, Reactivate, SubscribeCheck, SubscribeInsert, Upgrade, UpdateSubscription,
        EnforceProjectLimit
  <2> QED BY <1>0, <1>4, <2>1, SameSchemas
<1> QED BY <1>1, <1>2, <1>3, <1>4

LEMMA StepMade == ASSUME UsableInv, NEW r \in Reqs, Step(r) PROVE Made'
<1>1. /\ Requested /\ Requested' /\ Mine(r) /\ Busy(r) /\ Effects(r) /\ Onward(r)
      /\ Schemas' /\ RowsStay /\ req[r] \in Request /\ InCode(req[r])
  BY StepOnward, StepEffects, StepSchemas DEF UsableInv, AccountsInv, Onward, Requested
<1>2. ASSUME NEW q \in Reqs, req[q].op = "create"
      PROVE  /\ Slug(q) \in Slugs
             /\ tenants[Slug(q)] # "absent" => tenants'[Slug(q)] # "absent"
             /\ SubsOf(Slug(q)) # {} => SubsOf(Slug(q))' # {} \/ Slug(q)' # Slug(q)
             /\ ns[Slug(q)].version = TenantVersion => ns'[Slug(q)].version = TenantVersion
  <2>1. Slug(q) \in Slugs
    BY <1>1, <1>2, HasSlug
  <2>2. \A s \in Slugs : SubsOf(s) # {} => \E u \in subs' : u.slug = s
    BY <1>1 DEF Effects, SubsOf
  <2>3. ns[Slug(q)].version = TenantVersion => ns'[Slug(q)].version = TenantVersion
    BY <1>1, <2>1 DEF RowsStay, Schemas, SchemaOK, TenantVersion
  <2> QED BY <1>1, <2>1, <2>2, <2>3 DEF Effects, SubsOf
<1>3. ASSUME NEW q \in Reqs, q # r, req'[q].op = "create"
      PROVE  /\ req'[q].pc \in {"begin", "wait", "ddl", "seed"} \/ req'[q].answer = "201" =>
                    tenants'[Slug(q)'] # "absent" /\ SubsOf(Slug(q))' # {}
             /\ req'[q].pc = "seed" \/ req'[q].answer = "201" => ns'[Slug(q)'].version = TenantVersion
  BY <1>1, <1>2, <1>3, OnlyMine DEF UsableInv, Made
<1>4. ASSUME req'[r].op = "create"
      PROVE  /\ req'[r].pc \in {"begin", "wait", "ddl", "seed"} \/ req'[r].answer = "201" =>
                    tenants'[Slug(r)'] # "absent" /\ SubsOf(Slug(r))' # {}
             /\ req'[r].pc = "seed" \/ req'[r].answer = "201" => ns'[Slug(r)'].version = TenantVersion
  <2>1. req[r].op = "create" /\ Slug(r)' = Slug(r) /\ req[r].answer = "none"
    BY <1>1, <1>4 DEF Onward, Slug, Busy, InCode
  <2>2. CASE CreateCheck(r) \/ CreateInsert(r)
    BY <1>1, <2>2, OnboardingOnward
  <2>3. CASE CreateSubscribe(r)
    <3>1. req'[r].pc = "begin" /\ req'[r].answer = "none"
      BY <1>1, <2>1, <2>3, OnboardingOnward
    <3>2. tenants[Slug(r)] # "absent"
      BY <2>3 DEF UsableInv, AccountsInv, Recorded, Pending, CreateSubscribe
    <3>3. SubsOf(Slug(r))' # {}
      <4> DEFINE new == [slug |-> Slug(r), by |-> r, plan |-> "starter", paid |-> TRUE]
      <4>1. new \in subs' /\ new.slug = Slug(r)
        BY <2>3 DEF CreateSubscribe, Subscribe
      <4> HIDE DEF new
      <4> QED BY <2>1, <4>1 DEF SubsOf
    <3> QED BY <1>2, <2>1, <3>1, <3>2, <3>3
  <2>4. CASE CreateSeed(r)
    BY <1>2, <2>1, <2>4 DEF CreateSeed, At, UsableInv, Made
  <2>5. CASE BeginDdl(r) \/ Waited(r) \/ DdlFails(r) \/ CommitDdl(r)
    <3>1. req[r].pc \in {"begin", "wait", "ddl"}
      BY <1>1, <2>5, DdlOnward
    <3>2. tenants'[Slug(r)] # "absent" /\ SubsOf(Slug(r))' # {}
      BY <1>2, <2>1, <3>1 DEF UsableInv, Made
    <3>3. CASE CommitDdl(r)
      BY <2>1, <3>2, <3>3, StepSchemas
    <3>4. CASE BeginDdl(r) \/ Waited(r) \/ DdlFails(r)
      <4>1. req'[r].pc \in {"wait", "ddl", "done"} /\ req'[r].answer # "201"
        BY <1>1, <2>1, <3>4, DdlOnward
      <4> QED BY <2>1, <3>2, <4>1
    <3> QED BY <2>5, <3>3, <3>4
  <2>6. ~(List(r) \/ ReadVersion(r))
    BY <1>1, <2>1, DdlOnward
  <2>7. ~(\/ Deactivate(r) \/ Reactivate(r) \/ SubscribeCheck(r) \/ SubscribeInsert(r)
          \/ Upgrade(r) \/ UpdateSubscription(r) \/ EnforceProjectLimit(r) \/ CreateProject(r))
    BY <1>1, <2>1, AccountsOnward
  <2> QED BY <2>2, <2>3, <2>4, <2>5, <2>6, <2>7 DEF Step
<1> QED BY <1>3, <1>4 DEF Made

LEMMA StepMigrated == ASSUME UsableInv, NEW r \in Reqs, Step(r) PROVE Migrated'
<1>1. /\ Requested /\ Mine(r) /\ Busy(r) /\ Onward(r) /\ Schemas /\ Schemas' /\ RowsStay
      /\ req[r] \in Request /\ InCode(req[r])
  BY StepOnward, StepSchemas DEF UsableInv, AccountsInv, Onward, Requested
<1>2. ASSUME NEW q \in Reqs, req[q].op = "migrate", ns[Slug(q)].version = TenantVersion
      PROVE  Slug(q) \in Slugs /\ ns'[Slug(q)].version = TenantVersion
  <2>1. Slug(q) \in Slugs
    BY <1>1, <1>2, HasSlug
  <2> QED BY <1>1, <1>2, <2>1 DEF RowsStay, Schemas, SchemaOK, TenantVersion
<1>3. ASSUME NEW q \in Reqs, q # r, req'[q].op = "migrate", req'[q].answer = "200"
      PROVE  ns'[Slug(q)'].version = TenantVersion
  BY <1>1, <1>2, <1>3, OnlyMine DEF UsableInv, Migrated
<1>4. ASSUME req'[r].op = "migrate", req'[r].answer = "200"
      PROVE  ns'[Slug(r)'].version = TenantVersion
  <2>1. /\ req[r].op = "migrate" /\ Slug(r)' = Slug(r) /\ req[r].answer = "none"
        /\ Slug(r) \in Slugs
    BY <1>1, <1>4, HasSlug DEF Onward, Slug, Busy, InCode
  <2>2. CASE ReadVersion(r)
    <3>1. CASE ns[Slug(r)].version >= TenantVersion
      <4>1. ns[Slug(r)].version \in {-1} \cup 4..7
        BY <1>1, <2>1 DEF Schemas, SchemaOK, TenantVersion
      <4>2. ns[Slug(r)].version = TenantVersion
        BY <3>1, <4>1 DEF TenantVersion
      <4> QED BY <1>2, <2>1, <4>2
    <3>2. CASE ~(ns[Slug(r)].version >= TenantVersion)
      <4> DEFINE x == [req[r] EXCEPT !.pc = "begin"]
      <4>1. req' = [req EXCEPT ![r] = x]
        BY <2>2, <3>2 DEF ReadVersion
      <4>2. req'[r] = x /\ x.answer = req[r].answer
        BY <1>1, <4>1 DEF Requested, Request
      <4> QED BY <1>4, <2>1, <4>2
    <3> QED BY <3>1, <3>2
  <2>3. CASE CommitDdl(r)
    BY <2>1, <2>3, StepSchemas
  <2>4. ~(BeginDdl(r) \/ Waited(r) \/ DdlFails(r))
    BY <1>1, <1>4, <2>1, DdlOnward
  <2>5. ~(CreateCheck(r) \/ CreateInsert(r) \/ CreateSubscribe(r) \/ CreateSeed(r) \/ List(r))
    BY <2>1 DEF CreateCheck, CreateInsert, CreateSubscribe, CreateSeed, List, At
  <2>6. ~(\/ Deactivate(r) \/ Reactivate(r) \/ SubscribeCheck(r) \/ SubscribeInsert(r)
          \/ Upgrade(r) \/ UpdateSubscription(r) \/ EnforceProjectLimit(r) \/ CreateProject(r))
    BY <1>1, <2>1, AccountsOnward
  <2> QED BY <2>2, <2>3, <2>4, <2>5, <2>6 DEF Step
<1> QED BY <1>3, <1>4 DEF Migrated

\* The only step that makes a tenant is the first commit of an onboarding, and an onboarding stays
\* the maker of its tenant.
LEMMA StepFounded == ASSUME UsableInv, NEW r \in Reqs, Step(r) PROVE Founded'
<1>1. /\ Requested /\ Mine(r) /\ Busy(r) /\ Onward(r) /\ Effects(r)
      /\ req[r] \in Request /\ InCode(req[r])
  BY StepOnward, StepEffects DEF UsableInv, AccountsInv, Onward, Requested
<1> SUFFICES ASSUME NEW s \in Slugs, tenants'[s] # "absent"
             PROVE  Imported(s)' \/ \E q \in Reqs : Maker(q, s)'
  BY DEF Founded
<1>2. CASE tenants[s] # "absent" /\ Imported(s)
  BY <1>1, <1>2 DEF Imported, SubsOf, Effects
<1>3. ASSUME NEW q \in Reqs, q # r, Maker(q, s) PROVE Maker(q, s)'
  BY <1>1, <1>3, OnlyMine DEF Maker
<1>4. ASSUME Maker(r, s) PROVE Maker(r, s)'
  <2>1. req[r].op = "create" /\ req'[r].op = "create" /\ Slug(r) = s /\ Slug(r)' = s
        /\ req[r].answer = "none"
    BY <1>1, <1>4 DEF Maker, Onward, Slug, Busy, InCode
  <2>2. CASE s \in req[r].errors
    BY <1>1, <2>1, <2>2 DEF Onward, Maker
  <2>3. CASE req[r].pc \in {"default", "begin", "wait", "ddl", "seed"}
    <3>1. CASE CreateSubscribe(r) \/ CreateSeed(r)
      BY <1>1, <2>1, <3>1, OnboardingOnward DEF Maker
    <3>2. CASE BeginDdl(r) \/ Waited(r) \/ DdlFails(r) \/ CommitDdl(r)
      BY <1>1, <2>1, <3>2, DdlOnward DEF Maker
    <3>3. ~(CreateCheck(r) \/ CreateInsert(r))
      BY <2>3 DEF CreateCheck, CreateInsert, At
    <3>4. ~(List(r) \/ ReadVersion(r))
      BY <1>1, <2>1, DdlOnward
    <3>5. ~(\/ Deactivate(r) \/ Reactivate(r) \/ SubscribeCheck(r) \/ SubscribeInsert(r)
            \/ Upgrade(r) \/ UpdateSubscription(r) \/ EnforceProjectLimit(r) \/ CreateProject(r))
      BY <1>1, <2>1, AccountsOnward
    <3> QED BY <3>1, <3>2, <3>3, <3>4, <3>5 DEF Step
  <2> QED BY <1>4, <2>1, <2>2, <2>3 DEF Maker
<1>5. CASE tenants[s] = "absent"
  <2>1. CASE CreateInsert(r)
    <3>1. /\ tenants[Slug(r)] = "absent" /\ tenants' = [tenants EXCEPT ![Slug(r)] = "active"]
          /\ Goto(r, "default")
      BY <1>5, <2>1 DEF CreateInsert
    <3>2. Slug(r) = s
      BY <1>5, <3>1 DEF UsableInv, AccountsInv, Recorded
    <3>3. /\ req[r].op = "create" /\ overlap' = overlap
          /\ req'[r] = [req[r] EXCEPT !.pc = "default"]
      BY <2>1, <3>1 DEF CreateInsert, At, Goto, Requested, UsableInv, AccountsInv
    <3>4. req'[r].op = "create" /\ req'[r].pc = "default" /\ req'[r].todo = req[r].todo
      BY <1>1, <3>3 DEF Request
    <3> QED BY <3>2, <3>4 DEF Maker, Slug
  <2>2. CASE Deactivate(r) \/ Reactivate(r)
    BY <1>5, <2>2 DEF Deactivate, Reactivate, UsableInv, AccountsInv, Recorded
  <2>3. CASE ~(CreateInsert(r) \/ Deactivate(r) \/ Reactivate(r))
    BY <1>5, <2>3 DEF Step, CreateCheck, CreateSubscribe, CreateSeed, List, ReadVersion, BeginDdl,
        Waited, CommitDdl, DdlFails, SubscribeCheck, SubscribeInsert, Upgrade, UpdateSubscription,
        EnforceProjectLimit, CreateProject
  <2> QED BY <2>1, <2>2, <2>3
<1> QED BY <1>2, <1>3, <1>4, <1>5 DEF UsableInv, Founded

LEMMA ArriveUsableInv == ASSUME UsableInv, NEW r \in Reqs, Arrive(r) PROVE UsableInv'
<1>1. /\ Requested /\ Mine(r) /\ UNCHANGED <<tenants, subs, ns>> /\ req'[r].answer = "none"
      /\ req[r].pc = "idle"
      /\ req'[r].op = "create" => req'[r].pc = "check"
  <2>1. Requested
    BY DEF UsableInv, AccountsInv
  <2>2. <<req'[r].op, req'[r].pc>> \in
                 {<<"create", "check">>, <<"migrate", "version">>, <<"deactivate", "run">>,
                  <<"reactivate", "run">>, <<"pay", "run">>, <<"project", "limit">>,
                  <<"subscribe", "check">>, <<"upgrade", "run">>, <<"migrateAll", "list">>}
    BY <2>1, ArriveRequested
  <2>3. req'[r].op = "create" => req'[r].pc = "check"
    BY <2>2
  <2> QED BY <2>1, <2>3, ArriveRequested
<1>2. Schemas'
  BY <1>1 DEF UsableInv, Schemas
<1>3. Made'
  <2>1. ASSUME NEW q \in Reqs, q # r, req'[q].op = "create"
        PROVE  /\ req[q].op = "create" /\ req'[q].pc = req[q].pc /\ req'[q].answer = req[q].answer
               /\ Slug(q)' = Slug(q) /\ SubsOf(Slug(q))' = SubsOf(Slug(q))
    BY <1>1, <2>1, OnlyMine DEF SubsOf
  <2> QED BY <1>1, <2>1 DEF UsableInv, Made
<1>4. Migrated'
  BY <1>1, OnlyMine DEF UsableInv, Migrated
<1>5. Founded'
  <2>1. \A s \in Slugs : Imported(s)' = Imported(s)
    BY <1>1 DEF Imported, SubsOf
  <2>2. ASSUME NEW s \in Slugs, NEW q \in Reqs, Maker(q, s) PROVE Maker(q, s)'
    <3>1. q # r
      BY <1>1, <2>2 DEF UsableInv, Maker, AccountsInv, Requested, InCode
    <3> QED BY <1>1, <2>2, <3>1, OnlyMine DEF Maker
  <2> QED BY <1>1, <2>1, <2>2 DEF UsableInv, Founded
<1> QED BY <1>2, <1>3, <1>4, <1>5, ArriveAccountsInv DEF UsableInv

LEMMA NextUsableInv == UsableInv /\ [Next]_vars => UsableInv'
<1>1. ASSUME UsableInv, UNCHANGED vars PROVE UsableInv'
  <2>1. AccountsInv'
    BY <1>1, NextAccountsInv DEF UsableInv
  <2> QED BY <1>1, <2>1
          DEF vars, UsableInv, Schemas, Made, Migrated, Founded, Maker, Imported, Slug, SubsOf
<1>2. ASSUME UsableInv, NEW r \in Reqs, Step(r) PROVE UsableInv'
  BY <1>2, StepAccountsInv, StepSchemas, StepMade, StepMigrated, StepFounded DEF UsableInv
<1> QED BY <1>1, <1>2, ArriveUsableInv DEF Next

LEMMA InitUsableInv == Init => UsableInv
<1> SUFFICES ASSUME Init PROVE UsableInv
  OBVIOUS
<1>1. Made /\ Migrated
  BY DEF Init, Made, Migrated, Idle
<1>2. Founded
  <2>1. PICK s \in Slugs :
          /\ tenants = [t \in Slugs |-> IF t = s THEN "active" ELSE "absent"]
          /\ subs = {[slug |-> s, by |-> "import", plan |-> "starter", paid |-> TRUE]}
    BY DEF Init
  <2> DEFINE u == [slug |-> s, by |-> "import", plan |-> "starter", paid |-> TRUE]
  <2>2. u \in subs /\ u.slug = s /\ u.by = "import"
    BY <2>1
  <2> HIDE DEF u
  <2>3. Imported(s)
    BY <2>2 DEF Imported, SubsOf
  <2> QED BY <2>1, <2>3 DEF Founded
<1> QED BY <1>1, <1>2, InitAccountsInv, InitSchemas DEF UsableInv

\* For any tenants, requests and faults: an onboarding answered 201 leaves the tenant, a
\* subscription and a schema of the current version; a tenant is half created only where an
\* onboarding stands or stopped between its commits, or its DDL failed, and a migration answered
\* 200 gives it its schema; a schema that names the current version is like a new one, whatever
\* version it came from.
THEOREM OnboardedIsUsable == Spec => []CreatedIsUsable
<1>1. UsableInv => CreatedIsUsable
  <2> SUFFICES ASSUME UsableInv PROVE CreatedIsUsable
    OBVIOUS
  <2>1. AccountsTypeOK
    <3>1. \A u \in subs : u.slug \in Slugs /\ u.by \in Reqs \cup {"import"} /\ u.paid \in BOOLEAN
      BY DEF UsableInv, AccountsInv, Recorded, Subscription
    <3>2. \A p \in projects : p.slug \in Slugs /\ p.by \in Reqs /\ p.at \in {"tenant", "public"}
      BY DEF UsableInv, AccountsInv, Recorded, Project
    <3>3. \A r \in Reqs : req[r].errors \cup req[r].hit \subseteq Slugs
      BY DEF UsableInv, AccountsInv, Requested, Request
    <3> QED BY <3>1, <3>2, <3>3 DEF AccountsTypeOK, UsableInv, AccountsInv, Recorded, Schemas, SchemaOK
  <2>2. VersionIsReal
    BY WholeIsNew DEF UsableInv, Schemas, SchemaOK, VersionIsReal
  <2>3. HalfOnlyByCut
    <3> SUFFICES ASSUME NEW s \in Slugs, HalfCreated(s), ~Imported(s)
                 PROVE  \E r \in Reqs : /\ req[r].op = "create" /\ Slug(r) = s
                                       /\ \/ req[r].pc \in {"default", "begin", "wait", "ddl"}
                                          \/ s \in req[r].errors
      BY DEF HalfOnlyByCut
    <3>1. PICK r \in Reqs : Maker(r, s)
      BY DEF UsableInv, Founded, HalfCreated
    <3>2. ~(req[r].pc = "seed" \/ req[r].answer = "201")
      BY <3>1 DEF UsableInv, Made, Maker, HalfCreated, HasSchema, TenantVersion
    <3> QED BY <3>1, <3>2 DEF Maker
  <2> QED BY <2>1, <2>2, <2>3 DEF CreatedIsUsable, UsableInv, Made, Migrated
<1> QED BY <1>1, InitUsableInv, NextUsableInv, PTL DEF Spec

-----------------------------------------------------------------------------
\* A request told of a debt that stands, and that asks: no subscription of its tenant is paid, and
\* it does not go on to its insert.
Indebted ==
    \A r \in Reqs : req[r].owing /\ req[r].asks =>
        req[r].pc # "insert" /\ (req[r].pc = "limit" => Owing(Slug(r)))

KeepInv == UsableInv /\ Indebted

\* What one step makes of a tenant's debt: it stands, or the requests under way are relieved.
Debts(r) ==
    \A q \in Reqs : q # r /\ req'[q].owing /\ Slug(q) \in Slugs /\ Owing(Slug(q)) => Owing(Slug(q))'

LEMMA StepDebts ==
    ASSUME Requested, Recorded, NEW r \in Reqs, Step(r)
    PROVE  Debts(r)
<1> SUFFICES ASSUME NEW q \in Reqs, q # r, req'[q].owing, Slug(q) \in Slugs, Owing(Slug(q))
             PROVE  Owing(Slug(q))'
  BY DEF Debts
<1>1. /\ Onward(r) /\ req[r] \in Request /\ InCode(req[r]) /\ req[q] \in Request /\ InCode(req[q])
      /\ Slug(q)' = Slug(q) /\ req[q].owing /\ req[q].op = "project"
  <2>1. Onward(r) /\ Mine(r) /\ req[q] \in Request /\ InCode(req[q]) /\ req[r] \in Request /\ InCode(req[r])
    BY StepOnward DEF Requested, Onward
  <2> QED BY <2>1, OnlyMine DEF InCode
<1>2. ASSUME NEW x, NEW s, req' = [Relieved(s) EXCEPT ![r] = x] PROVE Slug(q) # s
  <2>1. req'[q] = Relieved(s)[q]
    BY <1>2 DEF Relieved
  <2> QED BY <1>1, <2>1 DEF Relieved, Request
<1>3. CASE subs' = subs
  BY <1>1, <1>3 DEF Owing, SubsOf
<1>4. CASE CreateSubscribe(r) \/ SubscribeInsert(r)
  <2>1. \E x : req' = [Relieved(Slug(r)) EXCEPT ![r] = x]
    BY <1>4 DEF CreateSubscribe, SubscribeInsert, Relieved
  <2>2. \E plan : Subscribe(r, plan)
    BY <1>4 DEF CreateSubscribe, SubscribeInsert
  <2>3. PICK new : new.slug = Slug(r) /\ subs' = subs \cup {new}
    BY <2>2 DEF Subscribe
  <2>4. Slug(q) # Slug(r)
    BY <1>2, <2>1
  <2> QED BY <1>1, <2>3, <2>4 DEF Owing, SubsOf
<1>5. CASE Upgrade(r)
  <2>1. \A u \in Subscription : LET w == [u EXCEPT !.plan = req[r].plan]
                               IN  w.slug = u.slug /\ w.paid = u.paid
    BY DEF Subscription
  <2>2. /\ \A w \in subs' : \E u \in subs : w = u \/ w = [u EXCEPT !.plan = req[r].plan]
        /\ \A u \in subs : u \in subs' \/ [u EXCEPT !.plan = req[r].plan] \in subs'
    BY <1>5 DEF Upgrade
  <2>3. /\ \A w \in subs' : \E u \in subs : w.slug = u.slug /\ w.paid = u.paid
        /\ \A u \in subs : \E w \in subs' : w.slug = u.slug /\ w.paid = u.paid
    <3>0. subs \subseteq Subscription
      BY DEF Recorded
    <3>1. ASSUME NEW w \in subs' PROVE \E u \in subs : w.slug = u.slug /\ w.paid = u.paid
      <4>1. PICK u \in subs : w = u \/ w = [u EXCEPT !.plan = req[r].plan]
        BY <2>2
      <4>2. w.slug = u.slug /\ w.paid = u.paid
        BY <2>1, <3>0, <4>1
      <4> QED BY <4>2
    <3>2. ASSUME NEW u \in subs PROVE \E w \in subs' : w.slug = u.slug /\ w.paid = u.paid
      <4>1. CASE u \in subs'
        BY <4>1
      <4>2. CASE [u EXCEPT !.plan = req[r].plan] \in subs'
        BY <2>1, <3>0, <4>2
      <4> QED BY <2>2, <4>1, <4>2
    <3> QED BY <3>1, <3>2
  <2> QED BY <1>1, <2>3 DEF Owing, SubsOf
<1>6. CASE UpdateSubscription(r) /\ subs' # subs
  <2>1. PICK u \in SubsOf(Slug(r)) :
            /\ subs' = (subs \ {u}) \cup {[u EXCEPT !.paid = ~@]}
            /\ req' = [(IF u.paid THEN req ELSE Relieved(Slug(r)))
                         EXCEPT ![r].pc = "done", ![r].answer = "200"]
    BY <1>6 DEF UpdateSubscription
  <2> DEFINE w == [u EXCEPT !.paid = ~@]
  <2>2. u \in Subscription /\ u \in subs /\ u.slug = Slug(r) /\ w.slug = Slug(r)
    BY <2>1 DEF SubsOf, Recorded, Subscription
  <2>3. subs' = (subs \ {u}) \cup {w}
    BY <2>1
  <2> HIDE DEF w
  <2>4. CASE u.paid
    <3>1. Slug(q) # Slug(r)
      BY <2>2, <2>4 DEF Owing, SubsOf
    <3> QED BY <1>1, <2>2, <2>3, <3>1 DEF Owing, SubsOf
  <2>5. CASE ~u.paid
    <3>1. \E x : req' = [Relieved(Slug(r)) EXCEPT ![r] = x]
      BY <2>1, <2>5 DEF Relieved
    <3>2. Slug(q) # Slug(r)
      BY <1>2, <3>1
    <3> QED BY <1>1, <2>2, <2>3, <3>2 DEF Owing, SubsOf
  <2> QED BY <2>4, <2>5
<1>7. subs' = subs \/ CreateSubscribe(r) \/ SubscribeInsert(r) \/ Upgrade(r) \/ UpdateSubscription(r)
  BY DEF Step, CreateCheck, CreateInsert, CreateSeed, List, ReadVersion, BeginDdl, Waited, CommitDdl,
     DdlFails, Deactivate, Reactivate, SubscribeCheck, EnforceProjectLimit, CreateProject
<1> QED BY <1>3, <1>4, <1>5, <1>6, <1>7

LEMMA StepIndebted == ASSUME KeepInv, NEW r \in Reqs, Step(r) PROVE Indebted'
<1>1. /\ Requested /\ Recorded /\ Requested' /\ Mine(r) /\ Onward(r) /\ Debts(r) /\ Busy(r)
      /\ req[r] \in Request /\ InCode(req[r])
  BY StepOnward, StepDebts DEF KeepInv, UsableInv, AccountsInv, Requested, Onward
<1>2. ASSUME NEW q \in Reqs, q # r, req'[q].owing, req'[q].asks
      PROVE  req'[q].pc # "insert" /\ (req'[q].pc = "limit" => Owing(Slug(q))')
  <2>1. /\ req[q].owing /\ req[q].asks /\ req'[q].pc = req[q].pc /\ req[q].op = "project"
    BY <1>1, <1>2, OnlyMine DEF Requested, InCode
  <2>2. Slug(q) \in Slugs
    BY <1>1, <2>1, HasSlug
  <2> QED BY <1>1, <1>2, <2>1, <2>2 DEF KeepInv, Indebted, Debts
<1>3. ASSUME req'[r].owing, req'[r].asks
      PROVE  req'[r].pc # "insert" /\ req'[r].pc # "limit"
  <2>1. req[r].owing /\ req[r].asks /\ req[r].op = "project"
    BY <1>1, <1>3 DEF Onward, InCode
  <2>2. CASE EnforceProjectLimit(r)
    <3>1. Owing(Slug(r)) /\ overlap' = overlap
      BY <2>1, <2>2 DEF KeepInv, Indebted, EnforceProjectLimit, At
    <3>2. Answer(r, "402")
      <4>1. ~(req' = [req EXCEPT ![r].pc = "insert", ![r].asks = FALSE])
        <5> DEFINE x == [req[r] EXCEPT !.pc = "insert", !.asks = FALSE]
        <5>1. x.asks = FALSE /\ req \in [Reqs -> Request]
          BY <1>1 DEF Request, Requested
        <5>2. req' = [req EXCEPT ![r] = x] => req'[r] = x
          BY <5>1
        <5> QED BY <1>3, <5>1, <5>2
      <4> QED BY <2>1, <2>2, <3>1, <4>1 DEF EnforceProjectLimit, Owing
    <3>3. req'[r].pc = "done"
      BY <1>1, <3>1, <3>2, AnswerOnward
    <3> QED BY <3>3
  <2>3. CASE CreateProject(r)
    BY <2>1, <2>3 DEF KeepInv, Indebted, CreateProject, At
  <2>4. ~(\/ Deactivate(r) \/ Reactivate(r) \/ SubscribeCheck(r) \/ SubscribeInsert(r)
          \/ Upgrade(r) \/ UpdateSubscription(r))
    BY <2>1 DEF Deactivate, Reactivate, SubscribeCheck, SubscribeInsert, Upgrade, UpdateSubscription, At
  <2>5. ~(CreateCheck(r) \/ CreateInsert(r) \/ CreateSubscribe(r) \/ CreateSeed(r) \/ List(r))
    BY <2>1 DEF CreateCheck, CreateInsert, CreateSubscribe, CreateSeed, List, At
  <2>6. ~(ReadVersion(r) \/ BeginDdl(r) \/ Waited(r) \/ CommitDdl(r) \/ DdlFails(r))
    BY <1>1, <2>1 DEF ReadVersion, BeginDdl, Waited, CommitDdl, DdlFails, InCode, InDdl
  <2> QED BY <2>2, <2>3, <2>4, <2>5, <2>6 DEF Step
<1> QED BY <1>2, <1>3 DEF Indebted

LEMMA ArriveIndebted == ASSUME KeepInv, NEW r \in Reqs, Arrive(r) PROVE Indebted'
<1>0. Requested
  BY DEF KeepInv, UsableInv, AccountsInv
<1>1. /\ Requested' /\ Mine(r) /\ subs' = subs
      /\ req'[r].op = "project" /\ req'[r].owing => Owing(First(req'[r].todo))
      /\ <<req'[r].op, req'[r].pc>> \in
                 {<<"create", "check">>, <<"migrate", "version">>, <<"deactivate", "run">>,
                  <<"reactivate", "run">>, <<"pay", "run">>, <<"project", "limit">>,
                  <<"subscribe", "check">>, <<"upgrade", "run">>, <<"migrateAll", "list">>}
  BY <1>0, ArriveRequested
<1>2. ASSUME NEW q \in Reqs, q # r, req'[q].owing, req'[q].asks
      PROVE  req'[q].pc # "insert" /\ (req'[q].pc = "limit" => Owing(Slug(q))')
  <2>1. req[q].owing /\ req[q].asks /\ req'[q].pc = req[q].pc /\ Slug(q)' = Slug(q)
    BY <1>0, <1>1, <1>2, OnlyMine
  <2> QED BY <1>1, <2>1 DEF KeepInv, Indebted, Owing, SubsOf
<1>3. ASSUME req'[r].owing
      PROVE  req'[r].pc # "insert" /\ (req'[r].pc = "limit" => Owing(Slug(r))')
  <2>1. req'[r].op = "project" /\ req'[r].pc # "insert"
    BY <1>1, <1>3 DEF Requested, InCode
  <2> QED BY <1>1, <1>3, <2>1 DEF Owing, SubsOf, Slug
<1> QED BY <1>2, <1>3 DEF Indebted

LEMMA NextKeepInv == KeepInv /\ [Next]_vars => KeepInv'
<1>1. ASSUME KeepInv, UNCHANGED vars PROVE KeepInv'
  <2>1. UsableInv'
    BY <1>1, NextUsableInv DEF KeepInv
  <2> QED BY <1>1, <2>1 DEF vars, KeepInv, Indebted, Owing, SubsOf, Slug
<1>2. ASSUME KeepInv, NEW r \in Reqs, Step(r) PROVE KeepInv'
  <2>1. [Next]_vars
    BY <1>2 DEF Next
  <2> QED BY <1>2, <2>1, NextUsableInv, StepIndebted DEF KeepInv
<1>3. ASSUME KeepInv, NEW r \in Reqs, Arrive(r) PROVE KeepInv'
  BY <1>3, ArriveUsableInv, ArriveIndebted DEF KeepInv
<1> QED BY <1>1, <1>2, <1>3 DEF Next

\* The projects a step adds are of its own request, which is not in debt, or was not asked.
LEMMA StepKeeps == ASSUME KeepInv, NEW r \in Reqs, Step(r) PROVE RowsStay /\ OwingCreatesNothing
<1>1. RowsStay
  BY StepSchemas DEF KeepInv
<1>2. CASE CreateSeed(r) \/ CreateProject(r)
  <2>1. \A p \in projects' \ projects : p.by = r
    BY <1>2 DEF CreateSeed, CreateProject
  <2>2. ~(req[r].owing /\ req[r].asks)
    <3>1. req[r] \in Request /\ InCode(req[r])
      BY DEF KeepInv, UsableInv, AccountsInv, Requested
    <3> QED BY <1>2, <3>1 DEF CreateSeed, CreateProject, At, InCode, KeepInv, Indebted
  <2> QED BY <1>1, <2>1, <2>2 DEF OwingCreatesNothing
<1>3. CASE ~(CreateSeed(r) \/ CreateProject(r))
  <2>1. projects' = projects
    BY <1>3 DEF Step, CreateCheck, CreateInsert, CreateSubscribe, List, ReadVersion, BeginDdl, Waited,
        CommitDdl, DdlFails, Deactivate, Reactivate, SubscribeCheck, SubscribeInsert, Upgrade,
        UpdateSubscription, EnforceProjectLimit
  <2> QED BY <1>1, <2>1 DEF OwingCreatesNothing
<1> QED BY <1>2, <1>3

\* For any tenants, requests and faults: no step takes a schema or the rows of a table away, but
\* the rules of version 5, and none creates a project for a tenant whose debt stands, when its
\* subscription is asked for.
THEOREM NothingLost == Spec => AccountsKeep
<1>1. Init => KeepInv
  BY InitUsableInv DEF KeepInv, Init, Indebted, Idle
<1>2. KeepInv /\ [Next]_vars => [RowsStay /\ OwingCreatesNothing]_vars
  <2>1. ASSUME KeepInv, NEW r \in Reqs, Arrive(r) PROVE RowsStay /\ OwingCreatesNothing
    <3>1. Requested /\ Schemas
      BY <2>1 DEF KeepInv, UsableInv, AccountsInv
    <3>2. ns' = ns /\ projects' = projects
      BY <2>1, <3>1, ArriveRequested
    <3> QED BY <3>1, <3>2, SameSchemas DEF OwingCreatesNothing
  <2> QED BY <2>1, StepKeeps DEF Next
<1> QED BY <1>1, <1>2, NextKeepInv, PTL DEF Spec, AccountsKeep

-----------------------------------------------------------------------------
(* The presets of the municipalities. *)

Stages == {"idle", "end", "insert", "done"}
Authors == Editors \cup {"system"}

IsRow(p) ==
    /\ p = [code |-> p.code, version |-> p.version, active |-> p.active, by |-> p.by]
    /\ p.code \in Codes /\ p.active \in BOOLEAN /\ p.by \in Authors

\* An editor ends rows of its own municipality.
IsEdit(e) ==
    /\ edit[e] = [pc |-> edit[e].pc, code |-> edit[e].code, max |-> edit[e].max, old |-> edit[e].old]
    /\ edit[e].pc \in Stages /\ edit[e].code \in Codes
    /\ \A p \in edit[e].old : p.code = edit[e].code

\* Every row is the migration's, or the one row of an editor whose request is over.
OwnRow ==
    /\ edit = [e \in Editors |-> edit[e]]
    /\ \A e \in Editors : IsEdit(e)
    /\ \A p \in presets : IsRow(p) /\ (p.by \in Editors => edit[p.by].pc = "done")
    /\ \A p, q \in presets : p.code = q.code /\ p.by = q.by => p = q

\* Overlapping is mutual, and two requests in flight for one municipality overlap.
Overlapped ==
    /\ \A x, y \in Authors : <<x, y>> \in beside => <<y, x>> \in beside
    /\ \A c \in Codes : \A e, f \in InFlight(c) : e # f => <<e, f>> \in beside

\* What an editor is about to leave active is the row of a request that overlapped its own.
Ending ==
    \A e \in Editors : edit[e].pc = "insert" =>
        \A p \in presets : p.code = edit[e].code /\ p.active => p \in edit[e].old \/ <<e, p.by>> \in beside

PresetsInv == OwnRow /\ Overlapped /\ Ending /\ OneActiveUnlessOverlap

LEMMA InitPresetsInv == PresetsInit => PresetsInv
<1> SUFFICES ASSUME PresetsInit PROVE PresetsInv
  OBVIOUS
<1>1. /\ edit = [e \in Editors |-> edit[e]]
      /\ \A e \in Editors : IsEdit(e) /\ edit[e].pc = "idle"
      /\ beside = {}
  BY CodesAssumption DEF PresetsInit, IsEdit, Stages
<1>2. \A p \in presets : /\ p = [code |-> p.code, version |-> 1, active |-> TRUE, by |-> "system"]
                         /\ p.code \in Codes
  BY CodesAssumption DEF PresetsInit
<1>3. OwnRow
  <2>1. \A p \in presets : /\ p.version = 1 /\ p.active = TRUE /\ p.by = "system" /\ p.by \notin Editors
                           /\ p = [code |-> p.code, version |-> p.version, active |-> p.active, by |-> p.by]
    BY <1>2, EditorsAssumption
  <2>2. \A p \in presets : IsRow(p)
    BY <1>2, <2>1 DEF IsRow, Authors
  <2>3. \A p, q \in presets : p.code = q.code => p = q
    BY <1>2, <2>1
  <2> QED BY <1>1, <2>1, <2>2, <2>3 DEF OwnRow
<1>4. Overlapped /\ Ending
  BY <1>1 DEF Overlapped, InFlight, Ending
<1>5. OneActiveUnlessOverlap
  BY <1>2 DEF OneActiveUnlessOverlap
<1> QED BY <1>3, <1>4, <1>5 DEF PresetsInv

\* The pairs a request that begins adds to those known.
LEMMA OverlapsMembers ==
    ASSUME NEW e \in Editors, NEW c \in Codes, Overlaps(e, c)
    PROVE  \A x, y \in Authors : <<x, y>> \in beside' <=>
               <<x, y>> \in beside \/ (x = e /\ y \in InFlight(c)) \/ (y = e /\ x \in InFlight(c))
<1> TAKE x \in Authors, y \in Authors
<1>1. <<x, y>> \in beside' <=>
          <<x, y>> \in beside \/ \E f \in InFlight(c) : <<x, y>> = <<e, f>> \/ <<x, y>> = <<f, e>>
  BY DEF Overlaps
<1>2. InFlight(c) \subseteq Editors
  BY DEF InFlight
<1> QED BY <1>1, <1>2

\* Ending rows changes none but those that end, and the editor and municipality of none.
LEMMA EndedRows ==
    ASSUME NEW rows, \A q \in rows : IsRow(q), NEW old, NEW p \in Ended(rows, old)
    PROVE  /\ IsRow(p)
           /\ \E q \in rows : p.code = q.code /\ p.by = q.by /\ (p.active => p = q /\ q \notin old)
<1>1. PICK q \in rows : p = [code |-> q.code, version |-> q.version, active |-> q.active /\ q \notin old,
                             by |-> q.by]
  BY DEF Ended
<1>2. IsRow(q)
  OBVIOUS
<1>3. CASE q.active = TRUE /\ q \notin old
  <2>1. p = [code |-> q.code, version |-> q.version, active |-> TRUE, by |-> q.by]
    BY <1>1, <1>3, Zenon
  <2> QED BY <1>2, <1>3, <2>1 DEF IsRow
<1>4. CASE ~(q.active = TRUE /\ q \notin old)
  <2>1. (q.active /\ q \notin old) = FALSE
    BY <1>2, <1>4, Zenon DEF IsRow
  <2>2. p = [code |-> q.code, version |-> q.version, active |-> FALSE, by |-> q.by]
    BY <1>1, <2>1, Zenon
  <2> QED BY <1>2, <2>2 DEF IsRow
<1> QED BY <1>3, <1>4

\* A row that does not end is still there.
LEMMA KeptRows ==
    ASSUME NEW rows, \A q \in rows : IsRow(q), NEW old, NEW q \in rows, q \notin old
    PROVE  q \in Ended(rows, old)
<1>1. (q.active /\ q \notin old) = q.active
  BY DEF IsRow
<1>2. q = [code |-> q.code, version |-> q.version, active |-> q.active, by |-> q.by]
  BY DEF IsRow
<1>3. q = [code |-> q.code, version |-> q.version, active |-> q.active /\ q \notin old, by |-> q.by]
  BY <1>1, <1>2, Zenon
<1> QED BY <1>3, Zenon DEF Ended

\* One row per editor and municipality stays one.
LEMMA EndedOnce ==
    ASSUME NEW rows, NEW old, \A p, q \in rows : p.code = q.code /\ p.by = q.by => p = q,
           NEW p \in Ended(rows, old), NEW q \in Ended(rows, old), p.code = q.code, p.by = q.by
    PROVE  p = q
  BY DEF Ended

LEMMA ReadPresetsInv ==
    ASSUME PresetsInv, NEW e \in Editors, NEW c \in Codes, ReadHighest(e, c) PROVE PresetsInv'
<1>1. /\ edit[e].pc = "idle" /\ presets' = presets /\ Overlaps(e, c)
      /\ edit' = [edit EXCEPT ![e] = [pc |-> "end", code |-> c, max |-> Highest(RowsOf(c)), old |-> {}]]
  BY DEF ReadHighest
<1>2. /\ edit' = [f \in Editors |-> edit'[f]]
      /\ \A f \in Editors : IsEdit(f)'
      /\ edit'[e].pc = "end" /\ edit'[e].code = c
      /\ \A f \in Editors \ {e} : edit'[f] = edit[f]
  BY <1>1 DEF PresetsInv, OwnRow, IsEdit, Stages
<1>3. OwnRow'
  BY <1>1, <1>2 DEF PresetsInv, OwnRow, IsRow
<1>4. Overlapped'
  BY <1>1, <1>2, OverlapsMembers DEF PresetsInv, Overlapped, InFlight, Authors
<1>5. Ending'
  BY <1>1, <1>2, OverlapsMembers DEF PresetsInv, OwnRow, IsRow, Ending, Authors
<1>6. OneActiveUnlessOverlap'
  BY <1>1, OverlapsMembers DEF PresetsInv, OwnRow, IsRow, OneActiveUnlessOverlap
<1> QED BY <1>3, <1>4, <1>5, <1>6 DEF PresetsInv

\* The statement sees every row that is active when it begins.
LEMMA EndActivePresetsInv == ASSUME PresetsInv, NEW e \in Editors, EndActive(e) PROVE PresetsInv'
<1>1. /\ edit[e].pc = "end" /\ presets' = presets /\ beside' = beside
      /\ edit' = [edit EXCEPT ![e].pc = "insert", ![e].old = ActiveOf(edit[e].code)]
  BY DEF EndActive
<1>2. /\ edit' = [f \in Editors |-> edit'[f]]
      /\ edit'[e] = [pc |-> "insert", code |-> edit[e].code, max |-> edit[e].max,
                     old |-> ActiveOf(edit[e].code)]
      /\ \A f \in Editors \ {e} : edit'[f] = edit[f]
  <2> DEFINE rows == ActiveOf(edit[e].code)
  <2>1. edit' = [edit EXCEPT ![e] = [[edit[e] EXCEPT !.pc = "insert"] EXCEPT !.old = rows]]
    BY <1>1 DEF PresetsInv, OwnRow
  <2>2. /\ edit = [f \in Editors |-> edit[f]]
        /\ edit[e] = [pc |-> edit[e].pc, code |-> edit[e].code, max |-> edit[e].max, old |-> edit[e].old]
    BY DEF PresetsInv, OwnRow, IsEdit
  <2> HIDE DEF rows
  <2>3. [[edit[e] EXCEPT !.pc = "insert"] EXCEPT !.old = rows] =
            [pc |-> "insert", code |-> edit[e].code, max |-> edit[e].max, old |-> rows]
    <3> DEFINE begun == [edit[e] EXCEPT !.pc = "insert"]
    <3>1. begun = [pc |-> "insert", code |-> edit[e].code, max |-> edit[e].max, old |-> edit[e].old]
      BY <2>2
    <3> HIDE DEF begun
    <3>2. [begun EXCEPT !.old = rows] =
              [pc |-> "insert", code |-> edit[e].code, max |-> edit[e].max, old |-> rows]
      BY <3>1
    <3> QED BY <3>2 DEF begun
  <2> QED BY <2>1, <2>2, <2>3 DEF rows
<1>3. \A p \in ActiveOf(edit[e].code) : p.code = edit[e].code
  BY DEF ActiveOf, RowsOf
<1>4. \A f \in Editors : IsEdit(f)' /\ (edit[f].pc = "done" => edit'[f].pc = "done")
  BY <1>1, <1>2, <1>3 DEF PresetsInv, OwnRow, IsEdit, Stages
<1>5. OwnRow'
  BY <1>1, <1>2, <1>4 DEF PresetsInv, OwnRow, IsRow
<1>6. Overlapped'
  <2>1. \A c \in Codes : InFlight(c)' = InFlight(c)
    BY <1>1, <1>2 DEF InFlight
  <2> QED BY <1>1, <2>1 DEF PresetsInv, Overlapped
<1>7. Ending'
  <2>1. \A p \in presets : p.code = edit[e].code /\ p.active => p \in edit'[e].old
    BY <1>2 DEF ActiveOf, RowsOf
  <2>2. edit'[e].code = edit[e].code
    BY <1>2
  <2> QED BY <1>1, <1>2, <2>1, <2>2 DEF PresetsInv, Ending
<1> QED BY <1>1, <1>5, <1>6, <1>7 DEF PresetsInv, OneActiveUnlessOverlap

LEMMA InsertPresetsInv == ASSUME PresetsInv, NEW e \in Editors, InsertPreset(e) PROVE PresetsInv'
<1> DEFINE new == [code |-> edit[e].code, version |-> edit[e].max + 1, active |-> TRUE, by |-> e]
<1>1. /\ edit[e].pc = "insert" /\ e \in InFlight(edit[e].code) /\ edit[e].code \in Codes
      /\ edit' = [edit EXCEPT ![e].pc = "done"] /\ beside' = beside
  BY DEF PresetsInv, OwnRow, IsEdit, InsertPreset, InFlight
<1>2. /\ edit' = [f \in Editors |-> edit'[f]]
      /\ \A f \in Editors : IsEdit(f)'
      /\ edit'[e].pc = "done"
      /\ \A f \in Editors \ {e} : edit'[f] = edit[f]
  BY <1>1 DEF PresetsInv, OwnRow, IsEdit, Stages
<1>3. Overlapped'
  BY <1>1, <1>2 DEF PresetsInv, Overlapped, InFlight
<1>4. CASE presets' = presets
  BY <1>1, <1>2, <1>3, <1>4 DEF PresetsInv, OwnRow, IsRow, Ending, OneActiveUnlessOverlap
<1>5. CASE presets' = Ended(presets, edit[e].old) \cup {new}
  <2>1. ASSUME NEW p \in Ended(presets, edit[e].old)
        PROVE  /\ IsRow(p) /\ p.by # e /\ (p.by \in Editors => edit'[p.by].pc = "done")
               /\ p.active => p \in presets /\ p \notin edit[e].old
    BY <1>1, <1>2, <2>1, EndedRows, EditorsAssumption DEF PresetsInv, OwnRow, IsRow, Authors
  <2>2. IsRow(new) /\ new.by = e /\ new.active /\ new.code = edit[e].code
    BY <1>1 DEF IsRow, Authors
  <2>3. OwnRow'
    <3>1. ASSUME NEW p \in presets' PROVE IsRow(p) /\ (p.by \in Editors => edit'[p.by].pc = "done")
      BY <1>2, <1>5, <2>1, <2>2
    <3>2. ASSUME NEW p \in presets', NEW q \in presets', p.code = q.code, p.by = q.by PROVE p = q
      BY <1>5, <2>1, <2>2, <3>2, EndedOnce DEF PresetsInv, OwnRow
    <3> QED BY <1>2, <3>1, <3>2 DEF OwnRow, IsRow
  <2>4. ASSUME NEW p \in Ended(presets, edit[e].old), p.active, p.code = edit[e].code
        PROVE  <<e, p.by>> \in beside /\ <<p.by, e>> \in beside
    <3>1. <<e, p.by>> \in beside /\ p.by \in Authors
      BY <1>1, <2>1, <2>4 DEF PresetsInv, Ending, IsRow
    <3> QED BY <3>1 DEF PresetsInv, Overlapped, Authors
  <2>5. Ending'
    <3>1. SUFFICES ASSUME NEW f \in Editors, edit'[f].pc = "insert", NEW p \in presets',
                          p.code = edit'[f].code, p.active
                   PROVE  p \in edit'[f].old \/ <<f, p.by>> \in beside'
      BY DEF Ending
    <3>2. f # e /\ edit[f].pc = "insert" /\ edit'[f] = edit[f]
      BY <1>2, <3>1
    <3>3. CASE p \in Ended(presets, edit[e].old)
      BY <1>1, <2>1, <3>1, <3>2, <3>3 DEF PresetsInv, Ending
    <3>4. CASE p = new
      BY <1>1, <3>1, <3>2, <3>4 DEF PresetsInv, Overlapped, InFlight
    <3> QED BY <1>5, <3>1, <3>3, <3>4
  <2>6. OneActiveUnlessOverlap'
    <3>1. SUFFICES ASSUME NEW p \in presets', NEW q \in presets', p.code = q.code, p.active, q.active, p # q
                   PROVE  <<p.by, q.by>> \in beside'
      BY DEF OneActiveUnlessOverlap
    <3>2. CASE p = new \/ q = new
      BY <1>1, <1>5, <2>2, <2>4, <3>1, <3>2
    <3>3. CASE p # new /\ q # new
      BY <1>1, <1>5, <2>1, <3>1, <3>3 DEF PresetsInv, OneActiveUnlessOverlap
    <3> QED BY <3>2, <3>3
  <2> QED BY <1>3, <2>3, <2>5, <2>6 DEF PresetsInv
<1> QED BY <1>4, <1>5 DEF InsertPreset

\* Nothing of a municipality is active after the end of its rows.
LEMMA EndPresetPresetsInv ==
    ASSUME PresetsInv, NEW e \in Editors, NEW c \in Codes, EndPreset(e, c) PROVE PresetsInv'
<1>1. /\ edit[e].pc = "idle" /\ presets' = Ended(presets, ActiveOf(c))
      /\ edit' = [edit EXCEPT ![e].pc = "done"] /\ Overlaps(e, c)
  BY DEF EndPreset
<1>2. /\ edit' = [f \in Editors |-> edit'[f]]
      /\ \A f \in Editors : IsEdit(f)'
      /\ edit'[e].pc = "done"
      /\ \A f \in Editors \ {e} : edit'[f] = edit[f]
  BY <1>1 DEF PresetsInv, OwnRow, IsEdit, Stages
<1>3. ASSUME NEW p \in presets'
      PROVE  /\ IsRow(p) /\ (p.by \in Editors => edit'[p.by].pc = "done")
             /\ p.active => p \in presets
  BY <1>1, <1>2, <1>3, EndedRows DEF PresetsInv, OwnRow, IsRow
<1>4. OwnRow'
  <2>1. ASSUME NEW p \in presets', NEW q \in presets', p.code = q.code, p.by = q.by PROVE p = q
    BY <1>1, <2>1, EndedOnce DEF PresetsInv, OwnRow
  <2> QED BY <1>2, <1>3, <2>1 DEF OwnRow, IsRow
<1>5. \A x, y \in Authors : <<x, y>> \in beside => <<x, y>> \in beside'
  BY <1>1, OverlapsMembers
<1>6. Overlapped'
  BY <1>1, <1>2, OverlapsMembers DEF PresetsInv, Overlapped, InFlight, Authors
<1>7. Ending'
  <2>1. SUFFICES ASSUME NEW f \in Editors, edit'[f].pc = "insert", NEW p \in presets',
                        p.code = edit'[f].code, p.active
                 PROVE  p \in edit'[f].old \/ <<f, p.by>> \in beside'
    BY DEF Ending
  <2>2. edit[f].pc = "insert" /\ edit'[f] = edit[f]
    BY <1>2, <2>1
  <2> QED BY <1>3, <1>5, <2>1, <2>2 DEF PresetsInv, Ending, IsRow, Authors
<1>8. OneActiveUnlessOverlap'
  BY <1>3, <1>5 DEF PresetsInv, OneActiveUnlessOverlap, IsRow
<1> QED BY <1>4, <1>6, <1>7, <1>8 DEF PresetsInv

LEMMA NextPresetsInv == PresetsInv /\ [PresetsNext]_presetVars => PresetsInv'
<1> SUFFICES ASSUME PresetsInv, [PresetsNext]_presetVars PROVE PresetsInv'
  OBVIOUS
<1>1. CASE UNCHANGED presetVars
  BY <1>1 DEF presetVars, PresetsInv, OwnRow, IsRow, IsEdit, Overlapped, InFlight, Ending, OneActiveUnlessOverlap
<1>2. CASE PresetsNext
  BY <1>2, ReadPresetsInv, EndActivePresetsInv, InsertPresetsInv, EndPresetPresetsInv DEF PresetsNext
<1> QED BY <1>1, <1>2

\* For any municipalities and editors of their presets, with the unique index of the version
\* and without: two presets of one municipality are in force together only when their requests
\* overlapped.
THEOREM PresetsReplaceEachOther == PresetsSpec => []OneActiveUnlessOverlap
<1>1. PresetsInv => OneActiveUnlessOverlap
  BY DEF PresetsInv
<1> QED BY InitPresetsInv, NextPresetsInv, <1>1, PTL DEF PresetsSpec

Over == {e \in Editors : edit[e].pc = "done"}

\* Versions are counted by the requests that are over.
Counted ==
    /\ \A p \in presets : p.version \in 1..Cardinality(Over) + 1
    /\ \A c \in Codes : \A e \in InFlight(c) : edit[e].max \in 0..Cardinality(Over) + 1

\* While no requests have overlapped, what is in force is the last editor's row and no other.
LastInForce ==
    /\ last = [c \in Codes |-> last[c]]
    /\ \A c \in Codes :
          /\ last[c] \in Authors \cup {"nobody"}
          /\ beside = {} => {p.by : p \in ActiveOf(c)} = {last[c]} \ {"nobody"}

FollowInv == PresetsInv /\ Counted /\ LastInForce

LEMMA OverCounts ==
  /\ Over \in SUBSET Editors
  /\ IsFiniteSet(Over) /\ Cardinality(Over) \in Nat /\ Cardinality(Over) <= Cardinality(Editors)
  BY EditorsAssumption, FS_Subset, FS_CardinalityType DEF Over

\* The highest of bounded versions is one of them.
LEMMA HighestBounded ==
  ASSUME NEW rows, NEW n \in Nat, \A p \in rows : p.version \in 1..n
  PROVE  /\ Highest(rows) \in 0..n
         /\ \A p \in rows : p.version <= Highest(rows)
<1>1. CASE rows = {}
  BY <1>1 DEF Highest
<1>2. CASE rows # {}
  <2> DEFINE Bounds == {k \in Nat : \A p \in rows : p.version <= k}
  <2>1. n \in Bounds
    OBVIOUS
  <2>2. PICK m \in Bounds : \A k \in Bounds : m <= k
    <3> HIDE DEF Bounds
    <3>1. Bounds \subseteq Nat
      BY DEF Bounds
    <3> QED BY <2>1, <3>1, LeastNatural
  <2>3. \E p \in rows : p.version = m
    <3>1. SUFFICES ASSUME \A p \in rows : p.version # m PROVE FALSE
      OBVIOUS
    <3>2. m \in Nat \ {0}
      BY <1>2, <2>2
    <3>3. m - 1 \in Bounds
      BY <2>2, <3>1, <3>2
    <3> QED BY <2>2, <3>2, <3>3
  <2>4. \E v \in {p.version : p \in rows} : \A p \in rows : p.version <= v
    BY <2>2, <2>3
  <2>5. Highest(rows) \in {p.version : p \in rows} /\ \A p \in rows : p.version <= Highest(rows)
    BY <1>2, <2>4 DEF Highest
  <2> QED BY <2>5
<1> QED BY <1>1, <1>2

LEMMA InitFollow == PresetsInit => FollowInv
<1> SUFFICES ASSUME PresetsInit PROVE Counted /\ LastInForce
  BY InitPresetsInv DEF FollowInv
<1>1. Counted
  BY OverCounts DEF PresetsInit, Counted, InFlight
<1>2. ASSUME NEW c \in Codes PROVE {p.by : p \in ActiveOf(c)} = {last[c]} \ {"nobody"}
  <2>1. CASE c \in SeedCodes
    <3>1. ActiveOf(c) = {[code |-> c, version |-> 1, active |-> TRUE, by |-> "system"]}
      BY <2>1 DEF PresetsInit, ActiveOf, RowsOf
    <3>2. last[c] = "system"
      BY <2>1, <1>2 DEF PresetsInit
    <3> QED BY <3>1, <3>2
  <2>2. CASE c \notin SeedCodes
    <3>1. ActiveOf(c) = {}
      BY <2>2 DEF PresetsInit, ActiveOf, RowsOf
    <3>2. last[c] = "nobody"
      BY <2>2, <1>2 DEF PresetsInit
    <3> QED BY <3>1, <3>2
  <2> QED BY <2>1, <2>2
<1>3. LastInForce
  BY <1>2 DEF PresetsInit, LastInForce, Authors
<1> QED BY <1>1, <1>3

LEMMA ReadFollow ==
    ASSUME FollowInv, NEW e \in Editors, NEW c \in Codes, ReadHighest(e, c) PROVE Counted' /\ LastInForce'
<1> USE DEF FollowInv, PresetsInv, OwnRow, IsEdit
<1>1. /\ edit[e].pc = "idle" /\ UNCHANGED <<presets, last>> /\ (beside' = {} => beside = {})
      /\ edit' = [edit EXCEPT ![e] = [pc |-> "end", code |-> c, max |-> Highest(RowsOf(c)), old |-> {}]]
  BY DEF ReadHighest, Overlaps
<1>2. Over' = Over
  BY <1>1 DEF Over
<1>3. Highest(RowsOf(c)) \in 0..Cardinality(Over) + 1
  BY OverCounts, HighestBounded DEF Counted, RowsOf
<1>4. Counted'
  BY <1>1, <1>2, <1>3 DEF Counted, InFlight
<1> QED BY <1>1, <1>4 DEF LastInForce, ActiveOf, RowsOf

LEMMA EndActiveFollow == ASSUME FollowInv, NEW e \in Editors, EndActive(e) PROVE Counted' /\ LastInForce'
<1> USE DEF FollowInv, PresetsInv, OwnRow, IsEdit
<1>1. Over' = Over
  BY DEF EndActive, Over
<1>2. Counted'
  BY <1>1 DEF EndActive, Counted, InFlight
<1> QED BY <1>2 DEF EndActive, LastInForce, ActiveOf, RowsOf

\* A request that is over adds one to the versions there may be.
LEMMA OverGrows ==
  ASSUME FollowInv, NEW e \in Editors, edit[e].pc # "done", edit' = [edit EXCEPT ![e].pc = "done"]
  PROVE  Cardinality(Over') = Cardinality(Over) + 1
<1>1. e \notin Over /\ Over' = Over \cup {e}
  BY DEF Over, FollowInv, PresetsInv, OwnRow, IsEdit
<1> QED BY <1>1, OverCounts, FS_AddElement

ActiveAmong(rows, d) == {p \in rows : p.code = d /\ p.active}

\* Ending rows of one municipality leaves those of the others.
LEMMA OthersStay ==
    ASSUME NEW rows, \A q \in rows : IsRow(q), NEW old, NEW d, \A p \in old : p.code # d
    PROVE  ActiveAmong(Ended(rows, old), d) = ActiveAmong(rows, d)
<1>1. ASSUME NEW p \in Ended(rows, old), p.code = d, p.active PROVE p \in rows
  BY <1>1, EndedRows
<1>2. ASSUME NEW p \in rows, p.code = d PROVE p \in Ended(rows, old)
  BY <1>2, KeptRows
<1> QED BY <1>1, <1>2 DEF ActiveAmong

LEMMA InsertFollow == ASSUME FollowInv, NEW e \in Editors, InsertPreset(e) PROVE Counted' /\ LastInForce'
<1> USE DEF FollowInv, PresetsInv
<1> DEFINE c == edit[e].code
           new == [code |-> c, version |-> edit[e].max + 1, active |-> TRUE, by |-> e]
           kept == Ended(presets, edit[e].old)
<1>1. /\ edit[e].pc = "insert" /\ edit' = [edit EXCEPT ![e].pc = "done"] /\ beside' = beside
      /\ \/ UNCHANGED <<presets, last>>
         \/ presets' = kept \cup {new} /\ last' = [last EXCEPT ![c] = e]
      /\ c \in Codes
  BY DEF InsertPreset, OwnRow, IsEdit
<1>2. Cardinality(Over') = Cardinality(Over) + 1 /\ Cardinality(Over) \in Nat
  BY <1>1, OverGrows, OverCounts
<1>3. \A d \in Codes : \A f \in InFlight(d)' : f # e /\ f \in InFlight(d) /\ edit'[f] = edit[f]
  BY <1>1 DEF InFlight, OwnRow, IsEdit
<1>4. \A p \in kept : \E q \in presets : p.version = q.version
  BY DEF Ended
<1>5. e \in InFlight(c)
  BY <1>1 DEF InFlight
<1>6. new.version = edit[e].max + 1 /\ new.by = e /\ new.active /\ new.code = c
  OBVIOUS
<1> HIDE DEF new, kept
<1>7. Counted'
  <2>1. \A p \in presets' : p.version \in 1..Cardinality(Over') + 1
    BY <1>1, <1>2, <1>4, <1>5, <1>6 DEF Counted
  <2>2. \A d \in Codes : \A f \in InFlight(d)' : edit'[f].max \in 0..Cardinality(Over') + 1
    BY <1>2, <1>3 DEF Counted
  <2> QED BY <2>1, <2>2 DEF Counted
<1>8. CASE UNCHANGED <<presets, last>>
  BY <1>1, <1>7, <1>8 DEF LastInForce, ActiveOf, RowsOf
<1>9. CASE presets' = kept \cup {new} /\ last' = [last EXCEPT ![c] = e]
  <2>1. ASSUME beside = {}, NEW p \in kept, p.active, p.code = c PROVE FALSE
    <3>1. \E q \in presets : p = q /\ q \notin edit[e].old
      BY <2>1, EndedRows DEF OwnRow, kept
    <3> QED BY <1>1, <2>1, <3>1 DEF Ending
  <2>2. beside = {} => ActiveOf(c)' = {new}
    BY <1>1, <1>6, <1>9, <2>1 DEF ActiveOf, RowsOf
  <2>3. /\ last' = [d \in Codes |-> last'[d]] /\ last'[c] = e
        /\ \A d \in Codes \ {c} : last'[d] = last[d]
    BY <1>1, <1>9 DEF LastInForce
  <2>4. ASSUME NEW d \in Codes, d # c PROVE ActiveOf(d)' = ActiveOf(d)
    <3>1. ActiveAmong(kept, d) = ActiveAmong(presets, d)
      <4>1. (\A q \in presets : IsRow(q)) /\ (\A p \in edit[e].old : p.code # d)
        BY <2>4 DEF OwnRow, IsEdit
      <4> HIDE DEF c, FollowInv
      <4> QED BY <4>1, OthersStay DEF kept
    <3>2. {q \in presets' : q.code = d} = {q \in kept : q.code = d}
      BY <1>6, <1>9, <2>4
    <3> QED BY <3>1, <3>2 DEF ActiveOf, RowsOf, ActiveAmong
  <2>5. ASSUME beside' = {}, NEW d \in Codes
        PROVE  {p.by : p \in ActiveOf(d)'} = {last'[d]} \ {"nobody"}
    <3>1. CASE d = c
      BY <1>1, <1>6, <2>2, <2>3, <2>5, <3>1, EditorsAssumption
    <3>2. CASE d # c
      BY <1>1, <2>3, <2>4, <2>5, <3>2 DEF LastInForce
    <3> QED BY <3>1, <3>2
  <2>6. \A d \in Codes : last'[d] \in Authors \cup {"nobody"}
    BY <2>3 DEF LastInForce, Authors
  <2> QED BY <1>7, <2>3, <2>5, <2>6 DEF LastInForce
<1> QED BY <1>1, <1>8, <1>9

LEMMA EndPresetFollow ==
    ASSUME FollowInv, NEW e \in Editors, NEW c \in Codes, EndPreset(e, c) PROVE Counted' /\ LastInForce'
<1> USE DEF FollowInv, PresetsInv
<1>1. /\ edit[e].pc = "idle" /\ presets' = Ended(presets, ActiveOf(c))
      /\ last' = [last EXCEPT ![c] = "nobody"] /\ (beside' = {} => beside = {})
      /\ edit' = [edit EXCEPT ![e].pc = "done"]
  BY DEF EndPreset, Overlaps
<1>2. Cardinality(Over') = Cardinality(Over) + 1 /\ Cardinality(Over) \in Nat
  BY <1>1, OverGrows, OverCounts
<1>3. \A d \in Codes : \A f \in InFlight(d)' : f \in InFlight(d) /\ edit'[f] = edit[f]
  BY <1>1 DEF InFlight, OwnRow, IsEdit
<1>4. \A p \in presets' : \E q \in presets : p.version = q.version
  BY <1>1 DEF Ended
<1>5. Counted'
  <2>1. \A p \in presets' : p.version \in 1..Cardinality(Over') + 1
    BY <1>2, <1>4 DEF Counted
  <2>2. \A d \in Codes : \A f \in InFlight(d)' : edit'[f].max \in 0..Cardinality(Over') + 1
    BY <1>2, <1>3 DEF Counted
  <2> QED BY <2>1, <2>2 DEF Counted
<1>6. /\ last' = [d \in Codes |-> last'[d]] /\ last'[c] = "nobody"
      /\ \A d \in Codes \ {c} : last'[d] = last[d]
  BY <1>1 DEF LastInForce
<1>7. ActiveOf(c)' = {}
  <2>1. ASSUME NEW p \in Ended(presets, ActiveOf(c)), p.code = c, p.active PROVE FALSE
    BY <2>1, EndedRows DEF OwnRow, ActiveOf, RowsOf
  <2> QED BY <1>1, <2>1 DEF ActiveOf, RowsOf
<1>8. ASSUME NEW d \in Codes, d # c PROVE ActiveOf(d)' = ActiveOf(d)
  <2>1. \A p \in ActiveOf(c) : p.code # d
    BY <1>8 DEF ActiveOf, RowsOf
  <2>2. ActiveAmong(presets', d) = ActiveAmong(presets, d)
    <3>1. \A q \in presets : IsRow(q)
      BY DEF OwnRow
    <3> QED BY <1>1, <2>1, <3>1, OthersStay
  <2> QED BY <2>2 DEF ActiveOf, RowsOf, ActiveAmong
<1>9. ASSUME beside' = {}, NEW d \in Codes
      PROVE  {p.by : p \in ActiveOf(d)'} = {last'[d]} \ {"nobody"}
  BY <1>1, <1>6, <1>7, <1>8, <1>9 DEF LastInForce
<1> QED BY <1>5, <1>6, <1>9 DEF LastInForce

LEMMA NextFollow == FollowInv /\ [PresetsNext]_presetVars => FollowInv'
<1> SUFFICES ASSUME FollowInv, [PresetsNext]_presetVars PROVE Counted' /\ LastInForce'
  BY NextPresetsInv DEF FollowInv
<1>1. CASE UNCHANGED presetVars
  BY <1>1 DEF presetVars, FollowInv, Counted, LastInForce, InFlight, ActiveOf, RowsOf, Over
<1>2. CASE PresetsNext
  BY <1>2, ReadFollow, EndActiveFollow, InsertFollow, EndPresetFollow DEF PresetsNext
<1> QED BY <1>1, <1>2

\* A report takes the presets of a municipality that has some.
LEMMA ChosenHas == ASSUME NEW c, NEW S PROVE Chosen(c, S) \subseteq S
<1>1. CASE c \in S
  BY <1>1 DEF Chosen
<1>2. CASE c \notin S /\ HomeCode \in S
  BY <1>2 DEF Chosen
<1>3. CASE c \notin S /\ HomeCode \notin S
  BY <1>3 DEF Chosen
<1> QED BY <1>1, <1>2, <1>3

\* A municipality's one active row is the highest of its active rows.
LEMMA OneInForce ==
    ASSUME FollowInv, beside = {}, NEW d \in Codes
    PROVE  /\ InForce(d) = ActiveOf(d) /\ {p.by : p \in ActiveOf(d)} = {last[d]} \ {"nobody"}
           /\ \A p \in ActiveOf(d) : p.code = d
<1> USE DEF FollowInv
<1>1. {p.by : p \in ActiveOf(d)} = {last[d]} \ {"nobody"}
  BY DEF LastInForce
<1>2. \A p \in ActiveOf(d) : p \in presets /\ p.code = d /\ p.active
  BY DEF ActiveOf, RowsOf
<1>3. \A p, q \in ActiveOf(d) : p = q
  BY <1>2 DEF PresetsInv, OneActiveUnlessOverlap
<1>4. ASSUME NEW p \in ActiveOf(d) PROVE p.version = Highest(ActiveOf(d))
  <2>1. ActiveOf(d) = {p}
    BY <1>3
  <2>2. p.version \in Nat
    BY <1>2, OverCounts DEF Counted
  <2>3. Highest({p}) \in {p.version}
    BY <2>2 DEF Highest
  <2> QED BY <2>1, <2>3
<1> QED BY <1>1, <1>2, <1>4 DEF InForce

LEMMA FollowImplies == FollowInv => PresetsTypeOK /\ ReportsFollowTheLast
<1> SUFFICES ASSUME FollowInv PROVE PresetsTypeOK /\ ReportsFollowTheLast
  OBVIOUS
<1>1. PresetsTypeOK
  BY OverCounts, FS_CardinalityType, EditorsAssumption
     DEF FollowInv, Counted, LastInForce, PresetsInv, OwnRow, IsRow, Authors, PresetsTypeOK
<1>2. ASSUME beside = {}, NEW c \in Codes
      PROVE  {<<p.code, p.by>> : p \in Effective(c)} =
             {<<d, last[d]>> : d \in Chosen(c, {d \in Codes : last[d] # "nobody"})}
  <2> DEFINE T == {d \in Codes : ActiveOf(d) # {}}
             L == {d \in Codes : last[d] # "nobody"}
             S == Chosen(c, L)
  <2>1. \A d \in Codes : ActiveOf(d) # {} <=> last[d] # "nobody"
    BY <1>2, OneInForce
  <2>2. T = L
    BY <2>1
  <2>3. S \subseteq L
    BY ChosenHas
  <2>4. Effective(c) = UNION {InForce(d) : d \in S}
    BY <2>2 DEF Effective
  <2> HIDE DEF S
  <2>5. ASSUME NEW p \in Effective(c) PROVE \E d \in S : <<p.code, p.by>> = <<d, last[d]>>
    <3>1. PICK d \in S : p \in InForce(d)
      BY <2>4
    <3>2. p.code = d /\ p.by \in {last[d]} \ {"nobody"}
      BY <1>2, <2>3, <3>1, OneInForce
    <3> QED BY <3>1, <3>2
  <2>6. ASSUME NEW d \in S PROVE \E p \in Effective(c) : <<p.code, p.by>> = <<d, last[d]>>
    <3>1. last[d] \in {p.by : p \in ActiveOf(d)}
      BY <1>2, <2>3, OneInForce
    <3>2. PICK p \in ActiveOf(d) : p.by = last[d]
      BY <3>1
    <3>3. p \in InForce(d) /\ p.code = d
      BY <1>2, <2>3, <3>2, OneInForce
    <3> QED BY <2>4, <3>2, <3>3
  <2>7. {<<p.code, p.by>> : p \in Effective(c)} = {<<d, last[d]>> : d \in S}
    BY <2>5, <2>6
  <2> QED BY <2>7 DEF S
<1> QED BY <1>1, <1>2 DEF ReportsFollowTheLast

-----------------------------------------------------------------------------
(* The signing keys (KeyCache). *)

Looks == {"fetch", "answered"}
Token ==
    [step : {"idle", "fetch", "answered", "accepted", "refused", "unavailable"}, key : Keys \cup {Never},
     good : BOOLEAN, looks : {0, 1, 2}, got : SUBSET Keys, since : Nat, age : Nat, whole : BOOLEAN]

KeysTyped ==
    /\ now \in Nat /\ refusals \in Nat
    /\ published \subseteq Keys /\ copy \subseteq Keys
    /\ retired \in [Keys -> Nat \cup {Never}]
    /\ copied \in Nat \cup {Never} /\ copied <= now
    /\ token \in [Requests -> Token]
    /\ \A r \in Requests : token[r].since <= now /\ (token[r].step = "accepted" => token[r].key \in Keys)

\* A key retired since a moment, or never.
RetiredSince(k, moment) == retired[k] # Never => moment <= retired[k]

\* The keys in an answer and in the copy were in the realm when the look for them began.
Dated ==
    /\ \A k \in published : retired[k] = Never
    /\ copied # Never => \A k \in copy : RetiredSince(k, copied)
    /\ \A r \in Requests : token[r].step = "answered" => \A k \in token[r].got : RetiredSince(k, token[r].since)

\* A key that has been in the realm all along is there, and in the answer on its way.
AllAlong ==
    \A r \in Requests : token[r].step \in Looks /\ token[r].whole =>
        /\ token[r].key \in published
        /\ token[r].step = "answered" => token[r].key \in token[r].got

KeysInv == KeysTyped /\ Dated /\ AllAlong /\ KeysServe

LEMMA KeysInitInv == ASSUME KeysAssumption, KeysInit PROVE KeysInv
<1>1. /\ Waiting \in Token /\ Waiting.step = "idle" /\ Waiting.since = 0
  BY DEF Waiting, Token, Looks
<1>2. KeysTyped
  BY <1>1 DEF KeysInit, KeysTyped, NoCopy, Never
<1> QED BY <1>1, <1>2 DEF KeysInit, KeysInv, Dated, AllAlong, KeysServe, GoodTokensPass, RetiredKeysExpire, Looks

\* What a token's request may be after a step that changes neither realm nor clock.
TokenOK(t) ==
    /\ t \in Token /\ t.since <= now /\ (t.step = "accepted" => t.key \in Keys)
    /\ t.step = "answered" => \A k \in t.got : RetiredSince(k, t.since)
    /\ t.step \in Looks /\ t.whole => t.key \in published /\ (t.step = "answered" => t.key \in t.got)
    /\ t.step = "refused" => ~t.whole
    /\ t.step = "accepted" /\ retired[t.key] # Never => t.since - retired[t.key] < TTL \/ t.age >= Day

\* A verdict is a token, no longer looked for.
LEMMA VerdictTyped ==
    ASSUME KeysTyped, NEW t \in Token, t.since <= now, NEW keys \in SUBSET Keys
    PROVE  LET v == Verdict(t, keys)
           IN  v \in Token /\ v.since <= now /\ v.step \notin Looks /\ (v.step = "accepted" => v.key \in Keys)
<1> DEFINE v == Verdict(t, keys)
<1>1. CASE t.key \in keys /\ t.good
  <2>1. v = [t EXCEPT !.step = "accepted", !.got = {}, !.looks = 0, !.whole = FALSE]
    BY <1>1 DEF Verdict
  <2> HIDE DEF v
  <2>2. v.since = t.since /\ v.step = "accepted" /\ v.key = t.key
    BY <2>1 DEF Token
  <2>3. v \in Token
    BY <2>1 DEF Token
  <2> QED BY <1>1, <2>2, <2>3 DEF v, Looks
<1>2. CASE ~(t.key \in keys /\ t.good)
  <2> DEFINE whole == t.whole /\ t.good
  <2>1. v = [Waiting EXCEPT !.step = "refused", !.key = t.key, !.good = t.good, !.whole = whole]
    BY <1>2 DEF Verdict
  <2>2. whole \in BOOLEAN
    BY Zenon
  <2> HIDE DEF v, whole
  <2>3. v \in Token /\ v.since = 0 /\ v.step = "refused"
    BY <2>1, <2>2 DEF Token, Looks, Waiting
  <2> QED BY <2>3 DEF v, Looks, KeysTyped
<1> QED BY <1>1, <1>2

\* The verdict of a token on keys retired since it was looked for, or by a copy of that age.
LEMMA VerdictOK ==
    ASSUME KeysAssumption, KeysTyped, NEW t \in Token, t.since <= now, NEW keys \in SUBSET Keys,
           t.whole => t.key \in keys,
           t.key \in keys /\ retired[t.key] # Never => t.since - retired[t.key] < TTL \/ t.age >= Day
    PROVE  TokenOK(Verdict(t, keys))
<1>0. /\ t = [step |-> t.step, key |-> t.key, good |-> t.good, looks |-> t.looks, got |-> t.got,
              since |-> t.since, age |-> t.age, whole |-> t.whole]
      /\ t.key \in Keys \cup {Never} /\ t.good \in BOOLEAN /\ t.since \in Nat /\ t.age \in Nat
      /\ t.whole \in BOOLEAN
  BY DEF Token
<1>1. CASE t.key \in keys /\ t.good
  <2> DEFINE v == [step |-> "accepted", key |-> t.key, good |-> t.good, looks |-> 0, got |-> {},
                   since |-> t.since, age |-> t.age, whole |-> FALSE]
  <2>1. v \in Token
    BY <1>0 DEF Token, Looks
  <2>2. /\ v.step = "accepted" /\ v.key = t.key /\ v.since = t.since /\ v.age = t.age
    OBVIOUS
  <2>3. Verdict(t, keys) = [t EXCEPT !.step = "accepted", !.got = {}, !.looks = 0, !.whole = FALSE]
    BY <1>1 DEF Verdict
  <2>4. Verdict(t, keys) = v
    BY <1>0, <2>3
  <2> HIDE DEF v
  <2> QED BY <1>1, <2>1, <2>2, <2>4 DEF TokenOK, Looks
<1>2. CASE ~(t.key \in keys /\ t.good)
  <2> DEFINE whole == t.whole /\ t.good
             v == [step |-> "refused", key |-> t.key, good |-> t.good, looks |-> 0, got |-> {}, since |-> 0,
                   age |-> 0, whole |-> whole]
  <2>1. whole = FALSE
    <3>1. ~(t.whole /\ t.good)
      BY <1>2
    <3> QED BY <3>1, Zenon
  <2>2. Verdict(t, keys) = v
    BY <1>2 DEF Verdict, Waiting
  <2> HIDE DEF whole
  <2>3. v \in Token
    <3>1. v = [step |-> "refused", key |-> t.key, good |-> t.good, looks |-> 0, got |-> {}, since |-> 0,
               age |-> 0, whole |-> FALSE]
      BY <2>1
    <3>2. [step |-> "refused", key |-> t.key, good |-> t.good, looks |-> 0, got |-> {}, since |-> 0,
               age |-> 0, whole |-> FALSE] \in Token
      BY <1>0 DEF Token, Looks
    <3> HIDE DEF v
    <3> QED BY <3>1, <3>2
  <2>4. v.step = "refused" /\ v.whole = FALSE /\ v.since = 0
    BY <2>1
  <2> HIDE DEF v
  <2> QED BY <2>2, <2>3, <2>4 DEF TokenOK, Looks, KeysTyped
<1> QED BY <1>1, <1>2

\* A step of one request: its token, the copy and its time.
LEMMA RequestStep ==
    ASSUME KeysInv, NEW r \in Requests, NEW t, token' = [token EXCEPT ![r] = t],
           UNCHANGED <<now, published, retired>>, refusals' \in Nat,
           copy' \subseteq Keys, copied' \in Nat \cup {Never}, copied' <= now,
           copied' # Never => \A k \in copy' : RetiredSince(k, copied'),
           IF refusals' = 0
           THEN refusals = 0 /\ TokenOK(t)
           ELSE /\ t \in Token /\ t.since <= now /\ (t.step = "accepted" => t.key \in Keys)
                /\ t.step = "answered" => \A k \in t.got : RetiredSince(k, t.since)
                /\ t.step \in Looks /\ t.whole => t.key \in published /\ (t.step = "answered" => t.key \in t.got)
    PROVE  KeysInv'
<1>1. /\ t \in Token /\ t.since <= now /\ (t.step = "accepted" => t.key \in Keys)
      /\ t.step = "answered" => \A k \in t.got : RetiredSince(k, t.since)
      /\ t.step \in Looks /\ t.whole => t.key \in published /\ (t.step = "answered" => t.key \in t.got)
      /\ refusals' = 0 => refusals = 0 /\ TokenOK(t)
  BY DEF TokenOK
<1>2. /\ token' \in [Requests -> Token] /\ token'[r] = t /\ \A q \in Requests \ {r} : token'[q] = token[q]
  BY <1>1 DEF KeysInv, KeysTyped
<1>3. KeysTyped'
  BY <1>1, <1>2 DEF KeysInv, KeysTyped
<1>4. Dated'
  <2>1. ASSUME NEW q \in Requests, token'[q].step = "answered", NEW k \in token'[q].got
        PROVE  RetiredSince(k, token'[q].since)
    BY <1>1, <1>2, <2>1 DEF KeysInv, Dated
  <2> QED BY <2>1 DEF KeysInv, Dated, RetiredSince
<1>5. AllAlong'
  BY <1>1, <1>2 DEF KeysInv, AllAlong
<1>6. KeysServe'
  BY <1>1, <1>2 DEF KeysInv, KeysServe, GoodTokensPass, RetiredKeysExpire, TokenOK
<1> QED BY <1>3, <1>4, <1>5, <1>6 DEF KeysInv

LEMMA LeaveInv == ASSUME KeysInv, NEW r \in Requests, Leave(r) PROVE KeysInv'
<1>1. TokenOK(Waiting) /\ UNCHANGED <<now, published, retired, copy, copied, refusals>>
      /\ token' = [token EXCEPT ![r] = Waiting]
  BY DEF Leave, Waiting, TokenOK, Token, Looks, KeysInv, KeysTyped
<1>2. copied # Never => \A k \in copy : RetiredSince(k, copied)
  BY DEF KeysInv, Dated
<1> QED BY <1>1, <1>2, RequestStep DEF KeysInv, KeysTyped, TokenOK

LEMMA ServeInv == ASSUME KeysInv, NEW r \in Requests, ServeKeys(r) PROVE KeysInv'
<1> DEFINE t == [token[r] EXCEPT !.step = "answered", !.got = published]
<1>1. token[r] \in Token /\ token[r].since <= now /\ token[r].step = "fetch"
      /\ (token[r].whole => token[r].key \in published)
  BY DEF KeysInv, KeysTyped, ServeKeys, AllAlong, Looks
<1>2. token' = [token EXCEPT ![r] = t] /\ UNCHANGED <<now, published, retired, copy, copied, refusals>>
  BY <1>1 DEF ServeKeys
<1>3. /\ t \in Token /\ t.step = "answered" /\ t.got = published /\ t.key = token[r].key
      /\ t.since = token[r].since /\ t.whole = token[r].whole
  BY <1>1 DEF Token, Looks, KeysInv, KeysTyped
<1> HIDE DEF t
<1>4. TokenOK(t)
  BY <1>1, <1>3 DEF TokenOK, KeysInv, Dated, RetiredSince
<1>5. copied # Never => \A k \in copy : RetiredSince(k, copied)
  BY DEF KeysInv, Dated
<1> QED BY <1>2, <1>4, <1>5, RequestStep DEF KeysInv, KeysTyped, TokenOK

\* A token sought in keys: with the verdict or a second look.
LEMMA LookInv ==
    ASSUME KeysAssumption, KeysInv, NEW r \in Requests, token[r].step \in Looks,
           NEW keys \in SUBSET Keys, NEW stamp \in Nat \cup {Never}, Look(r, keys, stamp),
           UNCHANGED <<now, published, retired>>, refusals' \in Nat, copy' = keys,
           stamp <= now, stamp # Never => \A k \in keys : RetiredSince(k, stamp),
           refusals' = 0 => /\ refusals = 0 /\ (token[r].whole => token[r].key \in keys)
                            /\ \A k \in keys : RetiredSince(k, token[r].since)
    PROVE  KeysInv'
<1>1. token[r] \in Token /\ token[r].since <= now /\ now \in Nat /\ token[r].since \in Nat
  BY DEF KeysInv, KeysTyped, Token
<1>2. CASE token[r].key \in keys \/ token[r].looks = 2
  <2> DEFINE t == Verdict(token[r], keys)
  <2>1. token' = [token EXCEPT ![r] = t] /\ copied' = stamp
    BY <1>1, <1>2 DEF Look, KeysInv, KeysTyped
  <2>2. ASSUME refusals' = 0 PROVE refusals = 0 /\ TokenOK(t)
    <3>1. token[r].key \in keys /\ retired[token[r].key] # Never => token[r].since - retired[token[r].key] < TTL
      <4> SUFFICES ASSUME token[r].key \in keys, retired[token[r].key] # Never
                   PROVE  token[r].since - retired[token[r].key] < TTL
        OBVIOUS
      <4>1. token[r].since <= retired[token[r].key] /\ retired[token[r].key] \in Nat
        BY <2>2 DEF RetiredSince, KeysInv, KeysTyped
      <4> QED BY <1>1, <4>1 DEF KeysAssumption
    <3> QED BY <1>1, <2>2, <3>1, VerdictOK DEF KeysInv
  <2>3. t \in Token /\ t.since <= now /\ t.step \notin Looks /\ (t.step = "accepted" => t.key \in Keys)
    BY <1>1, VerdictTyped DEF KeysInv
  <2> HIDE DEF t
  <2> QED BY <2>1, <2>2, <2>3, RequestStep DEF Looks
<1>3. CASE ~(token[r].key \in keys \/ token[r].looks = 2)
  <2> DEFINE t == [token[r] EXCEPT !.step = "fetch", !.looks = 2, !.got = {}, !.since = now]
  <2>1. token' = [token EXCEPT ![r] = t] /\ copied' = Never
    BY <1>1, <1>3 DEF Look
  <2>2. /\ t \in Token /\ t.step = "fetch" /\ t.since = now /\ t.key = token[r].key
        /\ t.whole = token[r].whole
    BY <1>1 DEF Token, Looks
  <2>3. t.whole => t.key \in published
    BY <2>2 DEF KeysInv, AllAlong
  <2> HIDE DEF t
  <2>4. TokenOK(t)
    BY <1>1, <2>2, <2>3 DEF TokenOK
  <2>5. /\ copied' = Never /\ copied' \in Nat \cup {Never} /\ copied' <= now
        /\ refusals' = 0 => refusals = 0
    BY <1>1, <2>1 DEF Never
  <2> QED BY <2>1, <2>4, <2>5, RequestStep DEF TokenOK
<1> QED BY <1>2, <1>3

LEMMA KeysArriveInv == ASSUME KeysAssumption, KeysInv, NEW r \in Requests, KeysArrive(r) PROVE KeysInv'
<1>1. /\ token[r].step = "answered" /\ copy' = token[r].got /\ Look(r, token[r].got, token[r].since)
      /\ UNCHANGED <<now, published, retired, refusals>>
  BY DEF KeysArrive
<1>2. token[r] \in Token /\ token[r].got \in SUBSET Keys /\ token[r].since \in Nat /\ token[r].since <= now
  BY DEF KeysInv, KeysTyped, Token
<1>3. /\ \A k \in token[r].got : RetiredSince(k, token[r].since)
      /\ token[r].whole => token[r].key \in token[r].got
  BY <1>1 DEF KeysInv, Dated, AllAlong, Looks
<1> QED BY <1>1, <1>2, <1>3, LookInv DEF KeysInv, KeysTyped, Looks

LEMMA KeysRefusedInv == ASSUME KeysAssumption, KeysInv, NEW r \in Requests, KeysRefused(r) PROVE KeysInv'
<1>1. /\ token[r].step = "fetch" /\ refusals' = refusals + 1 /\ UNCHANGED <<now, published, retired, copy>>
      /\ token[r] \in Token /\ token[r].since <= now
  BY DEF KeysRefused, KeysInv, KeysTyped
<1>2. refusals' \in Nat /\ refusals' # 0
  BY <1>1 DEF KeysInv, KeysTyped
<1>3. copied # Never => \A k \in copy : RetiredSince(k, copied)
  BY DEF KeysInv, Dated
<1>4. CASE copy = NoCopy
  <2> DEFINE t == [token[r] EXCEPT !.step = "unavailable"]
  <2>1. token' = [token EXCEPT ![r] = t] /\ copied' = copied
    BY <1>1, <1>4 DEF KeysRefused
  <2>2. t \in Token /\ t.step = "unavailable" /\ t.since = token[r].since
    BY <1>1 DEF Token, Looks
  <2> HIDE DEF t
  <2> QED BY <1>1, <1>2, <1>3, <2>1, <2>2, RequestStep DEF Looks, KeysInv, KeysTyped
<1>5. CASE copy # NoCopy
  <2>1. Look(r, copy, copied)
    BY <1>5 DEF KeysRefused
  <2> QED BY <1>1, <1>2, <1>3, <2>1, LookInv DEF KeysInv, KeysTyped, Looks
<1> QED BY <1>4, <1>5

LEMMA SmallRemainder == ASSUME NEW n \in Nat, NEW d \in Nat \ {0}, n < d PROVE n % d = n
  OBVIOUS

LEMMA DecodeInv == ASSUME KeysAssumption, KeysInv, NEW r \in Requests, DecodeJwtToken(r) PROVE KeysInv'
<1>1. PICK k \in {x \in Keys : InRealm(x) \/ retired[x] # Never} \cup {Never}, good \in BOOLEAN :
          LET came == [Waiting EXCEPT !.key = k, !.good = good, !.since = now, !.whole = InRealm(k)]
          IN  IF Usable /\ k \in copy
              THEN /\ token' = [token EXCEPT ![r] = Verdict([came EXCEPT !.age = now - copied], copy)]
                   /\ UNCHANGED copied
              ELSE /\ token' = [token EXCEPT ![r] = [came EXCEPT !.step = "fetch", !.looks = IF Usable THEN 2 ELSE 1]]
                   /\ copied' = IF Usable THEN Never ELSE copied
  BY DEF DecodeJwtToken
<1> DEFINE came == [Waiting EXCEPT !.key = k, !.good = good, !.since = now, !.whole = InRealm(k)]
<1>2. /\ now \in Nat /\ copied \in Nat \cup {Never} /\ copied <= now /\ copy \subseteq Keys
      /\ UNCHANGED <<now, published, retired, copy, refusals>> /\ refusals \in Nat
      /\ copied # Never => \A x \in copy : RetiredSince(x, copied)
  BY DEF DecodeJwtToken, KeysInv, KeysTyped, Dated
<1>3. InRealm(k) \in BOOLEAN /\ (InRealm(k) => k \in published)
  BY DEF InRealm
<1>4. /\ came \in Token /\ came.step = "idle" /\ came.key = k /\ came.since = now
      /\ came.whole = InRealm(k)
  BY <1>2, <1>3 DEF Waiting, Token, Looks
<1>5. CASE Usable /\ k \in copy
  <2> DEFINE t == [came EXCEPT !.age = now - copied]
  <2>1. copied \in Nat /\ copied # Never /\ now - copied \in Nat /\ (now - copied) % Day < TTL
    BY <1>2, <1>5 DEF Usable
  <2>2. token' = [token EXCEPT ![r] = Verdict(t, copy)] /\ copied' = copied
    BY <1>1, <1>5
  <2> HIDE DEF came
  <2>3. t \in Token /\ t.key = k /\ t.since = now /\ t.age = now - copied
    BY <1>4, <2>1 DEF Token
  <2> HIDE DEF t
  <2>4. t.key \in copy /\ retired[t.key] # Never => t.since - retired[t.key] < TTL \/ t.age >= Day
    <3> SUFFICES ASSUME retired[k] # Never, now - copied < Day PROVE now - retired[k] < TTL
      BY <1>2, <2>1, <2>3 DEF KeysAssumption
    <3>1. (now - copied) % Day = now - copied
      BY <2>1, SmallRemainder DEF KeysAssumption
    <3>2. copied <= retired[k] /\ retired[k] \in Nat
      BY <1>2, <1>5, <2>1 DEF RetiredSince, KeysInv, KeysTyped
    <3> QED BY <1>2, <2>1, <3>1, <3>2 DEF KeysAssumption
  <2>5. TokenOK(Verdict(t, copy))
    BY <1>2, <1>5, <2>3, <2>4, VerdictOK DEF KeysInv
  <2> QED BY <1>2, <2>2, <2>5, RequestStep DEF TokenOK
<1>6. CASE ~(Usable /\ k \in copy)
  <2> DEFINE looks == IF Usable THEN 2 ELSE 1
             t == [came EXCEPT !.step = "fetch", !.looks = looks]
  <2>1. looks \in {0, 1, 2}
    OBVIOUS
  <2>2. token' = [token EXCEPT ![r] = t] /\ copied' = IF Usable THEN Never ELSE copied
    BY <1>1, <1>6
  <2> HIDE DEF looks, came
  <2>3. /\ t \in Token /\ t.step = "fetch" /\ t.key = k /\ t.since = now
        /\ t.whole = InRealm(k)
    BY <1>4, <2>1 DEF Token, Looks
  <2> HIDE DEF t
  <2>4. TokenOK(t)
    BY <1>2, <1>3, <2>3 DEF TokenOK, Looks
  <2>5. /\ copied' \in Nat \cup {Never} /\ copied' <= now
        /\ copied' # Never => \A x \in copy' : RetiredSince(x, copied')
    BY <1>2, <2>2 DEF Never
  <2> QED BY <1>2, <2>2, <2>4, <2>5, RequestStep DEF TokenOK
<1> QED BY <1>5, <1>6

LEMMA KeysNextInv == ASSUME KeysAssumption, KeysInv, [KeysNext]_keyVars PROVE KeysInv'
<1> USE DEF KeysInv
<1>1. CASE UNCHANGED keyVars
  BY <1>1 DEF keyVars, KeysTyped, Dated, RetiredSince, AllAlong, KeysServe, GoodTokensPass, RetiredKeysExpire
<1>2. CASE Tick
  <2>1. now' = now + 1 /\ UNCHANGED <<published, retired, copy, copied, token, refusals>>
    BY <1>2 DEF Tick
  <2>2. KeysTyped'
    <3>1. ASSUME NEW r \in Requests PROVE token[r].since <= now'
      BY <2>1 DEF KeysTyped, Token
    <3> QED BY <2>1, <3>1 DEF KeysTyped, Never
  <2>3. Dated' /\ AllAlong' /\ KeysServe'
    BY <2>1 DEF Dated, RetiredSince, AllAlong, KeysServe, GoodTokensPass, RetiredKeysExpire
  <2> QED BY <2>2, <2>3
<1>3. CASE Rotate
  <2>1. /\ published' \subseteq Keys /\ retired' \in [Keys -> Nat \cup {Never}]
        /\ \A k \in Keys : retired'[k] = retired[k] \/ (retired[k] = Never /\ retired'[k] = now)
        /\ \A k \in published' : retired'[k] = Never
    BY <1>3 DEF Rotate, KeysTyped, Dated
  <2>2. UNCHANGED <<now, copy, copied, refusals>>
    BY <1>3 DEF Rotate
  <2>3. ASSUME NEW r \in Requests
        PROVE  /\ token'[r] \in Token /\ token'[r].step = token[r].step /\ token'[r].key = token[r].key
               /\ token'[r].since = token[r].since /\ token'[r].got = token[r].got
               /\ token'[r].age = token[r].age
               /\ token'[r].whole => token[r].whole
               /\ token'[r].whole /\ token[r].step \in Looks => token[r].key \in published'
    <3>1. token[r] \in Token
      BY DEF KeysTyped
    <3>2. CASE token[r].step \in Looks
      <4> DEFINE whole == token[r].whole /\ token[r].key \in published'
                 t == [token[r] EXCEPT !.whole = whole]
      <4>1. token'[r] = t
        BY <1>3, <3>2 DEF Rotate, Looks
      <4>2. whole \in BOOLEAN
        BY Zenon
      <4>3. whole => token[r].whole /\ token[r].key \in published'
        OBVIOUS
      <4> HIDE DEF whole
      <4>4. /\ t \in Token /\ t.step = token[r].step /\ t.key = token[r].key /\ t.whole = whole
            /\ t.since = token[r].since /\ t.got = token[r].got /\ t.age = token[r].age
        BY <3>1, <4>2 DEF Token
      <4> HIDE DEF t
      <4> QED BY <4>1, <4>3, <4>4
    <3>3. CASE token[r].step \notin Looks
      <4>1. token'[r] = token[r]
        BY <1>3, <3>3 DEF Rotate, Looks
      <4> QED BY <3>1, <3>3, <4>1
    <3> QED BY <3>2, <3>3
  <2>4. token' \in [Requests -> Token]
    BY <1>3, <2>3 DEF Rotate
  <2>5. KeysTyped'
    BY <2>1, <2>2, <2>3, <2>4 DEF KeysTyped
  <2>6. ASSUME NEW k \in Keys, NEW moment, moment \in Nat, moment <= now, RetiredSince(k, moment)
        PROVE  RetiredSince(k, moment)'
    BY <2>1, <2>2, <2>6 DEF RetiredSince, KeysTyped
  <2>7. Dated'
    <3>1. copied # Never => copied \in Nat /\ \A k \in copy : RetiredSince(k, copied)'
      BY <2>2, <2>6 DEF KeysTyped, Dated
    <3>2. ASSUME NEW r \in Requests, token[r].step = "answered", NEW k \in token[r].got
          PROVE  RetiredSince(k, token[r].since)'
      <4>1. k \in Keys /\ token[r].since \in Nat /\ token[r].since <= now
        BY <3>2 DEF KeysTyped, Token
      <4>2. RetiredSince(k, token[r].since)
        BY <3>2 DEF Dated
      <4>3. token'[r].since = token[r].since
        BY <2>3
      <4> QED BY <2>1, <4>1, <4>2, <4>3 DEF RetiredSince, KeysTyped
    <3> QED BY <2>1, <2>2, <2>3, <3>1, <3>2 DEF Dated, RetiredSince
  <2>8. AllAlong'
    BY <2>3 DEF AllAlong
  <2>9. KeysServe'
    <3>1. GoodTokensPass'
      BY <2>2, <2>3 DEF KeysServe, GoodTokensPass
    <3>2. RetiredKeysExpire'
      <4> SUFFICES ASSUME refusals = 0, NEW r \in Requests, token[r].step = "accepted",
                          retired'[token[r].key] # Never
                   PROVE  token[r].since - retired'[token[r].key] < TTL \/ token[r].age >= Day
        BY <2>2, <2>3 DEF RetiredKeysExpire
      <4>1. CASE token[r].key = Never
        BY <2>5, <2>3, <4>1 DEF KeysTyped, KeysAssumption
      <4>2. CASE token[r].key \in Keys /\ retired'[token[r].key] = retired[token[r].key]
        BY <4>2 DEF KeysServe, RetiredKeysExpire
      <4>3. CASE token[r].key \in Keys /\ retired'[token[r].key] = now
        <5>1. token[r].since \in Nat /\ token[r].since <= now /\ now \in Nat
          BY DEF KeysTyped, Token
        <5> QED BY <4>3, <5>1 DEF KeysAssumption
      <4> QED BY <2>1, <4>1, <4>2, <4>3 DEF KeysTyped, Token
    <3> QED BY <3>1, <3>2 DEF KeysServe
  <2> QED BY <2>5, <2>7, <2>8, <2>9
<1> QED BY <1>1, <1>2, <1>3, DecodeInv, ServeInv, KeysArriveInv, KeysRefusedInv, LeaveInv DEF KeysNext

\* For any requests, keys and times: while the identity server answers, a token whose key was in
\* the realm all along is not refused, and one of a retired key passes only for the life of a
\* copy after its retirement, or from a copy older than a day.
THEOREM SigningKeysServe == ASSUME KeysAssumption PROVE KeysSpec => []KeysServe
<1>1. KeysInit => KeysInv
  BY KeysInitInv
<1>2. KeysInv /\ [KeysNext]_keyVars => KeysInv'
  BY KeysNextInv
<1>3. KeysInv => KeysServe
  BY DEF KeysInv
<1> QED BY <1>1, <1>2, <1>3, PTL DEF KeysSpec

-----------------------------------------------------------------------------
(* The users of the identity server (UserDirectory). *)

TownOrNone == Towns \cup {None}

User ==
    [there : {TRUE}, email : Emails, enabled : BOOLEAN, roles : SUBSET Roles,
     tenant : TownOrNone, session : BOOLEAN]

\* The requests at their calls: a user to post, one posted, a role to change, attributes to merge.
Posting == [op : {"create", "register"}, step : {"post"}, email : Emails, role : Roles,
            town : Towns, id : {None}]
Posted == [op : {"create", "register"}, step : {"assign"}, email : Emails, role : Roles,
           town : Towns, id : Ids]
Changing == [op : {"role"}, step : {"readRoles", "remove", "assign"}, id : Ids,
             role : Roles, old : SUBSET Roles]
Merging == [op : {"update", "profile", "toggle"}, step : {"readUser", "put", "logout"}, id : Ids,
            email : Emails \cup {None}, town : TownOrNone, enabled : {"on", "off", None}, dept : BOOLEAN, kept : TownOrNone]

Closed(q) == q.step \in {"idle", "done", "failed"}
InHand(q) == \/ q \in Posting \/ q \in Posted \/ q \in Changing
             \/ q \in Merging /\ (q.op = "profile" => q.enabled = None)

UsersTyped ==
    /\ users = [i \in Ids |-> users[i]]
    /\ \A i \in Ids : users[i] = NoUser \/ users[i] \in User
    /\ asked \in [Ids -> TownOrNone]
    /\ call = [r \in Callers |-> call[r]]
    /\ \A r \in Callers : Closed(call[r]) \/ InHand(call[r])

\* The identifier of a user and of a request was given, and is not given again.
Given ==
    /\ \A i \in There : asked[i] # None
    /\ \A r \in Callers : ~Closed(call[r]) /\ call[r].id # None => asked[call[r].id] # None

\* What a request has kept of a user's attributes is still so, unless muddled.
Kept ==
    \A r \in Callers : CallAt(r, "put") /\ call[r].id \in There \ muddled =>
                           call[r].kept = users[call[r].id].tenant

OneOf(roles) == \E role \in Roles : roles = {role}

OnRoles(r, i) == ~Closed(call[r]) /\ call[r].op \in RoleOps /\ call[r].id = i

\* The one role of a user at rest, or none of one whom the identity provider made.
Settled(i) == IF i \in social THEN users[i].roles = {} ELSE OneOf(users[i].roles)

\* One request at a time changes the roles of a user who is not torn, from those to none to one.
Singly ==
    \A i \in Ids \ torn : \A r, q \in Callers : OnRoles(r, i) /\ OnRoles(q, i) => r = q
Halfway ==
    \A i \in There \ torn : \A r \in Callers : OnRoles(r, i) =>
        /\ call[r].step = "readRoles" => Settled(i)
        /\ call[r].step = "remove" => users[i].roles = call[r].old
        /\ call[r].step = "assign" => users[i].roles = {}

TownsInv == Kept /\ TownIsAsked
RolesInv == Singly /\ Halfway /\ OneRole
UsersInv == UsersTyped /\ Given /\ TownsInv /\ RolesInv /\ DisabledIsOut

LEMMA UsersInitInv == ASSUME DirectoryAssumption, UsersInit PROVE UsersInv
<1> USE DEF UsersInit
<1>1. \A r \in Callers : Closed(call[r]) /\ call[r].step = "idle"
  BY DEF Closed, NoCall
<1> DEFINE Known == [there : {TRUE}, email : Emails, enabled : {TRUE}, roles : {{}, {"viewer"}},
                     tenant : Towns, session : {TRUE}]
<1>2. ASSUME NEW i \in Ids PROVE users[i] = NoUser \/ users[i] \in Known
  BY Zenon
<1>3. ASSUME NEW i \in Ids, users[i] \in Known
      PROVE  /\ users[i] \in User /\ users[i].there
             /\ users[i].roles \in {{}, {"viewer"}} /\ users[i].tenant \in Towns /\ users[i].enabled = TRUE
  BY <1>3 DEF User, TownOrNone, DirectoryAssumption
<1> HIDE DEF Known
<1>4. NoUser.there = FALSE
  BY DEF NoUser
<1>5. \A i \in Ids : users[i].there => users[i] \in Known
  BY <1>2, <1>4
<1>6. asked = [i \in Ids |-> IF users[i].there THEN users[i].tenant ELSE None]
  OBVIOUS
<1>7. UsersTyped
  <2>1. users = [i \in Ids |-> users[i]]
    OBVIOUS
  <2>2. asked \in [Ids -> TownOrNone]
    BY <1>6, <1>5, <1>3 DEF TownOrNone
  <2>3. call = [r \in Callers |-> call[r]]
    OBVIOUS
  <2> QED BY <1>1, <1>2, <1>3, <2>1, <2>2, <2>3 DEF UsersTyped
<1>8. Given
  <2>1. None \notin Towns
    BY DEF DirectoryAssumption
  <2>2. \A i \in Ids : users[i].there => asked[i] \in Towns
    BY <1>6, <1>5, <1>3
  <2> QED BY <1>1, <2>1, <2>2 DEF Given, There
<1>9. TownsInv
  BY <1>1 DEF TownsInv, Kept, CallAt, TownIsAsked, There
<1>10. OneRole
  <2>1. \A i \in There : IF i \in social THEN users[i].roles = {} ELSE users[i].roles = {"viewer"}
    BY <1>5, <1>3 DEF There
  <2>2. "viewer" \in Roles
    BY DEF DirectoryAssumption
  <2> QED BY <2>1, <2>2 DEF OneRole
<1>11. RolesInv
  BY <1>1, <1>10 DEF RolesInv, Singly, Halfway, OnRoles
<1>12. DisabledIsOut
  BY <1>5, <1>3 DEF DisabledIsOut, There
<1> QED BY <1>7, <1>8, <1>9, <1>11, <1>12 DEF UsersInv

-----------------------------------------------------------------------------
\* The step of a request is its own, and takes it to a form of requests.
Own(r) == call' = [q \in Callers |-> call'[q]] /\ \A q \in Callers \ {r} : call'[q] = call[q]

LEMMA OwnStep ==
  ASSUME UsersTyped, NEW r \in Callers, NEW q, call' = [call EXCEPT ![r] = q]
  PROVE  Own(r) /\ call'[r] = q
  BY DEF UsersTyped, Own

LEMMA TypedFrame ==
  ASSUME UsersTyped, NEW r \in Callers, Own(r), Closed(call'[r]) \/ InHand(call'[r]),
         users' = [i \in Ids |-> users'[i]],
         \A i \in Ids : users'[i] = NoUser \/ users'[i] \in User,
         asked' \in [Ids -> TownOrNone]
  PROVE  UsersTyped'
  BY DEF UsersTyped, Own

\* Identifiers are given to users, and requests take those of users.
LEMMA GivenFrame ==
  ASSUME Given, NEW r \in Callers, Own(r), asked' = asked, There' \subseteq There,
         ~Closed(call'[r]) => \/ call'[r].id \in There \cup {None}
                              \/ ~Closed(call[r]) /\ call'[r].id = call[r].id
  PROVE  Given'
  BY DEF Given, Own

\* Steps that leave the attributes alone.
LEMMA TownsFrame ==
  ASSUME UsersInv, NEW r \in Callers, Own(r), muddled \subseteq muddled', asked' = asked,
         \A i \in There' : i \in There /\ users'[i].tenant = users[i].tenant,
         call'[r].step # "put"
  PROVE  TownsInv'
  BY DEF UsersInv, TownsInv, Kept, CallAt, TownIsAsked, Own, There

\* Steps that end an operation on the roles of a user, or change no roles.
LEMMA RolesFrame ==
  ASSUME UsersInv, NEW r \in Callers, Own(r), torn \subseteq torn',
         \A i \in There' : i \in There,
         \A i \in There' \ torn' : ~OnRoles(r, i) =>
             users'[i].roles = users[i].roles /\ (i \in social' <=> i \in social),
         \A i \in Ids : ~OnRoles(r, i)',
         \A i \in There' \ torn' : OnRoles(r, i) => Settled(i)'
  PROVE  RolesInv'
<1> USE DEF UsersInv, RolesInv, Own
<1>1. There' \subseteq Ids
  BY DEF There
<1>2. \A q \in Callers \ {r}, i \in Ids : OnRoles(q, i)' = OnRoles(q, i)
  BY DEF OnRoles, Closed
<1>3. Singly'
  BY <1>2 DEF Singly
<1>4. Halfway'
  <2>1. ASSUME NEW i \in There' \ torn', NEW q \in Callers, OnRoles(q, i)'
        PROVE  q # r /\ OnRoles(q, i) /\ ~OnRoles(r, i)
    BY <1>1, <1>2, <2>1 DEF Singly
  <2>2. \A i \in There' \ torn' : ~OnRoles(r, i) => (Settled(i)' <=> Settled(i))
    BY DEF Settled
  <2> QED BY <1>1, <2>1, <2>2 DEF Halfway
<1>5. ASSUME NEW i \in There' \ torn', \A q \in Callers : ~OnRoles(q, i)'
      PROVE  Settled(i)'
  <2>1. CASE OnRoles(r, i)
    BY <2>1
  <2>2. CASE ~OnRoles(r, i)
    <3>1. i \in There \ torn /\ \A q \in Callers : ~OnRoles(q, i)
      BY <1>1, <1>2, <1>5, <2>2
    <3>2. Settled(i)
      BY <3>1 DEF OneRole, Settled, OneOf, OnRoles, Open, Closed
    <3> QED BY <1>5, <2>2, <3>2 DEF Settled
  <2> QED BY <2>1, <2>2
<1>6. OneRole'
  BY <1>5 DEF OneRole, Settled, OneOf, OnRoles, Open, Closed
<1> QED BY <1>3, <1>4, <1>6

\* Steps within an operation on the roles of a user.
LEMMA RolesWithin ==
  ASSUME UsersInv, NEW r \in Callers, Own(r), torn \subseteq torn',
         social' = social, \A i \in Ids : OnRoles(r, i)' <=> OnRoles(r, i),
         \A i \in There' :
             i \in There /\ (users'[i].roles = users[i].roles \/ OnRoles(r, i)),
         \A i \in There' \ torn' : OnRoles(r, i) =>
             /\ call'[r].step = "readRoles" => Settled(i)'
             /\ call'[r].step = "remove" => users'[i].roles = call'[r].old
             /\ call'[r].step = "assign" => users'[i].roles = {}
  PROVE  RolesInv'
<1> USE DEF UsersInv, RolesInv, Own
<1>1. There' \subseteq Ids
  BY DEF There
<1>2. \A q \in Callers, i \in Ids : OnRoles(q, i)' <=> OnRoles(q, i)
  BY DEF OnRoles, Closed
<1>3. Singly'
  BY <1>2 DEF Singly
<1>4. Halfway'
  <2>1. ASSUME NEW i \in There' \ torn', NEW q \in Callers, OnRoles(q, i)', q # r
        PROVE  OnRoles(q, i) /\ ~OnRoles(r, i)
    BY <1>1, <1>2, <2>1 DEF Singly
  <2>2. \A i \in There' \ torn' : ~OnRoles(r, i) => (Settled(i)' <=> Settled(i))
    BY DEF Settled
  <2> QED BY <1>1, <1>2, <2>1, <2>2 DEF Halfway
<1>5. ASSUME NEW i \in There' \ torn', \A q \in Callers : ~OnRoles(q, i)'
      PROVE  Settled(i)'
  <2>1. i \in There \ torn /\ \A q \in Callers : ~OnRoles(q, i)
    BY <1>1, <1>2, <1>5
  <2>2. Settled(i)
    BY <2>1 DEF OneRole, Settled, OneOf, OnRoles, Open, Closed
  <2> QED BY <1>5, <2>1, <2>2 DEF Settled
<1>6. OneRole'
  BY <1>5 DEF OneRole, Settled, OneOf, OnRoles, Open, Closed
<1> QED BY <1>3, <1>4, <1>6

\* Steps that neither disable a user nor begin a session.
LEMMA OutFrame ==
  ASSUME UsersInv, NEW r \in Callers, Own(r), spared \subseteq spared',
         \A i \in There' : /\ i \in There
                                     /\ users'[i].enabled = users[i].enabled
                                     /\ users'[i].session = users[i].session,
         call[r].step = "logout" => call[r].id \in spared'
  PROVE  DisabledIsOut'
  BY DEF UsersInv, DisabledIsOut, CallAt, Own, There

-----------------------------------------------------------------------------
\* A request that ends and leaves the users as they are.
LEMMA EndedInv ==
  ASSUME UsersInv, NEW r \in Callers, NEW q, Closed(q), call' = [call EXCEPT ![r] = q],
         UNCHANGED <<users, asked, social>>, torn \subseteq torn', muddled \subseteq muddled', spared \subseteq spared',
         \A i \in There \ torn' : ~OnRoles(r, i),
         call[r].step = "logout" => call[r].id \in spared'
  PROVE  UsersInv'
<1>1. Own(r) /\ Closed(call'[r]) /\ UsersTyped /\ Given
  BY OwnStep DEF UsersInv
<1>2. There' = There /\ \A i \in There' : users'[i] = users[i]
  BY DEF There
<1>3. UsersTyped'
  BY <1>1, TypedFrame DEF UsersTyped
<1>4. Given'
  BY <1>1, <1>2, GivenFrame
<1>5. TownsInv'
  BY <1>1, <1>2, TownsFrame DEF Closed
<1>6. \A i \in Ids : ~OnRoles(r, i)'
  BY <1>1 DEF OnRoles, Closed
<1>7. RolesInv'
  BY <1>1, <1>2, <1>6, RolesFrame
<1>8. DisabledIsOut'
  BY <1>1, <1>2, OutFrame
<1> QED BY <1>3, <1>4, <1>5, <1>7, <1>8 DEF UsersInv

\* A request that begins: on no roles yet, but for a change of role.
LEMMA BegunTyped ==
  ASSUME UsersInv, NEW r \in Callers, call[r].step = "idle", NEW q, InHand(q),
         call' = [call EXCEPT ![r] = q], UNCHANGED <<users, asked, muddled, spared>>,
         q.id \in There \cup {None}, q.step \notin {"put", "logout"}
  PROVE  /\ Own(r) /\ call'[r] = q /\ There' = There
         /\ UsersTyped' /\ Given' /\ TownsInv' /\ DisabledIsOut'
<1>1. Own(r) /\ call'[r] = q /\ UsersTyped /\ Given
  BY OwnStep DEF UsersInv
<1>2. There' = There /\ \A i \in There' : users'[i] = users[i]
  BY DEF There
<1>3. UsersTyped'
  BY <1>1, TypedFrame DEF UsersTyped
<1>4. Given'
  BY <1>1, <1>2, GivenFrame
<1>5. TownsInv'
  BY <1>1, <1>2, TownsFrame
<1>6. DisabledIsOut'
  BY <1>1, <1>2, OutFrame
<1> QED BY <1>1, <1>2, <1>3, <1>4, <1>5, <1>6

LEMMA BegunInv ==
  ASSUME DirectoryAssumption,
         UsersInv, NEW r \in Callers, call[r].step = "idle", NEW q, InHand(q),
         call' = [call EXCEPT ![r] = q], UNCHANGED <<users, asked, torn, muddled, spared, social>>,
         q.id \in There \cup {None}, q.step \notin {"put", "logout"},
         q \in Posting \/ q.op \notin RoleOps
  PROVE  UsersInv'
<1>1. /\ Own(r) /\ call'[r] = q /\ There' = There
      /\ UsersTyped' /\ Given' /\ TownsInv' /\ DisabledIsOut'
  BY BegunTyped
<1>2. \A i \in There' : users'[i] = users[i]
  OBVIOUS
<1>3. \A i \in Ids : ~OnRoles(r, i)' /\ ~OnRoles(r, i)
  <2>1. None \notin Ids
    BY DEF DirectoryAssumption
  <2>2. \A i \in Ids : ~OnRoles(r, i)
    BY DEF OnRoles, Closed
  <2>3. CASE q \in Posting
    BY <1>1, <2>1, <2>2, <2>3 DEF OnRoles, Posting
  <2>4. CASE q.op \notin RoleOps
    BY <1>1, <2>2, <2>4 DEF OnRoles, RoleOps
  <2> QED BY <2>3, <2>4
<1>4. There \subseteq Ids
  BY DEF There
<1>5. RolesInv'
  BY <1>1, <1>2, <1>3, <1>4, RolesFrame
<1> QED BY <1>1, <1>5 DEF UsersInv

-----------------------------------------------------------------------------
LEMMA PostRequestInv ==
  ASSUME DirectoryAssumption, UsersInv, NEW r \in Callers,
         CreateUser(r) \/ Register(r)
  PROVE  UsersInv'
<1>1. PICK op \in {"create", "register"}, role \in Roles, e \in Emails, t \in Towns :
         StartCall(r, [op |-> op, step |-> "post", email |-> e, role |-> role, town |-> t,
                             id |-> None])
  BY Zenon DEF CreateUser, Register, DirectoryAssumption
<1> DEFINE q == [op |-> op, step |-> "post", email |-> e, role |-> role, town |-> t, id |-> None]
<1>2. q \in Posting /\ q.id = None /\ q.step = "post"
  BY DEF Posting
<1>3. call[r].step = "idle" /\ call' = [call EXCEPT ![r] = q]
  BY <1>1 DEF StartCall, CallAt
<1> HIDE DEF q
<1>4. UNCHANGED <<users, asked, torn, muddled, spared, social>>
  BY DEF CreateUser, Register
<1> QED BY <1>2, <1>3, <1>4, BegunInv DEF InHand

LEMMA MergeRequestInv ==
  ASSUME DirectoryAssumption, UsersInv, NEW r \in Callers,
         UpdateUser(r) \/ UpdateMyProfile(r) \/ ToggleUserStatus(r)
  PROVE  UsersInv'
<1>1. PICK op \in {"update", "profile", "toggle"}, i \in There, e \in Emails \cup {None},
           t \in TownOrNone, flag \in {"on", "off", None}, dept \in BOOLEAN :
         /\ StartCall(r, [op |-> op, step |-> "readUser", id |-> i, email |-> e, town |-> t,
                          enabled |-> flag, dept |-> dept, kept |-> None])
         /\ op = "profile" => flag = None
  <2> USE DEF TownOrNone
  <2>1. CASE UpdateUser(r)
    BY <2>1, Zenon DEF UpdateUser
  <2>2. CASE UpdateMyProfile(r)
    BY <2>2, Zenon DEF UpdateMyProfile
  <2>3. CASE ToggleUserStatus(r)
    <3>1. PICK i \in There :
             StartCall(r, [op |-> "toggle", step |-> "readUser", id |-> i, email |-> None, town |-> None,
                                 enabled |-> IF users[i].enabled THEN "off" ELSE "on",
                                 dept |-> FALSE, kept |-> None])
      BY <2>3, Zenon DEF ToggleUserStatus
    <3>2. (IF users[i].enabled THEN "off" ELSE "on") \in {"on", "off", None}
      OBVIOUS
    <3>3. FALSE \in BOOLEAN /\ None \in TownOrNone /\ None \in Emails \cup {None} /\ "toggle" # "profile"
      OBVIOUS
    <3> QED BY <3>1, <3>2, <3>3, Zenon
  <2> QED BY <2>1, <2>2, <2>3
<1> DEFINE q == [op |-> op, step |-> "readUser", id |-> i, email |-> e, town |-> t, enabled |-> flag,
                 dept |-> dept, kept |-> None]
<1>2. /\ q \in Merging /\ q.id = i /\ q.step = "readUser"
      /\ q.op = op /\ q.enabled = flag
  BY DEF Merging, TownOrNone, There
<1>3. call[r].step = "idle" /\ call' = [call EXCEPT ![r] = q]
  BY <1>1 DEF StartCall, CallAt
<1> HIDE DEF q
<1>4. UNCHANGED <<users, asked, torn, muddled, spared, social>>
  BY DEF UpdateUser, UpdateMyProfile, ToggleUserStatus
<1>5. InHand(q) /\ q.op \notin RoleOps
  BY <1>1, <1>2 DEF InHand, RoleOps
<1> QED BY <1>2, <1>3, <1>4, <1>5, BegunInv

LEMMA ChangeRoleInv ==
  ASSUME UsersInv, NEW r \in Callers, ChangeUserRole(r)
  PROVE  UsersInv'
<1>1. PICK role \in Roles, i \in There :
         /\ StartCall(r, [op |-> "role", step |-> "readRoles", id |-> i, role |-> role, old |-> {}])
         /\ torn' = IF Contended(r, i) THEN torn \cup {i} ELSE torn
  BY Zenon DEF ChangeUserRole
<1> DEFINE q == [op |-> "role", step |-> "readRoles", id |-> i, role |-> role, old |-> {}]
<1>2. q \in Changing /\ q.id = i /\ q.step = "readRoles" /\ q.op = "role"
  BY DEF Changing, There
<1>3. call[r].step = "idle" /\ call' = [call EXCEPT ![r] = q]
  BY <1>1 DEF StartCall, CallAt
<1> HIDE DEF q
<1>4. UNCHANGED <<users, asked, muddled, spared, social>>
  BY DEF ChangeUserRole
<1>5. /\ Own(r) /\ call'[r] = q /\ There' = There
      /\ UsersTyped' /\ Given' /\ TownsInv' /\ DisabledIsOut'
  BY <1>2, <1>3, <1>4, BegunTyped DEF InHand
<1>6. \A p \in Callers \ {r}, j \in Ids : OnRoles(p, j)' <=> OnRoles(p, j)
  BY <1>5 DEF OnRoles, Closed, Own
<1>7. \A j \in Ids : (OnRoles(r, j)' <=> j = i) /\ ~OnRoles(r, j)
  BY <1>2, <1>3, <1>5 DEF OnRoles, Closed, RoleOps
<1>8. ASSUME NEW p \in Callers \ {r}, OnRoles(p, i) PROVE i \in torn'
  BY <1>1, <1>8 DEF Contended, Open, OnRoles, Closed
<1>9. torn \subseteq torn' /\ There \subseteq Ids
  BY <1>1 DEF There
<1>10. Singly'
  BY <1>6, <1>7, <1>8, <1>9 DEF UsersInv, RolesInv, Singly
<1>11. ASSUME i \notin torn' PROVE Settled(i)
  <2>1. i \notin torn /\ \A p \in Callers : ~OnRoles(p, i)
    BY <1>7, <1>8, <1>9, <1>11
  <2> QED BY <2>1 DEF UsersInv, RolesInv, OneRole, Settled, OneOf, OnRoles, Open, Closed
<1>12. Halfway'
  <2>1. ASSUME NEW j \in There \ torn', NEW p \in Callers \ {r}, OnRoles(p, j)
        PROVE  /\ call'[p].step = "readRoles" => Settled(j)
               /\ call'[p].step = "remove" => users[j].roles = call'[p].old
               /\ call'[p].step = "assign" => users[j].roles = {}
    BY <1>5, <1>9, <2>1 DEF UsersInv, RolesInv, Halfway, Own
  <2>2. \A j \in There : Settled(j)' <=> Settled(j)
    BY <1>4 DEF Settled
  <2> QED BY <1>2, <1>4, <1>5, <1>6, <1>7, <1>9, <1>11, <2>1, <2>2 DEF Halfway
<1>13. ASSUME NEW j \in There \ torn', \A p \in Callers : ~OnRoles(p, j)'
       PROVE  Settled(j)
  <2>1. j \notin torn /\ \A p \in Callers : ~OnRoles(p, j)
    BY <1>6, <1>7, <1>9, <1>13
  <2> QED BY <2>1 DEF UsersInv, RolesInv, OneRole, Settled, OneOf, OnRoles, Open, Closed
<1>14. OneRole'
  BY <1>4, <1>5, <1>13 DEF OneRole, Settled, OneOf, OnRoles, Open, Closed
<1> QED BY <1>5, <1>10, <1>12, <1>14 DEF UsersInv, RolesInv

LEMMA DeleteUserInv == ASSUME UsersInv, NEW r \in Callers, DeleteUser(r) PROVE UsersInv'
<1>1. PICK i \in There :
         /\ StartCall(r, [op |-> "delete", step |-> "done"])
         /\ users' = [users EXCEPT ![i] = NoUser]
  BY Zenon DEF DeleteUser
<1>2. UNCHANGED <<torn, muddled, spared, asked, social>>
  BY DEF DeleteUser
<1> DEFINE q == [op |-> "delete", step |-> "done"]
<1>3. q.step = "done"
  OBVIOUS
<1>4. call[r].step = "idle" /\ call' = [call EXCEPT ![r] = q]
  BY <1>1 DEF StartCall, CallAt
<1> HIDE DEF q
<1>5. Own(r) /\ call'[r] = q /\ UsersTyped /\ Given
  BY <1>4, OwnStep DEF UsersInv
<1>6. users' = [j \in Ids |-> users'[j]] /\ users'[i] = NoUser
      /\ \A j \in Ids \ {i} : users'[j] = users[j]
  BY <1>1 DEF UsersInv, UsersTyped, There
<1>7. UsersTyped'
  BY <1>2, <1>3, <1>5, <1>6, TypedFrame DEF Closed, UsersTyped
<1>8. There' \subseteq There /\ \A j \in There' : users'[j] = users[j]
  BY <1>6 DEF There, NoUser
<1>9. Given'
  BY <1>2, <1>3, <1>5, <1>8, GivenFrame DEF Closed
<1>10. TownsInv'
  BY <1>2, <1>3, <1>5, <1>8, TownsFrame
<1>11. \A j \in Ids : ~OnRoles(r, j)' /\ ~OnRoles(r, j)
  BY <1>3, <1>4, <1>5 DEF OnRoles, Closed
<1>12. There \subseteq Ids
  BY DEF There
<1>13. RolesInv'
  BY <1>2, <1>5, <1>8, <1>11, <1>12, RolesFrame
<1>14. DisabledIsOut'
  BY <1>2, <1>4, <1>5, <1>8, OutFrame
<1> QED BY <1>7, <1>9, <1>10, <1>13, <1>14 DEF UsersInv

LEMMA LoginInv == ASSUME UsersInv, NEW i \in Ids, Login(i) PROVE UsersInv'
<1>1. /\ users[i].there /\ users[i].enabled /\ users' = [users EXCEPT ![i].session = TRUE]
      /\ UNCHANGED <<call, torn, muddled, spared, asked, social>>
  BY DEF Login
<1>2. users[i] \in User
  BY <1>1 DEF UsersInv, UsersTyped, NoUser
<1>3. /\ users' = [j \in Ids |-> users'[j]] /\ \A j \in Ids \ {i} : users'[j] = users[j]
      /\ users'[i] = [users[i] EXCEPT !.session = TRUE]
  BY <1>1 DEF UsersInv, UsersTyped
<1>4. /\ users'[i] \in User /\ users'[i].there = users[i].there /\ users'[i].roles = users[i].roles
      /\ users'[i].tenant = users[i].tenant /\ users'[i].enabled = users[i].enabled
  BY <1>2, <1>3 DEF User
<1>5. UsersTyped'
  BY <1>1, <1>3, <1>4 DEF UsersInv, UsersTyped, Closed, InHand
<1>6. There' = There
  BY <1>3, <1>4 DEF There
<1>7. \A j \in There : /\ users'[j].roles = users[j].roles /\ users'[j].tenant = users[j].tenant
                                 /\ users'[j].enabled = users[j].enabled
                                 /\ j # i => users'[j].session = users[j].session
  BY <1>3, <1>4 DEF There
<1>8. Given'
  BY <1>1, <1>6 DEF UsersInv, Given, Closed
<1>9. TownsInv'
  BY <1>1, <1>6, <1>7 DEF UsersInv, TownsInv, Kept, CallAt, TownIsAsked
<1>10. Singly' /\ Halfway'
  BY <1>1, <1>6, <1>7 DEF UsersInv, RolesInv, Singly, Halfway, Settled, OnRoles, Closed
<1>11. OneRole'
  BY <1>1, <1>6, <1>7 DEF UsersInv, RolesInv, OneRole, Open
<1>12. DisabledIsOut'
  BY <1>1, <1>6, <1>7 DEF UsersInv, DisabledIsOut, CallAt
<1> QED BY <1>5, <1>8, <1>9, <1>10, <1>11, <1>12 DEF UsersInv, RolesInv

-----------------------------------------------------------------------------
LEMMA KnownUser ==
  ASSUME UsersTyped, NEW i \in Ids, users[i].there
  PROVE  users[i] \in User /\ users[i].roles \in SUBSET Roles
<1>1. users[i] \in User
  BY DEF UsersTyped, NoUser
<1> QED BY <1>1 DEF User

\* The form of a request at each of its calls.
LEMMA Forms ==
  ASSUME UsersTyped, NEW r \in Callers
  PROVE  /\ call[r].step = "post" => call[r] \in Posting
         /\ call[r].step = "assign" => call[r] \in Posted \cup Changing
         /\ call[r].step \in {"readRoles", "remove"} => call[r] \in Changing
         /\ call[r].step \in {"readUser", "put", "logout"} =>
                call[r] \in Merging /\ (call[r].op = "profile" => call[r].enabled = None)
  BY DEF UsersTyped, Closed, InHand, Posting, Posted, Changing, Merging

LEMMA GotoEnd ==
  ASSUME NEW r \in Callers, NEW s \in {"done", "failed"}, CallGoto(r, s)
  PROVE  call' = [call EXCEPT ![r] = [step |-> s]] /\ Closed([step |-> s])
  BY DEF CallGoto, Closed

\* A fresh identifier is that of no request and no user.
LEMMA PostUserInv ==
  ASSUME DirectoryAssumption, UsersInv, NEW r \in Callers, PostUser(r)
  PROVE  UsersInv'
<1>1. None \notin Towns /\ None \notin Ids
  BY DEF DirectoryAssumption
<1>2. call[r].step = "post" /\ call[r] \in Posting /\ UNCHANGED <<torn, muddled, spared, social>>
  BY Forms DEF PostUser, CallAt, UsersInv
<1>3. CASE CallGoto(r, "failed") /\ UNCHANGED <<users, asked>>
  <2>1. \A i \in There : ~OnRoles(r, i)
    BY <1>2, <1>1 DEF OnRoles, Posting, There
  <2> QED BY <1>2, <1>3, <2>1, GotoEnd, EndedInv
<1>4. CASE \E i \in Fresh :
              /\ users' = [users EXCEPT ![i] = [there |-> TRUE, email |-> call[r].email, enabled |-> TRUE,
                               roles |-> {}, tenant |-> call[r].town, session |-> FALSE]]
              /\ asked' = [asked EXCEPT ![i] = call[r].town]
              /\ call' = [call EXCEPT ![r].step = "assign", ![r].id = i]
  <2>1. PICK i \in Fresh :
              /\ users' = [users EXCEPT ![i] = [there |-> TRUE, email |-> call[r].email, enabled |-> TRUE,
                               roles |-> {}, tenant |-> call[r].town, session |-> FALSE]]
              /\ asked' = [asked EXCEPT ![i] = call[r].town]
              /\ call' = [call EXCEPT ![r].step = "assign", ![r].id = i]
    BY <1>4, Zenon
  <2> DEFINE u == [there |-> TRUE, email |-> call[r].email, enabled |-> TRUE,
                   roles |-> {}, tenant |-> call[r].town, session |-> FALSE]
             q == [call[r] EXCEPT !.step = "assign", !.id = i]
  <2>2. i \in Ids /\ i \notin There /\ asked[i] = None
    BY DEF Fresh
  <2>3. /\ u \in User /\ u.there /\ u.enabled = TRUE /\ u.roles = {} /\ u.tenant = call[r].town
    BY <1>2 DEF User, TownOrNone, Posting
  <2>4. q \in Posted /\ q.step = "assign" /\ q.id = i /\ q.op \in RoleOps
    BY <1>2, <2>2 DEF Posting, Posted, RoleOps
  <2>5. call' = [call EXCEPT ![r] = q]
    BY <2>1 DEF UsersInv, UsersTyped
  <2>6. users' = [users EXCEPT ![i] = u]
    BY <2>1
  <2> HIDE DEF u, q
  <2>7. Own(r) /\ call'[r] = q /\ UsersTyped /\ Given
    BY <2>5, OwnStep DEF UsersInv
  <2>8. /\ users' = [j \in Ids |-> users'[j]] /\ users'[i] = u
        /\ \A j \in Ids \ {i} : users'[j] = users[j]
    BY <2>2, <2>6, <2>7 DEF UsersTyped
  <2>9. /\ asked' \in [Ids -> TownOrNone] /\ asked'[i] = call[r].town
        /\ \A j \in Ids \ {i} : asked'[j] = asked[j]
    BY <1>2, <2>1, <2>2, <2>7 DEF UsersTyped, TownOrNone, Posting
  <2>10. UsersTyped'
    BY <2>3, <2>4, <2>7, <2>8, <2>9, TypedFrame DEF UsersTyped, InHand
  <2>11. There' = There \cup {i} /\ There \subseteq Ids
    BY <2>2, <2>3, <2>8 DEF There
  <2>12. \A p \in Callers \ {r} : ~Closed(call[p]) => call[p].id # i
    BY <1>1, <2>2, <2>7 DEF Given
  <2>13. \A p \in Callers : ~Closed(call[p]) => call[p].id \in Ids \cup {None}
    BY <2>7 DEF UsersTyped, InHand, Posting, Posted, Changing, Merging
  <2>14. call[r].town # None
    BY <1>2, <1>1 DEF Posting
  <2>15. Given'
    BY <2>2, <2>4, <2>7, <2>9, <2>11, <2>13, <2>14 DEF Given, Own
  <2>16. TownsInv'
    <3>1. Kept'
      BY <1>2, <2>4, <2>7, <2>8, <2>11, <2>12 DEF UsersInv, TownsInv, Kept, CallAt, Own, Closed
    <3>2. TownIsAsked'
      BY <1>2, <2>2, <2>3, <2>8, <2>9, <2>11 DEF UsersInv, TownsInv, TownIsAsked
    <3> QED BY <3>1, <3>2 DEF TownsInv
  <2>17. \A p \in Callers \ {r}, j \in Ids : (OnRoles(p, j)' <=> OnRoles(p, j)) /\ ~OnRoles(p, i)
    BY <2>7, <2>12 DEF OnRoles, Closed, Own
  <2>18. \A j \in Ids : (OnRoles(r, j)' <=> j = i) /\ ~OnRoles(r, j)
    BY <1>2, <1>1, <2>4, <2>7 DEF OnRoles, Closed, Posting
  <2>19. Singly'
    BY <1>2, <2>17, <2>18 DEF UsersInv, RolesInv, Singly
  <2>20. Halfway'
    <3>1. ASSUME NEW j \in There' \ torn', NEW p \in Callers, p # r, OnRoles(p, j)'
          PROVE  /\ j \in There \ torn /\ OnRoles(p, j)
                 /\ call'[p] = call[p] /\ users'[j] = users[j]
      BY <1>2, <2>2, <2>7, <2>8, <2>11, <2>17, <3>1 DEF Own
    <3>2. ASSUME NEW j \in There', OnRoles(r, j)'
          PROVE  users'[j].roles = {} /\ call'[r].step = "assign"
      BY <2>2, <2>3, <2>4, <2>7, <2>8, <2>11, <2>18, <3>2
    <3>3. \A j \in There : j # i => (Settled(j)' <=> Settled(j))
      BY <1>2, <2>8, <2>11 DEF Settled
    <3> QED BY <2>2, <3>1, <3>2, <3>3 DEF UsersInv, RolesInv, Halfway
  <2>21. OneRole'
    <3>1. ASSUME NEW j \in There' \ torn', \A p \in Callers : ~OnRoles(p, j)'
          PROVE  Settled(j)'
      <4>1. j # i /\ j \in There \ torn /\ \A p \in Callers : ~OnRoles(p, j)
        BY <1>2, <2>2, <2>11, <2>17, <2>18, <3>1
      <4> QED BY <1>2, <2>8, <2>11, <4>1
              DEF UsersInv, RolesInv, OneRole, Settled, OneOf, OnRoles, Open, Closed
    <3> QED BY <3>1 DEF OneRole, Settled, OneOf, OnRoles, Open, Closed
  <2>22. DisabledIsOut'
    BY <1>2, <2>3, <2>7, <2>8, <2>11 DEF UsersInv, DisabledIsOut, CallAt, Own
  <2> QED BY <2>10, <2>15, <2>16, <2>19, <2>20, <2>21, <2>22 DEF UsersInv, RolesInv
<1> QED BY <1>3, <1>4 DEF PostUser

\* A call that ends a request, or its answer when the user is gone.
LEMMA CallLostInv ==
  ASSUME DirectoryAssumption, UsersInv, NEW r \in Callers, CallLost(r)
  PROVE  UsersInv'
<1> DEFINE s == IF call[r].op = "register" /\ CallAt(r, "assign") THEN "done" ELSE "failed"
<1>1. s \in {"done", "failed"} /\ CallGoto(r, s)
  BY DEF CallLost
<1>2. /\ UNCHANGED <<users, muddled, asked, social>> /\ torn \subseteq torn' /\ spared \subseteq spared'
      /\ call[r].step = "logout" => call[r].id \in spared'
  BY DEF CallLost, CallAt
<1>3. \A i \in There \ torn' : ~OnRoles(r, i)
  BY Zenon DEF CallLost, OnRoles, There, DirectoryAssumption
<1> HIDE DEF s
<1> QED BY <1>1, <1>2, <1>3, GotoEnd, EndedInv

LEMMA ReadRolesInv ==
  ASSUME UsersInv, NEW r \in Callers, NEW answered \in BOOLEAN, ReadRoles(r, answered),
         torn \subseteq torn', ~answered => call[r].id \in torn'
  PROVE  UsersInv'
<1>1. /\ call[r].step = "readRoles" /\ call[r] \in Changing
      /\ UNCHANGED <<users, muddled, spared, asked, social>>
  BY Forms DEF ReadRoles, CallAt, UsersInv
<1>2. PICK old : /\ old = IF answered /\ users[call[r].id].there THEN users[call[r].id].roles ELSE {}
                 /\ call' = [call EXCEPT ![r].old = old,
                                         ![r].step = IF old = {} THEN "assign" ELSE "remove"]
  BY Zenon DEF ReadRoles
<1> DEFINE to == IF old = {} THEN "assign" ELSE "remove"
           q == [call[r] EXCEPT !.old = old, !.step = to]
<1>3. to \in {"assign", "remove"} /\ (to = "assign" <=> old = {})
  OBVIOUS
<1>4. old \in SUBSET Roles
  <2>1. call[r].id \in Ids
    BY <1>1 DEF Changing
  <2> QED BY <1>2, <2>1, KnownUser DEF UsersInv
<1>5. call' = [call EXCEPT ![r] = q]
  BY <1>2 DEF UsersInv, UsersTyped
<1> HIDE DEF to
<1>6. q \in Changing /\ q.step = to /\ q.old = old /\ q.id = call[r].id /\ q.op = call[r].op
  BY <1>1, <1>3, <1>4 DEF Changing
<1> HIDE DEF q
<1>7. Own(r) /\ call'[r] = q /\ UsersTyped /\ Given
  BY <1>5, OwnStep DEF UsersInv
<1>8. There' = There /\ (\A i \in There' : users'[i] = users[i])
      /\ There \subseteq Ids
  BY <1>1 DEF There
<1>9. UsersTyped'
  BY <1>1, <1>6, <1>7, TypedFrame DEF UsersTyped, InHand
<1>10. Given'
  BY <1>1, <1>3, <1>6, <1>7, <1>8, GivenFrame DEF Closed
<1>11. TownsInv'
  BY <1>1, <1>3, <1>6, <1>7, <1>8, TownsFrame
<1>12. \A i \in Ids : OnRoles(r, i)' <=> OnRoles(r, i)
  BY <1>1, <1>3, <1>6, <1>7 DEF OnRoles, Closed
<1>13. ASSUME NEW i \in There \ torn', OnRoles(r, i)
       PROVE  old = users[i].roles
  <2>1. i = call[r].id /\ answered /\ i \in There \ torn
    BY <1>13 DEF OnRoles
  <2> QED BY <1>1, <1>2, <1>13, <2>1 DEF There, UsersInv, RolesInv, Halfway
<1>14. \A i \in There \ torn' : OnRoles(r, i) =>
             /\ q.step = "readRoles" => Settled(i)'
             /\ q.step = "remove" => users'[i].roles = q.old
             /\ q.step = "assign" => users'[i].roles = {}
  BY <1>3, <1>6, <1>8, <1>13
<1>15. RolesInv'
  BY <1>1, <1>7, <1>8, <1>12, <1>14, RolesWithin
<1>16. DisabledIsOut'
  BY <1>1, <1>7, <1>8, OutFrame
<1> QED BY <1>9, <1>10, <1>11, <1>15, <1>16 DEF UsersInv

\* A user with other roles, and nothing else changed.
LEMMA RolesOnly ==
  ASSUME UsersTyped, NEW i \in Ids, users[i].there, NEW roles \in SUBSET Roles,
         users' = [users EXCEPT ![i].roles = roles]
  PROVE  /\ users' = [j \in Ids |-> users'[j]] /\ There' = There
         /\ \A j \in Ids : users'[j] = NoUser \/ users'[j] \in User
         /\ \A j \in There :
               /\ users'[j].tenant = users[j].tenant /\ users'[j].enabled = users[j].enabled
               /\ users'[j].session = users[j].session
               /\ users'[j].roles = IF j = i THEN roles ELSE users[j].roles
<1>1. users[i] \in User
  BY DEF UsersTyped, NoUser
<1>2. /\ users' = [j \in Ids |-> users'[j]] /\ \A j \in Ids \ {i} : users'[j] = users[j]
      /\ users'[i] = [users[i] EXCEPT !.roles = roles]
  BY DEF UsersTyped
<1>3. /\ users'[i] \in User /\ users'[i].there = users[i].there /\ users'[i].roles = roles
      /\ users'[i].tenant = users[i].tenant /\ users'[i].enabled = users[i].enabled
      /\ users'[i].session = users[i].session
  BY <1>1, <1>2 DEF User
<1>4. There' = There
  BY <1>2, <1>3 DEF There
<1> QED BY <1>2, <1>3, <1>4 DEF UsersTyped, There

LEMMA RemoveRolesInv ==
  ASSUME UsersInv, NEW r \in Callers, NEW answered \in BOOLEAN, RemoveRoles(r, answered),
         torn \subseteq torn', ~answered => call[r].id \in torn'
  PROVE  UsersInv'
<1>1. /\ call[r].step = "remove" /\ call[r] \in Changing
      /\ UNCHANGED <<muddled, spared, asked, social>> /\ call' = [call EXCEPT ![r].step = "assign"]
  BY Forms DEF RemoveRoles, CallAt, CallGoto, UsersInv
<1> DEFINE q == [call[r] EXCEPT !.step = "assign"]
<1>2. call' = [call EXCEPT ![r] = q]
  BY <1>1 DEF UsersInv, UsersTyped
<1>3. q \in Changing /\ q.step = "assign" /\ q.id = call[r].id /\ q.op = call[r].op /\ q.id \in Ids
  BY <1>1 DEF Changing
<1> HIDE DEF q
<1>4. Own(r) /\ call'[r] = q /\ UsersTyped /\ Given
  BY <1>2, OwnStep DEF UsersInv
<1>5. /\ users' = [j \in Ids |-> users'[j]] /\ There' = There
      /\ \A j \in Ids : users'[j] = NoUser \/ users'[j] \in User
      /\ \A j \in There :
            /\ users'[j].tenant = users[j].tenant /\ users'[j].enabled = users[j].enabled
            /\ users'[j].session = users[j].session
            /\ j # q.id => users'[j].roles = users[j].roles
            /\ j = q.id /\ answered => users'[j].roles = users[j].roles \ call[r].old
  <2>1. CASE answered /\ users[q.id].there
    <3> DEFINE rest == users[q.id].roles \ call[r].old
    <3>1. rest \in SUBSET Roles
      BY <1>3, <1>4, <2>1, KnownUser
    <3>2. users' = [users EXCEPT ![q.id].roles = rest]
      BY <1>3, <1>4, <2>1 DEF RemoveRoles, UsersTyped
    <3>3. rest = users[q.id].roles \ call[r].old
      OBVIOUS
    <3> HIDE DEF rest
    <3>4. /\ users' = [j \in Ids |-> users'[j]] /\ There' = There
          /\ \A j \in Ids : users'[j] = NoUser \/ users'[j] \in User
          /\ \A j \in There :
               /\ users'[j].tenant = users[j].tenant /\ users'[j].enabled = users[j].enabled
               /\ users'[j].session = users[j].session
               /\ users'[j].roles = IF j = q.id THEN rest ELSE users[j].roles
      BY <1>3, <1>4, <2>1, <3>1, <3>2, RolesOnly
    <3> QED BY <3>3, <3>4
  <2>2. CASE ~(answered /\ users[q.id].there)
    <3>1. users' = users
      BY <1>3, <2>2 DEF RemoveRoles
    <3> QED BY <1>4, <2>2, <3>1 DEF UsersTyped, There
  <2> QED BY <2>1, <2>2
<1>6. There \subseteq Ids
  BY DEF There
<1>7. UsersTyped'
  BY <1>1, <1>3, <1>4, <1>5, TypedFrame DEF UsersTyped, InHand
<1>8. Given'
  BY <1>1, <1>3, <1>4, <1>5, GivenFrame DEF Closed
<1>9. TownsInv'
  BY <1>1, <1>3, <1>4, <1>5, TownsFrame
<1>10. \A i \in Ids : OnRoles(r, i)' <=> OnRoles(r, i)
  BY <1>1, <1>3, <1>4 DEF OnRoles, Closed
<1>11. \A i \in There : i = q.id \/ users'[i].roles = users[i].roles
  BY <1>5
<1>12. OnRoles(r, q.id)
  BY <1>1, <1>3 DEF OnRoles, Closed, Changing, RoleOps
<1>13. ASSUME NEW i \in There \ torn', OnRoles(r, i) PROVE users'[i].roles = {}
  <2>1. i = q.id /\ answered /\ i \in There \ torn
    BY <1>3, <1>13 DEF OnRoles
  <2>2. users[i].roles = call[r].old
    BY <1>1, <1>13, <2>1 DEF UsersInv, RolesInv, Halfway
  <2> QED BY <1>5, <2>1, <2>2
<1>14. RolesInv'
  BY <1>1, <1>3, <1>4, <1>5, <1>6, <1>10, <1>11, <1>12, <1>13, RolesWithin
<1>15. DisabledIsOut'
  BY <1>1, <1>4, <1>5, OutFrame
<1> QED BY <1>7, <1>8, <1>9, <1>14, <1>15 DEF UsersInv

LEMMA AssignRoleInv == ASSUME UsersInv, NEW r \in Callers, AssignRole(r) PROVE UsersInv'
<1>1. /\ call[r].step = "assign" /\ UNCHANGED <<torn, muddled, spared, asked>>
      /\ call[r].id \in Ids /\ call[r].role \in Roles /\ call[r].op \in RoleOps
  BY Forms DEF AssignRole, CallAt, UsersInv, Posted, Changing, RoleOps
<1>2. CASE ~users[call[r].id].there
  <2>1. \A i \in There : ~OnRoles(r, i)
    BY <1>2 DEF OnRoles, There
  <2>2. CallGoto(r, "failed") /\ users' = users /\ social' = social
    BY <1>2 DEF AssignRole
  <2> QED BY <1>1, <2>1, <2>2, GotoEnd, EndedInv
<1>3. CASE users[call[r].id].there
  <2> DEFINE i == call[r].id
             roles == users[i].roles \cup {call[r].role}
             q == [step |-> "done"]
  <2>1. roles \in SUBSET Roles
    BY <1>1, <1>3, KnownUser DEF UsersInv
  <2>2. users' = [users EXCEPT ![i].roles = roles] /\ CallGoto(r, "done")
       /\ social' = social \ {i}
    BY <1>1, <1>3 DEF AssignRole, UsersInv, UsersTyped
  <2>3. call' = [call EXCEPT ![r] = q] /\ Closed(q)
    BY <2>2, GotoEnd
  <2> HIDE DEF roles, q
  <2>4. Own(r) /\ call'[r] = q /\ UsersTyped /\ Given
    BY <2>3, OwnStep DEF UsersInv
  <2>5. /\ users' = [j \in Ids |-> users'[j]] /\ There' = There
        /\ \A j \in Ids : users'[j] = NoUser \/ users'[j] \in User
        /\ \A j \in There :
               /\ users'[j].tenant = users[j].tenant /\ users'[j].enabled = users[j].enabled
               /\ users'[j].session = users[j].session
               /\ users'[j].roles = IF j = i THEN roles ELSE users[j].roles
    BY <1>1, <1>3, <2>1, <2>2, <2>4, RolesOnly
  <2>6. UsersTyped'
    BY <1>1, <2>3, <2>4, <2>5, TypedFrame DEF UsersTyped
  <2>7. Given'
    BY <1>1, <2>3, <2>4, <2>5, GivenFrame
  <2>8. TownsInv'
    BY <1>1, <2>3, <2>4, <2>5, TownsFrame DEF Closed
  <2>9. OnRoles(r, i)
    BY <1>1 DEF OnRoles, Closed
  <2>10. \A j \in Ids : ~OnRoles(r, j)'
    BY <2>3, <2>4 DEF OnRoles, Closed
  <2>11. ASSUME NEW j \in There \ torn, OnRoles(r, j) PROVE Settled(j)'
    <3>1. j = i /\ users[i].roles = {}
      BY <1>1, <2>11 DEF OnRoles, UsersInv, RolesInv, Halfway
    <3>2. users'[j].roles = {call[r].role}
      BY <2>5, <2>11, <3>1 DEF roles
    <3> QED BY <1>1, <2>2, <3>1, <3>2 DEF Settled, OneOf
  <2>12. \A j \in There : ~OnRoles(r, j) =>
             users'[j].roles = users[j].roles /\ (j \in social' <=> j \in social)
    BY <2>2, <2>5, <2>9
  <2>13. RolesInv'
    BY <1>1, <2>4, <2>5, <2>10, <2>11, <2>12, RolesFrame
  <2>14. DisabledIsOut'
    BY <1>1, <2>4, <2>5, OutFrame
  <2> QED BY <2>6, <2>7, <2>8, <2>13, <2>14 DEF UsersInv
<1> QED BY <1>2, <1>3

LEMMA AssignViewerInv ==
  ASSUME DirectoryAssumption, UsersInv, NEW r \in Callers, AssignViewer(r) PROVE UsersInv'
<1> DEFINE found == {i \in There : users[i].email = call[r].email}
           q == [step |-> "done"]
<1>1. /\ call[r].step = "assign" /\ UNCHANGED <<muddled, spared, asked>>
      /\ call[r].id \in Ids /\ call[r].op \in RoleOps /\ UsersTyped /\ Given
  BY Forms DEF AssignViewer, CallAt, UsersInv, Posted, Changing, RoleOps
<1>2. /\ users' = [i \in Ids |-> IF i \in found THEN [users[i] EXCEPT !.roles = @ \cup {"viewer"}]
                               ELSE users[i]]
      /\ torn' = IF found = {call[r].id} THEN torn ELSE torn \cup found \cup {call[r].id}
      /\ social' = social \ found /\ CallGoto(r, "done")
  BY DEF AssignViewer
<1>3. call' = [call EXCEPT ![r] = q] /\ Closed(q)
  BY <1>2, GotoEnd
<1>4. found \subseteq There /\ There \subseteq Ids
  BY DEF There
<1> HIDE DEF found, q
<1>5. Own(r) /\ call'[r] = q
  BY <1>1, <1>3, OwnStep
<1>6. ASSUME NEW i \in found
      PROVE  /\ users'[i] \in User /\ users'[i].there /\ users'[i].roles = users[i].roles \cup {"viewer"}
             /\ users'[i].tenant = users[i].tenant /\ users'[i].enabled = users[i].enabled
             /\ users'[i].session = users[i].session
  <2>1. users[i] \in User
    BY <1>1, <1>4, KnownUser DEF There
  <2>2. users'[i] = [users[i] EXCEPT !.roles = users[i].roles \cup {"viewer"}]
    BY <1>2, <1>4
  <2>3. "viewer" \in Roles
    BY DEF DirectoryAssumption
  <2> QED BY <2>1, <2>2, <2>3 DEF User
<1>7. \A i \in Ids \ found : users'[i] = users[i]
  BY <1>2
<1>8. There' = There
  BY <1>4, <1>6, <1>7 DEF There
<1>9. \A i \in There : /\ users'[i].tenant = users[i].tenant /\ users'[i].enabled = users[i].enabled
                       /\ users'[i].session = users[i].session
  BY <1>4, <1>6, <1>7
<1>10. UsersTyped'
  <2>1. users' = [i \in Ids |-> users'[i]]
    BY <1>2
  <2>2. \A i \in Ids : users'[i] = NoUser \/ users'[i] \in User
    BY <1>1, <1>6, <1>7 DEF UsersTyped
  <2> QED BY <1>1, <1>3, <1>5, <2>1, <2>2, TypedFrame DEF UsersTyped
<1>11. Given'
  BY <1>1, <1>3, <1>5, <1>8, GivenFrame
<1>12. TownsInv'
  BY <1>1, <1>3, <1>5, <1>8, <1>9, TownsFrame DEF Closed
<1>13. \A i \in Ids : ~OnRoles(r, i)'
  BY <1>3, <1>5 DEF OnRoles, Closed
<1>14. \A i \in Ids : OnRoles(r, i) <=> i = call[r].id
  BY <1>1 DEF OnRoles, Closed
<1>15. torn \subseteq torn' /\ (\A i \in Ids \ torn' : i \in found <=> i = call[r].id)
  BY <1>2
<1>16. ASSUME NEW i \in There' \ torn', OnRoles(r, i) PROVE Settled(i)'
  <2>1. i \in found /\ i = call[r].id /\ i \in There \ torn
    BY <1>4, <1>8, <1>14, <1>15, <1>16
  <2>2. users[i].roles = {}
    BY <1>1, <1>16, <2>1 DEF UsersInv, RolesInv, Halfway
  <2>3. users'[i].roles = {"viewer"} /\ i \notin social' /\ "viewer" \in Roles
    BY <1>2, <1>6, <2>1, <2>2 DEF DirectoryAssumption
  <2> QED BY <2>3 DEF Settled, OneOf
<1>17. ASSUME NEW i \in There' \ torn', ~OnRoles(r, i)
       PROVE  users'[i].roles = users[i].roles /\ (i \in social' <=> i \in social)
  <2>1. i \notin found /\ i \in Ids
    BY <1>4, <1>8, <1>14, <1>15, <1>17
  <2> QED BY <1>2, <1>7, <2>1
<1>18. RolesInv'
  BY <1>5, <1>8, <1>13, <1>15, <1>16, <1>17, RolesFrame
<1>19. DisabledIsOut'
  BY <1>1, <1>5, <1>8, <1>9, OutFrame
<1> QED BY <1>10, <1>11, <1>12, <1>18, <1>19 DEF UsersInv

\* The identity provider's user is on no request and has no role.
LEMMA SsoFirstLoginInv ==
  ASSUME DirectoryAssumption, UsersInv, NEW i \in Ids, SsoFirstLogin(i) PROVE UsersInv'
<1>1. PICK e \in Emails :
         users' = [users EXCEPT ![i] = [there |-> TRUE, email |-> e, enabled |-> TRUE, roles |-> {},
                                        tenant |-> DefaultTown, session |-> TRUE]]
  BY DEF SsoFirstLogin
<1>2. /\ i \notin There /\ asked[i] = None /\ asked' = [asked EXCEPT ![i] = DefaultTown]
      /\ social' = social \cup {i} /\ UNCHANGED <<call, torn, muddled, spared>>
      /\ UsersTyped /\ Given
  BY DEF SsoFirstLogin, Fresh, UsersInv
<1>3. DefaultTown \in Towns /\ DefaultTown # None /\ None \notin Ids
  BY DEF DirectoryAssumption
<1> DEFINE u == [there |-> TRUE, email |-> e, enabled |-> TRUE, roles |-> {}, tenant |-> DefaultTown,
                 session |-> TRUE]
<1>4. u \in User /\ u.there /\ u.enabled = TRUE /\ u.roles = {} /\ u.tenant = DefaultTown
  BY <1>3 DEF User, TownOrNone
<1>5. users' = [users EXCEPT ![i] = u]
  BY <1>1
<1> HIDE DEF u
<1>6. /\ users' = [j \in Ids |-> users'[j]] /\ users'[i] = u
      /\ \A j \in Ids \ {i} : users'[j] = users[j]
  BY <1>2, <1>5 DEF UsersTyped
<1>7. /\ asked' \in [Ids -> TownOrNone] /\ asked'[i] = DefaultTown
      /\ \A j \in Ids \ {i} : asked'[j] = asked[j]
  BY <1>2, <1>3 DEF UsersTyped, TownOrNone
<1>8. UsersTyped'
  BY <1>2, <1>4, <1>6, <1>7 DEF UsersTyped, Closed, InHand
<1>9. There' = There \cup {i} /\ There \subseteq Ids
  BY <1>4, <1>6 DEF There
<1>10. \A p \in Callers : ~Closed(call[p]) => call[p].id # i
  BY <1>2, <1>3 DEF Given
<1>11. \A p \in Callers : ~Closed(call[p]) => call[p].id \in Ids \cup {None}
  BY <1>2 DEF UsersTyped, InHand, Posting, Posted, Changing, Merging
<1>12. Given'
  BY <1>2, <1>3, <1>7, <1>9, <1>10, <1>11 DEF Given, Closed
<1>13. TownsInv'
  <2>1. Kept'
    BY <1>2, <1>6, <1>9, <1>10 DEF UsersInv, TownsInv, Kept, CallAt, Closed
  <2>2. TownIsAsked'
    BY <1>2, <1>4, <1>6, <1>7, <1>9 DEF UsersInv, TownsInv, TownIsAsked
  <2> QED BY <2>1, <2>2 DEF TownsInv
<1>14. \A p \in Callers, j \in Ids : (OnRoles(p, j)' <=> OnRoles(p, j)) /\ ~OnRoles(p, i)
  BY <1>2, <1>10 DEF OnRoles, Closed
<1>15. Singly'
  BY <1>2, <1>14 DEF UsersInv, RolesInv, Singly
<1>16. \A j \in There : j # i /\ users'[j] = users[j] /\ (Settled(j)' <=> Settled(j))
  BY <1>2, <1>6, <1>9 DEF Settled
<1>17. Halfway'
  BY <1>2, <1>9, <1>14, <1>16 DEF UsersInv, RolesInv, Halfway
<1>18. ASSUME NEW j \in There' \ torn', \A p \in Callers : ~OnRoles(p, j)' PROVE Settled(j)'
  <2>1. CASE j = i
    BY <1>2, <1>4, <1>6, <2>1 DEF Settled
  <2>2. CASE j # i
    <3>1. j \in There \ torn /\ \A p \in Callers : ~OnRoles(p, j)
      BY <1>2, <1>9, <1>14, <1>18, <2>2
    <3>2. Settled(j)
      BY <3>1 DEF UsersInv, RolesInv, OneRole, Settled, OneOf, OnRoles, Open, Closed
    <3> QED BY <1>16, <3>1, <3>2
  <2> QED BY <2>1, <2>2
<1>19. OneRole'
  BY <1>18 DEF OneRole, Settled, OneOf, OnRoles, Open, Closed
<1>20. DisabledIsOut'
  BY <1>2, <1>4, <1>6, <1>9 DEF UsersInv, DisabledIsOut, CallAt
<1> QED BY <1>8, <1>12, <1>13, <1>15, <1>17, <1>19, <1>20 DEF UsersInv, RolesInv

\* Merging attributes is no operation on roles.
LEMMA NotOnRoles ==
  ASSUME UsersTyped, NEW r \in Callers, call[r].step \in {"readUser", "put", "logout"}
  PROVE  \A i \in Ids : ~OnRoles(r, i)
  BY Forms DEF OnRoles, Merging, RoleOps

LEMMA ReadUserInv ==
  ASSUME UsersInv, NEW r \in Callers, NEW answered \in BOOLEAN, ReadUser(r, answered)
  PROVE  UsersInv'
<1> DEFINE i == call[r].id
<1>1. /\ call[r].step = "readUser" /\ call[r] \in Merging /\ UsersTyped /\ Given
      /\ call[r].op = "profile" => call[r].enabled = None
      /\ UNCHANGED <<users, torn, spared, asked, social>> /\ muddled \subseteq muddled'
      /\ ~answered => i \in muddled'
      /\ \A j \in Ids : ~OnRoles(r, j)
  BY Forms, NotOnRoles DEF ReadUser, CallAt, UsersInv
<1>2. i \in Ids /\ There \subseteq Ids
  BY <1>1 DEF Merging, There
<1>3. CASE ~users[i].there
  <2>1. CallGoto(r, "failed")
    BY <1>3 DEF ReadUser
  <2> QED BY <1>1, <1>2, <2>1, GotoEnd, EndedInv
<1>4. CASE users[i].there
  <2> DEFINE kept == IF answered THEN users[i].tenant ELSE None
             q == [call[r] EXCEPT !.step = "put", !.kept = kept]
  <2>1. kept \in TownOrNone /\ (answered => kept = users[i].tenant)
    BY <1>1, <1>2, <1>4, KnownUser DEF User, TownOrNone
  <2>2. call' = [call EXCEPT ![r] = q]
    BY <1>1, <1>4 DEF ReadUser, UsersTyped
  <2> HIDE DEF kept
  <2>3. /\ q \in Merging /\ q.step = "put" /\ q.kept = kept /\ q.id = i /\ q.op = call[r].op
        /\ q.enabled = call[r].enabled
    BY <1>1, <2>1 DEF Merging
  <2> HIDE DEF q
  <2>4. Own(r) /\ call'[r] = q
    BY <1>1, <2>2, OwnStep
  <2>5. There' = There /\ \A j \in There' : users'[j] = users[j]
    BY <1>1 DEF There
  <2>6. UsersTyped'
    BY <1>1, <2>3, <2>4, TypedFrame DEF UsersTyped, InHand
  <2>7. Given'
    BY <1>1, <2>3, <2>4, <2>5, GivenFrame DEF Closed
  <2>8. TownsInv'
    <3>1. Kept'
      BY <1>1, <2>1, <2>3, <2>4, <2>5 DEF UsersInv, TownsInv, Kept, CallAt, Own
    <3>2. TownIsAsked'
      BY <1>1, <2>5 DEF UsersInv, TownsInv, TownIsAsked
    <3> QED BY <3>1, <3>2 DEF TownsInv
  <2>9. \A j \in Ids : ~OnRoles(r, j)'
    BY <2>3, <2>4, <1>1 DEF OnRoles, Merging, RoleOps
  <2>10. RolesInv'
    BY <1>1, <1>2, <2>4, <2>5, <2>9, RolesFrame
  <2>11. DisabledIsOut'
    BY <1>1, <2>4, <2>5, OutFrame
  <2> QED BY <2>6, <2>7, <2>8, <2>10, <2>11 DEF UsersInv
<1> QED BY <1>3, <1>4

LEMMA LogoutInv ==
  ASSUME UsersInv, NEW r \in Callers, NEW answered \in BOOLEAN, LogoutUser(r, answered)
  PROVE  UsersInv'
<1> DEFINE i == call[r].id
           q == [step |-> "done"]
<1>1. /\ call[r].step = "logout" /\ call[r] \in Merging /\ UsersTyped /\ Given
      /\ UNCHANGED <<torn, muddled, asked, social>>
      /\ \A j \in Ids : ~OnRoles(r, j)
  BY Forms, NotOnRoles DEF LogoutUser, CallAt, UsersInv
<1>2. i \in Ids /\ There \subseteq Ids
  BY <1>1 DEF Merging, There
<1>3. call' = [call EXCEPT ![r] = q] /\ Closed(q)
  BY GotoEnd DEF LogoutUser
<1>4. CASE ~(answered /\ users[i].there)
  <2>1. users' = users /\ spared' = IF answered THEN spared ELSE spared \cup {i}
    BY <1>4 DEF LogoutUser
  <2> HIDE DEF q
  <2>2. CASE ~answered
    BY <1>1, <1>2, <1>3, <2>1, <2>2, EndedInv
  <2>3. CASE answered /\ ~users[i].there
    <3>1. Own(r) /\ call'[r] = q
      BY <1>1, <1>3, OwnStep
    <3>2. There' = There /\ i \notin There
      BY <2>1, <2>3 DEF There
    <3>3. UsersTyped'
      BY <1>1, <1>3, <2>1, <3>1, TypedFrame DEF UsersTyped
    <3>4. Given'
      BY <1>1, <1>3, <3>1, <3>2, GivenFrame
    <3>5. TownsInv'
      BY <1>1, <1>3, <2>1, <3>1, <3>2, TownsFrame DEF Closed
    <3>6. \A j \in Ids : ~OnRoles(r, j)'
      BY <1>3, <3>1 DEF OnRoles, Closed
    <3>7. RolesInv'
      BY <1>1, <1>2, <2>1, <3>1, <3>2, <3>6, RolesFrame
    <3>8. DisabledIsOut'
      BY <1>1, <2>1, <2>3, <3>1, <3>2 DEF UsersInv, DisabledIsOut, CallAt, Own
    <3> QED BY <3>3, <3>4, <3>5, <3>7, <3>8 DEF UsersInv
  <2> QED BY <1>4, <2>2, <2>3
<1>5. CASE answered /\ users[i].there
  <2>1. users' = [users EXCEPT ![i].session = FALSE] /\ spared' = spared
    BY <1>5 DEF LogoutUser
  <2> HIDE DEF q
  <2>2. users[i] \in User
    BY <1>1, <1>2, <1>5, KnownUser
  <2> DEFINE no == FALSE
  <2>3. no \in BOOLEAN /\ ~no
    OBVIOUS
  <2>4. users' = [users EXCEPT ![i].session = no]
    BY <2>1
  <2> HIDE DEF no
  <2>5. /\ users' = [j \in Ids |-> users'[j]] /\ \A j \in Ids \ {i} : users'[j] = users[j]
        /\ users'[i] = [users[i] EXCEPT !.session = no]
    BY <1>1, <1>2, <2>4 DEF UsersTyped
  <2>6. /\ users'[i] \in User /\ users'[i].there = users[i].there /\ users'[i].roles = users[i].roles
        /\ users'[i].tenant = users[i].tenant /\ users'[i].enabled = users[i].enabled
        /\ users'[i].session = no
    BY <2>2, <2>3, <2>5 DEF User
  <2>7. Own(r) /\ call'[r] = q
    BY <1>1, <1>3, OwnStep
  <2>8. UsersTyped'
    BY <1>1, <1>3, <2>5, <2>6, <2>7, TypedFrame DEF UsersTyped
  <2>9. There' = There
    BY <2>5, <2>6 DEF There
  <2>10. \A j \in There :
            /\ users'[j].roles = users[j].roles /\ users'[j].tenant = users[j].tenant
            /\ users'[j].enabled = users[j].enabled
            /\ j # i => users'[j].session = users[j].session
            /\ j = i => ~users'[j].session
    BY <1>2, <2>3, <2>5, <2>6
  <2>11. Given'
    BY <1>1, <1>3, <2>7, <2>9, GivenFrame
  <2>12. TownsInv'
    BY <1>1, <1>3, <2>7, <2>9, <2>10, TownsFrame DEF Closed
  <2>13. \A j \in Ids : ~OnRoles(r, j)'
    BY <1>3, <2>7 DEF OnRoles, Closed
  <2>14. RolesInv'
    BY <1>1, <1>2, <2>7, <2>9, <2>10, <2>13, RolesFrame
  <2>15. DisabledIsOut'
    <3>1. ASSUME NEW j \in There \ spared, ~users'[j].enabled, users'[j].session
          PROVE  \E p \in Callers : CallAt(p, "logout")' /\ call'[p].id = j
      <4>1. j # i /\ ~users[j].enabled /\ users[j].session
        BY <2>10, <3>1
      <4>2. PICK p \in Callers : CallAt(p, "logout") /\ call[p].id = j
        BY <3>1, <4>1 DEF UsersInv, DisabledIsOut
      <4>3. p # r
        BY <4>1, <4>2
      <4> QED BY <2>7, <4>2, <4>3 DEF CallAt, Own
    <3> QED BY <2>1, <2>9, <3>1 DEF DisabledIsOut
  <2> QED BY <2>8, <2>11, <2>12, <2>14, <2>15 DEF UsersInv
<1> QED BY <1>4, <1>5

LEMMA PutUserInv ==
  ASSUME DirectoryAssumption, UsersInv, NEW r \in Callers, PutUser(r)
  PROVE  UsersInv'
<1> DEFINE i == call[r].id
           town == IF call[r].town # None THEN call[r].town ELSE call[r].kept
           disables == call[r].enabled = "off"
<1>1. /\ call[r].step = "put" /\ call[r] \in Merging /\ UsersTyped /\ Given
      /\ call[r].op = "profile" => call[r].enabled = None
      /\ torn' = torn /\ social' = social
      /\ \A j \in Ids : ~OnRoles(r, j)
  BY Forms, NotOnRoles DEF PutUser, CallAt, UsersInv
<1>2. i \in Ids /\ There \subseteq Ids
  BY <1>1 DEF Merging, There
<1>3. CASE ~users[i].there \/ Taken(i, call[r].email)
  <2>1. CallGoto(r, "failed") /\ UNCHANGED <<users, muddled, spared, asked>>
    BY <1>3 DEF PutUser
  <2> QED BY <1>1, <1>2, <2>1, GotoEnd, EndedInv
<1>4. CASE users[i].there /\ ~Taken(i, call[r].email)
  <2> DEFINE next == IF disables /\ call[r].op = "toggle" THEN "logout" ELSE "done"
             tenant == IF town # None \/ call[r].dept THEN town ELSE users[i].tenant
             enabled == IF call[r].enabled = None THEN users[i].enabled ELSE ~disables
             email == IF call[r].email = None THEN users[i].email ELSE call[r].email
  <2>1. /\ users' = [users EXCEPT ![i].email = email, ![i].tenant = tenant, ![i].enabled = enabled]
        /\ asked' = IF call[r].town # None THEN [asked EXCEPT ![i] = call[r].town] ELSE asked
        /\ muddled' = IF \E q \in Callers \ {r} : CallAt(q, "put") /\ call[q].id = i
                      THEN muddled \cup {i} ELSE muddled
        /\ spared' = IF disables /\ call[r].op = "update" THEN spared \cup {i} ELSE spared
        /\ CallGoto(r, next)
    BY <1>1, <1>2, <1>4 DEF PutUser, UsersTyped
  <2>2. /\ users[i] \in User /\ users[i].enabled \in BOOLEAN /\ users[i].tenant \in TownOrNone
        /\ users[i].email \in Emails
    BY <1>1, <1>2, <1>4, KnownUser DEF User
  <2>3. tenant \in TownOrNone /\ email \in Emails
    BY <1>1, <2>2 DEF Merging
  <2>4. enabled \in BOOLEAN
    BY <2>2, Zenon
  <2>5. ~enabled => disables \/ ~users[i].enabled
    BY <2>2, Zenon
  <2>6. next = "done" => ~disables \/ call[r].op = "update"
    <3>1. disables => call[r].op \in {"update", "toggle"}
      BY <1>1 DEF Merging, None
    <3> QED BY <3>1
  <2>7. next \in {"done", "logout"}
    OBVIOUS
  <2>9. call' = [call EXCEPT ![r] = IF next = "done" THEN [step |-> "done"] ELSE [call[r] EXCEPT !.step = "logout"]]
    BY <1>1, <2>1, <2>7 DEF CallGoto, UsersTyped
  <2>10. users' = [users EXCEPT ![i] = [users[i] EXCEPT !.email = email, !.tenant = tenant, !.enabled = enabled]]
    BY <1>1, <1>2, <2>1 DEF UsersTyped
  <2> HIDE DEF next, enabled, tenant, email
  <2> DEFINE q == IF next = "done" THEN [step |-> "done"] ELSE [call[r] EXCEPT !.step = "logout"]
  <2>11. /\ Closed(q) \/ InHand(q)
         /\ q.step = next
         /\ next = "logout" => q.id = i /\ q.op = call[r].op /\ q.op \notin RoleOps
    BY <1>1, <2>7 DEF Closed, InHand, Merging, RoleOps
  <2> HIDE DEF q
  <2>12. Own(r) /\ call'[r] = q
    BY <1>1, <2>9, OwnStep DEF q
  <2>13. /\ users' = [j \in Ids |-> users'[j]] /\ \A j \in Ids \ {i} : users'[j] = users[j]
         /\ users'[i] = [users[i] EXCEPT !.email = email, !.tenant = tenant, !.enabled = enabled]
    BY <1>1, <1>2, <2>10 DEF UsersTyped
  <2>14. /\ users'[i] \in User /\ users'[i].there = users[i].there /\ users'[i].roles = users[i].roles
         /\ users'[i].tenant = tenant /\ users'[i].enabled = enabled
         /\ users'[i].session = users[i].session
    <3> DEFINE before == users[i]
               after == [before EXCEPT !.email = email, !.tenant = tenant, !.enabled = enabled]
    <3>1. before \in User
      BY <2>2
    <3> HIDE DEF before
    <3>2. /\ after \in User /\ after.there = before.there /\ after.roles = before.roles
          /\ after.tenant = tenant /\ after.enabled = enabled /\ after.session = before.session
      BY <2>3, <2>4, <3>1 DEF User
    <3>3. users'[i] = after
      BY <2>13 DEF before
    <3> HIDE DEF after
    <3> QED BY <3>2, <3>3 DEF before
  <2>15. There' = There /\ i \in There
    BY <1>2, <1>4, <2>13, <2>14 DEF There
  <2>16. /\ asked' \in [Ids -> TownOrNone] /\ \A j \in Ids \ {i} : asked'[j] = asked[j]
         /\ asked'[i] = IF call[r].town # None THEN call[r].town ELSE asked[i]
    BY <1>1, <1>2, <2>1 DEF UsersTyped, Merging
  <2>17. UsersTyped'
    BY <1>1, <2>11, <2>12, <2>13, <2>14, <2>16, TypedFrame DEF UsersTyped
  <2>18. Given'
    <3>1. asked[i] # None /\ asked'[i] # None
      BY <2>15, <2>16, <1>1 DEF Given
    <3>2. \A j \in Ids : asked[j] # None => asked'[j] # None
      BY <2>16, <3>1
    <3>3. \A p \in Callers : ~Closed(call[p]) => call[p].id \in Ids \cup {None}
      BY <1>1 DEF UsersTyped, InHand, Posting, Posted, Changing, Merging
    <3>4. \A p \in Callers \ {r} : ~Closed(call[p]) /\ call[p].id # None => asked'[call[p].id] # None
      BY <1>1, <3>2, <3>3 DEF Given
    <3>5. ~Closed(q) => q.id = i
      BY <2>7, <2>11 DEF Closed
    <3> QED BY <1>1, <1>2, <2>12, <2>15, <3>1, <3>2, <3>4, <3>5 DEF Given, Own
  <2>19. \A j \in There \ {i} : users'[j] = users[j] /\ asked'[j] = asked[j]
    BY <1>2, <2>13, <2>16
  <2>20. TownsInv'
    <3>1. muddled \subseteq muddled' /\ \A p \in Callers \ {r} : call[p].step = "put" /\ call[p].id = i => i \in muddled'
      BY <2>1 DEF CallAt
    <3>2. Kept'
      BY <2>7, <2>11, <2>12, <2>15, <2>19, <3>1 DEF UsersInv, TownsInv, Kept, CallAt, Own
    <3>3. ASSUME i \notin muddled PROVE tenant = asked'[i]
      <4>1. users[i].tenant = asked[i] /\ call[r].kept = users[i].tenant
        BY <1>1, <2>15, <3>3 DEF UsersInv, TownsInv, Kept, CallAt, TownIsAsked
      <4> QED BY <2>16, <4>1 DEF tenant
    <3>4. TownIsAsked'
      BY <2>14, <2>15, <2>19, <3>1, <3>3 DEF UsersInv, TownsInv, TownIsAsked
    <3> QED BY <3>2, <3>4 DEF TownsInv
  <2>21. \A j \in Ids : ~OnRoles(r, j)'
    BY <2>7, <2>11, <2>12 DEF OnRoles, Closed
  <2>22. RolesInv'
    BY <1>1, <1>2, <2>12, <2>14, <2>15, <2>19, <2>21, RolesFrame
  <2>23. DisabledIsOut'
    <3>1. spared \subseteq spared' /\ (disables /\ call[r].op = "update" => i \in spared')
      BY <2>1
    <3>2. ASSUME i \notin spared', ~enabled, users[i].session
          PROVE  \E p \in Callers : CallAt(p, "logout")' /\ call'[p].id = i
      <4>1. CASE disables
        BY <2>6, <2>7, <2>11, <2>12, <3>1, <3>2, <4>1 DEF CallAt
      <4>2. CASE ~disables
        <5>1. ~users[i].enabled
          BY <2>5, <3>2, <4>2
        <5>2. PICK p \in Callers : CallAt(p, "logout") /\ call[p].id = i
          BY <2>15, <3>1, <3>2, <5>1 DEF UsersInv, DisabledIsOut
        <5>3. p # r
          BY <1>1, <5>2 DEF CallAt
        <5> QED BY <2>12, <5>2, <5>3 DEF CallAt, Own
      <4> QED BY <4>1, <4>2
    <3>3. ASSUME NEW j \in There \ {i}, j \notin spared', ~users[j].enabled, users[j].session
          PROVE  \E p \in Callers : CallAt(p, "logout")' /\ call'[p].id = j
      <4>1. PICK p \in Callers : CallAt(p, "logout") /\ call[p].id = j
        BY <3>1, <3>3 DEF UsersInv, DisabledIsOut
      <4>2. p # r
        BY <1>1, <4>1 DEF CallAt
      <4> QED BY <2>12, <4>1, <4>2 DEF CallAt, Own
    <3> QED BY <2>14, <2>15, <2>19, <3>2, <3>3 DEF DisabledIsOut
  <2> QED BY <2>17, <2>18, <2>20, <2>22, <2>23 DEF UsersInv
<1> QED BY <1>3, <1>4

LEMMA UsersStep ==
  ASSUME DirectoryAssumption, UsersInv, UsersNext PROVE UsersInv'
<1>1. TRUE \in BOOLEAN /\ FALSE \in BOOLEAN
  OBVIOUS
<1>2. ASSUME NEW r \in Callers,
             \/ CreateUser(r) \/ Register(r) \/ ChangeUserRole(r)
             \/ UpdateUser(r) \/ UpdateMyProfile(r)
             \/ ToggleUserStatus(r) \/ DeleteUser(r)
      PROVE  UsersInv'
  BY <1>2, PostRequestInv, MergeRequestInv, ChangeRoleInv, DeleteUserInv
<1>3. ASSUME NEW r \in Callers,
             \/ PostUser(r) \/ AssignRole(r) \/ AssignViewer(r) \/ PutUser(r)
             \/ CallLost(r)
      PROVE  UsersInv'
  BY <1>3, PostUserInv, AssignRoleInv, AssignViewerInv, PutUserInv, CallLostInv
<1>4. ASSUME NEW r \in Callers, NEW answered \in BOOLEAN,
             ReadRoles(r, answered) \/ RemoveRoles(r, answered),
             torn \subseteq torn', ~answered => call[r].id \in torn'
      PROVE  UsersInv'
  BY <1>4, ReadRolesInv, RemoveRolesInv
<1>5. ASSUME NEW r \in Callers, NEW answered \in BOOLEAN,
             ReadUser(r, answered) \/ LogoutUser(r, answered)
      PROVE  UsersInv'
  BY <1>5, ReadUserInv, LogoutInv
<1>6. ASSUME NEW r \in Callers, CallRefused(r) PROVE UsersInv'
  BY <1>1, <1>4, <1>5, <1>6 DEF CallRefused
<1>7. ASSUME NEW r \in Callers,
             \/ (ReadRoles(r, TRUE) \/ RemoveRoles(r, TRUE)) /\ UNCHANGED torn
             \/ ReadUser(r, TRUE) \/ LogoutUser(r, TRUE)
      PROVE  UsersInv'
  BY <1>1, <1>4, <1>5, <1>7
<1> QED BY <1>2, <1>3, <1>6, <1>7, LoginInv, SsoFirstLoginInv DEF UsersNext

LEMMA UsersInvariant == ASSUME DirectoryAssumption PROVE UsersSpec => []UsersInv
<1>1. UsersInv /\ UNCHANGED userVars => UsersInv'
  <2> SUFFICES ASSUME UsersInv, UNCHANGED userVars PROVE UsersInv'
    OBVIOUS
  <2>1. UNCHANGED <<users, call, torn, muddled, spared, asked, social>>
    BY DEF userVars
  <2>2. UsersTyped' /\ Given'
    BY <2>1 DEF UsersInv, UsersTyped, Given, Closed, InHand, There
  <2>3. TownsInv' /\ DisabledIsOut'
    BY <2>1 DEF UsersInv, TownsInv, Kept, TownIsAsked, DisabledIsOut, CallAt,
                There
  <2>4. Singly' /\ Halfway' /\ OneRole'
    BY <2>1 DEF UsersInv, RolesInv, Singly, Halfway, Settled, OnRoles, Closed, OneOf, OneRole,
                Open, There
  <2> QED BY <2>2, <2>3, <2>4 DEF UsersInv, RolesInv
<1>2. UsersInv /\ [UsersNext]_userVars => UsersInv'
  BY <1>1, UsersStep
<1>3. UsersInit => UsersInv
  BY UsersInitInv
<1> QED BY <1>2, <1>3, PTL DEF UsersSpec

-----------------------------------------------------------------------------
\* For any users, callers, roles and lost or refused calls, and for any municipalities and editors:
\* what was asked for last is what is in force. A user at rest has one role, or none if single
\* sign-on made it and none was given, belongs to the tenant asked for and, once disabled, has no
\* session, unless a call was lost or refused or another change met it between its calls (users.py,
\* auth.py, keycloak_admin.py). A report takes what the last change of its municipality's presets
\* says, or after an end what that of 5208707 or of the first municipality with a preset says,
\* unless requests for one municipality overlapped (api/v1/reports.py).
THEOREM LastWordsStand ==
  ASSUME DirectoryAssumption PROVE UsersSpec /\ PresetsSpec => []LastWordStands
<1>1. UsersInv => UsersAsAsked
  BY DEF UsersInv, TownsInv, RolesInv, UsersAsAsked
<1>2. UsersInv /\ FollowInv => LastWordStands
  BY <1>1, FollowImplies DEF LastWordStands
<1> QED BY <1>2, UsersInvariant, InitFollow, NextFollow, PTL DEF PresetsSpec

-----------------------------------------------------------------------------
(* The public schema through its upgrades (SchemaUpgrades).  Every statement of a revision or    *)
(* a script lets a schema grow; a stage says what the schema holds by a revision, and each       *)
(* revision leads to the next.                                                                   *)

\* A schema has the tables of a shape, with what they need; and gives nothing else to those it has.
Holds(s, shapes) == \A t \in DOMAIN shapes : Exists(s, t) /\ shapes[t] \subseteq s[t]
Agrees(s, shapes) == \A t \in DOMAIN shapes : Exists(s, t) => shapes[t] \subseteq s[t]

\* No table and no feature goes, but a type; a shape without that type.
Grows(s, s2) == \A t \in DOMAIN s : Exists(s2, t) /\ s[t] \ {"user_id uuid"} \subseteq s2[t]
Plain(shapes) ==
    /\ shapes = [t \in DOMAIN shapes |-> shapes[t]]
    /\ \A t \in DOMAIN shapes : IsFiniteSet(shapes[t]) /\ "user_id uuid" \notin shapes[t]
Shape(s) == s = [t \in DOMAIN s |-> s[t]] /\ \A t \in DOMAIN s : IsFiniteSet(s[t])

\* CREATE TABLE IF NOT EXISTS and ADD COLUMN IF NOT EXISTS.
LEMMA Created ==
    ASSUME NEW s, NEW x
    PROVE  /\ DOMAIN CreateMissing(s, x) = DOMAIN s \cup DOMAIN x
           /\ \A t \in DOMAIN s : CreateMissing(s, x)[t] = s[t]
           /\ \A t \in DOMAIN x \ DOMAIN s : CreateMissing(s, x)[t] = x[t]
           /\ Grows(s, CreateMissing(s, x))
           /\ Shape(s) /\ Shape(x) => Shape(CreateMissing(s, x))
<1>1. /\ DOMAIN CreateMissing(s, x) = DOMAIN s \cup DOMAIN x
      /\ \A t \in DOMAIN s : CreateMissing(s, x)[t] = s[t]
      /\ \A t \in DOMAIN x \ DOMAIN s : CreateMissing(s, x)[t] = x[t]
      /\ CreateMissing(s, x) = [t \in DOMAIN CreateMissing(s, x) |-> CreateMissing(s, x)[t]]
  BY DEF CreateMissing, Exists
<1>2. Grows(s, CreateMissing(s, x))
  BY <1>1 DEF Grows, Exists
<1>3. ASSUME Shape(s), Shape(x) PROVE Shape(CreateMissing(s, x))
  BY <1>1, <1>3 DEF Shape
<1> QED BY <1>1, <1>2, <1>3

\* ADD COLUMN IF NOT EXISTS.
LEMMA Added ==
    ASSUME NEW s, NEW t, NEW cols, Shape(s)
    PROVE  /\ DOMAIN AddColumns(s, t, cols) = DOMAIN s
           /\ \A u \in DOMAIN s : u # t => AddColumns(s, t, cols)[u] = s[u]
           /\ t \in DOMAIN s => AddColumns(s, t, cols)[t] = s[t] \cup cols
           /\ Grows(s, AddColumns(s, t, cols))
           /\ IsFiniteSet(cols) => Shape(AddColumns(s, t, cols))
<1>1. /\ DOMAIN AddColumns(s, t, cols) = DOMAIN s
      /\ \A u \in DOMAIN s : u # t => AddColumns(s, t, cols)[u] = s[u]
      /\ t \in DOMAIN s => AddColumns(s, t, cols)[t] = s[t] \cup cols
      /\ AddColumns(s, t, cols) = [u \in DOMAIN AddColumns(s, t, cols) |-> AddColumns(s, t, cols)[u]]
  BY DEF AddColumns, Shape
<1>2. Grows(s, AddColumns(s, t, cols))
  BY <1>1 DEF Grows, Exists
<1>3. ASSUME IsFiniteSet(cols) PROVE Shape(AddColumns(s, t, cols))
  <2>1. t \in DOMAIN s => IsFiniteSet(s[t] \cup cols)
    BY <1>3, FS_Union DEF Shape
  <2> QED BY <1>1, <1>3, <2>1 DEF Shape
<1> QED BY <1>1, <1>2, <1>3

\* What a schema holds it holds when it grows; a table created from a shape holds it.
LEMMA HoldsStill ==
    ASSUME NEW s, NEW s2, NEW x, Holds(s, x), Grows(s, s2), Plain(x) PROVE Holds(s2, x)
BY DEF Holds, Grows, Plain, Exists

\* Growing twice is growing.
LEMMA GrowsOn ==
    ASSUME NEW s, NEW s2, NEW s3, Grows(s, s2), Grows(s2, s3) PROVE Grows(s, s3)
BY DEF Grows, Exists

\* CREATE TABLE IF NOT EXISTS makes a schema that agrees with a source hold it.
LEMMA Filled ==
    ASSUME NEW s, NEW x, Agrees(s, x) PROVE Holds(CreateMissing(s, x), x)
<1> SUFFICES ASSUME NEW t \in DOMAIN x
             PROVE  t \in DOMAIN CreateMissing(s, x) /\ x[t] \subseteq CreateMissing(s, x)[t]
  BY DEF Holds, Exists
<1>0. /\ t \in DOMAIN CreateMissing(s, x)
      /\ t \in DOMAIN s => CreateMissing(s, x)[t] = s[t]
      /\ t \notin DOMAIN s => CreateMissing(s, x)[t] = x[t]
  <2>1. /\ DOMAIN CreateMissing(s, x) = DOMAIN s \cup DOMAIN x
        /\ \A u \in DOMAIN s : CreateMissing(s, x)[u] = s[u]
        /\ \A u \in DOMAIN x \ DOMAIN s : CreateMissing(s, x)[u] = x[u]
    BY Created
  <2> QED BY <2>1
<1>1. CASE t \in DOMAIN s
  BY <1>0, <1>1 DEF Agrees, Exists
<1>2. CASE t \notin DOMAIN s
  BY <1>0, <1>2
<1> QED BY <1>1, <1>2

\* A schema that gets no table of a source but with what it needs still agrees with it.
LEMMA AgreesStill ==
    ASSUME NEW s, NEW s2, NEW x, Agrees(s, x), Grows(s, s2), Plain(x),
           \A t \in DOMAIN x : Exists(s2, t) => Exists(s, t) \/ x[t] \subseteq s2[t]
    PROVE  Agrees(s2, x)
BY DEF Agrees, Grows, Plain, Exists

\* ... in particular when it gets the tables of another source.
LEMMA AgreesFilled ==
    ASSUME NEW s, NEW x, NEW y, Agrees(s, x), Agrees(y, x), Plain(x)
    PROVE  Agrees(CreateMissing(s, y), x)
<1> SUFFICES ASSUME NEW t \in DOMAIN x, t \in DOMAIN CreateMissing(s, y)
             PROVE  x[t] \subseteq CreateMissing(s, y)[t]
  BY DEF Agrees, Exists
<1>0. /\ t \in DOMAIN s \/ t \in DOMAIN y \ DOMAIN s
      /\ t \in DOMAIN s => CreateMissing(s, y)[t] = s[t]
      /\ t \in DOMAIN y \ DOMAIN s => CreateMissing(s, y)[t] = y[t]
  <2>1. /\ DOMAIN CreateMissing(s, y) = DOMAIN s \cup DOMAIN y
        /\ \A u \in DOMAIN s : CreateMissing(s, y)[u] = s[u]
        /\ \A u \in DOMAIN y \ DOMAIN s : CreateMissing(s, y)[u] = y[u]
    BY Created
  <2> QED BY <2>1
<1>1. CASE t \in DOMAIN s
  BY <1>0, <1>1 DEF Agrees, Exists
<1>2. CASE t \notin DOMAIN s
  BY <1>0, <1>2 DEF Agrees, Exists
<1> QED BY <1>1, <1>2

-----------------------------------------------------------------------------
\* The shapes of the sources.
UsageErrors == [usage_error_logs |-> {}]
Certificates == [audit_certificates |-> {}]
Sources == {Accounts001, Flights001, Reports001, Uploads002, Notifications003, Presets004,
            Fiscal005, Rules005, Metrology005, UsageErrors, Certificates}

\* Their tables, and what each needs.
LEMMA SourceTables ==
    /\ DOMAIN Accounts001 = {"tenants", "subscriptions", "projects"}
    /\ DOMAIN Flights001 = {"flights", "processing_jobs", "flight_assets"}
    /\ DOMAIN Reports001 = {"reports", "report_sections"}
    /\ DOMAIN Uploads002 = {"uploads", "activity_logs"}
    /\ DOMAIN Notifications003 = {"notifications"}
    /\ DOMAIN Presets004 = {"report_config_presets"}
    /\ DOMAIN Fiscal005 = {"parcels", "ai_detections", "analysis_runs", "discrepancies"}
    /\ DOMAIN Rules005 = {"iptu_rule_sets", "iptu_rules", "measurements"}
    /\ DOMAIN Metrology005 = {"ai_measurement_runs", "ai_building_measurements", "ai_terrain_measurements"}
    /\ DOMAIN UsageErrors = {"usage_error_logs"}
    /\ DOMAIN Certificates = {"audit_certificates"}
<1>1. DOMAIN Accounts001 = {"tenants", "subscriptions", "projects"}
  BY DEF Accounts001
<1>2. DOMAIN Flights001 = {"flights", "processing_jobs", "flight_assets"}
  BY DEF Flights001
<1>3. DOMAIN Reports001 = {"reports", "report_sections"}
  BY DEF Reports001
<1>4. DOMAIN Uploads002 = {"uploads", "activity_logs"}
  BY DEF Uploads002
<1>5. DOMAIN Notifications003 = {"notifications"}
  BY DEF Notifications003
<1>6. DOMAIN Presets004 = {"report_config_presets"}
  BY DEF Presets004
<1>7. DOMAIN Fiscal005 = {"parcels", "ai_detections", "analysis_runs", "discrepancies"}
  BY DEF Fiscal005
<1>8. DOMAIN Rules005 = {"iptu_rule_sets", "iptu_rules", "measurements"}
  BY DEF Rules005
<1>9. DOMAIN Metrology005 = {"ai_measurement_runs", "ai_building_measurements", "ai_terrain_measurements"}
  BY DEF Metrology005
<1>10. DOMAIN UsageErrors = {"usage_error_logs"}
  BY DEF UsageErrors
<1>11. DOMAIN Certificates = {"audit_certificates"}
  BY DEF Certificates
<1> QED BY <1>1, <1>2, <1>3, <1>4, <1>5, <1>6, <1>7, <1>8, <1>9, <1>10, <1>11

\* A set of at most seven.
LEMMA SmallIsFinite ==
    /\ IsFiniteSet({}) /\ \A a, b, c, d, e, f, g : IsFiniteSet({a, b, c, d, e, f, g})
<1>1. IsFiniteSet({})
  BY FS_EmptySet
<1>2. ASSUME NEW a, NEW b, NEW c, NEW d, NEW e, NEW f, NEW g PROVE IsFiniteSet({a, b, c, d, e, f, g})
  <2>1. /\ IsFiniteSet({} \cup {a}) /\ IsFiniteSet(({} \cup {a}) \cup {b})
        /\ IsFiniteSet((({} \cup {a}) \cup {b}) \cup {c})
    BY <1>1, FS_AddElement
  <2>2. IsFiniteSet(((({} \cup {a}) \cup {b}) \cup {c}) \cup {d})
    BY <2>1, FS_AddElement
  <2>3. IsFiniteSet((((({} \cup {a}) \cup {b}) \cup {c}) \cup {d}) \cup {e})
    BY <2>2, FS_AddElement
  <2>4. IsFiniteSet(((((({} \cup {a}) \cup {b}) \cup {c}) \cup {d}) \cup {e}) \cup {f})
    BY <2>3, FS_AddElement
  <2>5. IsFiniteSet((((((({} \cup {a}) \cup {b}) \cup {c}) \cup {d}) \cup {e}) \cup {f}) \cup {g})
    BY <2>4, FS_AddElement
  <2>6. (((((({} \cup {a}) \cup {b}) \cup {c}) \cup {d}) \cup {e}) \cup {f}) \cup {g} = {a, b, c, d, e, f, g}
    OBVIOUS
  <2> QED BY <2>5, <2>6
<1> QED BY <1>1, <1>2

\* A set of at most six.
LEMMA SmallerIsFinite ==
    ASSUME NEW a, NEW b, NEW c, NEW d, NEW e, NEW f
    PROVE  /\ IsFiniteSet({a}) /\ IsFiniteSet({a, b}) /\ IsFiniteSet({a, b, c})
           /\ IsFiniteSet({a, b, c, d}) /\ IsFiniteSet({a, b, c, d, e, f})
<1>1. /\ {a} = {a, a, a, a, a, a, a} /\ {a, b} = {a, b, a, a, a, a, a}
      /\ {a, b, c} = {a, b, c, a, a, a, a} /\ {a, b, c, d} = {a, b, c, d, a, a, a}
      /\ {a, b, c, d, e, f} = {a, b, c, d, e, f, a}
  OBVIOUS
<1>2. /\ IsFiniteSet({a, a, a, a, a, a, a}) /\ IsFiniteSet({a, b, a, a, a, a, a})
      /\ IsFiniteSet({a, b, c, a, a, a, a}) /\ IsFiniteSet({a, b, c, d, a, a, a})
      /\ IsFiniteSet({a, b, c, d, e, f, a})
  BY SmallIsFinite, Zenon
<1> QED BY <1>1, <1>2

\* Each source is plain: finite shapes, no column of the wrong type.
LEMMA SourcesPlain == \A x \in Sources : Plain(x) /\ Shape(x)
<1>1. Plain(Accounts001)
  <2>1. Accounts001 = [t \in DOMAIN Accounts001 |-> Accounts001[t]]
    BY DEF Accounts001
  <2>2. ASSUME NEW t \in DOMAIN Accounts001 PROVE IsFiniteSet(Accounts001[t]) /\ "user_id uuid" \notin Accounts001[t]
    <3>1. IsFiniteSet({"created_by"}) /\ IsFiniteSet({})
      BY SmallIsFinite, SmallerIsFinite, Zenon
    <3>2. t \in {"tenants", "subscriptions", "projects"}
      BY SourceTables
    <3>3. Accounts001["tenants"] = {} /\ Accounts001["subscriptions"] = {} /\ Accounts001["projects"] = {"created_by"}
      BY DEF Accounts001
    <3>4. "user_id uuid" \notin {"created_by"} /\ "user_id uuid" \notin {}
      OBVIOUS
    <3> QED BY <3>1, <3>2, <3>3, <3>4, Zenon
  <2> QED BY <2>1, <2>2 DEF Plain
<1>2. Plain(Flights001)
  <2>1. Flights001 = [t \in DOMAIN Flights001 |-> Flights001[t]]
    BY DEF Flights001
  <2>2. ASSUME NEW t \in DOMAIN Flights001 PROVE IsFiniteSet(Flights001[t]) /\ "user_id uuid" \notin Flights001[t]
    <3>1. IsFiniteSet({})
      BY SmallIsFinite, SmallerIsFinite, Zenon
    <3>2. t \in {"flights", "processing_jobs", "flight_assets"}
      BY SourceTables
    <3>3. Flights001["flights"] = {} /\ Flights001["processing_jobs"] = {} /\ Flights001["flight_assets"] = {}
      BY DEF Flights001
    <3>4. "user_id uuid" \notin {}
      OBVIOUS
    <3> QED BY <3>1, <3>2, <3>3, <3>4, Zenon
  <2> QED BY <2>1, <2>2 DEF Plain
<1>3. Plain(Reports001)
  <2>1. Reports001 = [t \in DOMAIN Reports001 |-> Reports001[t]]
    BY DEF Reports001
  <2>2. ASSUME NEW t \in DOMAIN Reports001 PROVE IsFiniteSet(Reports001[t]) /\ "user_id uuid" \notin Reports001[t]
    <3>1. IsFiniteSet({"order", "content"}) /\ IsFiniteSet({"status", "output_format", "config", "file_key", "requested_by", "celery_task_id", "error_message"})
      BY SmallIsFinite, SmallerIsFinite, Zenon
    <3>2. t \in {"reports", "report_sections"}
      BY SourceTables
    <3>3. Reports001["reports"] = {"status", "output_format", "config", "file_key", "requested_by", "celery_task_id", "error_message"} /\ Reports001["report_sections"] = {"order", "content"}
      BY DEF Reports001
    <3>4. "user_id uuid" \notin {"order", "content"} /\ "user_id uuid" \notin {"status", "output_format", "config", "file_key", "requested_by", "celery_task_id", "error_message"}
      OBVIOUS
    <3> QED BY <3>1, <3>2, <3>3, <3>4, Zenon
  <2> QED BY <2>1, <2>2 DEF Plain
<1>4. Plain(Uploads002)
  <2>1. Uploads002 = [t \in DOMAIN Uploads002 |-> Uploads002[t]]
    BY DEF Uploads002
  <2>2. ASSUME NEW t \in DOMAIN Uploads002 PROVE IsFiniteSet(Uploads002[t]) /\ "user_id uuid" \notin Uploads002[t]
    <3>1. IsFiniteSet({"processing_job_id", "uploaded_by"}) /\ IsFiniteSet({"user_id", "entity_id"})
      BY SmallIsFinite, SmallerIsFinite, Zenon
    <3>2. t \in {"uploads", "activity_logs"}
      BY SourceTables
    <3>3. Uploads002["uploads"] = {"processing_job_id", "uploaded_by"} /\ Uploads002["activity_logs"] = {"user_id", "entity_id"}
      BY DEF Uploads002
    <3>4. "user_id uuid" \notin {"processing_job_id", "uploaded_by"} /\ "user_id uuid" \notin {"user_id", "entity_id"}
      OBVIOUS
    <3> QED BY <3>1, <3>2, <3>3, <3>4, Zenon
  <2> QED BY <2>1, <2>2 DEF Plain
<1>5. Plain(Notifications003)
  <2>1. Notifications003 = [t \in DOMAIN Notifications003 |-> Notifications003[t]]
    BY DEF Notifications003
  <2>2. ASSUME NEW t \in DOMAIN Notifications003 PROVE IsFiniteSet(Notifications003[t]) /\ "user_id uuid" \notin Notifications003[t]
    <3>1. IsFiniteSet({"user_id", "entity_type", "entity_id"})
      BY SmallIsFinite, SmallerIsFinite, Zenon
    <3>2. t \in {"notifications"}
      BY SourceTables
    <3>3. Notifications003["notifications"] = {"user_id", "entity_type", "entity_id"}
      BY DEF Notifications003
    <3>4. "user_id uuid" \notin {"user_id", "entity_type", "entity_id"}
      OBVIOUS
    <3> QED BY <3>1, <3>2, <3>3, <3>4, Zenon
  <2> QED BY <2>1, <2>2 DEF Plain
<1>6. Plain(Presets004)
  <2>1. Presets004 = [t \in DOMAIN Presets004 |-> Presets004[t]]
    BY DEF Presets004
  <2>2. ASSUME NEW t \in DOMAIN Presets004 PROVE IsFiniteSet(Presets004[t]) /\ "user_id uuid" \notin Presets004[t]
    <3>1. IsFiniteSet({})
      BY SmallIsFinite, SmallerIsFinite, Zenon
    <3>2. t \in {"report_config_presets"}
      BY SourceTables
    <3>3. Presets004["report_config_presets"] = {}
      BY DEF Presets004
    <3>4. "user_id uuid" \notin {}
      OBVIOUS
    <3> QED BY <3>1, <3>2, <3>3, <3>4, Zenon
  <2> QED BY <2>1, <2>2 DEF Plain
<1>7. Plain(Fiscal005)
  <2>1. Fiscal005 = [t \in DOMAIN Fiscal005 |-> Fiscal005[t]]
    BY DEF Fiscal005
  <2>2. ASSUME NEW t \in DOMAIN Fiscal005 PROVE IsFiniteSet(Fiscal005[t]) /\ "user_id uuid" \notin Fiscal005[t]
    <3>1. IsFiniteSet({"estimated_total_gap_brl", "updated_at"}) /\ IsFiniteSet({"owner_cpf_cnpj", "iptu_value_current_brl", "properties", "created_at"}) /\ IsFiniteSet({"reviewer_notes", "inspector_report", "polygon"}) /\ IsFiniteSet({})
      BY SmallIsFinite, SmallerIsFinite, Zenon
    <3>2. t \in {"parcels", "ai_detections", "analysis_runs", "discrepancies"}
      BY SourceTables
    <3>3. Fiscal005["parcels"] = {"owner_cpf_cnpj", "iptu_value_current_brl", "properties", "created_at"} /\ Fiscal005["ai_detections"] = {} /\ Fiscal005["analysis_runs"] = {"estimated_total_gap_brl", "updated_at"} /\ Fiscal005["discrepancies"] = {"reviewer_notes", "inspector_report", "polygon"}
      BY DEF Fiscal005
    <3>4. "user_id uuid" \notin {"estimated_total_gap_brl", "updated_at"} /\ "user_id uuid" \notin {"owner_cpf_cnpj", "iptu_value_current_brl", "properties", "created_at"} /\ "user_id uuid" \notin {"reviewer_notes", "inspector_report", "polygon"} /\ "user_id uuid" \notin {}
      OBVIOUS
    <3> QED BY <3>1, <3>2, <3>3, <3>4, Zenon
  <2> QED BY <2>1, <2>2 DEF Plain
<1>8. Plain(Rules005)
  <2>1. Rules005 = [t \in DOMAIN Rules005 |-> Rules005[t]]
    BY DEF Rules005
  <2>2. ASSUME NEW t \in DOMAIN Rules005 PROVE IsFiniteSet(Rules005[t]) /\ "user_id uuid" \notin Rules005[t]
    <3>1. IsFiniteSet({"measured_by"}) /\ IsFiniteSet({"rule_set_id", "aliquot_pct"}) /\ IsFiniteSet({})
      BY SmallIsFinite, SmallerIsFinite, Zenon
    <3>2. t \in {"iptu_rule_sets", "iptu_rules", "measurements"}
      BY SourceTables
    <3>3. Rules005["iptu_rule_sets"] = {} /\ Rules005["iptu_rules"] = {"rule_set_id", "aliquot_pct"} /\ Rules005["measurements"] = {"measured_by"}
      BY DEF Rules005
    <3>4. "user_id uuid" \notin {"measured_by"} /\ "user_id uuid" \notin {"rule_set_id", "aliquot_pct"} /\ "user_id uuid" \notin {}
      OBVIOUS
    <3> QED BY <3>1, <3>2, <3>3, <3>4, Zenon
  <2> QED BY <2>1, <2>2 DEF Plain
<1>9. Plain(Metrology005)
  <2>1. Metrology005 = [t \in DOMAIN Metrology005 |-> Metrology005[t]]
    BY DEF Metrology005
  <2>2. ASSUME NEW t \in DOMAIN Metrology005 PROVE IsFiniteSet(Metrology005[t]) /\ "user_id uuid" \notin Metrology005[t]
    <3>1. IsFiniteSet({})
      BY SmallIsFinite, SmallerIsFinite, Zenon
    <3>2. t \in {"ai_measurement_runs", "ai_building_measurements", "ai_terrain_measurements"}
      BY SourceTables
    <3>3. Metrology005["ai_measurement_runs"] = {} /\ Metrology005["ai_building_measurements"] = {} /\ Metrology005["ai_terrain_measurements"] = {}
      BY DEF Metrology005
    <3>4. "user_id uuid" \notin {}
      OBVIOUS
    <3> QED BY <3>1, <3>2, <3>3, <3>4, Zenon
  <2> QED BY <2>1, <2>2 DEF Plain
<1>10. Plain(UsageErrors)
  <2>1. UsageErrors = [t \in DOMAIN UsageErrors |-> UsageErrors[t]]
    BY DEF UsageErrors
  <2>2. ASSUME NEW t \in DOMAIN UsageErrors PROVE IsFiniteSet(UsageErrors[t]) /\ "user_id uuid" \notin UsageErrors[t]
    <3>1. IsFiniteSet({})
      BY SmallIsFinite, SmallerIsFinite, Zenon
    <3>2. t \in {"usage_error_logs"}
      BY SourceTables
    <3>3. UsageErrors["usage_error_logs"] = {}
      BY DEF UsageErrors
    <3>4. "user_id uuid" \notin {}
      OBVIOUS
    <3> QED BY <3>1, <3>2, <3>3, <3>4, Zenon
  <2> QED BY <2>1, <2>2 DEF Plain
<1>11. Plain(Certificates)
  <2>1. Certificates = [t \in DOMAIN Certificates |-> Certificates[t]]
    BY DEF Certificates
  <2>2. ASSUME NEW t \in DOMAIN Certificates PROVE IsFiniteSet(Certificates[t]) /\ "user_id uuid" \notin Certificates[t]
    <3>1. IsFiniteSet({})
      BY SmallIsFinite, SmallerIsFinite, Zenon
    <3>2. t \in {"audit_certificates"}
      BY SourceTables
    <3>3. Certificates["audit_certificates"] = {}
      BY DEF Certificates
    <3>4. "user_id uuid" \notin {}
      OBVIOUS
    <3> QED BY <3>1, <3>2, <3>3, <3>4, Zenon
  <2> QED BY <2>1, <2>2 DEF Plain
<1>12. \A x : Plain(x) => Shape(x)
  BY DEF Plain, Shape
<1> QED BY <1>1, <1>2, <1>3, <1>4, <1>5, <1>6, <1>7, <1>8, <1>9, <1>10, <1>11, <1>12 DEF Sources

\* No two of them make the same table.
LEMMA SourcesAgree == \A x, y \in Sources : Agrees(x, y)
<1>1. \A x : Agrees(x, x)
  BY DEF Agrees
<1>2. \A x, y : DOMAIN x \cap DOMAIN y = {} => Agrees(x, y)
  BY DEF Agrees, Exists
<1>3. ASSUME NEW x \in Sources, NEW y \in Sources, x # y PROVE DOMAIN x \cap DOMAIN y = {}
  BY <1>3, SourceTables DEF Sources
<1> QED BY <1>1, <1>2, <1>3

\* A database between revisions 3 and 5, in every state the databases are known to be in; one that
\* has converged; and what the later revisions add.
Known(s) ==
    /\ Holds(s, Accounts001) /\ Holds(s, Flights001)
    /\ Exists(s, "reports") /\ "status" \in s["reports"] /\ Exists(s, "report_sections")
    /\ Exists(s, "notifications") /\ {"user_id", "user_id uuid"} \cap s["notifications"] # {}
    /\ Agrees(s, Uploads002) /\ Agrees(s, Presets004)
    /\ Agrees(s, Fiscal005) /\ Agrees(s, Rules005) /\ Agrees(s, Metrology005)

Converged(s) ==
    /\ Holds(s, Accounts001) /\ Holds(s, Flights001) /\ Holds(s, Reports001)
    /\ Holds(s, Uploads002) /\ Holds(s, Notifications003) /\ Holds(s, Presets004)
    /\ Holds(s, Fiscal005) /\ Holds(s, Rules005) /\ Holds(s, Metrology005)

Stage(k, s) ==
    /\ k < 5 => Known(s) /\ (k = 4 => Holds(s, Presets004))
    /\ k >= 5 => Converged(s)
    /\ k >= 6 => {"height_m"} \subseteq s["ai_detections"]
    /\ k >= 7 => Holds(s, UsageErrors)
    /\ k >= 8 => {"validation_status", "evidence_score"} \subseteq s["ai_detections"]
    /\ k >= 10 => {"consensus_votes", "is_unanimous"} \subseteq s["ai_detections"] /\ Holds(s, Certificates)
    /\ k >= 11 => {"roof_type", "shadow_rejected"} \subseteq s["ai_detections"]

\* What a schema holds of a source it holds when it grows.
LEMMA Keeps == \A s, s2 : \A x \in Sources : Holds(s, x) /\ Grows(s, s2) => Holds(s2, x)
BY HoldsStill, SourcesPlain

\* The sources, one by one.
LEMMA SourcesNamed ==
    /\ Accounts001 \in Sources /\ Flights001 \in Sources /\ Reports001 \in Sources /\ Uploads002 \in Sources
    /\ Notifications003 \in Sources /\ Presets004 \in Sources /\ Fiscal005 \in Sources
    /\ Rules005 \in Sources /\ Metrology005 \in Sources /\ UsageErrors \in Sources /\ Certificates \in Sources
BY DEF Sources

\* What has converged stays so when it grows.
LEMMA ConvergedStill ==
    ASSUME NEW s, NEW s2, Converged(s), Grows(s, s2)
    PROVE  Converged(s2) /\ \A c \in s["ai_detections"] : c # "user_id uuid" => c \in s2["ai_detections"]
<1>1. Converged(s2)
  BY Keeps, SourcesNamed DEF Converged
<1>2. Exists(s, "ai_detections")
  BY SourceTables DEF Converged, Holds
<1>3. s["ai_detections"] \ {"user_id uuid"} \subseteq s2["ai_detections"]
  BY <1>2 DEF Grows, Exists
<1> QED BY <1>1, <1>3

\* From revision 5 on, a stage stays when the schema grows.
LEMMA StageStill ==
    ASSUME NEW k \in 5..11, NEW s, NEW s2, Stage(k, s), Grows(s, s2) PROVE Stage(k, s2)
<1>1. Converged(s)
  BY DEF Stage
<1>2. Converged(s2) /\ \A c \in s["ai_detections"] : c # "user_id uuid" => c \in s2["ai_detections"]
  BY <1>1, ConvergedStill
<1>3. /\ Holds(s, UsageErrors) => Holds(s2, UsageErrors)
      /\ Holds(s, Certificates) => Holds(s2, Certificates)
  BY Keeps, SourcesNamed
<1>4. /\ {"height_m"} \subseteq s["ai_detections"] => {"height_m"} \subseteq s2["ai_detections"]
      /\ {"validation_status", "evidence_score"} \subseteq s["ai_detections"]
            => {"validation_status", "evidence_score"} \subseteq s2["ai_detections"]
      /\ {"consensus_votes", "is_unanimous"} \subseteq s["ai_detections"]
            => {"consensus_votes", "is_unanimous"} \subseteq s2["ai_detections"]
      /\ {"roof_type", "shadow_rejected"} \subseteq s["ai_detections"]
            => {"roof_type", "shadow_rejected"} \subseteq s2["ai_detections"]
  BY <1>2
<1>5. k >= 5 /\ ~ (k < 5)
  OBVIOUS
<1> QED BY <1>2, <1>3, <1>4, <1>5, Zenon DEF Stage

\* Notifications with an author of the right type, and with the columns of revision 003.
LEMMA Retyped ==
    ASSUME NEW b, Shape(b), "notifications" \in DOMAIN b
    PROVE  /\ Grows(b, ConvergeNotifications(b)) /\ Shape(ConvergeNotifications(b))
           /\ DOMAIN ConvergeNotifications(b) = DOMAIN b
           /\ {"user_id", "user_id uuid"} \cap b["notifications"] # {}
                 => Holds(ConvergeNotifications(b), Notifications003)
           /\ \A t \in DOMAIN b : t # "notifications" => ConvergeNotifications(b)[t] = b[t]
           /\ ConvergeNotifications(b)["notifications"] \subseteq
                 (b["notifications"] \ {"user_id uuid"}) \cup {"user_id", "entity_type", "entity_id"}
<1> DEFINE c == ConvergeNotifications(b)
           cols == b["notifications"]
           retyped == IF "user_id uuid" \in cols THEN (cols \ {"user_id uuid"}) \cup {"user_id"} ELSE cols
           new == retyped \cup {"entity_type", "entity_id"}
<1>1. c = [b EXCEPT !["notifications"] = new]
  BY DEF ConvergeNotifications
<1>2. /\ "entity_type" \in new /\ "entity_id" \in new /\ cols \ {"user_id uuid"} \subseteq new
      /\ {"user_id", "user_id uuid"} \cap cols # {} => "user_id" \in new
      /\ new \subseteq (cols \ {"user_id uuid"}) \cup {"user_id", "entity_type", "entity_id"}
  OBVIOUS
<1>3. IsFiniteSet(new)
  <2>1. IsFiniteSet(cols)
    BY DEF Shape
  <2>2. IsFiniteSet(cols \ {"user_id uuid"})
    BY <2>1, FS_Subset
  <2>3. IsFiniteSet((cols \ {"user_id uuid"}) \cup {"user_id"})
    BY <2>2, FS_AddElement
  <2>4. IsFiniteSet(retyped)
    BY <2>1, <2>3
  <2>5. IsFiniteSet({"entity_type", "entity_id"})
    BY SmallerIsFinite, Zenon
  <2> HIDE DEF retyped
  <2> QED BY <2>4, <2>5, FS_Union
<1> HIDE DEF new
<1>4. DOMAIN c = DOMAIN b /\ c["notifications"] = new /\ \A t \in DOMAIN b : t # "notifications" => c[t] = b[t]
  BY <1>1 DEF Shape
<1>5. c = [t \in DOMAIN c |-> c[t]]
  BY <1>1 DEF Shape
<1> HIDE DEF c
<1>6. Shape(c)
  BY <1>3, <1>4, <1>5 DEF Shape
<1>7. Grows(b, c)
  BY <1>2, <1>4 DEF Grows, Exists
<1>8. {"user_id", "user_id uuid"} \cap cols # {} => Holds(c, Notifications003)
  <2>1. Notifications003["notifications"] = {"user_id", "entity_type", "entity_id"}
    BY DEF Notifications003
  <2> QED BY <1>2, <1>4, <2>1, SourceTables DEF Holds, Exists
<1> QED BY <1>2, <1>4, <1>6, <1>7, <1>8 DEF c

\* Revision 005 on a known schema.
LEMMA Converging ==
    ASSUME NEW s, Shape(s), Known(s), Holds(s, Presets004)
    PROVE  Converged(Converge005(s)) /\ Grows(s, Converge005(s)) /\ Shape(Converge005(s))
<1> DEFINE a == CreateMissing(s, Uploads002)
           b == CreateMissing(a, Notifications003)
           c == ConvergeNotifications(b)
           d == ConvergeReports(c)
           e == ConvergeSections(d)
           f == CreateMissing(e, Fiscal005)
           g == CreateMissing(f, Rules005)
           h == CreateMissing(g, Metrology005)
<1>0. Converge005(s) = h
  BY DEF Converge005
<1>a. \A x \in Sources : Plain(x) /\ Shape(x) /\ \A y \in Sources : Agrees(y, x)
  BY SourcesPlain, SourcesAgree
<1>1. Grows(s, a) /\ Shape(a) /\ Holds(a, Uploads002)
      /\ Agrees(a, Fiscal005) /\ Agrees(a, Rules005) /\ Agrees(a, Metrology005)
  <2>1. Grows(s, a) /\ Shape(a)
    BY <1>a, SourcesNamed, Created
  <2>2. Holds(a, Uploads002)
    BY Filled DEF Known
  <2>3. Agrees(a, Fiscal005) /\ Agrees(a, Rules005) /\ Agrees(a, Metrology005)
    BY <1>a, SourcesNamed, AgreesFilled DEF Known
  <2> QED BY <2>1, <2>2, <2>3
<1>2. "notifications" \in DOMAIN s /\ a["notifications"] = s["notifications"] /\ "notifications" \in DOMAIN a
  BY Created DEF Known, Exists
<1> HIDE DEF a
<1>3. Grows(a, b) /\ Shape(b) /\ b["notifications"] = s["notifications"] /\ "notifications" \in DOMAIN b
      /\ Agrees(b, Fiscal005) /\ Agrees(b, Rules005) /\ Agrees(b, Metrology005)
  <2>1. Grows(a, b) /\ Shape(b)
    BY <1>1, <1>a, SourcesNamed, Created
  <2>2. b["notifications"] = s["notifications"] /\ "notifications" \in DOMAIN b
    BY <1>2, Created
  <2>3. Agrees(b, Fiscal005) /\ Agrees(b, Rules005) /\ Agrees(b, Metrology005)
    BY <1>1, <1>a, SourcesNamed, AgreesFilled
  <2> QED BY <2>1, <2>2, <2>3
<1> HIDE DEF b
<1>4. Grows(b, c) /\ Shape(c) /\ DOMAIN c = DOMAIN b /\ Holds(c, Notifications003)
  BY <1>3, Retyped DEF Known
<1>5. Agrees(c, Fiscal005) /\ Agrees(c, Rules005) /\ Agrees(c, Metrology005)
  <2>1. \A t : Exists(c, t) => Exists(b, t)
    BY <1>4 DEF Exists
  <2> HIDE DEF c
  <2> QED BY <1>3, <1>4, <1>a, <2>1, SourcesNamed, AgreesStill
<1>6. Grows(s, c)
  <2> HIDE DEF c
  <2> QED BY <1>1, <1>3, <1>4, GrowsOn
<1>b. Exists(c, "reports") /\ "status" \in c["reports"] /\ Exists(c, "report_sections")
  <2> HIDE DEF c
  <2> QED BY <1>6 DEF Known, Grows, Exists
<1> HIDE DEF c
<1>7. /\ Grows(c, d) /\ Shape(d) /\ DOMAIN d = DOMAIN c
      /\ d["reports"] = c["reports"] \cup
           {"output_format", "config", "file_key", "requested_by", "celery_task_id", "error_message"}
  <2>1. IsFiniteSet({"output_format", "config", "file_key", "requested_by", "celery_task_id", "error_message"})
    BY SmallerIsFinite, Zenon
  <2>2. d = AddColumns(c, "reports", {"output_format", "config", "file_key", "requested_by", "celery_task_id", "error_message"})
    BY DEF ConvergeReports
  <2>3. Shape(c) /\ "reports" \in DOMAIN c /\ "report_sections" \in DOMAIN c
    BY <1>4, <1>b DEF Shape, Exists
  <2> HIDE DEF d
  <2>4. /\ DOMAIN d = DOMAIN c /\ Grows(c, d) /\ Shape(d)
        /\ d["reports"] = c["reports"] \cup {"output_format", "config", "file_key", "requested_by", "celery_task_id", "error_message"}
        /\ \A u \in DOMAIN c : u # "reports" => d[u] = c[u]
    BY <2>1, <2>2, <2>3, Added
  <2> QED BY <2>3, <2>4
<1>c. \A x \in {Fiscal005, Rules005, Metrology005} : Agrees(d, x)
  <2> HIDE DEF d
  <2>1. \A t : Exists(d, t) => Exists(c, t)
    BY <1>7 DEF Exists
  <2> QED BY <1>5, <1>7, <1>a, <2>1, SourcesNamed, AgreesStill
<1> HIDE DEF d
<1>8. /\ Grows(d, e) /\ Shape(e) /\ DOMAIN e = DOMAIN d
      /\ e["reports"] = d["reports"] /\ e["report_sections"] = d["report_sections"] \cup {"order", "content"}
  <2>1. IsFiniteSet({"order", "content"})
    BY SmallerIsFinite, Zenon
  <2>2. e = AddColumns(d, "report_sections", {"order", "content"})
    BY DEF ConvergeSections
  <2>3. Shape(d) /\ "reports" \in DOMAIN d /\ "report_sections" \in DOMAIN d
    BY <1>7, <1>b DEF Shape, Exists
  <2> HIDE DEF e
  <2>4. /\ DOMAIN e = DOMAIN d /\ Grows(d, e) /\ Shape(e)
        /\ e["report_sections"] = d["report_sections"] \cup {"order", "content"}
        /\ \A u \in DOMAIN d : u # "report_sections" => e[u] = d[u]
    BY <2>1, <2>2, <2>3, Added
  <2> QED BY <2>3, <2>4
<1>9. Holds(e, Reports001)
  <2>1. Reports001["reports"] = {"status", "output_format", "config", "file_key", "requested_by",
                                 "celery_task_id", "error_message"}
        /\ Reports001["report_sections"] = {"order", "content"}
    BY DEF Reports001
  <2> HIDE DEF e
  <2>2. Exists(e, "reports") /\ Exists(e, "report_sections")
    BY <1>7, <1>8, <1>b DEF Exists
  <2>3. Reports001["reports"] \subseteq e["reports"] /\ Reports001["report_sections"] \subseteq e["report_sections"]
    BY <1>7, <1>8, <1>b, <2>1
  <2> QED BY <2>2, <2>3, SourceTables DEF Holds
<1>d. \A x \in {Fiscal005, Rules005, Metrology005} : Agrees(e, x)
  <2> HIDE DEF e
  <2>1. \A t : Exists(e, t) => Exists(d, t)
    BY <1>8 DEF Exists
  <2> QED BY <1>c, <1>8, <1>a, <2>1, SourcesNamed, AgreesStill
<1> HIDE DEF e
<1>10. Grows(e, f) /\ Shape(f) /\ Holds(f, Fiscal005) /\ Agrees(f, Rules005) /\ Agrees(f, Metrology005)
  <2>1. Grows(e, f) /\ Shape(f)
    BY <1>8, <1>a, SourcesNamed, Created
  <2>2. Holds(f, Fiscal005)
    BY <1>d, Filled
  <2>3. Agrees(f, Rules005) /\ Agrees(f, Metrology005)
    BY <1>d, <1>a, SourcesNamed, AgreesFilled
  <2> QED BY <2>1, <2>2, <2>3
<1> HIDE DEF f
<1>11. Grows(f, g) /\ Shape(g) /\ Holds(g, Rules005) /\ Agrees(g, Metrology005)
  <2>1. Grows(f, g) /\ Shape(g)
    BY <1>10, <1>a, SourcesNamed, Created
  <2>2. Holds(g, Rules005)
    BY <1>10, Filled
  <2>3. Agrees(g, Metrology005)
    BY <1>10, <1>a, SourcesNamed, AgreesFilled
  <2> QED BY <2>1, <2>2, <2>3
<1> HIDE DEF g
<1>12. Grows(g, h) /\ Shape(h) /\ Holds(h, Metrology005)
  <2>1. Grows(g, h) /\ Shape(h)
    BY <1>11, <1>a, SourcesNamed, Created
  <2>2. Holds(h, Metrology005)
    BY <1>11, Filled
  <2> QED BY <2>1, <2>2
<1> HIDE DEF h
<1>13. Grows(e, g) /\ Grows(c, e)
  BY <1>7, <1>8, <1>10, <1>11, GrowsOn
<1>14. Grows(e, h) /\ Grows(f, h) /\ Grows(c, h)
  <2>1. Grows(e, h) /\ Grows(f, h)
    BY <1>11, <1>12, <1>13, GrowsOn
  <2> QED BY <1>13, <2>1, GrowsOn
<1>15. Grows(s, h) /\ Grows(a, h)
  BY <1>1, <1>3, <1>4, <1>6, <1>14, GrowsOn
<1>16. Converged(h)
  <2>1. Holds(h, Accounts001) /\ Holds(h, Flights001) /\ Holds(h, Presets004)
    BY <1>15, Keeps, SourcesNamed DEF Known
  <2>2. Holds(h, Uploads002) /\ Holds(h, Notifications003) /\ Holds(h, Reports001)
    BY <1>1, <1>4, <1>9, <1>14, <1>15, Keeps, SourcesNamed
  <2>3. Holds(h, Fiscal005) /\ Holds(h, Rules005)
    BY <1>10, <1>11, <1>12, <1>14, Keeps, SourcesNamed
  <2> QED BY <1>12, <2>1, <2>2, <2>3 DEF Converged
<1> QED BY <1>0, <1>12, <1>15, <1>16

\* What each revision leaves, and when it applies.
LEMMA RevisionsAre ==
    ASSUME NEW s
    PROVE  /\ Revision(1, s) = CreateMissing(s, Tables001)
           /\ Revision(2, s) = CreateMissing(s, Uploads002)
           /\ Revision(3, s) = CreateMissing(s, Notifications003)
           /\ Revision(4, s) = CreateMissing(s, Presets004)
           /\ Revision(5, s) = Converge005(s)
           /\ Revision(6, s) = Height006(s)
           /\ Revision(7, s) = CreateMissing(s, UsageErrors)
           /\ Revision(8, s) = Validation008(s)
           /\ Revision(9, s) = s
           /\ Revision(10, s) = Consensus010(s)
           /\ Revision(11, s) = Roof011(s)
BY DEF Revision, Errors007, UsageErrors

\* When each revision applies.
LEMMA ApplicableAre ==
    ASSUME NEW s
    PROVE  /\ Applicable(1, s) <=> DOMAIN Tables001 \cap DOMAIN s = {}
           /\ Applicable(2, s) <=> DOMAIN Uploads002 \cap DOMAIN s = {} /\ Exists(s, "projects")
           /\ Applicable(3, s) <=> ~Exists(s, "notifications")
           /\ Applicable(4, s) /\ Applicable(7, s)
           /\ Applicable(5, s) <=> \A t \in {"projects", "flights", "reports", "report_sections"} : Exists(s, t)
           /\ \A n \in {6, 8, 9, 10, 11} : Applicable(n, s) <=> Exists(s, "ai_detections")
BY DEF Applicable

\* The tables of revision 001.
LEMMA TablesShape == Shape(Tables001) /\ DOMAIN Tables001 = {"tenants", "subscriptions", "projects",
    "flights", "processing_jobs", "flight_assets", "reports", "report_sections"}
<1>1. Shape(Accounts001) /\ Shape(Flights001) /\ Shape(Reports001)
  BY SourcesPlain, SourcesNamed
<1>2. Shape(CreateMissing(Accounts001, Flights001))
  BY <1>1, Created
<1>3. Shape(Tables001)
  BY <1>1, <1>2, Created DEF Tables001
<1>4. DOMAIN Tables001 = (DOMAIN Accounts001 \cup DOMAIN Flights001) \cup DOMAIN Reports001
  <2> DEFINE a == CreateMissing(Accounts001, Flights001)
  <2>1. DOMAIN a = DOMAIN Accounts001 \cup DOMAIN Flights001
    BY Created
  <2>2. Tables001 = CreateMissing(a, Reports001)
    BY DEF Tables001
  <2> HIDE DEF a
  <2>3. DOMAIN CreateMissing(a, Reports001) = DOMAIN a \cup DOMAIN Reports001
    BY Created
  <2> QED BY <2>1, <2>2, <2>3
<1> QED BY <1>3, <1>4, SourceTables

\* The columns that revisions add are finitely many.
LEMMA ColumnsFinite ==
    /\ IsFiniteSet({"height_m"}) /\ IsFiniteSet({"validation_status", "evidence_score"})
    /\ IsFiniteSet({"consensus_votes", "is_unanimous"}) /\ IsFiniteSet({"roof_type", "shadow_rejected"})
    /\ IsFiniteSet({"output_format", "config", "file_key", "requested_by", "celery_task_id", "error_message"})
    /\ IsFiniteSet({"order", "content"}) /\ IsFiniteSet({"unique version"})
BY SmallerIsFinite, Zenon

\* Revision 005 takes nothing away, whatever the schema.
LEMMA ConvergeGrows ==
    ASSUME NEW s, Shape(s) PROVE Grows(s, Converge005(s)) /\ Shape(Converge005(s))
<1> DEFINE a == CreateMissing(s, Uploads002)
           b == CreateMissing(a, Notifications003)
           c == ConvergeNotifications(b)
           d == ConvergeReports(c)
           e == ConvergeSections(d)
           f == CreateMissing(e, Fiscal005)
           g == CreateMissing(f, Rules005)
           h == CreateMissing(g, Metrology005)
<1>0. Converge005(s) = h
  BY DEF Converge005
<1>a. \A x \in Sources : Shape(x)
  BY SourcesPlain
<1>1. Grows(s, a) /\ Shape(a)
  BY <1>a, SourcesNamed, Created
<1> HIDE DEF a
<1>2. Grows(a, b) /\ Shape(b) /\ "notifications" \in DOMAIN b
  <2>1. Grows(a, b) /\ Shape(b)
    BY <1>1, <1>a, SourcesNamed, Created
  <2>2. DOMAIN b = DOMAIN a \cup DOMAIN Notifications003
    BY Created
  <2> QED BY <2>1, <2>2, SourceTables
<1> HIDE DEF b
<1>3. Grows(b, c) /\ Shape(c)
  BY <1>2, Retyped
<1> HIDE DEF c
<1>4. Grows(c, d) /\ Shape(d)
  BY <1>3, Added, ColumnsFinite DEF ConvergeReports
<1> HIDE DEF d
<1>5. Grows(d, e) /\ Shape(e)
  BY <1>4, Added, ColumnsFinite DEF ConvergeSections
<1> HIDE DEF e
<1>6. Grows(e, f) /\ Shape(f)
  BY <1>5, <1>a, SourcesNamed, Created
<1> HIDE DEF f
<1>7. Grows(f, g) /\ Shape(g)
  BY <1>6, <1>a, SourcesNamed, Created
<1> HIDE DEF g
<1>8. Grows(g, h) /\ Shape(h)
  BY <1>7, <1>a, SourcesNamed, Created
<1> HIDE DEF h
<1>9. Grows(s, b) /\ Grows(b, d) /\ Grows(d, f) /\ Grows(f, h)
  BY <1>1, <1>2, <1>3, <1>4, <1>5, <1>6, <1>7, <1>8, GrowsOn
<1>10. Grows(s, d) /\ Grows(d, h)
  BY <1>9, GrowsOn
<1> QED BY <1>0, <1>8, <1>10, GrowsOn

\* No revision takes anything away.
LEMMA RevisionGrows ==
    ASSUME NEW n \in 1..11, NEW s, Shape(s) PROVE Grows(s, Revision(n, s)) /\ Shape(Revision(n, s))
<1>a. \A x \in Sources : Shape(x)
  BY SourcesPlain
<1>0. Grows(s, s)
  BY DEF Grows, Exists
<1>1. \A x \in Sources \cup {Tables001} : Grows(s, CreateMissing(s, x)) /\ Shape(CreateMissing(s, x))
  BY <1>a, TablesShape, Created
<1>2. \A t : \A cols : IsFiniteSet(cols) => Grows(s, AddColumns(s, t, cols)) /\ Shape(AddColumns(s, t, cols))
  BY Added
<1>3. CASE n \in {1, 2, 3, 4, 7}
  BY <1>1, <1>3, RevisionsAre, SourcesNamed
<1>4. CASE n = 5
  BY <1>4, ConvergeGrows, RevisionsAre
<1>5. CASE n = 9
  BY <1>0, <1>5, RevisionsAre
<1>6. CASE n \in {6, 8, 11}
  <2>1. \E cols : IsFiniteSet(cols) /\ Revision(n, s) = AddColumns(s, "ai_detections", cols)
    <3>1. /\ Revision(6, s) = AddColumns(s, "ai_detections", {"height_m"})
          /\ Revision(8, s) = AddColumns(s, "ai_detections", {"validation_status", "evidence_score"})
          /\ Revision(11, s) = AddColumns(s, "ai_detections", {"roof_type", "shadow_rejected"})
      BY RevisionsAre DEF Height006, Validation008, Roof011
    <3> QED BY <1>6, <3>1, ColumnsFinite
  <2> QED BY <1>2, <2>1
<1>7. CASE n = 10
  <2> DEFINE a == AddColumns(s, "ai_detections", {"consensus_votes", "is_unanimous"})
  <2>1. Grows(s, a) /\ Shape(a)
    BY <1>2, ColumnsFinite
  <2>2. Revision(10, s) = CreateMissing(a, Certificates)
    BY RevisionsAre DEF Consensus010, Certificates
  <2> HIDE DEF a
  <2>3. Grows(a, CreateMissing(a, Certificates)) /\ Shape(CreateMissing(a, Certificates))
    BY <1>a, <2>1, Created, SourcesNamed
  <2> QED BY <1>7, <2>1, <2>2, <2>3, GrowsOn
<1> QED BY <1>3, <1>4, <1>5, <1>6, <1>7

\* From revision 3 on, every revision applies and leaves the next stage.
LEMMA RevisionStage ==
    ASSUME NEW n \in 4..11, NEW s, Shape(s), Stage(n - 1, s)
    PROVE  Applicable(n, s) /\ Stage(n, Revision(n, s))
<1> DEFINE r == Revision(n, s)
<1>0. Grows(s, r) /\ Shape(r)
  BY RevisionGrows
<1>1. CASE n = 4
  <2>1. Known(s)
    BY <1>1 DEF Stage
  <2>2. r = CreateMissing(s, Presets004)
    BY <1>1, RevisionsAre
  <2>3. Holds(r, Presets004)
    BY <2>1, <2>2, Filled DEF Known
  <2>4. Known(r)
    <3>a. \A x \in Sources : Plain(x) /\ \A y \in Sources : Agrees(y, x)
      BY SourcesPlain, SourcesAgree
    <3>1. Holds(r, Accounts001) /\ Holds(r, Flights001)
      BY <1>0, <2>1, Keeps, SourcesNamed DEF Known
    <3>2. \A t \in DOMAIN s : t \in DOMAIN r /\ r[t] = s[t]
      <4>1. /\ DOMAIN CreateMissing(s, Presets004) = DOMAIN s \cup DOMAIN Presets004
            /\ \A t \in DOMAIN s : CreateMissing(s, Presets004)[t] = s[t]
        BY Created
      <4> HIDE DEF r
      <4> QED BY <2>2, <4>1
    <3> HIDE DEF r
    <3>3. /\ Exists(r, "reports") /\ "status" \in r["reports"] /\ Exists(r, "report_sections")
          /\ Exists(r, "notifications") /\ {"user_id", "user_id uuid"} \cap r["notifications"] # {}
      BY <2>1, <3>2 DEF Known, Exists
    <3>4. \A x \in Sources : Agrees(s, x) => Agrees(r, x)
      BY <2>2, <3>a, AgreesFilled, SourcesNamed
    <3> QED BY <2>1, <3>1, <3>3, <3>4, SourcesNamed DEF Known
  <2> HIDE DEF r
  <2>5. Applicable(n, s) /\ Stage(4, r)
    BY <1>1, <2>3, <2>4, ApplicableAre DEF Stage
  <2> QED BY <1>1, <2>5 DEF r
<1>2. CASE n = 5
  <2>1. Known(s) /\ Holds(s, Presets004)
    BY <1>2 DEF Stage
  <2>2. Converged(r)
    BY <1>2, <2>1, Converging, RevisionsAre
  <2>3. Applicable(5, s)
    <3>1. \A t \in {"projects", "flights", "reports", "report_sections"} : Exists(s, t)
      BY <2>1, SourceTables DEF Known, Holds
    <3> QED BY <3>1, ApplicableAre
  <2> HIDE DEF r
  <2>4. Stage(5, r)
    BY <2>2 DEF Stage
  <2> QED BY <1>2, <2>3, <2>4 DEF r
<1>3. CASE n \in 6..11
  <2>1. Stage(n - 1, r)
    BY <1>0, <1>3, StageStill
  <2>2. Exists(s, "ai_detections") /\ Exists(r, "ai_detections")
    <3>1. Converged(s)
      BY <1>3 DEF Stage
    <3>2. Exists(s, "ai_detections")
      BY <3>1, SourceTables DEF Converged, Holds
    <3> HIDE DEF r
    <3> QED BY <1>0, <3>2 DEF Grows, Exists
  <2>3. Applicable(n, s)
    BY <1>3, <2>2, ApplicableAre
  <2>4. /\ n = 6 => {"height_m"} \subseteq r["ai_detections"]
        /\ n = 8 => {"validation_status", "evidence_score"} \subseteq r["ai_detections"]
        /\ n = 11 => {"roof_type", "shadow_rejected"} \subseteq r["ai_detections"]
    BY <2>2, Added, RevisionsAre DEF Height006, Validation008, Roof011, Exists
  <2>5. n = 7 => Holds(r, UsageErrors)
    BY RevisionsAre, Filled, SourceTables DEF Agrees, UsageErrors
  <2>6. n = 10 => {"consensus_votes", "is_unanimous"} \subseteq r["ai_detections"] /\ Holds(r, Certificates)
    <3> DEFINE a == AddColumns(s, "ai_detections", {"consensus_votes", "is_unanimous"})
    <3>1. {"consensus_votes", "is_unanimous"} \subseteq a["ai_detections"] /\ "ai_detections" \in DOMAIN a
      BY <2>2, Added DEF Exists
    <3>2. n = 10 => r = CreateMissing(a, Certificates)
      BY RevisionsAre DEF Consensus010, Certificates
    <3> HIDE DEF a
    <3>3. CreateMissing(a, Certificates)["ai_detections"] = a["ai_detections"]
      BY <3>1, Created
    <3>4. Agrees(a, Certificates)
      BY SourceTables DEF Agrees, Certificates
    <3>5. Holds(CreateMissing(a, Certificates), Certificates)
      BY <3>4, Filled
    <3> HIDE DEF r
    <3> QED BY <3>1, <3>2, <3>3, <3>5
  <2> HIDE DEF r
  <2>7. Stage(n, r)
    <3>1. CASE n = 6
      BY <2>1, <2>4, <3>1 DEF Stage
    <3>2. CASE n = 7
      BY <2>1, <2>5, <3>2 DEF Stage
    <3>3. CASE n = 8
      BY <2>1, <2>4, <3>3 DEF Stage
    <3>4. CASE n = 9
      BY <2>1, <3>4 DEF Stage
    <3>5. CASE n = 10
      BY <2>1, <2>6, <3>5 DEF Stage
    <3>6. CASE n = 11
      BY <2>1, <2>4, <3>6 DEF Stage
    <3> QED BY <1>3, <3>1, <3>2, <3>3, <3>4, <3>5, <3>6
  <2> QED BY <2>3, <2>7 DEF r
<1> QED BY <1>1, <1>2, <1>3

\* The schemas after the revisions n + 1..m, from s.
Unrolled(n, m, s, f) == f = [k \in n..m |-> IF k = n THEN s ELSE Revision(k, f[k - 1])]

\* The recursive function of an upgrade exists.
LEMMA RevisionsUnroll ==
    ASSUME NEW n \in 0..11, NEW s PROVE \E f : Unrolled(n, 11, s, f)
<1> DEFINE Bad == {j \in Nat : n + j <= 11 /\ ~ \E f : Unrolled(n, n + j, s, f)}
<1>1. 0 \notin Bad
  <2> DEFINE f == [k \in n..n |-> s]
  <2>1. f = [k \in n..n |-> IF k = n THEN s ELSE Revision(k, f[k - 1])]
    BY SMT
  <2> HIDE DEF f
  <2>2. Unrolled(n, n + 0, s, f)
    BY <2>1 DEF Unrolled
  <2> QED BY <2>2
<1>2. ASSUME NEW j \in Nat, j \notin Bad PROVE j + 1 \notin Bad
  <2> SUFFICES ASSUME n + (j + 1) <= 11 PROVE \E f : Unrolled(n, n + (j + 1), s, f)
    OBVIOUS
  <2> DEFINE m == n + j
             m1 == n + (j + 1)
  <2>1. PICK g : Unrolled(n, m, s, g)
    BY <1>2
  <2>0. m \in Nat /\ m1 = m + 1 /\ n \in Nat /\ n <= m
    BY SMT
  <2> HIDE DEF m, m1
  <2> DEFINE f == [k \in n..m1 |-> IF k = n THEN s ELSE Revision(k, g[k - 1])]
  <2>2. ASSUME NEW k \in n..m PROVE f[k] = g[k]
    <3>1. g[k] = IF k = n THEN s ELSE Revision(k, g[k - 1])
      <4> DEFINE e == [i \in n..m |-> IF i = n THEN s ELSE Revision(i, g[i - 1])]
      <4>1. g = e
        BY <2>1 DEF Unrolled
      <4>2. e[k] = IF k = n THEN s ELSE Revision(k, g[k - 1])
        OBVIOUS
      <4> HIDE DEF e
      <4> QED BY <4>1, <4>2
    <3>2. k \in n..m1
      BY <2>0
    <3>3. f[k] = IF k = n THEN s ELSE Revision(k, g[k - 1])
      BY <3>2
    <3> HIDE DEF f
    <3> QED BY <3>1, <3>3
  <2>3. ASSUME NEW k \in n..m1, k # n PROVE k - 1 \in n..m
    BY <2>0, <2>3
  <2>4. f = [k \in n..m1 |-> IF k = n THEN s ELSE Revision(k, f[k - 1])]
    <3>1. \A k \in n..m1 : k # n => f[k - 1] = g[k - 1]
      BY <2>2, <2>3
    <3> QED BY <3>1
  <2> HIDE DEF f
  <2>5. Unrolled(n, m1, s, f)
    BY <2>4 DEF Unrolled
  <2> QED BY <2>5 DEF m1
<1>3. Bad = {}
  <2>1. SUFFICES ASSUME Bad # {} PROVE FALSE
    OBVIOUS
  <2>2. Bad \subseteq Nat
    OBVIOUS
  <2> HIDE DEF Bad
  <2>3. PICK m \in Bad : \A j \in Bad : m <= j
    BY <2>1, <2>2, LeastNatural
  <2>4. m - 1 \in Nat /\ m - 1 \notin Bad /\ (m - 1) + 1 = m
    BY <1>1, <2>2, <2>3
  <2> QED BY <1>2, <2>4
<1>4. PICK j \in Nat : n + j = 11
  <2>1. 11 - n \in Nat /\ n + (11 - n) = 11
    BY SMT
  <2> QED BY <2>1
<1>5. \E f : Unrolled(n, n + j, s, f)
  <2>1. j \notin Bad
    BY <1>3
  <2>2. n + j <= 11
    BY <1>4
  <2> QED BY <2>1, <2>2
<1> QED BY <1>4, <1>5

\* A pending upgrade is the revisions one after the other.
LEMMA UpgradeIsChain ==
    ASSUME NEW n \in 0..11, NEW s
    PROVE  \E f : /\ f[n] = s /\ \A k \in n + 1..11 : f[k] = Revision(k, f[k - 1])
                  /\ Upgraded(n, s) = f[11]
                  /\ AllApply(n, s) <=> \A k \in n + 1..11 : Applicable(k, f[k - 1])
<1> DEFINE f == CHOOSE f : Unrolled(n, 11, s, f)
           e == [k \in n..11 |-> IF k = n THEN s ELSE Revision(k, f[k - 1])]
<1>1. f = e
  <2>1. Unrolled(n, 11, s, f)
    BY RevisionsUnroll
  <2> HIDE DEF f
  <2> QED BY <2>1 DEF Unrolled
<1>2. e[n] = s /\ \A k \in n + 1..11 : e[k] = Revision(k, f[k - 1])
  BY SMT
<1>3. Upgraded(n, s) = f[11]
  BY DEF Upgraded, Unrolled, HeadRevision
<1>4. AllApply(n, s) <=> \A k \in n + 1..11 : Applicable(k, f[k - 1])
  BY DEF AllApply, Unrolled, HeadRevision
<1> HIDE DEF f, e
<1> QED BY <1>1, <1>2, <1>3, <1>4

\* An upgrade takes nothing away.
LEMMA UpgradeGrows ==
    ASSUME NEW n \in 0..11, NEW s, Shape(s) PROVE Grows(s, Upgraded(n, s)) /\ Shape(Upgraded(n, s))
<1>1. PICK f : /\ f[n] = s /\ \A k \in n + 1..11 : f[k] = Revision(k, f[k - 1])
               /\ Upgraded(n, s) = f[11]
  BY UpgradeIsChain
<1> DEFINE Bad == {j \in Nat : n + j <= 11 /\ ~ (Grows(s, f[n + j]) /\ Shape(f[n + j]))}
<1>2. 0 \notin Bad
  <2>1. Grows(s, s)
    BY DEF Grows, Exists
  <2>2. f[n + 0] = s
    BY <1>1
  <2> QED BY <2>1, <2>2
<1>3. ASSUME NEW j \in Nat, j \notin Bad PROVE j + 1 \notin Bad
  <2> SUFFICES ASSUME n + (j + 1) <= 11 PROVE Grows(s, f[n + (j + 1)]) /\ Shape(f[n + (j + 1)])
    OBVIOUS
  <2>1. n + j <= 11 /\ n + (j + 1) \in n + 1..11 /\ n + (j + 1) \in 1..11 /\ (n + (j + 1)) - 1 = n + j
    BY SMT
  <2>2. Grows(s, f[n + j]) /\ Shape(f[n + j])
    BY <1>3, <2>1
  <2>3. f[n + (j + 1)] = Revision(n + (j + 1), f[n + j])
    BY <1>1, <2>1
  <2>4. Grows(f[n + j], f[n + (j + 1)]) /\ Shape(f[n + (j + 1)])
    BY <2>1, <2>2, <2>3, RevisionGrows
  <2> QED BY <2>2, <2>4, GrowsOn
<1>4. Bad = {}
  <2>1. SUFFICES ASSUME Bad # {} PROVE FALSE
    OBVIOUS
  <2>2. Bad \subseteq Nat
    OBVIOUS
  <2> HIDE DEF Bad
  <2>3. PICK m \in Bad : \A j \in Bad : m <= j
    BY <2>1, <2>2, LeastNatural
  <2>4. m - 1 \in Nat /\ m - 1 \notin Bad /\ (m - 1) + 1 = m
    BY <1>2, <2>2, <2>3
  <2> QED BY <1>3, <2>4
<1>5. PICK j \in Nat : n + j = 11
  <2>1. 11 - n \in Nat /\ n + (11 - n) = 11
    BY SMT
  <2> QED BY <2>1
<1>6. Grows(s, f[n + j]) /\ Shape(f[n + j])
  <2>1. j \notin Bad
    BY <1>4
  <2>2. n + j <= 11
    BY <1>5
  <2> QED BY <2>1, <2>2
<1> QED BY <1>1, <1>5, <1>6

\* From revision 3 every revision applies, and the last stage is reached.
LEMMA ChainStages ==
    ASSUME NEW n \in 3..11, NEW f, Shape(f[n]), Stage(n, f[n]),
           \A k \in n + 1..11 : f[k] = Revision(k, f[k - 1])
    PROVE  /\ \A k \in n..11 : Stage(k, f[k]) /\ Shape(f[k])
           /\ \A k \in n + 1..11 : Applicable(k, f[k - 1])
<1> DEFINE Bad == {j \in Nat : n + j <= 11 /\ ~ (Stage(n + j, f[n + j]) /\ Shape(f[n + j]))}
<1>2. 0 \notin Bad
  <2>1. n + 0 = n
    OBVIOUS
  <2> QED BY <2>1
<1>3. ASSUME NEW j \in Nat, j \notin Bad PROVE j + 1 \notin Bad
  <2> SUFFICES ASSUME n + (j + 1) <= 11 PROVE Stage(n + (j + 1), f[n + (j + 1)]) /\ Shape(f[n + (j + 1)])
    OBVIOUS
  <2>1. /\ n + j <= 11 /\ n + (j + 1) \in n + 1..11 /\ n + (j + 1) \in 1..11 /\ n + (j + 1) \in 4..11
        /\ (n + (j + 1)) - 1 = n + j
    BY SMT
  <2>2. Stage(n + j, f[n + j]) /\ Shape(f[n + j])
    BY <1>3, <2>1
  <2>3. f[n + (j + 1)] = Revision(n + (j + 1), f[n + j])
    BY <2>1
  <2>4. Shape(f[n + (j + 1)])
    BY <2>1, <2>2, <2>3, RevisionGrows
  <2>5. Stage(n + (j + 1), f[n + (j + 1)])
    BY <2>1, <2>2, <2>3, RevisionStage
  <2> QED BY <2>4, <2>5
<1>4. Bad = {}
  <2>1. SUFFICES ASSUME Bad # {} PROVE FALSE
    OBVIOUS
  <2>2. Bad \subseteq Nat
    OBVIOUS
  <2> HIDE DEF Bad
  <2>3. PICK m \in Bad : \A j \in Bad : m <= j
    BY <2>1, <2>2, LeastNatural
  <2>4. m - 1 \in Nat /\ m - 1 \notin Bad /\ (m - 1) + 1 = m
    BY <1>2, <2>2, <2>3
  <2> QED BY <1>3, <2>4
<1>5. ASSUME NEW k \in n..11 PROVE Stage(k, f[k]) /\ Shape(f[k])
  <2>1. k - n \in Nat /\ n + (k - n) = k /\ k <= 11
    BY SMT
  <2> QED BY <1>4, <2>1
<1>6. ASSUME NEW k \in n + 1..11 PROVE Applicable(k, f[k - 1])
  <2>1. k - 1 \in n..11 /\ k \in 4..11
    BY SMT
  <2>2. Stage(k - 1, f[k - 1]) /\ Shape(f[k - 1])
    BY <1>5, <2>1
  <2> QED BY <2>1, <2>2, RevisionStage
<1> QED BY <1>5, <1>6

\* An upgrade from revision 3 or later goes through to the head.
LEMMA UpgradeStage ==
    ASSUME NEW n \in 3..11, NEW s, Shape(s), Stage(n, s)
    PROVE  AllApply(n, s) /\ Stage(11, Upgraded(n, s))
<1>1. PICK f : /\ f[n] = s /\ \A k \in n + 1..11 : f[k] = Revision(k, f[k - 1])
               /\ Upgraded(n, s) = f[11]
               /\ AllApply(n, s) <=> \A k \in n + 1..11 : Applicable(k, f[k - 1])
  BY UpgradeIsChain
<1>2. /\ \A k \in n..11 : Stage(k, f[k]) /\ Shape(f[k])
      /\ \A k \in n + 1..11 : Applicable(k, f[k - 1])
  BY <1>1, ChainStages
<1>3. 11 \in n..11
  BY SMT
<1> QED BY <1>1, <1>2, <1>3

-----------------------------------------------------------------------------
\* What the sources make of a schema is what they make of it one by one.
LEMMA HoldsCreated ==
    ASSUME NEW s, NEW x, NEW y, Holds(s, x), Holds(s, y) PROVE Holds(s, CreateMissing(x, y))
<1>1. /\ DOMAIN CreateMissing(x, y) = DOMAIN x \cup DOMAIN y
      /\ \A t \in DOMAIN x : CreateMissing(x, y)[t] = x[t]
      /\ \A t \in DOMAIN y \ DOMAIN x : CreateMissing(x, y)[t] = y[t]
  BY Created
<1> QED BY <1>1 DEF Holds

\* ... nor do added columns that the schema has.
LEMMA HoldsAdded ==
    ASSUME NEW s, NEW x, NEW t, NEW cols, Shape(x), Holds(s, x), Exists(x, t) => cols \subseteq s[t]
    PROVE  Holds(s, AddColumns(x, t, cols))
<1>1. /\ DOMAIN AddColumns(x, t, cols) = DOMAIN x
      /\ \A u \in DOMAIN x : u # t => AddColumns(x, t, cols)[u] = x[u]
      /\ t \in DOMAIN x => AddColumns(x, t, cols)[t] = x[t] \cup cols
  BY Added
<1> QED BY <1>1 DEF Holds, Exists

\* A database at the head gives every table all that a revision gives it.
LEMMA HoldsRevision ==
    ASSUME NEW n \in 1..11, NEW s, NEW x, Shape(x), Stage(11, s), Holds(s, x)
    PROVE  Holds(s, Revision(n, x))
<1>0. /\ Converged(s) /\ Holds(s, UsageErrors) /\ Holds(s, Certificates)
      /\ {"height_m"} \subseteq s["ai_detections"]
      /\ {"validation_status", "evidence_score"} \subseteq s["ai_detections"]
      /\ {"consensus_votes", "is_unanimous"} \subseteq s["ai_detections"]
      /\ {"roof_type", "shadow_rejected"} \subseteq s["ai_detections"]
  BY DEF Stage
<1>a. /\ Holds(s, Accounts001) /\ Holds(s, Flights001) /\ Holds(s, Reports001)
      /\ Holds(s, Uploads002) /\ Holds(s, Notifications003) /\ Holds(s, Presets004)
      /\ Holds(s, Fiscal005) /\ Holds(s, Rules005) /\ Holds(s, Metrology005)
  BY <1>0 DEF Converged
<1>1. CASE n \in {1, 2, 3, 4, 7}
  <2>1. Holds(s, CreateMissing(Accounts001, Flights001))
    BY <1>a, HoldsCreated
  <2>2. Holds(s, Tables001)
    BY <1>a, <2>1, HoldsCreated DEF Tables001
  <2>3. \E y : Holds(s, y) /\ Revision(n, x) = CreateMissing(x, y)
    BY <1>0, <1>1, <1>a, <2>2, RevisionsAre
  <2> QED BY <2>3, HoldsCreated
<1>2. CASE n = 5
  <2> DEFINE a == CreateMissing(x, Uploads002)
             b == CreateMissing(a, Notifications003)
             c == ConvergeNotifications(b)
             d == ConvergeReports(c)
             e == ConvergeSections(d)
             f == CreateMissing(e, Fiscal005)
             g == CreateMissing(f, Rules005)
             h == CreateMissing(g, Metrology005)
  <2>0. Revision(n, x) = h
    BY <1>2, RevisionsAre DEF Converge005
  <2>a. \A y \in Sources : Shape(y)
    BY SourcesPlain
  <2>1. Holds(s, a) /\ Shape(a)
    BY <1>a, <2>a, HoldsCreated, Created, SourcesNamed
  <2> HIDE DEF a
  <2>2. Holds(s, b) /\ Shape(b)
    BY <1>a, <2>1, <2>a, HoldsCreated, Created, SourcesNamed
  <2>3. "notifications" \in DOMAIN b
    <3>1. DOMAIN b = DOMAIN a \cup DOMAIN Notifications003
      BY Created
    <3> QED BY <3>1, SourceTables
  <2> HIDE DEF b
  <2>4. Holds(s, c) /\ Shape(c)
    <3>1. /\ DOMAIN c = DOMAIN b /\ Shape(c)
          /\ \A t \in DOMAIN b : t # "notifications" => c[t] = b[t]
          /\ c["notifications"] \subseteq
                (b["notifications"] \ {"user_id uuid"}) \cup {"user_id", "entity_type", "entity_id"}
      BY <2>2, <2>3, Retyped
    <3>2. {"user_id", "entity_type", "entity_id"} \subseteq s["notifications"]
      <4>1. Notifications003["notifications"] = {"user_id", "entity_type", "entity_id"}
        BY DEF Notifications003
      <4> QED BY <1>a, <4>1, SourceTables DEF Holds
    <3> HIDE DEF c
    <3> QED BY <2>2, <2>3, <3>1, <3>2 DEF Holds
  <2> HIDE DEF c
  <2>b. /\ Reports001["reports"] = {"status", "output_format", "config", "file_key", "requested_by",
                                    "celery_task_id", "error_message"}
        /\ Reports001["report_sections"] = {"order", "content"}
    BY DEF Reports001
  <2>5. Holds(s, d) /\ Shape(d)
    <3> DEFINE cols == {"output_format", "config", "file_key", "requested_by", "celery_task_id", "error_message"}
    <3>1. cols \subseteq s["reports"]
      BY <1>a, <2>b, SourceTables DEF Holds
    <3>2. IsFiniteSet(cols) /\ d = AddColumns(c, "reports", cols)
      BY ColumnsFinite DEF ConvergeReports
    <3> HIDE DEF cols, d
    <3> QED BY <2>4, <3>1, <3>2, HoldsAdded, Added
  <2> HIDE DEF d
  <2>6. Holds(s, e) /\ Shape(e)
    <3> DEFINE cols == {"order", "content"}
    <3>1. cols \subseteq s["report_sections"]
      BY <1>a, <2>b, SourceTables DEF Holds
    <3>2. IsFiniteSet(cols) /\ e = AddColumns(d, "report_sections", cols)
      BY ColumnsFinite DEF ConvergeSections
    <3> HIDE DEF cols, e
    <3> QED BY <2>5, <3>1, <3>2, HoldsAdded, Added
  <2> HIDE DEF e
  <2>7. Holds(s, f)
    BY <1>a, <2>6, HoldsCreated
  <2> HIDE DEF f
  <2>8. Holds(s, g)
    BY <1>a, <2>7, HoldsCreated
  <2> HIDE DEF g
  <2>9. Holds(s, h)
    BY <1>a, <2>8, HoldsCreated
  <2> QED BY <2>0, <2>9
<1>3. CASE n \in {6, 8, 11}
  <2>1. \E cols : cols \subseteq s["ai_detections"] /\ Revision(n, x) = AddColumns(x, "ai_detections", cols)
    <3>1. /\ Revision(6, x) = AddColumns(x, "ai_detections", {"height_m"})
          /\ Revision(8, x) = AddColumns(x, "ai_detections", {"validation_status", "evidence_score"})
          /\ Revision(11, x) = AddColumns(x, "ai_detections", {"roof_type", "shadow_rejected"})
      BY RevisionsAre DEF Height006, Validation008, Roof011
    <3> QED BY <1>0, <1>3, <3>1
  <2> QED BY <2>1, HoldsAdded
<1>4. CASE n = 9
  BY <1>4, RevisionsAre
<1>5. CASE n = 10
  <2> DEFINE a == AddColumns(x, "ai_detections", {"consensus_votes", "is_unanimous"})
  <2>1. Holds(s, a)
    BY <1>0, HoldsAdded
  <2>2. Revision(10, x) = CreateMissing(a, Certificates)
    BY RevisionsAre DEF Consensus010, Certificates
  <2> HIDE DEF a
  <2> QED BY <1>0, <1>5, <2>1, <2>2, HoldsCreated
<1> QED BY <1>1, <1>2, <1>3, <1>4, <1>5

\* The database at revision 3.
Base3 == {Accounts001, Flights001, Reports001, Uploads002, Notifications003}
Tables3 == {"tenants", "subscriptions", "projects", "flights", "processing_jobs", "flight_assets",
            "reports", "report_sections", "uploads", "activity_logs", "notifications"}

\* Revisions 1 to 3 make these tables, each as its source has it.
LEMMA Chain3Is ==
    /\ Shape(Chain3) /\ DOMAIN Chain3 = Tables3
    /\ \A x \in Base3 : \A t \in DOMAIN x : Chain3[t] = x[t]
<1> DEFINE a == CreateMissing(Accounts001, Flights001)
           b == CreateMissing(a, Reports001)
           c == CreateMissing(b, Uploads002)
           d == CreateMissing(c, Notifications003)
<1>0. Chain3 = d
  BY DEF Chain3, Tables001
<1>a. \A x \in Sources : Shape(x)
  BY SourcesPlain
<1>1. /\ Shape(a) /\ DOMAIN a = DOMAIN Accounts001 \cup DOMAIN Flights001
      /\ \A t \in DOMAIN Accounts001 : a[t] = Accounts001[t]
      /\ \A t \in DOMAIN Flights001 \ DOMAIN Accounts001 : a[t] = Flights001[t]
  BY <1>a, Created, SourcesNamed
<1> HIDE DEF a
<1>2. /\ Shape(b) /\ DOMAIN b = DOMAIN a \cup DOMAIN Reports001
      /\ \A t \in DOMAIN a : b[t] = a[t]
      /\ \A t \in DOMAIN Reports001 \ DOMAIN a : b[t] = Reports001[t]
  BY <1>1, <1>a, Created, SourcesNamed
<1> HIDE DEF b
<1>3. /\ Shape(c) /\ DOMAIN c = DOMAIN b \cup DOMAIN Uploads002
      /\ \A t \in DOMAIN b : c[t] = b[t]
      /\ \A t \in DOMAIN Uploads002 \ DOMAIN b : c[t] = Uploads002[t]
  BY <1>2, <1>a, Created, SourcesNamed
<1> HIDE DEF c
<1>4. /\ Shape(d) /\ DOMAIN d = DOMAIN c \cup DOMAIN Notifications003
      /\ \A t \in DOMAIN c : d[t] = c[t]
      /\ \A t \in DOMAIN Notifications003 \ DOMAIN c : d[t] = Notifications003[t]
  BY <1>3, <1>a, Created, SourcesNamed
<1> HIDE DEF d
<1>5. DOMAIN a = {"tenants", "subscriptions", "projects", "flights", "processing_jobs", "flight_assets"}
  BY <1>1, SourceTables
<1>6. DOMAIN b = DOMAIN a \cup {"reports", "report_sections"}
  BY <1>2, SourceTables
<1>7. DOMAIN c = DOMAIN b \cup {"uploads", "activity_logs"}
  BY <1>3, SourceTables
<1>8. DOMAIN d = Tables3
  BY <1>4, <1>5, <1>6, <1>7, SourceTables DEF Tables3
<1>9. \A t \in DOMAIN a : d[t] = a[t]
  BY <1>2, <1>3, <1>4
<1>10. \A t \in DOMAIN Accounts001 \cup DOMAIN Flights001 : t \in DOMAIN a
  BY <1>1
<1>11. /\ \A t \in DOMAIN Accounts001 : d[t] = Accounts001[t]
       /\ \A t \in DOMAIN Flights001 : d[t] = Flights001[t]
  <2>1. DOMAIN Accounts001 \cap DOMAIN Flights001 = {}
    BY SourceTables
  <2> QED BY <1>1, <1>9, <1>10, <2>1
<1>12. \A t \in DOMAIN Reports001 : d[t] = Reports001[t]
  <2>1. DOMAIN Reports001 \cap DOMAIN a = {}
    BY <1>5, SourceTables
  <2> QED BY <1>2, <1>3, <1>4, <2>1
<1>13. \A t \in DOMAIN Uploads002 : d[t] = Uploads002[t]
  <2>1. DOMAIN Uploads002 \cap DOMAIN b = {}
    BY <1>5, <1>6, SourceTables
  <2> QED BY <1>3, <1>4, <2>1
<1>14. \A t \in DOMAIN Notifications003 : d[t] = Notifications003[t]
  <2>1. DOMAIN Notifications003 \cap DOMAIN c = {}
    BY <1>5, <1>6, <1>7, SourceTables
  <2> QED BY <1>4, <2>1
<1>15. Shape(d)
  BY <1>4
<1> HIDE DEF d
<1> QED BY <1>0, <1>8, <1>11, <1>12, <1>13, <1>14, <1>15 DEF Base3

\* It is known, and so are those that were stamped without revision 002 or had other columns.
LEMMA KnownFrom ==
    ASSUME NEW r,
           \A t \in DOMAIN r : t \in Tables3,
           \A t \in Tables3 : t \in DOMAIN r \/ t \in DOMAIN Uploads002,
           \A t \in DOMAIN r : r[t] = Chain3[t] \/ t \in {"reports", "report_sections", "notifications"},
           "status" \in r["reports"], {"user_id", "user_id uuid"} \cap r["notifications"] # {}
    PROVE  Known(r)
<1>1. /\ \A t \in DOMAIN Accounts001 : Chain3[t] = Accounts001[t]
      /\ \A t \in DOMAIN Flights001 : Chain3[t] = Flights001[t]
      /\ \A t \in DOMAIN Uploads002 : Chain3[t] = Uploads002[t]
  BY Chain3Is DEF Base3
<1>2. Holds(r, Accounts001)
  <2>1. ASSUME NEW t \in DOMAIN Accounts001 PROVE t \in DOMAIN r /\ r[t] = Accounts001[t]
    BY <1>1, SourceTables DEF Tables3
  <2> QED BY <2>1 DEF Holds, Exists
<1>3. Holds(r, Flights001)
  <2>1. ASSUME NEW t \in DOMAIN Flights001 PROVE t \in DOMAIN r /\ r[t] = Flights001[t]
    BY <1>1, SourceTables DEF Tables3
  <2> QED BY <2>1 DEF Holds, Exists
<1>4. Agrees(r, Uploads002)
  <2>1. ASSUME NEW t \in DOMAIN Uploads002, t \in DOMAIN r PROVE r[t] = Uploads002[t]
    BY <1>1, <2>1, SourceTables
  <2> QED BY <2>1 DEF Agrees, Exists
<1>5. Exists(r, "reports") /\ Exists(r, "report_sections") /\ Exists(r, "notifications")
  BY SourceTables DEF Tables3, Exists
<1>6. \A x \in {Presets004, Fiscal005, Rules005, Metrology005} : \A t \in DOMAIN x : t \notin Tables3
  BY SourceTables DEF Tables3
<1>7. \A x \in {Presets004, Fiscal005, Rules005, Metrology005} : Agrees(r, x)
  BY <1>6 DEF Agrees, Exists
<1> QED BY <1>2, <1>3, <1>4, <1>5, <1>7 DEF Known

\* The database at revision 3 is known.
LEMMA Chain3Known == Known(Chain3)
<1>1. Chain3["reports"] = Reports001["reports"] /\ Chain3["notifications"] = Notifications003["notifications"]
  BY Chain3Is, SourceTables DEF Base3
<1>2. "status" \in Reports001["reports"] /\ "user_id" \in Notifications003["notifications"]
  BY DEF Reports001, Notifications003
<1>3. \A t \in DOMAIN Chain3 : t \in Tables3
  BY Chain3Is
<1>4. \A t \in Tables3 : t \in DOMAIN Chain3
  BY Chain3Is
<1> QED BY <1>1, <1>2, <1>3, <1>4, KnownFrom

-----------------------------------------------------------------------------
\* An empty database: the first three revisions make it Chain3.
LEMMA CreatedOnEmpty == ASSUME NEW x, Shape(x) PROVE CreateMissing(EmptySchema, x) = x
<1>1. DOMAIN EmptySchema = {}
  BY DEF EmptySchema
<1>2. x = [t \in DOMAIN x |-> x[t]]
  BY DEF Shape
<1>3. CreateMissing(EmptySchema, x) = [t \in DOMAIN x |-> x[t]]
  BY <1>1 DEF CreateMissing, Exists
<1> QED BY <1>2, <1>3

\* An empty schema has no table.
LEMMA EmptyShape == Shape(EmptySchema) /\ DOMAIN EmptySchema = {}
BY DEF EmptySchema, Shape

\* Every revision applies to an empty database, and the last stage is reached.
LEMMA FromEmpty == AllApply(0, EmptySchema) /\ Stage(11, Upgraded(0, EmptySchema))
<1>1. PICK f : /\ f[0] = EmptySchema /\ \A k \in 0 + 1..11 : f[k] = Revision(k, f[k - 1])
               /\ Upgraded(0, EmptySchema) = f[11]
               /\ AllApply(0, EmptySchema) <=> \A k \in 0 + 1..11 : Applicable(k, f[k - 1])
  BY UpgradeIsChain
<1>2. /\ f[1] = Revision(1, f[0]) /\ f[2] = Revision(2, f[1]) /\ f[3] = Revision(3, f[2])
      /\ \A k \in 3 + 1..11 : f[k] = Revision(k, f[k - 1])
  BY <1>1
<1>3. f[1] = Tables001
  BY <1>1, <1>2, CreatedOnEmpty, RevisionsAre, TablesShape
<1>4. f[2] = CreateMissing(Tables001, Uploads002)
  BY <1>2, <1>3, RevisionsAre
<1>5. f[3] = Chain3
  BY <1>2, <1>4, RevisionsAre DEF Chain3
<1>6. DOMAIN f[2] = DOMAIN Tables001 \cup DOMAIN Uploads002
  BY <1>4, Created
<1>7. Applicable(1, f[0]) /\ Applicable(2, f[1]) /\ Applicable(3, f[2])
  <2>1. Applicable(1, f[0])
    BY <1>1, ApplicableAre, EmptyShape
  <2>2. Applicable(2, f[1])
    <3>1. DOMAIN Uploads002 \cap DOMAIN Tables001 = {} /\ Exists(Tables001, "projects")
      BY TablesShape, SourceTables DEF Exists
    <3> QED BY <1>3, <3>1, ApplicableAre
  <2>3. Applicable(3, f[2])
    <3>1. ~Exists(f[2], "notifications")
      BY <1>6, TablesShape, SourceTables DEF Exists
    <3> QED BY <3>1, ApplicableAre
  <2> QED BY <2>1, <2>2, <2>3
<1>8. Stage(3, f[3]) /\ Shape(f[3])
  BY <1>5, Chain3Is, Chain3Known DEF Stage
<1>9. /\ \A k \in 3..11 : Stage(k, f[k]) /\ Shape(f[k])
      /\ \A k \in 3 + 1..11 : Applicable(k, f[k - 1])
  BY <1>2, <1>8, ChainStages
<1>10. ASSUME NEW k \in 0 + 1..11 PROVE Applicable(k, f[k - 1])
  <2>1. k = 1 \/ k = 2 \/ k = 3 \/ k \in 3 + 1..11
    OBVIOUS
  <2>2. 1 - 1 = 0 /\ 2 - 1 = 1 /\ 3 - 1 = 2
    OBVIOUS
  <2> QED BY <1>7, <1>9, <2>1, <2>2
<1> QED BY <1>1, <1>9, <1>10

\* At the head, a database has what an empty one gets.
LEMMA CanonicalHeld == ASSUME NEW s, Stage(11, s) PROVE Holds(s, Canonical)
<1>1. PICK f : /\ f[0] = EmptySchema /\ \A k \in 0 + 1..11 : f[k] = Revision(k, f[k - 1])
               /\ Upgraded(0, EmptySchema) = f[11]
  BY UpgradeIsChain
<1> DEFINE Bad == {j \in Nat : j <= 11 /\ ~ (Holds(s, f[j]) /\ Shape(f[j]))}
<1>2. 0 \notin Bad
  BY <1>1, EmptyShape DEF Holds
<1>3. ASSUME NEW j \in Nat, j \notin Bad PROVE j + 1 \notin Bad
  <2> SUFFICES ASSUME j + 1 <= 11 PROVE Holds(s, f[j + 1]) /\ Shape(f[j + 1])
    OBVIOUS
  <2>1. j <= 11 /\ j + 1 \in 0 + 1..11 /\ j + 1 \in 1..11 /\ (j + 1) - 1 = j
    BY SMT
  <2>2. Holds(s, f[j]) /\ Shape(f[j])
    BY <1>3, <2>1
  <2>3. f[j + 1] = Revision(j + 1, f[j])
    BY <1>1, <2>1
  <2> QED BY <2>1, <2>2, <2>3, HoldsRevision, RevisionGrows
<1>4. Bad = {}
  <2>1. SUFFICES ASSUME Bad # {} PROVE FALSE
    OBVIOUS
  <2>2. Bad \subseteq Nat
    OBVIOUS
  <2> HIDE DEF Bad
  <2>3. PICK m \in Bad : \A j \in Bad : m <= j
    BY <2>1, <2>2, LeastNatural
  <2>4. m - 1 \in Nat /\ m - 1 \notin Bad /\ (m - 1) + 1 = m
    BY <1>2, <2>2, <2>3
  <2> QED BY <1>3, <2>4
<1>5. Holds(s, f[11])
  <2>1. 11 \notin Bad
    BY <1>4
  <2> QED BY <2>1
<1> QED BY <1>1, <1>5 DEF Canonical

\* Where a script has made notifications, no upgrade from an empty database goes through.
Begun(s) == Exists(s, "notifications") /\ ~Exists(s, "projects") /\ ~Exists(s, "reports")

\* Revision 003 finds the notifications of the script.
LEMMA BegunFails == ASSUME NEW s, Shape(s), Begun(s) PROVE ~AllApply(0, s)
<1>1. PICK f : /\ f[0] = s /\ \A k \in 0 + 1..11 : f[k] = Revision(k, f[k - 1])
               /\ AllApply(0, s) <=> \A k \in 0 + 1..11 : Applicable(k, f[k - 1])
  BY UpgradeIsChain
<1>2. f[1] = Revision(1, s) /\ f[2] = Revision(2, f[1])
  BY <1>1
<1>3. Shape(f[1]) /\ Grows(s, f[1])
  BY <1>2, RevisionGrows
<1>4. Grows(f[1], f[2])
  BY <1>2, <1>3, RevisionGrows
<1>5. Exists(f[2], "notifications")
  BY <1>3, <1>4 DEF Begun, Grows, Exists
<1>6. ~Applicable(3, f[2])
  BY <1>5, ApplicableAre
<1>7. 3 \in 0 + 1..11 /\ 3 - 1 = 2
  OBVIOUS
<1> QED BY <1>1, <1>6, <1>7

\* What a script does to a schema that is there: new tables of the sources, and nothing else.
Extends(s, r) ==
    /\ Shape(r) /\ Grows(s, r)
    /\ \A t \in DOMAIN s : t # "report_config_presets" => t \in DOMAIN r /\ r[t] = s[t]
    /\ \A x \in Sources : Agrees(s, x) => Agrees(r, x)

\* Two scripts do no more than one.
LEMMA ExtendsOn == ASSUME NEW s, NEW r, NEW q, Extends(s, r), Extends(r, q) PROVE Extends(s, q)
<1>1. Grows(s, q)
  BY GrowsOn DEF Extends
<1> QED BY <1>1 DEF Extends

\* CREATE TABLE IF NOT EXISTS does no more.
LEMMA CreatedExtends ==
    ASSUME NEW s, Shape(s), NEW y, Shape(y), \A x \in Sources : Agrees(y, x)
    PROVE  Extends(s, CreateMissing(s, y))
<1>1. /\ Grows(s, CreateMissing(s, y)) /\ Shape(CreateMissing(s, y))
      /\ DOMAIN CreateMissing(s, y) = DOMAIN s \cup DOMAIN y
      /\ \A t \in DOMAIN s : CreateMissing(s, y)[t] = s[t]
  BY Created
<1>2. \A x \in Sources : Agrees(s, x) => Agrees(CreateMissing(s, y), x)
  BY SourcesPlain, AgreesFilled
<1> QED BY <1>1, <1>2 DEF Extends

\* A known database stays known, with the same reports.
LEMMA ExtendsKnown ==
    ASSUME NEW s, NEW r, Known(s), Extends(s, r) PROVE Known(r) /\ r["reports"] = s["reports"]
<1>1. Holds(r, Accounts001) /\ Holds(r, Flights001)
  BY Keeps, SourcesNamed DEF Known, Extends
<1>2. /\ Exists(r, "reports") /\ r["reports"] = s["reports"] /\ Exists(r, "report_sections")
      /\ Exists(r, "notifications") /\ r["notifications"] = s["notifications"]
  BY DEF Known, Extends, Exists
<1>3. /\ Agrees(r, Uploads002) /\ Agrees(r, Presets004)
      /\ Agrees(r, Fiscal005) /\ Agrees(r, Rules005) /\ Agrees(r, Metrology005)
  BY SourcesNamed DEF Known, Extends
<1> QED BY <1>1, <1>2, <1>3 DEF Known

\* Two of the fiscal tables at a time.
LEMMA FiscalPart ==
    ASSUME NEW T \in SUBSET {"parcels", "ai_detections", "analysis_runs", "discrepancies"}
    PROVE  /\ Shape(Restrict(Fiscal005, T)) /\ DOMAIN Restrict(Fiscal005, T) = T
           /\ \A x \in Sources : Agrees(Restrict(Fiscal005, T), x)
<1>1. DOMAIN Restrict(Fiscal005, T) = T /\ \A t \in T : Restrict(Fiscal005, T)[t] = Fiscal005[t]
  BY DEF Restrict
<1>2. Restrict(Fiscal005, T) = [t \in DOMAIN Restrict(Fiscal005, T) |-> Restrict(Fiscal005, T)[t]]
  BY DEF Restrict
<1>3. Shape(Fiscal005) /\ \A x \in Sources : Agrees(Fiscal005, x)
  BY SourcesPlain, SourcesAgree, SourcesNamed
<1>4. \A t \in T : t \in DOMAIN Fiscal005 /\ IsFiniteSet(Fiscal005[t])
  BY <1>3, SourceTables DEF Shape
<1>5. Shape(Restrict(Fiscal005, T))
  BY <1>1, <1>2, <1>4 DEF Shape
<1>6. \A x \in Sources : Agrees(Restrict(Fiscal005, T), x)
  BY <1>1, <1>3, <1>4 DEF Agrees, Exists
<1> QED BY <1>1, <1>5, <1>6

\* The three scripts.
LEMMA FiscalSqlExtends ==
    ASSUME NEW s, Shape(s)
    PROVE  /\ Extends(s, FiscalSql(s))
           /\ Exists(FiscalSql(s), "notifications")
           /\ ~Exists(s, "projects") /\ ~Exists(s, "reports")
                 => ~Exists(FiscalSql(s), "projects") /\ ~Exists(FiscalSql(s), "reports")
<1> DEFINE first == Restrict(Fiscal005, {"parcels", "ai_detections"})
           later == Restrict(Fiscal005, {"analysis_runs", "discrepancies"})
           a == CreateMissing(s, first)
           b == CreateMissing(a, Rules005)
           c == CreateMissing(b, Notifications003)
           d == CreateMissing(c, later)
           e == CreateMissing(d, Reports001)
<1>0. FiscalSql(s) = IF Exists(s, "projects") THEN e ELSE c
  BY DEF FiscalSql
<1>a. /\ Shape(first) /\ DOMAIN first = {"parcels", "ai_detections"} /\ \A x \in Sources : Agrees(first, x)
      /\ Shape(later) /\ \A x \in Sources : Agrees(later, x)
  BY FiscalPart
<1>b. \A y \in Sources : Shape(y) /\ \A x \in Sources : Agrees(y, x)
  BY SourcesPlain, SourcesAgree
<1> HIDE DEF first, later
<1>1. Extends(s, a) /\ DOMAIN a = DOMAIN s \cup DOMAIN first
  BY <1>a, CreatedExtends, Created
<1> HIDE DEF a
<1>2. Extends(a, b) /\ DOMAIN b = DOMAIN a \cup DOMAIN Rules005
  <2>1. Shape(a)
    BY <1>1 DEF Extends
  <2> QED BY <1>b, <2>1, CreatedExtends, Created, SourcesNamed
<1> HIDE DEF b
<1>3. Extends(b, c) /\ DOMAIN c = DOMAIN b \cup DOMAIN Notifications003
  <2>1. Shape(b)
    BY <1>2 DEF Extends
  <2> QED BY <1>b, <2>1, CreatedExtends, Created, SourcesNamed
<1> HIDE DEF c
<1>4. Extends(c, d) /\ DOMAIN c \subseteq DOMAIN d
  <2>1. Shape(c)
    BY <1>3 DEF Extends
  <2>2. DOMAIN d = DOMAIN c \cup DOMAIN later
    BY Created
  <2> HIDE DEF d
  <2>3. DOMAIN c \subseteq DOMAIN d
    BY <2>2
  <2>4. Extends(c, d)
    BY <1>a, <2>1, CreatedExtends DEF d
  <2> QED BY <2>3, <2>4
<1> HIDE DEF d
<1>5. Extends(d, e) /\ DOMAIN d \subseteq DOMAIN e
  <2>1. Shape(d)
    BY <1>4 DEF Extends
  <2>2. DOMAIN e = DOMAIN d \cup DOMAIN Reports001
    BY Created
  <2>3. Extends(d, e)
    BY <1>b, <2>1, CreatedExtends, SourcesNamed
  <2> HIDE DEF e
  <2> QED BY <2>2, <2>3
<1> HIDE DEF e
<1>6. Extends(s, c)
  BY <1>1, <1>2, <1>3, ExtendsOn
<1>7. Extends(s, e)
  BY <1>4, <1>5, <1>6, ExtendsOn
<1>8. "notifications" \in DOMAIN c /\ "notifications" \in DOMAIN e
  BY <1>3, <1>4, <1>5, SourceTables
<1>9. DOMAIN c = ((DOMAIN s \cup {"parcels", "ai_detections"}) \cup
                   {"iptu_rule_sets", "iptu_rules", "measurements"}) \cup {"notifications"}
  BY <1>1, <1>2, <1>3, <1>a, SourceTables
<1>10. /\ "projects" \in DOMAIN c => "projects" \in DOMAIN s
       /\ "reports" \in DOMAIN c => "reports" \in DOMAIN s
  BY <1>9
<1> QED BY <1>0, <1>6, <1>7, <1>8, <1>10 DEF Exists

\* ... 002_ai_measurements.sql.
LEMMA MetrologySqlExtends ==
    ASSUME NEW s, Shape(s)
    PROVE  Extends(s, MetrologySql(s)) /\ (~Exists(s, "projects") => MetrologySql(s) = s)
<1>1. Extends(s, s)
  BY DEF Extends, Grows, Exists
<1>2. Extends(s, CreateMissing(s, Metrology005))
  BY SourcesPlain, SourcesAgree, SourcesNamed, CreatedExtends
<1> QED BY <1>1, <1>2 DEF MetrologySql

\* ... 003_report_config_presets.sql.
LEMMA PresetsSqlExtends ==
    ASSUME NEW s, Shape(s)
    PROVE  /\ Extends(s, PresetsSql(s))
           /\ \A t \in DOMAIN PresetsSql(s) : t \in DOMAIN s \/ t = "report_config_presets"
<1> DEFINE a == CreateMissing(s, Presets004)
           b == AddColumns(a, "report_config_presets", {"unique version"})
<1>0. PresetsSql(s) = b
  BY DEF PresetsSql
<1>1. Extends(s, a) /\ DOMAIN a = DOMAIN s \cup DOMAIN Presets004
  BY SourcesPlain, SourcesAgree, SourcesNamed, CreatedExtends, Created
<1> HIDE DEF a
<1>2. Shape(a)
  BY <1>1 DEF Extends
<1>3. /\ DOMAIN b = DOMAIN a /\ Grows(a, b) /\ Shape(b)
      /\ \A t \in DOMAIN a : t # "report_config_presets" => b[t] = a[t]
  <2>1. PICK cols : IsFiniteSet(cols) /\ b = AddColumns(a, "report_config_presets", cols)
    BY ColumnsFinite
  <2> HIDE DEF b
  <2> QED BY <1>2, <2>1, Added
<1> HIDE DEF b
<1>4. \A x \in Sources : Agrees(a, x) => Agrees(b, x)
  BY <1>3, SourcesPlain, AgreesStill DEF Exists
<1>5. Extends(a, b)
  BY <1>3, <1>4 DEF Extends
<1>6. Extends(s, b)
  BY <1>1, <1>5, ExtendsOn
<1> QED BY <1>0, <1>1, <1>3, <1>6, SourceTables

\* A script on a schema of revision 0.
LEMMA ScriptsBegin ==
    ASSUME NEW s, Shape(s), s = EmptySchema \/ Begun(s)
    PROVE  /\ Begun(FiscalSql(s))
           /\ Begun(s) => Begun(MetrologySql(s)) /\ Begun(PresetsSql(s))
<1>1. Begun(FiscalSql(s))
  BY EmptyShape, FiscalSqlExtends DEF Begun, Exists
<1>2. ASSUME Begun(s) PROVE Begun(MetrologySql(s))
  <2>1. MetrologySql(s) = s
    BY <1>2, MetrologySqlExtends DEF Begun
  <2> QED BY <1>2, <2>1
<1>3. ASSUME Begun(s) PROVE Begun(PresetsSql(s))
  <2>1. "notifications" \in DOMAIN PresetsSql(s)
    BY <1>3, PresetsSqlExtends DEF Begun, Extends, Exists
  <2>2. "projects" \notin DOMAIN PresetsSql(s) /\ "reports" \notin DOMAIN PresetsSql(s)
    BY <1>3, PresetsSqlExtends DEF Begun, Exists
  <2> QED BY <2>1, <2>2 DEF Begun, Exists
<1> QED BY <1>1, <1>2, <1>3

\* The report of a database at revision 3: no old column, or all of them and no new one.
OldReport(s) ==
    \/ "file_path" \notin s["reports"]
    \/ Old \subseteq s["reports"] /\ New \cap s["reports"] = {}

\* The columns of an old report.
LEMMA OldColumns ==
    /\ IsFiniteSet({"status"} \cup Old) /\ IsFiniteSet({"section_order"}) /\ IsFiniteSet({"user_id uuid"})
    /\ "file_path" \in Old /\ New \cap ({"status"} \cup Old) = {}
<1>1. IsFiniteSet(Old)
  BY SmallerIsFinite, Zenon DEF Old
<1>2. IsFiniteSet({"status"} \cup Old)
  BY <1>1, SmallerIsFinite, FS_Union
<1>3. "file_path" \in Old /\ New \cap ({"status"} \cup Old) = {}
  BY DEF Old, New
<1>4. IsFiniteSet({"section_order"}) /\ IsFiniteSet({"user_id uuid"})
  BY SmallerIsFinite, Zenon
<1> QED BY <1>2, <1>3, <1>4

\* Another shape for a table that is there.
LEMMA LegacyGives ==
    ASSUME NEW s, NEW t, NEW shape, NEW yes, Shape(s), IsFiniteSet(shape), t \in DOMAIN s
    PROVE  /\ Shape(Legacy(s, t, shape, yes)) /\ DOMAIN Legacy(s, t, shape, yes) = DOMAIN s
           /\ \A u \in DOMAIN s : u # t => Legacy(s, t, shape, yes)[u] = s[u]
           /\ Legacy(s, t, shape, yes)[t] = IF yes THEN shape ELSE s[t]
<1> DEFINE r == [s EXCEPT ![t] = shape]
<1>1. DOMAIN r = DOMAIN s /\ r[t] = shape /\ \A u \in DOMAIN s : u # t => r[u] = s[u]
  BY DEF Shape
<1>2. r = [u \in DOMAIN r |-> r[u]]
  BY DEF Shape
<1>3. Legacy(s, t, shape, yes) = IF yes THEN r ELSE s
  BY DEF Legacy
<1> HIDE DEF r
<1>4. Shape(r)
  BY <1>1, <1>2 DEF Shape
<1>5. CASE yes
  BY <1>1, <1>3, <1>4, <1>5
<1>6. CASE ~yes
  BY <1>3, <1>6
<1> QED BY <1>5, <1>6

\* A database that was stamped, without the tables of revision 002.
LEMMA StampedGives ==
    ASSUME NEW yes
    PROVE  /\ Shape(Stamped(Chain3, yes))
           /\ \A t \in DOMAIN Stamped(Chain3, yes) : t \in Tables3 /\ Stamped(Chain3, yes)[t] = Chain3[t]
           /\ \A t \in Tables3 : t \in DOMAIN Stamped(Chain3, yes) \/ t \in DOMAIN Uploads002
<1> DEFINE T == DOMAIN Chain3 \ DOMAIN Uploads002
           r == Restrict(Chain3, T)
<1>1. DOMAIN r = T /\ \A t \in T : r[t] = Chain3[t]
  BY DEF Restrict
<1>2. r = [t \in DOMAIN r |-> r[t]]
  BY DEF Restrict
<1>3. Stamped(Chain3, yes) = IF yes THEN r ELSE Chain3
  BY DEF Stamped
<1>4. T \subseteq DOMAIN Chain3 /\ \A t \in Tables3 : t \in T \/ t \in DOMAIN Uploads002
  BY Chain3Is
<1>5. Shape(Chain3) /\ DOMAIN Chain3 = Tables3
  BY Chain3Is
<1> HIDE DEF r, T
<1>6. Shape(r)
  BY <1>1, <1>2, <1>4, <1>5 DEF Shape
<1>7. CASE yes
  BY <1>1, <1>3, <1>4, <1>5, <1>6, <1>7
<1>8. CASE ~yes
  BY <1>3, <1>5, <1>8
<1> QED BY <1>7, <1>8

\* The scripts on a known database.
LEMMA ScriptedKnown ==
    ASSUME NEW s, NEW yes, Shape(s), Known(s)
    PROVE  /\ Shape(Scripted(s, yes)) /\ Known(Scripted(s, yes))
           /\ Scripted(s, yes)["reports"] = s["reports"]
<1> DEFINE a == FiscalSql(s)
           b == MetrologySql(a)
           c == PresetsSql(b)
<1>0. Scripted(s, yes) = IF yes THEN c ELSE s
  BY DEF Scripted
<1>1. Shape(a) /\ Extends(s, a)
  BY FiscalSqlExtends DEF Extends
<1> HIDE DEF a
<1>2. Shape(b) /\ Extends(a, b)
  BY <1>1, MetrologySqlExtends DEF Extends
<1> HIDE DEF b
<1>3. Shape(c) /\ Extends(b, c)
  BY <1>2, PresetsSqlExtends DEF Extends
<1> HIDE DEF c
<1>4. Extends(s, c)
  BY <1>1, <1>2, <1>3, ExtendsOn
<1>5. Known(c) /\ c["reports"] = s["reports"]
  BY <1>4, ExtendsKnown
<1> QED BY <1>0, <1>3, <1>5

\* Every database in the field is at the third stage, with an old report or none.
LEMMA FieldKnown == ASSUME NEW s \in InTheField PROVE Shape(s) /\ Known(s) /\ OldReport(s)
<1>1. PICK b \in [1..5 -> BOOLEAN] :
        s = Scripted(Legacy(Legacy(Legacy(Stamped(Chain3, b[1]),
                "reports", {"status"} \cup Old, b[2]),
                "report_sections", {"section_order"}, b[3]),
                "notifications", {"user_id uuid"}, b[4]), b[5])
  BY DEF InTheField
<1> DEFINE p == Stamped(Chain3, b[1])
           report == {"status"} \cup Old
           section == {"section_order"}
           notice == {"user_id uuid"}
           q == Legacy(p, "reports", report, b[2])
           u == Legacy(q, "report_sections", section, b[3])
           v == Legacy(u, "notifications", notice, b[4])
<1>3. s = Scripted(v, b[5])
  BY <1>1
<1>4. /\ Shape(p) /\ \A t \in DOMAIN p : t \in Tables3 /\ p[t] = Chain3[t]
      /\ \A t \in Tables3 : t \in DOMAIN p \/ t \in DOMAIN Uploads002
  BY StampedGives
<1> HIDE DEF p
<1>5. {"reports", "report_sections", "notifications"} \subseteq DOMAIN p
  BY <1>4, SourceTables DEF Tables3
<1>a. /\ IsFiniteSet(report) /\ IsFiniteSet(section) /\ IsFiniteSet(notice)
  BY OldColumns
<1> HIDE DEF report, section, notice
<1>6. /\ Shape(q) /\ DOMAIN q = DOMAIN p /\ \A t \in DOMAIN p : t # "reports" => q[t] = p[t]
      /\ q["reports"] = IF b[2] THEN report ELSE p["reports"]
  BY <1>4, <1>5, <1>a, LegacyGives
<1> HIDE DEF q
<1>7. /\ Shape(u) /\ DOMAIN u = DOMAIN p /\ \A t \in DOMAIN p : t # "report_sections" => u[t] = q[t]
  BY <1>5, <1>6, <1>a, LegacyGives
<1> HIDE DEF u
<1>8. /\ Shape(v) /\ DOMAIN v = DOMAIN p /\ \A t \in DOMAIN p : t # "notifications" => v[t] = u[t]
      /\ v["notifications"] = IF b[4] THEN notice ELSE u["notifications"]
  BY <1>5, <1>7, <1>a, LegacyGives
<1> HIDE DEF v
<1>9. /\ v["reports"] = IF b[2] THEN report ELSE Chain3["reports"]
      /\ v["notifications"] = IF b[4] THEN notice ELSE Chain3["notifications"]
      /\ \A t \in DOMAIN p : t \notin {"reports", "report_sections", "notifications"} => v[t] = Chain3[t]
  BY <1>4, <1>5, <1>6, <1>7, <1>8
<1>10. /\ Chain3["reports"] = Reports001["reports"]
       /\ Chain3["notifications"] = Notifications003["notifications"]
  BY Chain3Is, SourceTables DEF Base3
<1>11. /\ "status" \in Reports001["reports"] /\ "user_id" \in Notifications003["notifications"]
       /\ "file_path" \notin Reports001["reports"]
  BY DEF Reports001, Notifications003
<1>12. "status" \in v["reports"] /\ {"user_id", "user_id uuid"} \cap v["notifications"] # {}
  BY <1>9, <1>10, <1>11 DEF report, notice
<1>13. Known(v)
  <2>1. /\ \A t \in DOMAIN v : t \in Tables3
        /\ \A t \in Tables3 : t \in DOMAIN v \/ t \in DOMAIN Uploads002
        /\ \A t \in DOMAIN v : v[t] = Chain3[t] \/ t \in {"reports", "report_sections", "notifications"}
    BY <1>4, <1>8, <1>9
  <2> QED BY <1>12, <2>1, KnownFrom
<1>14. OldReport(v)
  BY <1>9, <1>10, <1>11, OldColumns DEF OldReport, report
<1>15. Shape(s) /\ Known(s) /\ s["reports"] = v["reports"]
  BY <1>3, <1>8, <1>13, ScriptedKnown
<1> QED BY <1>14, <1>15 DEF OldReport

-----------------------------------------------------------------------------
\* The inductive invariant.  At revision 0 the database is empty or begun by a script, at 3 it is
\* known, at the head it has everything; a boot past an upgrade that was not lost is at the head
\* unless a script came first; and the report's old values are still where revision 005 reads them.
UpgradesTyped ==
    /\ rev \in {0, 3, 11} /\ Shape(pub)
    /\ row \in [Old \cup New -> {"legacy", "default", "null"}]
    /\ step \in {"down", "alembic", "fiscal", "metrology", "presets", "up"}

Staged ==
    /\ rev = 0 => pub = EmptySchema \/ (Begun(pub) /\ sqlFirst)
    /\ rev = 0 /\ step \in {"metrology", "presets"} => Begun(pub)
    /\ rev # 0 => Stage(rev, pub)

Passes == step \in {"fiscal", "metrology", "presets", "up"} /\ ~failed /\ rev # 11 => sqlFirst

RowsKept ==
    /\ rev = 0 => row["file_path"] = "null"
    /\ rev = 3 => \/ row["file_path"] = "null"
                  \/ /\ Old \subseteq pub["reports"] /\ New \cap pub["reports"] = {}
                     /\ \A c \in Old : row[c] = "legacy"

UpgradesInv == UpgradesTyped /\ Staged /\ Passes /\ RowsKept /\ ReportKept

\* Every database in the field satisfies the invariant.
LEMMA InitUpgradesInv == UpgradesInit => UpgradesInv
<1> SUFFICES ASSUME UpgradesInit PROVE UpgradesInv
  OBVIOUS
<1>0. /\ row = [c \in Old \cup New |-> IF Has(pub, "reports", c) THEN "legacy" ELSE "null"]
      /\ step = "down" /\ ((rev = 0 /\ pub = EmptySchema) \/ (rev = 3 /\ pub \in InTheField))
  BY DEF UpgradesInit
<1>1. Shape(pub)
  BY <1>0, EmptyShape, FieldKnown
<1>2. UpgradesTyped
  BY <1>0, <1>1 DEF UpgradesTyped
<1>3. Staged
  BY <1>0, FieldKnown DEF Staged, Stage
<1>4. Passes /\ ReportKept
  BY <1>0 DEF Passes, ReportKept, HeadRevision
<1>5. RowsKept
  <2>1. "file_path" \in Old \cup New
    BY DEF Old
  <2>2. ASSUME rev = 0 PROVE row["file_path"] = "null"
    BY <1>0, <2>1, <2>2, EmptyShape DEF Has, Exists
  <2>3. ASSUME rev = 3, "file_path" \notin pub["reports"] PROVE row["file_path"] = "null"
    BY <1>0, <2>1, <2>3 DEF Has
  <2>4. ASSUME rev = 3, Old \subseteq pub["reports"] PROVE \A c \in Old : row[c] = "legacy"
    <3>0. Known(pub)
      BY <1>0, <2>4, FieldKnown
    <3>1. Exists(pub, "reports")
      BY <3>0 DEF Known
    <3> QED BY <1>0, <2>4, <3>1 DEF Has
  <2> QED BY <1>0, <2>2, <2>3, <2>4, FieldKnown DEF RowsKept, OldReport
<1> QED BY <1>2, <1>3, <1>4, <1>5 DEF UpgradesInv

\* The copies of revision 005: the row keeps its columns, and what was old is in the new columns.
LEMMA CopyKeeps ==
    ASSUME NEW r \in [Old \cup New -> {"legacy", "default", "null"}], NEW s, Exists(s, "reports")
    PROVE  /\ Copy(r, s) \in [Old \cup New -> {"legacy", "default", "null"}]
           /\ Copy(r, s)["file_path"] = r["file_path"]
           /\ Old \subseteq s["reports"] /\ New \cap s["reports"] = {} /\ (\A c \in Old : r[c] = "legacy") =>
                 \A c \in {"config", "file_key", "requested_by"} : Copy(r, s)[c] = "legacy"
<1> DEFINE added == [c \in DOMAIN r |->
                        IF c \in New /\ ~Has(s, "reports", c)
                        THEN IF c \in {"output_format", "config"} THEN "default" ELSE "null"
                        ELSE r[c]]
           Copied(new, old, when) ==
                IF Has(s, "reports", old) /\ added[new] \in when /\ added[old] # "null"
                THEN added[old] ELSE added[new]
           o == Copied("output_format", "format", {"null"})
           p == Copied("config", "parameters", {"null", "default"})
           k == Copied("file_key", "file_path", {"null"})
           g == Copied("requested_by", "generated_by", {"null"})
<1>0. DOMAIN r = Old \cup New
  OBVIOUS
<1>1. /\ added \in [Old \cup New -> {"legacy", "default", "null"}]
      /\ \A c \in Old : added[c] = r[c]
      /\ New \cap s["reports"] = {} => /\ added["config"] = "default" /\ added["file_key"] = "null"
                                       /\ added["requested_by"] = "null"
  <2>1. ASSUME NEW c \in Old \cup New PROVE added[c] \in {"legacy", "default", "null"}
    BY <1>0
  <2>2. added \in [Old \cup New -> {"legacy", "default", "null"}]
    BY <1>0, <2>1
  <2>3. \A c \in Old : c \notin New
    BY DEF Old, New
  <2>4. \A c \in Old : added[c] = r[c]
    BY <1>0, <2>3
  <2>5. "config" \in New /\ "file_key" \in New /\ "requested_by" \in New
    BY DEF New
  <2>6. ASSUME New \cap s["reports"] = {}
        PROVE  added["config"] = "default" /\ added["file_key"] = "null" /\ added["requested_by"] = "null"
    <3>1. \A c \in New : ~Has(s, "reports", c)
      BY <2>6 DEF Has
    <3>2. "file_key" \notin {"output_format", "config"} /\ "requested_by" \notin {"output_format", "config"}
      OBVIOUS
    <3> QED BY <1>0, <2>5, <3>1, <3>2
  <2> HIDE DEF added
  <2> QED BY <2>2, <2>4, <2>6
<1>2. Copy(r, s) = [added EXCEPT !["output_format"] = o, !["config"] = p, !["file_key"] = k, !["requested_by"] = g]
  BY DEF Copy
<1> HIDE DEF added
<1>3. /\ "output_format" \in Old \cup New /\ "config" \in Old \cup New /\ "file_key" \in Old \cup New
      /\ "requested_by" \in Old \cup New /\ "format" \in Old \cup New /\ "parameters" \in Old \cup New
      /\ "file_path" \in Old \cup New /\ "generated_by" \in Old \cup New
      /\ "parameters" \in Old /\ "file_path" \in Old /\ "generated_by" \in Old
  BY DEF Old, New
<1>4. /\ o \in {"legacy", "default", "null"} /\ p \in {"legacy", "default", "null"}
      /\ k \in {"legacy", "default", "null"} /\ g \in {"legacy", "default", "null"}
  BY <1>1, <1>3
<1>5. ASSUME Old \subseteq s["reports"], New \cap s["reports"] = {}, \A c \in Old : r[c] = "legacy"
      PROVE  p = "legacy" /\ k = "legacy" /\ g = "legacy"
  <2>1. Has(s, "reports", "parameters") /\ Has(s, "reports", "file_path") /\ Has(s, "reports", "generated_by")
    BY <1>3, <1>5 DEF Has
  <2>2. added["parameters"] = "legacy" /\ added["file_path"] = "legacy" /\ added["generated_by"] = "legacy"
    BY <1>1, <1>3, <1>5
  <2> QED BY <1>1, <1>5, <2>1, <2>2
<1> HIDE DEF o, p, k, g
<1>6. /\ Copy(r, s) \in [Old \cup New -> {"legacy", "default", "null"}]
      /\ Copy(r, s)["file_path"] = added["file_path"]
      /\ Copy(r, s)["config"] = p /\ Copy(r, s)["file_key"] = k /\ Copy(r, s)["requested_by"] = g
  BY <1>1, <1>2, <1>3, <1>4
<1>7. added["file_path"] = r["file_path"]
  BY <1>1, <1>3
<1> HIDE DEF added
<1> QED BY <1>5, <1>6, <1>7

\* What no boot does: NothingDropped, on two schemas.
LEMMA GrownDropsNothing == ASSUME Grows(pub, pub') PROVE NothingDropped
BY DEF Grows, NothingDropped

\* alembic upgrade head.
LEMMA UpgradeInv ==
    ASSUME UpgradesInv, UpgradeHead
    PROVE  /\ rev' \in {0, 3, 11} /\ Shape(pub') /\ Grows(pub, pub')
           /\ row' \in [Old \cup New -> {"legacy", "default", "null"}]
           /\ rev' # 11 => sqlFirst /\ rev' = 0
           /\ rev' = 0 => Begun(pub') /\ row' = row
           /\ rev' # 0 => Stage(11, pub')
           /\ rev' = 11 /\ row'["file_path"] = "legacy" =>
                 \A c \in {"config", "file_key", "requested_by"} : row'[c] = "legacy"
<1>0. /\ rev \in {0, 3, 11} /\ Shape(pub) /\ row \in [Old \cup New -> {"legacy", "default", "null"}]
  BY DEF UpgradesInv, UpgradesTyped
<1>1. /\ AllApply(rev, pub) => /\ rev' = 11 /\ pub' = Upgraded(rev, pub)
                               /\ row' = IF rev < 5 /\ Exists(pub, "reports") THEN Copy(row, pub) ELSE row
      /\ ~AllApply(rev, pub) => rev' = rev /\ pub' = pub /\ row' = row
  BY DEF UpgradeHead, HeadRevision
<1>2. Shape(pub') /\ Grows(pub, pub')
  <2>1. Grows(pub, pub)
    BY DEF Grows, Exists
  <2>2. rev \in 0..11
    BY <1>0
  <2>3. Grows(pub, Upgraded(rev, pub)) /\ Shape(Upgraded(rev, pub))
    BY <1>0, <2>2, UpgradeGrows
  <2> QED BY <1>0, <1>1, <2>1, <2>3
<1>3. CASE rev = 0 /\ pub = EmptySchema
  <2>1. AllApply(rev, pub) /\ Stage(11, pub')
    BY <1>1, <1>3, FromEmpty
  <2>2. ~Exists(pub, "reports")
    BY <1>3, EmptyShape DEF Exists
  <2>3. row' = row /\ rev' = 11
    BY <1>1, <2>1, <2>2
  <2>4. row["file_path"] = "null"
    BY <1>3 DEF UpgradesInv, RowsKept
  <2> QED BY <1>0, <1>2, <2>1, <2>3, <2>4
<1>4. CASE rev = 0 /\ Begun(pub) /\ sqlFirst
  <2>1. ~AllApply(rev, pub)
    BY <1>0, <1>4, BegunFails
  <2> QED BY <1>0, <1>1, <1>2, <1>4, <2>1
<1>5. CASE rev = 3
  <2>1. Stage(3, pub)
    BY <1>5 DEF UpgradesInv, Staged
  <2>2. AllApply(3, pub) /\ Stage(11, Upgraded(3, pub))
    BY <1>0, <2>1, UpgradeStage
  <2>a. Known(pub)
    BY <2>1 DEF Stage
  <2>3. Exists(pub, "reports")
    BY <2>a DEF Known
  <2>4. rev' = 11 /\ pub' = Upgraded(3, pub) /\ row' = Copy(row, pub)
    BY <1>1, <1>5, <2>2, <2>3
  <2>5. \/ row["file_path"] = "null"
        \/ Old \subseteq pub["reports"] /\ New \cap pub["reports"] = {} /\ \A c \in Old : row[c] = "legacy"
    BY <1>5 DEF UpgradesInv, RowsKept
  <2>6. /\ row' \in [Old \cup New -> {"legacy", "default", "null"}] /\ row'["file_path"] = row["file_path"]
        /\ Old \subseteq pub["reports"] /\ New \cap pub["reports"] = {} /\ (\A c \in Old : row[c] = "legacy") =>
              \A c \in {"config", "file_key", "requested_by"} : row'[c] = "legacy"
    BY <1>0, <2>3, <2>4, CopyKeeps
  <2> QED BY <1>2, <2>2, <2>4, <2>5, <2>6
<1>6. CASE rev = 11
  <2>1. Stage(11, pub)
    BY <1>6 DEF UpgradesInv, Staged
  <2>2. AllApply(11, pub) /\ Stage(11, Upgraded(11, pub))
    BY <1>0, <2>1, UpgradeStage
  <2>3. rev' = 11 /\ pub' = Upgraded(11, pub) /\ row' = row
    BY <1>1, <1>6, <2>2
  <2>4. row["file_path"] = "legacy" => \A c \in {"config", "file_key", "requested_by"} : row[c] = "legacy"
    BY <1>6 DEF UpgradesInv, ReportKept, HeadRevision
  <2> QED BY <1>0, <1>2, <2>2, <2>3, <2>4
<1>7. rev = 0 => pub = EmptySchema \/ (Begun(pub) /\ sqlFirst)
  BY DEF UpgradesInv, Staged
<1> QED BY <1>0, <1>3, <1>4, <1>5, <1>6, <1>7

\* A script.
LEMMA ScriptInv ==
    ASSUME UpgradesInv, NEW from, NEW to \in {"metrology", "presets", "up"}, NEW s,
           Script(from, to, s), from \in {"fiscal", "metrology", "presets"}, Extends(pub, s),
           rev = 0 => Begun(s)
    PROVE  UpgradesInv' /\ NothingDropped
<1>0. /\ step = from /\ step' = to /\ pub' = s /\ sqlFirst' = (sqlFirst \/ rev = 0)
      /\ rev' = rev /\ row' = row /\ failed' = failed
  BY DEF Script
<1>1. UpgradesTyped'
  BY <1>0 DEF UpgradesInv, UpgradesTyped, Extends
<1>2. Staged'
  <2>1. rev' = 0 => Begun(pub') /\ sqlFirst'
    BY <1>0
  <2>2. rev = 3 => Stage(3, s)
    <3>1. rev = 3 => Known(pub)
      BY DEF UpgradesInv, Staged, Stage
    <3>2. rev = 3 => Known(s)
      BY <3>1, ExtendsKnown
    <3> QED BY <3>2 DEF Stage
  <2>3. rev = 11 => Stage(11, s)
    <3>1. rev = 11 => Stage(11, pub)
      BY DEF UpgradesInv, Staged
    <3> QED BY <3>1, StageStill DEF Extends
  <2>4. rev \in {0, 3, 11}
    BY DEF UpgradesInv, UpgradesTyped
  <2>5. rev' # 0 => Stage(rev', pub')
    BY <1>0, <2>2, <2>3, <2>4
  <2> QED BY <2>1, <2>5 DEF Staged
<1>3. Passes'
  BY <1>0 DEF UpgradesInv, Passes
<1>4. RowsKept'
  <2>1. rev = 3 => s["reports"] = pub["reports"]
    <3>1. rev = 3 => Known(pub)
      BY DEF UpgradesInv, Staged, Stage
    <3> QED BY <3>1, ExtendsKnown
  <2> QED BY <1>0, <2>1 DEF UpgradesInv, RowsKept
<1>5. ReportKept'
  BY <1>0 DEF UpgradesInv, ReportKept
<1>6. NothingDropped
  BY <1>0, GrownDropsNothing DEF Extends
<1> QED BY <1>1, <1>2, <1>3, <1>4, <1>5, <1>6 DEF UpgradesInv

\* Every step keeps the invariant and drops nothing.
LEMMA NextUpgradesInv ==
    UpgradesInv /\ [UpgradesNext]_upgradeVars => UpgradesInv' /\ (NothingDropped \/ UNCHANGED upgradeVars)
<1> SUFFICES ASSUME UpgradesInv, [UpgradesNext]_upgradeVars PROVE UpgradesInv' /\ (NothingDropped \/ UNCHANGED upgradeVars)
  OBVIOUS
<1>a. Shape(pub)
  BY DEF UpgradesInv, UpgradesTyped
<1>b. Grows(pub, pub)
  BY DEF Grows, Exists
<1>1. ASSUME UNCHANGED <<rev, pub, row, sqlFirst>>, step' \in {"down", "alembic"}
      PROVE  UpgradesInv' /\ NothingDropped
  <2>1. UpgradesTyped' /\ Staged' /\ Passes' /\ RowsKept' /\ ReportKept'
    BY <1>1 DEF UpgradesInv, UpgradesTyped, Staged, Passes, RowsKept, ReportKept
  <2>2. NothingDropped
    BY <1>1, <1>b, GrownDropsNothing
  <2> QED BY <2>1, <2>2 DEF UpgradesInv
<1>2. CASE Boot \/ Stop
  BY <1>1, <1>2 DEF Boot, Stop
<1>3. CASE Alembic
  <2>1. /\ UpgradeHead /\ step' \in {"fiscal", "up"} /\ sqlFirst' = sqlFirst /\ failed' = failed
    BY <1>3 DEF Alembic
  <2>2. /\ rev' \in {0, 3, 11} /\ Shape(pub') /\ Grows(pub, pub')
        /\ row' \in [Old \cup New -> {"legacy", "default", "null"}]
        /\ rev' # 11 => sqlFirst /\ rev' = 0
        /\ rev' = 0 => Begun(pub') /\ row' = row
        /\ rev' # 0 => Stage(11, pub')
        /\ rev' = 11 /\ row'["file_path"] = "legacy" =>
              \A c \in {"config", "file_key", "requested_by"} : row'[c] = "legacy"
    BY <2>1, UpgradeInv
  <2>3. UpgradesTyped'
    BY <2>1, <2>2 DEF UpgradesTyped
  <2>4. Staged'
    BY <2>1, <2>2 DEF Staged
  <2>5. Passes'
    BY <2>1, <2>2 DEF Passes
  <2>6. RowsKept'
    <3>1. rev' = 0 => row'["file_path"] = "null"
      <4>1. rev' = 0 => rev = 0
        BY <2>1 DEF UpgradeHead, HeadRevision
      <4> QED BY <2>2, <4>1 DEF UpgradesInv, RowsKept
    <3>2. rev' # 3
      BY <2>2
    <3> QED BY <3>1, <3>2 DEF RowsKept
  <2>7. ReportKept'
    BY <2>2 DEF ReportKept, HeadRevision
  <2>8. NothingDropped
    BY <2>2, GrownDropsNothing
  <2> QED BY <2>3, <2>4, <2>5, <2>6, <2>7, <2>8 DEF UpgradesInv
<1>4. CASE AlembicFails
  <2>1. /\ UNCHANGED <<rev, pub, row, sqlFirst>> /\ step' = "fiscal" /\ failed' = TRUE
    BY <1>4 DEF AlembicFails
  <2>2. UpgradesTyped' /\ Staged' /\ Passes' /\ RowsKept' /\ ReportKept'
    BY <2>1 DEF UpgradesInv, UpgradesTyped, Staged, Passes, RowsKept, ReportKept
  <2>3. NothingDropped
    BY <2>1, <1>b, GrownDropsNothing
  <2> QED BY <2>2, <2>3 DEF UpgradesInv
<1>5. CASE Fiscal
  <2>1. Extends(pub, FiscalSql(pub))
    BY <1>a, FiscalSqlExtends
  <2>2. rev = 0 => Begun(FiscalSql(pub))
    BY <1>a, ScriptsBegin DEF UpgradesInv, Staged
  <2>3. Script("fiscal", "metrology", FiscalSql(pub))
    BY <1>5 DEF Fiscal
  <2> QED BY <2>1, <2>2, <2>3, ScriptInv
<1>6. CASE Metrology
  <2>1. Extends(pub, MetrologySql(pub))
    BY <1>a, MetrologySqlExtends
  <2>3. Script("metrology", "presets", MetrologySql(pub))
    BY <1>6 DEF Metrology
  <2>4. step = "metrology"
    BY <2>3 DEF Script
  <2>2. rev = 0 => Begun(MetrologySql(pub))
    BY <1>a, <2>4, ScriptsBegin DEF UpgradesInv, Staged
  <2> QED BY <2>1, <2>2, <2>3, ScriptInv
<1>7. CASE Presets
  <2>1. Extends(pub, PresetsSql(pub))
    BY <1>a, PresetsSqlExtends
  <2>3. Script("presets", "up", PresetsSql(pub))
    BY <1>7 DEF Presets
  <2>4. step = "presets"
    BY <2>3 DEF Script
  <2>2. rev = 0 => Begun(PresetsSql(pub))
    BY <1>a, <2>4, ScriptsBegin DEF UpgradesInv, Staged
  <2> QED BY <2>1, <2>2, <2>3, ScriptInv
<1>8. CASE UNCHANGED upgradeVars
  BY <1>8 DEF upgradeVars, UpgradesInv, UpgradesTyped, Staged, Passes, RowsKept, ReportKept
<1> QED BY <1>2, <1>3, <1>4, <1>5, <1>6, <1>7, <1>8 DEF UpgradesNext

\* The invariant implies what the run checks.
LEMMA UpgradesImplies == UpgradesInv => SchemasTypeOK /\ HeadIsCanonical /\ ReportKept /\ UpReachesHead
<1> SUFFICES ASSUME UpgradesInv PROVE SchemasTypeOK /\ HeadIsCanonical /\ ReportKept /\ UpReachesHead
  OBVIOUS
<1>1. SchemasTypeOK
  BY DEF UpgradesInv, UpgradesTyped, SchemasTypeOK, Shape, HeadRevision
<1>2. HeadIsCanonical
  <2>1. rev = 11 => Stage(11, pub)
    BY DEF UpgradesInv, Staged
  <2>2. rev = 11 => Holds(pub, Canonical)
    BY <2>1, CanonicalHeld
  <2> QED BY <2>2 DEF HeadIsCanonical, Holds, HeadRevision
<1>3. ReportKept /\ UpReachesHead
  BY DEF UpgradesInv, Passes, UpReachesHead, HeadRevision
<1> QED BY <1>1, <1>2, <1>3

\* For every database in the field, any boots and any upgrades lost: a database at the head has
\* every canonical column and what an old report said of its file, its author and its parameters,
\* and a boot whose upgrade was not lost ends at the head, unless a script ran before any revision
\* had (alembic/env.py, 005_schema_convergence.py, deploy/all-in-one/entrypoint.sh).
THEOREM HeadsKeepEverything == UpgradesSpec => []HeadKeepsEverything
<1>1. UpgradesInit => UpgradesInv
  BY InitUpgradesInv
<1>2. UpgradesInv /\ [UpgradesNext]_upgradeVars => UpgradesInv'
  BY NextUpgradesInv
<1>3. UpgradesInv => HeadKeepsEverything
  BY UpgradesImplies DEF HeadKeepsEverything
<1> QED BY <1>1, <1>2, <1>3, PTL DEF UpgradesSpec

\* For any tenants, requests, faults and databases: no request takes a schema or rows away, but the
\* rules of version 5, nor creates a project for a tenant in debt (tenant_lifecycle.py,
\* subscription_enforcement.py), and no boot takes a table or a column of the public schema away,
\* but to give it the type the code writes.
THEOREM NothingTaken == Spec /\ UpgradesSpec => StepsKeep
<1>1. UpgradesInit => UpgradesInv
  BY InitUpgradesInv
<1>2. UpgradesInv /\ [UpgradesNext]_upgradeVars => UpgradesInv'
  BY NextUpgradesInv
<1>3. UpgradesInv /\ [UpgradesNext]_upgradeVars => [NothingDropped]_upgradeVars
  BY NextUpgradesInv
<1>4. UpgradesSpec => [][NothingDropped]_upgradeVars
  BY <1>1, <1>2, <1>3, PTL DEF UpgradesSpec
<1> QED BY <1>4, NothingLost DEF StepsKeep
=============================================================================
