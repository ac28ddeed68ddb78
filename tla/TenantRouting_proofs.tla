------------------------ MODULE TenantRouting_proofs ------------------------
(***************************************************************************)
(* For any pool, tenants, requests and operations: a connection is in one  *)
(* place, the first transaction of a request acts in its tenant's schema,  *)
(* and the routing implements ScopedAccess.                                *)
(*                                                                         *)
(* InPool says where connections are, InCode where requests are, AtHome    *)
(* that the connection of a first transaction carries its tenant's path.   *)
(***************************************************************************)
EXTENDS TenantRouting, SequenceTheorems, FiniteSetTheorems, TLAPS

Once(q) == \A i, j \in DOMAIN q : q[i] = q[j] => i = j

\* An open connection is idle or held, and nothing is held twice.
InPool ==
    /\ opened \in 0..MaxConns /\ idle \in Seq(Conns) /\ Once(idle)
    /\ conn = [r \in Requests |-> conn[r]] /\ guard = [r \in Requests |-> guard[r]]
    /\ \A r \in Requests : conn[r] \in 0..opened /\ guard[r] \in 0..opened
    /\ Range(idle) \subseteq 1..opened
    /\ \A r \in Requests : conn[r] \notin Range(idle) /\ guard[r] \notin Range(idle)
    /\ \A r, s \in Requests :
          /\ conn[r] # NoConn => conn[r] # guard[s] /\ (conn[r] = conn[s] => r = s)
          /\ guard[r] # NoConn /\ guard[r] = guard[s] => r = s
    /\ \A c \in 1..opened : c \in Range(idle) \/ \E r \in Requests : c \in {conn[r], guard[r]}

LEMMA SeqRange ==
    ASSUME NEW S, NEW q \in Seq(S)
    PROVE  /\ Range(q) \subseteq S
           /\ \A x : x \in Range(q) <=> \E i \in 1..Len(q) : q[i] = x
  BY DEF Range

\* The queue without its first connection.
LEMMA RestOfQueue ==
    ASSUME NEW S, NEW q \in Seq(S), q # <<>>, Once(q)
    PROVE  /\ Tail(q) \in Seq(S) /\ Once(Tail(q)) /\ Head(q) \in Range(q)
           /\ Range(Tail(q)) = Range(q) \ {Head(q)}
<1>1. /\ Len(q) \in Nat \ {0} /\ DOMAIN q = 1..Len(q) /\ Head(q) = q[1]
      /\ Tail(q) \in Seq(S) /\ DOMAIN Tail(q) = 1..(Len(q) - 1)
      /\ \A i \in 1..(Len(q) - 1) : Tail(q)[i] = q[i + 1]
  OBVIOUS
<1>2. Once(Tail(q))
  BY <1>1 DEF Once
<1>3. Head(q) \in Range(q)
  BY <1>1 DEF Range
<1>4. ASSUME NEW x \in Range(q), x # Head(q) PROVE x \in Range(Tail(q))
  <2>1. PICK i \in 1..Len(q) : q[i] = x
    BY <1>1, <1>4 DEF Range
  <2>2. i - 1 \in 1..(Len(q) - 1) /\ Tail(q)[i - 1] = x
    BY <1>1, <1>4, <2>1
  <2> QED BY <1>1, <2>2 DEF Range
<1>5. ASSUME NEW x \in Range(Tail(q)) PROVE x \in Range(q) \ {Head(q)}
  <2>1. PICK i \in 1..(Len(q) - 1) : Tail(q)[i] = x
    BY <1>1, <1>5 DEF Range
  <2>2. i + 1 \in 1..Len(q) /\ q[i + 1] = x /\ i + 1 # 1
    BY <1>1, <2>1
  <2> QED BY <1>1, <2>2 DEF Range, Once
<1> QED BY <1>1, <1>2, <1>3, <1>4, <1>5

\* The queue with connections at its end that were not in it.
LEMMA LongerQueue ==
    ASSUME NEW S, NEW q \in Seq(S), NEW t \in Seq(S), Once(q), Once(t),
           Range(q) \cap Range(t) = {}
    PROVE  q \o t \in Seq(S) /\ Once(q \o t) /\ Range(q \o t) = Range(q) \cup Range(t)
<1> DEFINE u == q \o t
<1>1. /\ u \in Seq(S) /\ Len(q) \in Nat /\ Len(t) \in Nat
      /\ DOMAIN u = 1..(Len(q) + Len(t)) /\ DOMAIN q = 1..Len(q) /\ DOMAIN t = 1..Len(t)
      /\ \A i \in 1..(Len(q) + Len(t)) : u[i] = IF i <= Len(q) THEN q[i] ELSE t[i - Len(q)]
  OBVIOUS
<1>2. \A i \in 1..Len(q) : u[i] = q[i]
  BY <1>1
<1>3. \A j \in 1..Len(t) : Len(q) + j \in DOMAIN u /\ u[Len(q) + j] = t[j]
  BY <1>1
<1>4. \A i \in DOMAIN u : \/ i \in 1..Len(q)
                          \/ i - Len(q) \in 1..Len(t) /\ u[i] = t[i - Len(q)]
  BY <1>1
<1>5. Range(u) = Range(q) \cup Range(t)
  <2>1. ASSUME NEW i \in DOMAIN q PROVE q[i] \in Range(u)
    <3>1. i \in DOMAIN u /\ u[i] = q[i]
      BY <1>1, <1>2
    <3> HIDE DEF u
    <3> QED BY <3>1 DEF Range
  <2>2. ASSUME NEW j \in DOMAIN t PROVE t[j] \in Range(u)
    <3>1. Len(q) + j \in DOMAIN u /\ u[Len(q) + j] = t[j]
      BY <1>1, <1>3
    <3> HIDE DEF u
    <3> QED BY <3>1 DEF Range
  <2>3. ASSUME NEW x \in Range(u) PROVE x \in Range(q) \cup Range(t)
    BY <1>1, <1>2, <1>4, <2>3 DEF Range
  <2> QED BY <2>1, <2>2, <2>3 DEF Range
<1>6. ASSUME NEW i \in DOMAIN u, NEW j \in DOMAIN u, u[i] = u[j] PROVE i = j
  <2>1. CASE i \in 1..Len(q) /\ j \in 1..Len(q)
    BY <1>1, <1>2, <1>6, <2>1 DEF Once
  <2>2. CASE i \notin 1..Len(q) /\ j \notin 1..Len(q)
    <3>1. i - Len(q) = j - Len(q)
      BY <1>1, <1>4, <1>6, <2>2 DEF Once
    <3> QED BY <1>1, <3>1
  <2>3. CASE i \in 1..Len(q) <=> j \notin 1..Len(q)
    BY <1>1, <1>2, <1>4, <1>6, <2>3 DEF Range
  <2> QED BY <2>1, <2>2, <2>3
<1> QED BY <1>1, <1>5, <1>6 DEF Once

\* What a request holds.
LEMMA SlotsHeld ==
    ASSUME InPool, NEW r \in Requests
    PROVE  /\ Held(r) \in Seq(Conns) /\ Once(Held(r))
           /\ Range(Held(r)) = {conn[r], guard[r]} \ {NoConn}
<1>1. conn[r] \in Conns \cup {NoConn} /\ guard[r] \in Conns \cup {NoConn}
  BY ConstantsAssumption DEF InPool, Conns, NoConn
<1>2. conn[r] # NoConn => conn[r] # guard[r]
  BY DEF InPool
<1>3. \A c \in Conns : /\ <<c>> \in Seq(Conns) /\ Once(<<c>>) /\ Range(<<c>>) = {c}
  BY DEF Once, Range
<1>4. <<>> \in Seq(Conns) /\ Once(<<>>) /\ Range(<<>>) = {}
  BY DEF Once, Range
<1>5. \A c \in Conns \cup {NoConn} :
        Slot(c) \in Seq(Conns) /\ Once(Slot(c)) /\ Range(Slot(c)) = {c} \ {NoConn}
  BY <1>3, <1>4 DEF Slot, Conns, NoConn
<1>6. Range(Slot(conn[r])) \cap Range(Slot(guard[r])) = {}
  BY <1>1, <1>2, <1>5
<1>7. /\ Held(r) \in Seq(Conns) /\ Once(Held(r))
      /\ Range(Held(r)) = Range(Slot(conn[r])) \cup Range(Slot(guard[r]))
  BY <1>1, <1>5, <1>6, LongerQueue DEF Held
<1> QED BY <1>1, <1>5, <1>7

-----------------------------------------------------------------------------
(* The pool *)

\* The connection that is taken was nobody's, and leaves the queue or is new.
LEMMA Taken ==
    ASSUME InPool, NEW c \in Conns, Take(c)
    PROVE  /\ opened' \in 0..MaxConns /\ idle' \in Seq(Conns) /\ Once(idle')
           /\ 1..opened' = (1..opened) \cup {c} /\ c \in 1..opened' /\ c # NoConn
           /\ Range(idle') = Range(idle) \ {c}
           /\ \A r \in Requests : conn[r] # c /\ guard[r] # c
<1> USE ConstantsAssumption DEF InPool, Conns, NoConn
<1>1. CASE idle # <<>>
  <2>1. idle' = Tail(idle) /\ opened' = opened /\ c = Head(idle)
    BY <1>1 DEF Take, NextConn
  <2>2. Head(idle) \in Range(idle) /\ Range(Tail(idle)) = Range(idle) \ {Head(idle)}
        /\ Tail(idle) \in Seq(Conns) /\ Once(Tail(idle))
    BY <1>1, RestOfQueue
  <2> QED BY <2>1, <2>2
<1>2. CASE idle = <<>>
  <2>1. opened' = opened + 1 /\ idle' = idle /\ c = opened + 1 /\ opened < MaxConns
    BY <1>2 DEF Take, NextConn, Available
  <2>2. c \notin 1..opened /\ c # 0 /\ 1..opened' = (1..opened) \cup {c}
    BY <2>1
  <2> QED BY <2>1, <2>2
<1> QED BY <1>1, <1>2

LEMMA TakeInPool ==
    ASSUME InPool, NEW c \in Conns, Take(c), NEW r \in Requests,
           \/ conn[r] = NoConn /\ conn' = [conn EXCEPT ![r] = c] /\ guard' = guard
           \/ guard[r] = NoConn /\ guard' = [guard EXCEPT ![r] = c] /\ conn' = conn
    PROVE  InPool'
<1>1. /\ opened' \in 0..MaxConns /\ idle' \in Seq(Conns) /\ Once(idle')
      /\ 1..opened' = (1..opened) \cup {c} /\ c \in 1..opened' /\ c # NoConn
      /\ Range(idle') = Range(idle) \ {c}
      /\ \A s \in Requests : conn[s] # c /\ guard[s] # c
  BY Taken
<1>2. 0..opened' = (0..opened) \cup {c}
  BY <1>1, ConstantsAssumption DEF InPool
<1>3. CASE conn[r] = NoConn /\ conn' = [conn EXCEPT ![r] = c] /\ guard' = guard
  <2>1. conn' = [s \in Requests |-> IF s = r THEN c ELSE conn[s]]
    BY <1>3 DEF InPool
  <2>2. \A s, v \in Requests :
          /\ conn'[s] # NoConn => conn'[s] # guard'[v] /\ (conn'[s] = conn'[v] => s = v)
          /\ guard'[s] # NoConn /\ guard'[s] = guard'[v] => s = v
    BY <1>1, <1>3, <2>1 DEF InPool, NoConn
  <2>3. \A d \in 1..opened' : d \in Range(idle') \/ \E s \in Requests : d \in {conn'[s], guard'[s]}
    BY <1>1, <1>3, <2>1 DEF InPool, NoConn
  <2>4. \A s \in Requests : conn'[s] \in 0..opened' /\ guard'[s] \in 0..opened'
                            /\ conn'[s] \notin Range(idle') /\ guard'[s] \notin Range(idle')
    BY <1>1, <1>2, <1>3, <2>1 DEF InPool, NoConn
  <2>5. Range(idle') \subseteq 1..opened'
    BY <1>1 DEF InPool
  <2> QED BY <1>1, <1>3, <2>1, <2>2, <2>3, <2>4, <2>5 DEF InPool
<1>4. CASE guard[r] = NoConn /\ guard' = [guard EXCEPT ![r] = c] /\ conn' = conn
  <2>1. guard' = [s \in Requests |-> IF s = r THEN c ELSE guard[s]]
    BY <1>4 DEF InPool
  <2> QED BY <1>1, <1>2, <1>4, <2>1 DEF InPool, NoConn
<1> QED BY <1>3, <1>4

\* A request gives back its tenant connection, alone or with the public one.
LEMMA ReturnInPool ==
    ASSUME InPool, NEW r \in Requests, NEW q \in Seq(Conns), Once(q),
           NEW keep \in {guard[r], NoConn},
           Range(q) = {conn[r], guard[r]} \ {keep, NoConn},
           idle' = idle \o q, opened' = opened,
           conn' = [conn EXCEPT ![r] = NoConn], guard' = [guard EXCEPT ![r] = keep]
    PROVE  InPool'
<1>1. Range(idle) \cap Range(q) = {}
  BY DEF InPool
<1>2. idle' \in Seq(Conns) /\ Once(idle') /\ Range(idle') = Range(idle) \cup Range(q)
  BY <1>1, LongerQueue DEF InPool
<1>3. conn' = [s \in Requests |-> IF s = r THEN NoConn ELSE conn[s]]
      /\ guard' = [s \in Requests |-> IF s = r THEN keep ELSE guard[s]]
  BY DEF InPool
<1>4. Range(idle') \subseteq 1..opened'
  <2>1. \A x \in 0..opened : x # NoConn => x \in 1..opened
    BY ConstantsAssumption DEF InPool, NoConn
  <2> QED BY <1>2, <2>1 DEF InPool
<1>5. \A c \in 1..opened' : c \in Range(idle') \/ \E s \in Requests : c \in {conn'[s], guard'[s]}
  <2>1. SUFFICES ASSUME NEW c \in 1..opened, c \notin Range(idle')
                 PROVE  \E s \in Requests : c \in {conn'[s], guard'[s]}
    OBVIOUS
  <2>2. PICK s \in Requests : c \in {conn[s], guard[s]}
    BY <1>2, <2>1 DEF InPool
  <2>3. CASE s # r
    BY <1>3, <2>2, <2>3
  <2>4. CASE s = r
    BY <1>2, <1>3, <2>1, <2>2, <2>4, ConstantsAssumption DEF InPool, NoConn
  <2> QED BY <2>3, <2>4
<1>6. \A s \in Requests : conn'[s] \in 0..opened' /\ guard'[s] \in 0..opened'
  BY <1>3, ConstantsAssumption DEF InPool, NoConn
<1>7. \A s \in Requests : conn'[s] \notin Range(idle') /\ guard'[s] \notin Range(idle')
  <2>1. NoConn \notin Range(idle')
    BY <1>4, ConstantsAssumption DEF InPool, NoConn
  <2>2. keep \notin Range(idle')
    BY <1>2, <2>1 DEF InPool
  <2>3. ASSUME NEW s \in Requests, s # r
        PROVE  conn[s] \notin Range(idle') /\ guard[s] \notin Range(idle')
    BY <1>2, <2>1, <2>3 DEF InPool
  <2> QED BY <1>3, <2>1, <2>2, <2>3
<1>8. ASSUME NEW s \in Requests, NEW t \in Requests
      PROVE  /\ conn'[s] # NoConn => conn'[s] # guard'[t] /\ (conn'[s] = conn'[t] => s = t)
             /\ guard'[s] # NoConn /\ guard'[s] = guard'[t] => s = t
  <2>1. conn'[s] \in {conn[s], NoConn} /\ guard'[s] \in {guard[s], NoConn}
    BY <1>3
  <2>2. conn'[t] \in {conn[t], NoConn} /\ guard'[t] \in {guard[t], NoConn}
    BY <1>3
  <2>3. /\ conn[s] # NoConn => conn[s] # guard[t] /\ (conn[s] = conn[t] => s = t)
        /\ guard[s] # NoConn /\ guard[s] = guard[t] => s = t
    BY DEF InPool
  <2> QED BY <2>1, <2>2, <2>3
<1> QED BY <1>2, <1>3, <1>4, <1>5, <1>6, <1>7, <1>8 DEF InPool

-----------------------------------------------------------------------------
(* The requests *)

Typed ==
    /\ pc = [r \in Requests |-> pc[r]] /\ op = [r \in Requests |-> op[r]]
    /\ tenant = [r \in Requests |-> tenant[r]] /\ tries = [r \in Requests |-> tries[r]]
    /\ ended = [r \in Requests |-> ended[r]] /\ path = [c \in Conns |-> path[c]]

\* What a request holds and has done at each of its statements.
CodeOf(r) ==
    /\ op[r] \in Ops /\ tries[r] \in Nat /\ ended[r] \in BOOLEAN
    /\ tenant[r] \in Tenants \cup {NoTenant}
    /\ pc[r] \in {"new", "limit", "begin", "again"} => conn[r] = NoConn
    /\ pc[r] \in {"new", "limit"} => guard[r] = NoConn
    /\ pc[r] \in {"work", "coded", "inserted", "written"} => conn[r] # NoConn
    /\ pc[r] \in {"new", "limit", "begin"} => ended[r] = FALSE
    /\ pc[r] = "again" => ended[r] = TRUE
    /\ pc[r] = "coded" => op[r] = "create"
    /\ ended[r] = TRUE /\ pc[r] \in {"again", "work", "coded"} =>
          op[r] = "update" \/ (op[r] = "create" /\ tries[r] > 0)

InCode == Typed /\ \A r \in Requests : CodeOf(r)

\* The connection of a request in its first transaction carries the tenant's path.
HomeOf(r) == conn[r] # NoConn /\ tenant[r] # NoTenant /\ ended[r] = FALSE => path[conn[r]] = tenant[r]

AtHome == \A r \in Requests : HomeOf(r)

IInv == InPool /\ InCode /\ AtHome

\* A step of r leaves the other requests and the paths of their connections alone.
Alone(r) ==
    /\ Typed'
    /\ \A s \in Requests \ {r} :
          /\ pc'[s] = pc[s] /\ op'[s] = op[s] /\ tenant'[s] = tenant[s] /\ tries'[s] = tries[s]
          /\ ended'[s] = ended[s] /\ conn'[s] = conn[s] /\ guard'[s] = guard[s]
          /\ conn[s] # NoConn => path'[conn[s]] = path[conn[s]]

LEMMA OthersKeep ==
    ASSUME IInv, NEW r \in Requests, Alone(r), InPool', CodeOf(r)', HomeOf(r)'
    PROVE  IInv'
<1>1. ASSUME NEW s \in Requests \ {r} PROVE CodeOf(s)' /\ HomeOf(s)'
  <2>1. CodeOf(s) /\ HomeOf(s)
    BY DEF IInv, InCode, AtHome
  <2>2. CodeOf(s)'
    BY <2>1 DEF Alone, CodeOf
  <2>3. HomeOf(s)'
    BY <2>1 DEF Alone, HomeOf
  <2> QED BY <2>2, <2>3
<1> QED BY <1>1 DEF IInv, InCode, AtHome, Alone

\* The connection of another request is not the one that is taken ...
LEMMA TakenIsFree ==
    ASSUME IInv, NEW c \in Conns, Take(c), NEW p, OpenWith(c, p) \/ Open(c)
    PROVE  /\ path' = [d \in Conns |-> path'[d]] /\ (OpenWith(c, p) => path'[c] = p)
           /\ \A s \in Requests : conn[s] # NoConn => path'[conn[s]] = path[conn[s]]
<1>1. path = [d \in Conns |-> path[d]]
  BY DEF IInv, InCode, Typed
<1>2. \A s \in Requests : conn[s] # c
  BY Taken DEF IInv
<1>3. \A s \in Requests : conn[s] # NoConn => conn[s] \in Conns
  BY ConstantsAssumption DEF IInv, InPool, Conns, NoConn
<1>4. CASE OpenWith(c, p)
  <2>1. path' = [d \in Conns |-> IF d = c THEN p ELSE path[d]]
    BY <1>1, <1>4 DEF OpenWith
  <2> QED BY <1>2, <1>3, <2>1
<1>5. CASE Open(c) /\ ~OpenWith(c, p)
  BY <1>1, <1>5 DEF Open
<1> QED BY <1>4, <1>5

\* ... nor one that is given back.
LEMMA ReturnedIsOwn ==
    ASSUME IInv, NEW r \in Requests, NEW q, Range(q) \subseteq {conn[r], guard[r]},
           Commit(q) \/ Rollback(q)
    PROVE  /\ path' = [d \in Conns |-> path'[d]]
           /\ \A s \in Requests \ {r} : conn[s] # NoConn => path'[conn[s]] = path[conn[s]]
<1>1. path = [d \in Conns |-> path[d]]
  BY DEF IInv, InCode, Typed
<1>2. ASSUME NEW s \in Requests \ {r}, conn[s] # NoConn
      PROVE  conn[s] \notin Range(q) /\ conn[s] \in Conns
  <2>1. conn[s] # guard[r] /\ conn[s] # conn[r] /\ conn[s] \in Conns
    BY <1>2, ConstantsAssumption DEF IInv, InPool, Conns, NoConn
  <2> QED BY <2>1
<1>3. CASE Commit(q)
  BY <1>1, <1>3 DEF Commit
<1>4. CASE Rollback(q)
  BY <1>1, <1>2, <1>4 DEF Rollback
<1> QED BY <1>3, <1>4

-----------------------------------------------------------------------------
(* The steps *)

LEMMA PoolKeeps ==
    ASSUME InPool, idle' = idle, opened' = opened, conn' = conn, guard' = guard
    PROVE  InPool'
  BY DEF InPool

Statement(r) ==
    Read(r) \/ UpdateProject(r) \/ DeleteProject(r) \/ NextProjectCode(r) \/ InsertProject(r)

\* A statement is made on the connection the request has, and changes neither.
LEMMA StatementStep ==
    ASSUME NEW r \in Requests, Statement(r), Typed
    PROVE  /\ pc[r] \in {"work", "coded"} /\ pc'[r] \in {"closing", "written", "raised", "coded", "inserted"}
           /\ pc' = [s \in Requests |-> IF s = r THEN pc'[r] ELSE pc[s]]
           /\ (pc'[r] \in {"coded", "inserted"} => op[r] = "create" \/ pc[r] = "coded")
           /\ idle' = idle /\ opened' = opened /\ path' = path /\ conn' = conn /\ guard' = guard
           /\ op' = op /\ tenant' = tenant /\ tries' = tries /\ ended' = ended
           /\ \E kind \in Kinds : Act(r, kind)
<1> USE DEF pool, data, GoTo, Typed, Kinds
<1>1. CASE Read(r)
  BY <1>1 DEF Read
<1>2. CASE UpdateProject(r)
  BY <1>2 DEF UpdateProject
<1>3. CASE DeleteProject(r)
  <2>1. PICK next \in {"written", "raised"} : GoTo(r, "work", next)
    BY <1>3 DEF DeleteProject
  <2> QED BY <1>3, <2>1 DEF DeleteProject
<1>4. CASE NextProjectCode(r)
  BY <1>4 DEF NextProjectCode
<1>5. CASE InsertProject(r)
  BY <1>5 DEF InsertProject
<1> QED BY <1>1, <1>2, <1>3, <1>4, <1>5 DEF Statement

LEMMA StatementKeeps ==
    ASSUME IInv, NEW r \in Requests, Statement(r)
    PROVE  IInv'
<1>1. Typed /\ CodeOf(r) /\ HomeOf(r) /\ InPool
  BY DEF IInv, InCode, AtHome
<1>2. /\ pc[r] \in {"work", "coded"} /\ pc'[r] \in {"closing", "written", "raised", "coded", "inserted"}
      /\ pc' = [s \in Requests |-> IF s = r THEN pc'[r] ELSE pc[s]]
      /\ (pc'[r] \in {"coded", "inserted"} => op[r] = "create" \/ pc[r] = "coded")
      /\ idle' = idle /\ opened' = opened /\ path' = path /\ conn' = conn /\ guard' = guard
      /\ op' = op /\ tenant' = tenant /\ tries' = tries /\ ended' = ended
  BY <1>1, StatementStep
<1>3. InPool'
  BY <1>1, <1>2, PoolKeeps
<1>4. Alone(r)
  BY <1>1, <1>2 DEF Alone, Typed
<1>5. CodeOf(r)'
  BY <1>1, <1>2 DEF CodeOf
<1>6. HomeOf(r)'
  BY <1>1, <1>2 DEF HomeOf
<1> QED BY <1>3, <1>4, <1>5, <1>6, OthersKeep

LEMMA ArriveKeeps ==
    ASSUME IInv, NEW r \in Requests, Arrive(r)
    PROVE  IInv' /\ Alone(r)
<1>1. Typed /\ CodeOf(r) /\ HomeOf(r) /\ InPool
  BY DEF IInv, InCode, AtHome
<1>2. PICK o \in OpsOf[r], t \in Resolved(r) :
        /\ op' = [op EXCEPT ![r] = o] /\ tenant' = [tenant EXCEPT ![r] = t]
        /\ GoTo(r, "new", IF o = "create" THEN "limit" ELSE "begin")
  BY DEF Arrive
<1>3. o \in Ops /\ t \in Tenants \cup {NoTenant}
  BY ConstantsAssumption DEF Resolved
<1>4. /\ op' = [s \in Requests |-> IF s = r THEN o ELSE op[s]]
      /\ tenant' = [s \in Requests |-> IF s = r THEN t ELSE tenant[s]]
      /\ pc[r] = "new" /\ pc'[r] \in {"limit", "begin"}
      /\ pc' = [s \in Requests |-> IF s = r THEN pc'[r] ELSE pc[s]]
  BY <1>1, <1>2 DEF Typed, GoTo
<1>5. /\ idle' = idle /\ opened' = opened /\ path' = path /\ conn' = conn /\ guard' = guard
      /\ tries' = tries /\ ended' = ended
  BY DEF Arrive, pool
<1>6. InPool'
  BY <1>1, <1>5, PoolKeeps
<1>7. Alone(r)
  BY <1>1, <1>4, <1>5 DEF Alone, Typed
<1>8. CodeOf(r)'
  BY <1>1, <1>3, <1>4, <1>5 DEF CodeOf
<1>9. HomeOf(r)'
  BY <1>1, <1>4, <1>5 DEF HomeOf, CodeOf
<1> QED BY <1>6, <1>7, <1>8, <1>9, OthersKeep

LEMMA EnforceLimitKeeps ==
    ASSUME IInv, NEW r \in Requests, EnforceLimit(r)
    PROVE  IInv' /\ Alone(r)
<1>1. Typed /\ CodeOf(r) /\ HomeOf(r) /\ InPool
  BY DEF IInv, InCode, AtHome
<1>2. PICK c \in Conns : Take(c) /\ OpenWith(c, Public) /\ guard' = [guard EXCEPT ![r] = c]
  BY DEF EnforceLimit
<1>3. PICK next \in {"begin", "raised"} : GoTo(r, "limit", next)
  BY DEF EnforceLimit
<1>4. /\ pc[r] = "limit" /\ pc' = [s \in Requests |-> IF s = r THEN next ELSE pc[s]]
      /\ op' = op /\ tenant' = tenant /\ conn' = conn /\ tries' = tries /\ ended' = ended
  BY <1>1, <1>3 DEF Typed, GoTo, EnforceLimit
<1>5. conn[r] = NoConn /\ guard[r] = NoConn
  BY <1>1, <1>4 DEF CodeOf
<1>6. InPool'
  BY <1>1, <1>2, <1>4, <1>5, TakeInPool
<1>7. guard' = [s \in Requests |-> IF s = r THEN c ELSE guard[s]]
  BY <1>1, <1>2 DEF InPool
<1>8. Alone(r)
  <2>1. /\ path' = [d \in Conns |-> path'[d]]
        /\ \A s \in Requests : conn[s] # NoConn => path'[conn[s]] = path[conn[s]]
    BY <1>2, TakenIsFree
  <2> QED BY <1>1, <1>4, <1>7, <2>1 DEF Alone, Typed
<1>9. CodeOf(r)'
  BY <1>1, <1>4, <1>5 DEF CodeOf
<1>10. HomeOf(r)'
  BY <1>4, <1>5 DEF HomeOf
<1> QED BY <1>6, <1>8, <1>9, <1>10, OthersKeep

\* The dependency sets the path of its tenant; a session that goes on sets none.
LEMMA BeginKeeps ==
    ASSUME IInv, NEW r \in Requests, Begin(r) \/ Again(r)
    PROVE  IInv' /\ Alone(r)
<1>1. Typed /\ CodeOf(r) /\ HomeOf(r) /\ InPool
  BY DEF IInv, InCode, AtHome
<1>2. PICK c \in Conns :
        /\ Take(c) /\ conn' = [conn EXCEPT ![r] = c]
        /\ OpenWith(c, tenant[r]) \/ Open(c)
        /\ pc[r] = "begin" /\ tenant[r] # NoTenant => OpenWith(c, tenant[r])
  BY DEF Begin, Again, GoTo
<1>3. /\ pc[r] \in {"begin", "again"} /\ pc' = [s \in Requests |-> IF s = r THEN "work" ELSE pc[s]]
      /\ op' = op /\ tenant' = tenant /\ guard' = guard /\ tries' = tries /\ ended' = ended
  BY <1>1 DEF Typed, GoTo, Begin, Again
<1>4. conn[r] = NoConn
  BY <1>1, <1>3 DEF CodeOf
<1>5. InPool'
  BY <1>1, <1>2, <1>3, <1>4, TakeInPool
<1>6. conn' = [s \in Requests |-> IF s = r THEN c ELSE conn[s]] /\ c # NoConn
  BY <1>1, <1>2, Taken DEF InPool
<1>7. /\ path' = [d \in Conns |-> path'[d]] /\ (OpenWith(c, tenant[r]) => path'[c] = tenant[r])
      /\ \A s \in Requests : conn[s] # NoConn => path'[conn[s]] = path[conn[s]]
  BY <1>2, TakenIsFree
<1>8. Alone(r)
  BY <1>1, <1>3, <1>6, <1>7 DEF Alone, Typed
<1>9. CodeOf(r)'
  BY <1>1, <1>3, <1>6 DEF CodeOf
<1>10. HomeOf(r)'
  <2>1. CASE pc[r] = "begin"
    BY <1>2, <1>3, <1>6, <1>7, <2>1 DEF HomeOf
  <2>2. CASE pc[r] = "again"
    BY <1>1, <1>3, <2>2 DEF HomeOf, CodeOf
  <2> QED BY <1>3, <2>1, <2>2
<1> QED BY <1>5, <1>8, <1>9, <1>10, OthersKeep

\* The end of a transaction within the request.
EndsTransaction(r) == InsertConflicts(r) \/ CommitInsert(r) \/ CommitChange(r)

LEMMA EndsTransactionStep ==
    ASSUME NEW r \in Requests, EndsTransaction(r), Typed, CodeOf(r)
    PROVE  /\ pc[r] \in {"coded", "inserted", "written"} /\ pc'[r] \in {"again", "raised", "closing"}
           /\ pc' = [s \in Requests |-> IF s = r THEN pc'[r] ELSE pc[s]]
           /\ Commit(<<conn[r]>>) \/ Rollback(<<conn[r]>>)
           /\ conn' = [conn EXCEPT ![r] = NoConn] /\ guard' = guard
           /\ ended' = [s \in Requests |-> IF s = r THEN TRUE ELSE ended[s]]
           /\ op' = op /\ tenant' = tenant /\ last' = Nothing
           /\ tries'[r] \in Nat /\ tries' = [s \in Requests |-> IF s = r THEN tries'[r] ELSE tries[s]]
           /\ pc'[r] = "again" => op[r] = "update" \/ (op[r] = "create" /\ tries'[r] > 0)
<1> USE DEF GoTo, Typed, CodeOf, data
<1>1. CASE InsertConflicts(r)
  <2>1. /\ tries' = [s \in Requests |-> IF s = r THEN tries[r] + 1 ELSE tries[s]]
        /\ tries[r] + 1 \in Nat /\ tries[r] + 1 > 0
    <3>1. tries' = [tries EXCEPT ![r] = tries[r] + 1]
      BY <1>1 DEF InsertConflicts
    <3> QED BY <3>1
  <2>5. op[r] = "create"
    BY <1>1 DEF InsertConflicts
  <2>6. ended' = [s \in Requests |-> IF s = r THEN TRUE ELSE ended[s]]
    BY <1>1 DEF InsertConflicts
  <2>2. PICK next \in {"again", "raised"} : GoTo(r, "coded", next)
    BY <1>1 DEF InsertConflicts
  <2>3. /\ Rollback(<<conn[r]>>) /\ conn' = [conn EXCEPT ![r] = NoConn] /\ guard' = guard
        /\ op' = op /\ tenant' = tenant /\ last' = Nothing
    BY <1>1 DEF InsertConflicts
  <2>4. /\ pc[r] = "coded" /\ pc'[r] = next
        /\ pc' = [s \in Requests |-> IF s = r THEN next ELSE pc[s]]
    BY <2>2
  <2> QED BY <2>1, <2>3, <2>4, <2>5, <2>6
<1>2. CASE CommitInsert(r)
  BY <1>2 DEF CommitInsert
<1>3. CASE CommitChange(r)
  BY <1>3 DEF CommitChange
<1> QED BY <1>1, <1>2, <1>3 DEF EndsTransaction

LEMMA EndsTransactionKeeps ==
    ASSUME IInv, NEW r \in Requests, EndsTransaction(r)
    PROVE  IInv' /\ Alone(r)
<1> DEFINE q == <<conn[r]>>
<1>1. Typed /\ CodeOf(r) /\ HomeOf(r) /\ InPool
  BY DEF IInv, InCode, AtHome
<1>2. /\ pc[r] \in {"coded", "inserted", "written"} /\ pc'[r] \in {"again", "raised", "closing"}
      /\ pc' = [s \in Requests |-> IF s = r THEN pc'[r] ELSE pc[s]]
      /\ Commit(q) \/ Rollback(q)
      /\ conn' = [conn EXCEPT ![r] = NoConn] /\ guard' = guard
      /\ ended' = [s \in Requests |-> IF s = r THEN TRUE ELSE ended[s]]
      /\ op' = op /\ tenant' = tenant
      /\ tries'[r] \in Nat /\ tries' = [s \in Requests |-> IF s = r THEN tries'[r] ELSE tries[s]]
      /\ pc'[r] = "again" => op[r] = "update" \/ (op[r] = "create" /\ tries'[r] > 0)
  BY <1>1, EndsTransactionStep
<1>3. conn[r] # NoConn /\ conn[r] # guard[r] /\ conn[r] \in Conns
  BY <1>1, <1>2, ConstantsAssumption DEF CodeOf, InPool, Conns, NoConn
<1>4. q \in Seq(Conns) /\ Once(q) /\ Range(q) = {conn[r]}
  BY <1>3 DEF Once, Range
<1>5. Range(q) = {conn[r], guard[r]} \ {guard[r], NoConn}
  BY <1>3, <1>4
<1>6. idle' = idle \o q /\ opened' = opened
  BY <1>2 DEF Commit, Rollback
<1>7. guard' = [guard EXCEPT ![r] = guard[r]]
  BY <1>1, <1>2 DEF InPool
<1>8. InPool'
  BY <1>1, <1>2, <1>4, <1>5, <1>6, <1>7, ReturnInPool
<1>9. conn' = [s \in Requests |-> IF s = r THEN NoConn ELSE conn[s]]
  BY <1>1, <1>2 DEF InPool
<1>10. /\ path' = [d \in Conns |-> path'[d]]
       /\ \A s \in Requests \ {r} : conn[s] # NoConn => path'[conn[s]] = path[conn[s]]
  BY <1>2, <1>4, ReturnedIsOwn
<1>11. Alone(r)
  BY <1>1, <1>2, <1>9, <1>10 DEF Alone, Typed
<1>12. CodeOf(r)'
  BY <1>1, <1>2, <1>9 DEF CodeOf
<1>13. HomeOf(r)'
  BY <1>9 DEF HomeOf
<1> QED BY <1>8, <1>11, <1>12, <1>13, OthersKeep

\* The end of the request.
LEMMA ForgetKeeps ==
    ASSUME IInv, NEW r \in Requests, Forget(r), Commit(Held(r)) \/ Rollback(Held(r))
    PROVE  IInv' /\ Alone(r)
<1>1. Typed /\ CodeOf(r) /\ InPool
  BY DEF IInv, InCode
<1>2. Held(r) \in Seq(Conns) /\ Once(Held(r)) /\ Range(Held(r)) = {conn[r], guard[r]} \ {NoConn}
  BY <1>1, SlotsHeld
<1>3. conn' = [conn EXCEPT ![r] = NoConn] /\ guard' = [guard EXCEPT ![r] = NoConn]
  BY DEF Forget
<1>4. idle' = idle \o Held(r) /\ opened' = opened
  BY DEF Commit, Rollback
<1>5. Range(Held(r)) = {conn[r], guard[r]} \ {NoConn, NoConn}
  BY <1>2
<1>6. InPool'
  BY <1>1, <1>2, <1>3, <1>4, <1>5, ReturnInPool
<1>7. /\ pc' = [s \in Requests |-> IF s = r THEN "new" ELSE pc[s]]
      /\ op' = [s \in Requests |-> IF s = r THEN "read" ELSE op[s]]
      /\ tenant' = [s \in Requests |-> IF s = r THEN NoTenant ELSE tenant[s]]
      /\ tries' = [s \in Requests |-> IF s = r THEN 0 ELSE tries[s]]
      /\ ended' = [s \in Requests |-> IF s = r THEN FALSE ELSE ended[s]]
  BY <1>1 DEF Forget, Typed
<1>8. /\ conn' = [s \in Requests |-> IF s = r THEN NoConn ELSE conn[s]]
      /\ guard' = [s \in Requests |-> IF s = r THEN NoConn ELSE guard[s]]
  BY <1>1, <1>3 DEF InPool
<1>9. /\ path' = [d \in Conns |-> path'[d]]
      /\ \A s \in Requests \ {r} : conn[s] # NoConn => path'[conn[s]] = path[conn[s]]
  BY <1>2, ReturnedIsOwn
<1>10. Alone(r)
  BY <1>7, <1>8, <1>9 DEF Alone, Typed
<1>11. CodeOf(r)'
  BY <1>7, <1>8 DEF CodeOf, Ops
<1>12. HomeOf(r)'
  BY <1>8 DEF HomeOf
<1> QED BY <1>6, <1>10, <1>11, <1>12, OthersKeep

\* Every step is one of these.
LEMMA StepKinds ==
    ASSUME Next
    PROVE  \E r \in Requests :
              \/ Statement(r)
              \/ /\ last' = Nothing
                 /\ \/ Arrive(r) \/ EnforceLimit(r) \/ Begin(r) \/ Again(r) \/ EndsTransaction(r)
                    \/ pc[r] # "new" /\ Forget(r) /\ (Commit(Held(r)) \/ Rollback(Held(r)))
<1>1. PICK r \in Requests : Arrive(r) \/ Work(r) \/ Abort(r)
  BY DEF Next
<1>2. Arrive(r) \/ EnforceLimit(r) \/ Begin(r) \/ Again(r) => last' = Nothing
  BY DEF Arrive, EnforceLimit, Begin, Again
<1>3. EndsTransaction(r) => last' = Nothing
  BY DEF EndsTransaction, InsertConflicts, CommitInsert, CommitChange
<1>4. Close(r) \/ PoolTimeout(r) \/ Abort(r) =>
        /\ last' = Nothing /\ pc[r] # "new" /\ Forget(r)
        /\ Commit(Held(r)) \/ Rollback(Held(r))
  BY DEF Close, PoolTimeout, Abort, Forget
<1>5. Work(r) => \/ Statement(r) \/ EnforceLimit(r) \/ Begin(r) \/ Again(r) \/ EndsTransaction(r)
                 \/ Close(r) \/ PoolTimeout(r) \/ Abort(r)
  BY DEF Work, Statement, EndsTransaction
<1> QED BY <1>1, <1>2, <1>3, <1>4, <1>5

LEMMA Invariance == Spec => []IInv
<1>1. Init => IInv
  <2> SUFFICES ASSUME Init PROVE IInv
    OBVIOUS
  <2>1. Typed /\ AtHome /\ \A r \in Requests : CodeOf(r)
    BY DEF Init, Typed, AtHome, HomeOf, CodeOf, Ops
  <2>2. idle \in Seq(Conns) /\ Once(idle) /\ Range(idle) = {}
    BY DEF Init, Once, Range
  <2>3. opened = 0 /\ \A r \in Requests : conn[r] = 0 /\ guard[r] = 0
    BY DEF Init, NoConn
  <2>4. conn = [r \in Requests |-> conn[r]] /\ guard = [r \in Requests |-> guard[r]]
    BY DEF Init
  <2>5. InPool
    BY <2>2, <2>3, <2>4, ConstantsAssumption DEF InPool, NoConn
  <2> QED BY <2>1, <2>5 DEF IInv, InCode
<1>2. IInv /\ [Next]_vars => IInv'
  <2> SUFFICES ASSUME IInv, [Next]_vars PROVE IInv'
    OBVIOUS
  <2>1. CASE Next
    BY <2>1, StepKinds, StatementKeeps, ArriveKeeps, EnforceLimitKeeps, BeginKeeps,
       EndsTransactionKeeps, ForgetKeeps
  <2>2. CASE UNCHANGED vars
    BY <2>2 DEF vars, pool, IInv, InPool, InCode, Typed, CodeOf, AtHome, HomeOf
  <2> QED BY <2>1, <2>2
<1> QED BY <1>1, <1>2, PTL DEF Spec

-----------------------------------------------------------------------------
(* The theorems *)

\* A step of one request changes the promise's variables for that request at most.
LEMMA OthersAsPromised ==
    ASSUME NEW r \in Requests, Alone(r)
    PROVE  /\ Home' = [s \in Requests |-> IF s = r THEN Home'[r] ELSE Home[s]]
           /\ Turn' = [s \in Requests |-> IF s = r THEN Turn'[r] ELSE Turn[s]]
           /\ Where' = [s \in Requests |-> IF s = r THEN Where'[r] ELSE Where[s]]
<1>1. ASSUME NEW s \in Requests \ {r}
      PROVE  Home'[s] = Home[s] /\ Turn'[s] = Turn[s] /\ Where'[s] = Where[s]
  <2>1. /\ pc'[s] = pc[s] /\ tenant'[s] = tenant[s] /\ ended'[s] = ended[s] /\ conn'[s] = conn[s]
        /\ conn[s] # NoConn => path'[conn[s]] = path[conn[s]]
    BY DEF Alone
  <2> QED BY <2>1 DEF Home, Turn, Where, SchemaOf
<1>2. /\ Home' = [s \in Requests |-> Home'[s]] /\ Turn' = [s \in Requests |-> Turn'[s]]
      /\ Where' = [s \in Requests |-> Where'[s]]
  BY DEF Home, Turn, Where
<1> HIDE DEF Home, Turn, Where
<1> QED BY <1>1, <1>2

\* A schema is never NoTenant, so that a request with a connection is somewhere.
LEMMA SomeSchema == \A c : SchemaOf(c) \in Schemas /\ SchemaOf(c) # NoTenant
  BY ConstantsAssumption DEF SchemaOf, Schemas

\* Where the connection of a request is.
Here(r) == SchemaOf(conn[r])

\* What the variables of the promise are for one request.
LEMMA AsPromised ==
    ASSUME NEW r \in Requests
    PROVE  /\ Home[r] = IF tenant[r] \in Provisioned THEN tenant[r] ELSE NoTenant
           /\ Turn[r] = IF pc[r] = "new" THEN "idle" ELSE IF ended[r] THEN "later" ELSE "first"
           /\ Where[r] = IF conn[r] = NoConn THEN NoTenant ELSE SchemaOf(conn[r])
           /\ Home'[r] = IF tenant'[r] \in Provisioned THEN tenant'[r] ELSE NoTenant
           /\ Turn'[r] = IF pc'[r] = "new" THEN "idle" ELSE IF ended'[r] THEN "later" ELSE "first"
           /\ Where'[r] = IF conn'[r] = NoConn THEN NoTenant ELSE Here(r)'
  BY DEF Home, Turn, Where, SchemaOf, Here, NoConn

\* A request takes its tenant, or none.
LEMMA ArrivePromised ==
    ASSUME IInv, NEW r \in Requests, Arrive(r), Made' = <<>>
    PROVE  Promise!Start(r)
<1>1. Typed /\ CodeOf(r) /\ Alone(r)
  BY ArriveKeeps DEF IInv, InCode
<1>2. pc[r] = "new" /\ pc'[r] # "new" /\ ended' = ended /\ conn' = conn
  <2>1. PICK o \in OpsOf[r] : GoTo(r, "new", IF o = "create" THEN "limit" ELSE "begin")
    BY DEF Arrive
  <2> QED BY <1>1, <2>1 DEF GoTo, Typed, Arrive
<1>3. conn[r] = NoConn /\ ended[r] = FALSE
  BY <1>1, <1>2 DEF CodeOf
<1>4. Turn[r] = "idle" /\ Turn'[r] = "first" /\ Where'[r] = Where[r]
  BY <1>2, <1>3, AsPromised
<1>5. Home'[r] \in Schemas \cup {NoTenant}
  BY AsPromised DEF Schemas
<1>6. Turn' = [Turn EXCEPT ![r] = "first"] /\ Home' = [Home EXCEPT ![r] = Home'[r]] /\ Where' = Where
  <2>1. Turn = [s \in Requests |-> Turn[s]] /\ Home = [s \in Requests |-> Home[s]]
        /\ Where = [s \in Requests |-> Where[s]]
    BY DEF Turn, Home, Where
  <2> HIDE DEF Turn, Home, Where
  <2> QED BY <1>1, <1>4, <2>1, OthersAsPromised
<1> QED BY <1>4, <1>5, <1>6 DEF Promise!Start, Promise!None

\* The session of the plan's limit makes no statement of the handler.
LEMMA LimitPromised ==
    ASSUME IInv, NEW r \in Requests, EnforceLimit(r), Made' = <<>>
    PROVE  Promise!Quiet
<1>1. Typed /\ CodeOf(r) /\ Alone(r)
  BY EnforceLimitKeeps DEF IInv, InCode
<1>2. pc[r] = "limit" /\ pc'[r] # "new" /\ ended' = ended /\ conn' = conn /\ tenant' = tenant
  <2>1. PICK next \in {"begin", "raised"} : GoTo(r, "limit", next)
    BY DEF EnforceLimit
  <2> QED BY <1>1, <2>1 DEF GoTo, Typed, EnforceLimit
<1>3. conn[r] = NoConn
  BY <1>1, <1>2 DEF CodeOf
<1>4. Home'[r] = Home[r] /\ Turn'[r] = Turn[r] /\ Where'[r] = Where[r]
  BY <1>2, <1>3, AsPromised
<1>5. Turn' = Turn /\ Home' = Home /\ Where' = Where
  <2>1. Turn = [s \in Requests |-> Turn[s]] /\ Home = [s \in Requests |-> Home[s]]
        /\ Where = [s \in Requests |-> Where[s]]
    BY DEF Turn, Home, Where
  <2> HIDE DEF Turn, Home, Where
  <2> QED BY <1>1, <1>4, <2>1, OthersAsPromised
<1> QED BY <1>5 DEF Promise!Quiet, Promise!None

\* The first transaction opens at home, a later one anywhere.
LEMMA BeginPromised ==
    ASSUME IInv, NEW r \in Requests, Begin(r) \/ Again(r), Made' = <<>>
    PROVE  Promise!Open(r)
<1>1. Typed /\ CodeOf(r) /\ Alone(r) /\ HomeOf(r)' /\ CodeOf(r)'
  BY BeginKeeps DEF IInv, InCode, AtHome
<1>2. /\ pc[r] \in {"begin", "again"} /\ pc'[r] = "work" /\ ended' = ended /\ tenant' = tenant
  BY <1>1 DEF GoTo, Typed, Begin, Again
<1>3. conn[r] = NoConn /\ conn'[r] # NoConn
  BY <1>1, <1>2 DEF CodeOf
<1>4. /\ Where[r] = NoTenant /\ Where'[r] = Here(r)' /\ Where'[r] \in Schemas
      /\ Home'[r] = Home[r] /\ Turn'[r] = Turn[r] /\ Turn[r] # "idle"
  <2>1. Here(r)' \in Schemas
    BY DEF SchemaOf, Schemas, Here
  <2> QED BY <1>2, <1>3, <2>1, AsPromised
<1>5. ASSUME Turn[r] = "first", Home[r] # NoTenant PROVE Where'[r] = Home[r]
  <2>1. ended'[r] = FALSE /\ tenant'[r] \in Provisioned /\ Home[r] = tenant'[r]
    BY <1>1, <1>2, <1>5, AsPromised DEF CodeOf
  <2>2. path'[conn'[r]] = tenant'[r]
    BY <1>1, <1>3, <2>1, ConstantsAssumption DEF HomeOf, NoConn
  <2> QED BY <1>4, <2>1, <2>2 DEF SchemaOf, Here
<1>6. Turn' = Turn /\ Home' = Home /\ Where' = [Where EXCEPT ![r] = Where'[r]]
  <2>1. Turn = [s \in Requests |-> Turn[s]] /\ Home = [s \in Requests |-> Home[s]]
        /\ Where = [s \in Requests |-> Where[s]]
    BY DEF Turn, Home, Where
  <2> HIDE DEF Turn, Home, Where
  <2> QED BY <1>1, <1>4, <2>1, OthersAsPromised
<1> QED BY <1>4, <1>5, <1>6 DEF Promise!Open, Promise!None

\* A statement acts where the transaction is.
LEMMA StatementPromised ==
    ASSUME IInv, NEW r \in Requests, Statement(r)
    PROVE  Promise!Act(r)
<1>1. Typed /\ CodeOf(r)
  BY DEF IInv, InCode
<1>2. /\ pc[r] \in {"work", "coded"} /\ pc'[r] # "new"
      /\ pc' = [s \in Requests |-> IF s = r THEN pc'[r] ELSE pc[s]]
      /\ path' = path /\ conn' = conn /\ tenant' = tenant /\ ended' = ended
  BY <1>1, StatementStep
<1>3. PICK kind \in Kinds : Act(r, kind)
  BY <1>1, StatementStep
<1>4. conn[r] # NoConn
  BY <1>1, <1>2 DEF CodeOf
<1>5. Where[r] = SchemaOf(conn[r]) /\ Where[r] # NoTenant
  BY <1>4, AsPromised, SomeSchema
<1>6. Made' = <<r, Where[r]>>
  <2>1. last'.req = r /\ last'.schema = SchemaOf(conn[r]) /\ r # NoRequest
    BY <1>3, ConstantsAssumption DEF Act
  <2> QED BY <1>5, <2>1 DEF Made
<1>7. Home' = Home /\ Where' = Where
  BY <1>2 DEF Home, Where, SchemaOf
<1>8. Turn' = Turn
  BY <1>2 DEF Turn
<1> QED BY <1>5, <1>6, <1>7, <1>8 DEF Promise!Act

\* A commit or a rollback leaves the schema; what follows is no longer the first transaction.
LEMMA EndPromised ==
    ASSUME IInv, NEW r \in Requests, EndsTransaction(r), Made' = <<>>
    PROVE  Promise!End(r)
<1>1. Typed /\ CodeOf(r) /\ Alone(r)
  BY EndsTransactionKeeps DEF IInv, InCode
<1>2. /\ pc[r] \in {"coded", "inserted", "written"} /\ pc'[r] \in {"again", "raised", "closing"}
      /\ conn' = [conn EXCEPT ![r] = NoConn]
      /\ ended' = [s \in Requests |-> IF s = r THEN TRUE ELSE ended[s]] /\ tenant' = tenant
  BY <1>1, EndsTransactionStep
<1>3. conn[r] # NoConn /\ conn'[r] = NoConn
  BY <1>1, <1>2 DEF CodeOf, IInv, InPool
<1>4. /\ Where[r] # NoTenant /\ Where'[r] = NoTenant /\ Turn'[r] = "later" /\ Home'[r] = Home[r]
  BY <1>2, <1>3, AsPromised, SomeSchema
<1>5. /\ Turn' = [Turn EXCEPT ![r] = "later"] /\ Home' = Home
      /\ Where' = [Where EXCEPT ![r] = NoTenant]
  <2>1. Turn = [s \in Requests |-> Turn[s]] /\ Home = [s \in Requests |-> Home[s]]
        /\ Where = [s \in Requests |-> Where[s]]
    BY DEF Turn, Home, Where
  <2> HIDE DEF Turn, Home, Where
  <2> QED BY <1>1, <1>4, <2>1, OthersAsPromised
<1> QED BY <1>4, <1>5 DEF Promise!End, Promise!None

LEMMA ForgetPromised ==
    ASSUME IInv, NEW r \in Requests, pc[r] # "new", Forget(r),
           Commit(Held(r)) \/ Rollback(Held(r)), Made' = <<>>
    PROVE  Promise!Leave(r)
<1>1. Typed /\ Alone(r)
  BY ForgetKeeps DEF IInv, InCode
<1>2. pc'[r] = "new" /\ tenant'[r] = NoTenant /\ conn'[r] = NoConn
  BY <1>1 DEF Forget, Typed, IInv, InPool
<1>3. Turn[r] # "idle" /\ Turn'[r] = "idle" /\ Home'[r] = NoTenant /\ Where'[r] = NoTenant
  BY <1>2, AsPromised
<1>4. /\ Turn' = [Turn EXCEPT ![r] = "idle"] /\ Home' = [Home EXCEPT ![r] = NoTenant]
      /\ Where' = [Where EXCEPT ![r] = NoTenant]
  <2>1. Turn = [s \in Requests |-> Turn[s]] /\ Home = [s \in Requests |-> Home[s]]
        /\ Where = [s \in Requests |-> Where[s]]
    BY DEF Turn, Home, Where
  <2> HIDE DEF Turn, Home, Where
  <2> QED BY <1>1, <1>3, <2>1, OthersAsPromised
<1> QED BY <1>3, <1>4 DEF Promise!Leave, Promise!None

\* The routing implements ScopedAccess (get_db_session and its callers): each transaction of a
\* request acts in one schema, and the first in its tenant's, whatever the pool has done to the
\* path of the connection in between.
THEOREM KeepsThePromise == Spec => ScopePromise
<1> USE DEF Promise!vars
<1>1. Init => Promise!Init
  <2> SUFFICES ASSUME Init PROVE Promise!Init
    OBVIOUS
  <2>1. Home = [r \in Requests |-> NoTenant] /\ Where = [r \in Requests |-> NoTenant]
        /\ Turn = [r \in Requests |-> "idle"]
    BY ConstantsAssumption DEF Init, Home, Where, Turn
  <2>2. Made = <<>>
    BY DEF Init, Nothing, Made
  <2> QED BY <2>1, <2>2 DEF Promise!Init, Promise!None
<1>2. IInv /\ [Next]_vars => [Promise!Next]_<<Home, Turn, Where, Made>>
  <2> SUFFICES ASSUME IInv, [Next]_vars PROVE [Promise!Next]_<<Home, Turn, Where, Made>>
    OBVIOUS
  <2>1. CASE UNCHANGED vars
    <3>1. Home' = Home /\ Turn' = Turn
      BY <2>1 DEF vars, Home, Turn
    <3>2. Where' = Where /\ Made' = Made
      BY <2>1 DEF vars, pool, Where, Made, SchemaOf
    <3> QED BY <3>1, <3>2
  <2>2. CASE Next
    <3>1. PICK r \in Requests :
            \/ Statement(r)
            \/ /\ last' = Nothing
               /\ \/ Arrive(r) \/ EnforceLimit(r) \/ Begin(r) \/ Again(r) \/ EndsTransaction(r)
                  \/ pc[r] # "new" /\ Forget(r) /\ (Commit(Held(r)) \/ Rollback(Held(r)))
      BY <2>2, StepKinds
    <3>2. last' = Nothing => Made' = <<>>
      BY DEF Nothing, Made
    <3> QED BY <3>1, <3>2, StatementPromised, ArrivePromised, LimitPromised, BeginPromised,
             EndPromised, ForgetPromised DEF Promise!Next
  <2> QED BY <2>1, <2>2
<1> QED BY <1>1, <1>2, Invariance, PTL DEF Spec, ScopePromise, Promise!Spec

LEMMA OnePlace ==
    ASSUME InPool
    PROVE  ConnHeldOnce
<1>1. Cardinality({}) = 0 /\ \A x : Cardinality({x}) = 1
  BY FS_EmptySet, FS_Singleton
<1>2. SUFFICES ASSUME NEW c \in Conns PROVE Places(c) = IF c <= opened THEN 1 ELSE 0
  BY DEF ConnHeldOnce
<1> DEFINE inIdle == {i \in DOMAIN idle : idle[i] = c}
           byConn == {r \in Requests : conn[r] = c}
           byGuard == {r \in Requests : guard[r] = c}
<1>3. c \in Nat /\ c # NoConn /\ opened \in Nat /\ (c <= opened <=> c \in 1..opened)
  BY ConstantsAssumption DEF InPool, Conns, NoConn
<1>4. Places(c) = Cardinality(inIdle) + Cardinality(byConn) + Cardinality(byGuard)
  BY DEF Places
<1>5. CASE c > opened
  <2>1. inIdle = {} /\ byConn = {} /\ byGuard = {}
    BY <1>3, <1>5 DEF InPool, Range
  <2> HIDE DEF inIdle, byConn, byGuard
  <2> QED BY <1>1, <1>3, <1>4, <1>5, <2>1
<1>6. CASE c \in Range(idle)
  <2>1. PICK i \in DOMAIN idle : idle[i] = c
    BY <1>6 DEF Range
  <2>2. inIdle = {i}
    BY <2>1 DEF InPool, Once
  <2>3. byConn = {} /\ byGuard = {}
    BY <1>6 DEF InPool
  <2>4. c <= opened
    BY <1>3, <1>6 DEF InPool
  <2> HIDE DEF inIdle, byConn, byGuard
  <2> QED BY <1>1, <1>4, <2>2, <2>3, <2>4
<1>7. CASE c <= opened /\ c \notin Range(idle)
  <2>1. PICK r \in Requests : c \in {conn[r], guard[r]}
    BY <1>3, <1>7 DEF InPool
  <2>2. inIdle = {}
    BY <1>7 DEF Range
  <2>3. (byConn = {r} /\ byGuard = {}) \/ (byConn = {} /\ byGuard = {r})
    <3>1. CASE conn[r] = c
      BY <1>3, <3>1 DEF InPool
    <3>2. CASE guard[r] = c
      BY <1>3, <3>2 DEF InPool
    <3> QED BY <2>1, <3>1, <3>2
  <2> HIDE DEF inIdle, byConn, byGuard
  <2>4. Cardinality(inIdle) = 0
    BY <1>1, <2>2
  <2>5. \/ Cardinality(byConn) = 1 /\ Cardinality(byGuard) = 0
        \/ Cardinality(byConn) = 0 /\ Cardinality(byGuard) = 1
    BY <1>1, <2>3
  <2> QED BY <1>4, <1>7, <2>4, <2>5
<1> QED BY <1>3, <1>5, <1>6, <1>7

\* The last statement was made where it should have been.
AtHomeStep == FirstTransactionAtHome /\ OnlyRetriesStray

LEMMA StatementAtHome ==
    ASSUME IInv, NEW r \in Requests, Statement(r)
    PROVE  AtHomeStep'
<1>1. Typed /\ CodeOf(r) /\ HomeOf(r)
  BY DEF IInv, InCode, AtHome
<1>2. pc[r] \in {"work", "coded"} /\ op' = op /\ tenant' = tenant /\ tries' = tries /\ ended' = ended
  BY <1>1, StatementStep
<1>3. PICK kind \in Kinds : Act(r, kind)
  BY <1>1, StatementStep
<1>4. last'.req = r /\ last'.kind = kind /\ last'.schema = SchemaOf(conn[r])
  BY <1>3 DEF Act
<1>5. tenant[r] \in Provisioned /\ ended[r] = FALSE => SchemaOf(conn[r]) = tenant[r]
  BY <1>1, <1>2, ConstantsAssumption DEF CodeOf, HomeOf, SchemaOf
<1>6. FirstTransactionAtHome'
  BY <1>2, <1>4, <1>5 DEF FirstTransactionAtHome, Scoped
<1>7. kind = "write" /\ ended[r] = TRUE => op[r] = "create" /\ tries[r] > 0
  <2>1. CASE Read(r) \/ NextProjectCode(r)
    BY <1>4, <2>1 DEF Read, NextProjectCode, Act
  <2>2. CASE UpdateProject(r)
    BY <2>2 DEF UpdateProject
  <2>3. CASE DeleteProject(r)
    BY <1>1, <1>2, <2>3 DEF DeleteProject, GoTo, CodeOf
  <2>4. CASE InsertProject(r)
    BY <1>1, <2>4 DEF InsertProject, GoTo, CodeOf
  <2> QED BY <2>1, <2>2, <2>3, <2>4 DEF Statement
<1>8. OnlyRetriesStray'
  BY <1>1, <1>2, <1>4, <1>5, <1>7 DEF OnlyRetriesStray, CodeOf
<1> QED BY <1>6, <1>8 DEF AtHomeStep

\* A connection serves one session; before its first commit or rollback a request acts in its
\* tenant's schema, and later only the insert of a create that lost a race strays.
THEOREM ActsAtHome == Spec => []RequestsAtHome
<1>1. Init => AtHomeStep
  BY DEF Init, Nothing, AtHomeStep, FirstTransactionAtHome, OnlyRetriesStray
<1>2. IInv /\ AtHomeStep /\ [Next]_vars => AtHomeStep'
  <2> SUFFICES ASSUME IInv, AtHomeStep, [Next]_vars PROVE AtHomeStep'
    OBVIOUS
  <2>1. CASE UNCHANGED vars
    BY <2>1 DEF vars, AtHomeStep, FirstTransactionAtHome, OnlyRetriesStray, Scoped
  <2>2. CASE Next
    <3>1. CASE last' = Nothing
      BY <3>1 DEF Nothing, AtHomeStep, FirstTransactionAtHome, OnlyRetriesStray
    <3>2. CASE \E r \in Requests : Statement(r)
      BY <3>2, StatementAtHome
    <3> QED BY <2>2, <3>1, <3>2, StepKinds
  <2> QED BY <2>1, <2>2
<1>3. IInv /\ AtHomeStep => RequestsAtHome
  BY OnePlace DEF IInv, AtHomeStep, RequestsAtHome
<1> QED BY <1>1, <1>2, <1>3, Invariance, PTL DEF Spec
=============================================================================
