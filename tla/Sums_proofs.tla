------------------------------ MODULE Sums_proofs ------------------------------
(***************************************************************************)
(* Two components whose promises are about sums, and the sums of the       *)
(* community modules, which add in an order that CHOOSE picks.             *)
(*                                                                         *)
(* GroqRate.  For any number of calls, entities and minutes, any costs and *)
(* any limits that grow with the factor: no minute admits more requests or *)
(* tokens than its full limit, no entity more than its share, the circuit  *)
(* opens only after so many failures, and stops every call after one       *)
(* attempt.  The argument for the budgets is that of a ledger: the tickets *)
(* of the calls booked in a window tell how much was booked up to each of  *)
(* them; the admitted call with the greatest ticket is within the limits,  *)
(* and all the others were booked before it.                               *)
(*                                                                         *)
(* SurfaceHeights.  For a raster of any width: its heights reach the       *)
(* terrain to the step of a tile, and the tools of the map agree on which  *)
(* pixels have one, on the volume and on the climb of a line.              *)
(***************************************************************************)
EXTENDS GroqRate, SurfaceHeights, FiniteSetTheorems, WellFoundedInduction, TLAPS

\* Every nonempty set of naturals has a least member.
LEMMA LeastNatural ==
    ASSUME NEW T, T \subseteq Nat, T # {}
    PROVE  \E m \in T : \A n \in T : m <= n
<1>1. IsWellFoundedOn(OpToRel(<, Nat), Nat)
  BY NatLessThanWellFounded
<1>2. PICK x \in T : \A y \in T : ~ (<<y, x>> \in OpToRel(<, Nat))
  BY <1>1, WFMin
<1>3. \A y \in T : ~ (y < x)
  BY <1>2 DEF OpToRel
<1> QED BY <1>3

\* Among sets of members of a finite set there is a minimal one.
LEMMA MinimalSubset ==
    ASSUME NEW S, IsFiniteSet(S), NEW B, B \subseteq SUBSET S, B # {}
    PROVE  \E b \in B : \A x \in b : b \ {x} \notin B
<1> DEFINE T == {Cardinality(b) : b \in B}
<1>1. \A b \in B : IsFiniteSet(b) /\ Cardinality(b) \in Nat
  BY FS_Subset, FS_CardinalityType
<1>2. PICK m \in T : \A n \in T : m <= n
  <2>1. T \subseteq Nat /\ T # {}
    BY <1>1
  <2> HIDE DEF T
  <2> QED BY <2>1, LeastNatural
<1>3. PICK b \in B : m = Cardinality(b)
  OBVIOUS
<1>4. ASSUME NEW x \in b, b \ {x} \in B PROVE FALSE
  <2>1. Cardinality(b \ {x}) = Cardinality(b) - 1
    BY <1>1, FS_RemoveElement
  <2>2. m <= Cardinality(b \ {x})
    BY <1>2, <1>4
  <2> QED BY <1>1, <1>3, <2>1, <2>2
<1> QED BY <1>4

\* MapThenSumSet, as the function it is defined by: g adds up f on the sets of D, a member at a time.
Pick(s) == CHOOSE x \in s : TRUE
Adds(f, D, g) == g = [s \in D |-> IF s = {} THEN 0 ELSE f[Pick(s)] + g[s \ {Pick(s)}]]
Sum(f, S) == (CHOOSE g : Adds(f, SUBSET S, g))[S]

\* What is picked is a member.
LEMMA Picked == \A s : s # {} => Pick(s) \in s
  BY DEF Pick

\* The defining equation at one set.
LEMMA AddsAt ==
    ASSUME NEW f, NEW D, NEW g, Adds(f, D, g), NEW s \in D
    PROVE  g[s] = IF s = {} THEN 0 ELSE f[Pick(s)] + g[s \ {Pick(s)}]
<1> DEFINE h == [u \in D |-> IF u = {} THEN 0 ELSE f[Pick(u)] + g[u \ {Pick(u)}]]
<1>1. g = h
  BY DEF Adds
<1>2. h[s] = IF s = {} THEN 0 ELSE f[Pick(s)] + g[s \ {Pick(s)}]
  OBVIOUS
<1> HIDE DEF h
<1> QED BY <1>1, <1>2

\* There is such a function on the subsets of a finite set,
LEMMA AddsExists ==
    ASSUME NEW S, IsFiniteSet(S), NEW f
    PROVE  \E g : Adds(f, SUBSET S, g)
<1> DEFINE Upto(n) == {s \in SUBSET S : Cardinality(s) <= n}
           Bad == {n \in Nat : ~ \E g : Adds(f, Upto(n), g)}
<1>1. \A s \in SUBSET S : IsFiniteSet(s) /\ Cardinality(s) \in Nat /\ Cardinality(s) <= Cardinality(S)
  BY FS_Subset, FS_CardinalityType
<1>2. 0 \notin Bad
  <2> DEFINE g == [s \in Upto(0) |-> 0]
  <2>1. \A s \in Upto(0) : s = {}
    BY <1>1, FS_EmptySet
  <2>2. g = [s \in Upto(0) |-> IF s = {} THEN 0 ELSE f[Pick(s)] + g[s \ {Pick(s)}]]
    BY <2>1
  <2> HIDE DEF Upto, g
  <2>3. Adds(f, Upto(0), g)
    BY <2>2 DEF Adds
  <2> QED BY <2>3
<1>3. ASSUME NEW n \in Nat, n \notin Bad PROVE n + 1 \notin Bad
  <2>1. PICK g : Adds(f, Upto(n), g)
    BY <1>3
  <2> DEFINE h == [s \in Upto(n + 1) |-> IF s = {} THEN 0 ELSE f[Pick(s)] + g[s \ {Pick(s)}]]
  <2>2. ASSUME NEW s \in Upto(n + 1), s # {} PROVE s \ {Pick(s)} \in Upto(n)
    <3>1. Pick(s) \in s /\ Cardinality(s) <= n + 1 /\ s \in SUBSET S
      BY <2>2, Picked
    <3>2. Cardinality(s \ {Pick(s)}) = Cardinality(s) - 1
      BY <1>1, <3>1, FS_RemoveElement
    <3> QED BY <1>1, <3>1, <3>2
  <2>3. ASSUME NEW u \in Upto(n) PROVE h[u] = g[u]
    <3>1. u \in Upto(n + 1)
      BY <1>1
    <3>2. h[u] = IF u = {} THEN 0 ELSE f[Pick(u)] + g[u \ {Pick(u)}]
      BY <3>1
    <3> HIDE DEF h, Upto
    <3> QED BY <2>1, <3>2, AddsAt
  <2> HIDE DEF Upto
  <2>4. h = [s \in Upto(n + 1) |-> IF s = {} THEN 0 ELSE f[Pick(s)] + h[s \ {Pick(s)}]]
    BY <2>2, <2>3
  <2> HIDE DEF h
  <2>5. Adds(f, Upto(n + 1), h)
    BY <2>4 DEF Adds
  <2> QED BY <2>5
<1>4. Bad = {}
  <2>1. SUFFICES ASSUME Bad # {} PROVE FALSE
    OBVIOUS
  <2> HIDE DEF Upto
  <2>2. Bad \subseteq Nat
    OBVIOUS
  <2> HIDE DEF Bad
  <2>3. PICK m \in Bad : \A n \in Bad : m <= n
    BY <2>1, <2>2, LeastNatural
  <2>4. m - 1 \in Nat /\ m - 1 \notin Bad /\ (m - 1) + 1 = m
    BY <1>2, <2>2, <2>3
  <2> QED BY <1>3, <2>4
<1>5. Upto(Cardinality(S)) = SUBSET S
  BY <1>1
<1>6. Cardinality(S) \in Nat
  BY FS_CardinalityType
<1> HIDE DEF Upto
<1>7. \E g : Adds(f, Upto(Cardinality(S)), g)
  BY <1>4, <1>6
<1> QED BY <1>5, <1>7

\* and only one, of integers when f is.
LEMMA AddsUnique ==
    ASSUME NEW S, IsFiniteSet(S), NEW T, T \subseteq S, NEW f, \A x \in T : f[x] \in Int,
           NEW g, Adds(f, SUBSET S, g), NEW h, Adds(f, SUBSET T, h)
    PROVE  \A s \in SUBSET T : g[s] = h[s] /\ g[s] \in Int
<1> DEFINE Bad == {s \in SUBSET T : ~ (g[s] = h[s] /\ g[s] \in Int)}
<1>1. SUFFICES ASSUME Bad # {} PROVE FALSE
  OBVIOUS
<1>2. PICK b \in Bad : \A x \in b : b \ {x} \notin Bad
  BY <1>1, FS_Subset, MinimalSubset
<1>3. b \in SUBSET T /\ b \in SUBSET S /\ \A x \in b : b \ {x} \in SUBSET T
  OBVIOUS
<1>4. \A x \in b : g[b \ {x}] = h[b \ {x}] /\ g[b \ {x}] \in Int
  BY <1>2, <1>3
<1>5. /\ g[b] = IF b = {} THEN 0 ELSE f[Pick(b)] + g[b \ {Pick(b)}]
      /\ h[b] = IF b = {} THEN 0 ELSE f[Pick(b)] + h[b \ {Pick(b)}]
  BY <1>3, AddsAt
<1>6. g[b] = h[b] /\ g[b] \in Int
  <2>1. CASE b = {}
    BY <1>5, <2>1
  <2>2. CASE b # {}
    <3>1. Pick(b) \in b /\ f[Pick(b)] \in Int
      BY <1>3, <2>2, Picked
    <3> DEFINE v == b \ {Pick(b)}
    <3>2. g[v] = h[v] /\ g[v] \in Int
      BY <1>4, <3>1
    <3>3. g[b] = f[Pick(b)] + g[v] /\ h[b] = f[Pick(b)] + h[v]
      BY <1>5, <2>2
    <3> HIDE DEF v, Bad
    <3> QED BY <3>1, <3>2, <3>3
  <2> QED BY <2>1, <2>2
<1> QED BY <1>6

\* Any function that adds up f gives the sums.
LEMMA SumIs ==
    ASSUME NEW S, IsFiniteSet(S), NEW f, \A x \in S : f[x] \in Int, NEW g, Adds(f, SUBSET S, g)
    PROVE  \A T \in SUBSET S : Sum(f, T) = g[T] /\ Sum(f, T) \in Int
<1> TAKE T \in SUBSET S
<1>1. IsFiniteSet(T)
  BY FS_Subset
<1> DEFINE h == CHOOSE h : Adds(f, SUBSET T, h)
<1>2. Adds(f, SUBSET T, h)
  BY <1>1, AddsExists
<1>3. Sum(f, T) = h[T]
  BY DEF Sum
<1> HIDE DEF h
<1>4. \A s \in SUBSET T : g[s] = h[s] /\ g[s] \in Int
  <2>1. T \subseteq S /\ \A x \in T : f[x] \in Int
    OBVIOUS
  <2> QED BY <1>2, <2>1, AddsUnique
<1> QED BY <1>3, <1>4

\* In whatever order it adds, a member adds its value.
LEMMA SumAdd ==
    ASSUME NEW S, IsFiniteSet(S), NEW f, \A x \in S : f[x] \in Int
    PROVE  /\ Sum(f, {}) = 0 /\ Sum(f, S) \in Int
           /\ \A T \in SUBSET S : \A x \in S \ T : Sum(f, T \cup {x}) = Sum(f, T) + f[x]
<1>1. PICK g : Adds(f, SUBSET S, g)
  BY AddsExists
<1>2. \A T \in SUBSET S : Sum(f, T) = g[T] /\ g[T] \in Int
  <2>1. \A T \in SUBSET S : Sum(f, T) = g[T] /\ Sum(f, T) \in Int
    BY <1>1, SumIs, Zenon
  <2> QED BY <2>1
<1>3. \A T \in SUBSET S : g[T] = IF T = {} THEN 0 ELSE f[Pick(T)] + g[T \ {Pick(T)}]
  BY <1>1, AddsAt
<1> DEFINE Bad == {T \in SUBSET S : ~ \A x \in S \ T : g[T \cup {x}] = g[T] + f[x]}
<1>4. Bad = {}
  <2>1. SUFFICES ASSUME Bad # {} PROVE FALSE
    OBVIOUS
  <2>2. PICK b \in Bad : \A x \in b : b \ {x} \notin Bad
    BY <2>1, MinimalSubset
  <2>3. PICK x \in S \ b : g[b \cup {x}] # g[b] + f[x]
    OBVIOUS
  <2> DEFINE u == b \cup {x}
             y == Pick(u)
  <2>4. u \in SUBSET S /\ u # {} /\ y \in u /\ b \in SUBSET S
    BY Picked
  <2> HIDE DEF y
  <2>5. g[u] = f[y] + g[u \ {y}]
    BY <1>3, <2>4 DEF y
  <2>6. CASE y = x
    <3>1. u \ {y} = b
      BY <2>3, <2>6
    <3>2. g[u] = g[b] + f[x]
      <4>1. g[b] \in Int /\ f[x] \in Int
        BY <1>2, <2>3, <2>4
      <4> HIDE DEF u, Bad
      <4>2. g[u] = f[x] + g[b]
        BY <2>5, <2>6, <3>1, Zenon
      <4> QED BY <4>1, <4>2
    <3> QED BY <2>3, <3>2
  <2>7. CASE y # x
    <3> DEFINE v == b \ {y}
    <3>1. y \in b /\ v \in SUBSET S /\ v \notin Bad /\ u \ {y} = v \cup {x} /\ b = v \cup {y}
      BY <2>2, <2>4, <2>7
    <3>2. \A z \in S \ v : g[v \cup {z}] = g[v] + f[z]
      BY <3>1
    <3> HIDE DEF v
    <3>3. x \in S \ v /\ y \in S \ v
      BY <2>3, <2>4, <3>1 DEF v
    <3>4. g[v \cup {x}] = g[v] + f[x] /\ g[v \cup {y}] = g[v] + f[y]
      BY <3>2, <3>3
    <3> QED BY <1>2, <2>3, <2>4, <2>5, <3>1, <3>3, <3>4
  <2> QED BY <2>6, <2>7
<1>5. ASSUME NEW T \in SUBSET S, NEW x \in S \ T PROVE Sum(f, T \cup {x}) = Sum(f, T) + f[x]
  <2>1. g[T \cup {x}] = g[T] + f[x] /\ T \cup {x} \in SUBSET S
    BY <1>4
  <2> QED BY <1>2, <2>1
<1> QED BY <1>2, <1>3, <1>5

\* The sum over a part is no greater.
LEMMA SumGrows ==
    ASSUME NEW S, IsFiniteSet(S), NEW f, \A x \in S : f[x] \in Nat, NEW T, T \subseteq S
    PROVE  Sum(f, T) <= Sum(f, S) /\ Sum(f, T) \in Nat
<1>1. /\ \A U \in SUBSET S : \A x \in S \ U : Sum(f, U \cup {x}) = Sum(f, U) + f[x]
      /\ \A U \in SUBSET S : IsFiniteSet(U) /\ Sum(f, U) \in Int /\ Sum(f, {}) = 0
  BY SumAdd, FS_Subset
<1>2. ASSUME NEW V \in SUBSET S, NEW W, W \subseteq V PROVE Sum(f, W) <= Sum(f, V)
  <2> DEFINE Bad == {U \in SUBSET (V \ W) : ~ Sum(f, W) <= Sum(f, W \cup U)}
  <2>1. SUFFICES ASSUME Bad # {} PROVE FALSE
    <3>1. V \ W \notin Bad
      BY <2>1
    <3>2. W \cup (V \ W) = V
      BY <1>2
    <3> QED BY <3>1, <3>2
  <2>2. PICK b \in Bad : \A x \in b : b \ {x} \notin Bad
    <3>1. IsFiniteSet(V \ W)
      BY <1>1
    <3> QED BY <2>1, <3>1, MinimalSubset
  <2>3. b # {}
    <3>1. Sum(f, W) <= Sum(f, W)
      BY <1>1, <1>2
    <3> QED BY <3>1
  <2>4. PICK x \in b : TRUE
    BY <2>3
  <2> DEFINE v == W \cup (b \ {x})
  <2>5. b \ {x} \in SUBSET (V \ W) /\ v \in SUBSET S /\ x \in S \ v /\ W \cup b = v \cup {x}
    BY <1>2, <2>4
  <2>6. Sum(f, W) <= Sum(f, v)
    BY <2>2, <2>4, <2>5
  <2> HIDE DEF v
  <2>7. Sum(f, W \cup b) = Sum(f, v) + f[x]
    BY <1>1, <2>5
  <2>8. Sum(f, W) <= Sum(f, W \cup b)
    BY <1>1, <1>2, <2>5, <2>6, <2>7
  <2> QED BY <2>8
<1> QED BY <1>1, <1>2

\* A sum is that of the values,
LEMMA SumSame ==
    ASSUME NEW S, IsFiniteSet(S), NEW f, NEW g, \A x \in S : f[x] = g[x] /\ f[x] \in Int
    PROVE  Sum(f, S) = Sum(g, S)
<1> DEFINE Bad == {T \in SUBSET S : Sum(f, T) # Sum(g, T)}
<1>1. SUFFICES ASSUME Bad # {} PROVE FALSE
  OBVIOUS
<1>2. PICK b \in Bad : \A x \in b : b \ {x} \notin Bad
  BY <1>1, MinimalSubset
<1>3. /\ Sum(f, {}) = 0 /\ Sum(g, {}) = 0
      /\ \A T \in SUBSET S : \A x \in S \ T : /\ Sum(f, T \cup {x}) = Sum(f, T) + f[x]
                                           /\ Sum(g, T \cup {x}) = Sum(g, T) + g[x]
  <2>1. \A x \in S : f[x] \in Int /\ g[x] \in Int
    OBVIOUS
  <2> QED BY <2>1, SumAdd
<1>4. PICK x \in b : TRUE
  BY <1>3
<1> DEFINE v == b \ {x}
<1>5. v \in SUBSET S /\ x \in S \ v /\ b = v \cup {x} /\ Sum(f, v) = Sum(g, v) /\ f[x] = g[x]
  BY <1>2, <1>4
<1>6. Sum(f, b) # Sum(g, b)
  OBVIOUS
<1> HIDE DEF v, Bad
<1> QED BY <1>3, <1>5, <1>6

\* and zeroes do not count.
LEMMA SumPart ==
    ASSUME NEW S, IsFiniteSet(S), NEW f, \A x \in S : f[x] \in Int,
           NEW T, T \subseteq S, \A x \in S \ T : f[x] = 0
    PROVE  Sum(f, S) = Sum(f, T)
<1> DEFINE Bad == {U \in SUBSET (S \ T) : Sum(f, T \cup U) # Sum(f, T)}
<1>1. SUFFICES ASSUME Bad # {} PROVE FALSE
  <2>1. S \ T \notin Bad /\ T \cup (S \ T) = S
    BY <1>1
  <2> QED BY <2>1
<1>2. PICK b \in Bad : \A x \in b : b \ {x} \notin Bad
  BY <1>1, FS_Subset, MinimalSubset
<1>3. b # {}
  BY <1>2
<1>4. PICK x \in b : TRUE
  BY <1>3
<1> DEFINE v == T \cup (b \ {x})
<1>5. v \in SUBSET S /\ x \in S \ v /\ T \cup b = v \cup {x} /\ Sum(f, v) = Sum(f, T) /\ f[x] = 0
      /\ Sum(f, T \cup b) # Sum(f, T)
  BY <1>2, <1>4
<1>6. ASSUME NEW U \in SUBSET S PROVE Sum(f, U) \in Int
  <2>1. IsFiniteSet(U) /\ \A z \in U : f[z] \in Int
    BY FS_Subset
  <2> QED BY <2>1, SumAdd
<1> HIDE DEF v, Bad
<1>7. Sum(f, v \cup {x}) = Sum(f, v) + f[x]
  BY <1>5, SumAdd
<1>8. Sum(f, v) + f[x] = Sum(f, v)
  BY <1>5, <1>6
<1> QED BY <1>5, <1>7, <1>8, Zenon

-----------------------------------------------------------------------------
(* The budget of one window: what the counters hold, and what each call got of it. *)

CostOf(S) == MapThenSumSet(LAMBDA c : Cost[c], S)

\* The calls of B that were counted no later than c.
Earlier(B, tickets, c) == {d \in B : tickets[d].req <= tickets[c].req}

\* B was counted, one call at a time, and each ticket shows what had been counted by then.
Ledger(B, requests, tokens, tickets) ==
    /\ B \subseteq Calls
    /\ requests = Cardinality(B) /\ tokens = CostOf(B)
    /\ \A c \in B : /\ tickets[c] \in Ticket /\ tickets[c].req <= requests
                    /\ tickets[c].req = Cardinality(Earlier(B, tickets, c))
                    /\ tickets[c].tok = CostOf(Earlier(B, tickets, c))

\* What the sums of costs, and the numbers of calls, do.
LEMMA Costs ==
    /\ CostOf({}) = 0
    /\ \A S \in SUBSET Calls : IsFiniteSet(S) /\ CostOf(S) \in Nat /\ Cardinality(S) \in Nat
    /\ \A S \in SUBSET Calls : \A T \in SUBSET S : CostOf(T) <= CostOf(S) /\ Cardinality(T) <= Cardinality(S)
    /\ \A S \in SUBSET Calls : \A c \in Calls \ S :
          CostOf(S \cup {c}) = CostOf(S) + Cost[c] /\ Cardinality(S \cup {c}) = Cardinality(S) + 1
<1>1. \A S : CostOf(S) = Sum(Cost, S)
  BY DEF CostOf, MapThenSumSet, MapThenFoldSet, Sum, Adds, Pick
<1>2. IsFiniteSet(Calls) /\ (\A c \in Calls : Cost[c] \in Nat) /\ \A c \in Calls : Cost[c] \in Int
  BY ConstantsAssumption
<1>3. \A S \in SUBSET Calls : IsFiniteSet(S) /\ Cardinality(S) \in Nat
  BY <1>2, FS_Subset, FS_CardinalityType
<1>4. ASSUME NEW S \in SUBSET Calls, NEW T \in SUBSET S
      PROVE  Sum(Cost, T) <= Sum(Cost, S) /\ Sum(Cost, T) \in Nat /\ Cardinality(T) <= Cardinality(S)
  <2>1. IsFiniteSet(S) /\ \A c \in S : Cost[c] \in Nat
    BY <1>2, <1>3
  <2> QED BY <2>1, SumGrows, FS_Subset
<1>5. Sum(Cost, {}) = 0 /\
             \A S \in SUBSET Calls : \A c \in Calls \ S : Sum(Cost, S \cup {c}) = Sum(Cost, S) + Cost[c]
  BY <1>2, SumAdd
<1>6. \A S \in SUBSET Calls : \A c \in Calls \ S : Cardinality(S \cup {c}) = Cardinality(S) + 1
  BY <1>3, FS_AddElement
<1>7. \A S \in SUBSET Calls : Sum(Cost, S) \in Nat
  BY <1>4
<1> HIDE DEF CostOf
<1> QED BY <1>1, <1>3, <1>4, <1>5, <1>6, <1>7

\* The next call is counted after all the others.
LEMMA LedgerGrows ==
    ASSUME NEW B, NEW requests, NEW tokens, NEW tickets \in [Calls -> Ticket],
           Ledger(B, requests, tokens, tickets),
           NEW c \in Calls \ B
    PROVE  Ledger(B \cup {c}, requests + 1, tokens + Cost[c],
                  [tickets EXCEPT ![c] = [req |-> requests + 1, tok |-> tokens + Cost[c]]])
<1> DEFINE t == [req |-> requests + 1, tok |-> tokens + Cost[c]]
           new == [tickets EXCEPT ![c] = t]
           C == B \cup {c}
<1>1. /\ B \in SUBSET Calls /\ requests = Cardinality(B) /\ tokens = CostOf(B)
      /\ requests \in Nat /\ tokens \in Nat
      /\ Cost[c] \in Nat /\ C \subseteq Calls
      /\ CostOf(C) = tokens + Cost[c] /\ Cardinality(C) = requests + 1
  BY Costs, ConstantsAssumption DEF Ledger
<1>2. t \in Ticket /\ t.req = requests + 1 /\ t.tok = tokens + Cost[c]
  BY <1>1 DEF Ticket
<1>3. new[c] = t /\ \A d \in B : new[d] = tickets[d] /\ tickets[d] \in Ticket /\ tickets[d].req \in Nat
                                 /\ tickets[d].req <= requests
  BY DEF Ledger, Ticket
<1> HIDE DEF t, new
<1>4. ASSUME NEW d \in B PROVE Earlier(C, new, d) = Earlier(B, tickets, d)
  BY <1>1, <1>2, <1>3 DEF Earlier
<1>5. Earlier(C, new, c) = C
  BY <1>1, <1>2, <1>3 DEF Earlier
<1>6. ASSUME NEW d \in C
      PROVE  /\ new[d] \in Ticket /\ new[d].req <= requests + 1
             /\ new[d].req = Cardinality(Earlier(C, new, d))
             /\ new[d].tok = CostOf(Earlier(C, new, d))
  <2>1. CASE d = c
    <3> HIDE DEF C
    <3>1. new[d] = t /\ Earlier(C, new, d) = C
      BY <1>3, <1>5, <2>1
    <3>2. t.req = Cardinality(C) /\ t.tok = CostOf(C) /\ t.req <= requests + 1
      BY <1>1, <1>2
    <3> QED BY <1>2, <3>1, <3>2, Zenon
  <2>2. CASE d # c
    <3>1. d \in B
      BY <2>2
    <3> HIDE DEF C
    <3>2. /\ tickets[d].req = Cardinality(Earlier(B, tickets, d))
          /\ tickets[d].tok = CostOf(Earlier(B, tickets, d))
      BY <3>1 DEF Ledger
    <3>3. new[d] = tickets[d] /\ new[d] \in Ticket /\ new[d].req <= requests + 1
      BY <1>1, <1>3, <3>1
    <3> QED BY <1>4, <3>1, <3>2, <3>3, Zenon
  <2> QED BY <2>1, <2>2
<1> HIDE DEF C
<1> QED BY <1>1, <1>6 DEF Ledger, C, t, new

\* The tickets of other calls do not matter.
LEMMA LedgerKept ==
    ASSUME NEW B, NEW requests, NEW tokens, NEW tickets, Ledger(B, requests, tokens, tickets),
           NEW new, \A c \in B : new[c] = tickets[c]
    PROVE  Ledger(B, requests, tokens, new)
<1>1. \A c \in B : Earlier(B, new, c) = Earlier(B, tickets, c)
  BY DEF Earlier
<1>2. ASSUME NEW c \in B
      PROVE  /\ new[c] \in Ticket /\ new[c].req <= requests
             /\ new[c].req = Cardinality(Earlier(B, new, c))
             /\ new[c].tok = CostOf(Earlier(B, new, c))
  BY <1>1 DEF Ledger
<1> QED BY <1>2 DEF Ledger

\* However many were counted, those whose ticket is within the limits keep them together.
LEMMA LedgerBounds ==
    ASSUME NEW B, NEW requests, NEW tokens, NEW tickets, Ledger(B, requests, tokens, tickets),
           NEW A, A \subseteq B, NEW r \in Nat, NEW t \in Nat, \A c \in A : Within(tickets[c], r, t)
    PROVE  Cardinality(A) <= r /\ CostOf(A) <= t
<1>1. CASE A = {}
  BY <1>1, Costs, FS_EmptySet
<1>2. CASE A # {}
  <2> DEFINE T == {requests - tickets[c].req : c \in A}
  <2>1. /\ B \in SUBSET Calls /\ requests \in Nat
        /\ \A c \in A : tickets[c].req \in Nat /\ tickets[c].req <= requests
    BY Costs DEF Ledger, Ticket
  <2>2. T \subseteq Nat /\ T # {}
    BY <1>2, <2>1
  <2>3. PICK m \in T : \A n \in T : m <= n
    <3> HIDE DEF T
    <3> QED BY <2>2, LeastNatural
  <2>4. PICK c \in A : m = requests - tickets[c].req
    OBVIOUS
  <2>5. \A d \in A : requests - tickets[c].req <= requests - tickets[d].req
    BY <2>3, <2>4
  <2> DEFINE E == Earlier(B, tickets, c)
  <2>6. A \subseteq E /\ E \in SUBSET Calls
    BY <2>1, <2>5 DEF Earlier
  <2>7. Cardinality(E) <= r /\ CostOf(E) <= t
    <3>1. Cardinality(E) = tickets[c].req /\ CostOf(E) = tickets[c].tok
      BY DEF Ledger
    <3>2. tickets[c].req <= r /\ tickets[c].tok <= t
      BY DEF Within
    <3> QED BY <3>1, <3>2
  <2> HIDE DEF E
  <2>8. /\ Cardinality(A) <= Cardinality(E) /\ CostOf(A) <= CostOf(E)
        /\ Cardinality(A) \in Nat /\ CostOf(A) \in Nat /\ Cardinality(E) \in Nat /\ CostOf(E) \in Nat
    BY <2>6, Costs
  <2> QED BY <2>7, <2>8
<1> QED BY <1>1, <1>2
-----------------------------------------------------------------------------
(* The budgets: every minute of the service, and of every entity, keeps a ledger. *)

Booked(m) == {c \in Calls : window[c] = m /\ ticket[c].req > 0}
BookedFor(e, m) == {c \in Calls : EntityOf[c] = e /\ entWindow[c] = m /\ entTicket[c].req > 0}

Booking ==
    /\ \A m \in Minutes : Ledger(Booked(m), req[m], tok[m], ticket)
    /\ \A e \in Entities, m \in Minutes : Ledger(BookedFor(e, m), entReq[e][m], entTok[e][m], entTicket)

Granted(c) == ticket[c].req > 0 /\ Within(ticket[c], Rpm[Top], Tpm[Top])
GrantedShare(c) == entTicket[c].req > 0 /\ Within(entTicket[c], EntityRpm[Top], EntityTpm[Top])

Waiting == {"start", "reserve", "decide", "reserve_entity", "decide_entity"}
Trying == {"calling", "feedback", "answered", "success", "failure", "opened", "recorded", "sleeping"}

\* No call is counted before its turn, and none is admitted that was not counted within the limits.
InTurn ==
    \A c \in Calls :
        /\ pc[c] \in {"start", "reserve"} => ticket[c] = NoTicket
        /\ pc[c] \in {"start", "reserve", "decide", "reserve_entity"} => entTicket[c] = NoTicket
        /\ pc[c] = "decide" => ticket[c].req > 0
        /\ pc[c] = "decide_entity" => entTicket[c].req > 0
        /\ pc[c] \in {"reserve_entity", "decide_entity"} => EntityOf[c] # NoEntity /\ Granted(c)
        /\ pc[c] \in Trying => Admitted(c)
        /\ Admitted(c) => Granted(c) /\ (EntityOf[c] # NoEntity => GrantedShare(c))

AdmissionInv == TypeOK /\ InTurn /\ Booking

\* No copy of the state counts more failures than there were, nor does the state.
Reasoned ==
    /\ failed <= BreakerFailures
    /\ failed < BreakerFailures =>
          /\ openUntil = 0 /\ adaptive.failures <= failed
          /\ \A c \in Calls : /\ pc[c] = "feedback" => seen[c].failures <= failed
                              /\ pc[c] \in {"failure", "opened"} => seen[c].failures + 1 <= failed

\* While the circuit is open, a call that may still begin an attempt has begun none.
Stopped ==
    CircuitOpen =>
        \A c \in Calls : late[c] <= 1 /\ (pc[c] \in Waiting \cup {"sleeping"} => late[c] = 0)

BreakerInv == Reasoned /\ Stopped

\* Within the limits of any level is within those of the highest.
LEMMA Limits ==
    \A l \in Levels : /\ \A t \in Ticket : Within(t, Rpm[l], Tpm[l]) => Within(t, Rpm[Top], Tpm[Top])
                      /\ \A t \in Ticket : Within(t, EntityRpm[l], EntityTpm[l])
                                              => Within(t, EntityRpm[Top], EntityTpm[Top])
<1>1. Top \in Levels
  BY ConstantsAssumption DEF Levels
<1>2. ASSUME NEW l \in Levels
      PROVE  /\ Rpm[l] \in Nat /\ Rpm[Top] \in Nat /\ Rpm[l] <= Rpm[Top]
             /\ Tpm[l] \in Nat /\ Tpm[Top] \in Nat /\ Tpm[l] <= Tpm[Top]
             /\ EntityRpm[l] \in Nat /\ EntityRpm[Top] \in Nat /\ EntityRpm[l] <= EntityRpm[Top]
             /\ EntityTpm[l] \in Nat /\ EntityTpm[Top] \in Nat /\ EntityTpm[l] <= EntityTpm[Top]
  BY <1>1, ConstantsAssumption, LimitsAssumption
<1> QED BY <1>2 DEF Within, Ticket

\* An entity is asked for only where there is one, so all counters stay numbers.
LEMMA TypeStep == TypeOK /\ InTurn /\ [Next]_vars => TypeOK'
<1> SUFFICES ASSUME TypeOK, InTurn, [Next]_vars PROVE TypeOK'
  OBVIOUS
<1>0. /\ Top \in Nat /\ Drop \in Nat /\ MaxMinute \in Nat /\ OpenMinutes \in Nat
      /\ Top \in Levels /\ 0 \in Levels /\ Fresh \in Adaptive
      /\ \A c \in Calls : Cost[c] \in Nat /\ EntityOf[c] \in Entities \cup {NoEntity}
  <2>1. /\ Top \in Nat /\ Drop \in Nat /\ MaxMinute \in Nat /\ OpenMinutes \in Nat
        /\ \A c \in Calls : Cost[c] \in Nat /\ EntityOf[c] \in Entities \cup {NoEntity}
    BY ConstantsAssumption
  <2>2. Top \in Levels /\ 0 \in Levels
    BY <2>1 DEF Levels
  <2> QED BY <2>1, <2>2 DEF Fresh, Adaptive
<1> USE DEF TypeOK
<1>1. CASE UNCHANGED vars
  BY <1>1 DEF vars, redis, locals, history
<1>2. CASE Tick
  <2>1. minute' \in Minutes
    BY <1>0, <1>2 DEF Tick, Minutes
  <2>2. late' \in [Calls -> Nat]
    BY <1>2 DEF Tick
  <2> QED BY <1>2, <2>1, <2>2 DEF Tick, redis, locals
<1>3. ASSUME NEW c \in Calls, Step(c) PROVE TypeOK'
  <2> USE <1>0
  <2>1. CASE Start(c)
    BY <2>1 DEF Start, GoTo, PCs, Final, redis, history
  <2>2. CASE Reserve(c)
    BY <2>2 DEF Reserve, GoTo, PCs, Final, Ticket, history
  <2>3. CASE Decide(c)
    <3>1. \E to \in PCs : pc' = [pc EXCEPT ![c] = to]
      BY <2>3 DEF Decide, GoTo, PCs, Final
    <3>2. entWindow' \in [Calls -> Minutes] /\ attempt' \in [Calls -> Nat] /\ late' \in [Calls -> Nat]
      <4>1. \/ Admit(c) /\ UNCHANGED entWindow
            \/ entWindow' = [entWindow EXCEPT ![c] = minute] /\ UNCHANGED <<attempt, late>>
        BY <2>3 DEF Decide
      <4>2. CASE Admit(c) /\ UNCHANGED entWindow
        BY <4>2 DEF Admit
      <4> QED BY <4>1, <4>2
    <3>3. UNCHANGED <<minute, redis, window, ticket, entTicket, seen, throttled, failed>>
      BY <2>3 DEF Decide
    <3> QED BY <3>1, <3>2, <3>3 DEF redis
  <2>4. CASE ReserveEntity(c)
    <3>1. EntityOf[c] \in Entities
      BY <2>4 DEF ReserveEntity, GoTo, InTurn
    <3> QED BY <2>4, <3>1 DEF ReserveEntity, GoTo, PCs, Final, Ticket, history
  <2>5. CASE DecideEntity(c)
    BY <2>5 DEF DecideEntity, GoTo, PCs, Final, Admit, redis
  <2>6. CASE Answer(c)
    BY <2>6 DEF Answer, Read, GoTo, PCs, redis, history
  <2>7. CASE WriteFeedback(c)
    BY <2>7 DEF WriteFeedback, Forget, Adaptive, Lower, GoTo, PCs, history
  <2>8. CASE ReadForSuccess(c)
    BY <2>8 DEF ReadForSuccess, Read, GoTo, PCs, redis, history
  <2>9. CASE WriteSuccess(c)
    BY <2>9 DEF WriteSuccess, Forget, Adaptive, Levels, Lower, GoTo, PCs, Final, history
  <2>10. CASE Fail(c)
    BY <2>10, ConstantsAssumption DEF Fail, Read, Lower, GoTo, PCs, redis
  <2>11. CASE OpenCircuit(c)
    <3>1. openUntil' \in Nat
      BY <2>11 DEF OpenCircuit, Minutes
    <3>2. late' \in [Calls -> Nat]
      BY <2>11 DEF OpenCircuit
    <3> QED BY <2>11, <3>1, <3>2 DEF OpenCircuit, GoTo, PCs, locals
  <2>12. CASE WriteFailure(c)
    <3>1. seen[c].factor \in Levels /\ seen[c].failures \in Nat /\ Decreased(seen[c].factor) \in Levels
      BY DEF Adaptive, Levels, Decreased
    <3>2. adaptive' \in Adaptive
      BY <2>12, <3>1 DEF WriteFailure, Adaptive
    <3> QED BY <2>12, <3>2 DEF WriteFailure, Forget, GoTo, PCs, history
  <2>13. CASE AfterFailure(c)
    BY <2>13 DEF AfterFailure, GoTo, PCs, Final, redis, locals, history
  <2>14. CASE Retry(c)
    BY <2>14 DEF Retry, GoTo, PCs, redis
  <2>15. CASE GiveUp(c)
    BY <2>15 DEF GiveUp, GoTo, PCs, Final, redis, locals, history
  <2> QED BY <1>3, <2>1, <2>2, <2>3, <2>4, <2>5, <2>6, <2>7, <2>8, <2>9, <2>10, <2>11, <2>12,
             <2>13, <2>14, <2>15 DEF Step
<1> QED BY <1>1, <1>2, <1>3 DEF Next

\* A step that neither books nor admits.
Passes(c) ==
    \/ Answer(c) \/ WriteFeedback(c) \/ ReadForSuccess(c) \/ WriteSuccess(c) \/ Fail(c)
    \/ OpenCircuit(c) \/ WriteFailure(c) \/ AfterFailure(c) \/ Retry(c) \/ GiveUp(c)

\* Such a step leaves the budgets and the tickets alone, and keeps its call admitted.
LEMMA Passing ==
    ASSUME TypeOK, NEW c \in Calls, Passes(c)
    PROVE  /\ UNCHANGED <<req, tok, entReq, entTok, window, ticket, entWindow, entTicket>>
           /\ \E to \in Trying \cup Final : pc[c] \in Trying /\ pc' = [pc EXCEPT ![c] = to]
           /\ \A d \in Calls \ {c} : attempt'[d] = attempt[d]
           /\ Admitted(c) => Admitted(c)'
<1> USE DEF GoTo, Trying, Final, redis, locals, history, Admitted
<1>1. CASE Answer(c) \/ ReadForSuccess(c)
  BY <1>1 DEF Answer, ReadForSuccess
<1>2. CASE WriteFeedback(c) \/ WriteSuccess(c) \/ WriteFailure(c)
  BY <1>2 DEF WriteFeedback, WriteSuccess, WriteFailure
<1>3. CASE Fail(c) \/ OpenCircuit(c)
  BY <1>3 DEF Fail, OpenCircuit
<1>4. CASE AfterFailure(c) \/ GiveUp(c)
  BY <1>4 DEF AfterFailure, GiveUp
<1>5. CASE Retry(c)
  BY <1>5 DEF Retry, TypeOK
<1> QED BY <1>1, <1>2, <1>3, <1>4, <1>5 DEF Passes

\* Every step keeps the calls in turn: only the two decisions admit.
LEMMA TurnStep == TypeOK /\ TypeOK' /\ InTurn /\ [Next]_vars => InTurn'
<1> SUFFICES ASSUME TypeOK, TypeOK', InTurn, [Next]_vars PROVE InTurn'
  OBVIOUS
<1> DEFINE Turn(c) ==
      /\ pc[c] \in {"start", "reserve"} => ticket[c] = NoTicket
      /\ pc[c] \in {"start", "reserve", "decide", "reserve_entity"} => entTicket[c] = NoTicket
      /\ pc[c] = "decide" => ticket[c].req > 0
      /\ pc[c] = "decide_entity" => entTicket[c].req > 0
      /\ pc[c] \in {"reserve_entity", "decide_entity"} => EntityOf[c] # NoEntity /\ Granted(c)
      /\ pc[c] \in Trying => Admitted(c)
      /\ Admitted(c) => Granted(c) /\ (EntityOf[c] # NoEntity => GrantedShare(c))
<1>0. \A c \in Calls : Turn(c)
  BY DEF InTurn
<1>1. ASSUME NEW d \in Calls, pc'[d] = pc[d], ticket'[d] = ticket[d], entTicket'[d] = entTicket[d],
             attempt'[d] = attempt[d]
      PROVE  Turn(d)'
  <2>1. Turn(d)
    BY <1>0
  <2> QED BY <1>1, <2>1 DEF Granted, GrantedShare, Admitted
<1>2. CASE UNCHANGED vars \/ Tick
  <2>1. UNCHANGED <<pc, ticket, entTicket, attempt>>
    BY <1>2 DEF vars, locals, Tick
  <2>2. \A d \in Calls : Turn(d)'
    BY <1>1, <2>1
  <2> QED BY <2>2 DEF InTurn
<1>3. ASSUME NEW c \in Calls, Step(c) PROVE InTurn'
  <2>0. /\ Turn(c) /\ ticket[c].req \in Nat /\ ticket[c].tok \in Nat
        /\ entTicket[c].req \in Nat /\ entTicket[c].tok \in Nat
        /\ ticket[c] \in Ticket /\ entTicket[c] \in Ticket /\ adaptive.factor \in Levels /\ Cost[c] \in Nat
        /\ req[window[c]] \in Nat
    BY <1>0, ConstantsAssumption DEF TypeOK, Ticket, Adaptive
  <2>1. SUFFICES Turn(c)' /\ \A d \in Calls \ {c} : pc'[d] = pc[d] /\ ticket'[d] = ticket[d]
                               /\ entTicket'[d] = entTicket[d] /\ attempt'[d] = attempt[d]
    <3>1. \A d \in Calls : Turn(d)'
      BY <1>1, <2>1
    <3> QED BY <3>1 DEF InTurn
  <2> USE DEF GoTo, locals, redis, history, Trying, Granted, GrantedShare, Admitted, TypeOK
  <2>2. CASE Start(c)
    BY <2>0, <2>2 DEF Start
  <2>3. CASE Reserve(c)
    <3>1. ticket'[c].req > 0
      BY <2>0, <2>3 DEF Reserve
    <3>2. pc'[c] = "decide" /\ ~ Admitted(c) /\ attempt'[c] = attempt[c] /\ entTicket'[c] = NoTicket
      BY <2>0, <2>3 DEF Reserve, NoTicket
    <3>3. Turn(c)'
      BY <3>1, <3>2
    <3> QED BY <2>3, <3>3 DEF Reserve
  <2>4. CASE Decide(c)
    <3>1. Within(ticket[c], Rpm[adaptive.factor], Tpm[adaptive.factor]) => Within(ticket[c], Rpm[Top], Tpm[Top])
      BY <2>0, Limits
    <3> QED BY <2>0, <2>4, <3>1 DEF Decide, Admit
  <2>5. CASE ReserveEntity(c)
    <3>0. EntityOf[c] \in Entities
      BY <2>0, <2>5, ConstantsAssumption DEF ReserveEntity
    <3>1. entTicket'[c].req > 0
      BY <2>0, <2>5, <3>0 DEF ReserveEntity
    <3>2. pc'[c] = "decide_entity" /\ ~ Admitted(c) /\ attempt'[c] = attempt[c] /\ UNCHANGED ticket
          /\ EntityOf[c] # NoEntity /\ Granted(c)
      BY <2>0, <2>5 DEF ReserveEntity, NoTicket
    <3>3. Turn(c)'
      BY <3>1, <3>2
    <3> QED BY <2>5, <3>3 DEF ReserveEntity
  <2>6. CASE DecideEntity(c)
    <3>1. Within(entTicket[c], EntityRpm[adaptive.factor], EntityTpm[adaptive.factor])
            => Within(entTicket[c], EntityRpm[Top], EntityTpm[Top])
      BY <2>0, Limits
    <3> QED BY <2>0, <2>6, <3>1 DEF DecideEntity, Admit
  <2>7. CASE Passes(c)
    <3>1. PICK to \in Trying \cup Final : pc[c] \in Trying /\ pc' = [pc EXCEPT ![c] = to]
      BY <2>7, Passing
    <3>2. UNCHANGED <<ticket, entTicket>> /\ (Admitted(c) => Admitted(c)')
          /\ \A d \in Calls \ {c} : attempt'[d] = attempt[d]
      BY <2>7, Passing
    <3>3. pc'[c] = to /\ to \notin Waiting
      BY <3>1 DEF Final, Waiting
    <3> QED BY <2>0, <3>1, <3>2, <3>3 DEF Waiting
  <2> QED BY <1>3, <2>2, <2>3, <2>4, <2>5, <2>6, <2>7 DEF Step, Passes
<1> QED BY <1>2, <1>3 DEF Next

\* Only the two pipelines book, one call each; a window moves while nothing is booked in it.
LEMMA BookingStep == TypeOK /\ TypeOK' /\ InTurn /\ Booking /\ [Next]_vars => Booking'
<1> SUFFICES ASSUME TypeOK, TypeOK', InTurn, Booking, [Next]_vars PROVE Booking'
  OBVIOUS
<1>1. ASSUME UNCHANGED <<req, tok>>, UNCHANGED ticket,
             \A d \in Calls : window'[d] = window[d] \/ ticket[d].req = 0
      PROVE  \A m \in Minutes : Ledger(Booked(m), req[m], tok[m], ticket)'
  <2>1. \A m \in Minutes : Booked(m)' = Booked(m)
    BY <1>1 DEF Booked, TypeOK, Ticket
  <2>2. \A m \in Minutes : Ledger(Booked(m), req[m], tok[m], ticket)
    BY DEF Booking
  <2> QED BY <1>1, <2>1, <2>2 DEF Ledger, Earlier
<1>2. ASSUME UNCHANGED <<entReq, entTok>>, UNCHANGED entTicket,
             \A d \in Calls : entWindow'[d] = entWindow[d] \/ entTicket[d].req = 0
      PROVE  \A e \in Entities, m \in Minutes :
                Ledger(BookedFor(e, m), entReq[e][m], entTok[e][m], entTicket)'
  <2>1. \A e \in Entities, m \in Minutes : BookedFor(e, m)' = BookedFor(e, m)
    BY <1>2 DEF BookedFor, TypeOK, Ticket
  <2>2. \A e \in Entities, m \in Minutes : Ledger(BookedFor(e, m), entReq[e][m], entTok[e][m], entTicket)
    BY DEF Booking
  <2> QED BY <1>2, <2>1, <2>2 DEF Ledger, Earlier
<1>3. CASE UNCHANGED vars \/ Tick
  BY <1>1, <1>2, <1>3 DEF Booking, vars, redis, locals, Tick
<1>4. ASSUME NEW c \in Calls, Step(c) PROVE Booking'
  <2>1. CASE Start(c)
    <3>1. ticket[c].req = 0 /\ \A d \in Calls \ {c} : window'[d] = window[d]
      BY <2>1 DEF Start, GoTo, InTurn, NoTicket, TypeOK
    <3>2. UNCHANGED <<req, tok, entReq, entTok, ticket, entTicket, entWindow>>
      BY <2>1 DEF Start, redis
    <3> QED BY <1>1, <1>2, <3>1, <3>2 DEF Booking
  <2>2. CASE Reserve(c)
    <3> DEFINE m == window[c]
    <3>1. /\ UNCHANGED <<entReq, entTok, entTicket, entWindow, window>> /\ m \in Minutes
          /\ req' = [req EXCEPT ![m] = @ + 1] /\ tok' = [tok EXCEPT ![m] = @ + Cost[c]]
          /\ ticket' = [ticket EXCEPT ![c] = [req |-> req[m] + 1, tok |-> tok[m] + Cost[c]]]
      BY <2>2 DEF Reserve, TypeOK
    <3>2. ticket[c].req = 0 /\ ticket'[c].req = req[m] + 1 /\ req[m] \in Nat
          /\ \A d \in Calls \ {c} : ticket'[d] = ticket[d]
      BY <2>2, <3>1 DEF Reserve, GoTo, InTurn, NoTicket, TypeOK
    <3>3. c \in Calls \ Booked(m) /\ Booked(m)' = Booked(m) \cup {c}
          /\ \A n \in Minutes \ {m} : Booked(n)' = Booked(n) /\ c \notin Booked(n)
      BY <3>1, <3>2 DEF Booked
    <3>4. ASSUME NEW n \in Minutes PROVE Ledger(Booked(n), req[n], tok[n], ticket)'
      <4>0. Ledger(Booked(n), req[n], tok[n], ticket)
        BY DEF Booking
      <4>1. CASE n = m
        <5>1. Ledger(Booked(m) \cup {c}, req[m] + 1, tok[m] + Cost[c], ticket')
          BY <3>1, <3>3, <4>0, <4>1, LedgerGrows DEF TypeOK
        <5>2. req'[n] = req[m] + 1 /\ tok'[n] = tok[m] + Cost[c] /\ Booked(n)' = Booked(m) \cup {c}
          BY <3>1, <3>3, <4>1 DEF TypeOK
        <5> QED BY <5>1, <5>2
      <4>2. CASE n # m
        <5>1. req'[n] = req[n] /\ tok'[n] = tok[n] /\ Booked(n)' = Booked(n)
              /\ \A d \in Booked(n) : ticket'[d] = ticket[d]
          BY <3>1, <3>2, <3>3, <4>2 DEF TypeOK, Booked
        <5> QED BY <4>0, <5>1, LedgerKept
      <4> QED BY <4>1, <4>2
    <3> QED BY <1>2, <3>1, <3>4 DEF Booking
  <2>3. CASE Decide(c)
    <3>1. entTicket[c].req = 0 /\ \A d \in Calls \ {c} : entWindow'[d] = entWindow[d]
      BY <2>3 DEF Decide, GoTo, InTurn, NoTicket, TypeOK
    <3>2. UNCHANGED <<req, tok, entReq, entTok, window, ticket, entTicket>>
      BY <2>3 DEF Decide, redis
    <3> QED BY <1>1, <1>2, <3>1, <3>2 DEF Booking
  <2>4. CASE ReserveEntity(c)
    <3> DEFINE e == EntityOf[c]
               m == entWindow[c]
    <3>1. /\ UNCHANGED <<req, tok, ticket, entWindow, window>> /\ m \in Minutes /\ e \in Entities
          /\ entReq' = [entReq EXCEPT ![e][m] = @ + 1] /\ entTok' = [entTok EXCEPT ![e][m] = @ + Cost[c]]
          /\ entTicket' = [entTicket EXCEPT ![c] = [req |-> entReq[e][m] + 1, tok |-> entTok[e][m] + Cost[c]]]
      <4>1. e \in Entities
        BY <2>4, ConstantsAssumption DEF ReserveEntity, GoTo, InTurn
      <4> QED BY <2>4, <4>1 DEF ReserveEntity, TypeOK
    <3>2. entTicket[c].req = 0 /\ entTicket'[c].req = entReq[e][m] + 1 /\ entReq[e][m] \in Nat
          /\ \A d \in Calls \ {c} : entTicket'[d] = entTicket[d]
      BY <2>4, <3>1 DEF ReserveEntity, GoTo, InTurn, NoTicket, TypeOK
    <3>3. c \in Calls \ BookedFor(e, m) /\ BookedFor(e, m)' = BookedFor(e, m) \cup {c}
          /\ \A f \in Entities, n \in Minutes : f # e \/ n # m =>
              BookedFor(f, n)' = BookedFor(f, n) /\ c \notin BookedFor(f, n)
      BY <3>1, <3>2 DEF BookedFor
    <3>4. ASSUME NEW f \in Entities, NEW n \in Minutes
          PROVE  Ledger(BookedFor(f, n), entReq[f][n], entTok[f][n], entTicket)'
      <4>0. Ledger(BookedFor(f, n), entReq[f][n], entTok[f][n], entTicket)
        BY DEF Booking
      <4>1. CASE f = e /\ n = m
        <5>1. Ledger(BookedFor(e, m) \cup {c}, entReq[e][m] + 1, entTok[e][m] + Cost[c], entTicket')
          BY <3>1, <3>3, <4>0, <4>1, LedgerGrows DEF TypeOK
        <5>2. entReq'[f][n] = entReq[e][m] + 1 /\ entTok'[f][n] = entTok[e][m] + Cost[c]
              /\ BookedFor(f, n)' = BookedFor(e, m) \cup {c}
          BY <3>1, <3>3, <4>1 DEF TypeOK
        <5> QED BY <5>1, <5>2
      <4>2. CASE f # e \/ n # m
        <5>1. entReq'[f][n] = entReq[f][n] /\ entTok'[f][n] = entTok[f][n]
          BY <3>1, <4>2 DEF TypeOK
        <5>2. BookedFor(f, n)' = BookedFor(f, n) /\ \A d \in BookedFor(f, n) : entTicket'[d] = entTicket[d]
          BY <3>2, <3>3, <4>2 DEF BookedFor
        <5> QED BY <4>0, <5>1, <5>2, LedgerKept
      <4> QED BY <4>1, <4>2
    <3> QED BY <1>1, <3>1, <3>4 DEF Booking
  <2>5. CASE DecideEntity(c)
    BY <1>1, <1>2, <2>5 DEF DecideEntity, redis, Booking
  <2>6. CASE Passes(c)
    BY <1>1, <1>2, <2>6, Passing DEF Booking
  <2> QED BY <1>4, <2>1, <2>2, <2>3, <2>4, <2>5, <2>6 DEF Step, Passes
<1> QED BY <1>3, <1>4 DEF Next

\* The pipelines of reserve and reserve_for_entity (groq_rate_control.py:53-139) keep an exact ledger of each
\* window, of the service and of each entity, whatever is refused or decided in between.
THEOREM AdmissionsKept == Spec => []AdmissionInv
<1>1. Init => AdmissionInv
  <2> SUFFICES ASSUME Init PROVE AdmissionInv
    OBVIOUS
  <2> USE DEF Init, NoTicket
  <2>1. TypeOK
    BY ConstantsAssumption DEF TypeOK, Minutes, Levels, Ticket, Adaptive, Fresh, PCs, Final
  <2>2. InTurn
    BY DEF InTurn, Trying, Admitted
  <2>3. Booking
    <3>1. /\ \A m \in Minutes : Booked(m) = {}
          /\ \A e \in Entities, m \in Minutes : BookedFor(e, m) = {}
      BY DEF Booked, BookedFor
    <3>2. Cardinality({}) = 0
      BY FS_EmptySet
    <3>3. \A tickets : Ledger({}, 0, 0, tickets)
      BY <3>2, Costs DEF Ledger
    <3> QED BY <3>1, <3>3 DEF Booking
  <2> QED BY <2>1, <2>2, <2>3 DEF AdmissionInv
<1>2. AdmissionInv /\ [Next]_vars => AdmissionInv'
  BY TypeStep, TurnStep, BookingStep DEF AdmissionInv
<1> QED BY <1>1, <1>2, PTL DEF Spec

\* What is admitted in a minute was booked in it, within the limits.
LEMMA Budgeted == AdmissionInv => WithinLimits
<1> SUFFICES ASSUME AdmissionInv PROVE WithinLimits
  OBVIOUS
<1>1. TypeOK /\ InTurn /\ Booking
  BY DEF AdmissionInv
<1>2. Rpm[Top] \in Nat /\ Tpm[Top] \in Nat /\ EntityRpm[Top] \in Nat /\ EntityTpm[Top] \in Nat
  BY ConstantsAssumption DEF Levels
<1>3. ASSUME NEW m \in Minutes
      PROVE  Cardinality(AdmittedIn(m)) <= Rpm[Top] /\ CostOf(AdmittedIn(m)) <= Tpm[Top]
  <2>1. AdmittedIn(m) \subseteq Booked(m) /\ \A c \in AdmittedIn(m) : Within(ticket[c], Rpm[Top], Tpm[Top])
    BY <1>1 DEF InTurn, Granted, AdmittedIn, Booked
  <2>2. Ledger(Booked(m), req[m], tok[m], ticket)
    BY <1>1 DEF Booking
  <2> QED BY <1>2, <2>1, <2>2, LedgerBounds
<1>4. ASSUME NEW e \in Entities, NEW m \in Minutes
      PROVE  LET own == {c \in Calls : Admitted(c) /\ EntityOf[c] = e /\ entWindow[c] = m}
             IN  Cardinality(own) <= EntityRpm[Top] /\ CostOf(own) <= EntityTpm[Top]
  <2> DEFINE own == {c \in Calls : Admitted(c) /\ EntityOf[c] = e /\ entWindow[c] = m}
  <2>0. e # NoEntity
    BY ConstantsAssumption
  <2>1. own \subseteq BookedFor(e, m) /\ \A c \in own : Within(entTicket[c], EntityRpm[Top], EntityTpm[Top])
    BY <1>1, <2>0 DEF InTurn, GrantedShare, BookedFor
  <2>2. Ledger(BookedFor(e, m), entReq[e][m], entTok[e][m], entTicket)
    BY <1>1 DEF Booking
  <2> HIDE DEF own
  <2>3. Cardinality(own) <= EntityRpm[Top] /\ CostOf(own) <= EntityTpm[Top]
    BY <1>2, <2>1, <2>2, LedgerBounds
  <2> QED BY <2>3 DEF own
<1> QED BY <1>3, <1>4 DEF WithinLimits, RequestsWithinLimit, TokensWithinLimit, EntityWithinShare, CostOf

-----------------------------------------------------------------------------
(* The breaker *)

\* A state written back counts no more failures than there were when its copy was read, plus
\* the one that is being recorded.
LEMMA ReasonedStep == TypeOK /\ TypeOK' /\ Reasoned /\ [Next]_vars => Reasoned'
<1> SUFFICES ASSUME TypeOK, TypeOK', Reasoned, [Next]_vars PROVE Reasoned'
  OBVIOUS
<1>0. /\ BreakerFailures \in Nat /\ failed \in Nat /\ failed' \in Nat /\ adaptive.failures \in Nat
      /\ \A c \in Calls : seen[c].failures \in Nat
  BY ConstantsAssumption DEF TypeOK, Adaptive
<1> DEFINE Told(c) == /\ pc[c] = "feedback" => seen[c].failures <= failed
                      /\ pc[c] \in {"failure", "opened"} => seen[c].failures + 1 <= failed
<1>1. failed < BreakerFailures => openUntil = 0 /\ adaptive.failures <= failed /\ \A c \in Calls : Told(c)
  BY DEF Reasoned
<1>2. failed <= failed' /\ failed' <= BreakerFailures
  <2>1. CASE \E c \in Calls : Fail(c)
    BY <1>0, <2>1 DEF Fail, Lower, Reasoned
  <2>2. CASE ~ \E c \in Calls : Fail(c)
    <3>1. failed' = failed
      BY <2>2 DEF Next, Step, vars, history, Tick, Start, Reserve, Decide, ReserveEntity, DecideEntity, Answer,
                  WriteFeedback, ReadForSuccess, WriteSuccess, OpenCircuit, WriteFailure, AfterFailure,
                  Retry, GiveUp
    <3> QED BY <1>0, <3>1 DEF Reasoned
  <2> QED BY <2>1, <2>2
<1> SUFFICES ASSUME failed' < BreakerFailures
             PROVE  openUntil' = 0 /\ adaptive'.failures <= failed' /\ \A c \in Calls : Told(c)'
  BY <1>2 DEF Reasoned
<1>3. openUntil = 0 /\ adaptive.failures <= failed /\ \A c \in Calls : Told(c)
  BY <1>0, <1>1, <1>2
<1>4. ASSUME NEW d \in Calls, pc'[d] = pc[d], seen'[d] = seen[d] PROVE Told(d)'
  BY <1>0, <1>2, <1>3, <1>4
<1>5. CASE UNCHANGED vars \/ Tick
  <2>1. UNCHANGED <<openUntil, adaptive, failed, pc, seen>>
    BY <1>5 DEF vars, redis, locals, history, Tick
  <2>2. \A d \in Calls : Told(d)'
    BY <1>4, <2>1
  <2> QED BY <1>0, <1>3, <2>1, <2>2
<1>6. ASSUME NEW c \in Calls, Step(c)
      PROVE  openUntil' = 0 /\ adaptive'.failures <= failed' /\ \A d \in Calls : Told(d)'
  <2>0. Told(c) /\ seen[c].failures \in Nat /\ seen[c] \in Adaptive
    BY <1>0, <1>3 DEF TypeOK
  <2>1. SUFFICES /\ openUntil' = 0 /\ adaptive'.failures <= failed' /\ Told(c)'
                 /\ \A d \in Calls \ {c} : pc'[d] = pc[d] /\ seen'[d] = seen[d]
    BY <1>4
  <2> USE DEF GoTo, TypeOK, redis, locals, history
  <2>2. CASE \/ Start(c) \/ Reserve(c) \/ Decide(c) \/ ReserveEntity(c) \/ DecideEntity(c)
             \/ AfterFailure(c) \/ Retry(c) \/ GiveUp(c)
    <3>1. UNCHANGED <<openUntil, adaptive, seen, failed>>
      BY <2>2 DEF Start, Reserve, Decide, ReserveEntity, DecideEntity, AfterFailure, Retry, GiveUp
    <3>2. \E to : pc' = [pc EXCEPT ![c] = to] /\ to \notin {"feedback", "failure", "opened"}
      BY <2>2 DEF Start, Reserve, Decide, ReserveEntity, DecideEntity, AfterFailure, Retry, GiveUp
    <3>3. pc'[c] \notin {"feedback", "failure", "opened"} /\ \A d \in Calls \ {c} : pc'[d] = pc[d]
      BY <3>2
    <3> QED BY <1>0, <1>3, <3>1, <3>3
  <2>3. CASE Answer(c) \/ ReadForSuccess(c)
    <3>1. UNCHANGED <<openUntil, adaptive, failed>> /\ seen' = [seen EXCEPT ![c] = adaptive]
      BY <2>3 DEF Answer, ReadForSuccess, Read
    <3>2. \E to \in {"feedback", "success"} : pc' = [pc EXCEPT ![c] = to]
      BY <2>3 DEF Answer, ReadForSuccess
    <3>3. seen'[c] = adaptive /\ pc'[c] \in {"feedback", "success"}
          /\ \A d \in Calls \ {c} : pc'[d] = pc[d] /\ seen'[d] = seen[d]
      BY <3>1, <3>2
    <3> QED BY <1>0, <1>3, <3>1, <3>3
  <2>4. CASE WriteFeedback(c)
    <3>1. PICK target \in Levels : adaptive' = [seen[c] EXCEPT !.factor = Lower(@, target)]
      BY <2>4 DEF WriteFeedback
    <3>2. adaptive'.failures = seen[c].failures
      BY <2>0, <3>1 DEF Adaptive
    <3>3. UNCHANGED <<openUntil, failed>> /\ pc[c] = "feedback" /\ pc'[c] = "answered"
          /\ \A d \in Calls \ {c} : pc'[d] = pc[d] /\ seen'[d] = seen[d]
      BY <2>4 DEF WriteFeedback, Forget
    <3> QED BY <1>0, <1>3, <2>0, <3>2, <3>3
  <2>5. CASE WriteSuccess(c)
    <3>1. UNCHANGED <<openUntil, failed>> /\ pc'[c] = "done" /\ adaptive'.failures = 0
          /\ \A d \in Calls \ {c} : pc'[d] = pc[d] /\ seen'[d] = seen[d]
      BY <2>5 DEF WriteSuccess, Forget
    <3> QED BY <1>0, <1>3, <3>1
  <2>6. CASE Fail(c)
    <3>1. UNCHANGED <<openUntil, adaptive>> /\ failed' = failed + 1
      BY <1>0, <2>6 DEF Fail, Lower
    <3>2. pc'[c] = "failure" /\ seen'[c] = adaptive
          /\ \A d \in Calls \ {c} : pc'[d] = pc[d] /\ seen'[d] = seen[d]
      BY <2>6 DEF Fail, Read
    <3> QED BY <1>0, <1>3, <3>1, <3>2
  <2>7. CASE OpenCircuit(c)
    BY <1>0, <1>1, <1>2, <2>0, <2>7 DEF OpenCircuit, Tripped
  <2>8. CASE WriteFailure(c)
    <3>1. UNCHANGED <<openUntil, failed>> /\ pc[c] \in {"failure", "opened"} /\ pc'[c] = "recorded"
          /\ adaptive'.failures = seen[c].failures + 1
          /\ \A d \in Calls \ {c} : pc'[d] = pc[d] /\ seen'[d] = seen[d]
      BY <2>8 DEF WriteFailure, Forget
    <3> QED BY <1>0, <1>3, <2>0, <3>1
  <2> QED BY <1>6, <2>2, <2>3, <2>4, <2>5, <2>6, <2>7, <2>8 DEF Step
<1> QED BY <1>5, <1>6 DEF Next

\* Once the circuit is open the loop does not sleep again, so a late attempt is the last.
LEMMA StoppedStep == TypeOK /\ TypeOK' /\ Stopped /\ [Next]_vars => Stopped'
<1> SUFFICES ASSUME TypeOK, TypeOK', Stopped, [Next]_vars, CircuitOpen',
                    NEW d \in Calls
             PROVE  late'[d] <= 1 /\ (pc'[d] \in Waiting \cup {"sleeping"} => late'[d] = 0)
  BY DEF Stopped
<1>0. /\ minute \in Nat /\ openUntil \in Nat /\ OpenMinutes \in Nat /\ late[d] \in Nat
      /\ CircuitOpen => late[d] <= 1 /\ (pc[d] \in Waiting \cup {"sleeping"} => late[d] = 0)
  BY ConstantsAssumption DEF TypeOK, Minutes, Stopped
<1> USE DEF CircuitOpen
<1>1. CASE UNCHANGED vars
  BY <1>0, <1>1 DEF vars, redis, history
<1>2. CASE Tick
  BY <1>0, <1>2 DEF Tick, redis
<1>3. ASSUME NEW c \in Calls, OpenCircuit(c)
      PROVE  late'[d] <= 1 /\ (pc'[d] \in Waiting \cup {"sleeping"} => late'[d] = 0)
  <2>1. pc'[d] = pc[d] \/ pc'[d] = "opened"
    BY <1>3 DEF OpenCircuit, GoTo, TypeOK
  <2>2. CASE CircuitOpen
    BY <1>0, <1>3, <2>1, <2>2 DEF OpenCircuit, Waiting
  <2>3. CASE ~ CircuitOpen
    BY <1>0, <1>3, <2>3 DEF OpenCircuit
  <2> QED BY <2>2, <2>3
<1>4. ASSUME NEW c \in Calls, Step(c), ~ OpenCircuit(c)
      PROVE  late'[d] <= 1 /\ (pc'[d] \in Waiting \cup {"sleeping"} => late'[d] = 0)
  <2>1. UNCHANGED <<minute, openUntil>>
    BY <1>4 DEF Step, redis, Start, Reserve, Decide, ReserveEntity, DecideEntity, Answer,
                WriteFeedback, ReadForSuccess, WriteSuccess, Fail, WriteFailure, AfterFailure, Retry, GiveUp
  <2>2. CircuitOpen /\ late[d] <= 1 /\ (pc[d] \in Waiting \cup {"sleeping"} => late[d] = 0)
    BY <1>0, <2>1
  <2> USE DEF GoTo, TypeOK, redis, locals, history, Waiting
  <2>3. CASE Retry(c) \/ Decide(c) \/ DecideEntity(c)
    <3>1. \/ UNCHANGED late /\ \E to : to \notin {"sleeping", "start", "reserve", "decide"}
                                          /\ pc' = [pc EXCEPT ![c] = to]
          \/ late' = [late EXCEPT ![c] = @ + 1] /\ pc' = [pc EXCEPT ![c] = "calling"]
      BY <2>2, <2>3 DEF Retry, Decide, DecideEntity, Admit
    <3>2. pc[c] \in Waiting \cup {"sleeping"}
      BY <2>3 DEF Retry, Decide, DecideEntity
    <3>3. CASE d = c
      BY <1>0, <2>2, <3>1, <3>2, <3>3
    <3>4. CASE d # c
      BY <1>0, <2>2, <3>1, <3>4
    <3> QED BY <3>3, <3>4
  <2>4. CASE Start(c) \/ Reserve(c) \/ ReserveEntity(c)
    <3>1. UNCHANGED late /\ pc[c] \in Waiting /\ \E to : pc' = [pc EXCEPT ![c] = to]
      BY <2>4 DEF Start, Reserve, ReserveEntity
    <3>2. CASE d = c
      BY <1>0, <2>2, <3>1, <3>2
    <3>3. CASE d # c
      BY <1>0, <2>2, <3>1, <3>3
    <3> QED BY <3>2, <3>3
  <2>5. CASE \/ Answer(c) \/ WriteFeedback(c) \/ ReadForSuccess(c) \/ WriteSuccess(c) \/ Fail(c)
             \/ WriteFailure(c) \/ AfterFailure(c) \/ GiveUp(c)
    <3>1. UNCHANGED late
      BY <2>5 DEF Answer, WriteFeedback, ReadForSuccess, WriteSuccess, Fail, WriteFailure, AfterFailure, GiveUp
    <3>2. \E to : to \notin Waiting \cup {"sleeping"} /\ pc' = [pc EXCEPT ![c] = to]
      BY <2>2, <2>5 DEF Answer, WriteFeedback, ReadForSuccess, WriteSuccess, Fail,
                 WriteFailure, AfterFailure, GiveUp
    <3>3. CASE d = c
      BY <1>0, <2>2, <3>1, <3>2, <3>3
    <3>4. CASE d # c
      BY <1>0, <2>2, <3>1, <3>2, <3>4
    <3> QED BY <3>3, <3>4
  <2> QED BY <1>4, <2>3, <2>4, <2>5 DEF Step
<1> QED BY <1>1, <1>2, <1>3, <1>4 DEF Next

\* However the calls interleave and whatever the factor was when each was decided, the budgets
\* of every minute hold; the lost updates of the adaptive state never open the circuit without
\* the failures, and no call begins two attempts while it is open (groq_rate_control.py,
\* groq_inference.py).
THEOREM GuardKeepsItsWord == Spec => []GuardHolds
<1>1. Init => BreakerInv
  <2>1. ASSUME Init PROVE Reasoned /\ Stopped
    <3>1. /\ failed = 0 /\ openUntil = 0 /\ minute = 0 /\ adaptive.failures = 0 /\ BreakerFailures \in Nat
          /\ \A c \in Calls : pc[c] = "start"
      BY <2>1, ConstantsAssumption DEF Init, Fresh
    <3>2. Reasoned
      BY <3>1 DEF Reasoned
    <3>3. ~ CircuitOpen
      BY <3>1 DEF CircuitOpen
    <3> QED BY <3>2, <3>3 DEF Stopped
  <2> QED BY <2>1 DEF BreakerInv
<1>2. AdmissionInv /\ AdmissionInv' /\ BreakerInv /\ [Next]_vars => BreakerInv'
  BY ReasonedStep, StoppedStep DEF BreakerInv, AdmissionInv
<1>3. AdmissionInv /\ BreakerInv => GuardHolds
  <2> SUFFICES ASSUME AdmissionInv, BreakerInv PROVE GuardHolds
    OBVIOUS
  <2>1. OpenNeedsFailures
    BY ConstantsAssumption DEF AdmissionInv, BreakerInv, TypeOK, Reasoned, OpenNeedsFailures
  <2>2. OneLateAttempt
    BY DEF BreakerInv, Stopped, OneLateAttempt
  <2> QED BY <2>1, <2>2, Budgeted DEF GuardHolds, BreakerHolds
<1> QED BY <1>1, <1>2, <1>3, AdmissionsKept, PTL DEF Spec

-----------------------------------------------------------------------------
(* The heights of a surface, from the raster to the map (SurfaceHeights) *)

\* A tile gives a height back to its own step.
LEMMA Coding ==
    ASSUME HeightsAssumption, NEW v \in Int, v >= Abyss
    PROVE  /\ Decode(Encode(v)) \in {v, v - 1}
           /\ v >= 0 => Decode(Encode(v)) >= 0
<1>1. Metre = 512 /\ Abyss = -16777216 /\ 256 * Metre = 131072
  BY SMT DEF HeightsAssumption, Abyss
<1>2. PICK n \in Nat : n = v + 16777216
  BY SMT, <1>1
<1>3. PICK q \in Nat : q = n \div 512
  BY Z3
<1>4. PICK m \in Nat : m = n % 512
  BY Z3
<1>5. n = 512 * q + m /\ m < 512
  BY Z3, <1>3, <1>4
<1>6. PICK r \in Nat : r = q \div 256
  BY Z3
<1>7. PICK g \in Nat : g = q % 256
  BY Z3
<1>8. q = 256 * r + g /\ g < 256
  BY Z3, <1>6, <1>7
<1>9. PICK b \in Nat : b = m \div 2
  BY Z3
<1>10. m = 2 * b \/ m = 2 * b + 1
  BY Z3, <1>9
<1>11. n \div 131072 = r
  BY Z3, <1>5, <1>8
<1>12. Encode(v) = [r |-> r, g |-> g, b |-> b]
  <2>1. v - Abyss = n
    BY SMT, <1>1, <1>2
  <2> QED BY SMT, <1>1, <1>3, <1>4, <1>7, <1>9, <1>11, <2>1 DEF Encode
<1>13. Decode(Encode(v)) = (r * 256 + g) * 512 + b * 2 - 16777216
  BY SMT, <1>1, <1>12 DEF Decode
<1>14. Decode(Encode(v)) = v \/ (Decode(Encode(v)) = v - 1 /\ m # 0)
  BY SMT, <1>2, <1>5, <1>8, <1>10, <1>13
<1>15. v = 0 => m = 0
  BY Z3, <1>2, <1>4
<1> QED BY SMT, <1>14, <1>15

\* A pixel with data.
HasData(raster, void) == \E p \in Pixels : raster[p] # void

\* Of pixels with data there is a lowest.
LEMMA LowestThere ==
    ASSUME HeightsAssumption, NEW raster \in [Pixels -> Int], NEW void, HasData(raster, void)
    PROVE  \E p \in Pixels :
              /\ raster[p] # void /\ Lowest(raster, void) = raster[p]
              /\ \A q \in Pixels : raster[q] # void => raster[p] <= raster[q]
<1> DEFINE V == Valid(raster, void)
           Below(p) == {q \in V : raster[q] < raster[p]}
           T == {Cardinality(Below(p)) : p \in V}
<1>1. V = {p \in Pixels : raster[p] # void} /\ V # {}
  BY DEF HasData, Valid
<1>2. IsFiniteSet(V)
  <2>1. IsFiniteSet(Pixels)
    BY FS_Interval DEF Pixels, HeightsAssumption
  <2> QED BY <1>1, <2>1, FS_Subset
<1>3. \A p \in V : IsFiniteSet(Below(p)) /\ Cardinality(Below(p)) \in Nat
  BY <1>2, FS_Subset, FS_CardinalityType
<1>4. PICK m \in T : \A n \in T : m <= n
  <2>1. T \subseteq Nat /\ T # {}
    BY <1>1, <1>3
  <2> HIDE DEF T
  <2> QED BY <2>1, LeastNatural
<1>5. PICK p \in V : m = Cardinality(Below(p))
  OBVIOUS
<1> HIDE DEF V
<1>6. \A q \in V : raster[q] \in Int
  BY <1>1
<1>7. ASSUME NEW q \in V PROVE raster[p] <= raster[q]
  <2>1. SUFFICES ASSUME raster[q] < raster[p] PROVE FALSE
    BY <1>6
  <2>2. q \in Below(p) /\ Below(q) \subseteq Below(p) \ {q}
    BY <1>6, <2>1
  <2> HIDE DEF Below, T
  <2>3. IsFiniteSet(Below(p) \ {q}) /\ Cardinality(Below(p) \ {q}) = m - 1
    BY <1>3, <1>5, <2>2, FS_RemoveElement
  <2>4. Cardinality(Below(q)) <= m - 1
    BY <2>2, <2>3, FS_Subset
  <2>5. m <= Cardinality(Below(q)) /\ m \in Nat /\ Cardinality(Below(q)) \in Nat
    BY <1>3, <1>4, <1>5 DEF T
  <2> QED BY <2>4, <2>5
<1>8. Lowest(raster, void) = raster[p]
  <2> DEFINE S == {raster[q] : q \in V}
  <2>1. Lowest(raster, void) = CHOOSE x \in S : \A y \in S : x <= y
    BY DEF Lowest, Min, V
  <2>2. raster[p] \in S /\ \A y \in S : raster[p] <= y
    BY <1>7
  <2>3. S \subseteq Int
    BY <1>6
  <2> DEFINE x == CHOOSE x \in S : \A y \in S : x <= y
  <2> HIDE DEF S
  <2>4. x \in S /\ \A y \in S : x <= y
    BY <2>2
  <2> HIDE DEF x
  <2> DEFINE y == raster[p]
  <2>5. x \in Int /\ y \in Int /\ x <= y /\ y <= x
    <3> HIDE DEF y
    <3>1. y \in S /\ \A z \in S : y <= z
      BY <2>2 DEF y
    <3> QED BY <2>3, <2>4, <3>1
  <2> HIDE DEF y
  <2>6. x = y
    BY <2>5
  <2> QED BY <2>1, <2>6 DEF x, y
<1> QED BY <1>1, <1>7, <1>8

\* The tile of one pixel: its own height, or the abyss, less the base, within the clamp.
Relative(d) == Clip((IF d < AbyssLimit THEN 0 ELSE d) - base, 0, Clamp)

\* What the terrain tile returns for a pixel: that, to the step of a tile.
LEMMA TileOfPixel ==
    ASSUME HeightsAssumption, NEW p \in Pixels, file[p] \in Int, base \in Int,
           file[p] # nodata => file[p] > AbyssLimit
    PROVE  \E d \in Int :
              /\ IF file[p] = nodata THEN d = Abyss ELSE d \in {file[p], file[p] - 1}
              /\ file[p] # nodata /\ file[p] >= 0 => d >= 0
              /\ Relative(d) \in Nat /\ Relative(d) <= Clamp
              /\ GetTerrainTile(p) \in {Relative(d), Relative(d) - 1}
              /\ GetTerrainTile(p) >= 0
<1> DEFINE d == Decode(TileOf(p))
<1>1. /\ Metre = 512 /\ Abyss = -16777216 /\ AbyssLimit = -51200 /\ Clamp \in Nat
  BY SMT DEF HeightsAssumption, Abyss, AbyssLimit
<1>2. /\ d \in Int /\ IF file[p] = nodata THEN d = Abyss ELSE d \in {file[p], file[p] - 1}
      /\ file[p] # nodata /\ file[p] >= 0 => d >= 0
  <2>1. CASE file[p] = nodata
    <3>1. d = (0 * 256 + 0) * Metre + 0 * 2 + Abyss
      BY SMT, <2>1 DEF TileOf, Decode
    <3> HIDE DEF d
    <3> QED BY SMT, <1>1, <2>1, <3>1
  <2>2. CASE file[p] # nodata
    <3>1. d = Decode(Encode(file[p]))
      BY SMT, <2>2 DEF TileOf
    <3>2. file[p] >= Abyss
      BY SMT, <1>1, <2>2
    <3> HIDE DEF d
    <3> QED BY SMT, <2>2, <3>1, <3>2, Coding
  <2> QED BY SMT, <2>1, <2>2
<1> HIDE DEF d
<1>3. Relative(d) \in Nat /\ Relative(d) <= Clamp
  BY SMT, <1>1, <1>2 DEF Relative, Clip
<1>4. GetTerrainTile(p) = Decode(Encode(Relative(d)))
  BY SMT DEF GetTerrainTile, NormalizeTerrainTile, Relative, d
<1>5. GetTerrainTile(p) \in {Relative(d), Relative(d) - 1} /\ GetTerrainTile(p) >= 0
  <2>1. Relative(d) >= Abyss /\ Relative(d) >= 0
    BY SMT, <1>1, <1>3
  <2> QED BY SMT, <1>3, <1>4, <2>1, Coding
<1> QED BY SMT, <1>2, <1>3, <1>5

\* Rasters of heights, and those whose data lie above the abyss.
Raster == [Pixels -> Int]
Deep(raster, void) == \A p \in Pixels : raster[p] # void => raster[p] > AbyssLimit

\* The rasters are of heights, and a published one has data.
HeightsTyped ==
    /\ dsm \in Raster /\ Deep(dsm, Void)
    /\ dtm = NoModel \/ dtm \in Raster \/ dtm \in [Cells -> Int]
    /\ base \in Int /\ nodata \in {Void, 0}
    /\ stage \in {"written", "published"} =>
          /\ file \in Raster /\ Deep(file, nodata)
          /\ nodata = 0 => \A p \in Pixels : file[p] >= 0 /\ file[p] <= Clamp

\* Until it is normalised again, a relative surface is the normalised one, and its row has its minimum.
AsNormalized ==
    stage \in {"written", "published"} /\ ~again =>
        /\ nodata = 0 => file = Normalized
        /\ stage = "published" => HasData(file, nodata) /\ base = Lowest(file, nodata)

HeightsInv == HeightsTyped /\ AsNormalized

\* The value for no data of the photogrammetry is not the 0 of the normalisation.
LEMMA Voids ==
    ASSUME HeightsAssumption
    PROVE  Void # 0 /\ Void \in Int /\ AbyssLimit < 0 /\ AbyssLimit \in Int
  BY SMT DEF HeightsAssumption, Void, AbyssLimit

\* The ground below a pixel with a height is known.
LEMMA GroundKnown ==
    ASSUME HeightsAssumption, HeightsTyped, NEW p \in Pixels, HasHeight(p)
    PROVE  Ground(p) \in Int /\ dsm[p] \in Int /\ Measured(p) \in Int
<1>1. dsm \in Raster /\ dsm[p] \in Int /\ HasData(dsm, Void)
  BY DEF HeightsTyped, Raster, HasHeight, HasData
<1>2. CASE dtm = NoModel
  <2>1. Lowest(dsm, Void) \in Int
    BY <1>1, LowestThere DEF Raster
  <2> QED BY <1>1, <1>2, <2>1 DEF Ground, Measured
<1>3. CASE dtm # NoModel
  <2>1. CASE dtm \in Raster
    <3>1. SameShape /\ dtm[p] \in Int
      BY <2>1 DEF SameShape, Raster
    <3> QED BY <1>1, <1>3, <3>1 DEF Ground, Terrain, Measured
  <2>2. CASE dtm \in [Cells -> Int]
    <3>1. ~SameShape /\ (p \in Covered => Near(p, 1) \in Int /\ Near(p, 2) \in Int)
      BY <2>2 DEF SameShape, Near, HeightsAssumption
    <3>2. \A a, b \in Int : (a + b) \div 2 \in Int
      BY SMT
    <3>3. Terrain(p) \in Int
      BY <3>1, <3>2 DEF Terrain
    <3> QED BY <1>1, <1>3, <3>3 DEF Ground, Measured
  <2> QED BY <1>3, <2>1, <2>2 DEF HeightsTyped
<1> QED BY <1>2, <1>3

\* A normalised surface is within the clamp, and has the measured height of what stands.
LEMMA NormalizedHeights ==
    ASSUME HeightsAssumption, HeightsTyped
    PROVE  /\ Normalized \in Raster
           /\ \A p \in Pixels :
                 /\ Normalized[p] >= 0 /\ Normalized[p] <= Clamp
                 /\ Standing(p) => Normalized[p] = Measured(p) /\ Normalized[p] # 0
<1>1. Clamp \in Nat
  BY DEF HeightsAssumption
<1>2. ASSUME NEW p \in Pixels
      PROVE  /\ Normalized[p] \in Int /\ Normalized[p] >= 0 /\ Normalized[p] <= Clamp
             /\ Standing(p) => Normalized[p] = Measured(p) /\ Normalized[p] # 0
  <2>1. CASE HasHeight(p)
    <3>1. Normalized[p] = Clip(Measured(p), 0, Clamp)
      BY <2>1 DEF Normalized, Measured
    <3>2. Measured(p) \in Int
      BY <2>1, GroundKnown
    <3> QED BY <1>1, <3>1, <3>2 DEF Clip, Standing
  <2>2. CASE ~HasHeight(p)
    <3>1. Normalized[p] = 0
      BY <2>2 DEF Normalized
    <3> QED BY <1>1, <2>2, <3>1 DEF Standing
  <2> QED BY <2>1, <2>2
<1>3. Normalized = [p \in Pixels |-> Normalized[p]]
  BY DEF Normalized
<1>4. Normalized \in Raster
  <2>1. \A p \in Pixels : Normalized[p] \in Int
    BY <1>2
  <2> QED BY <1>3, <2>1 DEF Raster
<1> QED BY <1>2, <1>4

\* Every step of a surface keeps the invariant.
LEMMA HeightsStep ==
    ASSUME HeightsAssumption, HeightsInv, HeightsNext PROVE HeightsInv'
<1>0. HeightsTyped /\ AsNormalized /\ Clamp \in Nat
  BY DEF HeightsInv, HeightsAssumption
<1>1. ASSUME UNCHANGED <<dsm, dtm, base, again>>, file' = dsm, nodata' = Void, stage' = "written"
      PROVE  HeightsInv'
  <2>1. HeightsTyped'
    BY <1>0, <1>1, Voids DEF HeightsTyped, Deep
  <2>2. AsNormalized'
    BY <1>1, Voids DEF AsNormalized
  <2> QED BY <2>1, <2>2 DEF HeightsInv
<1>2. CASE NormalizeSurface
  <2>1. CASE UNCHANGED <<dsm, dtm, base, again>> /\ file' = dsm /\ nodata' = Void /\ stage' = "written"
    BY <1>1, <2>1
  <2>2. CASE UNCHANGED <<dsm, dtm, base, again>> /\ file' = Normalized /\ nodata' = 0 /\ stage' = "written"
    <3>1. file' \in Raster /\ \A p \in Pixels : file'[p] >= 0 /\ file'[p] <= Clamp
      BY <1>0, <2>2, NormalizedHeights
    <3>2. Deep(file', 0)
      BY <3>1, Voids DEF Deep, Raster
    <3>3. HeightsTyped'
      BY <1>0, <2>2, <3>1, <3>2 DEF HeightsTyped, Deep
    <3>4. Normalized' = Normalized
      BY <2>2 DEF Normalized, HasHeight, Ground, Terrain, SameShape, Near
    <3>5. AsNormalized'
      BY <2>2, <3>4 DEF AsNormalized
    <3> QED BY <3>3, <3>5 DEF HeightsInv
  <2> QED BY <1>2, <2>1, <2>2 DEF NormalizeSurface
<1>3. CASE FallBackToRaw
  BY <1>1, <1>3 DEF FallBackToRaw
<1>4. CASE ExtractElevationStats
  <2>0. UNCHANGED <<dsm, dtm, file, nodata, again>> /\ stage = "written" /\ Normalized' = Normalized
    BY <1>4 DEF ExtractElevationStats, Normalized, HasHeight, Ground, Terrain, SameShape, Near
  <2>1. CASE Valid(file, nodata) = {} /\ stage' = "failed" /\ UNCHANGED base
    BY <1>0, <2>0, <2>1 DEF HeightsInv, HeightsTyped, AsNormalized, Deep
  <2>2. CASE Valid(file, nodata) # {} /\ base' = Lowest(file, nodata) /\ stage' = "published"
    <3>1. HasData(file, nodata) /\ file \in Raster
      BY <1>0, <2>0, <2>2 DEF HasData, Valid, HeightsTyped
    <3>2. base' \in Int
      BY <2>2, <3>1, LowestThere DEF Raster
    <3>3. HeightsTyped'
      BY <1>0, <2>0, <2>2, <3>2 DEF HeightsTyped, Deep
    <3>4. base' = Lowest(file, nodata)' /\ HasData(file, nodata)'
      BY <2>0, <2>2, <3>1 DEF HasData, Lowest, Valid
    <3>5. AsNormalized'
      BY <1>0, <2>0, <3>4 DEF AsNormalized
    <3> QED BY <3>3, <3>5 DEF HeightsInv
  <2> QED BY <1>4, <2>1, <2>2 DEF ExtractElevationStats
<1>5. CASE NormalizeAgain
  <2> DEFINE lowest == Lowest(file, nodata)
             new == [p \in Pixels |-> IF file[p] = nodata THEN 0 ELSE Clip(file[p] - lowest, 0, Clamp)]
  <2>1. stage = "published" /\ ~again /\ again' /\ file' = new /\ nodata' = 0 /\ UNCHANGED <<dsm, dtm, base, stage>>
    BY <1>5 DEF NormalizeAgain
  <2>2. HasData(file, nodata) /\ file \in Raster
    BY <1>0, <2>1 DEF HeightsTyped, AsNormalized
  <2>3. lowest \in Int
    BY <2>2, LowestThere DEF Raster
  <2> HIDE DEF lowest
  <2>4. ASSUME NEW p \in Pixels PROVE new[p] \in Int /\ new[p] >= 0 /\ new[p] <= Clamp
    BY <1>0, <2>2, <2>3 DEF Raster, Clip
  <2>5. new \in Raster /\ Deep(new, 0)
    BY <2>4, Voids DEF Raster, Deep
  <2> HIDE DEF new
  <2>6. HeightsTyped'
    BY <1>0, <2>1, <2>4, <2>5 DEF HeightsTyped, Deep
  <2>7. AsNormalized'
    BY <2>1 DEF AsNormalized
  <2> QED BY <2>6, <2>7 DEF HeightsInv
<1> QED BY <1>2, <1>3, <1>4, <1>5 DEF HeightsNext

\* What the terrain promises of a surface with heights, and of one without.
LEMMA TerrainShown == ASSUME HeightsAssumption, HeightsInv PROVE TerrainKeepsHeights
<1> SUFFICES ASSUME Published PROVE TerrainKeepsHeights
  BY DEF TerrainKeepsHeights
<1>0. /\ stage = "published" /\ HeightsTyped /\ AsNormalized /\ Clamp \in Nat /\ base \in Int
      /\ file \in Raster /\ Deep(file, nodata)
  BY DEF Published, HeightsInv, HeightsTyped, HeightsAssumption
<1>1. \A p \in Pixels : file[p] \in Int /\ (file[p] # nodata => file[p] > AbyssLimit)
  BY <1>0 DEF Raster, Deep
<1>2. /\ Abyss < AbyssLimit /\ Abyss \in Int /\ AbyssLimit \in Int
      /\ AbyssLimit < 0
  BY SMT DEF HeightsAssumption, Abyss, AbyssLimit
<1>3. ASSUME NEW p \in Pixels PROVE GetTerrainTile(p) \in 0..Clamp
  <2>1. PICK d \in Int : /\ Relative(d) \in Nat /\ Relative(d) <= Clamp
                         /\ GetTerrainTile(p) \in {Relative(d), Relative(d) - 1}
                         /\ GetTerrainTile(p) >= 0
    BY <1>0, <1>1, TileOfPixel
  <2> QED BY <1>0, <2>1
<1>4. ASSUME Heights PROVE base >= 1 /\ \A p \in Pixels : file[p] # nodata => base <= file[p]
  <2>1. nodata = 0 /\ HasData(file, nodata) /\ base = Lowest(file, nodata)
    BY <1>0, <1>4 DEF Heights, AsNormalized
  <2>2. PICK p \in Pixels : /\ file[p] # nodata /\ base = file[p]
                                  /\ \A q \in Pixels : file[q] # nodata => file[p] <= file[q]
    BY <1>0, <2>1, LowestThere DEF Raster
  <2>3. file[p] >= 0
    BY <1>0, <2>1 DEF HeightsTyped
  <2> QED BY <1>1, <2>1, <2>2, <2>3
<1>5. ASSUME Heights, NEW p \in Pixels, Standing(p)
      PROVE  /\ Measured(p) \in Int /\ GetTerrainTile(p) \in Int
             /\ GetTerrainTile(p) <= Measured(p) - base
             /\ Measured(p) - base - 2 <= GetTerrainTile(p)
  <2>1. nodata = 0 /\ file = Normalized
    BY <1>0, <1>5 DEF Heights, AsNormalized
  <2>2. file[p] = Measured(p) /\ file[p] # 0 /\ file[p] >= 0 /\ file[p] <= Clamp
    BY <1>0, <1>5, <2>1, NormalizedHeights
  <2>3. PICK d \in Int : /\ d \in {file[p], file[p] - 1} /\ d >= 0
                         /\ Relative(d) \in Nat /\ Relative(d) <= Clamp
                         /\ GetTerrainTile(p) \in {Relative(d), Relative(d) - 1}
                         /\ GetTerrainTile(p) >= 0
    BY <1>0, <1>1, <2>1, <2>2, TileOfPixel
  <2>4. base >= 1 /\ base <= file[p] /\ file[p] \in Int
    BY <1>1, <1>4, <1>5, <2>1, <2>2
  <2>5. Relative(d) = IF d - base < 0 THEN 0 ELSE d - base
    BY <1>0, <1>2, <2>2, <2>3, <2>4 DEF Relative, Clip
  <2> DEFINE m == file[p]  t == GetTerrainTile(p)  h == Relative(d)
  <2>6. /\ m \in Int /\ base \in Int /\ h \in Nat /\ (t = h \/ t = h - 1) /\ t >= 0
        /\ (d = m \/ d = m - 1) /\ base <= m /\ h = (IF d - base < 0 THEN 0 ELSE d - base)
    BY <1>0, <2>3, <2>4, <2>5
  <2> HIDE DEF m, t, h
  <2>7. t \in Int /\ t <= m - base /\ m - base - 2 <= t
    <3>1. CASE d - base < 0
      BY SMT, <2>6, <3>1
    <3>2. CASE ~(d - base < 0)
      BY SMT, <2>6, <3>2
    <3> QED BY <3>1, <3>2
  <2>8. Measured(p) = m /\ GetTerrainTile(p) = t
    BY <2>2 DEF m, t
  <2> QED BY <2>6, <2>7, <2>8
<1>6. ASSUME Heights, NEW p \in Pixels, NEW q \in Pixels,
             Standing(p), Standing(q)
      PROVE  /\ GetTerrainTile(p) <= Measured(p)
             /\ (GetTerrainTile(p) - GetTerrainTile(q))
                  - (Measured(p) - Measured(q)) \in -2..2
  <2>1. base >= 1
    BY <1>4, <1>6
  <2>2. /\ Measured(p) \in Int /\ GetTerrainTile(p) \in Int
        /\ GetTerrainTile(p) <= Measured(p) - base
        /\ Measured(p) - base - 2 <= GetTerrainTile(p)
    BY <1>5, <1>6
  <2>3. /\ Measured(q) \in Int /\ GetTerrainTile(q) \in Int
        /\ GetTerrainTile(q) <= Measured(q) - base
        /\ Measured(q) - base - 2 <= GetTerrainTile(q)
    BY <1>5, <1>6
  <2> QED BY <1>0, <2>1, <2>2, <2>3
<1>7. ASSUME base >= 0 \/ Heights, NEW p \in Pixels, file[p] = nodata
      PROVE  GetTerrainTile(p) = 0
  <2>1. base >= 0
    BY <1>0, <1>4, <1>7
  <2>2. PICK d \in Int : /\ d = Abyss
                         /\ Relative(d) \in Nat
                         /\ GetTerrainTile(p) \in {Relative(d), Relative(d) - 1}
                         /\ GetTerrainTile(p) >= 0
    BY <1>0, <1>1, <1>7, TileOfPixel
  <2>3. Relative(d) = 0
    BY <1>0, <1>2, <2>1, <2>2 DEF Relative, Clip
  <2> QED BY <2>2, <2>3
<1> QED BY <1>3, <1>6, <1>7 DEF TerrainKeepsHeights

\* The community modules' sum of a function is its sum.
LEMMA TotalIsSum == \A f : Total(f) = Sum(f, DOMAIN f)
  BY DEF Total, MapThenSumSet, MapThenFoldSet, Sum, Adds, Pick

\* A line, a pixel longer.
LEMMA OneFurther ==
    ASSUME NEW n \in Int, NEW k \in Int, 2 <= k, k <= n
    PROVE  /\ 2..k = (2..(k - 1)) \cup {k} /\ 2..(k - 1) \in SUBSET (2..n)
           /\ k \in (2..n) \ (2..(k - 1))
<1>1. \A x \in Int : x \in 2..k <=> x \in 2..(k - 1) \/ x = k
  BY SMT
<1>2. \A x : (x \in 2..k => x \in Int) /\ (x \in 2..(k - 1) => x \in Int)
  BY SMT
<1>3. 2..k = (2..(k - 1)) \cup {k}
  BY <1>1, <1>2, Zenon
<1> QED BY SMT, <1>3

\* Along a line the rises less the falls lead from its first height to its last.
LEMMA Telescope ==
    ASSUME NEW n \in Nat \ {0}, NEW r \in [1..n -> Int],
           NEW G, NEW L, \A p \in 2..n : G[p] \in Int, \A p \in 2..n : L[p] \in Int,
           \A p \in 2..n : G[p] - L[p] = r[p] - r[p - 1]
    PROVE  Sum(G, 2..n) - Sum(L, 2..n) = r[n] - r[1]
<1> DEFINE Bad == {k \in 1..n : Sum(G, 2..k) - Sum(L, 2..k) # r[k] - r[1]}
<1>1. /\ IsFiniteSet(2..n) /\ Sum(G, {}) = 0 /\ Sum(L, {}) = 0
      /\ \A T \in SUBSET (2..n) : \A x \in (2..n) \ T : /\ Sum(G, T \cup {x}) = Sum(G, T) + G[x]
                                                   /\ Sum(L, T \cup {x}) = Sum(L, T) + L[x]
  <2>1. IsFiniteSet(2..n)
    BY FS_Interval
  <2>2. (\A x \in 2..n : G[x] \in Int) /\ \A x \in 2..n : L[x] \in Int
    OBVIOUS
  <2> DEFINE S == 2..n
  <2>3. IsFiniteSet(S) /\ (\A x \in S : G[x] \in Int) /\ \A x \in S : L[x] \in Int
    BY <2>1, <2>2
  <2> HIDE DEF S
  <2>4. Sum(G, {}) = 0 /\ \A T \in SUBSET S : \A x \in S \ T : Sum(G, T \cup {x}) = Sum(G, T) + G[x]
    <3>1. IsFiniteSet(S) /\ \A x \in S : G[x] \in Int
      BY <2>3
    <3> QED BY <3>1, SumAdd
  <2>5. Sum(L, {}) = 0 /\ \A T \in SUBSET S : \A x \in S \ T : Sum(L, T \cup {x}) = Sum(L, T) + L[x]
    <3>1. IsFiniteSet(S) /\ \A x \in S : L[x] \in Int
      BY <2>3
    <3> QED BY <3>1, SumAdd
  <2> QED BY <2>1, <2>4, <2>5 DEF S
<1>2. ASSUME NEW k \in 1..n PROVE Sum(G, 2..k) \in Int /\ Sum(L, 2..k) \in Int
  <2> DEFINE S == 2..k
  <2>0. k \in Int /\ n \in Int /\ \A x \in 2..k : x \in 2..n
    BY SMT
  <2>1. IsFiniteSet(S)
    BY <2>0, FS_Interval
  <2>2. (\A x \in S : G[x] \in Int) /\ \A x \in S : L[x] \in Int
    BY <2>0
  <2> HIDE DEF S
  <2>3. Sum(G, S) \in Int /\ Sum(L, S) \in Int
    BY <2>1, <2>2, SumAdd, Zenon
  <2> QED BY <2>3 DEF S
<1>3. SUFFICES ASSUME Bad # {} PROVE FALSE
  <2>1. n \in 1..n
    OBVIOUS
  <2>2. n \notin Bad
    BY <1>3
  <2> QED BY <2>1, <2>2
<1>4. PICK k \in Bad : \A j \in Bad : k <= j
  <2>1. Bad \subseteq Nat
    OBVIOUS
  <2> HIDE DEF Bad
  <2> QED BY <1>3, <2>1, LeastNatural
<1>5. k \in 1..n /\ Sum(G, 2..k) - Sum(L, 2..k) # r[k] - r[1]
  OBVIOUS
<1>6. CASE k = 1
  <2>1. 2..k = {} /\ r[1] \in Int
    BY <1>5, <1>6
  <2>2. Sum(G, 2..k) = 0 /\ Sum(L, 2..k) = 0
    BY <1>1, <2>1
  <2> QED BY <1>5, <1>6, <2>1, <2>2
<1>7. CASE k # 1
  <2> DEFINE j == k - 1
  <2>0. j \in 1..n /\ j < k /\ k \in 2..n
    BY <1>5, <1>7
  <2>1. j \in 1..n /\ j \notin Bad /\ k \in 2..n /\ j \in Int
    <3> HIDE DEF Bad
    <3>1. k \in Int /\ j \in Int
      BY <1>5
    <3> QED BY <1>4, <2>0, <3>1
  <2>2. Sum(G, 2..j) - Sum(L, 2..j) = r[j] - r[1]
    BY <2>1
  <2>3. 2..k = (2..j) \cup {k} /\ 2..j \in SUBSET (2..n) /\ k \in (2..n) \ (2..j)
    <3>1. k \in Int /\ n \in Int /\ 2 <= k /\ k <= n
      <4> HIDE DEF Bad
      <4> QED BY <1>5, <2>0
    <3> HIDE DEF Bad
    <3> QED BY <3>1, OneFurther, Zenon
  <2>4. Sum(G, 2..k) = Sum(G, 2..j) + G[k] /\ Sum(L, 2..k) = Sum(L, 2..j) + L[k]
    BY <1>1, <2>3
  <2>5. G[k] - L[k] = r[k] - r[j] /\ G[k] \in Int /\ L[k] \in Int /\ r[k] \in Int /\ r[j] \in Int /\ r[1] \in Int
    BY <2>1
  <2>6. /\ Sum(G, 2..j) \in Int /\ Sum(L, 2..j) \in Int
        /\ Sum(G, 2..k) \in Int /\ Sum(L, 2..k) \in Int
    BY <1>2, <1>5, <2>1
  <2> HIDE DEF j, Bad
  <2> DEFINE a == Sum(G, 2..j)  b == Sum(L, 2..j)  g == G[k]  l == L[k]
             x == r[1]  y == r[j]  z == r[k]
  <2>7. /\ a \in Int /\ b \in Int /\ g \in Int /\ l \in Int /\ x \in Int /\ y \in Int /\ z \in Int
        /\ a - b = y - x /\ g - l = z - y
    BY <2>2, <2>5, <2>6
  <2>8. (a + g) - (b + l) # z - x
    BY <1>5, <2>4
  <2> HIDE DEF a, b, g, l, x, y, z
  <2> QED BY <2>7, <2>8
<1> QED BY <1>6, <1>7

\* Without a value for no data but 0, the tools tell data by the same pixels.
LEMMA ToolsShown == ASSUME HeightsAssumption, HeightsInv PROVE ToolsAgree
<1> SUFFICES ASSUME Published, nodata = 0 PROVE ToolsAgree
  BY DEF ToolsAgree
<1> DEFINE P == Pixels
           Z == {p \in P : file[p] # 0}
<1>0. /\ Width \in Nat \ {0} /\ Clamp \in Nat /\ P = 1..Width /\ IsFiniteSet(P)
      /\ file \in Raster /\ \A p \in P : file[p] \in Int /\ file[p] >= 0 /\ file[p] <= Clamp
  <2>1. file \in Raster /\ \A p \in P : file[p] >= 0 /\ file[p] <= Clamp
    BY DEF Published, HeightsInv, HeightsTyped
  <2>2. Width \in Nat \ {0} /\ Clamp \in Nat /\ P = 1..Width
    BY DEF HeightsAssumption, Pixels
  <2>3. IsFiniteSet(P)
    BY <2>2, FS_Interval
  <2> QED BY <2>1, <2>2, <2>3 DEF Raster
<1>1. /\ \A p \in P : PointAnswers(p) <=> HasSample(p)
      /\ Label => \A p \in P : PointAnswers(p) <=> Painted(p)
      /\ {p \in P : PointAnswers(p)} = Z
  BY DEF PointAnswers, HasSample, Painted
<1>2. ZonalBase(P) = Z
  BY DEF ZonalBase
<1>3. Volume(P) = SumOf(Z)
  <2> DEFINE f == [p \in P |-> IF file[p] # nodata /\ file[p] > 0 THEN file[p] ELSE 0]
             g == [p \in Z |-> file[p]]
  <2>1. Volume(P) = Sum(f, P) /\ SumOf(Z) = Sum(g, Z)
    <3>1. DOMAIN f = P /\ DOMAIN g = Z
      OBVIOUS
    <3>2. Volume(P) = Total(f) /\ SumOf(Z) = Total(g)
      BY DEF Volume, SumOf
    <3> HIDE DEF f, g, Z, P
    <3> QED BY <3>1, <3>2, TotalIsSum
  <2>2. \A p \in P : f[p] \in Int
    BY <1>0
  <2>3. Z \subseteq P /\ \A p \in P \ Z : f[p] = 0
    OBVIOUS
  <2>4. \A p \in Z : f[p] = g[p] /\ f[p] \in Int
    BY <1>0
  <2> HIDE DEF f, g, Z, P
  <2>5. Sum(f, P) = Sum(f, Z)
    <3>1. IsFiniteSet(P)
      BY <1>0
    <3> QED BY <2>2, <2>3, <3>1, SumPart, Zenon
  <2>6. Sum(f, Z) = Sum(g, Z)
    <3>1. IsFiniteSet(Z)
      BY <1>0, <2>3, FS_Subset
    <3> QED BY <2>4, <3>1, SumSame
  <2> QED BY <2>1, <2>5, <2>6
<1>4. ASSUME \A p \in P : HasSample(p)
      PROVE  Gain - Loss = file[Max(P)] - file[1]
  <2> DEFINE G == [p \in Steps |-> Clip(file[p] - file[p - 1], 0, 2 * Clamp)]
             L == [p \in Steps |-> Clip(file[p - 1] - file[p], 0, 2 * Clamp)]
  <2>1. Steps = 2..Width
    <3>1. \A p \in P : p > 1 => p - 1 \in P
      BY <1>0
    <3>2. Steps = {p \in P : p > 1}
      BY <1>4, <3>1 DEF Steps
    <3> HIDE DEF P
    <3> QED BY <1>0, <3>2
  <2>2. Gain = Sum(G, 2..Width) /\ Loss = Sum(L, 2..Width)
    <3>1. DOMAIN G = 2..Width /\ DOMAIN L = 2..Width
      BY <2>1
    <3>2. Gain = Total(G) /\ Loss = Total(L)
      BY DEF Gain, Loss
    <3> HIDE DEF G, L
    <3> QED BY <3>1, <3>2, TotalIsSum
  <2>3. ASSUME NEW p \in 2..Width
        PROVE  G[p] \in Int /\ L[p] \in Int /\ G[p] - L[p] = file[p] - file[p - 1]
    <3> DEFINE x == file[p]  y == file[p - 1]
    <3>1. p \in P /\ p - 1 \in P
      BY <1>0
    <3>2. x \in Int /\ x >= 0 /\ x <= Clamp /\ y \in Int /\ y >= 0 /\ y <= Clamp /\ Clamp \in Nat
      BY <1>0, <3>1
    <3>3. G[p] = Clip(x - y, 0, 2 * Clamp) /\ L[p] = Clip(y - x, 0, 2 * Clamp)
      BY <2>1
    <3> HIDE DEF x, y, G, L
    <3>4. G[p] \in Int /\ L[p] \in Int /\ G[p] - L[p] = x - y
      BY <3>2, <3>3 DEF Clip
    <3> QED BY <3>4 DEF x, y
  <2> HIDE DEF G, L
  <2>6. file \in [1..Width -> Int]
    BY <1>0 DEF Raster
  <2>7. Sum(G, 2..Width) - Sum(L, 2..Width) = file[Width] - file[1]
    <3>1. Width \in Nat \ {0}
      BY <1>0
    <3>2. (\A p \in 2..Width : G[p] \in Int) /\ \A p \in 2..Width : L[p] \in Int
      BY <2>3, Zenon
    <3>3. \A p \in 2..Width : G[p] - L[p] = file[p] - file[p - 1]
      BY <2>3, Zenon
    <3> QED BY <2>6, <3>1, <3>2, <3>3, Telescope, ZenonT(40)
  <2>8. Max(P) = Width
    <3> DEFINE x == CHOOSE x \in P : \A y \in P : x >= y
    <3>1. Width \in P /\ \A y \in P : Width >= y
      BY <1>0
    <3>2. x \in P /\ \A y \in P : x >= y
      BY <3>1
    <3> HIDE DEF x
    <3>3. x = Width
      BY <1>0, <3>1, <3>2
    <3> QED BY <3>3 DEF Max, x
  <2> QED BY <2>2, <2>7, <2>8
<1> QED BY <1>1, <1>2, <1>3, <1>4 DEF ToolsAgree

\* For a raster of any width, any elevations above the abyss and any clamp: the terrain served of a
\* normalised surface keeps its heights to the step of a tile, what has no height lies at the
\* bottom, and the point, the polygon, the line and the legend of the map tell data by the same
\* pixels (dsm_processor.py, tiles.py, urban_analytics.py).
THEOREM HeightsReachTheMap ==
    ASSUME HeightsAssumption PROVE HeightsSpec => []HeightsAreShown
<1>1. HeightsInit => HeightsInv
  <2> SUFFICES ASSUME HeightsInit PROVE HeightsInv
    OBVIOUS
  <2>1. \A e \in Elevations \cup Grounds : e \in Int /\ e > AbyssLimit
    BY DEF HeightsAssumption
  <2>2. dsm \in Raster /\ Deep(dsm, Void)
    BY <2>1, Voids DEF HeightsInit, Raster, Deep
  <2>3. dtm = NoModel \/ dtm \in Raster \/ dtm \in [Cells -> Int]
    <3>1. \A e \in Grounds \cup {Void} : e \in Int
      BY <2>1, Voids
    <3> QED BY <3>1 DEF HeightsInit, Raster
  <2> QED BY <2>2, <2>3 DEF HeightsInit, HeightsInv, HeightsTyped, AsNormalized
<1>2. HeightsInv /\ [HeightsNext]_(heightVars) => HeightsInv'
  <2>1. HeightsInv /\ UNCHANGED heightVars => HeightsInv'
    <3> SUFFICES ASSUME HeightsInv, UNCHANGED heightVars PROVE HeightsInv'
      OBVIOUS
    <3>1. UNCHANGED <<dsm, dtm, file, nodata, base, stage, again>>
      BY DEF heightVars
    <3>2. Normalized' = Normalized
      BY <3>1 DEF Normalized, HasHeight, Ground, Terrain, SameShape, Near
    <3>3. HasData(file, nodata)' = HasData(file, nodata) /\ Lowest(file, nodata)' = Lowest(file, nodata)
      BY <3>1 DEF HasData, Lowest, Valid
    <3> QED BY <3>1, <3>2, <3>3 DEF HeightsInv, HeightsTyped, AsNormalized, Deep
  <2> QED BY <2>1, HeightsStep
<1>3. HeightsInv => HeightsAreShown
  BY TerrainShown, ToolsShown DEF HeightsAreShown
<1> QED BY <1>1, <1>2, <1>3, PTL DEF HeightsSpec
=============================================================================
