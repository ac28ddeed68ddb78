--------------------------- MODULE Detections_proofs ---------------------------
(***************************************************************************)
(* For any writers, analyses, reviewers, features, workers and faults: the *)
(* runs that replace the detections of an orthomosaic                      *)
(* (DetectionGenerations), the fiscal analysis made from them              *)
(* (FiscalReview), the AI pipeline (AiPipeline) and the tasks that judge   *)
(* detections (DetectionReview).                                           *)
(*                                                                         *)
(* An analysis keeps what it stores true because it knows, until a run     *)
(* replaces them, the detections that are there (Sighted), and a verdict   *)
(* is one's own because a decided discrepancy is never pending again and   *)
(* a request about to decide it too overlaps the one that did (ReviewInv). *)
(***************************************************************************)
EXTENDS DetectionGenerations, DetectionReview, FiscalReview, AiPipeline, TLAPS

WritersTyped ==
    /\ txn \in [Writers -> {"idle", "committed", "aborted"} \cup Open]
    /\ doomed \in [Writers -> SUBSET Writers]
    /\ beside \in [Writers -> SUBSET Writers]
    /\ rows \in SUBSET Writers

Overlap(b, c) == b \in beside[c] \/ c \in beside[b]

\* Every row was committed by its writer, and two open transactions overlap.
Committed == \A b \in rows : txn[b] = "committed"
OpenOverlap == \A u, w \in Writers : u # w /\ txn[u] \in Open /\ txn[w] \in Open => Overlap(u, w)

\* A batch that a transaction did not find although its statement looked for it was
\* committed while the transaction was open.
Seen(w, b) == b \in doomed[w] \/ Overlap(b, w)
OwnSeen == \A w \in Writers : txn[w] \in {"own", "others"} =>
               \A b \in rows : version[b] = version[w] => Seen(w, b)
AllSeen == \A w \in Writers : txn[w] = "others" => \A b \in rows : Seen(w, b)

WritersInv == WritersTyped /\ Committed /\ OpenOverlap /\ OwnSeen /\ AllSeen /\ GenerationsMixOnlyByOverlap

LEMMA WritersInitInv == WritersInit => WritersInv
  BY DEF WritersInit, WritersInv, WritersTyped, Committed, OpenOverlap, OwnSeen, AllSeen,
         GenerationsMixOnlyByOverlap, Open

LEMMA BeginInv == ASSUME WritersInv, NEW w \in Writers, Begin(w) PROVE WritersInv'
<1> USE DEF WritersInv, Begin, Open, OpenTxns
<1>1. WritersTyped'
  BY DEF WritersTyped
<1>2. \A b \in Writers \ {w} : beside[b] \subseteq beside'[b]
  BY DEF WritersTyped
<1>3. \A b, c \in Writers \ {w} : Overlap(b, c) => Overlap(b, c)'
  BY <1>2 DEF Overlap
<1>4. w \notin rows /\ Committed'
  BY DEF WritersTyped, Committed
<1>5. ASSUME NEW u \in Writers, NEW v \in Writers, u # v, txn'[u] \in Open, txn'[v] \in Open
      PROVE  Overlap(u, v)'
  <2>1. CASE u # w /\ v # w
    BY <1>3, <1>5, <2>1 DEF WritersTyped, OpenOverlap
  <2>2. CASE u = w
    BY <1>5, <2>2 DEF WritersTyped, Overlap
  <2>3. CASE v = w
    BY <1>5, <2>3 DEF WritersTyped, Overlap
  <2> QED BY <2>1, <2>2, <2>3
<1>6. OwnSeen' /\ AllSeen'
  BY <1>3, <1>4 DEF WritersTyped, OwnSeen, AllSeen, Seen
<1>7. GenerationsMixOnlyByOverlap'
  BY <1>3, <1>4 DEF WritersTyped, GenerationsMixOnlyByOverlap, Overlap
<1> QED BY <1>1, <1>4, <1>5, <1>6, <1>7 DEF OpenOverlap

LEMMA DeleteInv ==
    ASSUME WritersInv, NEW w \in Writers, DeleteOwnVersion(w) \/ DeleteOtherVersions(w)
    PROVE  WritersInv'
<1> USE DEF WritersInv, Open, Delete
<1>1. WritersTyped'
  BY DEF WritersTyped, DeleteOwnVersion, DeleteOtherVersions
<1>2. UNCHANGED <<version, rows, beside>>
      /\ \A u \in Writers : doomed[u] \subseteq doomed'[u]
  BY DEF WritersTyped, DeleteOwnVersion, DeleteOtherVersions
<1>3. \A b, c \in Writers : Seen(b, c) => Seen(b, c)'
  BY <1>2 DEF Seen, Overlap
<1>4. Committed' /\ OpenOverlap' /\ GenerationsMixOnlyByOverlap'
  BY <1>2 DEF WritersTyped, Committed, OpenOverlap, GenerationsMixOnlyByOverlap, Overlap,
              DeleteOwnVersion, DeleteOtherVersions
<1>5. OwnSeen'
  <2>1. CASE DeleteOwnVersion(w)
    BY <1>2, <1>3, <2>1 DEF WritersTyped, OwnSeen, Seen, DeleteOwnVersion
  <2>2. CASE DeleteOtherVersions(w)
    BY <1>2, <1>3, <2>2 DEF WritersTyped, OwnSeen, DeleteOtherVersions
  <2> QED BY <2>1, <2>2
<1>6. AllSeen'
  <2>1. CASE DeleteOwnVersion(w)
    BY <1>2, <1>3, <2>1 DEF WritersTyped, AllSeen, DeleteOwnVersion
  <2>2. CASE DeleteOtherVersions(w)
    <3>1. \A b \in rows : Seen(w, b)'
      BY <1>2, <1>3, <2>2 DEF WritersTyped, OwnSeen, Seen, OtherVersion, DeleteOtherVersions
    <3>2. \A u \in Writers \ {w} : txn'[u] = txn[u]
      BY <2>2 DEF WritersTyped, DeleteOtherVersions
    <3> QED BY <1>2, <1>3, <3>1, <3>2 DEF WritersTyped, AllSeen
  <2> QED BY <2>1, <2>2
<1> QED BY <1>1, <1>4, <1>5, <1>6

LEMMA CommitInv == ASSUME WritersInv, NEW w \in Writers, InsertAndCommit(w) PROVE WritersInv'
<1> USE DEF WritersInv, InsertAndCommit, Open
<1>1. WritersTyped'
  BY DEF WritersTyped
<1>2. PICK batch \in {{}, {w}} : rows' = (rows \ doomed[w]) \cup batch
  OBVIOUS
<1>3. UNCHANGED <<version, doomed, beside>> /\ rows' \subseteq (rows \ doomed[w]) \cup {w}
  BY <1>2
<1>4. \A b \in rows \ doomed[w] : Overlap(b, w)
  BY DEF AllSeen, Seen
<1>5. \A b, c \in Writers : Overlap(b, c) = Overlap(b, c)' /\ Seen(b, c) = Seen(b, c)'
  BY <1>3 DEF Overlap, Seen
<1>6. Committed' /\ OpenOverlap'
  BY <1>3, <1>5 DEF WritersTyped, Committed, OpenOverlap
<1>7. \A u \in Writers : u # w /\ txn[u] \in Open => Overlap(w, u)
  BY DEF OpenOverlap, Overlap
<1>8. OwnSeen' /\ AllSeen'
  BY <1>3, <1>5, <1>7 DEF WritersTyped, OwnSeen, AllSeen, Seen
<1>9. GenerationsMixOnlyByOverlap'
  BY <1>3, <1>4 DEF WritersTyped, GenerationsMixOnlyByOverlap, Overlap
<1> QED BY <1>1, <1>6, <1>8, <1>9

LEMMA AbortInv == ASSUME WritersInv, NEW w \in Writers, Abort(w) PROVE WritersInv'
<1> USE DEF WritersInv, Abort, Open
<1>1. WritersTyped'
  BY DEF WritersTyped
<1>2. Committed' /\ OpenOverlap' /\ GenerationsMixOnlyByOverlap'
  BY DEF WritersTyped, Committed, OpenOverlap, GenerationsMixOnlyByOverlap, Overlap
<1>3. OwnSeen' /\ AllSeen'
  BY DEF WritersTyped, OwnSeen, AllSeen, Seen, Overlap
<1> QED BY <1>1, <1>2, <1>3

\* post_processing.py:62-142: two batches of one orthomosaic are both there only if the
\* transactions that wrote them were open together, whatever the versions and the aborts.
THEOREM GenerationsReplaceEachOther == WritersSpec => []GenerationsMixOnlyByOverlap
<1>1. WritersInv /\ [WritersNext]_writerVars => WritersInv'
  <2> SUFFICES ASSUME WritersInv, [WritersNext]_writerVars PROVE WritersInv'
    OBVIOUS
  <2>1. CASE UNCHANGED writerVars
    BY <2>1 DEF writerVars, txnVars, WritersInv, WritersTyped, Committed, OpenOverlap, OwnSeen, AllSeen, Seen,
                Overlap, GenerationsMixOnlyByOverlap
  <2> QED BY <2>1, BeginInv, DeleteInv, CommitInv, AbortInv DEF WritersNext
<1>2. WritersInv => GenerationsMixOnlyByOverlap
  BY DEF WritersInv
<1> QED BY WritersInitInv, <1>1, <1>2, PTL DEF WritersSpec

-----------------------------------------------------------------------------
(* The fiscal analysis and its review (FiscalReview). *)

Dets == [gen : Nat, building : Buildings]
Discrepancies ==
    [run : Analyses, type : {"under_declared", "over_declared", "height", "demolished", "unregistered"},
     parcel : Parcels \cup {"none"}, det : Dets \cup {None}]
Analysis ==
    [pc : {"idle", "cross", "done", "failed"}, there : SUBSET Dets, seen : SUBSET Dets, todo : SUBSET Parcels,
     matched : SUBSET Dets, drafts : SUBSET Discrepancies, aborted : BOOLEAN, replaced : BOOLEAN]

FiscalTyped ==
    /\ home \in {"tenant", "public"} /\ gen \in 0..MaxGen
    /\ latest \in Nat /\ latest <= gen
    /\ dets \subseteq Dets /\ \A d, e \in dets : d.gen = e.gen /\ d.gen <= gen
    /\ an \in [Analyses -> Analysis]
    /\ DOMAIN runs \subseteq Analyses /\ DOMAIN disc \subseteq Discrepancies
    /\ disc = [k \in DOMAIN disc |-> disc[k]]
    /\ \A k \in DOMAIN disc : disc[k] = [status |-> disc[k].status, linked |-> disc[k].linked]
                              /\ disc[k].status \in Statuses

\* A discrepancy belongs to a run that was committed, and a run to an analysis that is done.
Recorded ==
    /\ \A k \in DOMAIN disc : k.run \in DOMAIN runs
    /\ \A a \in DOMAIN runs : an[a].pc = "done"

\* Until the detections are replaced, an analysis at work knows those that are there; one whose
\* read failed knows of none.
Sighted ==
    \A a \in Analyses :
        /\ an[a].matched \subseteq an[a].seen
        /\ an[a].pc = "idle" => an[a].there = {} /\ an[a].drafts = {} /\ an[a].matched = {}
        /\ an[a].pc = "cross" /\ ~an[a].replaced =>
               an[a].there = {} \/ (an[a].seen = an[a].there /\ dets = an[a].there)

\* What an analysis is about to store is its own, and as true as what is stored.
Drafted ==
    \A a \in Analyses : \A k \in an[a].drafts :
        /\ k.run = a
        /\ k.type = "demolished" =>
               an[a].replaced \/ \A d \in an[a].there : k.parcel \notin Hits[d.building]

AnalysisInv ==
    /\ FiscalTyped /\ Recorded /\ Sighted /\ Drafted
    /\ TotalIsStored /\ StaleOnlyByHold /\ DemolishedOnlyByReplacement

Deciding(r) == Busy(r) /\ req[r].op \in {"approve", "reject"}

Requests == [pc : {"idle", "update", "done"}, op : {"none", "approve", "reject", "schedule", "inspect"},
             key : Discrepancies \cup {None}]

\* Two requests under way overlap; a decided discrepancy is not pending, and a request that is
\* about to decide it as well overlaps the one that did.
ReviewInv ==
    /\ req \in [Reviewers -> Requests]
    /\ \A x \in decided : x[1] \in DOMAIN disc /\ x[2] \in Reviewers /\ disc[x[1]].status # "pending"
    /\ \A r \in Reviewers : Busy(r) => req[r].key \in DOMAIN disc
    /\ \A r, q \in Reviewers : r # q /\ Busy(r) /\ Busy(q) => <<r, q>> \in overlap
    /\ \A r \in Reviewers : \A x \in decided :
           Deciding(r) /\ x[1] = req[r].key /\ x[2] # r => <<r, x[2]>> \in overlap /\ <<x[2], r>> \in overlap
    /\ TwoVerdictsOnlyByOverlap

FiscalInv == AnalysisInv /\ ReviewInv

LEMMA FiscalInitInv == ASSUME FiscalAssumption, Init PROVE FiscalInv
<1> DEFINE fresh == [pc |-> "idle", there |-> {}, seen |-> {}, todo |-> {}, matched |-> {},
                     drafts |-> {}, aborted |-> FALSE, replaced |-> FALSE]
           rest == [pc |-> "idle", op |-> "none", key |-> None]
<1>1. fresh \in Analysis /\ fresh.pc = "idle" /\ fresh.there = {} /\ fresh.drafts = {} /\ fresh.matched = {}
  BY DEF Analysis
<1>2. rest \in Requests /\ rest.pc = "idle"
  BY DEF Requests
<1>3. an = [a \in Analyses |-> fresh] /\ req = [r \in Reviewers |-> rest]
  BY DEF Init
<1> HIDE DEF fresh, rest
<1>4. dets \subseteq Dets /\ gen \in 0..MaxGen /\ latest = gen /\ \A d \in dets : d.gen = gen
  <2>1. CASE gen = 0 /\ dets = {}
    BY <2>1 DEF FiscalAssumption, Init
  <2>2. CASE gen = 1 /\ \E found \in SUBSET Buildings \ {{}} : dets = Generations(1, found)
    <3>1. PICK found \in SUBSET Buildings \ {{}} : dets = {[gen |-> 1, building |-> b] : b \in found}
      BY <2>2 DEF Generations
    <3>2. dets \subseteq Dets /\ \A d \in dets : d.gen = 1
      BY <3>1 DEF Dets
    <3> QED BY <2>2, <3>2 DEF FiscalAssumption, Init
  <2> QED BY <2>1, <2>2 DEF Init
<1>5. DOMAIN disc = {} /\ DOMAIN runs = {} /\ disc = [k \in DOMAIN disc |-> disc[k]]
  BY DEF Init
<1>6. FiscalTyped /\ Recorded /\ Sighted /\ Drafted
  <2>1. FiscalTyped
    <3>1. \A d, e \in dets : d.gen = e.gen /\ d.gen <= gen
      BY <1>4 DEF FiscalAssumption
    <3>2. an \in [Analyses -> Analysis] /\ home \in {"tenant", "public"}
      BY <1>1, <1>3 DEF Init
    <3> QED BY <1>4, <1>5, <3>1, <3>2 DEF FiscalTyped
  <2>2. Recorded /\ Sighted /\ Drafted
    BY <1>1, <1>3, <1>5 DEF Recorded, Sighted, Drafted
  <2> QED BY <2>1, <2>2
<1>7. TotalIsStored /\ StaleOnlyByHold /\ DemolishedOnlyByReplacement
  BY <1>4, <1>5 DEF TotalIsStored, StaleOnlyByHold, DemolishedOnlyByReplacement
<1>8. ReviewInv
  BY <1>2, <1>3 DEF Init, ReviewInv, Busy, Deciding, TwoVerdictsOnlyByOverlap
<1> QED BY <1>6, <1>7, <1>8 DEF FiscalInv, AnalysisInv

\* A step that keeps every discrepancy and reopens none keeps the review.
LEMMA ReviewStays ==
    ASSUME ReviewInv, UNCHANGED review, DOMAIN disc \subseteq DOMAIN disc',
           \A k \in DOMAIN disc : disc[k].status # "pending" => disc'[k].status # "pending"
    PROVE  ReviewInv'
  BY DEF ReviewInv, review, Busy, Deciding, TwoVerdictsOnlyByOverlap

\* The new detections take the place of the old ones, or a discrepancy holds them.
LEMMA ReplaceEffect ==
    ASSUME FiscalAssumption, FiscalTyped, gen < MaxGen, NEW found \in SUBSET Buildings, Replace(found)
    PROVE  /\ DOMAIN disc' = DOMAIN disc /\ disc' = [k \in DOMAIN disc |-> disc'[k]]
           /\ \A k \in DOMAIN disc : disc'[k].status = disc[k].status
                  /\ disc'[k] = [status |-> disc'[k].status, linked |-> disc'[k].linked]
           /\ dets' \subseteq Dets
           /\ \/ /\ UNCHANGED <<dets, disc>> /\ home = "tenant" /\ \E k \in DOMAIN disc : Linked(k)
              \/ \A d \in dets' : d.gen = gen + 1
<1>1. CASE home = "tenant" /\ \E k \in DOMAIN disc : Linked(k)
  <2>1. UNCHANGED <<dets, disc>>
    BY <1>1 DEF Replace
  <2> QED BY <1>1, <2>1 DEF FiscalTyped
<1>2. CASE ~(home = "tenant" /\ \E k \in DOMAIN disc : Linked(k))
  <2>1. /\ dets' = {[gen |-> gen + 1, building |-> b] : b \in found}
        /\ disc' = [k \in DOMAIN disc |-> [disc[k] EXCEPT !.linked = FALSE]]
    BY <1>2 DEF Replace, Generations
  <2>2. gen + 1 \in Nat
    BY DEF FiscalTyped, FiscalAssumption
  <2>3. dets' \subseteq Dets /\ \A d \in dets' : d.gen = gen + 1
    BY <2>1, <2>2 DEF Dets
  <2>4. ASSUME NEW k \in DOMAIN disc
        PROVE  /\ disc'[k].status = disc[k].status
               /\ disc'[k] = [status |-> disc'[k].status, linked |-> disc'[k].linked]
    <3> DEFINE s == disc[k].status  l == disc[k].linked  no == FALSE
    <3>1. disc'[k] = [disc[k] EXCEPT !.linked = no] /\ disc[k] = [status |-> s, linked |-> l]
      BY <2>1 DEF FiscalTyped
    <3> HIDE DEF s, l, no
    <3>2. disc'[k] = [status |-> s, linked |-> no]
      BY <3>1
    <3> QED BY <3>2 DEF s
  <2>5. DOMAIN disc' = DOMAIN disc /\ disc' = [k \in DOMAIN disc |-> disc'[k]]
    BY <2>1
  <2> QED BY <2>3, <2>4, <2>5
<1> QED BY <1>1, <1>2

\* A run that detected nothing changes nothing.
LEMMA NothingDetected ==
    ASSUME FiscalAssumption, FiscalInv, Regenerate, RegenerateNone PROVE FiscalInv' /\ DecisionStays
<1>1. gen' = gen + 1 /\ gen < MaxGen /\ UNCHANGED <<home, latest, dets, disc, an, runs, review>>
  BY DEF Regenerate, RegenerateNone
<1>2. FiscalTyped'
  <2>1. gen \in 0..MaxGen /\ MaxGen \in Nat
    BY DEF FiscalInv, AnalysisInv, FiscalTyped, FiscalAssumption
  <2>2. gen' \in 0..MaxGen /\ latest' <= gen'
    BY <1>1, <2>1 DEF FiscalInv, AnalysisInv, FiscalTyped
  <2>3. \A d, e \in dets' : d.gen = e.gen /\ d.gen <= gen'
    BY <1>1, <2>1 DEF FiscalInv, AnalysisInv, FiscalTyped, Dets
  <2> QED BY <1>1, <2>2, <2>3 DEF FiscalInv, AnalysisInv, FiscalTyped
<1>3. Recorded' /\ Sighted' /\ Drafted'
  BY <1>1 DEF FiscalInv, AnalysisInv, Recorded, Sighted, Drafted
<1>4. TotalIsStored' /\ StaleOnlyByHold' /\ DemolishedOnlyByReplacement'
  BY <1>1 DEF FiscalInv, AnalysisInv, TotalIsStored, StaleOnlyByHold, DemolishedOnlyByReplacement, Linked
<1>5. ReviewInv' /\ DecisionStays
  BY <1>1, ReviewStays DEF FiscalInv, DecisionStays
<1> QED BY <1>2, <1>3, <1>4, <1>5 DEF FiscalInv, AnalysisInv

LEMMA RegenerateInv == ASSUME FiscalAssumption, FiscalInv, Regenerate PROVE FiscalInv' /\ DecisionStays
<1> SUFFICES ASSUME RegenerateSome PROVE FiscalInv' /\ DecisionStays
  BY NothingDetected DEF Regenerate
<1> USE DEF FiscalInv, AnalysisInv
<1>1. PICK kept \in SUBSET Buildings : Replace(kept)
  BY DEF RegenerateSome
<1>2. gen < MaxGen /\ gen' = gen + 1 /\ latest' = gen + 1 /\ UNCHANGED <<home, runs, review>> /\ gen \in 0..MaxGen /\ MaxGen \in Nat
  BY DEF Regenerate, RegenerateSome, FiscalTyped, FiscalAssumption
<1>3. /\ DOMAIN disc' = DOMAIN disc /\ disc' = [k \in DOMAIN disc |-> disc'[k]]
      /\ \A k \in DOMAIN disc : disc'[k].status = disc[k].status
                  /\ disc'[k] = [status |-> disc'[k].status, linked |-> disc'[k].linked]
      /\ dets' \subseteq Dets
      /\ \/ /\ UNCHANGED <<dets, disc>> /\ home = "tenant" /\ \E k \in DOMAIN disc : Linked(k)
         \/ \A d \in dets' : d.gen = gen + 1
  BY <1>1, <1>2, ReplaceEffect
<1>4. an' \in [Analyses -> Analysis]
      /\ \A a \in Analyses :
             /\ an'[a].pc = an[a].pc /\ an'[a].there = an[a].there /\ an'[a].seen = an[a].seen
             /\ an'[a].matched = an[a].matched /\ an'[a].drafts = an[a].drafts /\ an'[a].todo = an[a].todo
             /\ an'[a].replaced = (an[a].replaced \/ an[a].pc = "cross")
  <2>1. ASSUME NEW a \in Analyses
        PROVE  /\ an'[a] \in Analysis
               /\ an'[a].pc = an[a].pc /\ an'[a].there = an[a].there /\ an'[a].seen = an[a].seen
               /\ an'[a].matched = an[a].matched /\ an'[a].drafts = an[a].drafts /\ an'[a].todo = an[a].todo
               /\ an'[a].replaced = (an[a].replaced \/ an[a].pc = "cross")
    <3> DEFINE w == an[a].replaced \/ an[a].pc = "cross"
    <3>1. an'[a] = [an[a] EXCEPT !.replaced = w] /\ an[a] \in Analysis
      BY DEF RegenerateSome, FiscalTyped
    <3>2. w \in BOOLEAN
      BY Zenon
    <3> HIDE DEF w
    <3>3. /\ an'[a] \in Analysis
          /\ an'[a].pc = an[a].pc /\ an'[a].there = an[a].there /\ an'[a].seen = an[a].seen
          /\ an'[a].matched = an[a].matched /\ an'[a].drafts = an[a].drafts /\ an'[a].todo = an[a].todo
          /\ an'[a].replaced = w
      BY <3>1, <3>2 DEF Analysis
    <3> QED BY <3>3 DEF w
  <2> QED BY <2>1 DEF RegenerateSome
<1>5. FiscalTyped'
  <2>1. \A d, e \in dets' : d.gen = e.gen /\ d.gen <= gen'
    BY <1>2, <1>3 DEF FiscalTyped, Dets
  <2> QED BY <1>2, <1>3, <1>4, <2>1 DEF FiscalTyped
<1>6. Recorded'
  BY <1>2, <1>3, <1>4 DEF Recorded, FiscalTyped
<1>7. Sighted'
  <2> SUFFICES ASSUME NEW a \in Analyses
               PROVE  /\ an'[a].matched \subseteq an'[a].seen
                      /\ an'[a].pc = "idle" => an'[a].there = {} /\ an'[a].drafts = {} /\ an'[a].matched = {}
                      /\ ~(an'[a].pc = "cross" /\ ~an'[a].replaced)
    BY DEF Sighted
  <2> QED BY <1>4 DEF Sighted
<1>8. Drafted'
  BY <1>4 DEF Drafted
<1>9. TotalIsStored'
  BY <1>2, <1>3 DEF TotalIsStored
<1>10. StaleOnlyByHold'
  BY <1>2, <1>3 DEF StaleOnlyByHold, Linked
<1>11. DemolishedOnlyByReplacement'
  <2>1. \A k \in DOMAIN disc : k.run \in Analyses
    BY DEF Recorded, FiscalTyped
  <2> QED BY <1>3, <1>4, <2>1 DEF DemolishedOnlyByReplacement
<1>12. ReviewInv' /\ DecisionStays
  BY <1>2, <1>3, ReviewStays DEF DecisionStays
<1> QED BY <1>5, <1>6, <1>7, <1>8, <1>9, <1>10, <1>11, <1>12

\* A step of one analysis that stores nothing.
LEMMA AnalysisStep ==
    ASSUME FiscalInv, NEW a \in Analyses, NEW rec \in Analysis, Set(a, rec),
           UNCHANGED <<home, gen, latest, dets, disc, runs, review>>,
           an[a].pc # "done", rec.replaced = an[a].replaced, rec.matched \subseteq rec.seen,
           rec.pc # "idle",
           rec.pc = "cross" /\ ~rec.replaced => rec.there = {} \/ (rec.seen = rec.there /\ dets = rec.there),
           \A k \in rec.drafts : k.run = a /\ (k.type = "demolished" =>
                  rec.replaced \/ \A d \in rec.there : k.parcel \notin Hits[d.building])
    PROVE  FiscalInv' /\ DecisionStays
<1> USE DEF FiscalInv, AnalysisInv
<1>1. an' \in [Analyses -> Analysis] /\ an'[a] = rec /\ \A b \in Analyses \ {a} : an'[b] = an[b]
  BY DEF Set, FiscalTyped
<1>2. a \notin DOMAIN runs
  BY DEF Recorded
<1>3. FiscalTyped' /\ Recorded'
  BY <1>1, <1>2 DEF FiscalTyped, Recorded
<1>4. Sighted' /\ Drafted'
  BY <1>1 DEF Sighted, Drafted
<1>5. TotalIsStored' /\ StaleOnlyByHold'
  BY DEF TotalIsStored, StaleOnlyByHold, Linked
<1>6. DemolishedOnlyByReplacement'
  <2>1. \A k \in DOMAIN disc : k.run \in Analyses \ {a}
    BY <1>2 DEF Recorded, FiscalTyped
  <2> QED BY <1>1, <2>1 DEF DemolishedOnlyByReplacement
<1>7. ReviewInv' /\ DecisionStays
  BY ReviewStays DEF DecisionStays
<1> QED BY <1>3, <1>4, <1>5, <1>6, <1>7

LEMMA ReadInv == ASSUME FiscalAssumption, FiscalInv, NEW a \in Analyses, Read(a) PROVE FiscalInv' /\ DecisionStays
<1>1. /\ an[a] \in Analysis /\ an[a].pc = "idle" /\ an[a].there = {} /\ an[a].drafts = {} /\ an[a].matched = {}
      /\ dets \subseteq Dets /\ UNCHANGED <<home, gen, latest, dets, disc, runs, review>>
  BY DEF Read, FiscalInv, AnalysisInv, FiscalTyped, Sighted
<1>2. CASE Set(a, [an[a] EXCEPT !.pc = "cross", !.there = dets, !.seen = dets, !.todo = Parcels])
  <2> DEFINE rec == [an[a] EXCEPT !.pc = "cross", !.there = dets, !.seen = dets, !.todo = Parcels]
  <2>1. /\ rec \in Analysis /\ rec.pc = "cross" /\ rec.there = dets /\ rec.seen = dets
        /\ rec.drafts = {} /\ rec.matched = {} /\ rec.replaced = an[a].replaced
    BY <1>1 DEF Analysis
  <2>2. Set(a, rec)
    BY <1>2
  <2> HIDE DEF rec
  <2> QED BY <1>1, <2>1, <2>2, AnalysisStep
<1>3. CASE Set(a, [an[a] EXCEPT !.pc = "cross", !.aborted = TRUE])
  <2> DEFINE rec == [an[a] EXCEPT !.pc = "cross", !.aborted = TRUE]
  <2>1. /\ rec \in Analysis /\ rec.pc = "cross" /\ rec.there = {} /\ rec.drafts = {} /\ rec.matched = {}
        /\ rec.replaced = an[a].replaced
    BY <1>1 DEF Analysis
  <2>2. Set(a, rec)
    BY <1>3
  <2> HIDE DEF rec
  <2> QED BY <1>1, <2>1, <2>2, AnalysisStep
<1> QED BY <1>2, <1>3 DEF Read

LEMMA KeyFields ==
    ASSUME NEW a, NEW type, NEW p, NEW d
    PROVE  Key(a, type, p, d).run = a /\ Key(a, type, p, d).type = type
           /\ Key(a, type, p, d).parcel = p /\ Key(a, type, p, d).det = d
  BY DEF Key

LEMMA KeyTyped ==
    ASSUME NEW a \in Analyses, NEW type \in {"under_declared", "over_declared", "height", "demolished", "unregistered"},
           NEW p \in Parcels \cup {"none"}, NEW d \in Dets \cup {None}
    PROVE  Key(a, type, p, d) \in Discrepancies
  BY DEF Key, Discrepancies

LEMMA CrossInv ==
    ASSUME FiscalAssumption, FiscalInv, NEW a \in Analyses, NEW p \in Parcels, Cross(a, p)
    PROVE  FiscalInv' /\ DecisionStays
<1>1. /\ an[a] \in Analysis /\ an[a].pc = "cross" /\ an[a].matched \subseteq an[a].seen /\ an[a].seen \subseteq Dets
      /\ ~an[a].replaced => an[a].there = {} \/ (an[a].seen = an[a].there /\ dets = an[a].there)
      /\ UNCHANGED <<home, gen, latest, dets, disc, runs, review>>
  BY DEF Cross, FiscalInv, AnalysisInv, FiscalTyped, Sighted, Analysis
<1>2. \A k \in an[a].drafts : k \in Discrepancies /\ k.run = a /\ (k.type = "demolished" =>
          an[a].replaced \/ \A d \in an[a].there : k.parcel \notin Hits[d.building])
  BY <1>1 DEF FiscalInv, AnalysisInv, Drafted, Analysis
<1>3. CASE Matches(a, p) = {}
      /\ Set(a, [an[a] EXCEPT !.todo = @ \ {p}, !.drafts = @ \cup
                 (IF p \in Built THEN {Key(a, "demolished", p, None)} ELSE {})])
  <2> DEFINE more == an[a].drafts \cup (IF p \in Built THEN {Key(a, "demolished", p, None)} ELSE {})
             left == an[a].todo \ {p}
             rec == [an[a] EXCEPT !.todo = left, !.drafts = more]
  <2>1. more \subseteq Discrepancies /\ left \subseteq Parcels
    BY <1>1, <1>2, KeyTyped DEF Analysis
  <2>2. Set(a, rec)
    BY <1>3
  <2>3. \A k \in more : k.run = a /\ (k.type = "demolished" =>
          an[a].replaced \/ \A d \in an[a].there : k.parcel \notin Hits[d.building])
    <3>1. ~an[a].replaced => \A d \in an[a].there : p \notin Hits[d.building]
      BY <1>1, <1>3 DEF Matches
    <3> QED BY <1>2, <3>1, KeyFields
  <2> HIDE DEF more, left
  <2>4. /\ rec \in Analysis /\ rec.pc = "cross" /\ rec.there = an[a].there /\ rec.seen = an[a].seen
        /\ rec.drafts = more /\ rec.matched = an[a].matched /\ rec.replaced = an[a].replaced
    BY <1>1, <2>1 DEF Analysis
  <2> HIDE DEF rec
  <2> QED BY <1>1, <2>2, <2>3, <2>4, AnalysisStep
<1>4. ASSUME NEW best \in Matches(a, p),
             Set(a, [an[a] EXCEPT !.todo = @ \ {p}, !.matched = @ \cup {best},
                     !.drafts = @ \cup {Key(a, type, p, best) : type \in Verdict[best.building][p]}])
      PROVE  FiscalInv' /\ DecisionStays
  <2> DEFINE more == an[a].drafts \cup {Key(a, type, p, best) : type \in Verdict[best.building][p]}
             left == an[a].todo \ {p}
             taken == an[a].matched \cup {best}
             rec == [an[a] EXCEPT !.todo = left, !.matched = taken, !.drafts = more]
  <2>1. best \in an[a].seen /\ best \in Dets
        /\ \A type \in Verdict[best.building][p] : type \in {"under_declared", "over_declared", "height"}
    BY <1>1, <1>4 DEF Matches, Dets, FiscalAssumption
  <2>2. more \subseteq Discrepancies /\ left \subseteq Parcels /\ taken \subseteq an[a].seen
    BY <1>1, <1>2, <2>1, KeyTyped DEF Analysis
  <2>3. Set(a, rec)
    BY <1>4
  <2>4. \A k \in more : k.run = a /\ (k.type = "demolished" =>
          an[a].replaced \/ \A d \in an[a].there : k.parcel \notin Hits[d.building])
    BY <1>2, <2>1, KeyFields
  <2> HIDE DEF more, left, taken
  <2>5. /\ rec \in Analysis /\ rec.pc = "cross" /\ rec.there = an[a].there /\ rec.seen = an[a].seen
        /\ rec.drafts = more /\ rec.matched = taken /\ rec.replaced = an[a].replaced
    BY <1>1, <2>2 DEF Analysis
  <2> HIDE DEF rec
  <2> QED BY <1>1, <2>2, <2>3, <2>4, <2>5, AnalysisStep
<1> QED BY <1>3, <1>4 DEF Cross

\* What an analysis stores is its own, and true.
LEMMA FoundIsTrue ==
    ASSUME FiscalInv, NEW a \in Analyses
    PROVE  \A k \in Found(a) : k \in Discrepancies /\ k.run = a /\ (k.type = "demolished" =>
               an[a].replaced \/ \A d \in an[a].there : k.parcel \notin Hits[d.building])
<1>1. an[a] \in Analysis
  BY DEF FiscalInv, AnalysisInv, FiscalTyped
<1>2. ASSUME NEW k \in an[a].drafts
      PROVE  k \in Discrepancies /\ k.run = a /\ (k.type = "demolished" =>
               an[a].replaced \/ \A d \in an[a].there : k.parcel \notin Hits[d.building])
  BY <1>1 DEF FiscalInv, AnalysisInv, Drafted, Analysis
<1>3. ASSUME NEW d \in an[a].seen
      PROVE  /\ Key(a, "unregistered", "none", d) \in Discrepancies
             /\ Key(a, "unregistered", "none", d).run = a
             /\ Key(a, "unregistered", "none", d).type = "unregistered"
  <2>1. d \in Dets
    BY <1>1 DEF Analysis
  <2> QED BY <2>1, KeyTyped, KeyFields
<1> QED BY <1>2, <1>3 DEF Found

LEMMA PersistInv == ASSUME FiscalAssumption, FiscalInv, NEW a \in Analyses, Persist(a) PROVE FiscalInv' /\ DecisionStays
<1>1. /\ an[a] \in Analysis /\ an[a].pc = "cross" /\ UNCHANGED <<home, gen, latest, dets, review>>
      /\ an[a].matched \subseteq an[a].seen
  BY DEF Persist, Crossed, FiscalInv, AnalysisInv, FiscalTyped, Sighted
<1>2. \A k \in an[a].drafts : k.run = a /\ (k.type = "demolished" =>
          an[a].replaced \/ \A d \in an[a].there : k.parcel \notin Hits[d.building])
  BY DEF FiscalInv, AnalysisInv, Drafted
<1>3. CASE ~(~an[a].aborted /\ \A k \in Found(a) : Referable(k))
  <2> DEFINE rec == [an[a] EXCEPT !.pc = "failed"]
  <2>1. /\ rec \in Analysis /\ rec.pc = "failed" /\ rec.there = an[a].there /\ rec.seen = an[a].seen
        /\ rec.drafts = an[a].drafts /\ rec.matched = an[a].matched /\ rec.replaced = an[a].replaced
    BY <1>1 DEF Analysis
  <2>2. Set(a, rec) /\ UNCHANGED <<disc, runs>>
    BY <1>3 DEF Persist
  <2> HIDE DEF rec
  <2> QED BY <1>1, <1>2, <2>1, <2>2, AnalysisStep
<1>4. CASE ~an[a].aborted /\ \A k \in Found(a) : Referable(k)
  <2> USE DEF FiscalInv, AnalysisInv
  <2> DEFINE rec == [an[a] EXCEPT !.pc = "done"]
             keys == Found(a)
  <2>1. /\ rec \in Analysis /\ rec.pc = "done" /\ rec.there = an[a].there /\ rec.seen = an[a].seen
        /\ rec.drafts = an[a].drafts /\ rec.matched = an[a].matched /\ rec.replaced = an[a].replaced
    BY <1>1 DEF Analysis
  <2>2. /\ Set(a, rec) /\ Store(keys)
        /\ runs' = [b \in DOMAIN runs \cup {a} |-> IF b = a THEN Cardinality(keys) ELSE runs[b]]
    BY <1>4 DEF Persist
  <2>3. a \notin DOMAIN runs /\ \A k \in DOMAIN disc : k.run # a
    BY <1>1 DEF Recorded
  <2>4. \A k \in keys : k \in Discrepancies /\ k.run = a /\ k \notin DOMAIN disc /\ (k.type = "demolished" =>
            an[a].replaced \/ \A d \in an[a].there : k.parcel \notin Hits[d.building])
    BY <2>3, FoundIsTrue
  <2> HIDE DEF rec, keys
  <2>5. an' \in [Analyses -> Analysis] /\ an'[a] = rec /\ \A b \in Analyses \ {a} : an'[b] = an[b]
    BY <2>1, <2>2 DEF Set, FiscalTyped
  <2>6. /\ DOMAIN disc' = DOMAIN disc \cup keys /\ disc' = [k \in DOMAIN disc' |-> disc'[k]]
        /\ \A k \in DOMAIN disc : disc'[k] = disc[k]
        /\ \A k \in keys : disc'[k] = [status |-> "pending", linked |-> disc'[k].linked] /\ disc'[k].status = "pending"
    <3>1. disc' = [k \in DOMAIN disc \cup keys |->
                     IF k \in keys THEN [status |-> "pending", linked |-> k.det # None] ELSE disc[k]]
      BY <2>2 DEF Store
    <3> QED BY <2>4, <3>1
  <2>7. DOMAIN runs' = DOMAIN runs \cup {a} /\ runs'[a] = Cardinality(keys) /\ \A b \in DOMAIN runs : runs'[b] = runs[b]
    BY <2>2, <2>3
  <2>8. FiscalTyped'
    <3>1. DOMAIN disc' \subseteq Discrepancies /\ DOMAIN runs' \subseteq Analyses
      BY <2>4, <2>6, <2>7 DEF FiscalTyped
    <3>2. \A k \in DOMAIN disc' : disc'[k] = [status |-> disc'[k].status, linked |-> disc'[k].linked]
                                  /\ disc'[k].status \in Statuses
      BY <2>6 DEF FiscalTyped, Statuses
    <3> QED BY <1>1, <2>5, <2>6, <3>1, <3>2 DEF FiscalTyped
  <2>9. Recorded' /\ Sighted' /\ Drafted'
    BY <1>1, <1>2, <2>1, <2>4, <2>5, <2>6, <2>7 DEF Recorded, Sighted, Drafted, FiscalTyped
  <2>10. TotalIsStored'
    <3>1. {k \in DOMAIN disc' : k.run = a} = keys
      BY <2>3, <2>4, <2>6
    <3>2. ASSUME NEW b \in DOMAIN runs
          PROVE  {k \in DOMAIN disc' : k.run = b} = {k \in DOMAIN disc : k.run = b}
      BY <2>3, <2>4, <2>6
    <3> QED BY <2>7, <3>1, <3>2 DEF TotalIsStored
  <2>11. StaleOnlyByHold'
    BY <1>1, <2>6 DEF StaleOnlyByHold, Linked
  <2>12. DemolishedOnlyByReplacement'
    <3>1. \A k \in DOMAIN disc : k.run \in Analyses \ {a}
      BY <2>3 DEF Recorded, FiscalTyped
    <3> QED BY <2>1, <2>4, <2>5, <2>6, <3>1 DEF DemolishedOnlyByReplacement
  <2>13. ReviewInv' /\ DecisionStays
    BY <1>1, <2>6, ReviewStays DEF DecisionStays
  <2> QED BY <2>8, <2>9, <2>10, <2>11, <2>12, <2>13
<1> QED BY <1>3, <1>4

-----------------------------------------------------------------------------
\* A step of a reviewer that at most gives discrepancies a new status.
LEMMA StatusStep ==
    ASSUME AnalysisInv, UNCHANGED <<home, gen, latest, dets, analysis>>,
           DOMAIN disc' = DOMAIN disc, disc' = [k \in DOMAIN disc |-> disc'[k]],
           \A k \in DOMAIN disc : /\ disc'[k] = [status |-> disc'[k].status, linked |-> disc[k].linked]
                                  /\ disc'[k].status \in Statuses
    PROVE  AnalysisInv'
<1> USE DEF AnalysisInv, analysis
<1>1. \A k \in DOMAIN disc : disc'[k].linked = disc[k].linked
  OBVIOUS
<1>2. FiscalTyped' /\ Recorded' /\ Sighted' /\ Drafted'
  BY <1>1 DEF FiscalTyped, Recorded, Sighted, Drafted
<1>3. TotalIsStored' /\ StaleOnlyByHold' /\ DemolishedOnlyByReplacement'
  BY <1>1 DEF TotalIsStored, StaleOnlyByHold, DemolishedOnlyByReplacement, Linked
<1> QED BY <1>2, <1>3

\* One discrepancy gets a status.
LEMMA StatusEffect ==
    ASSUME AnalysisInv, NEW k \in DOMAIN disc, NEW status \in Statuses \ {"pending"},
           disc' = [disc EXCEPT ![k].status = status]
    PROVE  /\ DOMAIN disc' = DOMAIN disc /\ disc' = [j \in DOMAIN disc |-> disc'[j]]
           /\ \A j \in DOMAIN disc :
                  /\ disc'[j] = [status |-> disc'[j].status, linked |-> disc[j].linked]
                  /\ disc'[j].status \in Statuses
                  /\ disc[j].status # "pending" => disc'[j].status # "pending"
           /\ disc'[k].status # "pending"
<1>1. /\ DOMAIN disc' = DOMAIN disc /\ disc' = [j \in DOMAIN disc |-> disc'[j]]
      /\ disc'[k] = [disc[k] EXCEPT !.status = status]
      /\ \A j \in DOMAIN disc \ {k} : disc'[j] = disc[j]
  BY DEF AnalysisInv, FiscalTyped
<1> DEFINE s == disc[k].status  l == disc[k].linked
<1>2. disc[k] = [status |-> s, linked |-> l]
  BY DEF AnalysisInv, FiscalTyped
<1> HIDE DEF s, l
<1>3. disc'[k] = [status |-> status, linked |-> l]
  BY <1>1, <1>2
<1>4. disc'[k] = [status |-> status, linked |-> disc[k].linked] /\ disc'[k].status = status
  BY <1>3 DEF l
<1>5. ASSUME NEW j \in DOMAIN disc
      PROVE  /\ disc'[j] = [status |-> disc'[j].status, linked |-> disc[j].linked]
             /\ disc'[j].status \in Statuses
             /\ disc[j].status # "pending" => disc'[j].status # "pending"
  <2>1. CASE j = k
    BY <1>4, <2>1
  <2>2. CASE j # k
    <3>1. disc'[j] = disc[j]
      BY <1>1, <2>2
    <3> QED BY <3>1 DEF AnalysisInv, FiscalTyped
  <2> QED BY <2>1, <2>2
<1> QED BY <1>1, <1>4, <1>5

LEMMA CheckInv == ASSUME FiscalInv, NEW r \in Reviewers, Check(r) PROVE FiscalInv' /\ DecisionStays
<1>1. PICK k \in DOMAIN disc, op \in {"approve", "reject", "schedule"} :
          disc[k].status \in Allowed(op) /\ Ask(r, op, k)
  BY DEF Check
<1>2. /\ req[r].pc = "idle" /\ UNCHANGED <<home, gen, latest, dets, disc, analysis, decided>>
      /\ req' = [req EXCEPT ![r] = [pc |-> "update", op |-> op, key |-> k]]
      /\ overlap' = overlap \cup UNION {{<<r, q>>, <<q, r>>} : q \in {q \in Reviewers : Busy(q)}}
      /\ k \in Discrepancies
  BY <1>1 DEF Check, Ask, FiscalInv, AnalysisInv, FiscalTyped
<1> DEFINE ask == [pc |-> "update", op |-> op, key |-> k]
<1>3. ask \in Requests /\ ask.pc = "update" /\ ask.op = op /\ ask.key = k
  BY <1>2 DEF Requests
<1> HIDE DEF ask
<1>4. req' \in [Reviewers -> Requests] /\ req'[r] = ask /\ \A q \in Reviewers \ {r} : req'[q] = req[q]
  BY <1>2, <1>3 DEF FiscalInv, ReviewInv, ask
<1>5. op \in {"approve", "reject"} => \A x \in decided : x[1] # k
  BY <1>1 DEF FiscalInv, ReviewInv, Allowed
<1>6. overlap \subseteq overlap' /\ \A q \in Reviewers : Busy(q) => <<r, q>> \in overlap' /\ <<q, r>> \in overlap'
  BY <1>2
<1>7. ReviewInv'
  <2>1. \A q \in Reviewers : Busy(q)' <=> (Busy(q) \/ q = r)
    BY <1>3, <1>4 DEF Busy
  <2>2. \A q, u \in Reviewers : q # u /\ Busy(q)' /\ Busy(u)' => <<q, u>> \in overlap'
    BY <1>6, <2>1 DEF FiscalInv, ReviewInv
  <2>3. ASSUME NEW q \in Reviewers, NEW x \in decided, Deciding(q)', x[1] = req'[q].key, x[2] # q
        PROVE  <<q, x[2]>> \in overlap' /\ <<x[2], q>> \in overlap'
    <3>1. CASE q = r
      BY <1>3, <1>4, <1>5, <2>3, <3>1 DEF Deciding
    <3>2. CASE q # r
      BY <1>4, <1>6, <2>3, <3>2 DEF FiscalInv, ReviewInv, Deciding, Busy
    <3> QED BY <3>1, <3>2
  <2>4. \A q \in Reviewers : Busy(q)' => req'[q].key \in DOMAIN disc
    BY <1>3, <1>4 DEF FiscalInv, ReviewInv, Busy
  <2>5. TwoVerdictsOnlyByOverlap'
    BY <1>2, <1>6 DEF FiscalInv, ReviewInv, TwoVerdictsOnlyByOverlap
  <2> QED BY <1>2, <1>4, <2>2, <2>3, <2>4, <2>5 DEF FiscalInv, ReviewInv
<1>8. AnalysisInv' /\ DecisionStays
  BY <1>2, StatusStep DEF FiscalInv, AnalysisInv, FiscalTyped, DecisionStays
<1> QED BY <1>7, <1>8 DEF FiscalInv

\* A request ends; when it decided, its discrepancy is not pending any more.
LEMMA RequestEnds ==
    ASSUME FiscalInv, NEW r \in Reviewers, Busy(r), req' = [req EXCEPT ![r].pc = "done"],
           UNCHANGED overlap, DOMAIN disc' = DOMAIN disc,
           \A k \in DOMAIN disc : disc[k].status # "pending" => disc'[k].status # "pending",
           \/ decided' = decided
           \/ /\ decided' = decided \cup {<<req[r].key, r>>} /\ Deciding(r)
              /\ disc'[req[r].key].status # "pending"
    PROVE  ReviewInv'
<1> DEFINE new == <<req[r].key, r>>
<1>1. req[r] \in Requests /\ req[r].key \in DOMAIN disc
  BY DEF FiscalInv, ReviewInv
<1>2. /\ req' \in [Reviewers -> Requests] /\ req'[r].pc = "done" /\ \A q \in Reviewers \ {r} : req'[q] = req[q]
  BY <1>1 DEF FiscalInv, ReviewInv, Requests
<1>3. \A q \in Reviewers : Busy(q)' => q # r /\ Busy(q) /\ req'[q] = req[q]
  BY <1>2 DEF Busy
<1>4. new[1] = req[r].key /\ new[2] = r
  OBVIOUS
<1>5. decided' = decided \/ (decided' = decided \cup {new} /\ Deciding(r) /\ disc'[new[1]].status # "pending")
  BY <1>4
<1> HIDE DEF new
<1>6. \A x \in decided' : x[1] \in DOMAIN disc' /\ x[2] \in Reviewers /\ disc'[x[1]].status # "pending"
  BY <1>1, <1>4, <1>5 DEF FiscalInv, ReviewInv
<1>7. ASSUME NEW q \in Reviewers, NEW x \in decided', Deciding(q)', x[1] = req'[q].key, x[2] # q
      PROVE  <<q, x[2]>> \in overlap' /\ <<x[2], q>> \in overlap'
  <2>1. q # r /\ Busy(q) /\ req'[q] = req[q] /\ Deciding(q)
    BY <1>3, <1>7 DEF Deciding
  <2>2. CASE x \in decided
    BY <1>7, <2>1, <2>2 DEF FiscalInv, ReviewInv
  <2>3. CASE x = new
    BY <1>4, <2>1, <2>3 DEF FiscalInv, ReviewInv
  <2> QED BY <1>5, <2>2, <2>3
<1>8. ASSUME NEW x \in decided', NEW y \in decided', x[1] = y[1], x[2] # y[2]
      PROVE  <<x[2], y[2]>> \in overlap'
  <2>1. CASE x \in decided /\ y \in decided
    BY <1>8, <2>1 DEF FiscalInv, ReviewInv, TwoVerdictsOnlyByOverlap
  <2>2. CASE x = new /\ y \in decided /\ Deciding(r)
    BY <1>4, <1>8, <2>2 DEF FiscalInv, ReviewInv
  <2>3. CASE y = new /\ x \in decided /\ Deciding(r)
    BY <1>4, <1>8, <2>3 DEF FiscalInv, ReviewInv
  <2> QED BY <1>5, <1>8, <2>1, <2>2, <2>3
<1>9. /\ \A q \in Reviewers : Busy(q)' => req'[q].key \in DOMAIN disc'
      /\ \A q, u \in Reviewers : q # u /\ Busy(q)' /\ Busy(u)' => <<q, u>> \in overlap'
  BY <1>3 DEF FiscalInv, ReviewInv
<1> QED BY <1>2, <1>6, <1>7, <1>8, <1>9 DEF ReviewInv, TwoVerdictsOnlyByOverlap

LEMMA DecideInv ==
    ASSUME FiscalInv, NEW r \in Reviewers, NEW status \in Statuses \ {"pending"},
           NEW ops \in {{"approve"}, {"reject"}, {"schedule"}}, Decide(r, status, ops)
    PROVE  FiscalInv' /\ DecisionStays
<1>1. /\ Busy(r) /\ req[r].op \in ops /\ req' = [req EXCEPT ![r].pc = "done"]
      /\ UNCHANGED <<home, gen, latest, dets, analysis, overlap>> /\ req[r].key \in DOMAIN disc
  BY DEF Decide, Busy, FiscalInv, ReviewInv
<1>2. CASE home = "tenant"
  <2>1. UNCHANGED <<disc, decided>>
    BY <1>2 DEF Decide
  <2>2. ReviewInv'
    BY <1>1, <2>1, RequestEnds
  <2>3. AnalysisInv' /\ DecisionStays
    BY <1>1, <2>1, StatusStep DEF FiscalInv, AnalysisInv, FiscalTyped, DecisionStays
  <2> QED BY <2>2, <2>3 DEF FiscalInv
<1>3. CASE home # "tenant"
  <2>1. /\ disc' = [disc EXCEPT ![req[r].key].status = status]
        /\ decided' = IF "schedule" \in ops THEN decided ELSE decided \cup {<<req[r].key, r>>}
    BY <1>3 DEF Decide
  <2>2. /\ DOMAIN disc' = DOMAIN disc /\ disc' = [j \in DOMAIN disc |-> disc'[j]]
        /\ \A j \in DOMAIN disc :
               /\ disc'[j] = [status |-> disc'[j].status, linked |-> disc[j].linked]
               /\ disc'[j].status \in Statuses
               /\ disc[j].status # "pending" => disc'[j].status # "pending"
        /\ disc'[req[r].key].status # "pending"
    BY <1>1, <2>1, StatusEffect DEF FiscalInv
  <2>3. decided' = decided \/ (decided' = decided \cup {<<req[r].key, r>>} /\ Deciding(r))
    BY <1>1, <2>1 DEF Deciding
  <2>4. ReviewInv'
    BY <1>1, <2>2, <2>3, RequestEnds
  <2>5. AnalysisInv' /\ DecisionStays
    BY <1>1, <2>2, StatusStep DEF FiscalInv, DecisionStays
  <2> QED BY <2>4, <2>5 DEF FiscalInv
<1> QED BY <1>2, <1>3

LEMMA NotStoredInv == ASSUME FiscalInv, NEW r \in Reviewers, ApproveNotStored(r) PROVE FiscalInv' /\ DecisionStays
<1>1. /\ Busy(r) /\ req' = [req EXCEPT ![r].pc = "done"]
      /\ UNCHANGED <<home, gen, latest, dets, disc, analysis, decided, overlap>>
  BY DEF ApproveNotStored, Busy
<1>2. ReviewInv'
  BY <1>1, RequestEnds
<1>3. AnalysisInv' /\ DecisionStays
  BY <1>1, StatusStep DEF FiscalInv, AnalysisInv, FiscalTyped, DecisionStays
<1> QED BY <1>2, <1>3 DEF FiscalInv

LEMMA InspectionInv == ASSUME FiscalInv, NEW r \in Reviewers, RecordInspection(r) PROVE FiscalInv' /\ DecisionStays
<1>1. PICK k \in DOMAIN disc, status \in {"approved", "rejected", "inspected"} :
          /\ disc' = [disc EXCEPT ![k].status = status]
          /\ req' = [req EXCEPT ![r] = [pc |-> "done", op |-> "inspect", key |-> k]]
  BY DEF RecordInspection
<1>2. UNCHANGED <<home, gen, latest, dets, analysis, decided, overlap>> /\ k \in Discrepancies
      /\ status \in Statuses \ {"pending"}
  BY DEF RecordInspection, FiscalInv, AnalysisInv, FiscalTyped, Statuses
<1>3. /\ DOMAIN disc' = DOMAIN disc /\ disc' = [j \in DOMAIN disc |-> disc'[j]]
      /\ \A j \in DOMAIN disc :
             /\ disc'[j] = [status |-> disc'[j].status, linked |-> disc[j].linked]
             /\ disc'[j].status \in Statuses
             /\ disc[j].status # "pending" => disc'[j].status # "pending"
  BY <1>1, <1>2, StatusEffect DEF FiscalInv
<1>4. AnalysisInv' /\ DecisionStays
  BY <1>2, <1>3, StatusStep DEF FiscalInv, DecisionStays
<1>5. req' \in [Reviewers -> Requests] /\ req'[r].pc = "done" /\ \A q \in Reviewers \ {r} : req'[q] = req[q]
  BY <1>1, <1>2 DEF FiscalInv, ReviewInv, Requests
<1>6. \A q \in Reviewers : Busy(q)' => Busy(q) /\ req'[q] = req[q]
  BY <1>5 DEF Busy
<1>7. ReviewInv'
  BY <1>2, <1>3, <1>5, <1>6 DEF FiscalInv, ReviewInv, Deciding, TwoVerdictsOnlyByOverlap
<1> QED BY <1>4, <1>7 DEF FiscalInv

LEMMA FiscalStep == ASSUME FiscalAssumption, FiscalInv, [Next]_vars PROVE FiscalInv' /\ (Next => DecisionStays)
<1>1. CASE UNCHANGED vars
  <2>1. UNCHANGED <<home, gen, latest, dets, disc, analysis, review>>
    BY <1>1 DEF vars
  <2>2. AnalysisInv' /\ ReviewInv' /\ DecisionStays
    BY <2>1, StatusStep, ReviewStays DEF FiscalInv, AnalysisInv, FiscalTyped, DecisionStays
  <2> QED BY <2>2 DEF FiscalInv
<1>2. ASSUME NEW r \in Reviewers, Approve(r) \/ Reject(r) \/ Schedule(r) PROVE FiscalInv' /\ DecisionStays
  BY <1>2, DecideInv DEF Approve, Reject, Schedule, Statuses
<1> QED BY <1>1, <1>2, RegenerateInv, ReadInv, CrossInv, PersistInv, CheckInv, NotStoredInv, InspectionInv DEF Next

\* iptu_malha_fina.py:32-308: for any buildings, parcels, analyses and runs of the post-processing
\* under them, the total of a run is what it has stored, no detection of an earlier generation is
\* left but by a discrepancy that holds it, and no parcel is declared demolished under a building.
THEOREM AnalysesAreTrue == ASSUME FiscalAssumption PROVE Spec => []AnalysisIsTrue
<1>1. Init => FiscalInv
  BY FiscalInitInv
<1>2. FiscalInv /\ [Next]_vars => FiscalInv'
  BY FiscalStep
<1>3. FiscalInv => AnalysisIsTrue
  BY DEF FiscalInv, AnalysisInv, FiscalTyped, Recorded, Sighted, ReviewInv, Analysis, AnalysisIsTrue, FiscalTypeOK
<1> QED BY <1>1, <1>2, <1>3, PTL DEF Spec

\* discrepancies.py:340-447: two reviewers approve or reject one discrepancy only when their
\* requests overlapped, whatever else goes on.
THEOREM VerdictsOnlyByOverlap == ASSUME FiscalAssumption PROVE Spec => []TwoVerdictsOnlyByOverlap
<1>1. Init => FiscalInv
  BY FiscalInitInv
<1>2. FiscalInv /\ [Next]_vars => FiscalInv'
  BY FiscalStep
<1>3. FiscalInv => TwoVerdictsOnlyByOverlap
  BY DEF FiscalInv, ReviewInv
<1> QED BY <1>1, <1>2, <1>3, PTL DEF Spec

\* No analysis and no run of the post-processing takes a decided discrepancy away or reopens it.
THEOREM DecisionsStay == ASSUME FiscalAssumption PROVE Spec => DecisionsKept
<1>1. Init => FiscalInv
  BY FiscalInitInv
<1>2. FiscalInv /\ [Next]_vars => FiscalInv' /\ [DecisionStays]_vars
  BY FiscalStep
<1> QED BY <1>1, <1>2, PTL DEF Spec, DecisionsKept

-----------------------------------------------------------------------------
(* The AI pipeline (AiPipeline). *)

Task ==
    [delivery : Nat, source : Sources \cup {"none"}, label : Sources, found : BOOLEAN, next : Nat,
     pc : {"vision", "ml", "heuristic", "terrain", "rows", "run", "survey", "measure", "score", "done", "error"}]

AiTyped ==
    /\ mode \in {"local", "hybrid", "groq"} /\ detector \in {"ml", "heuristic"}
    /\ task \in Task /\ task.delivery \in 1..MaxDeliveries /\ task.next \in 1..Features
    /\ faults \in 0..MaxFaults
    /\ \A r \in finds : r.source \in Sources /\ r.delivery \in Nat /\ r.delivery <= task.delivery

Detecting == {"vision", "ml", "heuristic"}

\* The detectors come before what is found, and the name a task has got is that of a detector
\* which found it, or which found nothing.
Named ==
    /\ task.pc \in Detecting => ~task.found
    /\ task.pc = "rows" => task.found
    /\ task.found => task.source \in Sources
    /\ task.label # (IF task.found THEN task.source ELSE "heuristic") => <<task.delivery, task.label>> \in empty
    /\ task.pc = "vision" => task.label = "heuristic"

\* Past the vision model a task that asked for it has its answer, of nothing at least.
VisionAnswered ==
    mode = "groq" /\ enabled /\ (task.pc \in {"ml", "heuristic"} \/ (task.found /\ task.source # "groq")) =>
        <<task.delivery, "groq">> \in empty

\* The run of the delivery under way is there from its insertion on, and what has been measured
\* of it so far.
Measured ==
    /\ task.pc \notin {"rows", "measure", "done", "error"} => task.next = 1
    /\ \A u \in aiRuns : u = [delivery |-> u.delivery, scored |-> u.scored, total |-> u.total]
                         /\ u.delivery \in Nat /\ u.delivery <= task.delivery
    /\ \A u \in aiRuns : u.delivery = task.delivery =>
           /\ task.pc \in {"survey", "measure", "score", "done"}
           /\ u.total = IF task.found THEN Features ELSE 0
    /\ task.pc = "measure" => task.found
    /\ task.pc \in {"measure", "score"} => task.delivery \in surveyed
    /\ task.pc = "measure" => \A k \in 1 .. task.next - 1 : <<task.delivery, k>> \in measured
    /\ task.pc = "score" /\ task.found => \A k \in 1..Features : <<task.delivery, k>> \in measured

AiInv == AiTyped /\ Named /\ VisionAnswered /\ Measured
         /\ WrongLabelOnlyAfterNothing /\ GroqFailureIsNotReplaced /\ ScoredIsWhole

LEMMA FreshTask ==
    ASSUME AiAssumption, NEW n \in Nat
    PROVE  /\ Fresh(n) \in Task /\ Fresh(n).delivery = n /\ Fresh(n).pc = "vision" /\ Fresh(n).next = 1
           /\ Fresh(n).label = "heuristic" /\ Fresh(n).found = FALSE /\ Fresh(n).source = "none"
  BY DEF Fresh, Task, Sources

LEMMA AiInitInv == ASSUME AiAssumption, AiInit PROVE AiInv
<1>1. /\ task \in Task /\ task.delivery = 1 /\ task.pc = "vision" /\ task.next = 1
      /\ task.label = "heuristic" /\ task.found = FALSE /\ task.source = "none"
  BY FreshTask DEF AiInit
<1> QED BY <1>1 DEF AiInit, AiInv, AiTyped, Named, VisionAnswered, Measured, Detecting, AiAssumption,
           WrongLabelOnlyAfterNothing, GroqFailureIsNotReplaced, ScoredIsWhole, Sources

\* A step of the task alone: how it may move on before anything is stored, and after.
LEMMA StepTask ==
    ASSUME AiInv, NEW pc \in {"vision", "ml", "heuristic", "terrain", "rows", "run", "survey", "measure", "score", "done", "error"}, Step(pc)
    PROVE  /\ task' \in Task /\ task'.pc = pc /\ task'.delivery = task.delivery /\ task'.next = task.next
           /\ task'.source = task.source /\ task'.label = task.label /\ task'.found = task.found
  BY DEF Step, AiInv, AiTyped, Task

LEMMA AnswersTask ==
    ASSUME AiInv, NEW source \in Sources, Answers(source, "terrain")
    PROVE  /\ task' \in Task /\ task'.pc = "terrain" /\ task'.delivery = task.delivery /\ task'.next = task.next
           /\ task'.source = source /\ task'.label = source /\ task'.found = TRUE
           /\ UNCHANGED <<empty, faults>>
  BY DEF Answers, AiInv, AiTyped, Task

LEMMA NothingTask ==
    ASSUME AiInv, NEW source \in Sources, NEW next \in {"ml", "heuristic"}, Nothing(source, next)
    PROVE  /\ task' \in Task /\ task'.pc = next /\ task'.delivery = task.delivery /\ task'.next = task.next
           /\ task'.source = task.source /\ task'.label = source /\ task'.found = task.found
           /\ empty' = empty \cup {<<task.delivery, source>>} /\ UNCHANGED faults
  BY DEF Nothing, AiInv, AiTyped, Task

\* Everything stored stays what it was while only the task and the answers of nothing change.
LEMMA StoredStays ==
    ASSUME AiInv, UNCHANGED <<settings, stored>>, empty \subseteq empty', task' \in Task,
           task'.delivery = task.delivery, task'.next \in 1..Features, faults' \in 0..MaxFaults,
           Named', VisionAnswered', Measured'
    PROVE  AiInv'
<1>1. AiTyped'
  BY DEF AiInv, AiTyped, settings, stored
<1>2. WrongLabelOnlyAfterNothing' /\ GroqFailureIsNotReplaced' /\ ScoredIsWhole'
  BY DEF AiInv, WrongLabelOnlyAfterNothing, GroqFailureIsNotReplaced, ScoredIsWhole, settings, stored
<1> QED BY <1>1, <1>2 DEF AiInv

\* Before the measurement run is inserted, a delivery has none.
LEMMA BeforeRun ==
    ASSUME AiInv, UNCHANGED stored, task'.delivery = task.delivery,
           task.pc \notin {"survey", "measure", "score", "done"}, task'.pc \notin {"survey", "measure", "score"},
           task'.next = 1 \/ task'.pc \in {"rows", "error"}
    PROVE  Measured'
  BY DEF AiInv, Measured, stored

LEMMA VisionInv == ASSUME AiAssumption, AiInv, Vision PROVE AiInv'
<1>1. task.pc = "vision" /\ UNCHANGED <<settings, stored>> /\ task.next = 1 /\ ~task.found
      /\ task.label = "heuristic" /\ 1 \in 1..Features
  BY DEF Vision, AiInv, Named, Measured, Detecting, AiAssumption
<1>2. CASE ~UseGroq /\ Step("ml") /\ UNCHANGED <<empty, faults>>
  <2>1. Named' /\ VisionAnswered' /\ Measured'
    BY <1>1, <1>2, StepTask, BeforeRun DEF AiInv, AiTyped, Named, VisionAnswered, Detecting, UseGroq, settings
  <2> QED BY <1>1, <1>2, <2>1, StepTask, StoredStays DEF AiInv, AiTyped
<1>3. CASE UseGroq /\ Answers("groq", "terrain")
  <2>1. /\ task' \in Task /\ task'.pc = "terrain" /\ task'.delivery = task.delivery /\ task'.next = task.next
        /\ task'.source = "groq" /\ task'.label = "groq" /\ task'.found = TRUE
        /\ UNCHANGED <<empty, faults>>
    BY <1>3, AnswersTask DEF Sources
  <2>2. Measured'
    BY <1>1, <2>1, BeforeRun
  <2>3. Named' /\ VisionAnswered'
    BY <2>1 DEF Named, VisionAnswered, Detecting, Sources
  <2> QED BY <1>1, <2>1, <2>2, <2>3, StoredStays DEF AiInv, AiTyped
<1>4. CASE UseGroq /\ Nothing("groq", "ml")
  <2>1. /\ task' \in Task /\ task'.pc = "ml" /\ task'.delivery = task.delivery /\ task'.next = task.next
        /\ task'.source = task.source /\ task'.label = "groq" /\ task'.found = task.found
        /\ empty' = empty \cup {<<task.delivery, "groq">>} /\ UNCHANGED faults
    <3>1. "groq" \in Sources /\ "ml" \in {"ml", "heuristic"} /\ Nothing("groq", "ml")
      BY <1>4 DEF Sources
    <3> QED BY <3>1, NothingTask
  <2>2. Measured'
    BY <1>1, <2>1, BeforeRun
  <2>3. Named' /\ VisionAnswered'
    BY <1>1, <2>1 DEF Named, VisionAnswered, Detecting
  <2> QED BY <1>1, <2>1, <2>2, <2>3, StoredStays DEF AiInv, AiTyped
<1>5. CASE UseGroq /\ Fault /\ Step(IF mode = "groq" THEN "error" ELSE "ml") /\ UNCHANGED empty
  <2>1. faults' \in 0..MaxFaults
    BY <1>5 DEF Fault, AiInv, AiTyped, AiAssumption
  <2>2. Named' /\ VisionAnswered' /\ Measured'
    BY <1>1, <1>5, StepTask, BeforeRun DEF AiInv, AiTyped, Named, VisionAnswered, Detecting, settings
  <2> QED BY <1>1, <1>5, <2>1, <2>2, StepTask, StoredStays DEF AiInv, AiTyped
<1> QED BY <1>1, <1>2, <1>3, <1>4, <1>5 DEF Vision

LEMMA MlInv == ASSUME AiAssumption, AiInv, Ml PROVE AiInv'
<1>1. task.pc = "ml" /\ UNCHANGED <<settings, stored>> /\ task.next = 1 /\ ~task.found /\ 1 \in 1..Features
  BY DEF Ml, AiInv, Named, Measured, Detecting, AiAssumption
<1>2. ASSUME Step("heuristic"), UNCHANGED empty, faults' \in 0..MaxFaults PROVE AiInv'
  <2>1. Named' /\ VisionAnswered' /\ Measured'
    BY <1>1, <1>2, StepTask, BeforeRun DEF AiInv, AiTyped, Named, VisionAnswered, Detecting, settings
  <2> QED BY <1>1, <1>2, <2>1, StepTask, StoredStays DEF AiInv, AiTyped
<1>3. CASE Answers("ml", "terrain")
  <2>1. /\ task' \in Task /\ task'.pc = "terrain" /\ task'.delivery = task.delivery /\ task'.next = task.next
        /\ task'.source = "ml" /\ task'.label = "ml" /\ task'.found = TRUE
        /\ UNCHANGED <<empty, faults>>
    BY <1>3, AnswersTask DEF Sources
  <2>2. Measured'
    BY <1>1, <2>1, BeforeRun
  <2>3. Named' /\ VisionAnswered'
    BY <1>1, <2>1 DEF AiInv, Named, VisionAnswered, Detecting, Sources, settings
  <2> QED BY <1>1, <2>1, <2>2, <2>3, StoredStays DEF AiInv, AiTyped
<1>4. CASE Nothing("ml", "heuristic")
  <2>1. /\ task' \in Task /\ task'.pc = "heuristic" /\ task'.delivery = task.delivery /\ task'.next = task.next
        /\ task'.source = task.source /\ task'.label = "ml" /\ task'.found = task.found
        /\ empty' = empty \cup {<<task.delivery, "ml">>} /\ UNCHANGED faults
    <3>1. "ml" \in Sources /\ "heuristic" \in {"ml", "heuristic"} /\ Nothing("ml", "heuristic")
      BY <1>4 DEF Sources
    <3> QED BY <3>1, NothingTask
  <2>2. Measured'
    BY <1>1, <2>1, BeforeRun
  <2>3. Named' /\ VisionAnswered'
    BY <1>1, <2>1 DEF AiInv, Named, VisionAnswered, Detecting, settings
  <2> QED BY <1>1, <2>1, <2>2, <2>3, StoredStays DEF AiInv, AiTyped
<1>5. Fault => faults' \in 0..MaxFaults
  BY DEF Fault, AiInv, AiTyped, AiAssumption
<1> QED BY <1>1, <1>2, <1>3, <1>4, <1>5 DEF Ml, AiInv, AiTyped

LEMMA HeuristicInv == ASSUME AiAssumption, AiInv, Heuristic PROVE AiInv'
<1>1. /\ task.pc = "heuristic" /\ UNCHANGED <<settings, stored, empty>> /\ task.next = 1 /\ ~task.found
      /\ 1 \in 1..Features /\ task \in Task
  BY DEF Heuristic, AiInv, AiTyped, Named, Measured, Detecting, AiAssumption
<1>2. Fault => faults' \in 0..MaxFaults
  BY DEF Fault, AiInv, AiTyped, AiAssumption
<1>3. CASE task' = [task EXCEPT !.pc = "terrain", !.source = "heuristic", !.found = TRUE] /\ UNCHANGED faults
  <2>1. /\ task' \in Task /\ task'.pc = "terrain" /\ task'.delivery = task.delivery /\ task'.next = task.next
        /\ task'.source = "heuristic" /\ task'.label = task.label /\ task'.found = TRUE
    BY <1>1, <1>3 DEF Task, Sources
  <2>2. Named' /\ VisionAnswered' /\ Measured'
    BY <1>1, <2>1, BeforeRun DEF AiInv, AiTyped, Named, VisionAnswered, Detecting, Sources, settings
  <2> QED BY <1>1, <1>3, <2>1, <2>2, StoredStays DEF AiInv, AiTyped
<1>4. ASSUME NEW pc \in {"terrain", "error"}, Step(pc), faults' \in 0..MaxFaults PROVE AiInv'
  <2>1. Named' /\ VisionAnswered' /\ Measured'
    BY <1>1, <1>4, StepTask, BeforeRun DEF AiInv, AiTyped, Named, VisionAnswered, Detecting, settings
  <2> QED BY <1>1, <1>4, <2>1, StepTask, StoredStays DEF AiInv, AiTyped
<1> QED BY <1>1, <1>2, <1>3, <1>4 DEF Heuristic, AiInv, AiTyped

LEMMA TerrainInv == ASSUME AiAssumption, AiInv, Terrain PROVE AiInv'
<1>1. /\ task.pc = "terrain" /\ UNCHANGED <<settings, stored, empty>> /\ task.next = 1
      /\ 1 \in 1..Features /\ task \in Task
  BY DEF Terrain, AiInv, AiTyped, Measured, AiAssumption
<1>2. Fault => faults' \in 0..MaxFaults
  BY DEF Fault, AiInv, AiTyped, AiAssumption
<1>3. ASSUME NEW pc \in {"rows", "run", "error"}, Step(pc), pc = "rows" => task.found, faults' \in 0..MaxFaults
      PROVE  AiInv'
  <2>1. Named' /\ VisionAnswered' /\ Measured'
    BY <1>1, <1>3, StepTask, BeforeRun DEF AiInv, AiTyped, Named, VisionAnswered, Detecting, settings
  <2> QED BY <1>1, <1>3, <2>1, StepTask, StoredStays DEF AiInv, AiTyped
<1> QED BY <1>1, <1>2, <1>3 DEF Terrain, AiInv, AiTyped

\* The next row, or the step after the last.
LEMMA AdvanceTask ==
    ASSUME AiAssumption, AiInv,
           NEW pc \in {"rows", "measure"}, NEW after \in {"run", "score"}, Advance(pc, after)
    PROVE  /\ task' \in Task /\ task'.delivery = task.delivery /\ task'.source = task.source
           /\ task'.label = task.label /\ task'.found = task.found /\ task'.next \in 1..Features
           /\ \/ task.next = Features /\ task'.pc = after /\ task'.next = 1
              \/ task'.pc = pc /\ task'.next = task.next + 1
<1>1. task \in Task /\ task.next \in 1..Features /\ Features \in Nat \ {0}
  BY DEF AiInv, AiTyped, AiAssumption
<1>2. CASE task.next = Features
  <2>1. task' = [task EXCEPT !.pc = after, !.next = 1] /\ 1 \in 1..Features
    BY <1>1, <1>2 DEF Advance
  <2>2. /\ task' \in Task /\ task'.delivery = task.delivery /\ task'.source = task.source
        /\ task'.label = task.label /\ task'.found = task.found /\ task'.next = 1 /\ task'.pc = after
    BY <1>1, <2>1 DEF Task
  <2> QED BY <1>2, <2>1, <2>2
<1>3. CASE task.next # Features
  <2>1. task' = [task EXCEPT !.pc = pc, !.next = task.next + 1] /\ task.next + 1 \in 1..Features
    BY <1>1, <1>3 DEF Advance
  <2>2. task.next + 1 \in Nat
    BY <1>1
  <2> DEFINE n == task.next + 1
  <2> HIDE DEF n
  <2>3. task' = [task EXCEPT !.pc = pc, !.next = n] /\ n \in Nat
    BY <2>1, <2>2 DEF n
  <2>4. /\ task' \in Task /\ task'.delivery = task.delivery /\ task'.source = task.source
        /\ task'.label = task.label /\ task'.found = task.found /\ task'.next = n /\ task'.pc = pc
    BY <1>1, <2>3 DEF Task
  <2> QED BY <2>1, <2>4 DEF n
<1> QED BY <1>2, <1>3

LEMMA WriteDetectionInv == ASSUME AiAssumption, AiInv, WriteDetection PROVE AiInv'
<1> DEFINE row == [delivery |-> task.delivery, k |-> task.next, source |-> task.source, label |-> task.label]
<1>1. /\ task.pc = "rows" /\ UNCHANGED <<settings, aiRuns, measured, surveyed, empty>>
      /\ finds' \subseteq finds \cup {row} /\ Advance("rows", "run") /\ faults' \in 0..MaxFaults
  BY DEF WriteDetection, Fault, AiInv, AiTyped, AiAssumption
<1>2. row.delivery = task.delivery /\ row.source = task.source /\ row.label = task.label
  OBVIOUS
<1> HIDE DEF row
<1>3. /\ task' \in Task /\ task'.delivery = task.delivery /\ task'.source = task.source
      /\ task'.label = task.label /\ task'.found = task.found /\ task'.next \in 1..Features
      /\ task'.pc \in {"rows", "run"} /\ (task'.pc = "run" => task'.next = 1)
  BY <1>1, AdvanceTask
<1>4. task.found /\ task.source \in Sources
  BY <1>1 DEF AiInv, Named
<1>5. AiTyped'
  BY <1>1, <1>2, <1>3, <1>4 DEF AiInv, AiTyped, settings, Task
<1>6. Named' /\ VisionAnswered'
  BY <1>1, <1>3, <1>4 DEF AiInv, Named, VisionAnswered, Detecting, settings
<1>7. Measured' /\ ScoredIsWhole'
  BY <1>1, <1>3 DEF AiInv, Measured, ScoredIsWhole
<1>8. WrongLabelOnlyAfterNothing' /\ GroqFailureIsNotReplaced'
  BY <1>1, <1>2, <1>4 DEF AiInv, Named, VisionAnswered, WrongLabelOnlyAfterNothing, GroqFailureIsNotReplaced, settings
<1> QED BY <1>5, <1>6, <1>7, <1>8 DEF AiInv

\* The steps of the measurement leave the detections and their names alone.
LEMMA NamesStay ==
    ASSUME AiInv, UNCHANGED <<settings, finds, empty>>, task' \in Task, task'.delivery = task.delivery,
           task'.source = task.source, task'.label = task.label, task'.found = task.found,
           task'.next \in 1..Features, task'.pc \notin Detecting \cup {"rows"}, faults' \in 0..MaxFaults
    PROVE  AiTyped' /\ Named' /\ VisionAnswered' /\ WrongLabelOnlyAfterNothing' /\ GroqFailureIsNotReplaced'
  BY DEF AiInv, AiTyped, Named, VisionAnswered, Detecting, WrongLabelOnlyAfterNothing,
         GroqFailureIsNotReplaced, settings

LEMMA InsertRunInv == ASSUME AiAssumption, AiInv, InsertRun PROVE AiInv'
<1> DEFINE run == [delivery |-> task.delivery, scored |-> FALSE, total |-> IF task.found THEN Features ELSE 0]
<1>1. /\ task.pc = "run" /\ UNCHANGED <<settings, finds, measured, surveyed, empty>> /\ faults' \in 0..MaxFaults
      /\ \/ aiRuns' = aiRuns \cup {run} /\ Step("survey")
         \/ aiRuns' = aiRuns /\ Step("done")
  BY DEF InsertRun, Fault, AiInv, AiTyped, AiAssumption
<1>2. /\ run.delivery = task.delivery /\ run.scored = FALSE /\ run.total = IF task.found THEN Features ELSE 0
      /\ run = [delivery |-> run.delivery, scored |-> run.scored, total |-> run.total]
  OBVIOUS
<1> HIDE DEF run
<1>3. /\ task' \in Task /\ task'.delivery = task.delivery /\ task'.source = task.source
      /\ task'.label = task.label /\ task'.found = task.found /\ task'.next = task.next
      /\ task'.pc \in {"survey", "done"} /\ task.next \in 1..Features /\ task.delivery \in Nat
  BY <1>1, StepTask DEF AiInv, AiTyped, Task
<1>4. Measured'
  BY <1>1, <1>2, <1>3 DEF AiInv, Measured
<1>5. ScoredIsWhole'
  BY <1>1, <1>2 DEF AiInv, ScoredIsWhole
<1> QED BY <1>1, <1>3, <1>4, <1>5, NamesStay DEF AiInv, Detecting

LEMMA MeasureTerrainInv == ASSUME AiAssumption, AiInv, MeasureTerrain PROVE AiInv'
<1>1. /\ task.pc = "survey" /\ UNCHANGED <<settings, finds, aiRuns, measured, empty>> /\ faults' \in 0..MaxFaults
      /\ \/ surveyed' = surveyed \cup {task.delivery} /\ Step(IF task.found THEN "measure" ELSE "score")
         \/ surveyed' = surveyed /\ Step("done")
  BY DEF MeasureTerrain, Fault, AiInv, AiTyped, AiAssumption
<1>2. /\ task' \in Task /\ task'.delivery = task.delivery /\ task'.source = task.source
      /\ task'.label = task.label /\ task'.found = task.found /\ task'.next = task.next
      /\ task.next \in 1..Features
      /\ \/ task'.pc = "done"
         \/ task'.pc = (IF task.found THEN "measure" ELSE "score") /\ surveyed' = surveyed \cup {task.delivery}
  BY <1>1, StepTask DEF AiInv, AiTyped
<1>3. Measured'
  BY <1>1, <1>2 DEF AiInv, Measured
<1>4. ScoredIsWhole'
  BY <1>1 DEF AiInv, ScoredIsWhole
<1> QED BY <1>1, <1>2, <1>3, <1>4, NamesStay DEF AiInv, Detecting

LEMMA MeasureBuildingInv == ASSUME AiAssumption, AiInv, MeasureBuilding PROVE AiInv'
<1>1. /\ task.pc = "measure" /\ UNCHANGED <<settings, finds, aiRuns, surveyed, empty>> /\ faults' \in 0..MaxFaults
      /\ \/ measured' = measured \cup {<<task.delivery, task.next>>} /\ Advance("measure", "score")
         \/ measured' = measured /\ Step("done")
  BY DEF MeasureBuilding, Fault, AiInv, AiTyped, AiAssumption
<1>2. /\ task' \in Task /\ task'.delivery = task.delivery /\ task'.source = task.source
      /\ task'.label = task.label /\ task'.found = task.found /\ task'.next \in 1..Features
      /\ task.next \in 1..Features
      /\ \/ task'.pc = "done"
         \/ /\ measured' = measured \cup {<<task.delivery, task.next>>}
            /\ \/ task.next = Features /\ task'.pc = "score" /\ task'.next = 1
               \/ task'.pc = "measure" /\ task'.next = task.next + 1
  BY <1>1, StepTask, AdvanceTask DEF AiInv, AiTyped
<1>3. measured \subseteq measured' /\ task.found /\ task.delivery \in surveyed
      /\ \A k \in 1 .. task.next - 1 : <<task.delivery, k>> \in measured
  BY <1>1 DEF AiInv, Measured
<1>4. ASSUME task'.pc # "done", NEW k \in 1 .. task.next PROVE <<task.delivery, k>> \in measured'
  <2>1. CASE k = task.next
    BY <1>2, <1>4, <2>1
  <2>2. CASE k # task.next
    BY <1>2, <1>3, <2>2
  <2> QED BY <2>1, <2>2
<1>5. Measured'
  <2>1. \A u \in aiRuns : u.delivery \in Nat /\ u.delivery <= task.delivery
    BY DEF AiInv, Measured
  <2>2. task'.pc = "measure" => \A k \in 1 .. task'.next - 1 : <<task.delivery, k>> \in measured'
    BY <1>2, <1>4
  <2>3. task'.pc = "score" => \A k \in 1..Features : <<task.delivery, k>> \in measured'
    BY <1>2, <1>4
  <2> QED BY <1>1, <1>2, <1>3, <2>1, <2>2, <2>3 DEF AiInv, Measured
<1>6. ScoredIsWhole'
  BY <1>1, <1>3 DEF AiInv, ScoredIsWhole
<1> QED BY <1>1, <1>2, <1>5, <1>6, NamesStay DEF AiInv, Detecting

LEMMA ScoreInv == ASSUME AiAssumption, AiInv, Score PROVE AiInv'
<1> DEFINE S(u) == IF u.delivery = task.delivery THEN [u EXCEPT !.scored = TRUE] ELSE u
<1>1. /\ task.pc = "score" /\ UNCHANGED <<settings, finds, measured, surveyed, empty>> /\ faults' \in 0..MaxFaults
      /\ aiRuns' = {S(u) : u \in aiRuns} \/ aiRuns' = aiRuns
      /\ Step("done")
  BY DEF Score, Fault, AiInv, AiTyped, AiAssumption
<1>2. /\ task' \in Task /\ task'.delivery = task.delivery /\ task'.source = task.source
      /\ task'.label = task.label /\ task'.found = task.found /\ task'.next = task.next
      /\ task'.pc = "done" /\ task.next \in 1..Features
  BY <1>1, StepTask DEF AiInv, AiTyped
<1>3. ASSUME NEW v \in aiRuns'
      PROVE  \E u \in aiRuns : /\ v.delivery = u.delivery /\ v.total = u.total
                               /\ v = [delivery |-> v.delivery, scored |-> v.scored, total |-> v.total]
                               /\ v.scored => u.scored \/ u.delivery = task.delivery
  <2>1. ASSUME NEW u \in aiRuns
        PROVE  u = [delivery |-> u.delivery, scored |-> u.scored, total |-> u.total]
    BY <2>1 DEF AiInv, Measured
  <2>2. CASE v \in aiRuns
    BY <2>1, <2>2
  <2>3. CASE \E u \in aiRuns : v = S(u)
    <3>1. PICK u \in aiRuns : v = S(u)
      BY <2>3
    <3>2. CASE u.delivery = task.delivery
      <4> DEFINE d == u.delivery  m == u.scored  t == u.total
      <4>1. u = [delivery |-> d, scored |-> m, total |-> t] /\ v = [u EXCEPT !.scored = TRUE]
        BY <2>1, <3>1, <3>2
      <4> HIDE DEF d, m, t
      <4>2. v = [delivery |-> d, scored |-> TRUE, total |-> t]
        BY <4>1
      <4>3. v = [delivery |-> u.delivery, scored |-> TRUE, total |-> u.total]
        BY <4>2 DEF d, t
      <4> QED BY <3>2, <4>3
    <3>3. CASE u.delivery # task.delivery
      BY <2>1, <3>1, <3>3
    <3> QED BY <3>2, <3>3
  <2> QED BY <1>1, <2>2, <2>3
<1>4. Measured'
  <2>1. ASSUME NEW v \in aiRuns'
        PROVE  /\ v = [delivery |-> v.delivery, scored |-> v.scored, total |-> v.total]
               /\ v.delivery \in Nat /\ v.delivery <= task.delivery
               /\ v.delivery = task.delivery => v.total = IF task.found THEN Features ELSE 0
    BY <1>3 DEF AiInv, Measured
  <2> QED BY <1>1, <1>2, <2>1 DEF AiInv, Measured
<1>5. ScoredIsWhole'
  <2> SUFFICES ASSUME NEW v \in aiRuns', v.scored
               PROVE  v.delivery \in surveyed /\ \A k \in 1..v.total : <<v.delivery, k>> \in measured
    BY <1>1 DEF ScoredIsWhole
  <2>1. PICK u \in aiRuns : v.delivery = u.delivery /\ v.total = u.total
                            /\ (u.scored \/ u.delivery = task.delivery)
    BY <1>3
  <2>2. CASE u.scored
    BY <2>1, <2>2 DEF AiInv, ScoredIsWhole
  <2>3. CASE u.delivery = task.delivery
    <3>1. u.total = (IF task.found THEN Features ELSE 0) /\ task.delivery \in surveyed
          /\ (task.found => \A k \in 1..Features : <<task.delivery, k>> \in measured)
      BY <1>1, <2>3 DEF AiInv, Measured
    <3> QED BY <2>1, <2>3, <3>1
  <2> QED BY <2>1, <2>2, <2>3
<1> QED BY <1>1, <1>2, <1>4, <1>5, NamesStay DEF AiInv, Detecting

LEMMA RedeliverInv == ASSUME AiAssumption, AiInv, Redeliver PROVE AiInv'
<1>1. /\ task.delivery \in Nat /\ task.delivery < MaxDeliveries /\ task' = Fresh(task.delivery + 1)
      /\ UNCHANGED <<settings, stored, empty, faults>> /\ MaxDeliveries \in Nat
  BY DEF Redeliver, AiInv, AiTyped, Task, AiAssumption
<1>2. /\ task' \in Task /\ task'.delivery = task.delivery + 1 /\ task'.pc = "vision" /\ task'.next = 1
      /\ task'.label = "heuristic" /\ task'.found = FALSE /\ task'.source = "none"
  <2> DEFINE n == task.delivery + 1
  <2>1. n \in Nat /\ task' = Fresh(n)
    BY <1>1
  <2> HIDE DEF n
  <2>2. /\ task' \in Task /\ task'.delivery = n /\ task'.pc = "vision" /\ task'.next = 1
        /\ task'.label = "heuristic" /\ task'.found = FALSE /\ task'.source = "none"
    BY <2>1, FreshTask
  <2> QED BY <2>2 DEF n
<1>3. AiTyped'
  BY <1>1, <1>2 DEF AiInv, AiTyped, settings, stored, AiAssumption
<1>4. Named' /\ VisionAnswered'
  BY <1>2 DEF Named, VisionAnswered, Detecting
<1>5. Measured'
  BY <1>1, <1>2 DEF AiInv, Measured, stored
<1>6. WrongLabelOnlyAfterNothing' /\ GroqFailureIsNotReplaced' /\ ScoredIsWhole'
  BY <1>1 DEF AiInv, WrongLabelOnlyAfterNothing, GroqFailureIsNotReplaced, ScoredIsWhole, settings, stored
<1> QED BY <1>3, <1>4, <1>5, <1>6 DEF AiInv

LEMMA AiStutter == ASSUME AiInv, UNCHANGED aiVars PROVE AiInv'
  BY DEF AiInv, AiTyped, Named, VisionAnswered, Measured, aiVars,
         WrongLabelOnlyAfterNothing, GroqFailureIsNotReplaced, ScoredIsWhole

\* processing.py:959-1424: for any number of features, deliveries and refused statements, a task
\* stores true names of the models that found its rows, and scores only what is whole.
THEOREM PipelineIsTrue == ASSUME AiAssumption PROVE AiSpec => []AiIsTrue
<1>1. AiInit => AiInv
  BY AiInitInv
<1>2. AiInv /\ [AiNext]_aiVars => AiInv'
  BY VisionInv, MlInv, HeuristicInv, TerrainInv, WriteDetectionInv, InsertRunInv, MeasureTerrainInv,
     MeasureBuildingInv, ScoreInv, RedeliverInv, AiStutter DEF AiNext
<1>3. AiInv => AiIsTrue
  BY DEF AiInv, AiTyped, Task, AiIsTrue, AiTypeOK
<1> QED BY <1>1, <1>2, <1>3, PTL DEF AiSpec

-----------------------------------------------------------------------------
(* The review of the detections (DetectionReview). *)

Verdicts == Judged \cup {"null", "no_data", "weak", "confirmed"}

ReviewTyped ==
    /\ verdict \in [Detections -> Verdicts]
    /\ votes \in [Detections -> BOOLEAN]
    /\ todo \in [Workers -> SUBSET Detections]
    /\ redetections \in Nat

\* Only judges agree, and they leave their votes.
JudgesVoted == \A d \in Detections : verdict[d] \in Judged => votes[d]

VotesInv == ReviewTyped /\ JudgesVoted

LEMMA ReviewInitInv == ReviewInit => VotesInv
  BY DEF ReviewInit, VotesInv, ReviewTyped, JudgesVoted, Verdicts, Judged

LEMMA RedetectInv == ASSUME VotesInv, NEW f \in Flights, Redetect(f) PROVE VotesInv'
  BY DEF VotesInv, ReviewTyped, JudgesVoted, Verdicts, Judged, Redetect, DetectionsOf

LEMMA ValidateInv ==
  ASSUME VotesInv, NEW w \in Workers, ValidateDetections(w)
  PROVE  VotesInv' /\ JudgedIsKept
<1> USE DEF VotesInv, ReviewTyped, JudgesVoted
<1>1. PICK m \in running[w], level \in [todo[w] -> {"no_data", "weak", "confirmed"}] :
         /\ verdict' = [d \in Detections |->
              IF d \notin todo[w] \/ (level[d] # "no_data" /\ KeepsVerdict(d))
              THEN verdict[d] ELSE level[d]]
         /\ Idle(w)
         /\ UNCHANGED <<votes, roof, failures, redetections>>
  BY DEF ValidateDetections, boundVars
<1>2. votes' = votes /\ redetections' = redetections /\ todo' = [todo EXCEPT ![w] = {}]
  BY <1>1 DEF Idle
<1>3. ASSUME NEW d \in Detections
      PROVE  verdict'[d] = verdict[d] \/ verdict'[d] \in {"no_data", "weak", "confirmed"}
  BY <1>1
<1>4. verdict' \in [Detections -> Verdicts]
  BY <1>1, <1>3 DEF Verdicts, Judged
<1>5. VotesInv'
  BY <1>2, <1>3, <1>4 DEF Judged
<1>6. ASSUME NEW d \in Detections, verdict[d] \in Judged, verdict'[d] # verdict[d]
      PROVE  verdict'[d] = "no_data"
  BY <1>1, <1>6 DEF KeepsVerdict
<1> QED BY <1>5, <1>6 DEF JudgedIsKept

LEMMA AdjudicateInv ==
  ASSUME VotesInv, NEW w \in Workers, AdjudicateBatch(w)
  PROVE  VotesInv' /\ JudgedIsKept
<1> USE DEF VotesInv, ReviewTyped, JudgesVoted
<1>1. PICK B \in Batches(w) :
         /\ \E judged \in [B -> {"kept", "confirmed"} \cup Judged] :
                verdict' = [d \in Detections |->
                    IF d \notin B \/ judged[d] = "kept" THEN verdict[d] ELSE judged[d]]
         /\ votes' = [d \in Detections |-> votes[d] \/ d \in B]
         /\ CommitBatch(w, B)
         /\ UNCHANGED <<roof, queue, failures, redetections>>
  BY DEF AdjudicateBatch, boundVars
<1>2. B \subseteq todo[w] /\ redetections' = redetections
  BY <1>1 DEF Batches
<1>3. todo' \in [Workers -> SUBSET Detections]
  BY <1>1, <1>2 DEF CommitBatch, Idle
<1>4. PICK judged \in [B -> {"kept", "confirmed"} \cup Judged] :
         verdict' = [d \in Detections |->
             IF d \notin B \/ judged[d] = "kept" THEN verdict[d] ELSE judged[d]]
  BY <1>1
<1>5. verdict' \in [Detections -> Verdicts]
  BY <1>4 DEF Verdicts, Judged
<1>6. \A d \in Detections : verdict'[d] # verdict[d] => d \in B
  BY <1>4
<1>7. votes' \in [Detections -> BOOLEAN]
  BY <1>1, Zenon
<1>8. VotesInv'
  BY <1>1, <1>2, <1>3, <1>5, <1>6, <1>7
<1> QED BY <1>2, <1>6, <1>8 DEF JudgedIsKept, Adjudicating, AdjudicateBatch

\* The other steps leave the verdicts and the votes as they are.
LEMMA VerdictsStand ==
  ASSUME VotesInv, UNCHANGED <<verdict, votes, redetections>>, todo' \in [Workers -> SUBSET Detections]
  PROVE  VotesInv' /\ JudgedIsKept
  BY DEF VotesInv, ReviewTyped, JudgesVoted, JudgedIsKept

LEMMA QueueInv ==
  ASSUME VotesInv,
         ReanalyzeStaleDetections \/ \E f \in Flights : TriggerDetectionValidation(f)
  PROVE  VotesInv' /\ JudgedIsKept
  BY VerdictsStand DEF VotesInv, ReviewTyped, ReanalyzeStaleDetections,
     TriggerDetectionValidation, rowVars, workVars, boundVars

LEMMA WorkerInv ==
  ASSUME VotesInv, NEW w \in Workers, NEW m,
         \/ AnalyzeRoofsBatch(w) \/ FailTask(w) \/ LoseWorker(w)
         \/ StartTask(w, m)
  PROVE  VotesInv' /\ JudgedIsKept
<1> USE DEF rowVars, workVars, boundVars
<1>1. todo \in [Workers -> SUBSET Detections]
  BY DEF VotesInv, ReviewTyped
<1>2. CASE AnalyzeRoofsBatch(w)
  <2>1. PICK B \in Batches(w) : CommitBatch(w, B)
    BY <1>2 DEF AnalyzeRoofsBatch
  <2>2. todo' \in [Workers -> SUBSET Detections]
    BY <1>1, <2>1 DEF CommitBatch, Idle
  <2> QED BY <1>2, <2>2, VerdictsStand DEF AnalyzeRoofsBatch
<1>3. CASE FailTask(w) \/ LoseWorker(w)
  <2>1. todo' = [todo EXCEPT ![w] = {}] /\ UNCHANGED <<verdict, votes, redetections>>
    BY <1>3 DEF FailTask, LoseWorker, Idle
  <2> QED BY <1>1, <2>1, VerdictsStand
<1>4. CASE StartTask(w, m)
  <2>1. Selected(m) \subseteq Detections
    BY DEF Selected, DetectionsOf
  <2>2. todo' = todo \/ todo' = [todo EXCEPT ![w] = Selected(m)]
    BY <1>4 DEF StartTask
  <2>3. UNCHANGED <<verdict, votes, redetections>>
    BY <1>4 DEF StartTask
  <2> QED BY <1>1, <2>1, <2>2, <2>3, VerdictsStand
<1> QED BY <1>2, <1>3, <1>4

LEMMA ReviewStep == ASSUME VotesInv, ReviewNext PROVE VotesInv' /\ JudgedIsKept
<1>1. CASE \E f \in Flights : Redetect(f)
  <2>1. PICK f \in Flights : Redetect(f)
    BY <1>1
  <2>2. redetections' # redetections
    BY <2>1 DEF Redetect, VotesInv, ReviewTyped
  <2> QED BY <2>1, <2>2, RedetectInv DEF JudgedIsKept
<1>2. CASE \E w \in Workers : ValidateDetections(w) \/ AdjudicateBatch(w)
  BY <1>2, ValidateInv, AdjudicateInv
<1>3. CASE ReanalyzeStaleDetections \/ \E f \in Flights : TriggerDetectionValidation(f)
  BY <1>3, QueueInv
<1>4. CASE \E w \in Workers : \/ AnalyzeRoofsBatch(w) \/ FailTask(w) \/ LoseWorker(w)
                              \/ \E m \in queue : StartTask(w, m)
  BY <1>4, WorkerInv
<1> QED BY <1>1, <1>2, <1>3, <1>4 DEF ReviewNext, WorkStep

LEMMA ReviewInvariant == ReviewSpec => []VotesInv
<1>1. VotesInv /\ UNCHANGED reviewVars => VotesInv'
  BY DEF VotesInv, ReviewTyped, JudgesVoted, reviewVars, rowVars, workVars, boundVars
<1>2. VotesInv /\ [ReviewNext]_reviewVars => VotesInv'
  BY <1>1, ReviewStep
<1> QED BY <1>2, ReviewInitInv, PTL DEF ReviewSpec

\* What the judges agreed on is taken back only by a new detection, by an adjudication, or by a
\* measurement that found no elevation: the guard in the UPDATE of a measurement looks at votes
\* that every agreed verdict has (validate_detections_elevation).
THEOREM VerdictsOfJudgesStay == ReviewSpec => JudgedStays
<1>1. VotesInv /\ [ReviewNext]_reviewVars => [JudgedIsKept]_reviewVars
  BY ReviewStep
<1> QED BY <1>1, ReviewInvariant, PTL DEF ReviewSpec, JudgedStays
=============================================================================
