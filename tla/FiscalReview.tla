----------------------------- MODULE FiscalReview -----------------------------
(***************************************************************************)
(* The fiscal analysis of a project (services/iptu_malha_fina.py), which   *)
(* compares the buildings detected on its orthomosaic with the parcels of  *)
(* the cadastre, and the decisions on the discrepancies it stores          *)
(* (api/v1/discrepancies.py), while a run of the post-processing replaces  *)
(* the detections.                                                         *)
(*                                                                         *)
(* An analysis is one READ COMMITTED transaction: each statement sees the  *)
(* rows committed by then.  A failed SELECT is swallowed as "no rows" but  *)
(* leaves the transaction aborted.  The tables differ with the schema: a   *)
(* tenant's discrepancies hold a detection back from deletion and lack     *)
(* columns every decision writes (SchemaShapes, TenantRecords).            *)
(*                                                                         *)
(* A detection is a building in one generation; geometry is given by Hits  *)
(* (overlap enough to match) and Verdict (areas and heights compared).     *)
(* Left out: amounts, which no decision here reads.                        *)
(* Bounds: Analyses, Reviewers, MaxGen.                                    *)
(***************************************************************************)
EXTENDS Integers, FiniteSets

CONSTANTS
    Buildings, Parcels,
    Hits,       \* building -> the parcels it covers enough to match
    Verdict,    \* building -> parcel -> the types of discrepancy of the match
    Built,      \* the parcels with a registered built area
    Analyses, Reviewers, MaxGen

\* The comparison of a match declares areas and heights only.
FiscalAssumption ==
    /\ Hits \in [Buildings -> SUBSET Parcels]
    /\ Verdict \in [Buildings -> [Parcels -> SUBSET {"under_declared", "over_declared", "height"}]]
    /\ MaxGen \in Nat \ {0}

VARIABLES
    home,       \* "tenant" or "public": the schema of the project
    gen,        \* the runs of the post-processing so far
    latest,     \* history: the last of them that detected anything
    dets,       \* ai_detections: records [gen, building]
    an,         \* the analyses; there: history, the detections when it read
    runs,       \* analysis_runs: analysis -> total_discrepancies, once committed
    disc,       \* discrepancies: key -> [status, linked]
    req,        \* the requests of the reviewers
    decided,    \* history: <<key, reviewer>> of approvals and rejections
    overlap     \* history: pairs of reviewers whose requests overlapped

analysis == <<an, runs>>
review == <<req, decided, overlap>>
vars == <<home, gen, latest, dets, disc, analysis, review>>

None == [gen |-> 0, building |-> "none"]

\* A discrepancy is found by its run, its type, its parcel and its detection.
Key(a, type, p, d) == [run |-> a, type |-> type, parcel |-> p, det |-> d]

Generations(g, found) == {[gen |-> g, building |-> b] : b \in found}

Init ==
    /\ home \in {"tenant", "public"}
    /\ \/ gen = 0 /\ dets = {}
       \/ gen = 1 /\ \E found \in SUBSET Buildings \ {{}} : dets = Generations(1, found)
    /\ latest = gen
    /\ an = [a \in Analyses |-> [pc |-> "idle", there |-> {}, seen |-> {}, todo |-> {}, matched |-> {},
                                 drafts |-> {}, aborted |-> FALSE, replaced |-> FALSE]]
    /\ runs = [a \in {} |-> 0] /\ disc = [k \in {} |-> <<>>]
    /\ req = [r \in Reviewers |-> [pc |-> "idle", op |-> "none", key |-> None]]
    /\ decided = {} /\ overlap = {}

-----------------------------------------------------------------------------
(* _persist_building_detections: the old rows go, the new ones come, in one transaction; a   *)
(* new row that fails does so in a savepoint of its own.                                     *)

Linked(k) == k.det \in dets /\ disc[k].linked

\* In a tenant's schema a discrepancy holds its detection: the DELETE fails and the task only
\* logs it.  In public the reference is set to NULL.
Replace(found) ==
    IF home = "tenant" /\ \E k \in DOMAIN disc : Linked(k)
    THEN UNCHANGED <<dets, disc>>
    ELSE /\ dets' = Generations(gen + 1, found)
         /\ disc' = [k \in DOMAIN disc |-> [disc[k] EXCEPT !.linked = FALSE]]

RegenerateSome ==
    /\ latest' = gen + 1
    /\ \E kept \in SUBSET Buildings : Replace(kept)
    /\ an' = [a \in Analyses |-> [an[a] EXCEPT !.replaced = @ \/ an[a].pc = "cross"]]

\* A run that detected nothing returns before it deletes anything.
RegenerateNone == UNCHANGED <<latest, dets, disc, an>>

Regenerate ==
    /\ gen < MaxGen /\ gen' = gen + 1
    /\ RegenerateSome \/ RegenerateNone
    /\ UNCHANGED <<home, runs, review>>

-----------------------------------------------------------------------------
(* run_analysis                                                                             *)

Set(a, rec) == an' = [an EXCEPT ![a] = rec]

\* A failed read is rolled back before the analysis goes on with no rows.
ReadRolledBack(a) ==
    /\ an[a].pc = "idle"
    /\ \E seen \in {dets, {}} :
         Set(a, [an[a] EXCEPT !.pc = "cross", !.there = dets, !.seen = seen,
                           !.todo = Parcels])
    /\ UNCHANGED <<home, gen, latest, dets, disc, runs, review>>

\* The run row, the detections and the parcels of the project; the read of the detections may
\* fail, and what follows it in the transaction then fails as well, the read of the parcels
\* first of all.
Read(a) ==
    /\ an[a].pc = "idle"
    /\ \/ Set(a, [an[a] EXCEPT !.pc = "cross", !.there = dets, !.seen = dets,
                             !.todo = Parcels])
       \/ Set(a, [an[a] EXCEPT !.pc = "cross", !.aborted = TRUE])
    /\ UNCHANGED <<home, gen, latest, dets, disc, runs, review>>

\* The detection that covers the parcel best, of those read that are still there.
Matches(a, p) == {d \in an[a].seen \cap dets : p \in Hits[d.building]}

Cross(a, p) ==
    /\ an[a].pc = "cross" /\ p \in an[a].todo
    /\ LET rest == [an[a] EXCEPT !.todo = @ \ {p}]
       IN  \/ /\ Matches(a, p) = {}
              /\ Set(a, [rest EXCEPT !.drafts = @ \cup
                     (IF p \in Built THEN {Key(a, "demolished", p, None)} ELSE {})])
           \/ \E best \in Matches(a, p) :
                Set(a, [rest EXCEPT !.matched = @ \cup {best},
                                    !.drafts = @ \cup {Key(a, type, p, best) :
                                                 type \in Verdict[best.building][p]}])
    /\ UNCHANGED <<home, gen, latest, dets, disc, runs, review>>

\* What is stored: the matches and every detection no parcel took.
Found(a) ==
    an[a].drafts \cup {Key(a, "unregistered", "none", d) : d \in an[a].seen \ an[a].matched}

Referable(k) == k.det = None \/ k.det \in dets

Store(keys) ==
    disc' = [k \in DOMAIN disc \cup keys |->
               IF k \in keys THEN [status |-> "pending", linked |-> k.det # None] ELSE disc[k]]

Crossed(a) == an[a].pc = "cross" /\ an[a].todo = {}

\* The new discrepancies take the place of the project's earlier ones.
PersistAfresh(a) ==
    /\ Crossed(a) /\ ~an[a].aborted /\ \A k \in Found(a) : Referable(k)
    /\ disc' = [k \in Found(a) |-> [status |-> "pending", linked |-> k.det # None]]
    /\ runs' = [b \in {a} |-> Cardinality(Found(a))]
    /\ Set(a, [an[a] EXCEPT !.pc = "done"])
    /\ UNCHANGED <<home, gen, latest, dets, review>>

\* All rows, the totals of the run and the commit, or nothing: a detection that is gone, or a
\* transaction that is aborted, fails the analysis.
Persist(a) ==
    /\ Crossed(a)
    /\ IF ~an[a].aborted /\ \A k \in Found(a) : Referable(k)
       THEN /\ Store(Found(a))
            /\ runs' = [b \in DOMAIN runs \cup {a} |->
                          IF b = a THEN Cardinality(Found(a)) ELSE runs[b]]
            /\ Set(a, [an[a] EXCEPT !.pc = "done"])
       ELSE Set(a, [an[a] EXCEPT !.pc = "failed"]) /\ UNCHANGED <<disc, runs>>
    /\ UNCHANGED <<home, gen, latest, dets, review>>

-----------------------------------------------------------------------------
(* Decisions: the status is read in one statement and overwritten in another.               *)

Busy(r) == req[r].pc = "update"

Allowed(op) ==
    CASE op \in {"approve", "reject"} -> {"pending"}
      [] op = "schedule" -> {"pending", "inspection_scheduled"}

Ask(r, op, k) ==
    /\ req' = [req EXCEPT ![r] = [pc |-> "update", op |-> op, key |-> k]]
    /\ overlap' = overlap \cup UNION {{<<r, q>>, <<q, r>>} : q \in {q \in Reviewers : Busy(q)}}

\* Any status is decided again.
CheckNothing(r) ==
    /\ req[r].pc = "idle"
    /\ \E k \in DOMAIN disc, op \in {"approve", "reject", "schedule"} : Ask(r, op, k)
    /\ UNCHANGED <<home, gen, latest, dets, disc, analysis, decided>>

\* The check of the status.
Check(r) ==
    /\ req[r].pc = "idle"
    /\ \E k \in DOMAIN disc, op \in {"approve", "reject", "schedule"} :
         disc[k].status \in Allowed(op) /\ Ask(r, op, k)
    /\ UNCHANGED <<home, gen, latest, dets, disc, analysis, decided>>

Decide(r, status, ops) ==
    /\ req[r].pc = "update" /\ req[r].op \in ops
    /\ req' = [req EXCEPT ![r].pc = "done"]
    /\ IF home = "tenant"
       THEN UNCHANGED <<disc, decided>>   \* no column reviewer_notes: an error
       ELSE /\ disc' = [disc EXCEPT ![req[r].key].status = status]
            /\ decided' = IF "schedule" \in ops THEN decided
                          ELSE decided \cup {<<req[r].key, r>>}
    /\ UNCHANGED <<home, gen, latest, dets, analysis, overlap>>

\* The approval notifies inside its transaction: when that INSERT fails, the COMMIT rolls the
\* approval back and the answer is "approved" all the same.
Approve(r) == Decide(r, "approved", {"approve"})
ApproveNotStored(r) ==
    /\ req[r].pc = "update" /\ req[r].op = "approve"
    /\ req' = [req EXCEPT ![r].pc = "done"]
    /\ UNCHANGED <<home, gen, latest, dets, disc, analysis, decided, overlap>>

Reject(r) == Decide(r, "rejected", {"reject"})
Schedule(r) == Decide(r, "inspection_scheduled", {"schedule"})

\* The result of an inspection is stored whatever the status.
RecordInspection(r) ==
    /\ req[r].pc = "idle" /\ home = "public"
    /\ \E k \in DOMAIN disc, status \in {"approved", "rejected", "inspected"} :
         /\ disc' = [disc EXCEPT ![k].status = status]
         /\ req' = [req EXCEPT ![r] = [pc |-> "done", op |-> "inspect", key |-> k]]
    /\ UNCHANGED <<home, gen, latest, dets, analysis, decided, overlap>>

Next ==
    \/ Regenerate
    \/ \E a \in Analyses : Read(a) \/ Persist(a) \/ \E p \in Parcels : Cross(a, p)
    \/ \E r \in Reviewers : Check(r) \/ Approve(r) \/ ApproveNotStored(r) \/ Reject(r)
                              \/ Schedule(r) \/ RecordInspection(r)

Spec == Init /\ [][Next]_vars

-----------------------------------------------------------------------------
Statuses == {"pending", "approved", "rejected", "inspection_scheduled", "inspected"}

\* The state: detections of one generation, discrepancies of committed runs.
FiscalTypeOK ==
    /\ gen \in 0..MaxGen /\ latest \in 0..gen /\ \A d, e \in dets : d.gen = e.gen /\ d.gen <= gen
    /\ \A k \in DOMAIN disc : k.run \in DOMAIN runs /\ disc[k].status \in Statuses
    /\ \A a \in Analyses : an[a].matched \subseteq an[a].seen /\ an[a].todo \subseteq Parcels
    /\ \A x \in decided : x[1] \in DOMAIN disc /\ x[2] \in Reviewers

\* The total of a run is the number of its discrepancies: the dashboard shows the one, the
\* review queue the other.
TotalIsStored ==
    \A a \in DOMAIN runs : runs[a] = Cardinality({k \in DOMAIN disc : k.run = a})

\* A run of the post-processing that detected anything leaves the detections of an earlier one in
\* place only where a discrepancy of a tenant's schema holds one of them.
StaleOnlyByHold ==
    \A d \in dets : d.gen < latest => home = "tenant" /\ \E k \in DOMAIN disc : Linked(k)

\* A parcel is declared demolished only when no building that was there covers it, unless the
\* detections were replaced under the analysis: a read that failed declares nothing.
DemolishedOnlyByReplacement ==
    \A k \in DOMAIN disc :
        k.type = "demolished" =>
            \/ an[k.run].replaced
            \/ \A d \in an[k.run].there : k.parcel \notin Hits[d.building]

\* What an analysis has stored is whole and true of the detections it was made from.
AnalysisIsTrue ==
    FiscalTypeOK /\ TotalIsStored /\ StaleOnlyByHold /\ DemolishedOnlyByReplacement

\* Two reviewers approve or reject one discrepancy only when their requests overlapped.
TwoVerdictsOnlyByOverlap ==
    \A x, y \in decided : x[1] = y[1] /\ x[2] # y[2] => <<x[2], y[2]>> \in overlap

DecisionStays ==
    \A k \in DOMAIN disc :
        disc[k].status # "pending" => k \in DOMAIN disc' /\ disc'[k].status # "pending"

\* No analysis and no run of the post-processing takes a decided discrepancy away or reopens it.
DecisionsKept == [][DecisionStays]_vars
=============================================================================
