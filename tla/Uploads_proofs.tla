---------------------------- MODULE Uploads_proofs ----------------------------
(* Proofs about ChunkedUpload, for any number of chunks and requests, and about *)
(* ParcelImport, for any imports, lines and parcels.                            *)
EXTENDS ChunkedUpload, ParcelImport, FiniteSetTheorems, WellFoundedInduction, TLAPS

\* Between its composition and its end a complete request knows the object whole.
ComposedWhole ==
    /\ completer \in [Completers -> {"idle", "read", "composed", "dispatched", "failed", "succeeded"}]
    /\ job \in [Completers -> {"none", "queued", "running", "done", "failed"}]
    /\ toRemove \in [Completers -> SUBSET Chunks]
    /\ \A c \in Completers :
          completer[c] \in {"composed", "dispatched", "succeeded"} \/ job[c] # "none"
              => object = Chunks

LEMMA ComposedStep == ComposedWhole /\ [Next]_vars => ComposedWhole'
<1> USE DEF ComposedWhole, rowVars, bucketVars, senderVars, completerVars
<1> SUFFICES ASSUME ComposedWhole, [Next]_vars PROVE ComposedWhole'
  OBVIOUS
<1>1. ASSUME NEW q \in Senders, UploadChunk(q) \/ StorePart(q) \/ CountPart(q) \/ ChunkFails(q)
      PROVE  ComposedWhole'
  BY <1>1 DEF UploadChunk, StorePart, CountPart, ChunkFails
<1>2. ASSUME NEW c \in Completers, CompleteUpload(c) PROVE ComposedWhole'
  BY <1>2 DEF CompleteUpload
<1>3. ASSUME NEW c \in Completers, Compose(c) PROVE ComposedWhole'
  BY <1>3 DEF Compose, PartsNeeded
<1>4. ASSUME NEW c \in Completers, RemovePart(c) PROVE ComposedWhole'
  BY <1>4 DEF RemovePart
<1>5. ASSUME NEW c \in Completers, DispatchJob(c) PROVE ComposedWhole'
  BY <1>5 DEF DispatchJob
<1>6. ASSUME NEW c \in Completers, SaveProcessing(c) PROVE ComposedWhole'
  BY <1>6 DEF SaveProcessing
<1>7. ASSUME NEW c \in Completers, CompleteFails(c) PROVE ComposedWhole'
  BY <1>7 DEF CompleteFails
<1>8. ASSUME NEW c \in Completers, StartJob(c) \/ FinishJob(c) \/ FailJob(c)
      PROVE  ComposedWhole'
  BY <1>8 DEF StartJob, FinishJob, FailJob
<1>9. CASE Expire \/ CleanupExpiredUploads
  BY <1>9 DEF Expire, CleanupExpiredUploads
<1>10. CASE UNCHANGED vars
  BY <1>10 DEF vars
<1> QED
  BY <1>1, <1>2, <1>3, <1>4, <1>5, <1>6, <1>7, <1>8, <1>9, <1>10 DEF Next

\* The row, the bucket and the requests start as init_upload leaves them, and no
\* step of a chunk request, a complete request, a job or the cleanup spoils a
\* composed object.
THEOREM WholeObject == Spec => []JobSeesWholeObject
<1>1. Init => ComposedWhole
  BY DEF Init, ComposedWhole
<1>2. ComposedWhole /\ [Next]_vars => ComposedWhole'
  BY ComposedStep
<1>3. ComposedWhole => JobSeesWholeObject
  BY DEF ComposedWhole, JobSeesWholeObject
<1> QED
  BY <1>1, <1>2, <1>3, PTL DEF Spec

-----------------------------------------------------------------------------
(* One job *)

\* A row that a complete request has left is not 'uploading' again.
LeftBehind ==
    /\ completer \in [Completers -> {"idle", "read", "composed", "dispatched", "failed", "succeeded"}]
    /\ after = [c \in Completers |-> {}]
    /\ Succeeded # {} => status # "uploading"

\* complete_upload reads the row before it dispatches and writes it afterwards: a request that
\* comes after one that has succeeded is refused, and sends no second job.
THEOREM OneJob == Spec => []OneJobUnlessOverlap
<1> USE DEF LeftBehind, Succeeded, rowVars, bucketVars, senderVars, completerVars
<1>1. Init => LeftBehind
  BY DEF Init
<1>2. LeftBehind /\ [Next]_vars => LeftBehind'
  <2> SUFFICES ASSUME LeftBehind, [Next]_vars PROVE LeftBehind'
    OBVIOUS
  <2>1. ASSUME NEW q \in Senders, UploadChunk(q) \/ StorePart(q) \/ CountPart(q) \/ ChunkFails(q)
        PROVE  LeftBehind'
    BY <2>1 DEF UploadChunk, StorePart, CountPart, ChunkFails
  <2>2. ASSUME NEW c \in Completers, CompleteUpload(c) PROVE LeftBehind'
    <3>1. Succeeded = {}
      BY <2>2 DEF CompleteUpload
    <3>2. after' = [after EXCEPT ![c] = {}] /\ status' = status
      BY <2>2, <3>1 DEF CompleteUpload
    <3>3. after' = after
      BY <3>2
    <3> QED BY <2>2, <3>2, <3>3 DEF CompleteUpload
  <2>3. ASSUME NEW c \in Completers,
               Compose(c) \/ RemovePart(c) \/ DispatchJob(c) \/ CompleteFails(c)
        PROVE  LeftBehind'
    BY <2>3 DEF Compose, RemovePart, DispatchJob, CompleteFails
  <2>4. ASSUME NEW c \in Completers, SaveProcessing(c) PROVE LeftBehind'
    BY <2>4 DEF SaveProcessing, Exists
  <2>5. ASSUME NEW c \in Completers, StartJob(c) \/ FinishJob(c) \/ FailJob(c) PROVE LeftBehind'
    BY <2>5 DEF StartJob, FinishJob, FailJob, Exists
  <2>6. CASE Expire \/ CleanupExpiredUploads
    BY <2>6 DEF Expire, CleanupExpiredUploads
  <2>7. CASE UNCHANGED vars
    BY <2>7 DEF vars
  <2> QED BY <2>1, <2>2, <2>3, <2>4, <2>5, <2>6, <2>7 DEF Next
<1>3. LeftBehind => OneJobUnlessOverlap
  BY DEF OneJobUnlessOverlap
<1> QED BY <1>1, <1>2, <1>3, PTL DEF Spec

-----------------------------------------------------------------------------
(* The counter *)

\* What the bucket has of the file.
Have == parts \cup object

Typed ==
    /\ parts \subseteq Numbers /\ object \subseteq Chunks /\ received \in Nat
    /\ sender \in [Senders -> {"idle", "read", "stored", "ended"}]
    /\ index \in [Senders -> Numbers] /\ seen \in [Senders -> Nat]

\* What is there was sent; the row counts no more than what is there; a request on its way
\* has read a count of what is there without its own part.
CountsStored ==
    /\ \A i \in Have : \E q \in Senders : sender[q] # "idle" /\ index[q] = i
    /\ received <= Cardinality(Have)
    /\ \A q \in Senders : sender[q] \in {"read", "stored"} => seen[q] <= Cardinality(Have \ {index[q]})
    /\ \A q \in Senders : sender[q] = "stored" => index[q] \in Have

CountInv == ComposedWhole /\ Typed /\ (NoResend => CountsStored)

LEMMA Sizes ==
    /\ Chunks \subseteq Numbers /\ Cardinality(Chunks) = ChunkCount
    /\ \A S \in SUBSET Chunks : Cardinality(S) >= ChunkCount => S = Chunks
    /\ \A S \in SUBSET Numbers : Cardinality(S) \in Nat
    /\ \A S \in SUBSET Numbers : \A T \in SUBSET S : Cardinality(T) <= Cardinality(S)
    /\ \A S \in SUBSET Numbers : \A i \in S : Cardinality(S \ {i}) + 1 = Cardinality(S)
<1>1. IsFiniteSet(Chunks) /\ Cardinality(Chunks) = ChunkCount
  BY FS_Interval, ChunkedUploadAssumption DEF Chunks
<1>2. IsFiniteSet(Numbers)
  BY <1>1, FS_Union, ChunkedUploadAssumption DEF Numbers
<1>3. ASSUME NEW S \in SUBSET Chunks, Cardinality(S) >= ChunkCount PROVE S = Chunks
  <2>1. IsFiniteSet(S) /\ Cardinality(S) <= ChunkCount /\ (ChunkCount = Cardinality(S) => S = Chunks)
    BY <1>1, FS_Subset
  <2>2. Cardinality(S) \in Nat
    BY <2>1, FS_CardinalityType
  <2> QED BY <1>3, <2>1, <2>2, ChunkedUploadAssumption
<1>4. ASSUME NEW S \in SUBSET Numbers PROVE IsFiniteSet(S) /\ Cardinality(S) \in Nat
  <2>1. IsFiniteSet(S)
    BY <1>2, FS_Subset
  <2> QED BY <2>1, FS_CardinalityType
<1>5. ASSUME NEW S \in SUBSET Numbers, NEW T \in SUBSET S PROVE Cardinality(T) <= Cardinality(S)
  BY <1>4, FS_Subset
<1>6. ASSUME NEW S \in SUBSET Numbers, NEW i \in S PROVE Cardinality(S \ {i}) + 1 = Cardinality(S)
  <2>1. Cardinality(S \ {i}) = Cardinality(S) - 1
    BY <1>4, FS_RemoveElement
  <2> QED BY <1>4, <2>1
<1> QED BY <1>1, <1>3, <1>4, <1>5, <1>6 DEF Numbers

\* Complete requests, the job and the cleanup move the file, and lose nothing of it.
LEMMA FileStays ==
    ASSUME ComposedWhole, Typed, NEW c \in Completers,
           \/ CompleteUpload(c) \/ Compose(c) \/ RemovePart(c) \/ DispatchJob(c) \/ SaveProcessing(c)
           \/ CompleteFails(c) \/ StartJob(c) \/ FinishJob(c) \/ FailJob(c)
    PROVE  Typed' /\ Have' = Have /\ UNCHANGED <<received, senderVars>>
<1> USE DEF Have, Typed, rowVars, bucketVars, senderVars, completerVars
<1>1. CASE Compose(c)
  BY <1>1 DEF Compose, PartsNeeded, Numbers
<1>2. CASE RemovePart(c)
  <2>1. object = Chunks /\ toRemove[c] \subseteq Chunks
    BY <1>2 DEF RemovePart, ComposedWhole
  <2>2. object' = object /\ \E i \in toRemove[c] : parts' \in {parts, parts \ {i}}
    BY <1>2 DEF RemovePart
  <2>3. Have' = Have /\ parts' \subseteq Numbers
    BY <2>1, <2>2
  <2>4. UNCHANGED <<received, senderVars>>
    BY <1>2 DEF RemovePart
  <2> QED BY <2>2, <2>3, <2>4
<1>3. CASE \/ CompleteUpload(c) \/ DispatchJob(c) \/ SaveProcessing(c) \/ CompleteFails(c)
           \/ StartJob(c) \/ FinishJob(c) \/ FailJob(c)
  BY <1>3 DEF CompleteUpload, DispatchJob, SaveProcessing, CompleteFails, StartJob, FinishJob, FailJob
<1> QED BY <1>1, <1>2, <1>3

\* Once two requests have sent the same chunk they have.
LEMMA ResendStays ==
    ASSUME Typed, NEW q \in Senders, NEW step,
           sender[q] = "idle" \/ index' = index,
           sender' = [sender EXCEPT ![q] = step], step # "idle",
           \A p \in Senders \ {q} : index'[p] = index[p],
           NoResend'
    PROVE  NoResend
  BY DEF Typed, NoResend

LEMMA CountStep == CountInv /\ [Next]_vars => CountInv'
<1> SUFFICES ASSUME CountInv, [Next]_vars PROVE CountInv'
  OBVIOUS
<1>1. ComposedWhole /\ ComposedWhole' /\ Typed
  BY ComposedStep DEF CountInv
<1>2. Have \subseteq Numbers /\ \A i \in Numbers : Have \cup {i} \subseteq Numbers
  BY <1>1 DEF Typed, Have, Numbers
<1>3. ASSUME NEW q \in Senders, UploadChunk(q) PROVE CountInv'
  <2>1. PICK i \in Numbers : index' = [index EXCEPT ![q] = i]
    BY <1>3 DEF UploadChunk
  <2>2. /\ sender[q] = "idle" /\ sender' = [sender EXCEPT ![q] = "read"]
        /\ seen' = [seen EXCEPT ![q] = received] /\ received' = received
        /\ parts' = parts /\ object' = object
    BY <1>3 DEF UploadChunk, rowVars, bucketVars
  <2>3. Typed' /\ Have' = Have
    BY <1>1, <2>1, <2>2 DEF Typed, Have
  <2>4. ASSUME NoResend' PROVE CountsStored'
    <3>1. CountsStored
      BY <1>1, <2>1, <2>2, <2>4, ResendStays DEF Typed, CountInv
    <3>2. i \notin Have
      BY <1>1, <2>1, <2>2, <2>4, <3>1 DEF Typed, CountsStored, NoResend
    <3>3. Have \ {i} = Have
      BY <3>2
    <3> QED BY <1>1, <2>1, <2>2, <2>3, <3>1, <3>3 DEF Typed, CountsStored
  <2> QED BY <1>1, <2>3, <2>4 DEF CountInv
<1>4. ASSUME NEW q \in Senders, StorePart(q) PROVE CountInv'
  <2>1. /\ sender[q] = "read" /\ sender' = [sender EXCEPT ![q] = "stored"]
        /\ index' = index /\ seen' = seen /\ received' = received
        /\ Have' = Have \cup {index[q]} /\ index[q] \in Numbers
    BY <1>1, <1>4 DEF StorePart, Typed, Have, rowVars
  <2>2. Typed'
    BY <1>1, <1>4 DEF StorePart, Typed, rowVars
  <2>3. ASSUME NoResend' PROVE CountsStored'
    <3>1. CountsStored
      BY <1>1, <2>1, <2>3, ResendStays DEF CountInv
    <3>2. Have' \in SUBSET Numbers /\ Have \in SUBSET Have'
          /\ \A p \in Senders : Have \ {index[p]} \in SUBSET (Have' \ {index[p]})
      BY <1>2, <2>1
    <3>3. Cardinality(Have) <= Cardinality(Have')
          /\ \A p \in Senders : Cardinality(Have \ {index[p]}) <= Cardinality(Have' \ {index[p]})
      BY <3>2, Sizes
    <3>4. /\ Cardinality(Have) \in Nat /\ Cardinality(Have') \in Nat
          /\ \A p \in Senders : /\ Cardinality(Have \ {index[p]}) \in Nat
                                /\ Cardinality(Have' \ {index[p]}) \in Nat
      BY <1>2, <3>2, Sizes
    <3>5. received' <= Cardinality(Have')
      BY <1>1, <2>1, <3>1, <3>3, <3>4 DEF CountsStored, Typed
    <3>6. ASSUME NEW p \in Senders, sender'[p] \in {"read", "stored"}
          PROVE  seen'[p] <= Cardinality(Have' \ {index'[p]})
      <4>1. sender[p] \in {"read", "stored"}
        BY <1>1, <2>1, <3>6 DEF Typed
      <4>2. seen[p] <= Cardinality(Have \ {index[p]}) /\ seen[p] \in Nat
        BY <1>1, <3>1, <4>1 DEF CountsStored, Typed
      <4> QED BY <2>1, <3>3, <3>4, <4>2
    <3> QED BY <1>1, <2>1, <3>1, <3>5, <3>6 DEF CountsStored, Typed
  <2> QED BY <1>1, <2>2, <2>3 DEF CountInv
<1>5. ASSUME NEW q \in Senders, CountPart(q) PROVE CountInv'
  <2>1. /\ sender[q] = "stored" /\ sender' = [sender EXCEPT ![q] = "ended"]
        /\ index' = index /\ seen' = seen /\ Have' = Have
        /\ received' \in {received, seen[q] + 1}
    BY <1>5 DEF CountPart, NextCount, Have, bucketVars
  <2>2. Typed'
    BY <1>1, <1>5, <2>1 DEF CountPart, Typed, bucketVars
  <2>3. ASSUME NoResend' PROVE CountsStored'
    <3>1. CountsStored
      BY <1>1, <2>1, <2>3, ResendStays DEF CountInv
    <3>2. seen[q] <= Cardinality(Have \ {index[q]}) /\ index[q] \in Have
      BY <2>1, <3>1 DEF CountsStored
    <3>3. /\ Cardinality(Have \ {index[q]}) + 1 = Cardinality(Have)
          /\ Cardinality(Have \ {index[q]}) \in Nat /\ Cardinality(Have) \in Nat
      BY <1>2, <3>2, Sizes
    <3>4. received' <= Cardinality(Have')
      BY <1>1, <2>1, <3>1, <3>2, <3>3 DEF CountsStored, Typed
    <3> QED BY <1>1, <2>1, <3>1, <3>4 DEF CountsStored, Typed
  <2> QED BY <1>1, <2>2, <2>3 DEF CountInv
<1>6. ASSUME NEW q \in Senders, ChunkFails(q) PROVE CountInv'
  <2>1. /\ sender[q] # "idle" /\ sender' = [sender EXCEPT ![q] = "ended"]
        /\ index' = index /\ seen' = seen /\ Have' = Have /\ received' = received
        /\ parts' = parts /\ object' = object
    BY <1>6 DEF ChunkFails, Have, rowVars, bucketVars
  <2>2. Typed'
    BY <1>1, <2>1 DEF Typed
  <2>3. NoResend' => CountsStored'
    <3>1. NoResend' => CountsStored
      BY <1>1, <2>1, ResendStays DEF CountInv
    <3> QED BY <1>1, <2>1, <3>1 DEF CountsStored, Typed
  <2> QED BY <1>1, <2>2, <2>3 DEF CountInv
<1>7. ASSUME Typed', Have' = Have, UNCHANGED <<received, senderVars>> PROVE CountInv'
  BY <1>1, <1>7 DEF CountInv, CountsStored, NoResend, senderVars
<1>8. CASE Expire \/ CleanupExpiredUploads \/ UNCHANGED vars
  <2>1. Typed' /\ Have' = Have /\ UNCHANGED <<received, senderVars>>
    BY <1>1, <1>8 DEF Expire, CleanupExpiredUploads, vars, Typed, Have, rowVars, bucketVars, senderVars
  <2> QED BY <1>7, <2>1
<1> QED BY <1>1, <1>3, <1>4, <1>5, <1>6, <1>7, <1>8, FileStays DEF Next

\* upload_chunk counts with a number it read before it stored the part: the counter may miss
\* parts, but while no number is sent twice it is never ahead of them, and says that all are there
\* when they are not only after a number that upload_chunk should have refused.
THEOREM ReadyMeansReady == Spec => []ReadyIsTrue
<1>1. Init => CountInv
  <2> SUFFICES ASSUME Init PROVE CountInv
    OBVIOUS
  <2>1. ComposedWhole
    BY DEF Init, ComposedWhole
  <2>2. Typed
    BY ChunkedUploadAssumption DEF Init, Typed, Chunks, Numbers
  <2>3. Have = {} /\ Cardinality(Have) = 0
    BY FS_EmptySet DEF Init, Have
  <2>4. CountsStored
    BY <2>3 DEF Init, CountsStored
  <2> QED BY <2>1, <2>2, <2>4 DEF CountInv
<1>2. CountInv => ReadyIsTrue
  <2> SUFFICES ASSUME CountInv, NoResend
               PROVE  /\ received <= Cardinality(Have)
                      /\ received >= ChunkCount /\ NoStray => Have = Chunks
    BY DEF ReadyIsTrue, Have
  <2>1. Have \in SUBSET Numbers /\ received \in Nat /\ received <= Cardinality(Have)
    BY DEF CountInv, CountsStored, Typed, Have, Numbers
  <2>2. ASSUME received >= ChunkCount, NoStray PROVE Have = Chunks
    <3>1. Have \in SUBSET Chunks
      BY <2>2 DEF CountInv, CountsStored, NoStray
    <3>2. Cardinality(Have) \in Nat
      BY <2>1, Sizes
    <3>3. Cardinality(Have) >= ChunkCount
      BY <2>1, <2>2, <3>2, ChunkedUploadAssumption
    <3> QED BY <3>1, <3>3, Sizes
  <2> QED BY <2>1, <2>2
<1> QED BY <1>1, <1>2, CountStep, PTL DEF Spec

-----------------------------------------------------------------------------
(* ParcelImport *)

\* Every nonempty set of naturals has a least member.
LEMMA LeastNatural ==
    ASSUME NEW T, T \subseteq Nat, T # {}
    PROVE  \E m \in T : \A n \in T : m <= n
<1>1. IsWellFoundedOn(OpToRel(<, Nat), Nat)
  BY NatLessThanWellFounded
<1>2. PICK x \in T : \A y \in T : ~ (<<y, x>> \in OpToRel(<, Nat))
  BY <1>1, WFMin
<1>3. \A y \in T : ~ (y < x)
  BY <1>2 DEF OpToRel
<1> QED BY <1>3

\* A set of line numbers has a greatest.
LEMMA Greatest ==
    ASSUME NEW k \in Nat, NEW s \in SUBSET (1..k), s # {}
    PROVE  Max(s) \in s /\ \A y \in s : y <= Max(s)
<1> DEFINE T == {k - x : x \in s}
<1>1. T \subseteq Nat /\ T # {}
  <2>1. \A x \in s : k - x \in Nat
    BY SMT
  <2> QED BY <2>1, Zenon
<1> HIDE DEF T
<1>2. PICK m \in T : \A n \in T : m <= n
  BY <1>1, LeastNatural
<1>3. PICK x \in s : m = k - x
  BY DEF T
<1>4. ASSUME NEW y \in s PROVE x >= y
  <2>1. m <= k - y
    BY <1>2 DEF T
  <2> QED BY <1>3, <2>1
<1>5. Max(s) = CHOOSE z \in s : \A y \in s : z >= y
  BY DEF Max
<1>6. Max(s) \in s /\ \A y \in s : Max(s) >= y
  BY <1>4, <1>5
<1> QED BY <1>6

\* The greatest number of a whole segment is its end.
LEMMA GreatestOfSegment ==
    ASSUME NEW k \in Nat \ {0}
    PROVE  Max(1..k) = k /\ (1..k) \ {k} = 1..(k - 1) /\ 1..k # {}
<1>1. 1..k \in SUBSET (1..k) /\ 1..k # {} /\ k \in 1..k
  BY SMT
<1>2. Max(1..k) \in 1..k /\ \A y \in 1..k : y <= Max(1..k)
  BY <1>1, Greatest
<1>3. Max(1..k) = k
  BY <1>1, <1>2
<1> QED BY <1>1, <1>3

\* One line of a file, as Applied takes it.
ApplyLine(i, tab, n) ==
    IF n \notin Vouched(i) THEN tab
    ELSE [tab EXCEPT ![CodeOfLine(i, n)] = Told(i, imp[i].lines[n], @)]

\* The two folds of ImportsAreSerial: over the imports, and over the lines of one of them.
Body(all, i, v, x) ==
    IF all THEN Applied(v, order[x]) ELSE ApplyLine(i, v, [n \in 1..Len(imp[i].lines) |-> n][x])
Folding(all, i, base, D, g) ==
    g = [s \in D |-> IF s = {} THEN base ELSE Body(all, i, g[s \ {Max(s)}], Max(s))]

\* FoldLeft chooses a function on the sets of positions: there is one to choose.
LEMMA FoldExists ==
    ASSUME NEW k \in Nat, NEW all, NEW i, NEW base
    PROVE  \E g : Folding(all, i, base, SUBSET (1..k), g)
<1> DEFINE Upto(n) == {s \in SUBSET (1..k) : Cardinality(s) <= n}
           Bad == {n \in Nat : ~ \E g : Folding(all, i, base, Upto(n), g)}
<1>1. /\ \A s \in SUBSET (1..k) : IsFiniteSet(s) /\ Cardinality(s) \in Nat /\ Cardinality(s) <= k
      /\ \A s \in SUBSET (1..k) : Cardinality(s) = 0 <=> s = {}
  <2>1. IsFiniteSet(1..k) /\ Cardinality(1..k) = k
    BY FS_Interval
  <2>2. ASSUME NEW s \in SUBSET (1..k)
        PROVE  IsFiniteSet(s) /\ Cardinality(s) \in Nat /\ Cardinality(s) <= k /\ (Cardinality(s) = 0 <=> s = {})
    <3>1. IsFiniteSet(s) /\ Cardinality(s) <= Cardinality(1..k)
      BY <2>1, FS_Subset
    <3>2. Cardinality(s) \in Nat /\ (Cardinality(s) = 0 <=> s = {})
      BY <3>1, FS_CardinalityType, FS_EmptySet
    <3> QED BY <2>1, <3>1, <3>2
  <2> QED BY <2>2, Zenon
<1>2. 0 \notin Bad
  <2> DEFINE g == [s \in Upto(0) |-> base]
  <2>1. \A s \in Upto(0) : s = {}
    BY <1>1
  <2>2. g = [s \in Upto(0) |-> IF s = {} THEN base ELSE Body(all, i, g[s \ {Max(s)}], Max(s))]
    BY <2>1
  <2> HIDE DEF Upto, g
  <2>3. Folding(all, i, base, Upto(0), g)
    BY <2>2 DEF Folding
  <2> QED BY <2>3
<1>3. ASSUME NEW n \in Nat, n \notin Bad PROVE n + 1 \notin Bad
  <2>1. PICK g : Folding(all, i, base, Upto(n), g)
    BY <1>3
  <2> DEFINE h == [s \in Upto(n + 1) |-> IF s = {} THEN base ELSE Body(all, i, g[s \ {Max(s)}], Max(s))]
  <2>2. ASSUME NEW s \in Upto(n + 1), s # {} PROVE s \ {Max(s)} \in Upto(n)
    <3>0. s \in SUBSET (1..k) /\ Cardinality(s) <= n + 1
      OBVIOUS
    <3>1. Max(s) \in s /\ Cardinality(s) <= n + 1 /\ s \in SUBSET (1..k)
      BY <2>2, <3>0, Greatest, Zenon
    <3>2. Cardinality(s \ {Max(s)}) = Cardinality(s) - 1
      BY <1>1, <3>1, FS_RemoveElement
    <3>3. s \ {Max(s)} \in SUBSET (1..k)
      BY <3>0, Zenon
    <3>4. Cardinality(s) \in Nat
      BY <1>1, <3>0, Zenon
    <3>5. Cardinality(s \ {Max(s)}) <= n
      BY <3>1, <3>2, <3>4, SMT
    <3> QED BY <3>3, <3>5, Zenon
  <2>3. ASSUME NEW u \in Upto(n) PROVE h[u] = g[u]
    <3>1. u \in Upto(n + 1)
      BY <1>1
    <3>2. h[u] = IF u = {} THEN base ELSE Body(all, i, g[u \ {Max(u)}], Max(u))
      BY <3>1
    <3>3. g[u] = IF u = {} THEN base ELSE Body(all, i, g[u \ {Max(u)}], Max(u))
      <4> DEFINE f == [s \in Upto(n) |-> IF s = {} THEN base ELSE Body(all, i, g[s \ {Max(s)}], Max(s))]
      <4>1. g = f
        BY <2>1 DEF Folding
      <4>2. f[u] = IF u = {} THEN base ELSE Body(all, i, g[u \ {Max(u)}], Max(u))
        OBVIOUS
      <4> HIDE DEF f
      <4> QED BY <4>1, <4>2
    <3> HIDE DEF h, Upto
    <3> QED BY <3>2, <3>3
  <2> HIDE DEF Upto
  <2>4. h = [s \in Upto(n + 1) |-> IF s = {} THEN base ELSE Body(all, i, h[s \ {Max(s)}], Max(s))]
    BY <2>2, <2>3
  <2> HIDE DEF h
  <2>5. Folding(all, i, base, Upto(n + 1), h)
    BY <2>4 DEF Folding
  <2> QED BY <2>5
<1>4. Bad = {}
  <2>1. SUFFICES ASSUME Bad # {} PROVE FALSE
    OBVIOUS
  <2> HIDE DEF Upto
  <2>2. Bad \subseteq Nat
    OBVIOUS
  <2> HIDE DEF Bad
  <2>3. PICK m \in Bad : \A n \in Bad : m <= n
    BY <2>1, <2>2, LeastNatural
  <2>4. m - 1 \in Nat /\ m - 1 \notin Bad /\ (m - 1) + 1 = m
    BY <1>2, <2>2, <2>3
  <2> QED BY <1>3, <2>4
<1>5. Upto(k) = SUBSET (1..k)
  BY <1>1
<1> HIDE DEF Upto
<1>6. \E g : Folding(all, i, base, Upto(k), g)
  BY <1>4
<1> QED BY <1>5, <1>6

\* A fold takes the positions one after the other.
FoldOver(all, i, base, S) == (CHOOSE g : Folding(all, i, base, SUBSET S, g))[S]
Along(all, i, base, k) ==
    \E t : /\ t[0] = base /\ \A n \in 1..k : t[n] = Body(all, i, t[n - 1], n)
          /\ FoldOver(all, i, base, 1..k) = t[k]

\* The value of a fold is the last of a sequence of values, each made from the one before it.
LEMMA FoldsAlong == \A k \in Nat : \A all, i, base : Along(all, i, base, k)
<1> SUFFICES ASSUME NEW k \in Nat, NEW all, NEW i, NEW base PROVE Along(all, i, base, k)
  OBVIOUS
<1> DEFINE g == CHOOSE g : Folding(all, i, base, SUBSET (1..k), g)
           t == [n \in 0..k |-> g[1..n]]
           h == [s \in SUBSET (1..k) |-> IF s = {} THEN base ELSE Body(all, i, g[s \ {Max(s)}], Max(s))]
<1>1. g = h
  <2>1. Folding(all, i, base, SUBSET (1..k), g)
    BY FoldExists
  <2> HIDE DEF g
  <2> QED BY <2>1 DEF Folding
<1>2. \A s \in SUBSET (1..k) : h[s] = IF s = {} THEN base ELSE Body(all, i, g[s \ {Max(s)}], Max(s))
  OBVIOUS
<1> HIDE DEF g, h
<1>3. t[0] = base
  <2>1. t[0] = g[{}]
    BY SMT
  <2>2. h[{}] = base
    BY <1>2
  <2> QED BY <1>1, <2>1, <2>2
<1>4. ASSUME NEW n \in 1..k PROVE t[n] = Body(all, i, t[n - 1], n)
  <2>1. n \in Nat \ {0} /\ n \in 0..k /\ n - 1 \in 0..k /\ 1..n \in SUBSET (1..k)
    BY SMT
  <2>2. t[n] = g[1..n] /\ t[n - 1] = g[1..(n - 1)]
    BY <2>1
  <2> HIDE DEF t
  <2>3. Max(1..n) = n /\ (1..n) \ {n} = 1..(n - 1) /\ 1..n # {}
    BY <2>1, GreatestOfSegment
  <2>4. h[1..n] = Body(all, i, g[(1..n) \ {Max(1..n)}], Max(1..n))
    BY <1>2, <2>1, <2>3
  <2> QED BY <1>1, <2>2, <2>3, <2>4
<1>5. g[1..k] = t[k]
  BY SMT
<1>6. FoldOver(all, i, base, 1..k) = g[1..k]
  BY DEF FoldOver, g
<1> HIDE DEF t
<1> QED BY <1>3, <1>4, <1>5, <1>6 DEF Along

\* The state: rows are parcels or none, files are short, a draft is of codes.
Values == Imports \cup {"old", "null", "zero"}
Parcel == {NoParcel} \cup
          [there : {TRUE}, address : Values, owner : Values, area : Values, polygon : Values]
Files == {f \in Seq(CsvLines \cup Features) : Len(f) <= MaxLines}

Steps == {"arrive", "refused", "rows", "aborted", "answered", "rolledBack", "failed"}
Ended == {"answered", "rolledBack", "failed"}
ImportRecord == [step : Steps,
                 kind : {"csv", "geojson"}, lines : Files, header : BOOLEAN,
                 at : Nat, count : Nat, errors : Nat]

ImportTyped ==
    /\ parcels \in [Codes -> Parcel]
    /\ imp \in [Imports -> ImportRecord]
    /\ draft = [i \in Imports |-> draft[i]] /\ taken = [i \in Imports |-> taken[i]]
    /\ \A i \in Imports : \A c \in DOMAIN draft[i] : c \in Codes /\ draft[i][c] \in Parcel
    /\ order \in Seq(Imports)

\* What the folds are, a line after a line and an import after an import.
LinesFold ==
    \A i \in Imports : \A rows : \E t :
        /\ t[0] = rows /\ \A n \in 1..Len(imp[i].lines) : t[n] = ApplyLine(i, t[n - 1], n)
        /\ Applied(rows, i) = t[Len(imp[i].lines)]

Base == [c \in Codes |-> IF c \in Registered THEN Old ELSE NoParcel]
Result == FoldLeft(Applied, Base, order)

ImportsFold ==
    \E t : /\ t[0] = Base /\ \A n \in 1..Len(order) : t[n] = Applied(t[n - 1], order[n])
           /\ Result = t[Len(order)]

\* Applied goes line after line, the result of the imports import after import.
LEMMA FoldsTakeLines == ImportTyped => LinesFold /\ ImportsFold
<1> SUFFICES ASSUME ImportTyped PROVE LinesFold /\ ImportsFold
  OBVIOUS
<1>1. ASSUME NEW i \in Imports, NEW rows
      PROVE  \E t : /\ t[0] = rows /\ \A n \in 1..Len(imp[i].lines) : t[n] = ApplyLine(i, t[n - 1], n)
                    /\ Applied(rows, i) = t[Len(imp[i].lines)]
  <2> DEFINE k == Len(imp[i].lines)
             q == [n \in 1..k |-> n]
  <2>1. k \in Nat
    BY DEF ImportTyped, ImportRecord, Files
  <2>2. DOMAIN q = 1..k /\ \A n \in 1..k : q[n] = n
    OBVIOUS
  <2>3. Applied(rows, i) = FoldOver(FALSE, i, rows, DOMAIN q)
    BY DEF FoldOver, Applied, FoldLeft, MapThenFoldSet, Folding, Body, ApplyLine
  <2> HIDE DEF k
  <2>0. Along(FALSE, i, rows, k)
    BY <2>1, FoldsAlong, Zenon
  <2>4. PICK t : /\ t[0] = rows /\ \A n \in 1..k : t[n] = Body(FALSE, i, t[n - 1], n)
                 /\ FoldOver(FALSE, i, rows, 1..k) = t[k]
    BY <2>0 DEF Along
  <2>5. \A n \in 1..k : t[n] = ApplyLine(i, t[n - 1], n)
    BY <2>2, <2>4 DEF Body, k
  <2>6. Applied(rows, i) = t[k]
    <3> HIDE DEF q
    <3> QED BY <2>2, <2>3, <2>4
  <2> QED BY <2>4, <2>5, <2>6 DEF k
<1>2. ImportsFold
  <2> DEFINE k == Len(order)
  <2>1. k \in Nat /\ DOMAIN order = 1..k
    BY DEF ImportTyped
  <2>2. Result = FoldOver(TRUE, 0, Base, DOMAIN order)
    BY DEF FoldOver, Result, FoldLeft, MapThenFoldSet, Folding, Body
  <2> HIDE DEF k
  <2>0. Along(TRUE, 0, Base, k)
    BY <2>1, FoldsAlong, Zenon
  <2>3. PICK t : /\ t[0] = Base /\ \A n \in 1..k : t[n] = Body(TRUE, 0, t[n - 1], n)
                 /\ FoldOver(TRUE, 0, Base, 1..k) = t[k]
    BY <2>0 DEF Along
  <2>4. \A n \in 1..k : t[n] = Applied(t[n - 1], order[n])
    BY <2>3 DEF Body
  <2>5. Result = t[k]
    BY <2>1, <2>2, <2>3
  <2> QED BY <2>3, <2>4, <2>5 DEF ImportsFold, k
<1> QED BY <1>1, <1>2 DEF LinesFold

-----------------------------------------------------------------------------
\* The lines behind an import are counted.
Counting ==
    \A i \in Imports :
        /\ imp[i].at >= 1 /\ imp[i].at <= Len(imp[i].lines) + 1
        /\ taken[i] \subseteq 1..(imp[i].at - 1)
        /\ imp[i].count = Cardinality(taken[i]) /\ imp[i].count <= imp[i].at - 1

\* An import that the server refused a feature of.
Gone(j) == imp[j].step \in {"aborted", "rolledBack"}

\* Only features bring the whole import down; an import without an open transaction has no draft.
Settled ==
    /\ \A i \in Imports :
        /\ Gone(i) => imp[i].kind = "geojson"
        /\ imp[i].step # "rows" => DOMAIN draft[i] = {}
        /\ imp[i].step \in {"arrive", "refused"} => imp[i].at = 1
    /\ \A k \in 1..Len(order) : imp[order[k]].step \in {"answered", "rolledBack"}

\* A row is in one draft at most.
Locked == \A i, j \in Imports : i # j => \A c \in DOMAIN draft[i] : c \notin DOMAIN draft[j]

\* What a line does to one code, and what the first k of them do.
LineAt(i, c, n, v) ==
    IF n \in Vouched(i) /\ CodeOfLine(i, n) = c THEN Told(i, imp[i].lines[n], v) ELSE v
FoldTo(i, c, v, w, k) == w[0] = v /\ \A n \in 1..k : w[n] = LineAt(i, c, n, w[n - 1])

\* A draft holds what the lines so far make of the committed rows.
DraftHolds ==
    \A i \in Imports : imp[i].step \notin Ended => \A c \in Codes :
        IF c \in DOMAIN draft[i]
        THEN \A w : FoldTo(i, c, parcels[c], w, imp[i].at - 1) => w[imp[i].at - 1] = draft[i][c]
        ELSE \A n \in 1..(imp[i].at - 1) : ~ (n \in Vouched(i) /\ CodeOfLine(i, n) = c)

\* A line done is counted.
LEMMA Moves ==
    ASSUME ImportTyped, NEW i \in Imports, NEW st, NEW good, Counted(i, st, good)
    PROVE  /\ \A j \in Imports \ {i} : imp'[j] = imp[j]
           /\ imp' = [j \in Imports |-> imp'[j]]
           /\ imp'[i] = [step |-> st, kind |-> imp[i].kind, lines |-> imp[i].lines, header |-> imp[i].header,
                         at |-> imp[i].at + 1, count |-> IF good THEN imp[i].count + 1 ELSE imp[i].count,
                         errors |-> IF good THEN imp[i].errors ELSE imp[i].errors + 1]
           /\ imp'[i].step = st /\ imp'[i].kind = imp[i].kind /\ imp'[i].lines = imp[i].lines
           /\ imp'[i].at = imp[i].at + 1
           /\ good => imp'[i].count = imp[i].count + 1 /\ imp'[i].errors = imp[i].errors
           /\ ~good => imp'[i].count = imp[i].count /\ imp'[i].errors = imp[i].errors + 1
<1>1. imp \in [Imports -> ImportRecord]
  BY DEF ImportTyped
<1> DEFINE m == imp[i]
<1>2. /\ \A j \in Imports \ {i} : imp'[j] = imp[j]
      /\ imp' = [j \in Imports |-> imp'[j]]
      /\ imp'[i] = [step |-> st, kind |-> m.kind, lines |-> m.lines, header |-> m.header,
                    at |-> m.at + 1, count |-> IF good THEN m.count + 1 ELSE m.count,
                    errors |-> IF good THEN m.errors ELSE m.errors + 1]
  BY <1>1 DEF Counted, ImportRecord
<1> HIDE DEF m
<1>3. /\ imp'[i].step = st /\ imp'[i].kind = m.kind /\ imp'[i].lines = m.lines /\ imp'[i].at = m.at + 1
      /\ good => imp'[i].count = m.count + 1 /\ imp'[i].errors = m.errors
      /\ ~good => imp'[i].count = m.count /\ imp'[i].errors = m.errors + 1
  BY <1>2
<1> QED BY <1>2, <1>3 DEF m

\* Another step, and all else of an import stays.
LEMMA StepMoves ==
    ASSUME ImportTyped, NEW i \in Imports, NEW st \in Steps,
           imp' = [imp EXCEPT ![i].step = st]
    PROVE  /\ imp' \in [Imports -> ImportRecord] /\ \A j \in Imports \ {i} : imp'[j] = imp[j]
           /\ imp'[i] = [step |-> st, kind |-> imp[i].kind, lines |-> imp[i].lines, header |-> imp[i].header,
                         at |-> imp[i].at, count |-> imp[i].count, errors |-> imp[i].errors]
           /\ imp'[i].step = st /\ imp'[i].kind = imp[i].kind /\ imp'[i].lines = imp[i].lines
           /\ imp'[i].at = imp[i].at /\ imp'[i].count = imp[i].count /\ imp'[i].errors = imp[i].errors
<1> DEFINE m == [imp[i] EXCEPT !.step = st]
<1>1. imp \in [Imports -> ImportRecord]
  BY DEF ImportTyped
<1>2. imp[i] \in ImportRecord
  BY <1>1
<1>3. m \in ImportRecord
  BY <1>2 DEF ImportRecord
<1>4. m = [step |-> st, kind |-> imp[i].kind, lines |-> imp[i].lines, header |-> imp[i].header,
           at |-> imp[i].at, count |-> imp[i].count, errors |-> imp[i].errors]
  BY <1>2 DEF ImportRecord
<1>5. imp' = [imp EXCEPT ![i] = m]
  OBVIOUS
<1>6. /\ m.step = st /\ m.kind = imp[i].kind /\ m.lines = imp[i].lines
      /\ m.at = imp[i].at /\ m.count = imp[i].count /\ m.errors = imp[i].errors
  BY <1>2 DEF ImportRecord
<1> HIDE DEF m
<1> QED BY <1>1, <1>3, <1>4, <1>5, <1>6

\* The line an import is at, its code and its row.
LEMMA LineTyped ==
    ASSUME ImportTyped, ImportAssumption, Counting, NEW i \in Imports, AtRow(i)
    PROVE  /\ imp[i].at \in 1..Len(imp[i].lines) /\ Len(imp[i].lines) \in Nat
           /\ Line(i) \in CsvLines \cup Features
           /\ CodeOf(i) # NoCode => CodeOf(i) \in Codes
           /\ RowOf(i, Line(i)) \in Parcel /\ RowOf(i, Line(i)).there
<1>1. /\ imp[i].lines \in Seq(CsvLines \cup Features) /\ Len(imp[i].lines) <= MaxLines /\ Len(imp[i].lines) \in Nat
      /\ imp[i].at \in Nat /\ imp[i].count \in Nat /\ MaxLines \in Nat
  BY DEF ImportTyped, ImportRecord, Files, ImportAssumption
<1>2. imp[i].at \in 1..Len(imp[i].lines) /\ imp[i].count <= imp[i].at - 1
  BY <1>1 DEF AtRow, Counting
<1>3. Line(i) \in CsvLines \cup Features
  BY <1>1, <1>2 DEF Line
<1>4. imp[i].count \in 0..MaxLines
  BY <1>1, <1>2
<1>5. CodeOf(i) # NoCode => CodeOf(i) \in Codes
  <2>1. CodeOf(i) = AutoCode(imp[i].count) \/ CodeOf(i) = Line(i).code
    BY DEF CodeOf
  <2>2. AutoCode(imp[i].count) \in Codes
    BY <1>4 DEF Codes
  <2>3. Line(i).code # NoCode => Line(i).code \in Codes
    BY <1>3 DEF Codes
  <2> QED BY <2>1, <2>2, <2>3
<1>6. RowOf(i, Line(i)) \in Parcel /\ RowOf(i, Line(i)).there
  <2>1. AreaOf(i, Line(i)) \in Values
    BY DEF AreaOf, Values, Null
  <2>2. \A name : Given(i, Line(i), name) \in Values
    BY DEF Given, Values, Null
  <2>3. (IF Line(i).wkt = "polygon" THEN i ELSE Null) \in Values
    BY DEF Values, Null
  <2> QED BY <2>1, <2>2, <2>3 DEF RowOf, Parcel
<1> QED BY <1>1, <1>2, <1>3, <1>5, <1>6

\* An upsert leaves a parcel, as its line tells.
LEMMA UpsertTells ==
    ASSUME ImportAssumption, NEW i \in Imports, imp[i].kind \in {"csv", "geojson"},
           NEW old \in Parcel, NEW l
    PROVE  /\ Upserted(imp[i].kind, RowOf(i, l), old) = Told(i, l, old)
           /\ Told(i, l, old) \in Parcel
<1>1. i # Null /\ Null = "null"
  BY DEF ImportAssumption, Null
<1>2. CASE ~old.there
  <2>1. old = NoParcel
    BY <1>2 DEF Parcel
  <2>2. Upserted(imp[i].kind, RowOf(i, l), old) = RowOf(i, l)
    BY <1>2 DEF Upserted
  <2>3. Told(i, l, old) = RowOf(i, l)
    BY <1>2 DEF Told, RowOf, Given, AreaOf
  <2>4. RowOf(i, l) \in Parcel
    BY <1>1 DEF RowOf, Given, AreaOf, Parcel, Values
  <2> QED BY <2>2, <2>3, <2>4
<1>3. CASE old.there
  <2>1. /\ old = [there |-> TRUE, address |-> old.address, owner |-> old.owner, area |-> old.area, polygon |-> old.polygon]
        /\ old.address \in Values /\ old.owner \in Values /\ old.area \in Values /\ old.polygon \in Values
    <3>1. old \in [there : {TRUE}, address : Values, owner : Values, area : Values, polygon : Values]
      <4>1. NoParcel.there = FALSE
        BY DEF NoParcel
      <4>2. old # NoParcel
        BY <1>3, <4>1
      <4> QED BY <4>2 DEF Parcel
    <3> HIDE DEF Values
    <3> QED BY <3>1
  <2>2. CASE imp[i].kind = "csv"
    <3>1. Upserted(imp[i].kind, RowOf(i, l), old) = Coalesced(RowOf(i, l), old)
      BY <1>3, <2>2 DEF Upserted
    <3>2. Coalesced(RowOf(i, l), old) = Told(i, l, old)
      BY <1>1, <1>3, <2>2 DEF Coalesced, RowOf, Or, Given, AreaOf, Told
    <3>3. Coalesced(RowOf(i, l), old) \in Parcel
      BY <1>1, <2>1 DEF Coalesced, RowOf, Or, Given, AreaOf, Parcel, Values
    <3> QED BY <3>1, <3>2, <3>3
  <2>3. CASE imp[i].kind = "geojson"
    <3>1. Upserted(imp[i].kind, RowOf(i, l), old) = Replaced(RowOf(i, l), old)
      BY <1>3, <2>3 DEF Upserted
    <3>2. Replaced(RowOf(i, l), old) = Told(i, l, old)
      BY <1>1, <1>3, <2>3 DEF Replaced, RowOf, Given, AreaOf, Told
    <3>3. Told(i, l, old) \in Parcel
      BY <1>1, <1>3, <2>1, <2>3 DEF Told, Parcel, Values
    <3> QED BY <3>1, <3>2, <3>3
  <2> QED BY <2>2, <2>3
<1> QED BY <1>2, <1>3

\* The steps: a file arrives, a line is passed over, a line is stored, a transaction ends.
Started(i) ==
    /\ imp[i].step = "arrive"
    /\ \E to \in {"rows", "refused"} : imp' = [imp EXCEPT ![i].step = to]
    /\ UNCHANGED <<parcels, draft, taken, order>>
Passed(i) ==
    /\ AtRow(i)
    /\ \/ Counted(i, imp[i].step, FALSE) /\ UNCHANGED draft
       \/ imp[i].kind = "geojson" /\ Counted(i, "aborted", FALSE) /\ draft' = [draft EXCEPT ![i] = <<>>]
    /\ UNCHANGED <<parcels, taken, order>>

\* A commit ends its import, one way or the other.
LEMMA CommitMoves ==
    ASSUME ImportTyped, NEW i \in Imports, Commit(i)
    PROVE  /\ imp[i].step \in {"rows", "aborted"} /\ imp'[i].step \in {"answered", "rolledBack"}
           /\ Gone(i)' <=> Gone(i)
           /\ \E st \in Steps : imp' = [imp EXCEPT ![i].step = st]
           /\ imp[i].at > Len(imp[i].lines) /\ parcels' = [c \in Codes |-> Row(i, c)]
           /\ draft' = [draft EXCEPT ![i] = <<>>] /\ order' = Append(order, i) /\ taken' = taken
<1> DEFINE st == IF imp[i].step = "aborted" THEN "rolledBack" ELSE "answered"
<1>1. /\ imp' = [imp EXCEPT ![i].step = IF @ = "aborted" THEN "rolledBack" ELSE "answered"]
      /\ imp[i].step \in {"rows", "aborted"}
      /\ imp[i].at > Len(imp[i].lines) /\ parcels' = [c \in Codes |-> Row(i, c)]
      /\ draft' = [draft EXCEPT ![i] = <<>>] /\ order' = Append(order, i) /\ taken' = taken
  BY DEF Commit
<1>2. imp' = [imp EXCEPT ![i].step = st] /\ st \in Steps
  BY <1>1 DEF Steps
<1>3. imp'[i].step = st
  BY <1>2, StepMoves
<1> QED BY <1>1, <1>2, <1>3 DEF Gone

\* Every action is one of the five.
LEMMA NextCases ==
    ASSUME ImportNext
    PROVE  \E i \in Imports : Started(i) \/ Passed(i) \/ Upsert(i) \/ Commit(i) \/ ImportFails(i)
<1>1. PICK i \in Imports : ImportCsv(i) \/ ImportParcels(i) \/ SkipEmpty(i) \/ RowError(i)
                           \/ FeatureRefused(i) \/ FeatureError(i) \/ Upsert(i)
                           \/ Commit(i) \/ ImportFails(i)
  BY DEF ImportNext
<1>2. ImportCsv(i) \/ ImportParcels(i) => Started(i)
  BY DEF ImportCsv, ImportParcels, Started
<1>3. SkipEmpty(i) \/ RowError(i) \/ FeatureRefused(i) \/ FeatureError(i) => Passed(i)
  <2>1. SkipEmpty(i) => Passed(i)
    BY DEF SkipEmpty, Passed
  <2>2. RowError(i) => Passed(i)
    BY DEF RowError, Sent, Passed
  <2>3. FeatureRefused(i) => Passed(i)
    BY DEF FeatureRefused, Passed
  <2>4. FeatureError(i) => Passed(i)
    BY DEF FeatureError, Passed
  <2> QED BY <2>1, <2>2, <2>3, <2>4
<1> QED BY <1>1, <1>2, <1>3

\* The rows an import sees, and what it stores.
LEMMA UpsertTyped ==
    ASSUME ImportTyped, ImportAssumption, Counting, NEW i \in Imports, Upsert(i)
    PROVE  /\ CodeOf(i) \in Codes /\ Row(i, CodeOf(i)) \in Parcel
           /\ Upserted(imp[i].kind, RowOf(i, Line(i)), Row(i, CodeOf(i))) = Told(i, Line(i), Row(i, CodeOf(i)))
           /\ Told(i, Line(i), Row(i, CodeOf(i))) \in Parcel
           /\ \A j \in Imports \ {i} : draft'[j] = draft[j] /\ taken'[j] = taken[j]
           /\ taken'[i] = taken[i] \cup {imp[i].at}
           /\ DOMAIN draft'[i] = DOMAIN draft[i] \cup {CodeOf(i)}
           /\ draft'[i][CodeOf(i)] = Told(i, Line(i), Row(i, CodeOf(i)))
           /\ \A c \in DOMAIN draft[i] : c # CodeOf(i) => draft'[i][c] = draft[i][c]
           /\ draft' = [j \in Imports |-> draft'[j]] /\ taken' = [j \in Imports |-> taken'[j]]
<1> DEFINE c == CodeOf(i)
           new == Upserted(imp[i].kind, RowOf(i, Line(i)), Row(i, c))
           d == With(draft[i], c, new)
<1>1. CodeOf(i) \in Codes
  BY LineTyped DEF Upsert, Sent
<1>2. Row(i, CodeOf(i)) \in Parcel
  BY <1>1 DEF Row, ImportTyped
<1>3. imp[i].kind \in {"csv", "geojson"}
  BY DEF ImportTyped, ImportRecord
<1>4. /\ Upserted(imp[i].kind, RowOf(i, Line(i)), Row(i, c)) = Told(i, Line(i), Row(i, c))
      /\ Told(i, Line(i), Row(i, c)) \in Parcel
  BY <1>2, <1>3, UpsertTells
<1>5. draft' = [draft EXCEPT ![i] = d] /\ taken' = [taken EXCEPT ![i] = @ \cup {imp[i].at}]
  BY DEF Upsert
<1> HIDE DEF new
<1>6. /\ DOMAIN d = DOMAIN draft[i] \cup {c} /\ d[c] = new
      /\ \A x \in DOMAIN draft[i] : x # c => d[x] = draft[i][x]
  BY DEF With
<1> HIDE DEF d, c
<1>7. /\ draft'[i] = d /\ taken'[i] = taken[i] \cup {imp[i].at}
      /\ \A j \in Imports \ {i} : draft'[j] = draft[j] /\ taken'[j] = taken[j]
      /\ draft' = [j \in Imports |-> draft'[j]] /\ taken' = [j \in Imports |-> taken'[j]]
  <2>1. draft = [j \in Imports |-> draft[j]] /\ taken = [j \in Imports |-> taken[j]]
    BY DEF ImportTyped
  <2> QED BY <1>5, <2>1
<1> QED BY <1>1, <1>2, <1>4, <1>6, <1>7 DEF c, new

\* A step leaves the state well formed: what an upsert stores is a parcel.
LEMMA TypedStep ==
    ASSUME ImportTyped, ImportAssumption, Counting, ImportNext PROVE ImportTyped'
<1>1. PICK i \in Imports : Started(i) \/ Passed(i) \/ Upsert(i) \/ Commit(i) \/ ImportFails(i)
  BY NextCases
<1>0. /\ imp \in [Imports -> ImportRecord] /\ imp[i] \in ImportRecord
      /\ draft = [j \in Imports |-> draft[j]] /\ taken = [j \in Imports |-> taken[j]]
      /\ \A j \in Imports : \A c \in DOMAIN draft[j] : c \in Codes /\ draft[j][c] \in Parcel
      /\ parcels \in [Codes -> Parcel] /\ order \in Seq(Imports)
  BY DEF ImportTyped
<1>a. ASSUME NEW st \in Steps, NEW good, Counted(i, st, good) PROVE imp' \in [Imports -> ImportRecord]
  <2>1. imp'[i] \in ImportRecord
    <3> DEFINE m == imp[i]
    <3>1. imp'[i] = [step |-> st, kind |-> m.kind, lines |-> m.lines, header |-> m.header,
                     at |-> m.at + 1, count |-> IF good THEN m.count + 1 ELSE m.count,
                     errors |-> IF good THEN m.errors ELSE m.errors + 1]
      BY <1>a, Moves
    <3>2. /\ m.kind \in {"csv", "geojson"} /\ m.lines \in Files /\ m.header \in BOOLEAN
          /\ m.at \in Nat /\ m.count \in Nat /\ m.errors \in Nat
      BY <1>0 DEF ImportRecord
    <3>3. m.at + 1 \in Nat /\ m.count + 1 \in Nat /\ m.errors + 1 \in Nat
      BY <3>2
    <3> HIDE DEF m
    <3> QED BY <3>1, <3>2, <3>3 DEF ImportRecord
  <2>2. \A j \in Imports \ {i} : imp'[j] \in ImportRecord
    BY <1>0, <1>a, Moves
  <2>3. imp' = [j \in Imports |-> imp'[j]]
    BY <1>a, Moves
  <2> QED BY <2>1, <2>2, <2>3
<1>b. DOMAIN <<>> = {}
  OBVIOUS
<1>2. CASE Started(i)
  <2>1. imp' \in [Imports -> ImportRecord]
    BY <1>2, StepMoves DEF Started, Steps
  <2> QED BY <1>0, <1>2, <2>1 DEF Started, ImportTyped
<1>3. CASE Passed(i)
  <2>0. imp[i].step \in Steps /\ "aborted" \in Steps
    BY <1>0 DEF ImportRecord, Steps
  <2>1. imp' \in [Imports -> ImportRecord]
    BY <1>3, <1>a, <2>0 DEF Passed
  <2>2. /\ draft' = [j \in Imports |-> draft'[j]]
        /\ \A j \in Imports : \A c \in DOMAIN draft'[j] : c \in Codes /\ draft'[j][c] \in Parcel
    BY <1>0, <1>3, <1>b DEF Passed
  <2> QED BY <1>0, <1>3, <2>1, <2>2 DEF Passed, ImportTyped
<1>4. CASE Upsert(i)
  <2>1. imp' \in [Imports -> ImportRecord] /\ UNCHANGED <<parcels, order>>
    BY <1>4, <1>a DEF Upsert, Steps
  <2>2. \A j \in Imports : \A c \in DOMAIN draft'[j] : c \in Codes /\ draft'[j][c] \in Parcel
    <3>1. /\ CodeOf(i) \in Codes /\ draft'[i][CodeOf(i)] \in Parcel
          /\ DOMAIN draft'[i] = DOMAIN draft[i] \cup {CodeOf(i)}
          /\ \A c \in DOMAIN draft[i] : c # CodeOf(i) => draft'[i][c] = draft[i][c]
          /\ \A j \in Imports \ {i} : draft'[j] = draft[j]
      <4>1. draft'[i][CodeOf(i)] = Told(i, Line(i), Row(i, CodeOf(i)))
            /\ Told(i, Line(i), Row(i, CodeOf(i))) \in Parcel
        BY <1>4, UpsertTyped
      <4>2. /\ CodeOf(i) \in Codes /\ DOMAIN draft'[i] = DOMAIN draft[i] \cup {CodeOf(i)}
            /\ \A c \in DOMAIN draft[i] : c # CodeOf(i) => draft'[i][c] = draft[i][c]
            /\ \A j \in Imports \ {i} : draft'[j] = draft[j]
        BY <1>4, UpsertTyped
      <4> QED BY <4>1, <4>2
    <3>2. \A c \in DOMAIN draft'[i] : c \in Codes /\ draft'[i][c] \in Parcel
      BY <1>0, <3>1
    <3> QED BY <1>0, <3>1, <3>2
  <2>3. draft' = [j \in Imports |-> draft'[j]] /\ taken' = [j \in Imports |-> taken'[j]]
    BY <1>4, UpsertTyped
  <2> QED BY <1>0, <2>1, <2>2, <2>3 DEF ImportTyped
<1>5. CASE Commit(i)
  <2>1. imp' \in [Imports -> ImportRecord] /\ order' \in Seq(Imports) /\ taken' = taken
    <3>1. /\ \E st \in Steps : imp' = [imp EXCEPT ![i].step = st]
          /\ order' = Append(order, i) /\ taken' = taken
      BY <1>5, CommitMoves
    <3>2. imp' \in [Imports -> ImportRecord]
      BY <3>1, StepMoves
    <3>3. order' \in Seq(Imports)
      BY <1>0, <3>1
    <3> QED BY <3>1, <3>2, <3>3
  <2>2. /\ draft' = [j \in Imports |-> draft'[j]]
        /\ \A j \in Imports : \A c \in DOMAIN draft'[j] : c \in Codes /\ draft'[j][c] \in Parcel
    BY <1>0, <1>5, <1>b DEF Commit
  <2>3. parcels' \in [Codes -> Parcel]
    BY <1>0, <1>5 DEF Commit, Row
  <2> QED BY <1>0, <2>1, <2>2, <2>3 DEF ImportTyped
<1>6. CASE ImportFails(i)
  <2>1. imp' = [imp EXCEPT ![i].step = "failed"] /\ draft' = [draft EXCEPT ![i] = <<>>]
        /\ UNCHANGED <<parcels, taken, order>>
    BY <1>6 DEF ImportFails
  <2>2. imp' \in [Imports -> ImportRecord]
    BY <2>1, StepMoves DEF Steps
  <2>3. /\ draft' = [j \in Imports |-> draft'[j]]
        /\ \A j \in Imports : \A c \in DOMAIN draft'[j] : c \in Codes /\ draft'[j][c] \in Parcel
    BY <1>0, <1>b, <2>1
  <2> QED BY <1>0, <2>1, <2>2, <2>3 DEF ImportTyped
<1> QED BY <1>1, <1>2, <1>3, <1>4, <1>5, <1>6

\* A line done is counted once, as imported or as an error.
LEMMA CountingStep ==
    ASSUME ImportTyped, ImportAssumption, Counting, ImportNext PROVE Counting'
<1>1. PICK i \in Imports : Started(i) \/ Passed(i) \/ Upsert(i) \/ Commit(i) \/ ImportFails(i)
  BY NextCases
<1> DEFINE Counts(j) ==
               /\ imp[j].at >= 1 /\ imp[j].at <= Len(imp[j].lines) + 1
               /\ taken[j] \subseteq 1..(imp[j].at - 1)
               /\ imp[j].count = Cardinality(taken[j]) /\ imp[j].count <= imp[j].at - 1
<1>0. (\A j \in Imports : Counts(j)) /\ (Counting' <=> \A j \in Imports : Counts(j)')
  BY DEF Counting
<1>2. /\ imp[i].at \in Nat /\ imp[i].count \in Nat /\ Len(imp[i].lines) \in Nat /\ Counts(i)
  BY <1>0 DEF ImportTyped, ImportRecord, Files
<1>3. CASE Started(i) \/ Commit(i) \/ ImportFails(i)
  <2>1. \E st \in Steps : imp' = [imp EXCEPT ![i].step = st]
    BY <1>3, CommitMoves DEF Started, ImportFails, Steps
  <2>2. taken' = taken
    BY <1>3 DEF Started, Commit, ImportFails
  <2>3. \A j \in Imports : imp'[j].at = imp[j].at /\ imp'[j].lines = imp[j].lines /\ imp'[j].count = imp[j].count
    BY <2>1, StepMoves
  <2> QED BY <1>0, <2>2, <2>3
<1>4. CASE Passed(i)
  <2>1. \E st : Counted(i, st, FALSE)
    BY <1>4 DEF Passed
  <2>2. /\ \A j \in Imports \ {i} : imp'[j] = imp[j]
        /\ imp'[i].at = imp[i].at + 1 /\ imp'[i].lines = imp[i].lines /\ imp'[i].count = imp[i].count
    BY <2>1, Moves
  <2>3. taken' = taken /\ imp[i].at <= Len(imp[i].lines)
    BY <1>4 DEF Passed, AtRow
  <2>4. Counts(i)'
    <3>1. taken[i] \subseteq 1..((imp[i].at + 1) - 1)
      BY <1>2
    <3> QED BY <1>2, <2>2, <2>3, <3>1
  <2>5. \A j \in Imports \ {i} : Counts(j)'
    BY <1>0, <2>2, <2>3
  <2> QED BY <1>0, <2>4, <2>5
<1>5. CASE Upsert(i)
  <2>1. Counted(i, "rows", TRUE) /\ imp[i].at <= Len(imp[i].lines)
    BY <1>5 DEF Upsert, Sent, AtRow
  <2>2. /\ \A j \in Imports \ {i} : imp'[j] = imp[j]
        /\ imp'[i].at = imp[i].at + 1 /\ imp'[i].lines = imp[i].lines /\ imp'[i].count = imp[i].count + 1
    BY <2>1, Moves
  <2>3. /\ \A j \in Imports \ {i} : taken'[j] = taken[j]
        /\ taken'[i] = taken[i] \cup {imp[i].at}
    BY <1>5, UpsertTyped
  <2>4. Counts(i)'
    <3>1. taken[i] \cup {imp[i].at} \subseteq 1..((imp[i].at + 1) - 1) /\ imp[i].at \notin taken[i]
      BY <1>2
    <3>2. IsFiniteSet(taken[i])
      <4>1. imp[i].at - 1 \in Int
        BY <1>2
      <4>2. IsFiniteSet(1..(imp[i].at - 1))
        BY <4>1, FS_Interval
      <4> QED BY <1>2, <4>2, FS_Subset
    <3>3. Cardinality(taken[i] \cup {imp[i].at}) = Cardinality(taken[i]) + 1
      BY <3>1, <3>2, FS_AddElement
    <3> QED BY <1>2, <2>1, <2>2, <2>3, <3>1, <3>3
  <2>5. \A j \in Imports \ {i} : Counts(j)'
    BY <1>0, <2>2, <2>3
  <2> QED BY <1>0, <2>4, <2>5
<1> QED BY <1>1, <1>3, <1>4, <1>5

\* The error of a feature takes the draft with it, a commit stores it.
LEMMA SettledStep ==
    ASSUME ImportTyped, ImportAssumption, Counting, Settled, ImportNext PROVE Settled'
<1>1. PICK i \in Imports : Started(i) \/ Passed(i) \/ Upsert(i) \/ Commit(i) \/ ImportFails(i)
  BY NextCases
<1> DEFINE Rests(j) ==
        /\ Gone(j) => imp[j].kind = "geojson"
        /\ imp[j].step # "rows" => DOMAIN draft[j] = {}
        /\ imp[j].step \in {"arrive", "refused"} => imp[j].at = 1
       Past == {"answered", "rolledBack"}
<1>0. /\ (\A j \in Imports : Rests(j)) /\ \A k \in 1..Len(order) : imp[order[k]].step \in Past
      /\ (\A j \in Imports : Rests(j)') /\ (\A k \in 1..Len(order') : imp'[order'[k]].step \in Past) => Settled'
  BY DEF Settled
<1>2. /\ imp[i].at \in Nat /\ order \in Seq(Imports) /\ imp[i].kind \in {"csv", "geojson"}
      /\ draft = [j \in Imports |-> draft[j]]
  BY DEF ImportTyped, ImportRecord
<1>a. \A k \in 1..Len(order) : order[k] \in Imports
  BY <1>2
<1>b. DOMAIN <<>> = {}
  OBVIOUS
<1>3. CASE Started(i)
  <2>0. PICK st \in {"refused", "rows"} : imp' = [imp EXCEPT ![i].step = st]
    BY <1>3 DEF Started
  <2>1. /\ \A j \in Imports \ {i} : imp'[j] = imp[j]
        /\ imp'[i].kind = imp[i].kind /\ imp'[i].at = imp[i].at /\ imp'[i].step = st
    BY <2>0, StepMoves DEF Steps
  <2>2. draft' = draft /\ order' = order /\ imp[i].step = "arrive"
    BY <1>3 DEF Started
  <2>3. imp[i].at = 1 /\ DOMAIN draft[i] = {}
    BY <1>0, <2>2
  <2>4. Rests(i)'
    BY <2>1, <2>2, <2>3 DEF Gone
  <2>5. \A j \in Imports \ {i} : Rests(j)'
    BY <1>0, <2>1, <2>2 DEF Gone
  <2> QED BY <1>0, <1>a, <2>1, <2>2, <2>4, <2>5
<1>4. CASE Passed(i)
  <2>1. AtRow(i) /\ order' = order
    BY <1>4 DEF Passed
  <2>2. /\ \A j \in Imports \ {i} : imp'[j] = imp[j]
        /\ imp'[i].kind = imp[i].kind
        /\ \/ imp'[i].step = imp[i].step /\ draft' = draft
           \/ imp[i].kind = "geojson" /\ imp'[i].step = "aborted" /\ draft' = [draft EXCEPT ![i] = <<>>]
    BY <1>4, Moves DEF Passed
  <2>3. \A j \in Imports \ {i} : draft'[j] = draft[j]
    BY <1>2, <2>2
  <2>4. Rests(i)'
    <3>1. CASE imp'[i].step = imp[i].step /\ draft' = draft
      BY <1>0, <2>1, <2>2, <3>1 DEF Gone, AtRow
    <3>2. CASE imp[i].kind = "geojson" /\ imp'[i].step = "aborted" /\ draft' = [draft EXCEPT ![i] = <<>>]
      <4>1. DOMAIN draft'[i] = {}
        BY <1>2, <1>b, <3>2
      <4> QED BY <2>2, <3>2, <4>1
    <3> QED BY <2>2, <3>1, <3>2
  <2>5. \A j \in Imports \ {i} : Rests(j)'
    BY <1>0, <2>2, <2>3 DEF Gone
  <2>6. \A k \in 1..Len(order) : imp'[order[k]].step \in Past
    BY <1>0, <1>a, <2>1, <2>2 DEF AtRow
  <2> QED BY <1>0, <2>1, <2>4, <2>5, <2>6
<1>5. CASE Upsert(i)
  <2>1. Counted(i, "rows", TRUE) /\ imp[i].step = "rows" /\ order' = order
    BY <1>5 DEF Upsert, Sent
  <2>2. /\ \A j \in Imports \ {i} : imp'[j] = imp[j]
        /\ imp'[i].kind = imp[i].kind /\ imp'[i].step = "rows"
    BY <2>1, Moves
  <2>3. \A j \in Imports \ {i} : draft'[j] = draft[j]
    BY <1>5, UpsertTyped
  <2>4. Rests(i)'
    BY <2>2 DEF Gone
  <2>5. \A j \in Imports \ {i} : Rests(j)'
    BY <1>0, <2>2, <2>3 DEF Gone
  <2>6. \A k \in 1..Len(order) : imp'[order[k]].step \in Past
    BY <1>0, <1>a, <2>1, <2>2
  <2> QED BY <1>0, <2>1, <2>4, <2>5, <2>6
<1>6. CASE Commit(i)
  <2>0. /\ \E st \in Steps : imp' = [imp EXCEPT ![i].step = st]
        /\ imp'[i].step \in Past /\ (Gone(i)' <=> Gone(i))
        /\ order' = Append(order, i) /\ draft' = [draft EXCEPT ![i] = <<>>]
    BY <1>6, CommitMoves
  <2>1. imp'[i].kind = imp[i].kind /\ \A j \in Imports \ {i} : imp'[j] = imp[j]
    BY <2>0, StepMoves
  <2>2. DOMAIN draft'[i] = {} /\ \A j \in Imports \ {i} : draft'[j] = draft[j]
    BY <1>2, <1>b, <2>0
  <2>3. Rests(i)'
    BY <1>0, <2>0, <2>1, <2>2
  <2>4. \A j \in Imports \ {i} : Rests(j)'
    BY <1>0, <2>1, <2>2 DEF Gone
  <2>5. \A k \in 1..Len(order') : order'[k] = i \/ (k \in 1..Len(order) /\ order'[k] = order[k])
    BY <1>2, <2>0
  <2>6. \A k \in 1..Len(order') : imp'[order'[k]].step \in Past
    BY <1>0, <1>a, <2>0, <2>1, <2>5
  <2> QED BY <1>0, <2>3, <2>4, <2>6
<1>7. CASE ImportFails(i)
  <2>0. /\ imp' = [imp EXCEPT ![i].step = "failed"] /\ order' = order
        /\ draft' = [draft EXCEPT ![i] = <<>>] /\ imp[i].step \in {"rows", "aborted"}
    BY <1>7 DEF ImportFails
  <2>1. imp'[i].step = "failed" /\ \A j \in Imports \ {i} : imp'[j] = imp[j]
    BY <2>0, StepMoves DEF Steps
  <2>2. DOMAIN draft'[i] = {} /\ \A j \in Imports \ {i} : draft'[j] = draft[j]
    BY <1>2, <1>b, <2>0
  <2>3. Rests(i)'
    BY <2>1, <2>2 DEF Gone
  <2>4. \A j \in Imports \ {i} : Rests(j)'
    BY <1>0, <2>1, <2>2 DEF Gone
  <2>5. \A k \in 1..Len(order) : imp'[order[k]].step \in Past
    BY <1>0, <1>a, <2>0, <2>1
  <2> QED BY <1>0, <2>0, <2>3, <2>4, <2>5
<1> QED BY <1>1, <1>3, <1>4, <1>5, <1>6, <1>7

\* A line takes the lock of its parcel, no step else adds to a draft.
LEMMA LockedStep ==
    ASSUME ImportTyped, ImportAssumption, Counting, Locked, ImportNext PROVE Locked'
<1>1. PICK i \in Imports : Started(i) \/ Passed(i) \/ Upsert(i) \/ Commit(i) \/ ImportFails(i)
  BY NextCases
<1>2. draft = [j \in Imports |-> draft[j]]
  BY DEF ImportTyped
<1>b. DOMAIN <<>> = {}
  OBVIOUS
<1>3. CASE Started(i) \/ Passed(i) \/ Commit(i) \/ ImportFails(i)
  <2>1. draft' = draft \/ draft' = [draft EXCEPT ![i] = <<>>]
    BY <1>3 DEF Started, Passed, Commit, ImportFails
  <2>2. \A j \in Imports : DOMAIN draft'[j] \subseteq DOMAIN draft[j]
    BY <1>2, <1>b, <2>1
  <2> QED BY <2>2 DEF Locked
<1>4. CASE Upsert(i)
  <2>1. /\ \A j \in Imports \ {i} : draft'[j] = draft[j]
        /\ DOMAIN draft'[i] = DOMAIN draft[i] \cup {CodeOf(i)}
    BY <1>4, UpsertTyped
  <2>2. \A j \in Imports \ {i} : CodeOf(i) \notin DOMAIN draft[j]
    BY <1>4 DEF Upsert, Sent, WaitsFor
  <2> QED BY <2>1, <2>2 DEF Locked
<1> QED BY <1>1, <1>3, <1>4

\* Lines that change nothing leave the value.
LEMMA Quiet ==
    ASSUME NEW k \in Nat, NEW w, \A n \in 1..k : w[n] = w[n - 1] PROVE w[k] = w[0]
<1> DEFINE T == {n \in 0..k : w[n] # w[0]}
<1>1. SUFFICES ASSUME T # {} PROVE FALSE
  BY SMT
<1>2. T \subseteq Nat
  OBVIOUS
<1> HIDE DEF T
<1>3. PICK m \in T : \A n \in T : m <= n
  BY <1>1, <1>2, LeastNatural
<1>4. m \in 0..k /\ w[m] # w[0]
  BY DEF T
<1>5. m \in 1..k /\ m - 1 \in 0..k /\ m - 1 \notin T
  BY <1>3, <1>4
<1>6. w[m] = w[m - 1] /\ w[m - 1] = w[0]
  BY <1>5 DEF T
<1> QED BY <1>4, <1>6

\* The same lines with the same outcomes tell the same.
LEMMA SameLines ==
    ASSUME NEW j, imp'[j].kind = imp[j].kind, imp'[j].lines = imp[j].lines, taken'[j] = taken[j],
           Gone(j)' <=> Gone(j)
    PROVE  /\ Vouched(j)' = Vouched(j) /\ \A n : CodeOfLine(j, n)' = CodeOfLine(j, n)
           /\ \A c, n, v : LineAt(j, c, n, v)' = LineAt(j, c, n, v)
           /\ \A v, n : ApplyLine(j, v, n)' = ApplyLine(j, v, n)
<1>1. Vouched(j)' = Vouched(j)
  BY DEF Vouched, Gone
<1>2. \A n : CodeOfLine(j, n)' = CodeOfLine(j, n)
  BY DEF CodeOfLine
<1>3. \A l, v : Told(j, l, v)' = Told(j, l, v)
  BY DEF Told
<1>4. ASSUME NEW c, NEW n, NEW v PROVE LineAt(j, c, n, v)' = LineAt(j, c, n, v)
  BY <1>1, <1>2, <1>3 DEF LineAt
<1>5. ASSUME NEW v, NEW n PROVE ApplyLine(j, v, n)' = ApplyLine(j, v, n)
  BY <1>1, <1>2, <1>3 DEF ApplyLine
<1> QED BY <1>1, <1>2, <1>4, <1>5

\* What Upsert adds to the lines of its import.
LEMMA UpsertAdds ==
    ASSUME ImportTyped, ImportAssumption, Counting, Settled, NEW i \in Imports, Upsert(i),
           NEW at, at = imp[i].at
    PROVE  /\ at \in Nat /\ at >= 1 /\ at \notin Vouched(i)
           /\ \A n : n \in Vouched(i)' <=> n \in Vouched(i) \/ n = at
           /\ \A n \in 1..(at - 1) : CodeOfLine(i, n)' = CodeOfLine(i, n)
           /\ CodeOfLine(i, at)' = CodeOf(i)
           /\ \A c : \A n \in 1..(at - 1) : \A v : LineAt(i, c, n, v)' = LineAt(i, c, n, v)
           /\ \A c, v : LineAt(i, c, at, v)' = IF CodeOf(i) = c THEN Told(i, Line(i), v) ELSE v
<1>0. /\ at \in Nat /\ imp[i].kind \in {"csv", "geojson"}
      /\ at >= 1 /\ taken[i] \subseteq 1..(at - 1) /\ imp[i].count = Cardinality(taken[i])
  BY DEF ImportTyped, ImportRecord, Counting
<1>1. Counted(i, "rows", TRUE) /\ imp[i].step = "rows" /\ CodeOf(i) # NoCode
  BY DEF Upsert, Sent
<1>2. imp'[i].kind = imp[i].kind /\ imp'[i].lines = imp[i].lines /\ imp'[i].step = "rows"
  BY <1>1, Moves
<1>3. taken'[i] = taken[i] \cup {at}
  BY UpsertTyped
<1>5. Vouched(i) = taken[i] /\ Vouched(i)' = taken[i] \cup {at}
  BY <1>1, <1>2, <1>3 DEF Vouched
<1>6. at \notin Vouched(i) /\ \A n : n \in Vouched(i)' <=> n \in Vouched(i) \/ n = at
  BY <1>0, <1>5
<1>7. ASSUME NEW n \in 1..(at - 1) PROVE CodeOfLine(i, n)' = CodeOfLine(i, n)
  <2>1. {m \in taken'[i] : m < n} = {m \in taken[i] : m < n}
    BY <1>0, <1>3
  <2> QED BY <1>2, <2>1 DEF CodeOfLine
<1>a. imp[i].lines[at] = Line(i)
  BY DEF Line
<1>8. CodeOfLine(i, at)' = CodeOf(i)
  <2>1. {m \in taken'[i] : m < at} = taken[i]
    BY <1>0, <1>3
  <2>2. CodeOfLine(i, at)' = IF Line(i).code = NoCode THEN AutoCode(imp[i].count) ELSE Line(i).code
    BY <1>0, <1>2, <1>a, <2>1 DEF CodeOfLine
  <2> QED BY <1>0, <1>1, <2>2 DEF CodeOf
<1>9. \A l, v : Told(i, l, v)' = Told(i, l, v)
  BY <1>2 DEF Told
<1>10. ASSUME NEW c, NEW n \in 1..(at - 1), NEW v PROVE LineAt(i, c, n, v)' = LineAt(i, c, n, v)
  <2>1. n # at
    BY <1>0
  <2> QED BY <1>2, <1>5, <1>7, <1>9, <2>1 DEF LineAt
<1>11. ASSUME NEW c, NEW v PROVE LineAt(i, c, at, v)' = IF CodeOf(i) = c THEN Told(i, Line(i), v) ELSE v
  <2>1. Told(i, imp[i].lines[at], v)' = Told(i, Line(i), v)
    BY <1>2, <1>a DEF Told
  <2> QED BY <1>6, <1>8, <2>1 DEF LineAt
<1> QED BY <1>0, <1>6, <1>7, <1>8, <1>10, <1>11

\* A shorter stretch of the lines.
LEMMA FoldShorter ==
    ASSUME NEW k \in Nat, NEW i, NEW c, NEW v, NEW w, FoldTo(i, c, v, w, k + 1)
    PROVE  FoldTo(i, c, v, w, k) /\ w[k + 1] = LineAt(i, c, k + 1, w[k])
<1>1. w[0] = v /\ \A n \in 1..(k + 1) : w[n] = LineAt(i, c, n, w[n - 1])
  BY DEF FoldTo
<1>2. \A n \in 1..k : n \in 1..(k + 1)
  BY SMT
<1>3. k + 1 \in 1..(k + 1) /\ (k + 1) - 1 = k
  BY SMT
<1>4. w[k + 1] = LineAt(i, c, k + 1, w[k])
  <2>1. w[k + 1] = LineAt(i, c, k + 1, w[(k + 1) - 1])
    BY <1>1, <1>3, Zenon
  <2> QED BY <1>3, <2>1
<1>5. FoldTo(i, c, v, w, k)
  BY <1>1, <1>2, Zenon DEF FoldTo
<1> QED BY <1>4, <1>5

\* DraftHolds, of one import.
DraftOf(j) ==
    imp[j].step \notin Ended => \A c \in Codes :
        IF c \in DOMAIN draft[j]
        THEN \A w : FoldTo(j, c, parcels[c], w, imp[j].at - 1) => w[imp[j].at - 1] = draft[j][c]
        ELSE \A n \in 1..(imp[j].at - 1) : ~ (n \in Vouched(j) /\ CodeOfLine(j, n) = c)

\* An import whose lines and draft stay, and whose parcels stay, holds what it held.
LEMMA DraftStays ==
    ASSUME NEW j \in Imports, DraftOf(j), imp[j].step \notin Ended, imp'[j].at = imp[j].at,
           imp'[j].kind = imp[j].kind, imp'[j].lines = imp[j].lines, Gone(j)' <=> Gone(j),
           taken'[j] = taken[j], draft'[j] = draft[j], \A c \in DOMAIN draft[j] : parcels'[c] = parcels[c],
           Codes' = Codes
    PROVE  DraftOf(j)'
<1>1. /\ Vouched(j)' = Vouched(j) /\ \A n : CodeOfLine(j, n)' = CodeOfLine(j, n)
      /\ \A c, n, v : LineAt(j, c, n, v)' = LineAt(j, c, n, v)
  BY SameLines
<1>2. ASSUME NEW c \in Codes, c \in DOMAIN draft[j], NEW w, FoldTo(j, c, parcels[c], w, imp[j].at - 1)'
      PROVE  w[imp[j].at - 1] = draft[j][c]
  <2>1. FoldTo(j, c, parcels[c], w, imp[j].at - 1)
    BY <1>1, <1>2 DEF FoldTo
  <2> QED BY <1>2, <2>1 DEF DraftOf
<1>3. ASSUME NEW c \in Codes, c \notin DOMAIN draft[j], NEW n \in 1..(imp[j].at - 1)
      PROVE  ~ (n \in Vouched(j) /\ CodeOfLine(j, n) = c)
  BY <1>3 DEF DraftOf
<1> QED BY <1>1, <1>2, <1>3 DEF DraftOf

\* A line that is stored extends the draft by what it tells; a commit touches no row that
\* another import has locked.
LEMMA DraftStep ==
    ASSUME ImportTyped, ImportAssumption, Counting, Settled, Locked, DraftHolds, ImportNext
    PROVE  DraftHolds'
<1>1. PICK i \in Imports : Started(i) \/ Passed(i) \/ Upsert(i) \/ Commit(i) \/ ImportFails(i)
  BY NextCases
<1>0. (\A j \in Imports : DraftOf(j)) /\ ((\A j \in Imports : DraftOf(j)') => DraftHolds')
  BY DEF DraftHolds, DraftOf
<1>a. /\ imp[i].at \in Nat /\ imp[i].at >= 1 /\ imp[i].kind \in {"csv", "geojson"}
      /\ draft = [j \in Imports |-> draft[j]] /\ parcels \in [Codes -> Parcel]
  BY DEF ImportTyped, ImportRecord, Counting
<1>b. DOMAIN <<>> = {} /\ Codes' = Codes
  BY DEF Codes
<1>c. ASSUME NEW j \in Imports \ {i}, imp'[j] = imp[j], taken'[j] = taken[j], draft'[j] = draft[j],
             \A c \in DOMAIN draft[j] : parcels'[c] = parcels[c]
      PROVE  DraftOf(j)'
  <2>1. CASE imp[j].step \in Ended
    BY <1>c, <2>1 DEF DraftOf
  <2>2. CASE imp[j].step \notin Ended
    <3>1. Gone(j)' <=> Gone(j)
      BY <1>c DEF Gone
    <3> QED BY <1>0, <1>b, <1>c, <2>2, <3>1, DraftStays
  <2> QED BY <2>1, <2>2
<1>2. CASE Started(i)
  <2>1. PICK st \in {"refused", "rows"} : imp' = [imp EXCEPT ![i].step = st]
    BY <1>2 DEF Started
  <2>2. imp'[i].at = imp[i].at /\ \A j \in Imports \ {i} : imp'[j] = imp[j]
    BY <2>1, StepMoves DEF Steps
  <2>3. UNCHANGED <<parcels, draft, taken>> /\ imp[i].step = "arrive"
    BY <1>2 DEF Started
  <2>4. imp[i].at = 1 /\ DOMAIN draft[i] = {}
    BY <2>3 DEF Settled
  <2>5. DraftOf(i)'
    BY <2>2, <2>3, <2>4 DEF DraftOf
  <2> QED BY <1>0, <1>c, <2>2, <2>3, <2>5
<1>3. CASE Passed(i)
  <2>1. AtRow(i) /\ UNCHANGED <<parcels, taken>>
    BY <1>3 DEF Passed
  <2>2. PICK st : /\ Counted(i, st, FALSE)
                  /\ \/ st = imp[i].step /\ draft' = draft
                     \/ imp[i].kind = "geojson" /\ st = "aborted" /\ draft' = [draft EXCEPT ![i] = <<>>]
    BY <1>3 DEF Passed
  <2>3. /\ \A j \in Imports \ {i} : imp'[j] = imp[j]
        /\ imp'[i].kind = imp[i].kind /\ imp'[i].lines = imp[i].lines /\ imp'[i].at = imp[i].at + 1
        /\ imp'[i].step = st
    BY <2>2, Moves
  <2>4. \A j \in Imports \ {i} : draft'[j] = draft[j]
    BY <1>3, <1>a DEF Passed
  <2>5. CASE st = imp[i].step /\ draft' = draft
    <3>1. draft' = draft /\ imp[i].step \notin Ended /\ (Gone(i)' <=> Gone(i))
      BY <2>1, <2>3, <2>5 DEF AtRow, Ended, Gone
    <3>2. /\ Vouched(i)' = Vouched(i) /\ \A n : CodeOfLine(i, n)' = CodeOfLine(i, n)
          /\ \A c, n, v : LineAt(i, c, n, v)' = LineAt(i, c, n, v)
      BY <2>1, <2>3, <3>1, SameLines
    <3>3. PICK at : at = imp[i].at
      OBVIOUS
    <3>4. at \notin Vouched(i) /\ at \in Nat /\ at >= 1 /\ imp'[i].at - 1 = at
      BY <1>a, <2>3, <3>3 DEF Vouched, Counting
    <3>5. ASSUME NEW c \in Codes, c \in DOMAIN draft[i], NEW w, FoldTo(i, c, parcels[c], w, imp[i].at - 1)'
          PROVE  w[at] = draft[i][c]
      <4>1. w[0] = parcels[c] /\ \A n \in 1..at : w[n] = LineAt(i, c, n, w[n - 1])
        BY <2>1, <3>2, <3>4, <3>5 DEF FoldTo
      <4>2. FoldTo(i, c, parcels[c], w, (at - 1) + 1)
        BY <3>4, <4>1 DEF FoldTo
      <4>3. FoldTo(i, c, parcels[c], w, at - 1) /\ w[at] = LineAt(i, c, at, w[at - 1])
        <5>1. at - 1 \in Nat /\ (at - 1) + 1 = at
          BY <3>4
        <5> HIDE DEF FoldTo
        <5> QED BY <4>2, <5>1, FoldShorter
      <4>4. w[at - 1] = draft[i][c]
        BY <1>0, <3>1, <3>3, <3>5, <4>3 DEF DraftOf
      <4> QED BY <3>4, <4>3, <4>4 DEF LineAt
    <3>6. ASSUME NEW c \in Codes, c \notin DOMAIN draft[i], NEW n \in 1..at
          PROVE  ~ (n \in Vouched(i) /\ CodeOfLine(i, n) = c)
      <4>1. n = at \/ n \in 1..(at - 1)
        BY <3>4
      <4> QED BY <1>0, <3>1, <3>3, <3>4, <3>6, <4>1 DEF DraftOf
    <3>7. DraftOf(i)'
      BY <1>b, <3>1, <3>2, <3>4, <3>5, <3>6 DEF DraftOf
    <3> QED BY <1>0, <1>c, <2>1, <2>3, <2>4, <3>7
  <2>6. CASE imp[i].kind = "geojson" /\ st = "aborted" /\ draft' = [draft EXCEPT ![i] = <<>>]
    <3>1. DOMAIN draft'[i] = {}
      BY <1>a, <1>b, <2>6
    <3>2. Vouched(i)' = {}
      BY <2>3, <2>6 DEF Vouched
    <3>3. DraftOf(i)'
      BY <3>1, <3>2 DEF DraftOf
    <3> QED BY <1>0, <1>c, <2>1, <2>3, <2>4, <3>3
  <2> QED BY <2>2, <2>5, <2>6
<1>4. CASE Upsert(i)
  <2>1. Counted(i, "rows", TRUE) /\ imp[i].step \notin Ended /\ parcels' = parcels
    BY <1>4 DEF Upsert, Sent, Ended
  <2>2. imp'[i].at = imp[i].at + 1 /\ \A j \in Imports \ {i} : imp'[j] = imp[j]
    BY <2>1, Moves
  <2>3. \A j \in Imports \ {i} : draft'[j] = draft[j] /\ taken'[j] = taken[j]
    BY <1>4, UpsertTyped
  <2>4. PICK at : at = imp[i].at
    OBVIOUS
  <2>5. /\ at \in Nat /\ at >= 1 /\ at \notin Vouched(i)
        /\ \A n : n \in Vouched(i)' <=> n \in Vouched(i) \/ n = at
        /\ \A n \in 1..(at - 1) : CodeOfLine(i, n)' = CodeOfLine(i, n)
        /\ CodeOfLine(i, at)' = CodeOf(i)
        /\ \A c : \A n \in 1..(at - 1) : \A v : LineAt(i, c, n, v)' = LineAt(i, c, n, v)
        /\ \A c, v : LineAt(i, c, at, v)' = IF CodeOf(i) = c THEN Told(i, Line(i), v) ELSE v
    BY <1>4, <2>4, UpsertAdds
  <2>6. /\ DOMAIN draft'[i] = DOMAIN draft[i] \cup {CodeOf(i)}
        /\ draft'[i][CodeOf(i)] = Told(i, Line(i), Row(i, CodeOf(i)))
        /\ \A c \in DOMAIN draft[i] : c # CodeOf(i) => draft'[i][c] = draft[i][c]
    BY <1>4, UpsertTyped
  <2>7. at - 1 \in Nat /\ (at - 1) + 1 = at /\ imp'[i].at - 1 = at
    BY <2>2, <2>4, <2>5
  <2>8. ASSUME NEW c \in Codes, NEW w, FoldTo(i, c, parcels[c], w, imp[i].at - 1)'
        PROVE  /\ w[at] = IF CodeOf(i) = c THEN Told(i, Line(i), w[at - 1]) ELSE w[at - 1]
               /\ w[at - 1] = Row(i, c)
    <3>1. w[0] = parcels[c] /\ \A n \in 1..at : w[n] = LineAt(i, c, n, w[n - 1])'
      <4>1. /\ w[0] = parcels'[c]
            /\ \A n \in 1..(imp'[i].at - 1) : w[n] = LineAt(i, c, n, w[n - 1])'
        BY <2>8 DEF FoldTo
      <4> QED BY <2>1, <2>7, <4>1
    <3>2. \A n \in 1..(at - 1) : w[n] = LineAt(i, c, n, w[n - 1])
      <4>1. ASSUME NEW n \in 1..(at - 1) PROVE w[n] = LineAt(i, c, n, w[n - 1])
        <5>1. n \in 1..at
          BY <2>5
        <5>2. w[n] = LineAt(i, c, n, w[n - 1])'
          BY <3>1, <5>1
        <5> QED BY <2>5, <5>2
      <4> QED BY <4>1
    <3>3. FoldTo(i, c, parcels[c], w, at - 1)
      BY <3>1, <3>2 DEF FoldTo
    <3>4. w[at] = IF CodeOf(i) = c THEN Told(i, Line(i), w[at - 1]) ELSE w[at - 1]
      <4>1. at \in 1..at
        BY <2>5
      <4>2. w[at] = LineAt(i, c, at, w[at - 1])'
        BY <3>1, <4>1
      <4> QED BY <2>5, <4>2
    <3>5. CASE c \in DOMAIN draft[i]
      BY <1>0, <2>1, <2>4, <3>3, <3>4, <3>5 DEF DraftOf, Row
    <3>6. CASE c \notin DOMAIN draft[i]
      <4>1. \A n \in 1..(at - 1) : ~ (n \in Vouched(i) /\ CodeOfLine(i, n) = c)
        BY <1>0, <2>1, <2>4, <3>6 DEF DraftOf
      <4>2. \A n \in 1..(at - 1) : w[n] = w[n - 1]
        BY <3>2, <4>1 DEF LineAt
      <4>3. w[at - 1] = w[0]
        BY <2>7, <4>2, Quiet
      <4> QED BY <3>1, <3>4, <3>6, <4>3 DEF Row
    <3> QED BY <3>4, <3>5, <3>6
  <2>9. ASSUME NEW c \in Codes, c \in DOMAIN draft'[i], NEW w, FoldTo(i, c, parcels[c], w, imp[i].at - 1)'
        PROVE  w[at] = draft'[i][c]
    BY <2>6, <2>8, <2>9 DEF Row
  <2>10. ASSUME NEW c \in Codes, c \notin DOMAIN draft'[i], NEW n \in 1..at
        PROVE  ~ (n \in Vouched(i)' /\ CodeOfLine(i, n)' = c)
    <3>1. c \notin DOMAIN draft[i] /\ c # CodeOf(i)
      BY <2>6, <2>10
    <3>2. CASE n = at
      BY <2>5, <3>1, <3>2
    <3>3. CASE n # at
      <4>1. n \in 1..(at - 1)
        BY <2>5, <3>3
      <4>2. ~ (n \in Vouched(i) /\ CodeOfLine(i, n) = c)
        BY <1>0, <2>1, <2>4, <3>1, <4>1 DEF DraftOf
      <4> QED BY <2>5, <3>3, <4>1, <4>2
    <3> QED BY <3>2, <3>3
  <2>11. DraftOf(i)'
    BY <1>b, <2>7, <2>9, <2>10 DEF DraftOf
  <2> QED BY <1>0, <1>c, <2>1, <2>2, <2>3, <2>11
<1>5. CASE Commit(i)
  <2>0. /\ \E st \in Steps : imp' = [imp EXCEPT ![i].step = st]
        /\ taken' = taken /\ imp'[i].step \in {"answered", "rolledBack"}
        /\ draft' = [draft EXCEPT ![i] = <<>>] /\ parcels' = [c \in Codes |-> Row(i, c)]
    BY <1>5, CommitMoves
  <2>1. imp'[i].step \in Ended /\ \A j \in Imports \ {i} : imp'[j] = imp[j]
    BY <2>0, StepMoves DEF Ended
  <2>2. \A j \in Imports \ {i} : draft'[j] = draft[j]
    BY <1>a, <2>0
  <2>3. ASSUME NEW j \in Imports \ {i}, NEW c \in DOMAIN draft[j] PROVE parcels'[c] = parcels[c]
    <3>1. c \notin DOMAIN draft[i] /\ c \in Codes
      BY <2>3 DEF Locked, ImportTyped
    <3> QED BY <2>0, <3>1 DEF Row
  <2>4. DraftOf(i)'
    BY <2>1 DEF DraftOf
  <2> QED BY <1>0, <1>c, <2>0, <2>1, <2>2, <2>3, <2>4
<1>6. CASE ImportFails(i)
  <2>0. /\ imp' = [imp EXCEPT ![i].step = "failed"] /\ taken' = taken /\ parcels' = parcels
        /\ draft' = [draft EXCEPT ![i] = <<>>]
    BY <1>6 DEF ImportFails
  <2>1. imp'[i].step = "failed" /\ \A j \in Imports \ {i} : imp'[j] = imp[j]
    BY <2>0, StepMoves DEF Steps
  <2>2. \A j \in Imports \ {i} : draft'[j] = draft[j]
    BY <1>a, <2>0
  <2>3. DraftOf(i)'
    BY <2>1 DEF DraftOf, Ended
  <2> QED BY <1>0, <1>c, <2>0, <2>1, <2>2, <2>3
<1> QED BY <1>1, <1>2, <1>3, <1>4, <1>5, <1>6

\* One line, at one code.
LEMMA LineOfTable ==
    ASSUME NEW i, NEW n, NEW tab, tab = [c \in Codes |-> tab[c]]
    PROVE  /\ ApplyLine(i, tab, n) = [c \in Codes |-> ApplyLine(i, tab, n)[c]]
           /\ \A c \in Codes : ApplyLine(i, tab, n)[c] = LineAt(i, c, n, tab[c])
<1> DEFINE k == CodeOfLine(i, n)
           told == Told(i, imp[i].lines[n], tab[k])
<1>1. CASE n \notin Vouched(i)
  BY <1>1 DEF ApplyLine, LineAt
<1>2. CASE n \in Vouched(i)
  <2>1. ApplyLine(i, tab, n) = [tab EXCEPT ![k] = told]
    BY <1>2 DEF ApplyLine
  <2>2. \A c : LineAt(i, c, n, tab[c]) = IF k = c THEN told ELSE tab[c]
    BY <1>2 DEF LineAt
  <2> HIDE DEF k, told
  <2> QED BY <2>1, <2>2
<1> QED BY <1>1, <1>2

\* The lines of an import, at one code.
LEMMA LinesAt ==
    ASSUME ImportTyped, NEW i \in Imports, NEW rows, rows = [c \in Codes |-> rows[c]]
    PROVE  /\ Applied(rows, i) = [c \in Codes |-> Applied(rows, i)[c]]
           /\ \A c \in Codes : \E w : /\ FoldTo(i, c, rows[c], w, Len(imp[i].lines))
                                      /\ Applied(rows, i)[c] = w[Len(imp[i].lines)]
<1> DEFINE k == Len(imp[i].lines)
           IsTable(tab) == tab = [c \in Codes |-> tab[c]]
<1>1. k \in Nat
  BY DEF ImportTyped, ImportRecord, Files
<1>2. PICK t : /\ t[0] = rows /\ \A n \in 1..k : t[n] = ApplyLine(i, t[n - 1], n)
               /\ Applied(rows, i) = t[k]
  BY FoldsTakeLines DEF LinesFold
<1> HIDE DEF k
<1>3. \A n \in 0..k : IsTable(t[n])
  <2> DEFINE T == {n \in 0..k : ~ IsTable(t[n])}
  <2>1. SUFFICES ASSUME T # {} PROVE FALSE
    OBVIOUS
  <2>2. T \subseteq Nat
    OBVIOUS
  <2>a. \A n : n \in T <=> n \in 0..k /\ ~ IsTable(t[n])
    OBVIOUS
  <2> HIDE DEF T
  <2>3. PICK m \in T : \A n \in T : m <= n
    BY <2>1, <2>2, LeastNatural
  <2>4. m \in 0..k /\ ~ IsTable(t[m])
    BY <2>a
  <2>5. m # 0
    BY <1>2, <2>4
  <2>6. m \in 1..k /\ m - 1 \in 0..k /\ m - 1 \notin T
    <3> HIDE DEF IsTable
    <3> QED BY <1>1, <2>3, <2>4, <2>5
  <2>7. IsTable(t[m - 1])
    BY <2>6, <2>a
  <2>8. t[m] = ApplyLine(i, t[m - 1], m)
    BY <1>2, <2>6
  <2>9. IsTable(ApplyLine(i, t[m - 1], m))
    BY <2>7, LineOfTable
  <2> QED BY <2>4, <2>8, <2>9
<1>4. ASSUME NEW c \in Codes
      PROVE  \E w : FoldTo(i, c, rows[c], w, k) /\ t[k][c] = w[k]
  <2> DEFINE w == [n \in 0..k |-> t[n][c]]
  <2>1. w[0] = rows[c] /\ t[k][c] = w[k]
    BY <1>1, <1>2
  <2>2. ASSUME NEW n \in 1..k PROVE w[n] = LineAt(i, c, n, w[n - 1])
    <3>1. n \in 0..k /\ n - 1 \in 0..k
      BY <1>1
    <3>2. t[n] = ApplyLine(i, t[n - 1], n) /\ IsTable(t[n - 1])
      BY <1>2, <1>3, <3>1
    <3>3. t[n][c] = LineAt(i, c, n, t[n - 1][c])
      BY <3>2, LineOfTable
    <3>4. w[n] = t[n][c] /\ w[n - 1] = t[n - 1][c]
      BY <3>1
    <3> HIDE DEF w
    <3> QED BY <3>3, <3>4
  <2> HIDE DEF w
  <2>3. FoldTo(i, c, rows[c], w, k)
    BY <2>1, <2>2 DEF FoldTo
  <2> QED BY <2>1, <2>3
<1>5. IsTable(t[k])
  BY <1>1, <1>3
<1>6. Applied(rows, i) = [c \in Codes |-> Applied(rows, i)[c]]
  BY <1>2, <1>5
<1>7. \A c \in Codes : \E w : FoldTo(i, c, rows[c], w, k) /\ Applied(rows, i)[c] = w[k]
  BY <1>2, <1>4
<1> QED BY <1>6, <1>7 DEF k

\* Two folds that take the same steps come to the same.
LEMMA SameFold ==
    ASSUME NEW k \in Nat, NEW s, NEW t, s[0] = t[0],
           \A n \in 1..k : s[n - 1] = t[n - 1] => s[n] = t[n]
    PROVE  s[k] = t[k]
<1> DEFINE T == {n \in 0..k : s[n] # t[n]}
<1>1. SUFFICES ASSUME T # {} PROVE FALSE
  BY SMT
<1>2. T \subseteq Nat
  OBVIOUS
<1>3. \A n : n \in T <=> n \in 0..k /\ s[n] # t[n]
  OBVIOUS
<1> HIDE DEF T
<1>4. PICK m \in T : \A n \in T : m <= n
  BY <1>1, <1>2, LeastNatural
<1>5. m \in 0..k /\ s[m] # t[m]
  BY <1>3
<1>6. m \in 1..k /\ m - 1 \in 0..k /\ m - 1 \notin T
  BY <1>4, <1>5
<1> QED BY <1>3, <1>5, <1>6

\* An import whose lines stay is applied the same.
LEMMA AppliedSame ==
    ASSUME ImportTyped, ImportTyped', NEW j \in Imports, imp'[j].kind = imp[j].kind,
           imp'[j].lines = imp[j].lines, taken'[j] = taken[j], Gone(j)' <=> Gone(j)
    PROVE  \A v : Applied(v, j)' = Applied(v, j)
<1> SUFFICES ASSUME NEW v PROVE Applied(v, j)' = Applied(v, j)
  OBVIOUS
<1>1. LinesFold /\ LinesFold'
  <2>1. LinesFold
    BY FoldsTakeLines
  <2>2. LinesFold'
    BY FoldsTakeLines, PTL
  <2> QED BY <2>1, <2>2
<1>2. PICK k : k = Len(imp[j].lines)
  OBVIOUS
<1>3. k \in Nat
  BY <1>2 DEF ImportTyped, ImportRecord, Files
<1>4. PICK s : /\ s[0] = v /\ \A n \in 1..k : s[n] = ApplyLine(j, s[n - 1], n)
               /\ Applied(v, j) = s[k]
  BY <1>1, <1>2 DEF LinesFold
<1>5. PICK t : /\ t[0] = v /\ \A n \in 1..k : t[n] = ApplyLine(j, t[n - 1], n)'
               /\ Applied(v, j)' = t[k]
  BY <1>1, <1>2 DEF LinesFold
<1>6. \A x, n : ApplyLine(j, x, n)' = ApplyLine(j, x, n)
  BY SameLines
<1>7. \A n \in 1..k : s[n - 1] = t[n - 1] => s[n] = t[n]
  BY <1>4, <1>5, <1>6
<1>8. s[k] = t[k]
  BY <1>3, <1>4, <1>5, <1>7, SameFold
<1> QED BY <1>4, <1>5, <1>8

\* An import that commits is applied after those before it; any other step leaves the result.
LEMMA ResultGrows ==
    ASSUME ImportTyped, ImportTyped', NEW i, order' = order \/ order' = Append(order, i),
           \A j \in Imports : (\E n \in 1..Len(order) : order[n] = j) => \A v : Applied(v, j)' = Applied(v, j)
    PROVE  \A r : r = Result =>
              /\ order' = order => Result' = r
              /\ order' = Append(order, i) => Result' = Applied(r, i)'
<1> SUFFICES ASSUME NEW r, r = Result
             PROVE  /\ order' = order => Result' = r
                    /\ order' = Append(order, i) => Result' = Applied(r, i)'
  OBVIOUS
<1>1. ImportsFold /\ ImportsFold'
  <2>1. ImportsFold
    BY FoldsTakeLines
  <2>2. ImportsFold'
    BY FoldsTakeLines, PTL
  <2> QED BY <2>1, <2>2
<1>2. PICK k : k = Len(order)
  OBVIOUS
<1>3. k \in Nat /\ \A n \in 1..k : order[n] \in Imports
  BY <1>2 DEF ImportTyped
<1>4. PICK s : /\ s[0] = Base /\ \A n \in 1..k : s[n] = Applied(s[n - 1], order[n])
               /\ r = s[k]
  BY <1>1, <1>2 DEF ImportsFold
<1>5. PICK t : /\ t[0] = Base' /\ \A n \in 1..Len(order') : t[n] = Applied(t[n - 1], order[n])'
               /\ Result' = t[Len(order')]
  BY <1>1 DEF ImportsFold
<1>6. Base' = Base
  BY DEF Base, Codes
<1>7. Len(order') >= k /\ \A n \in 1..k : order'[n] = order[n]
  BY <1>2, <1>3 DEF ImportTyped
<1>9. s[k] = t[k]
  <2>1. ASSUME NEW n \in 1..k, s[n - 1] = t[n - 1] PROVE s[n] = t[n]
    <3>1. PICK j \in Imports : order[n] = j /\ order'[n] = j
      BY <1>3, <1>7
    <3>2. \A v : Applied(v, j)' = Applied(v, j)
      BY <1>2, <3>1
    <3>3. s[n] = Applied(s[n - 1], j)
      BY <1>4, <3>1
    <3>4. n \in 1..Len(order')
      BY <1>3, <1>5, <1>7 DEF ImportTyped
    <3>5. t[n] = Applied(t[n - 1], order[n])'
      BY <1>5, <3>4
    <3>6. t[n] = Applied(t[n - 1], j)'
      BY <3>1, <3>5
    <3> QED BY <2>1, <3>2, <3>3, <3>6
  <2> QED BY <1>3, <1>4, <1>5, <1>6, <2>1, SameFold
<1>10. ASSUME order' = order PROVE Result' = r
  BY <1>2, <1>4, <1>5, <1>9, <1>10
<1>11. ASSUME order' = Append(order, i) PROVE Result' = Applied(r, i)'
  <2>1. Len(order') = k + 1 /\ order'[k + 1] = i
    BY <1>2, <1>11 DEF ImportTyped
  <2>2. k + 1 \in 1..Len(order') /\ (k + 1) - 1 = k
    BY <1>3, <2>1
  <2>3. t[k + 1] = Applied(t[(k + 1) - 1], i)'
    BY <1>5, <2>1, <2>2
  <2> QED BY <1>4, <1>5, <1>9, <2>1, <2>2, <2>3
<1> QED BY <1>10, <1>11

\* A commit stores what its lines make of the rows committed before, wherever in between its
\* lines ran.
LEMMA SerialStep ==
    ASSUME ImportTyped, ImportTyped', ImportAssumption, Counting, Settled, DraftHolds, ImportNext,
           parcels = Result
    PROVE  parcels' = Result'
<1>1. PICK i \in Imports : Started(i) \/ Passed(i) \/ Upsert(i) \/ Commit(i) \/ ImportFails(i)
  BY NextCases
<1>2. /\ imp[i].step \notin Ended
      /\ \A j \in Imports \ {i} : imp'[j] = imp[j] /\ taken'[j] = taken[j]
  <2>1. CASE Started(i)
    BY <2>1, StepMoves DEF Started, Ended, Steps
  <2>2. CASE Passed(i)
    BY <2>2, Moves DEF Passed, AtRow, Ended
  <2>3. CASE Upsert(i)
    <3>1. Counted(i, "rows", TRUE) /\ imp[i].step \notin Ended
      BY <2>3 DEF Upsert, Sent, Ended
    <3> QED BY <2>3, <3>1, Moves, UpsertTyped
  <2>4. CASE Commit(i)
    <3>1. /\ \E st \in Steps : imp' = [imp EXCEPT ![i].step = st]
          /\ taken' = taken /\ imp[i].step \notin Ended
      BY <2>4, CommitMoves DEF Ended
    <3> QED BY <3>1, StepMoves
  <2>5. CASE ImportFails(i)
    <3>1. /\ imp' = [imp EXCEPT ![i].step = "failed"] /\ "failed" \in Steps
          /\ taken' = taken /\ imp[i].step \notin Ended
      BY <2>5 DEF ImportFails, Ended, Steps
    <3> QED BY <3>1, StepMoves
  <2> QED BY <1>1, <2>1, <2>2, <2>3, <2>4, <2>5
<1>3. \A n \in 1..Len(order) : order[n] \in Imports \ {i}
  BY <1>2 DEF ImportTyped, Settled, Ended
<1>4. \A j \in Imports : (\E n \in 1..Len(order) : order[n] = j) => \A v : Applied(v, j)' = Applied(v, j)
  <2>1. ASSUME NEW j \in Imports \ {i} PROVE \A v : Applied(v, j)' = Applied(v, j)
    <3>1. Gone(j)' <=> Gone(j)
      BY <1>2 DEF Gone
    <3> QED BY <1>2, <3>1, AppliedSame
  <2> QED BY <1>3, <2>1
<1>5. PICK r : r = Result
  OBVIOUS
<1>6. CASE Started(i) \/ Passed(i) \/ Upsert(i) \/ ImportFails(i)
  <2>1. parcels' = parcels /\ order' = order
    BY <1>6 DEF Started, Passed, Upsert, ImportFails
  <2> QED BY <1>4, <1>5, <2>1, ResultGrows
<1>7. CASE Commit(i)
  <2>1. /\ parcels' = [c \in Codes |-> Row(i, c)] /\ order' = Append(order, i) /\ taken' = taken
        /\ \E st \in Steps : imp' = [imp EXCEPT ![i].step = st]
        /\ imp[i].at > Len(imp[i].lines) /\ (Gone(i)' <=> Gone(i))
    BY <1>7, CommitMoves
  <2>2. Result' = Applied(r, i)'
    BY <1>4, <1>5, <2>1, ResultGrows
  <2>3. Applied(r, i)' = Applied(r, i)
    <3>1. /\ imp'[i].kind = imp[i].kind /\ imp'[i].lines = imp[i].lines
          /\ taken'[i] = taken[i]
      BY <2>1, StepMoves
    <3> QED BY <2>1, <3>1, AppliedSame
  <2>4. PICK k : k = Len(imp[i].lines)
    OBVIOUS
  <2>5. k \in Nat /\ imp[i].at - 1 = k
    BY <2>1, <2>4 DEF ImportTyped, ImportRecord, Files, Counting
  <2>6. r = [c \in Codes |-> r[c]] /\ r = parcels
    BY <1>5 DEF ImportTyped
  <2>7. ASSUME NEW c \in Codes PROVE Applied(r, i)[c] = Row(i, c)
    <3>1. PICK w : FoldTo(i, c, r[c], w, k) /\ Applied(r, i)[c] = w[k]
      BY <2>4, <2>6, LinesAt
    <3>2. CASE c \in DOMAIN draft[i]
      BY <1>2, <2>5, <2>6, <3>1, <3>2 DEF DraftHolds, Row
    <3>3. CASE c \notin DOMAIN draft[i]
      <4>1. \A n \in 1..k : ~ (n \in Vouched(i) /\ CodeOfLine(i, n) = c)
        BY <1>2, <2>5, <3>3 DEF DraftHolds
      <4>2. \A n \in 1..k : w[n] = w[n - 1]
        BY <3>1, <4>1 DEF FoldTo, LineAt
      <4>3. w[k] = w[0] /\ w[0] = r[c]
        BY <2>5, <3>1, <4>2, Quiet DEF FoldTo
      <4> QED BY <2>6, <3>1, <3>3, <4>3 DEF Row
    <3> QED BY <3>2, <3>3
  <2>8. Applied(r, i) = [c \in Codes |-> Applied(r, i)[c]]
    BY <2>6, LinesAt
  <2>9. Applied(r, i) = [c \in Codes |-> Row(i, c)]
    BY <2>7, <2>8
  <2> QED BY <2>1, <2>2, <2>3, <2>9
<1> QED BY <1>1, <1>6, <1>7

\* The inductive invariant.
ImportInv == ImportTyped /\ Counting /\ Settled /\ Locked /\ DraftHolds /\ parcels = Result

\* Before the first line the drafts are empty and the register is what it was.
LEMMA ImportStarts ==
    ASSUME ImportAssumption, ImportInit PROVE ImportInv
<1>0. /\ parcels = Base /\ order = <<>>
      /\ draft = [i \in Imports |-> <<>>] /\ taken = [i \in Imports |-> {}]
  BY DEF ImportInit, Base
<1>1. ASSUME NEW i \in Imports
      PROVE  imp[i] \in ImportRecord /\ imp[i].step = "arrive" /\ imp[i].at = 1 /\ imp[i].count = 0 /\ imp[i].errors = 0
  <2>1. PICK k \in {"csv", "geojson"} : imp[i] \in
           {[step |-> "arrive", kind |-> k, lines |-> f, header |-> h, at |-> 1, count |-> 0, errors |-> 0] :
               f \in SeqOf(IF k = "csv" THEN CsvLines ELSE Features, MaxLines), h \in {TRUE, k # "csv"}}
    BY DEF ImportInit
  <2>2. PICK f \in SeqOf(IF k = "csv" THEN CsvLines ELSE Features, MaxLines), h \in {TRUE, k # "csv"} :
           imp[i] = [step |-> "arrive", kind |-> k, lines |-> f, header |-> h, at |-> 1, count |-> 0, errors |-> 0]
    <3> DEFINE F == SeqOf(IF k = "csv" THEN CsvLines ELSE Features, MaxLines)
               H == {TRUE, k # "csv"}
               R(f, h) == [step |-> "arrive", kind |-> k, lines |-> f, header |-> h, at |-> 1, count |-> 0, errors |-> 0]
    <3>1. imp[i] \in {R(f, h) : f \in F, h \in H}
      BY <2>1
    <3> HIDE DEF F, H, R
    <3>2. \E f \in F, h \in H : imp[i] = R(f, h)
      BY <3>1
    <3> QED BY <3>2 DEF F, H, R
  <2>3. f \in Files
    <3>1. PICK m \in 0..MaxLines : f \in [1..m -> IF k = "csv" THEN CsvLines ELSE Features]
      BY <2>2 DEF SeqOf
    <3>2. f \in [1..m -> CsvLines \cup Features] /\ m \in Nat /\ m <= MaxLines
      BY <3>1 DEF ImportAssumption
    <3> QED BY <3>2 DEF Files
  <2>4. h \in BOOLEAN /\ 1 \in Nat /\ 0 \in Nat
    OBVIOUS
  <2>5. imp[i].step = "arrive" /\ imp[i].at = 1 /\ imp[i].count = 0 /\ imp[i].errors = 0
    BY <2>2
  <2>6. imp[i] \in ImportRecord
    <3> HIDE DEF Files
    <3> QED BY <2>2, <2>3, <2>4 DEF ImportRecord, Steps
  <2> QED BY <2>5, <2>6
<1>2. imp = [i \in Imports |-> imp[i]]
  BY DEF ImportInit
<1>b. DOMAIN <<>> = {}
  OBVIOUS
<1>3. ImportTyped
  <2>1. parcels \in [Codes -> Parcel]
    <3>1. Old \in Parcel /\ NoParcel \in Parcel
      BY DEF Old, NoParcel, Parcel, Values
    <3> QED BY <1>0, <3>1 DEF Base
  <2>2. order \in Seq(Imports)
    BY <1>0
  <2>3. imp \in [Imports -> ImportRecord]
    BY <1>1, <1>2
  <2> QED BY <1>0, <1>b, <2>1, <2>2, <2>3 DEF ImportTyped
<1>4. Counting
  <2>1. Cardinality({}) = 0
    BY FS_EmptySet
  <2>2. ASSUME NEW i \in Imports PROVE Len(imp[i].lines) \in Nat
    BY <1>1 DEF ImportRecord, Files
  <2>3. \A i \in Imports : taken[i] = {}
    BY <1>0
  <2>4. ASSUME NEW i \in Imports
        PROVE  /\ imp[i].at >= 1 /\ imp[i].at <= Len(imp[i].lines) + 1
               /\ taken[i] \subseteq 1..(imp[i].at - 1)
               /\ imp[i].count = Cardinality(taken[i]) /\ imp[i].count <= imp[i].at - 1
    <3>1. imp[i].at = 1 /\ imp[i].count = 0 /\ taken[i] = {} /\ Len(imp[i].lines) \in Nat
      BY <1>1, <2>2, <2>3
    <3> QED BY <2>1, <3>1
  <2> QED BY <2>4 DEF Counting
<1>5. \A i \in Imports : DOMAIN draft[i] = {}
  BY <1>0, <1>b
<1>6. Settled
  <2>1. Len(order) = 0
    BY <1>0
  <2> QED BY <1>1, <1>5, <2>1 DEF Settled, Gone
<1>7. Locked
  BY <1>5 DEF Locked
<1>8. DraftHolds
  <2>1. \A i \in Imports : imp[i].at - 1 = 0
    BY <1>1
  <2> QED BY <1>5, <2>1 DEF DraftHolds
<1>9. parcels = Result
  <2>1. ImportsFold
    BY <1>3, FoldsTakeLines
  <2>2. Len(order) = 0
    BY <1>0
  <2> QED BY <1>0, <2>1, <2>2 DEF ImportsFold
<1> QED BY <1>3, <1>4, <1>6, <1>7, <1>8, <1>9 DEF ImportInv

\* A step that changes nothing keeps it all.
LEMMA ImportStutters ==
    ASSUME ImportAssumption, ImportInv, UNCHANGED importVars PROVE ImportInv'
<1>1. /\ parcels' = parcels /\ imp' = imp /\ draft' = draft /\ taken' = taken /\ order' = order
  BY DEF importVars
<1>2. Codes' = Codes
  BY DEF Codes
<1>3. ImportTyped'
  BY <1>1, <1>2 DEF ImportInv, ImportTyped
<1>4. Counting'
  BY <1>1 DEF ImportInv, Counting
<1>5. Settled'
  BY <1>1 DEF ImportInv, Settled, Gone
<1>6. Locked'
  BY <1>1 DEF ImportInv, Locked
<1>7. DraftHolds'
  <2>1. ASSUME NEW j \in Imports PROVE DraftOf(j)'
    <3>1. DraftOf(j)
      BY DEF ImportInv, DraftHolds, DraftOf
    <3>2. CASE imp[j].step \in Ended
      BY <1>1, <3>2 DEF DraftOf
    <3>3. CASE imp[j].step \notin Ended
      <4>1. Gone(j)' <=> Gone(j)
        BY <1>1 DEF Gone
      <4> QED BY <1>1, <1>2, <3>1, <3>3, <4>1, DraftStays
    <3> QED BY <3>2, <3>3
  <2> QED BY <2>1 DEF DraftHolds, DraftOf
<1>8. (parcels = Result)'
  <2>1. ASSUME NEW j \in Imports PROVE \A v : Applied(v, j)' = Applied(v, j)
    <3>1. Gone(j)' <=> Gone(j)
      BY <1>1 DEF Gone
    <3> QED BY <1>1, <1>3, <3>1, AppliedSame DEF ImportInv
  <2>2. PICK r : r = Result
    OBVIOUS
  <2>3. Result' = r
    BY <1>1, <1>3, <2>1, <2>2, ResultGrows DEF ImportInv
  <2> QED BY <1>1, <2>2, <2>3 DEF ImportInv
<1> QED BY <1>3, <1>4, <1>5, <1>6, <1>7, <1>8 DEF ImportInv

\* However many imports run side by side, over whatever lines and parcels, and wherever they wait
\* for one another or fail (integration.py, urban_analytics.py): the register is what the answered
\* imports counted, one after the other in the order of their commits, but for the GeoJSON
\* imports that the server refused a feature of, which leave nothing.
THEOREM RegisterIsSerial ==
    ASSUME ImportAssumption
    PROVE  ImportSpec => []ImportsAreSerial
<1>1. ImportInit => ImportInv
  BY ImportStarts
<1>2. ASSUME ImportInv, [ImportNext]_importVars PROVE ImportInv'
  <2>1. CASE ImportNext
    <3>1. ImportTyped'
      BY <1>2, <2>1, TypedStep DEF ImportInv
    <3> QED BY <1>2, <2>1, <3>1, CountingStep, SettledStep, LockedStep, DraftStep, SerialStep DEF ImportInv
  <2>2. CASE UNCHANGED importVars
    BY <1>2, <2>2, ImportStutters
  <2> QED BY <1>2, <2>1, <2>2
<1>3. ImportInv => ImportsAreSerial
  BY DEF ImportInv, ImportsAreSerial, Result, Base
<1> QED BY <1>1, <1>2, <1>3, PTL DEF ImportSpec
=============================================================================
