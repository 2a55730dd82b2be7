--------------------------- MODULE CompleteProofs ---------------------------
(***************************************************************************)
(* Proofs about the complete profile, for every set of calls and every     *)
(* ledger.  The inductive invariant IInv says what each loop has           *)
(* established about the part of the bundle it has walked; the theorems    *)
(* follow from it at the PASS verdict.                                     *)
(***************************************************************************)
EXTENDS Complete, SequenceTheorems, TLAPS

-----------------------------------------------------------------------------
(* The calls *)

\* What the assumption on Reviews says of the call in progress.
LEMMA ReviewFacts ==
  ASSUME review \in Reviews
  PROVE  /\ review.from \in Int /\ review.to \in Int
         /\ Len(review.checkpoints) \in Nat
         /\ review.checkpoints = <<>> <=> Len(review.checkpoints) = 0
         /\ Len(review.records) \in Nat
         /\ Len(review.executions) \in Nat
         /\ DOMAIN review.checkpoints = 1..Len(review.checkpoints)
         /\ DOMAIN review.records = 1..Len(review.records)
         /\ DOMAIN review.executions = 1..Len(review.executions)
         /\ \A k \in 1..Len(review.checkpoints) :
              review.checkpoints[k].start \in Int /\ review.checkpoints[k].end \in Int
         /\ \A k \in 1..Len(review.records) : review.records[k].record.time \in Int
<1>1. ASSUME NEW s, IsSequence(s)
      PROVE  Len(s) \in Nat /\ DOMAIN s = 1..Len(s) /\ (s = <<>> <=> Len(s) = 0)
  BY <1>1, LenProperties, EmptySeq DEF IsSequence
<1>2. /\ IsSequence(review.checkpoints)
      /\ IsSequence(review.records)
      /\ IsSequence(review.executions)
  BY ReviewAssumption
<1>3. /\ Len(review.checkpoints) \in Nat /\ DOMAIN review.checkpoints = 1..Len(review.checkpoints)
      /\ review.checkpoints = <<>> <=> Len(review.checkpoints) = 0
      /\ Len(review.records) \in Nat /\ DOMAIN review.records = 1..Len(review.records)
      /\ Len(review.executions) \in Nat /\ DOMAIN review.executions = 1..Len(review.executions)
  BY <1>1, <1>2
<1> QED BY <1>3, ReviewAssumption

\* In a tiling no instant lies in two periods.
LEMMA TilingUnique ==
  ASSUME review \in Reviews, NEW n \in 0..Len(review.checkpoints), Tiled(n),
         NEW t \in Int, NEW j \in 1..n, NEW k \in 1..n,
         InPeriod(review.checkpoints[j], t), InPeriod(review.checkpoints[k], t)
  PROVE  j = k
<1> DEFINE cps == review.checkpoints
<1>1. \A m \in 1..n : cps[m].start \in Int /\ cps[m].end \in Int
  BY ReviewFacts
<1>2. /\ cps[j].start =< t /\ t < cps[j].end
      /\ cps[k].start =< t /\ t < cps[k].end
  BY DEF InPeriod
<1>3. \A a, b \in 1..n : a < b => cps[a].end =< cps[b].start
  BY DEF Tiled
<1>4. cps[j].start \in Int /\ cps[j].end \in Int /\ cps[k].start \in Int /\ cps[k].end \in Int
  BY <1>1
<1>5. ~(j < k)
  <2> SUFFICES ASSUME j < k PROVE FALSE
    OBVIOUS
  <2>1. cps[j].end =< cps[k].start
    BY <1>3
  <2> QED BY <2>1, <1>2, <1>4
<1>6. ~(k < j)
  <2> SUFFICES ASSUME k < j PROVE FALSE
    OBVIOUS
  <2>1. cps[k].end =< cps[j].start
    BY <1>3
  <2> QED BY <2>1, <1>2, <1>4
<1> QED BY <1>5, <1>6

\* One more period that starts where the last one ends extends a tiling.
LEMMA TilingExtends ==
  ASSUME review \in Reviews, NEW n \in 1..Len(review.checkpoints), Tiled(n - 1),
         ~CheckpointRefuted(review, n)
  PROVE  Tiled(n)
<1> DEFINE cps == review.checkpoints
<1>1. cps[n].start < cps[n].end
  BY DEF CheckpointRefuted, CheckpointOk
<1>2. n > 1 => cps[n].start = cps[n - 1].end
  BY DEF CheckpointRefuted
<1>3. \A j \in 1..n : cps[j].start < cps[j].end
  BY <1>1, ReviewFacts DEF Tiled
<1>4. ASSUME NEW j \in 1..n, NEW k \in 1..n, j < k
      PROVE  cps[j].end =< cps[k].start
  <2>1. CASE k < n
    BY <1>4, <2>1 DEF Tiled
  <2>2. CASE k = n /\ j = n - 1
    BY <1>2, <1>4, <2>2, ReviewFacts
  <2>3. CASE k = n /\ j < n - 1
    <3>1. cps[j].end =< cps[n - 1].start
      BY <2>3, <1>4 DEF Tiled
    <3>2. cps[n - 1].start < cps[n - 1].end
      BY <2>3, <1>4, <1>3
    <3>3. cps[n].start = cps[n - 1].end
      BY <1>2, <2>3
    <3>4. /\ cps[j].end \in Int /\ cps[n].start \in Int
          /\ cps[n - 1].start \in Int /\ cps[n - 1].end \in Int
      BY <2>3, ReviewFacts, SMTT(30)
    <3> QED
      BY <3>1, <3>2, <3>3, <3>4, <2>3
  <2> QED BY <2>1, <2>2, <2>3, <1>4
<1>5. ASSUME NEW t \in cps[1].start .. cps[n].end - 1
      PROVE  \E j \in 1..n : InPeriod(cps[j], t)
  <2>1. CASE n = 1 \/ cps[n].start =< t
    <3>1. InPeriod(cps[n], t)
      BY <2>1, ReviewFacts DEF InPeriod
    <3> QED BY <3>1
  <2>2. CASE n > 1 /\ t < cps[n].start
    <3>1. t \in cps[1].start .. cps[n - 1].end - 1
      BY <2>2, <1>2, ReviewFacts
    <3>2. PICK j \in 1..(n - 1) : InPeriod(cps[j], t)
      BY <2>2, <3>1 DEF Tiled
    <3> QED BY <3>2
  <2> QED BY <2>1, <2>2, ReviewFacts
<1> QED BY <1>3, <1>4, <1>5 DEF Tiled

-----------------------------------------------------------------------------
(* The invariant holds initially and every step preserves it *)

\* At the start nothing has been counted.
LEMMA InitInv ==
  ASSUME Init
  PROVE  IInv
<1>1. PICK r \in Reviews : Start(r)
  BY DEF Init
<1> USE <1>1 DEF Start
<1>2. review \in Reviews /\ review = r
  OBVIOUS
<1>3. /\ CheckpointsSeen = 0 /\ RecordsSeen = 0 /\ CountsSeen = 0 /\ ExecutionsSeen = 0
  BY DEF CheckpointsSeen, RecordsSeen, CountsSeen, ExecutionsSeen
<1>4. TypeOK
  BY <1>2 DEF TypeOK, Steps, Bound, Oracle!Verdicts
<1>5. Tiled(CheckpointsSeen)
  BY <1>3 DEF Tiled
<1>6. RecordsInv
  BY <1>2, <1>3 DEF RecordsInv
<1>7. ExecutionsInv
  BY <1>3 DEF ExecutionsInv, ExecutedBefore
<1>8. CoverageInv /\ CountsInv
  BY <1>3 DEF CoverageInv, CountsInv
<1> QED BY <1>4, <1>5, <1>6, <1>7, <1>8 DEF IInv

\* A refuted bundle: nothing is claimed of it any more.
LEMMA FailInv ==
  ASSUME IInv, Fail
  PROVE  IInv'
<1>1. TypeOK'
  BY DEF IInv, Fail, TypeOK, Steps, Bound, Oracle!Verdicts, Leaves
<1> QED BY <1>1 DEF IInv, Fail

\* The arguments of the call, before any record.
LEMMA CheckInputsInv ==
  ASSUME IInv, CheckInputs
  PROVE  IInv'
<1>1. CASE InputsRefuted(review)
  BY <1>1, FailInv DEF CheckInputs
<1>2. CASE ~InputsRefuted(review)
  <2> USE <1>2 DEF CheckInputs, Goto
  <2>1. review \in Reviews
    BY DEF IInv, TypeOK
  <2>2. TypeOK'
    BY <2>1, ReviewFacts DEF IInv, TypeOK, Steps, Bound, Leaves
  <2>3. /\ CheckpointsSeen = 0 /\ RecordsSeen = 0 /\ CountsSeen = 0 /\ ExecutionsSeen = 0
        /\ CheckpointsSeen' = 0 /\ RecordsSeen' = 0 /\ CountsSeen' = 0 /\ ExecutionsSeen' = 0
    BY DEF CheckpointsSeen, RecordsSeen, CountsSeen, ExecutionsSeen
  <2>4. verdict = "none"
    BY DEF IInv, TypeOK
  <2>5. Tiled(CheckpointsSeen)'
    BY <2>3 DEF Tiled
  <2>6. CoverageInv' /\ CountsInv'
    BY <2>3 DEF CoverageInv, CountsInv
  <2>7. RecordsInv'
    BY <2>3, <2>4 DEF IInv, RecordsInv, LeafAt, TimeAt
  <2>8. ExecutionsInv'
    BY <2>3, <2>4 DEF IInv, ExecutionsInv
  <2> QED BY <2>2, <2>4, <2>5, <2>6, <2>7, <2>8 DEF IInv
<1> QED BY <1>1, <1>2

\* One more checkpoint of the chain, joined to the one before it.
LEMMA CheckCheckpointInv ==
  ASSUME IInv, CheckCheckpoint
  PROVE  IInv'
<1>1. CASE CheckpointRefuted(review, i)
  BY <1>1, FailInv DEF CheckCheckpoint
<1>2. CASE ~CheckpointRefuted(review, i)
  <2> USE <1>2 DEF CheckCheckpoint, Advance, At
  <2>1. review \in Reviews /\ verdict = "none"
    BY DEF IInv, TypeOK
  <2>2. i \in 1..Len(review.checkpoints)
    BY <2>1, ReviewFacts DEF IInv, TypeOK, Bound
  <2>3. TypeOK'
    BY <2>1, <2>2, ReviewFacts DEF IInv, TypeOK, Steps, Bound, Leaves
  <2>4. /\ CheckpointsSeen = i - 1 /\ CheckpointsSeen' = i
        /\ RecordsSeen = 0 /\ CountsSeen = 0 /\ ExecutionsSeen = 0
        /\ RecordsSeen' = 0 /\ CountsSeen' = 0 /\ ExecutionsSeen' = 0
    BY <2>2 DEF CheckpointsSeen, RecordsSeen, CountsSeen, ExecutionsSeen
  <2>5. Tiled(i)
    BY <2>1, <2>2, <2>4, TilingExtends DEF IInv
  <2>6. Tiled(CheckpointsSeen)'
    BY <2>4, <2>5 DEF Tiled
  <2>7. CoverageInv' /\ CountsInv'
    BY <2>4 DEF CoverageInv, CountsInv
  <2>8. RecordsInv'
    BY <2>1, <2>4 DEF IInv, RecordsInv, LeafAt, TimeAt
  <2>9. ExecutionsInv'
    BY <2>1, <2>4 DEF IInv, ExecutionsInv
  <2> QED BY <2>1, <2>3, <2>6, <2>7, <2>8, <2>9 DEF IInv
<1> QED BY <1>1, <1>2

\* A step and a position name a gap.
LEMMA GapIn ==
  /\ \A n \in Nat : <<"outside", n>> \in Gap
  /\ \A n \in Nat : <<"withheld", n>> \in Gap
  /\ \A n \in Nat : <<"outsideSpan", n>> \in Gap
  /\ <<"coverage", 0>> \in Gap
  /\ NoKeys \in Gap
  BY DEF Gap, NoKeys

\* The chain's span against the period asked for.
LEMMA CheckCoverageInv ==
  ASSUME IInv, CheckCoverage
  PROVE  IInv'
<1> USE DEF CheckCoverage, Goto, Past
<1>1. review \in Reviews /\ verdict = "none"
  BY DEF IInv, TypeOK
<1>2. i = Len(review.checkpoints) + 1
  BY <1>1, ReviewFacts DEF IInv, TypeOK, Bound
<1>3. TypeOK'
  BY <1>1, ReviewFacts DEF IInv, TypeOK, Steps, Bound, Leaves
<1>4. /\ CheckpointsSeen = Len(review.checkpoints)
      /\ CheckpointsSeen' = Len(review.checkpoints)
      /\ RecordsSeen = 0 /\ CountsSeen = 0 /\ ExecutionsSeen = 0
      /\ RecordsSeen' = 0 /\ CountsSeen' = 0 /\ ExecutionsSeen' = 0
  BY <1>1, <1>2, ReviewFacts DEF CheckpointsSeen, RecordsSeen, CountsSeen, ExecutionsSeen
<1>5. /\ incomplete' \in Seq(Gap)
      /\ incomplete' = <<>> => incomplete = <<>> /\ ~CoverageLacking(review)
  <2>1. incomplete \in Seq(Gap)
    BY DEF IInv
  <2>2. <<"coverage", 0>> \in Gap
    BY GapIn
  <2> DEFINE G == Append(incomplete, <<"coverage", 0>>)
             T == Seq(Gap)
  <2>3. incomplete' = IF CoverageLacking(review) THEN G ELSE incomplete
    OBVIOUS
  <2> HIDE DEF G, T, CheckCoverage
  <2>4. incomplete \in T /\ G \in T /\ G # <<>>
    BY <2>1, <2>2, AppendProperties DEF G, T
  <2>5. incomplete' \in T /\ (incomplete' = <<>> => incomplete = <<>> /\ ~CoverageLacking(review))
    BY <2>3, <2>4
  <2> QED BY <2>5 DEF T
<1>6. Tiled(CheckpointsSeen)'
  BY <1>1, <1>4 DEF IInv, Tiled
<1>7. CoverageInv'
  BY <1>5 DEF CoverageInv, CoverageLacking, FirstStart, LastEnd
<1>8. CountsInv'
  BY <1>4 DEF CountsInv
<1>9. RecordsInv'
  BY <1>1, <1>4 DEF IInv, RecordsInv, LeafAt, TimeAt
<1>10. ExecutionsInv'
  BY <1>1, <1>4 DEF IInv, ExecutionsInv
<1> QED BY <1>1, <1>3, <1>5, <1>6, <1>7, <1>8, <1>9, <1>10 DEF IInv

\* Once every period is accepted, the one slot of an instant is the period
\* that holds it.
LEMMA SlotIsThePeriod ==
  ASSUME review \in Reviews, Tiled(Len(review.checkpoints)), NEW t \in Int,
         NEW j \in DOMAIN review.checkpoints
  PROVE  InPeriod(review.checkpoints[j], t)
           <=> Slots(review, t) # {} /\ j = Slot(review, t)
<1>1. \A k, m \in Slots(review, t) : k = m
  <2> SUFFICES ASSUME NEW k \in Slots(review, t), NEW m \in Slots(review, t)
               PROVE  k = m
    OBVIOUS
  <2>1. /\ k \in 1..Len(review.checkpoints) /\ m \in 1..Len(review.checkpoints)
        /\ Len(review.checkpoints) \in 0..Len(review.checkpoints)
    BY ReviewFacts DEF Slots
  <2>2. InPeriod(review.checkpoints[k], t) /\ InPeriod(review.checkpoints[m], t)
    BY DEF Slots
  <2> QED BY <2>1, <2>2, TilingUnique
<1>2. \A k \in Slots(review, t) : k \in Int
  BY ReviewFacts DEF Slots
<1>3. Slots(review, t) # {} => Slot(review, t) \in Slots(review, t)
  BY <1>1, <1>2 DEF Slot
<1> QED BY <1>1, <1>3 DEF Slots

\* One more record: its leaf is new, and it goes to the checkpoint that covers
\* its time.
LEMMA CheckRecordInv ==
  ASSUME IInv, CheckRecord
  PROVE  IInv'
<1>1. CASE RecordRefuted(review, i, byLeaf)
  BY <1>1, FailInv DEF CheckRecord
<1>2. CASE ~RecordRefuted(review, i, byLeaf)
  <2> DEFINE cps == review.checkpoints
             t   == TimeAt(i)
  <2> USE <1>2 DEF Advance, At
  <2>1. review \in Reviews /\ verdict = "none" /\ pc = "records"
    BY DEF IInv, TypeOK, CheckRecord
  <2>2. i \in 1..Len(review.records) /\ t \in Int
    BY <2>1, ReviewFacts DEF IInv, TypeOK, Bound, TimeAt, CheckRecord
  <2>3. /\ byLeaf' = byLeaf \cup {LeafAt(i)}
        /\ i' = i + 1
        /\ UNCHANGED <<review, pc, verdict, reason, executed>>
    BY DEF CheckRecord, LeafAt
  <2>4. /\ Slots(review, t) = {} =>
             /\ perCp' = perCp
             /\ cps # <<>> => incomplete' # <<>>
        /\ Slots(review, t) # {} =>
             /\ perCp' = [perCp EXCEPT ![Slot(review, t)] = @ \cup {LeafAt(i)}]
             /\ incomplete' = incomplete
        /\ incomplete' = <<>> => incomplete = <<>>
        /\ incomplete' \in Seq(Gap)
    <3>1. incomplete \in Seq(Gap)
      BY DEF IInv
    <3>2. <<"outside", i>> \in Gap
      <4>1. i \in Nat
        BY <2>1, <2>2, ReviewFacts
      <4> QED BY <4>1, GapIn
    <3>3. /\ Append(incomplete, <<"outside", i>>) \in Seq(Gap)
          /\ Append(incomplete, <<"outside", i>>) # <<>>
      BY <3>1, <3>2, AppendProperties
    <3> QED BY <2>1, <3>1, <3>3 DEF CheckRecord, LeafAt, TimeAt
  <2>5. /\ CheckpointsSeen = Len(cps) /\ CheckpointsSeen' = Len(cps)
        /\ RecordsSeen = i - 1 /\ RecordsSeen' = i
        /\ CountsSeen = 0 /\ ExecutionsSeen = 0
        /\ CountsSeen' = 0 /\ ExecutionsSeen' = 0
    BY <2>1, <2>2, <2>3 DEF CheckpointsSeen, RecordsSeen, CountsSeen, ExecutionsSeen
  <2>6. Tiled(Len(cps)) /\ Tiled(CheckpointsSeen)'
    BY <2>1, <2>3, <2>5 DEF IInv, Tiled
  <2>7. \A j \in DOMAIN cps :
          InPeriod(cps[j], t) <=> Slots(review, t) # {} /\ j = Slot(review, t)
    BY <2>1, <2>2, <2>6, SlotIsThePeriod
  <2>8. DOMAIN perCp = DOMAIN cps
    BY DEF IInv, TypeOK
  <2>9. \A j \in DOMAIN cps :
          perCp'[j] = perCp[j] \cup (IF InPeriod(cps[j], t) THEN {LeafAt(i)} ELSE {})
    <3> SUFFICES ASSUME NEW j \in DOMAIN cps
                 PROVE  perCp'[j] = perCp[j] \cup
                          (IF InPeriod(cps[j], t) THEN {LeafAt(i)} ELSE {})
      OBVIOUS
    <3>1. CASE Slots(review, t) = {}
      BY <3>1, <2>4, <2>7
    <3>2. CASE Slots(review, t) # {} /\ j = Slot(review, t)
      <4>1. InPeriod(cps[j], t)
        BY <3>2, <2>7
      <4>2. perCp'[j] = perCp[j] \cup {LeafAt(i)}
        BY <3>2, <2>4, <2>8
      <4> QED BY <4>1, <4>2
    <3>3. CASE Slots(review, t) # {} /\ j # Slot(review, t)
      <4>1. ~InPeriod(cps[j], t)
        BY <3>3, <2>7
      <4>2. perCp'[j] = perCp[j]
        BY <3>3, <2>4, <2>8
      <4> QED BY <4>1, <4>2
    <3> QED BY <3>1, <3>2, <3>3
  <2>10. perCp' \in [DOMAIN cps -> SUBSET byLeaf']
    <3>1. DOMAIN perCp' = DOMAIN cps /\ perCp' = [j \in DOMAIN cps |-> perCp'[j]]
      <4>1. perCp = [j \in DOMAIN cps |-> perCp[j]]
        BY DEF IInv, TypeOK
      <4> QED BY <2>4, <4>1
    <3>2. \A j \in DOMAIN cps : perCp[j] \subseteq byLeaf
      BY DEF IInv, TypeOK
    <3>3. \A j \in DOMAIN cps : perCp'[j] \subseteq byLeaf'
      BY <2>3, <2>9, <3>2
    <3> QED BY <3>1, <3>3
  <2>11. TypeOK'
    <3>1. byLeaf' \subseteq Leaves(review)
      BY <2>1, <2>2, <2>3, ReviewFacts DEF IInv, TypeOK, Leaves, LeafAt
    <3>2. i' \in 1..(Len(review.records) + 1)
      BY <2>1, <2>2, <2>3, ReviewFacts
    <3> QED BY <2>1, <2>3, <2>10, <3>1, <3>2 DEF TypeOK, Steps, Bound
  <2>12. CoverageInv'
    BY <2>1, <2>3, <2>4 DEF IInv, CoverageInv, CoverageLacking, FirstStart, LastEnd
  <2>13. CountsInv'
    BY <2>5 DEF CountsInv
  <2>14. ExecutionsInv'
    BY <2>1, <2>3, <2>4, <2>5 DEF IInv, ExecutionsInv, ExecutedBefore
  <2>15. RecordsInv'
    <3>1. 1..i = (1..(i - 1)) \cup {i}
      BY <2>2
    <3>2. byLeaf = {LeafAt(k) : k \in 1..(i - 1)}
      BY <2>1, <2>5 DEF IInv, RecordsInv
    <3>3. byLeaf' = {LeafAt(k) : k \in 1..i}
      BY <2>3, <3>1, <3>2
    <3>4. ASSUME NEW j \in DOMAIN cps
          PROVE  perCp'[j] = {LeafAt(k) : k \in {m \in 1..i : InPeriod(cps[j], TimeAt(m))}}
      <4>1. perCp[j] = {LeafAt(k) : k \in {m \in 1..(i - 1) : InPeriod(cps[j], TimeAt(m))}}
        BY <2>1, <2>5 DEF IInv, RecordsInv
      <4> QED BY <4>1, <2>9, <3>1
    <3>5. incomplete' = <<>> => \A k \in 1..i : Slots(review, TimeAt(k)) # {}
      <4> SUFFICES ASSUME incomplete' = <<>>
                   PROVE  \A k \in 1..i : Slots(review, TimeAt(k)) # {}
        OBVIOUS
      <4>1. \A k \in 1..(i - 1) : Slots(review, TimeAt(k)) # {}
        BY <2>1, <2>4, <2>5 DEF IInv, RecordsInv
      <4>2. cps # <<>>
        BY <2>1, <2>4 DEF IInv, CoverageInv, CoverageLacking
      <4>3. Slots(review, TimeAt(i)) # {}
        BY <2>4, <4>2
      <4> QED BY <3>1, <4>1, <4>3
    <3> QED BY <2>3, <2>5, <3>3, <3>4, <3>5 DEF RecordsInv, LeafAt, TimeAt
  <2> QED BY <2>1, <2>3, <2>4, <2>6, <2>11, <2>12, <2>13, <2>14, <2>15 DEF IInv
<1> QED BY <1>1, <1>2

\* All records are walked.
LEMMA EndRecordsInv ==
  ASSUME IInv, EndRecords
  PROVE  IInv'
<1> USE DEF EndRecords, Goto, Past
<1>1. review \in Reviews /\ verdict = "none"
  BY DEF IInv, TypeOK
<1>2. i = Len(review.records) + 1
  BY <1>1, ReviewFacts DEF IInv, TypeOK, Bound
<1>3. TypeOK'
  BY <1>1, ReviewFacts DEF IInv, TypeOK, Steps, Bound, Leaves
<1>4. /\ CheckpointsSeen' = CheckpointsSeen /\ RecordsSeen' = RecordsSeen
      /\ ExecutionsSeen' = ExecutionsSeen /\ CountsSeen' = 0
  BY <1>1, <1>2, ReviewFacts DEF CheckpointsSeen, RecordsSeen, CountsSeen, ExecutionsSeen
<1>5. Tiled(CheckpointsSeen)' /\ CoverageInv'
  BY <1>1, <1>4 DEF IInv, Tiled, CoverageInv, CoverageLacking, FirstStart, LastEnd
<1>6. CountsInv'
  BY <1>4 DEF CountsInv
<1>7. RecordsInv'
  BY <1>1, <1>4 DEF IInv, RecordsInv, LeafAt, TimeAt
<1>8. ExecutionsInv'
  BY <1>1, <1>4 DEF IInv, ExecutionsInv
<1> QED BY <1>1, <1>3, <1>5, <1>6, <1>7, <1>8 DEF IInv

\* One more checkpoint whose count and hash the records meet.
LEMMA CheckCountInv ==
  ASSUME IInv, CheckCount
  PROVE  IInv'
<1>1. CASE CountRefuted(review.checkpoints[i], perCp[i])
  BY <1>1, FailInv DEF CheckCount
<1>2. CASE ~CountRefuted(review.checkpoints[i], perCp[i])
  <2>1. review \in Reviews /\ verdict = "none" /\ pc = "counts"
    BY DEF IInv, TypeOK, CheckCount, At
  <2>2. i \in 1..Len(review.checkpoints) /\ i \in Nat
    BY <2>1, ReviewFacts DEF IInv, TypeOK, Bound, CheckCount, At
  <2>3. i' = i + 1 /\ UNCHANGED <<review, pc, verdict, reason, byLeaf, perCp, executed>>
    BY <1>2 DEF CheckCount, Advance
  <2>4. /\ incomplete' \in Seq(Gap)
        /\ incomplete' = <<>> => /\ incomplete = <<>>
                                /\ ~CountLacking(review.checkpoints[i], perCp[i])
    <3>1. incomplete \in Seq(Gap) /\ <<"withheld", i>> \in Gap
      BY <2>2, GapIn DEF IInv
    <3>2. /\ Append(incomplete, <<"withheld", i>>) \in Seq(Gap)
          /\ Append(incomplete, <<"withheld", i>>) # <<>>
      BY <3>1, AppendProperties
    <3> QED BY <1>2, <3>1, <3>2 DEF CheckCount
  <2>5. /\ CheckpointsSeen' = CheckpointsSeen /\ RecordsSeen' = RecordsSeen
        /\ ExecutionsSeen' = ExecutionsSeen /\ CountsSeen = i - 1 /\ CountsSeen' = i
    BY <2>1, <2>2, <2>3 DEF CheckpointsSeen, RecordsSeen, CountsSeen, ExecutionsSeen
  <2>6. TypeOK'
    <3>1. i' \in 1..(Len(review.checkpoints) + 1)
      BY <2>1, <2>2, <2>3, ReviewFacts
    <3> QED BY <2>1, <2>3, <3>1 DEF IInv, TypeOK, Steps, Bound, Leaves
  <2>7. Tiled(CheckpointsSeen)'
    BY <2>1, <2>3, <2>5 DEF IInv, Tiled
  <2>8. CoverageInv'
    BY <2>1, <2>3, <2>4 DEF IInv, CoverageInv, CoverageLacking, FirstStart, LastEnd
  <2>9. CountsInv'
    <3> SUFFICES ASSUME incomplete' = <<>>, NEW j \in 1..i
                 PROVE  RecordsHash(perCp[j]) = review.checkpoints[j].hash
      BY <2>3, <2>5 DEF CountsInv, RecordsHash, Hash
    <3>1. CASE j = i
      BY <1>2, <2>4, <3>1 DEF CountRefuted
    <3>2. CASE j \in 1..(i - 1)
      BY <2>1, <2>4, <2>5, <3>2 DEF IInv, CountsInv
    <3> QED BY <2>2, <3>1, <3>2
  <2>10. RecordsInv'
    BY <2>1, <2>3, <2>4, <2>5 DEF IInv, RecordsInv, LeafAt, TimeAt
  <2>11. ExecutionsInv'
    <3>1. ExecutionsSeen = 0
      BY <2>1 DEF ExecutionsSeen
    <3> QED BY <2>1, <2>3, <2>5, <3>1 DEF IInv, ExecutionsInv, ExecutedBefore
  <2> QED BY <2>1, <2>3, <2>4, <2>6, <2>7, <2>8, <2>9, <2>10, <2>11 DEF IInv
<1> QED BY <1>1, <1>2

\* All counts are compared.
LEMMA EndCountsInv ==
  ASSUME IInv, EndCounts
  PROVE  IInv'
<1> USE DEF EndCounts, Goto, Past
<1>1. review \in Reviews /\ verdict = "none"
  BY DEF IInv, TypeOK
<1>2. i = Len(review.checkpoints) + 1
  BY <1>1, ReviewFacts DEF IInv, TypeOK, Bound
<1>3. TypeOK'
  BY <1>1, ReviewFacts DEF IInv, TypeOK, Steps, Bound, Leaves
<1>4. /\ CheckpointsSeen' = CheckpointsSeen /\ RecordsSeen' = RecordsSeen
      /\ CountsSeen' = CountsSeen /\ ExecutionsSeen = 0 /\ ExecutionsSeen' = 0
  BY <1>1, <1>2, ReviewFacts DEF CheckpointsSeen, RecordsSeen, CountsSeen, ExecutionsSeen
<1>5. Tiled(CheckpointsSeen)' /\ CoverageInv'
  BY <1>1, <1>4 DEF IInv, Tiled, CoverageInv, CoverageLacking, FirstStart, LastEnd
<1>6. CountsInv'
  BY <1>1, <1>4 DEF IInv, CountsInv, RecordsHash, Hash
<1>7. RecordsInv'
  BY <1>1, <1>4 DEF IInv, RecordsInv, LeafAt, TimeAt
<1>8. ExecutionsInv'
  BY <1>1, <1>4 DEF IInv, ExecutionsInv
<1> QED BY <1>1, <1>3, <1>5, <1>6, <1>7, <1>8 DEF IInv

\* One more execution: its action is disclosed, and executed once.
LEMMA CheckExecutionInv ==
  ASSUME IInv, CheckExecution
  PROVE  IInv'
<1>1. CASE ExecutionRefuted(review, i, byLeaf, executed)
  BY <1>1, FailInv DEF CheckExecution
<1>2. CASE ~ExecutionRefuted(review, i, byLeaf, executed)
  <2> DEFINE e       == review.executions[i]
             unkeyed == IF review.executorKeys = NoKeySet /\ NoKeys \notin Gaps(incomplete)
                        THEN Append(incomplete, NoKeys) ELSE incomplete
  <2>1. review \in Reviews /\ verdict = "none" /\ pc = "executions"
    BY DEF IInv, TypeOK, CheckExecution, At
  <2>2. i \in 1..Len(review.executions) /\ i \in Nat
    <3>1. i \in 1..(Bound(pc) + 1) /\ i =< Len(review.executions)
      BY <2>1 DEF IInv, TypeOK, CheckExecution, At
    <3>2. Bound(pc) = Len(review.executions) /\ Len(review.executions) \in Nat
      BY <2>1, ReviewFacts DEF Bound
    <3> QED BY <3>1, <3>2
  <2>3. /\ i' = i + 1 /\ UNCHANGED <<review, pc, verdict, reason, byLeaf, perCp>>
        /\ executed' = IF e.result = "EXECUTED" THEN executed \cup {e.actionId} ELSE executed
        /\ incomplete' = IF ExecutionOutside(review, e)
                         THEN Append(unkeyed, <<"outsideSpan", i>>) ELSE unkeyed
    BY <1>2 DEF CheckExecution, Advance
  <2>4. incomplete' \in Seq(Gap) /\ (incomplete' = <<>> =>
             incomplete = <<>> /\ review.executorKeys # NoKeySet)
    <3>1. incomplete \in Seq(Gap) /\ NoKeys \in Gap /\ <<"outsideSpan", i>> \in Gap
      BY <2>2, GapIn DEF IInv
    <3>2. Append(incomplete, NoKeys) \in Seq(Gap) /\ Append(incomplete, NoKeys) # <<>>
      BY <3>1, AppendProperties
    <3>3. Gaps(<<>>) = {}
      BY DEF Gaps
    <3>4. unkeyed \in Seq(Gap) /\ (unkeyed = <<>> =>
             incomplete = <<>> /\ review.executorKeys # NoKeySet)
      BY <3>1, <3>2, <3>3
    <3> HIDE DEF unkeyed
    <3>5. /\ Append(unkeyed, <<"outsideSpan", i>>) \in Seq(Gap)
          /\ Append(unkeyed, <<"outsideSpan", i>>) # <<>>
      BY <3>1, <3>4, AppendProperties
    <3> QED BY <2>3, <3>4, <3>5
  <2>5. /\ CheckpointsSeen' = CheckpointsSeen /\ RecordsSeen' = RecordsSeen
        /\ CountsSeen' = CountsSeen /\ ExecutionsSeen = i - 1 /\ ExecutionsSeen' = i
    <3>1. i' = i + 1 /\ pc' = pc /\ review' = review
      BY <2>3
    <3> QED BY <2>1, <2>2, <3>1 DEF CheckpointsSeen, RecordsSeen, CountsSeen, ExecutionsSeen
  <2>6. TypeOK'
    <3>1. i' \in 1..(Len(review.executions) + 1)
      <4>1. i' = i + 1
        BY <2>3
      <4> QED BY <2>1, <2>2, <4>1, ReviewFacts
    <3> QED BY <2>1, <2>3, <3>1 DEF IInv, TypeOK, Steps, Bound, Leaves
  <2>7. Tiled(CheckpointsSeen)'
    BY <2>1, <2>3, <2>5 DEF IInv, Tiled
  <2>8. CoverageInv'
    BY <2>1, <2>3, <2>4 DEF IInv, CoverageInv, CoverageLacking, FirstStart, LastEnd
  <2>9. CountsInv'
    BY <2>1, <2>3, <2>4, <2>5 DEF IInv, CountsInv, RecordsHash, Hash
  <2>10. RecordsInv'
    BY <2>1, <2>3, <2>4, <2>5 DEF IInv, RecordsInv, LeafAt, TimeAt
  <2>11. ExecutionsInv'
    <3>1. /\ \A k \in 1..(i - 1) :
               ~ExecutionRefuted(review, k, byLeaf, ExecutedBefore(review, k))
          /\ executed = ExecutedBefore(review, i)
      BY <2>1, <2>2, <2>5 DEF IInv, ExecutionsInv
    <3>2. \A k \in 1..i : ~ExecutionRefuted(review, k, byLeaf, ExecutedBefore(review, k))
      <4>1. ~ExecutionRefuted(review, i, byLeaf, ExecutedBefore(review, i))
        BY <1>2, <3>1
      <4>2. \A k \in 1..i : k = i \/ k \in 1..(i - 1)
        BY <2>2
      <4> QED BY <3>1, <4>1, <4>2
    <3>3. executed' = ExecutedBefore(review, i + 1)
      <4>1. (i + 1) - 1 = i /\ 1..i = (1..(i - 1)) \cup {i}
        BY <2>2
      <4>2. executed' = IF e.result = "EXECUTED" THEN executed \cup {e.actionId} ELSE executed
        BY <2>3
      <4> QED BY <3>1, <4>1, <4>2 DEF ExecutedBefore
    <3>4. /\ review' = review /\ byLeaf' = byLeaf /\ ExecutionsSeen' = i
          /\ incomplete' = <<>> => review.executorKeys # NoKeySet
      BY <2>3, <2>4, <2>5
    <3> QED BY <3>2, <3>3, <3>4 DEF ExecutionsInv
  <2> QED BY <2>1, <2>3, <2>4, <2>6, <2>7, <2>8, <2>9, <2>10, <2>11 DEF IInv
<1> QED BY <1>1, <1>2

\* At the end the gaps alone decide between INCOMPLETE and PASS.
LEMMA FinishInv ==
  ASSUME IInv, Finish
  PROVE  IInv'
<1> USE DEF Finish, Past
<1>1. review \in Reviews /\ verdict = "none"
  BY DEF IInv, TypeOK
<1>2. i = Len(review.executions) + 1
  BY <1>1, ReviewFacts DEF IInv, TypeOK, Bound
<1>3. TypeOK'
  BY <1>1 DEF IInv, TypeOK, Steps, Bound, Leaves, Oracle!Verdicts
<1>4. /\ CheckpointsSeen' = CheckpointsSeen /\ RecordsSeen' = RecordsSeen
      /\ CountsSeen' = CountsSeen /\ ExecutionsSeen' = ExecutionsSeen
  BY <1>1, <1>2, ReviewFacts DEF CheckpointsSeen, RecordsSeen, CountsSeen, ExecutionsSeen
<1>5. Tiled(CheckpointsSeen)' /\ CoverageInv'
  BY <1>1, <1>4 DEF IInv, Tiled, CoverageInv, CoverageLacking, FirstStart, LastEnd
<1>6. CountsInv'
  BY <1>1, <1>4 DEF IInv, CountsInv, RecordsHash, Hash
<1>7. RecordsInv'
  BY <1>1, <1>4 DEF IInv, RecordsInv, LeafAt, TimeAt
<1>8. ExecutionsInv'
  BY <1>1, <1>4 DEF IInv, ExecutionsInv
<1>9. incomplete' \in Seq(Gap) /\ (verdict' = "PASS" => incomplete' = <<>>)
  BY DEF IInv
<1> QED BY <1>3, <1>5, <1>6, <1>7, <1>8, <1>9, <1>1 DEF IInv

\* Every step of verify_complete keeps the invariant.
LEMMA NextInv ==
  ASSUME IInv, [Next]_vars
  PROVE  IInv'
<1>1. CASE UNCHANGED vars
  <2> USE <1>1 DEF vars
  <2>1. /\ CheckpointsSeen' = CheckpointsSeen /\ RecordsSeen' = RecordsSeen
        /\ CountsSeen' = CountsSeen /\ ExecutionsSeen' = ExecutionsSeen
    BY DEF CheckpointsSeen, RecordsSeen, CountsSeen, ExecutionsSeen
  <2>2. TypeOK'
    BY DEF IInv, TypeOK, Bound, Leaves
  <2>3. verdict # "FAIL" => /\ Tiled(CheckpointsSeen)' /\ CoverageInv'
                           /\ CountsInv' /\ ExecutionsInv'
    BY <2>1 DEF IInv, Tiled, CoverageInv, CoverageLacking, FirstStart, LastEnd,
       CountsInv, RecordsHash, Hash, ExecutionsInv
  <2>4. verdict # "FAIL" => RecordsInv'
    BY <2>1 DEF IInv, RecordsInv, LeafAt, TimeAt
  <2> QED BY <2>2, <2>3, <2>4 DEF IInv
<1> QED BY <1>1, CheckInputsInv, CheckCheckpointInv, CheckCoverageInv, CheckRecordInv,
           EndRecordsInv, CheckCountInv, EndCountsInv, CheckExecutionInv, FinishInv DEF Next

\* The inductive invariant holds throughout a run.
THEOREM Invariant == Spec => []IInv
BY InitInv, NextInv, PTL DEF Spec
-----------------------------------------------------------------------------
(* What follows at the verdict *)

\* Every loop of the verifier stays inside the array it walks, what it collects
\* comes from the bundle, and a verdict is there exactly when it has returned:
\* for every call, whatever the bundle.
THEOREM TypeCorrect == Spec => []TypeOK
<1>1. IInv => TypeOK
  BY DEF IInv
<1> QED BY <1>1, Invariant, PTL

\* At PASS each period holds exactly the counted leaves stamped in it.
LEMMA PassPeriods ==
  ASSUME IInv, verdict = "PASS", NEW L, CountedFrom(L),
         NEW j \in DOMAIN review.checkpoints
  PROVE  {LeafAt(k) : k \in {m \in DOMAIN review.records :
                              InPeriod(review.checkpoints[j], TimeAt(m))}}
           = {l \in L : InPeriod(review.checkpoints[j], LeafRecord(l).time)}
<1>1. review \in Reviews /\ pc = "done" /\ incomplete = <<>>
  BY DEF IInv, TypeOK
<1>2. RecordsSeen = Len(review.records) /\ CountsSeen = Len(review.checkpoints)
  BY <1>1 DEF RecordsSeen, CountsSeen
<1>3. RecordsHash(perCp[j]) = review.checkpoints[j].hash
  BY <1>1, <1>2, ReviewFacts DEF IInv, CountsInv
<1>4. RecordsHash(perCp[j])
        = RecordsHash({l \in L : InPeriod(review.checkpoints[j], LeafRecord(l).time)})
  BY <1>3 DEF CountedFrom
<1>5. perCp[j] = {l \in L : InPeriod(review.checkpoints[j], LeafRecord(l).time)}
  BY <1>4 DEF RecordsHash, Hash
<1> QED BY <1>1, <1>2, <1>5, ReviewFacts DEF IInv, RecordsInv

\* The promise of the profile, for any ledger whose times are instants.
LEMMA PassIsWhole ==
  ASSUME IInv, verdict = "PASS", NEW L, CountedFrom(L), \A l \in L : LeafRecord(l).time \in Int
  PROVE  /\ \A l \in L : InWindow(l) => l \in Leaves(review)
         /\ Leaves(review) \subseteq L
<1> DEFINE cps == review.checkpoints
<1>1. review \in Reviews /\ pc = "done" /\ incomplete = <<>>
  BY DEF IInv, TypeOK
<1>2. /\ RecordsSeen = Len(review.records) /\ CheckpointsSeen = Len(cps)
      /\ ~CoverageLacking(review)
  BY <1>1 DEF RecordsSeen, CheckpointsSeen, IInv, CoverageInv
<1>3. ASSUME NEW l \in L, InWindow(l)
      PROVE  l \in Leaves(review)
  <2> DEFINE t == LeafRecord(l).time
  <2>1. Len(cps) > 0 /\ t \in cps[1].start .. cps[Len(cps)].end - 1
    <3>1. Len(cps) \in Nat /\ Len(cps) > 0
      BY <1>1, <1>2, ReviewFacts DEF CoverageLacking
    <3>2. /\ cps[1].start \in Int /\ cps[Len(cps)].end \in Int
          /\ review.from \in Int /\ review.to \in Int /\ t \in Int
      BY <1>1, <3>1, ReviewFacts
    <3>3. cps[1].start =< review.from /\ cps[Len(cps)].end >= review.to
      BY <1>2, <3>2 DEF CoverageLacking, FirstStart, LastEnd
    <3>4. review.from =< t /\ t < review.to
      BY <1>3 DEF InWindow
    <3> QED BY <3>1, <3>2, <3>3, <3>4
  <2>2. PICK j \in 1..Len(cps) : InPeriod(cps[j], t)
    BY <1>2, <2>1 DEF IInv, Tiled
  <2>3. l \in {LeafAt(k) : k \in {m \in DOMAIN review.records : InPeriod(cps[j], TimeAt(m))}}
    BY <1>1, <2>2, PassPeriods, ReviewFacts
  <2> QED BY <2>3 DEF Leaves, LeafAt
<1>4. ASSUME NEW k \in DOMAIN review.records
      PROVE  LeafAt(k) \in L
  <2>1. Slots(review, TimeAt(k)) # {}
    BY <1>1, <1>2, ReviewFacts DEF IInv, RecordsInv
  <2>2. PICK j \in DOMAIN cps : InPeriod(cps[j], TimeAt(k))
    BY <2>1 DEF Slots
  <2>3. LeafAt(k) \in {l \in L : InPeriod(cps[j], LeafRecord(l).time)}
    BY <2>2, PassPeriods
  <2> QED BY <2>3
<1> QED BY <1>3, <1>4 DEF Leaves, LeafAt

\* Section 8.4: under a chain that committed to what the issuer counted, PASS
\* means the bundle holds every counted record of the review window and nothing
\* that was not counted.
THEOREM WindowSound == Spec => []WholeWindow
<1>1. IInv => WholeWindow
  BY PassIsWhole, CountedAssumption DEF WholeWindow, WholeWindowOf, LeafRecord
<1> QED BY <1>1, Invariant, PTL

\* Under the same condition, every action a designated executor's log says it
\* executed was counted, allowed, bound to its USE, and executed once.
THEOREM ExecutedSound == Spec => []ExecutedWasCounted
<1>1. ASSUME IInv, verdict = "PASS", CountedFrom(Counted),
             NEW k \in DOMAIN review.executions, review.executions[k].result = "EXECUTED"
      PROVE  LET e == review.executions[k] IN
             /\ {e.actionLeaf, e.useLeaf} \subseteq Counted
             /\ LeafRecord(e.actionLeaf).outcome = "ALLOWED"
             /\ LeafRecord(e.useLeaf).actionId = LeafRecord(e.actionLeaf).id
             /\ e.key \in review.executorKeys
             /\ \A m \in DOMAIN review.executions \ {k} :
                  review.executions[m].result = "EXECUTED" =>
                    review.executions[m].actionLeaf # e.actionLeaf
  <2> DEFINE entry(m) == review.executions[m]
  <2>1. review \in Reviews /\ pc = "done" /\ incomplete = <<>>
    BY <1>1 DEF IInv, TypeOK
  <2>2. ExecutionsSeen = Len(review.executions) /\ RecordsSeen = Len(review.records)
    BY <2>1 DEF ExecutionsSeen, RecordsSeen
  <2>3. byLeaf \subseteq Counted
    <3>1. byLeaf \subseteq Leaves(review)
      BY <1>1 DEF IInv, TypeOK
    <3> QED BY <1>1, <3>1, PassIsWhole, CountedAssumption DEF LeafRecord
  <2>4. review.executorKeys # NoKeySet
    <3>1. Len(review.executions) > 0
      BY <1>1, <2>1, ReviewFacts
    <3> QED BY <1>1, <2>1, <2>2, <3>1 DEF IInv, ExecutionsInv
  <2>5. \A m \in DOMAIN review.executions :
          ~ExecutionRefuted(review, m, byLeaf, ExecutedBefore(review, m))
    BY <1>1, <2>1, <2>2, ReviewFacts DEF IInv, ExecutionsInv
  <2>6. ASSUME NEW m \in DOMAIN review.executions, entry(m).result = "EXECUTED"
        PROVE  /\ entry(m).actionLeaf \in byLeaf /\ entry(m).useLeaf \in byLeaf
               /\ LeafRecord(entry(m).actionLeaf).outcome = "ALLOWED"
               /\ LeafRecord(entry(m).actionLeaf).id = entry(m).actionId
               /\ LeafRecord(entry(m).useLeaf).actionId = entry(m).actionId
               /\ entry(m).key \in review.executorKeys
               /\ entry(m).actionId \notin ExecutedBefore(review, m)
    <3>1. entry(m).actionLeaf # NoHash /\ entry(m).useLeaf # NoHash
      BY <2>5, <2>6 DEF ExecutionRefuted, ExecutionOk
    <3>2. ~ActionRefuted(entry(m), byLeaf) /\ ~UseRefuted(entry(m), byLeaf)
      BY <2>5, <3>1 DEF ExecutionRefuted
    <3>3. entry(m).key \in review.executorKeys /\ entry(m).actionId \notin ExecutedBefore(review, m)
      BY <2>4, <2>5, <2>6 DEF ExecutionRefuted
    <3> QED BY <2>6, <3>2, <3>3 DEF ActionRefuted, UseRefuted
  <2>7. ASSUME NEW m \in DOMAIN review.executions, NEW n \in DOMAIN review.executions,
               m < n, entry(m).result = "EXECUTED", entry(n).result = "EXECUTED"
        PROVE  entry(m).actionLeaf # entry(n).actionLeaf
    <3>1. m \in 1..(n - 1)
      BY <2>1, <2>7, ReviewFacts
    <3>2. entry(m).actionId \in ExecutedBefore(review, n)
      BY <2>7, <3>1 DEF ExecutedBefore
    <3>3. entry(m).actionId # entry(n).actionId
      BY <2>6, <2>7, <3>2
    <3> QED BY <2>6, <2>7, <3>3
  <2>8. \A m \in DOMAIN review.executions \ {k} : m < k \/ k < m
    BY <2>1, ReviewFacts
  <2> QED BY <1>1, <2>3, <2>6, <2>7, <2>8
<1>2. IInv => ExecutedWasCounted
  BY <1>1 DEF ExecutedWasCounted, ExecutedCountedIn
<1> QED BY <1>2, Invariant, PTL

-----------------------------------------------------------------------------
(* The verdict is the order-free answer *)

\* What a step leaves alone stays so.
LEMMA AnswerFrame ==
  ASSUME review' = review
  PROVE  /\ UNCHANGED <<CheckpointsSeen, RecordsSeen, CountsSeen>> /\ SoundSoFar
              /\ (pc' # "inputs" => ~InputsRefuted(review)) => SoundSoFar'
         /\ UNCHANGED <<pc, incomplete, RecordsSeen, CountsSeen, ExecutionsSeen>> /\ GapsInv
              => GapsInv'
         /\ Oracle!Answer(review)' = Oracle!Answer(review)
<1>1. UNCHANGED <<CheckpointsSeen, RecordsSeen, CountsSeen>> /\ SoundSoFar
        /\ (pc' # "inputs" => ~InputsRefuted(review)) => SoundSoFar'
  BY DEF SoundSoFar
<1>2. UNCHANGED <<pc, incomplete, RecordsSeen, CountsSeen, ExecutionsSeen>> /\ GapsInv
        => GapsInv'
  BY DEF GapsInv
<1> QED BY <1>1, <1>2

\* At the start nothing has been judged.
LEMMA InitAnswer ==
  ASSUME Init
  PROVE  AnswerInv
<1>1. PICK r \in Reviews : Start(r)
  BY DEF Init
<1> USE <1>1 DEF Start
<1>2. /\ CheckpointsSeen = 0 /\ RecordsSeen = 0 /\ CountsSeen = 0 /\ ExecutionsSeen = 0
  BY DEF CheckpointsSeen, RecordsSeen, CountsSeen, ExecutionsSeen
<1>3. SoundSoFar /\ GapsInv
  BY <1>2 DEF SoundSoFar, GapsInv
<1> QED BY <1>3 DEF AnswerInv

\* A run that stops at a contradiction answers FAIL, which is the call's answer
\* whatever the loops had still to walk.
LEMMA FailAnswer ==
  ASSUME Fail, Refuted(review)
  PROVE  AnswerInv'
<1>1. Oracle!Answer(review)' = Oracle!Answer(review)
  BY AnswerFrame DEF Fail
<1> QED BY <1>1 DEF Fail, AnswerInv, Oracle!Answer

\* Before its verdict a run has one of the five steps in progress.
LEMMA Running ==
  ASSUME IInv, AnswerInv, pc # "done"
  PROVE  /\ verdict = "none" /\ review \in Reviews /\ i \in 1..(Bound(pc) + 1)
         /\ SoundSoFar /\ GapsInv /\ RecordsInv /\ ExecutionsInv
BY DEF IInv, TypeOK, AnswerInv

\* The inputs are refuted exactly as the order-free rule refutes them.
LEMMA CheckInputsAnswer ==
  ASSUME IInv, AnswerInv, CheckInputs
  PROVE  AnswerInv'
<1>1. CASE InputsRefuted(review)
  BY <1>1, FailAnswer DEF CheckInputs, Refuted
<1>2. CASE ~InputsRefuted(review)
  <2> USE <1>2 DEF CheckInputs, Goto
  <2>1. verdict = "none" /\ SoundSoFar /\ GapsInv
    BY Running
  <2>2. /\ RecordsSeen = 0 /\ CountsSeen = 0 /\ ExecutionsSeen = 0
        /\ UNCHANGED <<CheckpointsSeen, RecordsSeen, CountsSeen, ExecutionsSeen>>
    BY DEF CheckpointsSeen, RecordsSeen, CountsSeen, ExecutionsSeen
  <2>3. SoundSoFar'
    BY <2>1, <2>2, AnswerFrame
  <2>4. GapsInv'
    BY <2>1, <2>2 DEF GapsInv
  <2> QED BY <2>1, <2>3, <2>4 DEF AnswerInv
<1> QED BY <1>1, <1>2

\* So is the checkpoint at i.
LEMMA CheckCheckpointAnswer ==
  ASSUME IInv, AnswerInv, CheckCheckpoint
  PROVE  AnswerInv'
<1>1. verdict = "none" /\ review \in Reviews /\ pc = "checkpoints" /\ SoundSoFar /\ GapsInv
  BY Running DEF CheckCheckpoint, At
<1>2. i \in 1..Len(review.checkpoints)
  BY <1>1, Running, ReviewFacts DEF Bound, CheckCheckpoint, At
<1>3. CASE CheckpointRefuted(review, i)
  <2>1. Refuted(review)
    BY <1>1, <1>2, <1>3, ReviewFacts DEF Refuted
  <2> QED BY <1>3, <2>1, FailAnswer DEF CheckCheckpoint
<1>4. CASE ~CheckpointRefuted(review, i)
  <2>1. i' = i + 1 /\ UNCHANGED <<review, pc, verdict, incomplete>>
    BY <1>4 DEF CheckCheckpoint, Advance
  <2>2. /\ CheckpointsSeen = i - 1 /\ CheckpointsSeen' = i
        /\ RecordsSeen = 0 /\ CountsSeen = 0
        /\ UNCHANGED <<RecordsSeen, CountsSeen, ExecutionsSeen>>
    BY <1>1, <1>2, <2>1 DEF CheckpointsSeen, RecordsSeen, CountsSeen, ExecutionsSeen
  <2>3. \A k \in 1..i : k = i \/ k \in 1..(i - 1)
    BY <1>2
  <2>4. \A k \in 1..i : ~CheckpointRefuted(review, k)
    BY <1>1, <1>4, <2>2, <2>3 DEF SoundSoFar
  <2>5. SoundSoFar'
    BY <1>1, <2>1, <2>2, <2>4 DEF SoundSoFar
  <2>6. GapsInv'
    BY <1>1, <2>1, <2>2, AnswerFrame
  <2> QED BY <1>1, <2>1, <2>5, <2>6 DEF AnswerInv
<1> QED BY <1>3, <1>4

\* A period not covered is noted as the rule finds it lacking.
LEMMA CheckCoverageAnswer ==
  ASSUME IInv, AnswerInv, CheckCoverage
  PROVE  AnswerInv'
<1>1. verdict = "none" /\ review \in Reviews /\ pc = "checkpoints" /\ SoundSoFar /\ GapsInv
  BY Running DEF CheckCoverage, Past
<1>2. i = Len(review.checkpoints) + 1
  BY <1>1, Running, ReviewFacts DEF Bound, CheckCoverage, Past
<1>3. /\ incomplete' = IF CoverageLacking(review)
                       THEN Append(incomplete, <<"coverage", 0>>) ELSE incomplete
      /\ pc' = "records" /\ i' = 1 /\ UNCHANGED <<review, verdict>>
  BY DEF CheckCoverage, Goto
<1>4. /\ RecordsSeen = 0 /\ CountsSeen = 0 /\ ExecutionsSeen = 0
      /\ UNCHANGED <<CheckpointsSeen, RecordsSeen, CountsSeen, ExecutionsSeen>>
  BY <1>1, <1>2, <1>3, ReviewFacts DEF CheckpointsSeen, RecordsSeen, CountsSeen, ExecutionsSeen
<1>5. SoundSoFar'
  BY <1>1, <1>3, <1>4, AnswerFrame DEF SoundSoFar
<1>6. incomplete' # <<>> <=> incomplete # <<>> \/ CoverageLacking(review)
  <2>1. Append(incomplete, <<"coverage", 0>>) # <<>>
    BY GapIn, AppendProperties DEF IInv
  <2> QED BY <1>3, <2>1
<1>7. incomplete = <<>>
  BY <1>1, <1>4 DEF GapsInv
<1>8. GapsInv'
  BY <1>3, <1>4, <1>6, <1>7 DEF GapsInv
<1> QED BY <1>1, <1>3, <1>5, <1>8 DEF AnswerInv

\* The record at i is refuted exactly when the rule refutes it, and noted when
\* no checkpoint covers it.
LEMMA CheckRecordAnswer ==
  ASSUME IInv, AnswerInv, CheckRecord
  PROVE  AnswerInv'
<1>1. /\ verdict = "none" /\ review \in Reviews /\ pc = "records"
      /\ SoundSoFar /\ GapsInv /\ RecordsInv
  BY Running DEF CheckRecord, At
<1>2. i \in 1..Len(review.records) /\ i \in Nat
  BY <1>1, Running, ReviewFacts DEF Bound, CheckRecord, At
<1>3. RecordsSeen = i - 1 /\ byLeaf = LeavesBefore(review, i)
  BY <1>1 DEF RecordsSeen, RecordsInv, LeavesBefore, LeafAt
<1>4. CASE RecordRefuted(review, i, byLeaf)
  <2>1. Refuted(review)
    BY <1>1, <1>2, <1>3, <1>4, ReviewFacts DEF Refuted, LeavesBefore
  <2> QED BY <1>4, <2>1, FailAnswer DEF CheckRecord
<1>5. CASE ~RecordRefuted(review, i, byLeaf)
  <2>1. /\ i' = i + 1 /\ UNCHANGED <<review, pc, verdict>>
        /\ incomplete' = IF LackingPeriod(review, i) /\ review.checkpoints # <<>>
                         THEN Append(incomplete, <<"outside", i>>) ELSE incomplete
    BY <1>5 DEF CheckRecord, Advance, LackingPeriod
  <2>2. /\ RecordsSeen' = i /\ CountsSeen = 0 /\ ExecutionsSeen = 0
        /\ UNCHANGED <<CheckpointsSeen, CountsSeen, ExecutionsSeen>>
    BY <1>1, <1>2, <2>1 DEF CheckpointsSeen, RecordsSeen, CountsSeen, ExecutionsSeen
  <2>3. \A k \in 1..i : k = i \/ k \in 1..(i - 1)
    BY <1>2
  <2>4. \A k \in 1..i : ~RecordRefuted(review, k, LeavesBefore(review, k))
    BY <1>1, <1>3, <1>5, <2>3 DEF SoundSoFar
  <2>5. SoundSoFar'
    BY <1>1, <2>1, <2>2, <2>4 DEF SoundSoFar
  <2>6. incomplete' # <<>> <=>
          incomplete # <<>> \/ (LackingPeriod(review, i) /\ review.checkpoints # <<>>)
    <3>1. incomplete \in Seq(Gap) /\ <<"outside", i>> \in Gap
      BY <1>2, GapIn DEF IInv
    <3>2. Append(incomplete, <<"outside", i>>) # <<>>
      BY <3>1, AppendProperties
    <3> QED BY <2>1, <3>2
  <2>7. GapsInv'
    <3>1. incomplete # <<>> <=>
            CoverageLacking(review) \/ \E k \in 1..(i - 1) : LackingPeriod(review, k)
      BY <1>1, <1>3, <2>2 DEF GapsInv
    <3>2. review.checkpoints = <<>> => CoverageLacking(review)
      BY DEF CoverageLacking
    <3>3. incomplete' # <<>> <=>
            CoverageLacking(review) \/ \E k \in 1..i : LackingPeriod(review, k)
      BY <1>2, <2>3, <2>6, <3>1, <3>2
    <3> QED BY <1>1, <2>1, <2>2, <3>3 DEF GapsInv
  <2> QED BY <1>1, <2>1, <2>5, <2>7 DEF AnswerInv
<1> QED BY <1>4, <1>5

\* The end of the records judges nothing.
LEMMA EndRecordsAnswer ==
  ASSUME IInv, AnswerInv, EndRecords
  PROVE  AnswerInv'
<1>1. verdict = "none" /\ review \in Reviews /\ pc = "records" /\ SoundSoFar /\ GapsInv
  BY Running DEF EndRecords, Past
<1>2. i = Len(review.records) + 1
  BY <1>1, Running, ReviewFacts DEF Bound, EndRecords, Past
<1>3. pc' = "counts" /\ i' = 1 /\ UNCHANGED <<review, verdict, incomplete>>
  BY DEF EndRecords, Goto
<1>4. UNCHANGED <<CheckpointsSeen, RecordsSeen, CountsSeen, ExecutionsSeen>>
  BY <1>1, <1>2, <1>3, ReviewFacts DEF CheckpointsSeen, RecordsSeen, CountsSeen, ExecutionsSeen
<1>5. SoundSoFar'
  BY <1>1, <1>3, <1>4, AnswerFrame DEF SoundSoFar
<1>6. GapsInv'
  BY <1>1, <1>3, <1>4 DEF GapsInv
<1> QED BY <1>1, <1>3, <1>5, <1>6 DEF AnswerInv

\* Once the records are walked, the leaves collected are the bundle's, and each
\* period has those stamped in it.
LEMMA PeriodsWhole ==
  ASSUME review \in Reviews, RecordsInv, RecordsSeen = Len(review.records)
  PROVE  /\ byLeaf = Leaves(review)
         /\ \A j \in DOMAIN review.checkpoints :
              perCp[j] = LeavesIn(review, review.checkpoints[j])
<1>1. byLeaf = Leaves(review)
  BY ReviewFacts DEF RecordsInv, Leaves, LeafAt
<1>2. ASSUME NEW j \in DOMAIN review.checkpoints
      PROVE  perCp[j] = LeavesIn(review, review.checkpoints[j])
  <2> DEFINE cp == review.checkpoints[j]
  <2>1. perCp[j] = {LeafAt(k) : k \in {m \in DOMAIN review.records : InPeriod(cp, TimeAt(m))}}
    BY ReviewFacts DEF RecordsInv
  <2>2. \A k \in DOMAIN review.records : LeafRecord(LeafAt(k)).time = TimeAt(k)
    BY DEF LeafRecord, LeafAt, TimeAt, RecordLeaf
  <2>3. Leaves(review) = {LeafAt(k) : k \in DOMAIN review.records}
    BY DEF Leaves, LeafAt
  <2> HIDE DEF cp
  <2> QED BY <2>1, <2>2, <2>3 DEF LeavesIn, cp
<1> QED BY <1>1, <1>2

\* A count is contradicted exactly when the rule says so.
LEMMA CheckCountAnswer ==
  ASSUME IInv, AnswerInv, CheckCount
  PROVE  AnswerInv'
<1>1. /\ verdict = "none" /\ review \in Reviews /\ pc = "counts"
      /\ SoundSoFar /\ GapsInv /\ RecordsInv
  BY Running DEF CheckCount, At
<1>2. i \in 1..Len(review.checkpoints) /\ i \in Nat /\ i \in DOMAIN review.checkpoints
  BY <1>1, Running, ReviewFacts DEF Bound, CheckCount, At
<1>3. CountsSeen = i - 1 /\ perCp[i] = LeavesIn(review, review.checkpoints[i])
  <2>1. RecordsSeen = Len(review.records)
    BY <1>1 DEF RecordsSeen
  <2> QED BY <1>1, <1>2, <2>1, PeriodsWhole DEF CountsSeen
<1>4. CASE CountContradicts(review, i)
  <2>1. Refuted(review)
    BY <1>2, <1>4 DEF Refuted, CountContradicts
  <2> QED BY <1>3, <1>4, <2>1, FailAnswer DEF CheckCount, CountContradicts
<1>5. CASE ~CountContradicts(review, i)
  <2>1. /\ i' = i + 1 /\ UNCHANGED <<review, pc, verdict>>
        /\ incomplete' = IF LackingCount(review, i)
                         THEN Append(incomplete, <<"withheld", i>>) ELSE incomplete
    BY <1>3, <1>5 DEF CheckCount, Advance, LackingCount, CountContradicts
  <2>2. /\ CountsSeen' = i /\ ExecutionsSeen = 0
        /\ UNCHANGED <<CheckpointsSeen, RecordsSeen, ExecutionsSeen>>
    BY <1>1, <1>2, <2>1 DEF CheckpointsSeen, RecordsSeen, CountsSeen, ExecutionsSeen
  <2>3. \A k \in 1..i : k = i \/ k \in 1..(i - 1)
    BY <1>2
  <2>4. \A k \in 1..i : ~CountContradicts(review, k)
    BY <1>1, <1>3, <1>5, <2>3 DEF SoundSoFar
  <2>5. SoundSoFar'
    BY <1>1, <2>1, <2>2, <2>4 DEF SoundSoFar
  <2>6. incomplete' # <<>> <=> incomplete # <<>> \/ LackingCount(review, i)
    <3>1. incomplete \in Seq(Gap) /\ <<"withheld", i>> \in Gap
      BY <1>2, GapIn DEF IInv
    <3>2. Append(incomplete, <<"withheld", i>>) # <<>>
      BY <3>1, AppendProperties
    <3> QED BY <2>1, <3>2
  <2>7. GapsInv'
    <3> DEFINE before == \/ CoverageLacking(review)
                         \/ \E k \in 1..RecordsSeen : LackingPeriod(review, k)
    <3>1. incomplete # <<>> <=> before \/ \E k \in 1..(i - 1) : LackingCount(review, k)
      BY <1>1, <1>3, <2>2 DEF GapsInv
    <3> HIDE DEF before
    <3>2. incomplete' # <<>> <=> before \/ \E k \in 1..i : LackingCount(review, k)
      BY <1>2, <2>3, <2>6, <3>1
    <3> QED BY <1>1, <2>1, <2>2, <3>2 DEF GapsInv, before
  <2> QED BY <1>1, <2>1, <2>5, <2>7 DEF AnswerInv
<1> QED BY <1>4, <1>5

\* The end of the counts judges nothing.
LEMMA EndCountsAnswer ==
  ASSUME IInv, AnswerInv, EndCounts
  PROVE  AnswerInv'
<1>1. verdict = "none" /\ review \in Reviews /\ pc = "counts" /\ SoundSoFar /\ GapsInv
  BY Running DEF EndCounts, Past
<1>2. i = Len(review.checkpoints) + 1
  BY <1>1, Running, ReviewFacts DEF Bound, EndCounts, Past
<1>3. pc' = "executions" /\ i' = 1 /\ UNCHANGED <<review, verdict, incomplete>>
  BY DEF EndCounts, Goto
<1>4. UNCHANGED <<CheckpointsSeen, RecordsSeen, CountsSeen, ExecutionsSeen>>
  BY <1>1, <1>2, <1>3, ReviewFacts DEF CheckpointsSeen, RecordsSeen, CountsSeen, ExecutionsSeen
<1>5. SoundSoFar'
  BY <1>1, <1>3, <1>4, AnswerFrame DEF SoundSoFar
<1>6. GapsInv'
  BY <1>1, <1>3, <1>4 DEF GapsInv
<1> QED BY <1>1, <1>3, <1>5, <1>6 DEF AnswerInv

\* The execution at i is refuted, or noted, as the rule says.
LEMMA CheckExecutionAnswer ==
  ASSUME IInv, AnswerInv, CheckExecution
  PROVE  AnswerInv'
<1> DEFINE e       == review.executions[i]
           unkeyed == IF review.executorKeys = NoKeySet /\ NoKeys \notin Gaps(incomplete)
                      THEN Append(incomplete, NoKeys) ELSE incomplete
<1>1. /\ verdict = "none" /\ review \in Reviews /\ pc = "executions"
      /\ SoundSoFar /\ GapsInv /\ RecordsInv /\ ExecutionsInv
  BY Running DEF CheckExecution, At
<1>2. i \in 1..Len(review.executions) /\ i \in Nat /\ i \in DOMAIN review.executions
  BY <1>1, Running, ReviewFacts DEF Bound, CheckExecution, At
<1>3. /\ ExecutionsSeen = i - 1 /\ byLeaf = Leaves(review)
      /\ executed = ExecutedBefore(review, i)
  <2>1. RecordsSeen = Len(review.records) /\ ExecutionsSeen = i - 1
    BY <1>1 DEF RecordsSeen, ExecutionsSeen
  <2>2. executed = ExecutedBefore(review, ExecutionsSeen + 1)
    BY <1>1 DEF ExecutionsInv
  <2>3. ExecutionsSeen + 1 = i
    BY <1>2, <2>1
  <2> QED BY <1>1, <2>1, <2>2, <2>3, PeriodsWhole
<1>4. CASE ExecutionRefuted(review, i, byLeaf, executed)
  <2>1. Refuted(review)
    BY <1>2, <1>3, <1>4 DEF Refuted
  <2> QED BY <1>4, <2>1, FailAnswer DEF CheckExecution
<1>5. CASE ~ExecutionRefuted(review, i, byLeaf, executed)
  <2>1. /\ i' = i + 1 /\ UNCHANGED <<review, pc, verdict>>
        /\ incomplete' = IF ExecutionOutside(review, e)
                         THEN Append(unkeyed, <<"outsideSpan", i>>) ELSE unkeyed
    BY <1>5 DEF CheckExecution, Advance
  <2>2. /\ ExecutionsSeen' = i
        /\ UNCHANGED <<CheckpointsSeen, RecordsSeen, CountsSeen>>
    BY <1>1, <1>2, <2>1 DEF CheckpointsSeen, RecordsSeen, CountsSeen, ExecutionsSeen
  <2>3. \A k \in 1..i : k = i \/ k \in 1..(i - 1)
    BY <1>2
  <2>4. SoundSoFar'
    BY <1>1, <2>1, <2>2, AnswerFrame DEF SoundSoFar
  <2>5. incomplete' # <<>> <=> \/ incomplete # <<>>
                               \/ review.executorKeys = NoKeySet
                               \/ ExecutionOutside(review, e)
    <3>1. incomplete \in Seq(Gap) /\ NoKeys \in Gap /\ <<"outsideSpan", i>> \in Gap
      BY <1>2, GapIn DEF IInv
    <3>2. Append(incomplete, NoKeys) \in Seq(Gap) /\ Append(incomplete, NoKeys) # <<>>
      BY <3>1, AppendProperties
    <3>3. Gaps(<<>>) = {}
      BY DEF Gaps
    <3>4. unkeyed \in Seq(Gap)
          /\ (unkeyed # <<>> <=> incomplete # <<>> \/ review.executorKeys = NoKeySet)
      BY <3>1, <3>2, <3>3
    <3> HIDE DEF unkeyed
    <3>5. Append(unkeyed, <<"outsideSpan", i>>) # <<>>
      BY <3>1, <3>4, AppendProperties
    <3> QED BY <2>1, <3>4, <3>5
  <2>6. GapsInv'
    <3> DEFINE before == \/ CoverageLacking(review)
                         \/ \E k \in 1..RecordsSeen : LackingPeriod(review, k)
                         \/ \E k \in 1..CountsSeen : LackingCount(review, k)
               unkeyedLog == review.executorKeys = NoKeySet
    <3>1. incomplete # <<>> <=>
            \/ before
            \/ i - 1 > 0 /\ unkeyedLog
            \/ \E k \in 1..(i - 1) : ExecutionOutside(review, review.executions[k])
      BY <1>1, <1>3 DEF GapsInv
    <3> HIDE DEF before, unkeyedLog
    <3>2. incomplete' # <<>> <=>
            \/ before
            \/ unkeyedLog
            \/ \E k \in 1..i : ExecutionOutside(review, review.executions[k])
      BY <1>2, <2>3, <2>5, <3>1 DEF unkeyedLog
    <3>3. ExecutionsSeen' > 0
      BY <1>2, <2>2
    <3> QED BY <1>1, <2>1, <2>2, <3>2, <3>3 DEF GapsInv, before, unkeyedLog
  <2> QED BY <1>1, <2>1, <2>4, <2>6 DEF AnswerInv
<1> QED BY <1>4, <1>5

\* A run that reaches its end unrefuted answers by its gaps.
LEMMA FinishAnswer ==
  ASSUME IInv, AnswerInv, Finish
  PROVE  AnswerInv'
<1>1. /\ verdict = "none" /\ review \in Reviews /\ pc = "executions"
      /\ SoundSoFar /\ GapsInv /\ RecordsInv /\ ExecutionsInv
  BY Running DEF Finish, Past
<1>2. i = Len(review.executions) + 1
  BY <1>1, Running, ReviewFacts DEF Bound, Finish, Past
<1>3. /\ CheckpointsSeen = Len(review.checkpoints) /\ RecordsSeen = Len(review.records)
      /\ CountsSeen = Len(review.checkpoints) /\ ExecutionsSeen = Len(review.executions)
  BY <1>1, <1>2, ReviewFacts DEF CheckpointsSeen, RecordsSeen, CountsSeen, ExecutionsSeen
<1>4. byLeaf = Leaves(review)
  BY <1>1, <1>3, PeriodsWhole
<1>5. ~Refuted(review)
  <2>1. ~InputsRefuted(review)
    BY <1>1 DEF SoundSoFar
  <2>2. \A k \in DOMAIN review.checkpoints : ~CheckpointRefuted(review, k)
    BY <1>1, <1>3, ReviewFacts DEF SoundSoFar
  <2>3. \A k \in DOMAIN review.records :
          ~RecordRefuted(review, k, {RecordLeaf(review.records[m]) : m \in 1..(k - 1)})
    BY <1>1, <1>3, ReviewFacts DEF SoundSoFar, LeavesBefore
  <2>4. \A k \in DOMAIN review.checkpoints :
          ~CountRefuted(review.checkpoints[k], LeavesIn(review, review.checkpoints[k]))
    BY <1>1, <1>3, ReviewFacts DEF SoundSoFar, CountContradicts
  <2>5. \A k \in DOMAIN review.executions :
          ~ExecutionRefuted(review, k, Leaves(review), ExecutedBefore(review, k))
    BY <1>1, <1>3, <1>4, ReviewFacts DEF ExecutionsInv
  <2> QED BY <2>1, <2>2, <2>3, <2>4, <2>5 DEF Refuted
<1>6. incomplete # <<>> <=> Lacking(review)
  <2>1. (\E k \in DOMAIN review.records : LackingPeriod(review, k))
          <=> \E l \in Leaves(review) : Slots(review, LeafRecord(l).time) = {}
    <3>1. Leaves(review) = {LeafAt(k) : k \in DOMAIN review.records}
      BY DEF Leaves, LeafAt
    <3>2. \A k \in DOMAIN review.records :
            LackingPeriod(review, k) <=> Slots(review, LeafRecord(LeafAt(k)).time) = {}
      BY DEF LackingPeriod, LeafRecord, LeafAt, RecordLeaf
    <3> QED BY <3>1, <3>2
  <2>2. review.executions # <<>> <=> Len(review.executions) > 0
    <3>1. IsSequence(review.executions)
      BY <1>1, ReviewAssumption
    <3> QED BY <3>1, LenProperties, EmptySeq DEF IsSequence
  <2>3. incomplete # <<>> <=>
          \/ CoverageLacking(review)
          \/ \E k \in DOMAIN review.records : LackingPeriod(review, k)
          \/ \E k \in DOMAIN review.checkpoints :
               CountLacking(review.checkpoints[k], LeavesIn(review, review.checkpoints[k]))
          \/ Len(review.executions) > 0 /\ review.executorKeys = NoKeySet
          \/ \E k \in DOMAIN review.executions : ExecutionOutside(review, review.executions[k])
    BY <1>1, <1>3, ReviewFacts DEF GapsInv, LackingCount
  <2> QED BY <2>1, <2>2, <2>3 DEF Lacking
<1>7. Oracle!Answer(review)' = Oracle!Answer(review)
  BY AnswerFrame DEF Finish
<1> QED BY <1>5, <1>6, <1>7 DEF Finish, AnswerInv, Oracle!Answer

\* Every step of verify_complete keeps what it has judged.
LEMMA NextAnswer ==
  ASSUME IInv, AnswerInv, [Next]_vars
  PROVE  AnswerInv'
<1>1. CASE UNCHANGED vars
  <2> USE <1>1 DEF vars
  <2>1. UNCHANGED <<CheckpointsSeen, RecordsSeen, CountsSeen, ExecutionsSeen>>
    BY DEF CheckpointsSeen, RecordsSeen, CountsSeen, ExecutionsSeen
  <2>2. SoundSoFar => SoundSoFar'
    BY <2>1, AnswerFrame DEF SoundSoFar
  <2> QED BY <2>1, <2>2, AnswerFrame DEF AnswerInv
<1> QED BY <1>1, CheckInputsAnswer, CheckCheckpointAnswer, CheckCoverageAnswer, CheckRecordAnswer,
           EndRecordsAnswer, CheckCountAnswer, EndCountsAnswer, CheckExecutionAnswer,
           FinishAnswer DEF Next

\* The loops of the verifier answer what the order-free rule answers: FAIL when
\* any two pieces of evidence contradict each other, even when a gap was met
\* first, INCOMPLETE when nothing contradicts and something is missing.
\* AnswersAsPromised adds that every call is answered.
THEOREM AnswersOnlyAsPromised == Spec => Oracle!Safety
<1>1. Spec => []AnswerInv
  BY Invariant, InitAnswer, NextAnswer, PTL DEF Spec
<1>2. Init => Oracle!Init
  BY DEF Init, Start, Oracle!Init
<1>3. ASSUME IInv, AnswerInv, IInv', AnswerInv', [Next]_vars
      PROVE  [Oracle!Decide]_<<review, verdict>>
  <2>1. CASE UNCHANGED vars
    BY <2>1 DEF vars
  <2>2. CASE Next
    <3>1. review' = review /\ pc # "done"
      BY <2>2 DEF Next, CheckInputs, CheckCheckpoint, CheckCoverage, CheckRecord, EndRecords,
         CheckCount, EndCounts, CheckExecution, Finish, Fail, Goto, Advance, At, Past
    <3>2. verdict = "none"
      BY <1>3, <3>1 DEF IInv, TypeOK
    <3>3. /\ verdict' # "none" => verdict' = Oracle!Answer(review)'
          /\ verdict' \in {"none"} \cup Oracle!Verdicts
      BY <1>3 DEF IInv, TypeOK, AnswerInv, Oracle!Verdicts
    <3>4. Oracle!Answer(review)' = Oracle!Answer(review)
      BY <3>1, AnswerFrame
    <3> QED BY <3>1, <3>2, <3>3, <3>4 DEF Oracle!Decide
  <2> QED BY <1>3, <2>1, <2>2
<1> QED BY <1>1, <1>2, <1>3, Invariant, PTL DEF Spec, Oracle!Safety
=============================================================================
