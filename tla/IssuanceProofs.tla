--------------------------- MODULE IssuanceProofs ---------------------------
(***************************************************************************)
(* Proofs about the issuer whose records a complete bundle shows, for      *)
(* every set of requests, every period, settle interval and delay, and any *)
(* operator and executor.  The inductive invariant IInv says that what a   *)
(* checkpoint counted stays all there is in its period, whatever is        *)
(* committed later; what a reviewer is told follows from it and the        *)
(* order-free answer of CompleteRules.                                     *)
(***************************************************************************)
EXTENDS Issuance, SequenceTheorems, FiniteSetTheorems, TLAPS

-----------------------------------------------------------------------------
(* Sequences, leaves and bundles *)

\* A sequence has its elements at the positions 1 to its length.
LEMMA SequenceFacts ==
  ASSUME NEW s, IsSequence(s)
  PROVE  /\ Len(s) \in Nat /\ DOMAIN s = 1..Len(s)
         /\ s = <<>> <=> Len(s) = 0
BY LenProperties, EmptySeq DEF IsSequence

\* Appending keeps the elements there are and adds one.
LEMMA AppendedSequence ==
  ASSUME NEW s, IsSequence(s), NEW e
  PROVE  /\ IsSequence(Append(s, e))
         /\ Len(Append(s, e)) = Len(s) + 1
         /\ Append(s, e)[Len(s) + 1] = e
         /\ \A k \in 1..Len(s) : Append(s, e)[k] = s[k]
         /\ Append(s, e) # <<>>
<1> DEFINE S == {s[k] : k \in DOMAIN s}
           T == S \cup {e}
           a == Append(s, e)
           R == {a[k] : k \in DOMAIN a}
<1>1. s \in Seq(T) /\ e \in T
  <2>1. s \in Seq(S)
    BY DEF IsSequence
  <2> QED BY <2>1, SeqDef
<1> HIDE DEF T, S
<1>2. /\ a \in Seq(T) /\ Len(a) = Len(s) + 1 /\ a[Len(s) + 1] = e
      /\ \A k \in 1..Len(s) : a[k] = s[k]
  BY <1>1, AppendProperties
<1>3. DOMAIN a = 1..Len(a) /\ Len(a) \in Nat
  BY <1>2, LenProperties
<1>4. a \in [1..Len(a) -> T]
  BY <1>2, LenProperties
<1>5. a \in [1..Len(a) -> R]
  BY <1>3, <1>4
<1>6. IsSequence(a)
  <2>1. a \in Seq(R)
    BY <1>3, <1>5, SeqDef
  <2> QED BY <2>1 DEF IsSequence
<1>7. a # <<>>
  BY <1>2, <1>6, <1>3, SequenceFacts
<1> QED BY <1>2, <1>6, <1>7

\* A leaf holds the kind and the record it was made of.
LEMMA LeafParts ==
  ASSUME NEW kind, NEW rec, NEW l, l = RecordLeaf([kind |-> kind, record |-> rec])
  PROVE  /\ LeafKind(l) = kind /\ LeafRecord(l) = rec /\ l # NoHash
         /\ RecordLeaf(Item(l)) = l
         /\ Item(l).kind = LeafKind(l) /\ Item(l).record = LeafRecord(l)
BY DEF RecordLeaf, LeafKind, LeafRecord, Item, NoHash

\* What is signed verifies under the issuer's key, as a record of its kind.
LEMMA SignedFacts ==
  ASSUME SignedInv, NEW l \in Signed
  PROVE  /\ LeafKind(l) \in {"use", "action"} /\ l # NoHash
         /\ Item(l).kind = LeafKind(l) /\ Item(l).record = LeafRecord(l)
         /\ SignedBy(LeafRecord(l), Issuer)
         /\ RecordLeaf(Item(l)) = l
         /\ LeafRecord(l).id # ""
         /\ LeafKind(l) = "action" => LeafRecord(l).args # ""
<1>1. PICK req \in Requests :
        \/ l = RecordLeaf([kind |-> "use", record |-> Use(req, LeafRecord(l).time)])
        \/ l = RecordLeaf([kind |-> "action", record |-> Action(req, LeafRecord(l).time)])
  BY DEF SignedInv
<1>2. req.id # "" /\ req.args # ""
  BY RequestAssumption
<1>3. CASE l = RecordLeaf([kind |-> "use", record |-> Use(req, LeafRecord(l).time)])
  <2> DEFINE u == Use(req, LeafRecord(l).time)
  <2>1. SignedBy(u, Issuer) /\ u.id # ""
    BY <1>2 DEF Use, SignedBy
  <2> HIDE DEF u
  <2>2. /\ LeafKind(l) = "use" /\ LeafRecord(l) = u /\ l # NoHash
        /\ RecordLeaf(Item(l)) = l
        /\ Item(l).kind = LeafKind(l) /\ Item(l).record = LeafRecord(l)
    <3>1. l = RecordLeaf([kind |-> "use", record |-> u])
      BY <1>3 DEF u
    <3> QED BY <3>1, LeafParts
  <2> QED BY <2>1, <2>2
<1>4. CASE l = RecordLeaf([kind |-> "action", record |-> Action(req, LeafRecord(l).time)])
  <2> DEFINE a == Action(req, LeafRecord(l).time)
  <2>1. SignedBy(a, Issuer) /\ a.id # "" /\ a.args # ""
    BY <1>2 DEF Action, SignedBy
  <2> HIDE DEF a
  <2>2. /\ LeafKind(l) = "action" /\ LeafRecord(l) = a /\ l # NoHash
        /\ RecordLeaf(Item(l)) = l
        /\ Item(l).kind = LeafKind(l) /\ Item(l).record = LeafRecord(l)
    <3>1. l = RecordLeaf([kind |-> "action", record |-> a])
      BY <1>4 DEF a
    <3> QED BY <3>1, LeafParts
  <2> QED BY <2>1, <2>2
<1> QED BY <1>1, <1>3, <1>4

-----------------------------------------------------------------------------
(* The invariant holds initially and every step preserves it *)

\* Before anything is signed there is nothing to keep.
LEMMA InitInv ==
  ASSUME Init
  PROVE  IInv
<1> USE DEF Init
<1>1. /\ IsSequence(<<>>) /\ DOMAIN <<>> = {}
  <2>1. <<>> \in Seq({<<>>[k] : k \in DOMAIN <<>>})
    OBVIOUS
  <2> QED BY <2>1 DEF IsSequence
<1>2. NextStart = 0
  BY DEF NextStart
<1>3. TypeOK
  BY IssuanceAssumption DEF TypeOK, Signed
<1>4. SignedInv
  BY FS_EmptySet DEF SignedInv, Signed
<1>5. CountsInv /\ LogInv
  BY <1>1 DEF CountsInv, LogInv
<1>6. PeriodsInv
  <2>1. 0..(0 - 1) = {}
    OBVIOUS
  <2> QED BY <1>1, <1>2, <2>1 DEF PeriodsInv
<1> QED BY <1>3, <1>4, <1>5, <1>6 DEF IInv, ReviewInv, Running

\* A step of the running system says nothing of the reviewer.
LEMMA Unreviewed ==
  ASSUME IInv, Running, UNCHANGED answer
  PROVE  ReviewInv' /\ answer' \in {"none"} \cup Verifier!Verdicts
BY DEF Running, ReviewInv

\* What has been counted stays as it was while nothing is committed or counted.
LEMMA CountsUnchanged ==
  ASSUME IInv, UNCHANGED <<ledger, checkpoints, omitted>>
  PROVE  CountsInv'
<1>1. \A cp : CountedIn(cp)' = CountedIn(cp)
  BY DEF CountedIn, StampedIn
<1>2. ASSUME NEW k \in DOMAIN checkpoints
      PROVE  CheckpointInv(k)'
  <2>1. CheckpointInv(k)
    BY <1>2 DEF IInv, CountsInv
  <2> QED BY <1>1, <2>1 DEF CheckpointInv
<1> QED BY <1>2 DEF CountsInv

\* Time and further commits leave the periods alone.
LEMMA PeriodsUnchanged ==
  ASSUME IInv, UNCHANGED <<checkpoints, omitted>>, now' \in Nat, now =< now'
  PROVE  PeriodsInv' /\ NextStart' = NextStart
<1>1. NextStart' = NextStart
  BY DEF NextStart
<1>2. NextStart =< now'
  BY DEF IInv, TypeOK, PeriodsInv
<1> QED BY <1>1, <1>2 DEF IInv, PeriodsInv

\* The log's entries go on naming committed records.
LEMMA LogUnchanged ==
  ASSUME IInv, UNCHANGED log, ledger \subseteq ledger', now' \in Nat, now =< now'
  PROVE  LogInv'
<1>1. \A t \in 0..now : t \in 0..now'
  BY DEF IInv, TypeOK
<1>2. ASSUME NEW k \in DOMAIN log
      PROVE  EntryInv(k)'
  <2>1. EntryInv(k)
    BY <1>2 DEF IInv, LogInv
  <2> QED BY <1>1, <2>1 DEF EntryInv
<1> QED BY <1>2 DEF IInv, LogInv

\* Time passes only while nothing has waited too long.
LEMMA TickInv ==
  ASSUME IInv, Tick
  PROVE  IInv'
<1> USE DEF Tick
<1>1. now' \in 0..Horizon /\ now' \in Nat /\ now =< now'
  BY IssuanceAssumption DEF IInv, TypeOK
<1>2. ASSUME NEW l \in pending
      PROVE  now' =< LeafRecord(l).time + Delay
  BY <1>2, IssuanceAssumption DEF IInv, TypeOK, Signed
<1>3. \A t \in 0..now : t \in 0..now'
  BY <1>1 DEF IInv, TypeOK
<1>4. TypeOK'
  BY <1>1, <1>2, <1>3, Unreviewed DEF IInv, TypeOK, Signed
<1>5. PeriodsInv' /\ NextStart' = NextStart
  BY <1>1, PeriodsUnchanged
<1>6. SignedInv'
  BY <1>5 DEF IInv, SignedInv, Signed
<1>7. CountsInv' /\ LogInv' /\ ReviewInv'
  BY <1>1, CountsUnchanged, LogUnchanged, Unreviewed
<1> QED BY <1>4, <1>5, <1>6, <1>7 DEF IInv

\* A record signed now belongs to a period that has not been counted.
LEMMA SigningInv ==
  ASSUME IInv, Running, NEW req \in Requests, NEW l,
         \/ l = RecordLeaf([kind |-> "use", record |-> Use(req, now)])
         \/ l = RecordLeaf([kind |-> "action", record |-> Action(req, now)]),
         l \notin ledger,
         pending' = pending \cup {l},
         UNCHANGED <<now, ledger, checkpoints, omitted, log, review, answer>>
  PROVE  IInv'
<1>1. /\ LeafRecord(l).time = now
      /\ \/ l = RecordLeaf([kind |-> "use", record |-> Use(req, LeafRecord(l).time)])
         \/ l = RecordLeaf([kind |-> "action", record |-> Action(req, LeafRecord(l).time)])
  <2>1. Use(req, now).time = now /\ Action(req, now).time = now
    BY DEF Use, Action
  <2> QED BY <2>1, LeafParts
<1>2. now \in Nat /\ now =< now' /\ NextStart =< now /\ Delay \in Nat
  BY IssuanceAssumption DEF IInv, TypeOK, PeriodsInv
<1>3. PeriodsInv' /\ NextStart' = NextStart
  BY <1>2, PeriodsUnchanged
<1>4. Signed' = Signed \cup {l}
  BY DEF Signed
<1>5. SignedInv'
  BY <1>1, <1>2, <1>3, <1>4 DEF IInv, SignedInv
<1>6. TypeOK'
  BY <1>1, <1>2, <1>4, Unreviewed DEF IInv, TypeOK
<1>7. CountsInv' /\ LogInv' /\ ReviewInv'
  BY <1>2, CountsUnchanged, LogUnchanged, Unreviewed
<1> QED BY <1>3, <1>5, <1>6, <1>7 DEF IInv

\* The USE of a request is signed once.
LEMMA ClaimInv ==
  ASSUME IInv, NEW req \in Requests, Claim(req)
  PROVE  IInv'
<1> DEFINE l == RecordLeaf([kind |-> "use", record |-> Use(req, now)])
<1>1. LeafKind(l) = "use" /\ LeafRecord(l).actionId = req.id
  <2>1. Use(req, now).actionId = req.id
    BY DEF Use
  <2> QED BY <2>1, LeafParts
<1>2. l \notin ledger
  BY <1>1 DEF Claim, UsesOf, Signed
<1> QED BY <1>2, SigningInv DEF Claim

\* So is its decision.
LEMMA DecideInv ==
  ASSUME IInv, NEW req \in Requests, Decide(req)
  PROVE  IInv'
<1> DEFINE l == RecordLeaf([kind |-> "action", record |-> Action(req, now)])
<1>1. LeafKind(l) = "action" /\ LeafRecord(l).id = req.id
  <2>1. Action(req, now).id = req.id
    BY DEF Action
  <2> QED BY <2>1, LeafParts
<1>2. l \notin ledger
  BY <1>1 DEF Decide, ActionsOf, Signed
<1> QED BY <1>2, SigningInv DEF Decide

\* A commit adds nothing to a period that has been counted.
LEMMA CommitInv ==
  ASSUME IInv, NEW l \in pending, Commit(l)
  PROVE  IInv'
<1> USE DEF Commit
<1>1. now \in Nat /\ now =< now' /\ ledger \subseteq ledger'
  BY IssuanceAssumption DEF IInv, TypeOK
<1>2. PeriodsInv' /\ NextStart' = NextStart
  BY <1>1, PeriodsUnchanged
<1>3. Signed' = Signed
  BY DEF Signed
<1>4. TypeOK'
  BY <1>3, Unreviewed DEF IInv, TypeOK
<1>5. SignedInv'
  <2>1. IsFiniteSet(ledger')
    BY FS_AddElement DEF IInv, SignedInv
  <2> QED BY <1>2, <1>3, <2>1 DEF IInv, SignedInv
<1>6. NextStart =< LeafRecord(l).time /\ LeafRecord(l).time \in Nat /\ NextStart \in Nat
  BY DEF IInv, SignedInv, TypeOK, Signed, PeriodsInv
<1>7. ASSUME NEW k \in DOMAIN checkpoints
      PROVE  CountedIn(checkpoints[k])' = CountedIn(checkpoints[k])
  <2>1. checkpoints[k].end =< NextStart /\ checkpoints[k].end \in Nat
    BY <1>7 DEF IInv, PeriodsInv, CountsInv, CheckpointInv
  <2>2. ~(LeafRecord(l).time < checkpoints[k].end)
    BY <1>6, <2>1
  <2> QED BY <2>2 DEF CountedIn, StampedIn
<1>8. CountsInv'
  <2>1. ASSUME NEW k \in DOMAIN checkpoints
        PROVE  CheckpointInv(k)'
    <3>1. CheckpointInv(k)
      BY <2>1 DEF IInv, CountsInv
    <3> QED BY <1>7, <2>1, <3>1 DEF CheckpointInv
  <2> QED BY <2>1 DEF CountsInv
<1>9. LogInv' /\ ReviewInv'
  BY <1>1, LogUnchanged, Unreviewed
<1> QED BY <1>2, <1>4, <1>5, <1>8, <1>9 DEF IInv

\* A period is counted when everything stamped in it has been committed: what
\* is in flight, and what earlier counts left out, lie on either side of it.
LEMMA IssueCheckpointInv ==
  ASSUME IInv, NEW leftOut \in SUBSET ledger, IssueCheckpoint(leftOut)
  PROVE  IInv'
<1> DEFINE n == Len(checkpoints)
           from == NextStart
           to == NextStart + Period
           stamped == StampedIn(ledger, from, to)
           counted == stamped \ leftOut
           cp == Checkpoint(counted, from, to)
<1>1. /\ leftOut \subseteq stamped /\ checkpoints' = Append(checkpoints, cp)
      /\ omitted' = omitted \cup leftOut
      /\ now >= to + Settle
      /\ UNCHANGED <<now, pending, ledger, log, review, answer>> /\ Running
  BY DEF IssueCheckpoint
<1>2. /\ now \in Nat /\ from \in Nat /\ to \in Nat /\ from < to /\ to =< now
      /\ Settle \in Nat /\ Delay \in Nat /\ Delay =< Settle
  BY <1>1, IssuanceAssumption DEF IInv, TypeOK, PeriodsInv
<1>3. IsSequence(checkpoints) /\ n \in Nat /\ DOMAIN checkpoints = 1..n
  BY SequenceFacts DEF IInv, PeriodsInv
<1>4. /\ SignedBy(cp, Issuer) /\ cp.seq = n + 1
      /\ cp.start = from /\ cp.end = to /\ cp.time = now
      /\ cp.count = Cardinality(counted) /\ cp.hash = RecordsHash(counted)
      /\ cp.prev = IF n = 0 THEN NoHash ELSE CheckpointHash(checkpoints[n])
      /\ cp.total = Cardinality(counted) + (IF n = 0 THEN 0 ELSE checkpoints[n].total)
  BY DEF Checkpoint, SignedBy
<1>5. from = IF n = 0 THEN 0 ELSE checkpoints[n].end
  BY <1>3, SequenceFacts DEF NextStart
<1>6. Cardinality(counted) \in Nat
  <2>1. IsFiniteSet(counted)
    BY FS_Subset DEF IInv, SignedInv, StampedIn
  <2> QED BY <2>1, FS_CardinalityType
<1>7. ASSUME NEW l \in ledger
      PROVE  /\ LeafRecord(l).time \in Nat
             /\ l \in omitted => LeafRecord(l).time < from
             /\ l \in stamped <=> from =< LeafRecord(l).time /\ LeafRecord(l).time < to
  BY DEF IInv, TypeOK, Signed, PeriodsInv, StampedIn
<1>8. counted = stamped \ omitted'
  BY <1>1, <1>2, <1>7 DEF StampedIn
<1>9. /\ IsSequence(checkpoints') /\ Len(checkpoints') = n + 1 /\ checkpoints' # <<>>
      /\ checkpoints'[n + 1] = cp
      /\ \A k \in 1..n : checkpoints'[k] = checkpoints[k]
  BY <1>1, <1>3, AppendedSequence
<1>10. DOMAIN checkpoints' = 1..(n + 1) /\ NextStart' = to
  <2>1. DOMAIN checkpoints' = 1..(n + 1)
    BY <1>9, SequenceFacts
  <2>2. NextStart' = checkpoints'[Len(checkpoints')].end
    BY <1>9 DEF NextStart
  <2> QED BY <2>1, <2>2, <1>4, <1>9
<1>11. ASSUME NEW k \in 1..n
       PROVE  /\ checkpoints[k].start \in Nat /\ checkpoints[k].end \in Nat
              /\ checkpoints[k].start < checkpoints[k].end
              /\ checkpoints[k].total \in Nat
              /\ checkpoints[k].end =< from
  BY <1>3 DEF IInv, CountsInv, CheckpointInv, PeriodsInv
<1>12. omitted' \subseteq ledger
  BY <1>1 DEF IInv, TypeOK
<1> HIDE DEF cp, counted, stamped, to
<1>13. ASSUME NEW k \in 1..n
       PROVE  CountedIn(checkpoints[k])' = CountedIn(checkpoints[k])
  <2>1. checkpoints'[k] = checkpoints[k] /\ ledger' = ledger
    BY <1>1, <1>9
  <2>2. ASSUME NEW l \in leftOut
        PROVE  ~(LeafRecord(l).time < checkpoints[k].end)
    <3>1. l \in ledger /\ from =< LeafRecord(l).time /\ LeafRecord(l).time \in Nat
      BY <1>1, <1>7
    <3> QED BY <3>1, <1>2, <1>11
  <2> QED BY <1>1, <2>1, <2>2 DEF CountedIn, StampedIn
<1>14. PICK m \in Nat : m = n + 1
  BY <1>3
<1>15. CountedIn(checkpoints[m])' = counted
  <2>1. CountedIn(checkpoints[m])' = StampedIn(ledger, from, to) \ omitted'
    BY <1>1, <1>4, <1>9, <1>14 DEF CountedIn, StampedIn
  <2> QED BY <2>1, <1>8 DEF stamped
<1>16. CheckpointInv(m)'
  <2>1. /\ SignedBy(cp, Issuer) /\ cp.seq = m
        /\ cp.start \in Nat /\ cp.end \in Nat /\ cp.time \in Nat
        /\ cp.start < cp.end /\ cp.end =< cp.time
        /\ cp.count \in Nat /\ cp.total \in Nat
    <3>1. CASE n = 0
      BY <3>1, <1>2, <1>4, <1>6, <1>14
    <3>2. CASE n > 0
      <4>1. checkpoints[n].total \in Nat
        BY <3>2, <1>3, <1>11
      <4> QED BY <3>2, <4>1, <1>2, <1>4, <1>6, <1>14
    <3> QED BY <3>1, <3>2, <1>3
  <2>2. /\ cp.hash = RecordsHash(CountedIn(checkpoints[m])')
        /\ cp.count = Cardinality(CountedIn(checkpoints[m])')
    BY <1>4, <1>15
  <2>3. m = 1 => cp.prev = NoHash /\ cp.total = cp.count
    BY <1>4, <1>6, <1>14, <1>3
  <2>4. m > 1 => /\ checkpoints'[m - 1] = checkpoints[n]
                 /\ cp.prev = CheckpointHash(checkpoints[n])
                 /\ cp.start = checkpoints[n].end
                 /\ cp.total = checkpoints[n].total + cp.count
    <3> SUFFICES ASSUME m > 1
                 PROVE  /\ checkpoints'[m - 1] = checkpoints[n]
                        /\ cp.prev = CheckpointHash(checkpoints[n])
                        /\ cp.start = checkpoints[n].end
                        /\ cp.total = checkpoints[n].total + cp.count
      OBVIOUS
    <3>1. n # 0 /\ n \in 1..n /\ m - 1 = n
      BY <1>14, <1>3
    <3>2. checkpoints[n].total \in Nat
      BY <3>1, <1>11
    <3> QED BY <3>1, <3>2, <1>4, <1>5, <1>6, <1>9
  <2>5. checkpoints'[m] = cp
    BY <1>9, <1>14
  <2> QED BY <2>1, <2>2, <2>3, <2>4, <2>5 DEF CheckpointInv
<1>17. CountsInv'
  <2>1. ASSUME NEW k \in 1..n
        PROVE  CheckpointInv(k)'
    <3>1. CheckpointInv(k)
      BY <1>3 DEF IInv, CountsInv
    <3>2. k > 1 => k - 1 \in 1..n
      BY <1>3
    <3> QED BY <3>1, <3>2, <1>9, <1>13 DEF CheckpointInv
  <2>2. \A k \in DOMAIN checkpoints' : k \in 1..n \/ k = m
    BY <1>3, <1>10, <1>14
  <2> QED BY <2>1, <2>2, <1>16 DEF CountsInv
<1>18. PeriodsInv'
  <2>1. \A k \in DOMAIN checkpoints' : k \in 1..n \/ k = n + 1
    BY <1>3, <1>10
  <2>2. \A k \in DOMAIN checkpoints' : checkpoints'[k].end =< to
    BY <2>1, <1>2, <1>4, <1>9, <1>11
  <2>3. ASSUME NEW j \in DOMAIN checkpoints', NEW k \in DOMAIN checkpoints', j < k
        PROVE  checkpoints'[j].end =< checkpoints'[k].start
    <3>1. j \in 1..n
      BY <2>3, <1>3, <1>10
    <3>2. CASE k \in 1..n
      BY <2>3, <3>1, <3>2, <1>3, <1>9 DEF IInv, PeriodsInv
    <3>3. CASE k = n + 1
      BY <3>1, <3>3, <1>4, <1>9, <1>11
    <3> QED BY <2>1, <3>2, <3>3
  <2>4. ASSUME NEW t \in 0..(to - 1)
        PROVE  \E k \in DOMAIN checkpoints' : InPeriod(checkpoints'[k], t)
    <3>1. CASE t < from
      <4>1. t \in 0..(NextStart - 1)
        BY <3>1, <1>2, <2>4
      <4>2. PICK k \in 1..n : InPeriod(checkpoints[k], t)
        BY <4>1, <1>3 DEF IInv, PeriodsInv
      <4>3. k \in 1..(n + 1) /\ checkpoints'[k] = checkpoints[k]
        BY <1>3, <1>9
      <4> QED BY <4>2, <4>3, <1>10
    <3>2. CASE from =< t
      <4>1. InPeriod(cp, t)
        BY <3>2, <2>4, <1>2, <1>4 DEF InPeriod
      <4>2. n + 1 \in 1..(n + 1)
        BY <1>3
      <4> QED BY <4>1, <4>2, <1>9, <1>10
    <3> QED BY <3>1, <3>2, <1>2
  <2>5. ASSUME NEW l \in omitted'
        PROVE  LeafRecord(l).time < to
    <3>1. l \in ledger /\ (l \in omitted \/ l \in stamped)
      BY <2>5, <1>1, <1>12
    <3> QED BY <3>1, <1>2, <1>7
  <2> QED BY <2>2, <2>3, <2>4, <2>5, <1>1, <1>2, <1>9, <1>10 DEF PeriodsInv
<1>19. SignedInv'
  <2>1. ASSUME NEW l \in pending
        PROVE  to =< LeafRecord(l).time
    <3>1. now =< LeafRecord(l).time + Delay /\ LeafRecord(l).time \in Nat
      BY <2>1 DEF IInv, TypeOK, Signed
    <3> QED BY <3>1, <1>1, <1>2
  <2> QED BY <2>1, <1>1, <1>10 DEF IInv, SignedInv, Signed
<1>20. TypeOK'
  BY <1>1, <1>12, Unreviewed DEF IInv, TypeOK, Signed
<1>21. LogInv'
  BY <1>1, <1>2, LogUnchanged
<1> QED BY <1>1, <1>17, <1>18, <1>19, <1>20, <1>21, Unreviewed DEF IInv

\* What the next entry of the log says of the decision it names.
NextEntry(e) ==
  /\ SignedBy(e, Executor) /\ e.executor = "executor" /\ e.seq = Len(log) + 1
  /\ e.prev = IF Len(log) = 0 THEN NoHash ELSE ExecutionHash(log[Len(log)])
  /\ e.time = now
  /\ e.actionLeaf \in ledger /\ LeafKind(e.actionLeaf) = "action"
  /\ LeafRecord(e.actionLeaf).id = e.actionId /\ LeafRecord(e.actionLeaf).args = e.args

\* And of the USE.
NextExecution(e) ==
  /\ e.result = "EXECUTED" /\ LeafRecord(e.actionLeaf).outcome = "ALLOWED"
  /\ e.useLeaf \in ledger /\ LeafKind(e.useLeaf) = "use"
  /\ LeafRecord(e.useLeaf).id = e.useId /\ LeafRecord(e.useLeaf).actionId = e.actionId
  /\ \A k \in DOMAIN log : ~(log[k].result = "EXECUTED" /\ log[k].actionId = e.actionId)

NextRefusal(e) == e.result = "REFUSED" /\ e.useLeaf = NoHash /\ e.useId = ""

\* One more entry continues the log.
LEMMA LogGrows ==
  ASSUME IInv, Running, NEW e, log' = Append(log, e),
         UNCHANGED <<now, pending, ledger, checkpoints, omitted, review, answer>>,
         NextEntry(e), NextExecution(e) \/ NextRefusal(e)
  PROVE  IInv'
<1>1. IsSequence(log) /\ Len(log) \in Nat /\ DOMAIN log = 1..Len(log) /\ now \in Nat
  BY SequenceFacts, IssuanceAssumption DEF IInv, LogInv, TypeOK
<1>2. PICK n \in Nat : n = Len(log)
  BY <1>1
<1>3. /\ IsSequence(log') /\ Len(log') = n + 1 /\ log'[n + 1] = e
      /\ \A k \in 1..n : log'[k] = log[k]
  BY <1>1, <1>2, AppendedSequence
<1>4. DOMAIN log' = 1..(n + 1)
  BY <1>3, SequenceFacts
<1>5. \A k \in DOMAIN log' : k \in 1..n \/ k = n + 1
  BY <1>4
<1>6. ASSUME NEW k \in 1..n
      PROVE  EntryInv(k)'
  <2>1. EntryInv(k)
    BY <1>1, <1>2 DEF IInv, LogInv
  <2>2. k > 1 => k - 1 \in 1..n
    BY <1>6
  <2> QED BY <2>1, <2>2, <1>3 DEF EntryInv
<1>7. EntryInv(n + 1)'
  <2>1. n + 1 > 1 => n # 0 /\ n \in 1..n /\ (n + 1) - 1 = n
    BY <1>2
  <2>2. n + 1 = 1 => n = 0
    BY <1>2
  <2>3. e.time \in 0..now
    BY <1>1 DEF NextEntry
  <2>4. n + 1 > 1 => e.prev = ExecutionHash(log'[(n + 1) - 1])
    BY <2>1, <1>2, <1>3 DEF NextEntry
  <2>5. n + 1 = 1 => e.prev = NoHash
    BY <2>2, <1>2 DEF NextEntry
  <2> QED
    BY <2>3, <2>4, <2>5, <1>2, <1>3 DEF EntryInv, NextEntry, NextExecution, NextRefusal
<1>8. ASSUME NEW j \in DOMAIN log', NEW k \in DOMAIN log', j < k
      PROVE  /\ log'[j].time =< log'[k].time
             /\ log'[j].result = "EXECUTED" /\ log'[k].result = "EXECUTED" =>
                  log'[j].actionId # log'[k].actionId
  <2>1. j \in 1..n
    BY <1>8, <1>4
  <2>2. CASE k \in 1..n
    BY <1>1, <1>2, <1>3, <1>8, <2>1, <2>2 DEF IInv, LogInv
  <2>3. CASE k = n + 1
    <3>1. log[j].time \in 0..now
      BY <1>1, <1>2, <2>1 DEF IInv, LogInv, EntryInv
    <3>2. log'[j] = log[j] /\ log'[k] = e
      BY <1>3, <2>1, <2>3
    <3>3. e.time = now /\ log[j].time =< now
      BY <3>1, <1>1 DEF NextEntry
    <3>4. log[j].result = "EXECUTED" /\ e.result = "EXECUTED" => log[j].actionId # e.actionId
      <4>1. CASE NextExecution(e)
        BY <4>1, <1>1, <1>2, <2>1 DEF NextExecution
      <4>2. CASE NextRefusal(e)
        BY <4>2 DEF NextRefusal
      <4> QED BY <4>1, <4>2
    <3> QED BY <3>2, <3>3, <3>4
  <2> QED BY <2>2, <2>3, <1>5
<1>9. LogInv'
  BY <1>3, <1>5, <1>6, <1>7, <1>8 DEF LogInv
<1>10. PeriodsInv' /\ NextStart' = NextStart
  BY <1>1, PeriodsUnchanged
<1>11. TypeOK' /\ SignedInv'
  BY <1>10, Unreviewed DEF IInv, TypeOK, SignedInv, Signed
<1> QED BY <1>9, <1>10, <1>11, CountsUnchanged, Unreviewed DEF IInv

\* An execution is of an ALLOWED decision, with its USE, for the first time.
LEMMA ExecuteInv ==
  ASSUME IInv, NEW req \in Requests, Execute(req)
  PROVE  IInv'
<1>1. PICK act \in ActionsOf(ledger, req), use \in UsesOf(ledger, req) :
        /\ LeafRecord(act).outcome = "ALLOWED"
        /\ \A k \in DOMAIN log : ~(log[k].result = "EXECUTED" /\ log[k].actionId = req.id)
        /\ log' = Append(log, Entry("EXECUTED", act, use))
  BY DEF Execute
<1>2. /\ act \in ledger /\ LeafKind(act) = "action" /\ LeafRecord(act).id = req.id
      /\ use \in ledger /\ LeafKind(use) = "use" /\ LeafRecord(use).actionId = req.id
  BY DEF ActionsOf, UsesOf
<1>3. act # NoHash /\ use # NoHash
  BY <1>2, SignedFacts DEF IInv, Signed
<1>4. PICK e : e = Entry("EXECUTED", act, use)
  OBVIOUS
<1>5. /\ NextEntry(e) /\ e.result = "EXECUTED"
      /\ e.actionLeaf = act /\ e.useLeaf = use
      /\ e.actionId = LeafRecord(act).id
      /\ e.useId = LeafRecord(use).id
  BY <1>2, <1>3, <1>4 DEF Entry, SignedBy, NextEntry
<1>6. /\ Running /\ UNCHANGED <<now, pending, ledger, checkpoints, omitted, review, answer>>
      /\ log' = Append(log, e)
  BY <1>1, <1>4 DEF Execute
<1>7. NextExecution(e)
  BY <1>1, <1>2, <1>5 DEF NextExecution
<1> QED BY <1>5, <1>6, <1>7, LogGrows

\* A refusal names the decision it honours, and no USE.
LEMMA RefuseInv ==
  ASSUME IInv, NEW req \in Requests, Refuse(req)
  PROVE  IInv'
<1>1. PICK act \in ActionsOf(ledger, req) : log' = Append(log, Entry("REFUSED", act, NoHash))
  BY DEF Refuse
<1>2. act \in ledger /\ LeafKind(act) = "action"
  BY DEF ActionsOf
<1>3. act # NoHash
  BY <1>2, SignedFacts DEF IInv, Signed
<1>4. PICK e : e = Entry("REFUSED", act, NoHash)
  OBVIOUS
<1>5. NextEntry(e) /\ NextRefusal(e)
  BY <1>2, <1>3, <1>4 DEF Entry, SignedBy, NextEntry, NextRefusal
<1>6. /\ Running /\ UNCHANGED <<now, pending, ledger, checkpoints, omitted, review, answer>>
      /\ log' = Append(log, e)
  BY <1>1, <1>4 DEF Refuse
<1> QED BY <1>5, <1>6, LogGrows

\* A bundle is made of what was committed, and is answered as the verifier does.
LEMMA PresentInv ==
  ASSUME IInv, NEW disclosed \in SUBSET ledger,
         NEW first \in DOMAIN checkpoints, NEW last \in DOMAIN checkpoints, first =< last,
         Present(disclosed, first, last)
  PROVE  IInv'
<1>1. /\ review' = Bundle(disclosed, first, last) /\ answer' = Verifier!Answer(review)'
      /\ UNCHANGED <<now, pending, ledger, checkpoints, omitted, log>>
  BY DEF Present, Verifier!Answer
<1>2. Bundle(disclosed, first, last)' = Bundle(disclosed, first, last)
  BY <1>1 DEF Bundle, LogUntil
<1>3. ReviewInv'
  BY <1>1, <1>2 DEF ReviewInv
<1>4. answer' \in Verifier!Verdicts
  BY <1>1 DEF Verifier!Answer, Verifier!Verdicts
<1>5. now \in Nat /\ now =< now'
  BY <1>1, IssuanceAssumption DEF IInv, TypeOK
<1>6. PeriodsInv' /\ NextStart' = NextStart
  BY <1>1, <1>5, PeriodsUnchanged
<1>7. TypeOK' /\ SignedInv'
  BY <1>1, <1>4, <1>6 DEF IInv, TypeOK, SignedInv, Signed
<1> QED BY <1>1, <1>3, <1>5, <1>6, <1>7, CountsUnchanged, LogUnchanged DEF IInv

\* Nothing moves, nothing is lost.
LEMMA StutterInv ==
  ASSUME IInv, UNCHANGED vars
  PROVE  IInv'
<1> USE DEF vars
<1>1. now \in Nat /\ now =< now'
  BY IssuanceAssumption DEF IInv, TypeOK
<1>2. PeriodsInv' /\ NextStart' = NextStart
  BY <1>1, PeriodsUnchanged
<1>3. TypeOK' /\ SignedInv'
  BY <1>2 DEF IInv, TypeOK, SignedInv, Signed
<1>4. \A d, f, l : Bundle(d, f, l)' = Bundle(d, f, l)
  BY DEF Bundle, LogUntil
<1>5. ReviewInv'
  BY <1>4 DEF IInv, ReviewInv, Running, Verifier!Answer
<1> QED BY <1>1, <1>2, <1>3, <1>5, CountsUnchanged, LogUnchanged DEF IInv

\* What is counted is counted for good, whoever signs, commits, executes or
\* presents in which order.
THEOREM Invariant == Spec => []IInv
<1>1. Init => IInv
  BY InitInv
<1>2. IInv /\ [Next]_vars => IInv'
  <2> SUFFICES ASSUME IInv, [Next]_vars PROVE IInv'
    OBVIOUS
  <2>1. CASE Tick
    BY <2>1, TickInv
  <2>2. ASSUME NEW req \in Requests, Claim(req) \/ Decide(req) \/ Execute(req) \/ Refuse(req)
        PROVE  IInv'
    BY <2>2, ClaimInv, DecideInv, ExecuteInv, RefuseInv
  <2>3. ASSUME NEW l \in pending, Commit(l)
        PROVE  IInv'
    BY <2>3, CommitInv
  <2>4. ASSUME NEW leftOut \in SUBSET ledger, IssueCheckpoint(leftOut)
        PROVE  IInv'
    BY <2>4, IssueCheckpointInv
  <2>5. ASSUME NEW disclosed \in SUBSET ledger,
               NEW first \in DOMAIN checkpoints, NEW last \in DOMAIN checkpoints,
               first =< last, Present(disclosed, first, last)
        PROVE  IInv'
    BY <2>5, PresentInv
  <2>6. CASE UNCHANGED vars
    BY <2>6, StutterInv
  <2> QED BY <2>1, <2>2, <2>3, <2>4, <2>5, <2>6 DEF Next
<1> QED BY <1>1, <1>2, PTL DEF Spec

\* The clocks: nothing is stamped in the future, and nothing waits longer than
\* the gateway lets it.
THEOREM TypeCorrect == Spec => []TypeOK
<1>1. IInv => TypeOK
  BY DEF IInv
<1> QED BY <1>1, Invariant, PTL

-----------------------------------------------------------------------------
(* What the operator presents *)

\* The records are put in some order, each once.
LEMMA OrderFacts ==
  ASSUME NEW S, IsFiniteSet(S)
  PROVE  LET f == Order(S) IN
         /\ Cardinality(S) \in Nat
         /\ \A k \in 1..Cardinality(S) : f[k] \in S
         /\ \A x \in S : \E k \in 1..Cardinality(S) : f[k] = x
         /\ \A j, k \in 1..Cardinality(S) : f[j] = f[k] => j = k
<1> DEFINE n == Cardinality(S)
           f == Order(S)
<1>1. n \in Nat /\ ExistsBijection(1..n, S)
  BY FS_CardinalityType
<1>2. PICK b \in Bijection(1..n, S) : TRUE
  BY <1>1 DEF ExistsBijection
<1>3. b \in [1..n -> S] /\ \A j, k \in 1..n : j # k => b[j] # b[k]
  BY <1>2 DEF Bijection, Injection, IsInjective
<1>4. f \in [1..n -> S] /\ \A j, k \in 1..n : j # k => f[j] # f[k]
  BY <1>3 DEF Order
<1> HIDE DEF f
<1>5. f \in Injection(1..n, S)
  BY <1>4 DEF Injection, IsInjective
<1> HIDE DEF n
<1>6. IsFiniteSet(1..n) /\ Cardinality(1..n) = n
  BY <1>1, FS_Interval
<1>7. f \in Surjection(1..n, S)
  BY <1>5, <1>6, FS_Injection DEF n
<1>8. \A x \in S : \E k \in 1..n : f[k] = x
  BY <1>7 DEF Surjection
<1> QED BY <1>1, <1>4, <1>8 DEF n, f

\* What a bundle shows of the chain: the checkpoints from the first presented to
\* the last.
ShowsChain(c, first, last) ==
  /\ Len(c.checkpoints) = last - first + 1 /\ c.checkpoints # <<>>
  /\ DOMAIN c.checkpoints = 1..(last - first + 1)
  /\ \A k \in 1..(last - first + 1) : c.checkpoints[k] = checkpoints[first + k - 1]
  /\ c.from = checkpoints[first].start /\ c.to = checkpoints[last].end

\* And of the records: those disclosed, each in one place.
ShowsRecords(c, disclosed) ==
  /\ \A k \in DOMAIN c.records :
       /\ RecordLeaf(c.records[k]) \in disclosed
       /\ c.records[k].kind = LeafKind(RecordLeaf(c.records[k]))
       /\ c.records[k].record = LeafRecord(RecordLeaf(c.records[k]))
  /\ \A j, k \in DOMAIN c.records :
       RecordLeaf(c.records[j]) = RecordLeaf(c.records[k]) => j = k
  /\ \E n \in Nat : DOMAIN c.records = 1..n
  /\ Leaves(c) = disclosed

\* A bundle shows the checkpoints asked for.
LEMMA BundleChain ==
  ASSUME IInv, NEW disclosed, NEW first \in DOMAIN checkpoints, NEW last \in DOMAIN checkpoints,
         first =< last, NEW c, c = Bundle(disclosed, first, last)
  PROVE  ShowsChain(c, first, last) /\ first \in Nat /\ last \in Nat
<1> DEFINE S == {checkpoints[k] : k \in DOMAIN checkpoints}
           s == SubSeq(checkpoints, first, last)
<1>1. IsSequence(checkpoints) /\ DOMAIN checkpoints = 1..Len(checkpoints)
      /\ Len(checkpoints) \in Nat
  BY SequenceFacts DEF IInv, PeriodsInv
<1>2. first \in Int /\ last \in Int /\ first \in Nat /\ last \in Nat
  BY <1>1
<1>3. \A k \in first..last : k \in DOMAIN checkpoints
  BY <1>1
<1>4. \A k \in first..last : checkpoints[k] \in S
  BY <1>3
<1> HIDE DEF S
<1>5. /\ s \in Seq(S) /\ Len(s) = last - first + 1
      /\ \A k \in 1..(last - first + 1) : s[k] = checkpoints[first + k - 1]
  BY <1>2, <1>4, SubSeqProperties
<1> HIDE DEF s
<1>6. s # <<>> /\ DOMAIN s = 1..Len(s)
  BY <1>2, <1>5, LenProperties, EmptySeq
<1>7. c.checkpoints = s /\ c.from = checkpoints[first].start /\ c.to = checkpoints[last].end
  BY DEF Bundle, s
<1> QED BY <1>2, <1>5, <1>6, <1>7 DEF ShowsChain

\* And every record disclosed, in one place.
LEMMA BundleRecords ==
  ASSUME IInv, NEW disclosed \in SUBSET ledger, NEW first, NEW last,
         NEW c, c = Bundle(disclosed, first, last)
  PROVE  ShowsRecords(c, disclosed)
<1> DEFINE n == Cardinality(disclosed)
           f == Order(disclosed)
<1>1. IsFiniteSet(disclosed)
  BY FS_Subset DEF IInv, SignedInv
<1>2. /\ n \in Nat
      /\ \A k \in 1..n : f[k] \in disclosed
      /\ \A x \in disclosed : \E k \in 1..n : f[k] = x
      /\ \A j, k \in 1..n : f[j] = f[k] => j = k
  BY <1>1, OrderFacts
<1>3. c.records = [k \in 1..n |-> Item(f[k])]
  BY DEF Bundle, ArrayOf
<1> HIDE DEF n, f
<1>4. DOMAIN c.records = 1..n /\ \A k \in 1..n : c.records[k] = Item(f[k])
  BY <1>3
<1>5. ASSUME NEW l \in disclosed
      PROVE  /\ RecordLeaf(Item(l)) = l
             /\ Item(l).kind = LeafKind(l) /\ Item(l).record = LeafRecord(l)
  BY <1>5, SignedFacts DEF IInv, Signed
<1>6. \A k \in 1..n : RecordLeaf(c.records[k]) = f[k]
  BY <1>2, <1>4, <1>5
<1>7. Leaves(c) = disclosed
  BY <1>2, <1>4, <1>6 DEF Leaves
<1> QED BY <1>2, <1>4, <1>5, <1>6, <1>7 DEF ShowsRecords

-----------------------------------------------------------------------------
(* What a PASS is worth *)

\* Hashes are injective: a set of leaves that hashes to the commitment is it.
LEMMA HashInjective ==
  ASSUME NEW S, NEW T, RecordsHash(S) = RecordsHash(T)
  PROVE  S = T
BY DEF RecordsHash, Hash

\* In a bundle that passes, the records shown of a period are those its
\* checkpoint counted, and every record shown is of a period shown.
LEMMA PassExact ==
  ASSUME IInv, answer = "PASS"
  PROVE  \E disclosed \in SUBSET ledger, first, last \in DOMAIN checkpoints :
           /\ first =< last /\ first \in Nat /\ last \in Nat
           /\ Disclosed = disclosed
           /\ review.from = checkpoints[first].start /\ review.to = checkpoints[last].end
           /\ \A j \in first..last :
                {l \in disclosed : InPeriod(checkpoints[j], LeafRecord(l).time)}
                  = CountedIn(checkpoints[j])
           /\ \A l \in disclosed : \E j \in first..last :
                InPeriod(checkpoints[j], LeafRecord(l).time)
<1>1. ~Running /\ answer # "FAIL" /\ answer # "INCOMPLETE"
  BY DEF Running
<1>2. /\ answer = Verifier!Answer(review)
      /\ \E d \in SUBSET ledger, f, t \in DOMAIN checkpoints :
           f =< t /\ review = Bundle(d, f, t)
  BY <1>1 DEF IInv, ReviewInv
<1>3. ~Refuted(review) /\ ~Lacking(review)
  BY <1>1, <1>2 DEF Verifier!Answer
<1>4. PICK disclosed \in SUBSET ledger, first \in DOMAIN checkpoints, last \in DOMAIN checkpoints :
        first =< last /\ review = Bundle(disclosed, first, last)
  BY <1>2
<1>5. ShowsChain(review, first, last) /\ first \in Nat /\ last \in Nat
  BY <1>4, BundleChain
<1>6. ShowsRecords(review, disclosed)
  BY <1>4, BundleRecords
<1>7. Leaves(review) = disclosed /\ Disclosed = disclosed
  BY <1>6 DEF ShowsRecords, Leaves, Disclosed
<1>8. ASSUME NEW j \in first..last
      PROVE  {l \in disclosed : InPeriod(checkpoints[j], LeafRecord(l).time)}
               = CountedIn(checkpoints[j])
  <2> DEFINE k == j - first + 1
             cp == checkpoints[j]
  <2>1. k \in DOMAIN review.checkpoints /\ review.checkpoints[k] = cp
    <3>1. k \in 1..(last - first + 1) /\ first + k - 1 = j
      BY <1>5
    <3> HIDE DEF k
    <3> QED BY <3>1, <1>5 DEF ShowsChain
  <2>2. ~CountRefuted(cp, LeavesIn(review, cp)) /\ ~CountLacking(cp, LeavesIn(review, cp))
    BY <1>3, <2>1 DEF Refuted, Lacking
  <2>3. RecordsHash(LeavesIn(review, cp)) = cp.hash
    BY <2>2 DEF CountRefuted
  <2>4. cp.hash = RecordsHash(CountedIn(cp))
    <3>1. j \in DOMAIN checkpoints
      <4>1. DOMAIN checkpoints = 1..Len(checkpoints) /\ Len(checkpoints) \in Nat
        BY SequenceFacts DEF IInv, PeriodsInv
      <4> QED BY <4>1, <1>4, <1>5
    <3> QED BY <3>1 DEF IInv, CountsInv, CheckpointInv
  <2>5. LeavesIn(review, cp) = CountedIn(cp)
    BY <2>3, <2>4, HashInjective
  <2> QED BY <2>5, <1>7 DEF LeavesIn
<1>9. ASSUME NEW l \in disclosed
      PROVE  \E j \in first..last : InPeriod(checkpoints[j], LeafRecord(l).time)
  <2>1. Slots(review, LeafRecord(l).time) # {}
    BY <1>3, <1>7, <1>9 DEF Lacking
  <2>2. PICK k \in DOMAIN review.checkpoints : InPeriod(review.checkpoints[k], LeafRecord(l).time)
    BY <2>1 DEF Slots
  <2>3. k \in 1..(last - first + 1) /\ review.checkpoints[k] = checkpoints[first + k - 1]
    BY <1>5, <2>2 DEF ShowsChain
  <2>4. first + k - 1 \in first..last
    BY <1>5, <2>3
  <2> QED BY <2>2, <2>3, <2>4
<1>10. review.from = checkpoints[first].start /\ review.to = checkpoints[last].end
  BY <1>5 DEF ShowsChain
<1> QED BY <1>4, <1>5, <1>7, <1>8, <1>9, <1>10

\* What the periods from first to last say of their numbers.
LEMMA PeriodFacts ==
  ASSUME IInv
  PROVE  /\ DOMAIN checkpoints = 1..Len(checkpoints) /\ Len(checkpoints) \in Nat
         /\ \A k \in DOMAIN checkpoints :
              /\ checkpoints[k].start \in Nat /\ checkpoints[k].end \in Nat
              /\ checkpoints[k].start < checkpoints[k].end
              /\ checkpoints[k].end =< NextStart
         /\ NextStart \in Nat
         /\ \A j, k \in DOMAIN checkpoints :
              j < k => checkpoints[j].end =< checkpoints[k].start
BY SequenceFacts DEF IInv, PeriodsInv, CountsInv, CheckpointInv

\* An instant lies between the start of one period and the end of another
\* exactly when it lies in one of the periods from the one to the other.
LEMMA Spans ==
  ASSUME IInv, NEW first \in DOMAIN checkpoints, NEW last \in DOMAIN checkpoints, first =< last,
         NEW t \in Nat
  PROVE  checkpoints[first].start =< t /\ t < checkpoints[last].end
           <=> \E j \in first..last : InPeriod(checkpoints[j], t)
<1>1. ASSUME checkpoints[first].start =< t, t < checkpoints[last].end
      PROVE  \E j \in first..last : InPeriod(checkpoints[j], t)
  <2>1. PICK j \in DOMAIN checkpoints : InPeriod(checkpoints[j], t)
    <3>1. t \in 0..(NextStart - 1)
      BY <1>1, PeriodFacts
    <3> QED BY <3>1 DEF IInv, PeriodsInv
  <2>2. checkpoints[j].start =< t /\ t < checkpoints[j].end
    BY <2>1 DEF InPeriod
  <2>3. ~(j < first)
    <3> SUFFICES ASSUME j < first PROVE FALSE
      OBVIOUS
    <3>1. checkpoints[j].end =< checkpoints[first].start
      BY PeriodFacts
    <3> QED BY <3>1, <1>1, <2>2, PeriodFacts
  <2>4. ~(last < j)
    <3> SUFFICES ASSUME last < j PROVE FALSE
      OBVIOUS
    <3>1. checkpoints[last].end =< checkpoints[j].start
      BY PeriodFacts
    <3> QED BY <3>1, <1>1, <2>2, PeriodFacts
  <2>5. j \in first..last
    BY <2>3, <2>4, PeriodFacts
  <2> QED BY <2>1, <2>5
<1>2. ASSUME NEW j \in first..last, InPeriod(checkpoints[j], t)
      PROVE  checkpoints[first].start =< t /\ t < checkpoints[last].end
  <2>1. j \in DOMAIN checkpoints /\ first =< j /\ j =< last /\ j \in Nat
        /\ first \in Nat /\ last \in Nat
    BY PeriodFacts
  <2>2. checkpoints[j].start =< t /\ t < checkpoints[j].end
    BY <1>2 DEF InPeriod
  <2>3. first = j \/ checkpoints[first].end =< checkpoints[j].start
    BY <2>1, PeriodFacts
  <2>4. last = j \/ checkpoints[j].end =< checkpoints[last].start
    BY <2>1, PeriodFacts
  <2> QED BY <2>1, <2>2, <2>3, <2>4, PeriodFacts, SMTT(30)
<1> QED BY <1>1, <1>2

\* A PASS hides nothing: whatever was signed with a time inside the window is in
\* the bundle, or was left out by the issuer; the settle interval leaves no
\* record in flight as a third way out.
THEOREM PassHidesSound == Spec => []PassHidesNothing
<1>1. ASSUME IInv, answer = "PASS", NEW l \in StampedIn(Signed, review.from, review.to)
      PROVE  l \in Disclosed \cup omitted
  <2>1. PICK disclosed \in SUBSET ledger, first \in DOMAIN checkpoints, last \in DOMAIN checkpoints :
           /\ first =< last /\ first \in Nat /\ last \in Nat
           /\ Disclosed = disclosed
           /\ review.from = checkpoints[first].start /\ review.to = checkpoints[last].end
           /\ \A j \in first..last :
                {m \in disclosed : InPeriod(checkpoints[j], LeafRecord(m).time)}
                  = CountedIn(checkpoints[j])
    BY <1>1, PassExact
  <2>2. /\ l \in Signed /\ LeafRecord(l).time \in Nat
        /\ checkpoints[first].start =< LeafRecord(l).time
        /\ LeafRecord(l).time < checkpoints[last].end
    BY <1>1, <2>1 DEF StampedIn, IInv, TypeOK
  <2>3. /\ DOMAIN checkpoints = 1..Len(checkpoints) /\ Len(checkpoints) \in Nat
        /\ \A k \in DOMAIN checkpoints :
             /\ checkpoints[k].start \in Nat /\ checkpoints[k].end \in Nat
             /\ checkpoints[k].end =< NextStart
        /\ NextStart \in Nat
    BY <1>1, SequenceFacts DEF IInv, PeriodsInv, CountsInv, CheckpointInv
  <2>4. LeafRecord(l).time < NextStart
    BY <2>2, <2>3
  <2>5. l \in ledger
    BY <1>1, <2>2, <2>3, <2>4 DEF IInv, SignedInv, Signed
  <2>6. PICK j \in first..last : InPeriod(checkpoints[j], LeafRecord(l).time)
    <3>1. IInv
      BY <1>1
    <3> QED BY <3>1, <2>1, <2>2, Spans
  <2>7. checkpoints[j].start =< LeafRecord(l).time /\ LeafRecord(l).time < checkpoints[j].end
    BY <2>6 DEF InPeriod
  <2>8. l \in CountedIn(checkpoints[j]) \/ l \in omitted
    BY <2>5, <2>7 DEF CountedIn, StampedIn
  <2> QED BY <2>1, <2>6, <2>8
<1>2. IInv => PassHidesNothing
  BY <1>1 DEF PassHidesNothing
<1> QED BY <1>2, Invariant, PTL

\* What the log names is the decision or the USE of one of its entries.
LEMMA NamedFacts ==
  ASSUME NEW l
  PROVE  l \in Named <=>
           \E k \in DOMAIN review.executions :
             l # NoHash /\ (l = review.executions[k].actionLeaf \/ l = review.executions[k].useLeaf)
<1> DEFINE Of(k) == {review.executions[k].actionLeaf, review.executions[k].useLeaf} \ {NoHash}
<1>1. l \in Named <=> \E k \in DOMAIN review.executions : l \in Of(k)
  BY DEF Named
<1>2. \A k : l \in Of(k) <=>
        l # NoHash /\ (l = review.executions[k].actionLeaf \/ l = review.executions[k].useLeaf)
  OBVIOUS
<1> QED BY <1>1, <1>2

\* No bundle that passes names, in the executor's log, a record the issuer left
\* out of its count.
THEOREM OmissionSound == Spec => []OmissionSeen
<1>1. ASSUME IInv, answer = "PASS", NEW l \in Named
      PROVE  l \notin omitted
  <2>1. /\ answer = Verifier!Answer(review) /\ answer # "FAIL"
    BY <1>1 DEF IInv, ReviewInv, Running
  <2>2. ~Refuted(review)
    BY <2>1 DEF Verifier!Answer
  <2>3. PICK k \in DOMAIN review.executions :
          l # NoHash /\ (l = review.executions[k].actionLeaf \/ l = review.executions[k].useLeaf)
    <3>1. l \in Named
      BY <1>1
    <3> QED BY <3>1, NamedFacts
  <2>4. ~ExecutionRefuted(review, k, Leaves(review), ExecutedBefore(review, k))
    BY <2>2 DEF Refuted
  <2>5. l \in Leaves(review)
    <3> DEFINE e == review.executions[k]
    <3>1. e.actionLeaf # NoHash => ~ActionRefuted(e, Leaves(review))
      BY <2>4 DEF ExecutionRefuted
    <3>2. e.useLeaf # NoHash => ~UseRefuted(e, Leaves(review))
      BY <2>4 DEF ExecutionRefuted
    <3>3. CASE l = e.actionLeaf
      BY <2>3, <3>1, <3>3 DEF ActionRefuted
    <3>4. CASE l = e.useLeaf
      BY <2>3, <3>2, <3>4 DEF UseRefuted
    <3> QED BY <2>3, <3>3, <3>4
  <2>6. l \in Disclosed
    BY <2>5 DEF Leaves, Disclosed
  <2>7. PICK disclosed \in SUBSET ledger, first \in DOMAIN checkpoints, last \in DOMAIN checkpoints :
           /\ Disclosed = disclosed
           /\ \A j \in first..last :
                {m \in disclosed : InPeriod(checkpoints[j], LeafRecord(m).time)}
                  = CountedIn(checkpoints[j])
           /\ \A m \in disclosed : \E j \in first..last :
                InPeriod(checkpoints[j], LeafRecord(m).time)
    BY <1>1, PassExact
  <2>8. PICK j \in first..last : InPeriod(checkpoints[j], LeafRecord(l).time)
    BY <2>6, <2>7
  <2>9. l \in CountedIn(checkpoints[j])
    BY <2>6, <2>7, <2>8
  <2> QED BY <2>9 DEF CountedIn
<1>2. IInv => OmissionSeen
  BY <1>1 DEF OmissionSeen
<1> QED BY <1>2, Invariant, PTL

-----------------------------------------------------------------------------
(* What an honest operator is told *)

\* A set of positions that has all the earlier positions with each is an initial
\* segment.
LEMMA InitialSegment ==
  ASSUME NEW n \in Nat, NEW D \in SUBSET (1..n), \A k \in D : 1..k \subseteq D
  PROVE  Cardinality(D) \in 0..n /\ D = 1..Cardinality(D)
<1>1. IsFiniteSet(1..n) /\ Cardinality(1..n) = n
  BY FS_Interval
<1>2. IsFiniteSet(D) /\ Cardinality(D) =< n
  BY <1>1, FS_Subset, ZenonT(60)
<1>3. PICK m \in Nat : m = Cardinality(D)
  BY <1>2, FS_CardinalityType
<1>4. ASSUME NEW k \in D
      PROVE  k \in 1..m
  <2>1. k \in Nat /\ 1 =< k
    OBVIOUS
  <2>2. Cardinality(1..k) = k
    BY <2>1, FS_Interval
  <2>3. 1..k \in SUBSET D
    BY <1>4
  <2>4. Cardinality(1..k) =< Cardinality(D)
    BY <1>2, <2>3, FS_Subset
  <2> QED BY <1>3, <2>1, <2>2, <2>4
<1>5. IsFiniteSet(1..m) /\ Cardinality(1..m) = m
  BY FS_Interval
<1>6. D \in SUBSET (1..m)
  BY <1>4
<1>7. D = 1..m
  BY <1>3, <1>5, <1>6, FS_Subset
<1> QED BY <1>2, <1>3, <1>7

\* The bundle's log is the executor's up to the end of the last period shown.
ShowsLog(c, last) ==
  \E m \in 0..Len(log) :
    /\ DOMAIN c.executions = 1..m
    /\ \A k \in 1..m : c.executions[k] = log[k] /\ log[k].time < checkpoints[last].end

\* And the log's entries up to the end of the last period, by their times.
LEMMA BundleLog ==
  ASSUME IInv, NEW disclosed, NEW first, NEW last \in DOMAIN checkpoints,
         NEW c, c = Bundle(disclosed, first, last)
  PROVE  ShowsLog(c, last)
<1> DEFINE t == checkpoints[last].end
           D == {k \in DOMAIN log : log[k].time < t}
           S == {log[k] : k \in DOMAIN log}
           m == Cardinality(D)
           s == SubSeq(log, 1, m)
<1>1. Len(log) \in Nat /\ DOMAIN log = 1..Len(log)
  BY SequenceFacts DEF IInv, LogInv
<1>2. t \in Nat
  BY PeriodFacts
<1>3. \A k \in DOMAIN log : log[k].time \in Nat
  <2>1. now \in Nat /\ \A k \in DOMAIN log : EntryInv(k)
    BY IssuanceAssumption DEF IInv, LogInv, TypeOK
  <2>2. \A k \in DOMAIN log : log[k].time \in 0..now
    BY <2>1 DEF EntryInv
  <2> QED BY <2>1, <2>2
<1>4. \A j, k \in DOMAIN log : j < k => log[j].time =< log[k].time
  BY DEF IInv, LogInv
<1> HIDE DEF t
<1>5. ASSUME NEW k \in D
      PROVE  1..k \subseteq D
  <2> SUFFICES ASSUME NEW j \in 1..k PROVE j \in D
    OBVIOUS
  <2>1. j \in DOMAIN log /\ (j = k \/ j < k) /\ k \in DOMAIN log /\ log[k].time < t
    BY <1>1
  <2> QED BY <2>1, <1>2, <1>3, <1>4
<1>6. D \in SUBSET (1..Len(log))
  BY <1>1
<1>7. \A k \in D : log[k].time < t
  OBVIOUS
<1> HIDE DEF D
<1>8. m \in 0..Len(log) /\ D = 1..m
  BY <1>1, <1>5, <1>6, InitialSegment
<1> HIDE DEF m
<1>9. \A k \in 1..m : log[k] \in S
  BY <1>1, <1>8
<1> HIDE DEF S
<1>10. /\ s \in Seq(S) /\ Len(s) = m
       /\ \A k \in 1..m : s[k] = log[k]
  <2>1. m \in Int /\ 1 \in Int /\ m - 1 + 1 = m
    BY <1>1, <1>8
  <2>2. /\ s \in Seq(S) /\ Len(s) = IF 1 =< m THEN m - 1 + 1 ELSE 0
        /\ \A k \in 1..(m - 1 + 1) : s[k] = log[1 + k - 1]
    BY <2>1, <1>9, SubSeqProperties
  <2>3. \A k \in 1..m : 1 + k - 1 = k
    OBVIOUS
  <2> QED BY <2>1, <2>2, <2>3, <1>1, <1>8
<1> HIDE DEF s
<1>11. DOMAIN s = 1..m
  BY <1>10, LenProperties
<1>12. c.executions = s
  BY DEF Bundle, LogUntil, s, m, D, t
<1> QED BY <1>7, <1>8, <1>10, <1>11, <1>12 DEF ShowsLog, t

\* The checkpoints an issuer chains continue each other wherever the run shown
\* begins.
LEMMA HonestCheckpoints ==
  ASSUME IInv, NEW first \in DOMAIN checkpoints, NEW last \in DOMAIN checkpoints, first =< last,
         NEW c, ShowsChain(c, first, last), c.pinned = Issuer, c.org = "org",
         NEW k \in DOMAIN c.checkpoints
  PROVE  ~CheckpointRefuted(c, k)
<1>1. /\ DOMAIN checkpoints = 1..Len(checkpoints) /\ Len(checkpoints) \in Nat
      /\ first \in Nat /\ last \in Nat
  BY PeriodFacts
<1>2. PICK j \in DOMAIN checkpoints : j = first + k - 1
  BY <1>1 DEF ShowsChain
<1>3. /\ k \in Nat /\ k >= 1 /\ c.checkpoints[k] = checkpoints[j]
      /\ k > 1 => j > 1 /\ j - 1 \in DOMAIN checkpoints
                 /\ c.checkpoints[k - 1] = checkpoints[j - 1]
  <2>1. k \in 1..(last - first + 1)
    BY DEF ShowsChain
  <2>2. k > 1 => /\ k - 1 \in 1..(last - first + 1) /\ first + (k - 1) - 1 = j - 1
                 /\ j - 1 \in DOMAIN checkpoints /\ j > 1
    BY <1>1, <1>2, <2>1, SMTT(30)
  <2>3. \A i \in 1..(last - first + 1) : c.checkpoints[i] = checkpoints[first + i - 1]
    BY DEF ShowsChain
  <2>4. c.checkpoints[k] = checkpoints[j]
    BY <1>2, <2>1, <2>3
  <2>5. k > 1 => c.checkpoints[k - 1] = checkpoints[j - 1]
    BY <2>2, <2>3
  <2>6. k \in Nat /\ k >= 1
    BY <2>1
  <2> QED BY <2>2, <2>4, <2>5, <2>6
<1> DEFINE cp == checkpoints[j]
<1>4. CheckpointInv(j)
  BY DEF IInv, CountsInv
<1>5. j > 1 => CheckpointInv(j - 1)
  BY <1>1 DEF IInv, CountsInv
<1>6. IsFiniteSet(CountedIn(cp)) /\ cp.count \in Nat /\ (cp.count = 0 => CountedIn(cp) = {})
  <2>1. CountedIn(cp) \in SUBSET ledger /\ IsFiniteSet(ledger)
    BY DEF CountedIn, StampedIn, IInv, SignedInv
  <2>2. IsFiniteSet(CountedIn(cp))
    BY <2>1, FS_Subset
  <2> HIDE DEF cp
  <2>3. cp.count = Cardinality(CountedIn(cp))
    BY <1>4 DEF CheckpointInv, cp
  <2> QED BY <2>2, <2>3, FS_CardinalityType, FS_EmptySet
<1>7. j > 1 => cp.prev # NoHash
  <2>1. \A other : CheckpointHash(other) # NoHash
    BY DEF CheckpointHash, Hash, NoHash
  <2> QED BY <2>1, <1>4 DEF CheckpointInv
<1>8. cp.seq = j /\ j \in Nat /\ j >= 1
  BY <1>1, <1>4 DEF CheckpointInv
<1>9. cp.count =< cp.total
  <2>1. CASE j = 1
    BY <2>1, <1>4, <1>6 DEF CheckpointInv
  <2>2. CASE j > 1
    <3>1. checkpoints[j - 1].total \in Nat
      BY <2>2, <1>5 DEF CheckpointInv
    <3> QED BY <2>2, <3>1, <1>4, <1>6 DEF CheckpointInv
  <2> QED BY <2>1, <2>2, <1>8
<1>10. CheckpointOk(c, cp)
  <2>1. cp.form /\ cp.signed /\ cp.key = Issuer
    BY <1>4 DEF CheckpointInv, SignedBy
  <2>2. cp.seq = 1 <=> cp.prev = NoHash
    BY <1>4, <1>7, <1>8 DEF CheckpointInv
  <2>3. cp.start < cp.end /\ cp.end =< cp.time
    BY <1>4 DEF CheckpointInv
  <2>4. cp.seq = 1 => cp.total = cp.count
    BY <1>4, <1>8 DEF CheckpointInv
  <2>5. cp.count = 0 => cp.hash = RecordsHash({})
    BY <1>4, <1>6 DEF CheckpointInv
  <2> QED BY <2>1, <2>2, <2>3, <2>4, <2>5, <1>9 DEF CheckpointOk
<1>11. cp.org = "org"
  BY <1>4 DEF CheckpointInv, SignedBy
<1>12. k > 1 => LET prev == checkpoints[j - 1] IN
              /\ cp.seq = prev.seq + 1 /\ cp.prev = CheckpointHash(prev)
              /\ cp.start = prev.end /\ cp.total = prev.total + cp.count
  <2> SUFFICES ASSUME k > 1
               PROVE  LET prev == checkpoints[j - 1] IN
                      /\ cp.seq = prev.seq + 1 /\ cp.prev = CheckpointHash(prev)
                      /\ cp.start = prev.end /\ cp.total = prev.total + cp.count
    OBVIOUS
  <2>1. j > 1 /\ checkpoints[j - 1].seq = j - 1
    BY <1>3, <1>5 DEF CheckpointInv
  <2> QED BY <2>1, <1>4, <1>8 DEF CheckpointInv
<1> QED BY <1>3, <1>10, <1>11, <1>12 DEF CheckpointRefuted

\* The records shown are the issuer's, each shown once.
LEMMA HonestRecords ==
  ASSUME IInv, NEW disclosed \in SUBSET ledger, NEW c, ShowsRecords(c, disclosed),
         c.pinned = Issuer, c.org = "org", NEW k \in DOMAIN c.records
  PROVE  ~RecordRefuted(c, k, {RecordLeaf(c.records[m]) : m \in 1..(k - 1)})
<1> DEFINE item == c.records[k]
           l == RecordLeaf(item)
<1>1. /\ l \in disclosed /\ item.kind = LeafKind(l) /\ item.record = LeafRecord(l)
      /\ \A j \in DOMAIN c.records : RecordLeaf(c.records[j]) = l => j = k
      /\ \E n \in Nat : DOMAIN c.records = 1..n
  BY DEF ShowsRecords
<1>2. ASSUME NEW m \in 1..(k - 1)
      PROVE  RecordLeaf(c.records[m]) # l
  <2>1. m \in DOMAIN c.records /\ m # k
    BY <1>1
  <2> QED BY <1>1, <2>1
<1>3. l \notin {RecordLeaf(c.records[m]) : m \in 1..(k - 1)}
  BY <1>2
<1>4. LeafKind(l) \in {"use", "action"} /\ SignedBy(LeafRecord(l), Issuer)
  BY <1>1, SignedFacts DEF IInv, Signed
<1> HIDE DEF l
<1>5. RecordOk(c, item) /\ item.record.org = "org"
  BY <1>1, <1>4 DEF RecordOk, SignedBy
<1> QED BY <1>3, <1>5 DEF RecordRefuted, l

\* When nothing was left out and the whole span is shown, every period shown has
\* the records its checkpoint counted.
LEMMA HonestCounts ==
  ASSUME IInv, omitted = {}, NEW disclosed \in SUBSET ledger,
         NEW first \in DOMAIN checkpoints, NEW last \in DOMAIN checkpoints, first =< last,
         StampedIn(ledger, checkpoints[first].start, checkpoints[last].end) \subseteq disclosed,
         NEW c, ShowsChain(c, first, last), Leaves(c) = disclosed,
         NEW k \in DOMAIN c.checkpoints
  PROVE  /\ ~CountRefuted(c.checkpoints[k], LeavesIn(c, c.checkpoints[k]))
         /\ ~CountLacking(c.checkpoints[k], LeavesIn(c, c.checkpoints[k]))
<1>1. /\ DOMAIN checkpoints = 1..Len(checkpoints) /\ Len(checkpoints) \in Nat
      /\ first \in Nat /\ last \in Nat
  BY PeriodFacts
<1>2. PICK j \in first..last : j = first + k - 1
  <2>1. k \in 1..(last - first + 1)
    BY DEF ShowsChain
  <2>2. first + k - 1 \in first..last
    BY <1>1, <2>1
  <2> QED BY <2>2
<1>3. c.checkpoints[k] = checkpoints[j] /\ j \in DOMAIN checkpoints
  BY <1>1, <1>2 DEF ShowsChain
<1> DEFINE cp == checkpoints[j]
<1>4. ASSUME NEW l \in ledger, InPeriod(cp, LeafRecord(l).time)
      PROVE  l \in disclosed
  <2>1. LeafRecord(l).time \in Nat
    BY DEF IInv, TypeOK, Signed
  <2>2. \E n \in first..last : InPeriod(checkpoints[n], LeafRecord(l).time)
    BY <1>2, <1>4
  <2>3. /\ checkpoints[first].start =< LeafRecord(l).time
        /\ LeafRecord(l).time < checkpoints[last].end
    BY <2>1, <2>2, Spans
  <2> QED BY <2>3 DEF StampedIn
<1>5. LeavesIn(c, cp) = CountedIn(cp)
  BY <1>4 DEF LeavesIn, CountedIn, StampedIn, InPeriod
<1>6. cp.hash = RecordsHash(CountedIn(cp)) /\ cp.count = Cardinality(CountedIn(cp))
  BY <1>3 DEF IInv, CountsInv, CheckpointInv
<1>7. Cardinality(CountedIn(cp)) \in Nat
  <2>1. CountedIn(cp) \in SUBSET ledger /\ IsFiniteSet(ledger)
    BY DEF CountedIn, StampedIn, IInv, SignedInv
  <2>2. IsFiniteSet(CountedIn(cp))
    BY <2>1, FS_Subset
  <2> QED BY <2>2, FS_CardinalityType
<1> QED BY <1>3, <1>5, <1>6, <1>7 DEF CountRefuted, CountLacking

\* The executor's log agrees with itself and with every record it names.
LEMMA HonestExecutions ==
  ASSUME IInv, NEW last \in DOMAIN checkpoints, NEW c, ShowsLog(c, last),
         c.org = "org", c.executorKeys = {Executor},
         NEW k \in DOMAIN c.executions,
         c.executions[k].actionLeaf \in Leaves(c),
         c.executions[k].useLeaf # NoHash => c.executions[k].useLeaf \in Leaves(c)
  PROVE  /\ ~ExecutionRefuted(c, k, Leaves(c), ExecutedBefore(c, k))
         /\ c.executions[k].time \in Nat /\ c.executions[k].time < checkpoints[last].end
<1>1. PICK m \in 0..Len(log) :
        /\ DOMAIN c.executions = 1..m
        /\ \A i \in 1..m : c.executions[i] = log[i] /\ log[i].time < checkpoints[last].end
  BY DEF ShowsLog
<1>2. DOMAIN log = 1..Len(log) /\ Len(log) \in Nat
  BY SequenceFacts DEF IInv, LogInv
<1>3. /\ k \in Nat /\ k >= 1 /\ k \in DOMAIN log /\ c.executions[k] = log[k]
      /\ 1 \in DOMAIN log /\ c.executions[1] = log[1]
      /\ k > 1 => k - 1 \in DOMAIN log /\ c.executions[k - 1] = log[k - 1]
      /\ \A i \in 1..(k - 1) : i \in DOMAIN log /\ i < k /\ c.executions[i] = log[i]
  BY <1>1, <1>2
<1>4. \A i \in DOMAIN log : EntryInv(i)
  BY DEF IInv, LogInv
<1> DEFINE e == log[k]
<1>5. /\ EntryInv(k) /\ e.seq = k /\ SignedBy(e, Executor) /\ e.executor = "executor"
      /\ log[1].key = Executor /\ log[1].executor = "executor"
      /\ k > 1 => log[k - 1].seq = k - 1
  BY <1>3, <1>4 DEF EntryInv, SignedBy
<1>6. /\ e.actionLeaf \in ledger /\ LeafKind(e.actionLeaf) = "action"
      /\ LeafRecord(e.actionLeaf).id = e.actionId /\ LeafRecord(e.actionLeaf).args = e.args
      /\ e.useLeaf = NoHash \/ e.useLeaf \in ledger
  BY <1>5 DEF EntryInv
<1>7. e.actionLeaf # NoHash /\ e.actionId # "" /\ e.args # ""
  BY <1>6, SignedFacts DEF IInv, Signed
<1>8. \/ /\ e.result = "EXECUTED" /\ LeafRecord(e.actionLeaf).outcome = "ALLOWED"
         /\ e.useLeaf \in ledger /\ LeafKind(e.useLeaf) = "use"
         /\ LeafRecord(e.useLeaf).id = e.useId
         /\ LeafRecord(e.useLeaf).actionId = e.actionId
      \/ e.result = "REFUSED" /\ e.useLeaf = NoHash /\ e.useId = ""
  BY <1>5 DEF EntryInv
<1>9. e.result = "EXECUTED" => e.useLeaf # NoHash /\ e.useId # ""
  BY <1>8, SignedFacts DEF IInv, Signed
<1>10. /\ k = 1 => e.prev = NoHash
       /\ k > 1 => e.prev = ExecutionHash(log[k - 1]) /\ e.prev # NoHash
  <2>1. \A other : ExecutionHash(other) # NoHash
    BY DEF ExecutionHash, Hash, NoHash
  <2> QED BY <2>1, <1>5 DEF EntryInv
<1>11. ExecutionOk(e)
  <2>1. e.form /\ e.signed
    BY <1>5 DEF SignedBy
  <2>2. e.seq = 1 <=> e.prev = NoHash
    BY <1>3, <1>5, <1>10
  <2>3. e.result \in {"EXECUTED", "REFUSED"}
    BY <1>8
  <2>4. e.useLeaf = NoHash => e.useId = ""
    BY <1>8, <1>9
  <2> QED BY <2>1, <2>2, <2>3, <2>4, <1>7, <1>9 DEF ExecutionOk
<1>12. ~ActionRefuted(e, Leaves(c))
  <2>1. e.actionLeaf \in Leaves(c)
    BY <1>3
  <2> QED BY <2>1, <1>6, <1>8 DEF ActionRefuted
<1>13. e.useLeaf # NoHash => ~UseRefuted(e, Leaves(c))
  <2>1. e.useLeaf # NoHash => e.useLeaf \in Leaves(c)
    BY <1>3
  <2> QED BY <2>1, <1>8 DEF UseRefuted
<1>14. e.result = "EXECUTED" => e.actionId \notin ExecutedBefore(c, k)
  <2> SUFFICES ASSUME e.result = "EXECUTED", e.actionId \in ExecutedBefore(c, k) PROVE FALSE
    OBVIOUS
  <2>1. PICK i \in 1..(k - 1) :
          c.executions[i].result = "EXECUTED" /\ c.executions[i].actionId = e.actionId
    BY DEF ExecutedBefore
  <2>2. i \in DOMAIN log /\ i < k /\ log[i].result = "EXECUTED" /\ log[i].actionId = e.actionId
    BY <1>3, <2>1
  <2> QED BY <1>3, <2>2 DEF IInv, LogInv
<1>15. e.org = "org" /\ e.key = Executor
  BY <1>5 DEF SignedBy
<1>16. k > 1 => /\ e.executor = log[1].executor /\ e.key = log[1].key
                /\ e.seq = log[k - 1].seq + 1 /\ e.prev = ExecutionHash(log[k - 1])
  BY <1>3, <1>5, <1>10, <1>15
<1>17. ~ExecutionRefuted(c, k, Leaves(c), ExecutedBefore(c, k))
  BY <1>3, <1>11, <1>12, <1>13, <1>14, <1>15, <1>16 DEF ExecutionRefuted
<1>18. e.time \in Nat
  <2>1. now \in Nat
    BY IssuanceAssumption DEF IInv, TypeOK
  <2>2. e.time \in 0..now
    BY <1>5 DEF EntryInv
  <2> QED BY <2>1, <2>2
<1> QED BY <1>1, <1>3, <1>17, <1>18

\* What an honest bundle holds: all that is in the ledger of the span shown, and
\* what the log names besides.
LEMMA HonestShown ==
  ASSUME IInv, ~Running, omitted = {}, Disclosed = InSpan(ledger) \cup Named
  PROVE  \E first, last \in DOMAIN checkpoints :
           /\ first =< last /\ first \in Nat /\ last \in Nat
           /\ ShowsChain(review, first, last) /\ ShowsLog(review, last)
           /\ ShowsRecords(review, Disclosed) /\ Disclosed \subseteq ledger
           /\ Leaves(review) = Disclosed
           /\ FirstStart(review) = checkpoints[first].start
           /\ LastEnd(review) = checkpoints[last].end
           /\ InSpan(ledger) = StampedIn(ledger, checkpoints[first].start, checkpoints[last].end)
           /\ review.pinned = Issuer /\ review.org = "org" /\ review.executorKeys = {Executor}
           /\ ~InputsRefuted(review) /\ ~CoverageLacking(review)
<1>1. \E d \in SUBSET ledger, f, t \in DOMAIN checkpoints : f =< t /\ review = Bundle(d, f, t)
  BY DEF IInv, ReviewInv
<1>2. PICK disclosed \in SUBSET ledger, first \in DOMAIN checkpoints, last \in DOMAIN checkpoints :
        first =< last /\ review = Bundle(disclosed, first, last)
  BY <1>1
<1>3. ShowsChain(review, first, last) /\ first \in Nat /\ last \in Nat
  BY <1>2, BundleChain
<1>4. ShowsRecords(review, disclosed) /\ ShowsLog(review, last)
  BY <1>2, BundleRecords, BundleLog
<1>5. Leaves(review) = disclosed /\ Disclosed = disclosed
  BY <1>4 DEF ShowsRecords, Leaves, Disclosed
<1>6. review.checkpoints[1].start = checkpoints[first].start /\ LastEnd(review) = checkpoints[last].end
  <2>1. /\ 1 \in 1..(last - first + 1) /\ first + 1 - 1 = first
        /\ last - first + 1 \in 1..(last - first + 1) /\ first + (last - first + 1) - 1 = last
    BY <1>2, <1>3
  <2>2. /\ Len(review.checkpoints) = last - first + 1
        /\ \A i \in 1..(last - first + 1) : review.checkpoints[i] = checkpoints[first + i - 1]
    BY <1>3 DEF ShowsChain
  <2>3. review.checkpoints[1] = checkpoints[first]
    BY <2>1, <2>2
  <2>4. review.checkpoints[Len(review.checkpoints)] = checkpoints[last]
    BY <2>1, <2>2
  <2> QED BY <2>3, <2>4 DEF LastEnd
<1>7. /\ review.pinned = Issuer /\ review.org = "org" /\ review.executorKeys = {Executor}
      /\ review.from = checkpoints[first].start /\ review.to = checkpoints[last].end
      /\ review.form
  BY <1>2 DEF Bundle
<1>8. /\ checkpoints[first].start \in Nat /\ checkpoints[last].end \in Nat
      /\ checkpoints[first].start < checkpoints[last].end
  <2>1. first = last \/ checkpoints[first].end =< checkpoints[last].start
    BY <1>2, <1>3, PeriodFacts
  <2> QED BY <2>1, PeriodFacts
<1>9. ~InputsRefuted(review)
  BY <1>7, <1>8, IssuanceAssumption DEF InputsRefuted
<1>10. ~CoverageLacking(review)
  BY <1>3, <1>6, <1>7, <1>8 DEF ShowsChain, CoverageLacking, FirstStart
<1>11. InSpan(ledger) = StampedIn(ledger, checkpoints[first].start, checkpoints[last].end)
  BY <1>6 DEF InSpan
<1> QED BY <1>2, <1>3, <1>4, <1>5, <1>6, <1>7, <1>9, <1>10, <1>11 DEF FirstStart

\* An issuer that leaves nothing out and an operator who shows all it has are
\* never refuted; what keeps an honest bundle from passing is only that the log,
\* or a record it names, reaches back before the first period shown.
THEOREM HonestSound == Spec => []HonestNeverRefuted
<1>1. ASSUME IInv, ~Running, omitted = {}, Disclosed = InSpan(ledger) \cup Named
      PROVE  /\ answer # "FAIL"
             /\ answer = "PASS" <=>
                  /\ Named \subseteq InSpan(ledger)
                  /\ \A k \in DOMAIN review.executions :
                       review.executions[k].time >= review.checkpoints[1].start
  <2>1. PICK first \in DOMAIN checkpoints, last \in DOMAIN checkpoints :
           /\ first =< last /\ first \in Nat /\ last \in Nat
           /\ ShowsChain(review, first, last) /\ ShowsLog(review, last)
           /\ ShowsRecords(review, Disclosed) /\ Disclosed \subseteq ledger
           /\ Leaves(review) = Disclosed
           /\ FirstStart(review) = checkpoints[first].start
           /\ LastEnd(review) = checkpoints[last].end
           /\ InSpan(ledger) = StampedIn(ledger, checkpoints[first].start, checkpoints[last].end)
           /\ review.pinned = Issuer /\ review.org = "org" /\ review.executorKeys = {Executor}
           /\ ~InputsRefuted(review) /\ ~CoverageLacking(review)
    BY <1>1, HonestShown
  <2>2. answer = Verifier!Answer(review)
    BY <1>1 DEF IInv, ReviewInv
  <2>3. \A k \in DOMAIN review.checkpoints : ~CheckpointRefuted(review, k)
    BY <1>1, <2>1, HonestCheckpoints
  <2>4. \A k \in DOMAIN review.records :
          ~RecordRefuted(review, k, {RecordLeaf(review.records[m]) : m \in 1..(k - 1)})
    <3>1. Disclosed \in SUBSET ledger
      BY <2>1
    <3> QED BY <1>1, <2>1, <3>1, HonestRecords
  <2>5. \A k \in DOMAIN review.checkpoints :
          /\ ~CountRefuted(review.checkpoints[k], LeavesIn(review, review.checkpoints[k]))
          /\ ~CountLacking(review.checkpoints[k], LeavesIn(review, review.checkpoints[k]))
    <3>1. /\ Disclosed \in SUBSET ledger
          /\ StampedIn(ledger, checkpoints[first].start, checkpoints[last].end) \subseteq Disclosed
      BY <1>1, <2>1
    <3> QED BY <1>1, <2>1, <3>1, HonestCounts
  <2>6. ASSUME NEW k \in DOMAIN review.executions
        PROVE  /\ ~ExecutionRefuted(review, k, Leaves(review), ExecutedBefore(review, k))
               /\ review.executions[k].time \in Nat
               /\ review.executions[k].time < checkpoints[last].end
    <3>1. /\ review.executions[k].actionLeaf # NoHash => review.executions[k].actionLeaf \in Named
          /\ review.executions[k].useLeaf # NoHash => review.executions[k].useLeaf \in Named
      BY <2>6, NamedFacts
    <3>2. review.executions[k].actionLeaf # NoHash
      <4>1. review.executions[k] = log[k] /\ k \in DOMAIN log
        <5>1. DOMAIN log = 1..Len(log) /\ Len(log) \in Nat
          BY <1>1, SequenceFacts DEF IInv, LogInv
        <5>2. PICK m \in 0..Len(log) :
                /\ DOMAIN review.executions = 1..m
                /\ \A i \in 1..m : review.executions[i] = log[i]
          BY <2>1 DEF ShowsLog
        <5> QED BY <2>6, <5>1, <5>2
      <4>2. log[k].actionLeaf \in Signed
        BY <1>1, <4>1 DEF IInv, LogInv, EntryInv, Signed
      <4> QED BY <1>1, <4>1, <4>2, SignedFacts DEF IInv
    <3>3. Named \subseteq Leaves(review)
      BY <1>1, <2>1
    <3> QED BY <1>1, <2>1, <2>6, <3>1, <3>2, <3>3, HonestExecutions
  <2>7. ~Refuted(review)
    BY <2>1, <2>3, <2>4, <2>5, <2>6 DEF Refuted
  <2>8. ASSUME NEW l \in ledger
        PROVE  Slots(review, LeafRecord(l).time) = {} <=> l \notin InSpan(ledger)
    <3> DEFINE t == LeafRecord(l).time
    <3>1. t \in Nat
      BY <1>1, <2>8 DEF IInv, TypeOK, Signed
    <3> HIDE DEF t
    <3>2. checkpoints[first].start =< t /\ t < checkpoints[last].end
            <=> \E j \in first..last : InPeriod(checkpoints[j], t)
      BY <1>1, <2>1, <3>1, Spans
    <3>3. (\E j \in first..last : InPeriod(checkpoints[j], t)) <=> Slots(review, t) # {}
      <4>1. /\ DOMAIN review.checkpoints = 1..(last - first + 1)
            /\ \A i \in 1..(last - first + 1) : review.checkpoints[i] = checkpoints[first + i - 1]
        BY <2>1 DEF ShowsChain
      <4>2. ASSUME NEW j \in first..last, InPeriod(checkpoints[j], t)
            PROVE  Slots(review, t) # {}
        <5>1. PICK i \in 1..(last - first + 1) : i = j - first + 1 /\ first + i - 1 = j
          BY <2>1
        <5> QED BY <4>1, <4>2, <5>1 DEF Slots
      <4>3. ASSUME NEW i \in Slots(review, t)
            PROVE  \E j \in first..last : InPeriod(checkpoints[j], t)
        <5>1. i \in 1..(last - first + 1) /\ InPeriod(checkpoints[first + i - 1], t)
          BY <4>1 DEF Slots
        <5>2. first + i - 1 \in first..last
          BY <2>1, <5>1
        <5> QED BY <5>1, <5>2
      <4> QED BY <4>2, <4>3
    <3> QED BY <2>1, <2>8, <3>2, <3>3 DEF StampedIn, t
  <2>9. (\E l \in Leaves(review) : Slots(review, LeafRecord(l).time) = {})
          <=> ~(Named \subseteq InSpan(ledger))
    BY <1>1, <2>1, <2>8
  <2>10. \A k \in DOMAIN review.executions :
           ExecutionOutside(review, review.executions[k])
             <=> ~(review.executions[k].time >= review.checkpoints[1].start)
    <3>1. review.checkpoints # <<>> /\ checkpoints[first].start \in Nat
          /\ checkpoints[last].end \in Nat /\ review.checkpoints[1].start = checkpoints[first].start
      BY <1>1, <2>1, PeriodFacts DEF ShowsChain, FirstStart
    <3> QED BY <2>1, <2>6, <3>1 DEF ExecutionOutside
  <2>11. review.executorKeys # NoKeySet
    BY <2>1, IssuanceAssumption
  <2>12. Lacking(review) <=>
           ~(/\ Named \subseteq InSpan(ledger)
             /\ \A k \in DOMAIN review.executions :
                  review.executions[k].time >= review.checkpoints[1].start)
    BY <2>1, <2>5, <2>9, <2>10, <2>11 DEF Lacking
  <2> QED BY <2>2, <2>7, <2>12 DEF Verifier!Answer
<1>2. IInv => HonestNeverRefuted
  BY <1>1 DEF HonestNeverRefuted
<1> QED BY <1>2, Invariant, PTL
=============================================================================
