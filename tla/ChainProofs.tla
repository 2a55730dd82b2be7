----------------------------- MODULE ChainProofs -----------------------------
(***************************************************************************)
(* Proofs about the chain profile, for every set of calls.  The inductive  *)
(* invariant IInv says what each loop has established about the part of    *)
(* its array it has walked; that the verdict is the order-free answer      *)
(* follows, and from the answer what a PASS promises.                      *)
(***************************************************************************)
EXTENDS Chain, SequenceTheorems, FiniteSetTheorems, TLAPS

-----------------------------------------------------------------------------
(* The calls *)

\* What the assumption on Calls says of the call in progress.
LEMMA CallFacts ==
  ASSUME call \in Calls
  PROVE  /\ Len(call.actions) \in Nat /\ DOMAIN call.actions = 1..Len(call.actions)
         /\ call.actions = <<>> <=> Len(call.actions) = 0
         /\ Len(call.grants) \in Nat /\ DOMAIN call.grants = 1..Len(call.grants)
         /\ Len(call.uses) \in Nat /\ DOMAIN call.uses = 1..Len(call.uses)
         /\ \A k \in 1..Len(call.grants) : call.grants[k].maxUses \in Nat \cup {NoLimit}
         /\ \A k \in 1..Len(call.uses) : call.uses[k].index \in Nat
<1>1. ASSUME NEW s, IsSequence(s)
      PROVE  Len(s) \in Nat /\ DOMAIN s = 1..Len(s) /\ (s = <<>> <=> Len(s) = 0)
  BY <1>1, LenProperties, EmptySeq DEF IsSequence
<1>2. IsSequence(call.actions) /\ IsSequence(call.grants) /\ IsSequence(call.uses)
  BY CallAssumption
<1>3. /\ Len(call.actions) \in Nat /\ DOMAIN call.actions = 1..Len(call.actions)
      /\ call.actions = <<>> <=> Len(call.actions) = 0
      /\ Len(call.grants) \in Nat /\ DOMAIN call.grants = 1..Len(call.grants)
      /\ Len(call.uses) \in Nat /\ DOMAIN call.uses = 1..Len(call.uses)
  BY <1>1, <1>2
<1> QED BY <1>3, CallAssumption

\* Nothing walked, nothing to have established.
LEMMA EmptyLookup ==
  ASSUME NEW S
  PROVE  <<>> \in [{} -> S]
<1>1. <<>> \in Seq(S) /\ Len(<<>>) = 0
  BY EmptySeq
<1>2. <<>> \in [1..0 -> S]
  BY <1>1, LenProperties
<1>3. 1..0 = {}
  OBVIOUS
<1> QED BY <1>2, <1>3

-----------------------------------------------------------------------------
(* What a step leaves alone stays established *)

\* One part of the invariant each: what it reads is unchanged, so it stays.
LEMMA Frame ==
  ASSUME call' = call
  PROVE  /\ UNCHANGED <<byAction, ItemsSeen>> /\ ItemsInv => ItemsInv'
         /\ UNCHANGED <<byHash, GrantsSeen>> /\ GrantsInv => GrantsInv'
         /\ UNCHANGED <<useIds, UsesSeen>> /\ UseRecordsInv => UseRecordsInv'
         /\ UNCHANGED <<claims, named, ConflictsSeen>> /\ ConflictsInv => ConflictsInv'
         /\ UNCHANGED <<byAction, byHash, UsesWeighed>> /\ UsesInv => UsesInv'
         /\ UNCHANGED <<byHash, ActionsWeighed>> /\ ActionsInv => ActionsInv'
         /\ UNCHANGED <<byAction, byHash, incomplete, UsesWeighed, ActionsWeighed>> /\ GapsInv
              => GapsInv'
<1>1. UNCHANGED <<byAction, ItemsSeen>> /\ ItemsInv => ItemsInv'
  BY DEF ItemsInv
<1>2. UNCHANGED <<byHash, GrantsSeen>> /\ GrantsInv => GrantsInv'
  BY DEF GrantsInv
<1>3. UNCHANGED <<useIds, UsesSeen>> /\ UseRecordsInv => UseRecordsInv'
  BY DEF UseRecordsInv
<1>4. UNCHANGED <<claims, named, ConflictsSeen>> /\ ConflictsInv => ConflictsInv'
  BY DEF ConflictsInv
<1>5. UNCHANGED <<byAction, byHash, UsesWeighed>> /\ UsesInv => UsesInv'
  BY DEF UsesInv
<1>6. UNCHANGED <<byHash, ActionsWeighed>> /\ ActionsInv => ActionsInv'
  BY DEF ActionsInv
<1>7. UNCHANGED <<byAction, byHash, incomplete, UsesWeighed, ActionsWeighed>> /\ GapsInv
        => GapsInv'
  BY DEF GapsInv
<1> QED BY <1>1, <1>2, <1>3, <1>4, <1>5, <1>6, <1>7

-----------------------------------------------------------------------------
(* The invariant holds initially and every step preserves it *)

\* At the start nothing has been walked.
LEMMA InitInv ==
  ASSUME Init
  PROVE  IInv
<1>1. PICK c \in Calls : Start(c)
  BY DEF Init
<1> USE <1>1 DEF Start
<1>2. /\ ItemsSeen = 0 /\ GrantsSeen = 0 /\ UsesSeen = 0 /\ ConflictsSeen = 0
      /\ UsesWeighed = 0 /\ ActionsWeighed = 0
  BY DEF ItemsSeen, GrantsSeen, UsesSeen, ConflictsSeen, UsesWeighed, ActionsWeighed,
     Walked, Steps
<1>3. DOMAIN byAction = {} /\ DOMAIN byHash = {} /\ incomplete \in Seq(Gap)
  BY EmptyLookup, EmptySeq
<1>4. TypeOK
  BY <1>3 DEF TypeOK, Steps, Bound, Oracle!Verdicts
<1>5. ItemsInv /\ GrantsInv
  BY <1>2, EmptyLookup DEF ItemsInv, GrantsInv, ActionIds, GrantHashes
<1>6. UseRecordsInv /\ ConflictsInv
  BY <1>2 DEF UseRecordsInv, ConflictsInv, UseIds, Claims, Named, UsesAt
<1>7. InputsInv /\ UsesInv /\ ActionsInv /\ GapsInv
  BY <1>2 DEF InputsInv, UsesInv, ActionsInv, GapsInv
<1> QED BY <1>3, <1>4, <1>5, <1>6, <1>7 DEF IInv, Progress

\* A run that stops at a contradiction answers FAIL, which is the call's answer
\* whatever the loops had still to walk.
LEMMA FailInv ==
  ASSUME IInv, Fail, Refuted(call)
  PROVE  IInv'
<1> USE DEF Fail, collected
<1>1. TypeOK'
  BY DEF IInv, TypeOK, Steps, Bound, Oracle!Verdicts
<1>2. Oracle!Answer(call) = "FAIL"
  BY DEF Oracle!Answer
<1>3. Oracle!Answer(call)' = Oracle!Answer(call)
  OBVIOUS
<1> QED BY <1>1, <1>2, <1>3 DEF IInv

\* Before its verdict a run has one of the seven steps in progress.
LEMMA Running ==
  ASSUME IInv, pc # "done"
  PROVE  verdict = "none" /\ Progress /\ call \in Calls /\ i \in 1..(Bound(pc) + 1)
BY DEF IInv, TypeOK

\* The arguments of the call, before any record.
LEMMA CheckInputsInv ==
  ASSUME IInv, CheckInputs
  PROVE  IInv'
<1>1. CASE InputsRefuted(call)
  BY <1>1, FailInv DEF CheckInputs, Refuted
<1>2. CASE ~InputsRefuted(call)
  <2> USE <1>2 DEF CheckInputs, Goto, collected
  <2>1. verdict = "none" /\ Progress /\ call \in Calls
    BY Running
  <2>2. /\ ItemsSeen = 0 /\ GrantsSeen = 0 /\ UsesSeen = 0 /\ ConflictsSeen = 0
        /\ UsesWeighed = 0 /\ ActionsWeighed = 0
        /\ UNCHANGED <<ItemsSeen, GrantsSeen, UsesSeen, ConflictsSeen, UsesWeighed, ActionsWeighed>>
    BY DEF ItemsSeen, GrantsSeen, UsesSeen, ConflictsSeen, UsesWeighed, ActionsWeighed,
       Walked, Steps
  <2>3. TypeOK'
    BY <2>1, CallFacts DEF IInv, TypeOK, Steps, Bound
  <2>4. Progress'
    <3>1. InputsInv'
      BY DEF InputsInv
    <3> QED BY <2>1, <2>2, <3>1, Frame DEF Progress
  <2> QED BY <2>1, <2>3, <2>4 DEF IInv
<1> QED BY <1>1, <1>2

\* by_action grows by the action at i, under an id of its own.
LEMMA CheckActionItemInv ==
  ASSUME IInv, CheckActionItem
  PROVE  IInv'
<1> DEFINE a == call.actions[i]
<1> USE DEF CheckActionItem, At
<1>1. verdict = "none" /\ Progress /\ call \in Calls
  BY Running
<1>2. i \in 1..Len(call.actions)
  BY <1>1, Running, CallFacts DEF Bound
<1>3. /\ ItemsSeen = i - 1 /\ GrantsSeen = 0 /\ UsesSeen = 0 /\ ConflictsSeen = 0
      /\ UsesWeighed = 0 /\ ActionsWeighed = 0
  BY DEF ItemsSeen, GrantsSeen, UsesSeen, ConflictsSeen, UsesWeighed, ActionsWeighed,
     Walked, Steps
<1>4. DOMAIN byAction = ActionIds(call, i - 1)
  BY <1>1, <1>3 DEF Progress, ItemsInv
<1>5. CASE ActionItemRefuted(call, a, DOMAIN byAction)
  BY <1>1, <1>2, <1>4, <1>5, FailInv, CallFacts DEF Refuted, ActionIds
<1>6. CASE ~ActionItemRefuted(call, a, DOMAIN byAction)
  <2> USE <1>6 DEF Advance
  <2>1. /\ byAction' = With(byAction, a.record.id, a)
        /\ i' = i + 1
        /\ UNCHANGED <<call, pc, byHash, useIds, claims, named, incomplete, verdict, reason>>
    OBVIOUS
  <2> HIDE DEF CheckActionItem, Advance
  <2>2. ItemsSeen' = i
    BY <1>2, <2>1 DEF ItemsSeen, Walked, CheckActionItem
  <2>3. UNCHANGED <<GrantsSeen, UsesSeen, ConflictsSeen, UsesWeighed, ActionsWeighed>>
    BY <2>1 DEF GrantsSeen, UsesSeen, ConflictsSeen, UsesWeighed, ActionsWeighed,
       Walked, Steps, CheckActionItem
  <2>4. /\ ActionIds(call, i) = ActionIds(call, i - 1) \cup {a.record.id}
        /\ ActionsAt(call, i) = ActionsAt(call, i - 1) \cup {a}
    <3>1. 1..i = (1..(i - 1)) \cup {i}
      BY <1>2
    <3> QED BY <3>1 DEF ActionIds, ActionsAt
  <2>5. a.record.id \notin ActionIds(call, i - 1)
    BY <1>4 DEF ActionItemRefuted
  <2>6. /\ byAction' \in [ActionIds(call, i) -> ActionsAt(call, i)]
        /\ byAction'[a.record.id] = a
        /\ \A id \in ActionIds(call, i - 1) : byAction'[id] = byAction[id]
    <3> DEFINE id == a.record.id
               D  == ActionIds(call, i - 1)
               R  == ActionsAt(call, i - 1)
    <3>1. byAction \in [D -> R]
      BY <1>1, <1>3 DEF Progress, ItemsInv
    <3> HIDE DEF a, D, R, id
    <3>2. /\ With(byAction, id, a) \in [D \cup {id} -> R \cup {a}]
          /\ With(byAction, id, a)[id] = a
          /\ \A z \in D : z # id => With(byAction, id, a)[z] = byAction[z]
      BY <3>1 DEF With
    <3> USE DEF D, R, id
    <3> QED BY <3>2, <2>1, <2>4, <2>5
  <2>7. ItemsInv'
    <3>1. ASSUME NEW k \in 1..i
          PROVE  /\ byAction'[call.actions[k].record.id] = call.actions[k]
                 /\ ~ActionItemRefuted(call, call.actions[k], ActionIds(call, k - 1))
      <4>1. CASE k = i
        BY <1>4, <4>1, <2>6
      <4>2. CASE k \in 1..(i - 1)
        <5>1. call.actions[k].record.id \in ActionIds(call, i - 1)
          BY <4>2 DEF ActionIds
        <5> QED BY <4>2, <5>1, <2>6, <1>1, <1>3 DEF Progress, ItemsInv
      <4> QED BY <4>1, <4>2, <1>2
    <3> QED BY <3>1, <2>1, <2>2, <2>6 DEF ItemsInv
  <2>8. UsesInv' /\ ActionsInv' /\ InputsInv'
    BY <1>1, <1>3, <2>1, <2>3 DEF UsesInv, ActionsInv, InputsInv, Progress
  <2>9. GapsInv'
    BY <1>1, <1>3, <2>1, <2>3 DEF GapsInv, Progress
  <2>10. Progress'
    BY <1>1, <2>1, <2>3, <2>7, <2>8, <2>9, Frame DEF Progress
  <2>11. TypeOK'
    <3>1. /\ ActionIds(call, i) = DOMAIN byAction' /\ pc = "actions"
          /\ Len(call.actions) \in Nat /\ i' \in 1..(Len(call.actions) + 1)
      BY <1>1, <1>2, <2>1, <2>6, CallFacts DEF CheckActionItem
    <3>2. ASSUME NEW id \in DOMAIN byAction'
          PROVE  byAction'[id] \in ActionsAt(call, Len(call.actions)) /\ byAction'[id].record.id = id
      <4>1. PICK k \in 1..i : id = call.actions[k].record.id
        BY <3>1, <3>2 DEF ActionIds
      <4>2. byAction'[id] = call.actions[k]
        BY <4>1, <2>7, <2>2, <2>1 DEF ItemsInv
      <4> QED BY <4>1, <4>2, <1>2, <3>1 DEF ActionsAt
    <3>3. /\ \A h \in DOMAIN byHash :
               byHash[h] \in GrantsAt(call, Len(call.grants)) /\ GrantHash(byHash[h]) = h
          /\ verdict \in {"none"} \cup Oracle!Verdicts
          /\ verdict = "none" <=> pc # "done"
      BY DEF IInv, TypeOK
    <3> QED BY <2>1, <3>1, <3>2, <3>3 DEF TypeOK, Steps, Bound
  <2> QED BY <1>1, <2>1, <2>10, <2>11 DEF IInv
<1> QED BY <1>5, <1>6
\* by_hash grows by the grant at i, under a hash of its own.
LEMMA CheckGrantInv ==
  ASSUME IInv, CheckGrant
  PROVE  IInv'
<1> DEFINE g == call.grants[i]
<1> USE DEF CheckGrant, At
<1>1. verdict = "none" /\ Progress /\ call \in Calls
  BY Running
<1>2. i \in 1..Len(call.grants)
  BY <1>1, Running, CallFacts DEF Bound
<1>3. /\ ItemsSeen = Len(call.actions) /\ GrantsSeen = i - 1 /\ UsesSeen = 0 /\ ConflictsSeen = 0
      /\ UsesWeighed = 0 /\ ActionsWeighed = 0
  BY DEF ItemsSeen, GrantsSeen, UsesSeen, ConflictsSeen, UsesWeighed, ActionsWeighed,
     Walked, Steps
<1>4. DOMAIN byHash = GrantHashes(call, i - 1)
  BY <1>1, <1>3 DEF Progress, GrantsInv
<1>5. CASE GrantRefuted(g, DOMAIN byHash)
  BY <1>1, <1>2, <1>4, <1>5, FailInv, CallFacts DEF Refuted, GrantHashes
<1>6. CASE ~GrantRefuted(g, DOMAIN byHash)
  <2> USE <1>6 DEF Advance
  <2>1. /\ byHash' = With(byHash, GrantHash(g), g)
        /\ i' = i + 1
        /\ UNCHANGED <<call, pc, byAction, useIds, claims, named, incomplete, verdict, reason>>
    OBVIOUS
  <2> HIDE DEF CheckGrant, Advance
  <2>2. GrantsSeen' = i
    BY <1>2, <2>1 DEF GrantsSeen, Walked, CheckGrant
  <2>3. UNCHANGED <<ItemsSeen, UsesSeen, ConflictsSeen, UsesWeighed, ActionsWeighed>>
    BY <2>1 DEF ItemsSeen, UsesSeen, ConflictsSeen, UsesWeighed, ActionsWeighed,
       Walked, Steps, CheckGrant
  <2>4. /\ GrantHashes(call, i) = GrantHashes(call, i - 1) \cup {GrantHash(g)}
        /\ GrantsAt(call, i) = GrantsAt(call, i - 1) \cup {g}
    <3>1. 1..i = (1..(i - 1)) \cup {i}
      BY <1>2
    <3> QED BY <3>1 DEF GrantHashes, GrantsAt
  <2>5. GrantHash(g) \notin GrantHashes(call, i - 1)
    BY <1>4 DEF GrantRefuted
  <2>6. /\ byHash' \in [GrantHashes(call, i) -> GrantsAt(call, i)]
        /\ byHash'[GrantHash(g)] = g
        /\ \A h \in GrantHashes(call, i - 1) : byHash'[h] = byHash[h]
    <3> DEFINE h == GrantHash(g)
               D == GrantHashes(call, i - 1)
               R == GrantsAt(call, i - 1)
    <3>1. byHash \in [D -> R]
      BY <1>1, <1>3 DEF Progress, GrantsInv
    <3> HIDE DEF g, D, R, h
    <3>2. /\ With(byHash, h, g) \in [D \cup {h} -> R \cup {g}]
          /\ With(byHash, h, g)[h] = g
          /\ \A z \in D : z # h => With(byHash, h, g)[z] = byHash[z]
      BY <3>1 DEF With
    <3> USE DEF D, R, h
    <3> QED BY <3>2, <2>1, <2>4, <2>5
  <2>7. GrantsInv'
    <3>1. ASSUME NEW k \in 1..i
          PROVE  /\ byHash'[GrantHash(call.grants[k])] = call.grants[k]
                 /\ ~GrantRefuted(call.grants[k], GrantHashes(call, k - 1))
      <4>1. CASE k = i
        BY <1>4, <4>1, <2>6
      <4>2. CASE k \in 1..(i - 1)
        <5>1. GrantHash(call.grants[k]) \in GrantHashes(call, i - 1)
          BY <4>2 DEF GrantHashes
        <5> QED BY <4>2, <5>1, <2>6, <1>1, <1>3 DEF Progress, GrantsInv
      <4> QED BY <4>1, <4>2, <1>2
    <3> QED BY <3>1, <2>1, <2>2, <2>6 DEF GrantsInv
  <2>8. UsesInv' /\ ActionsInv' /\ InputsInv'
    BY <1>1, <1>3, <2>1, <2>3 DEF UsesInv, ActionsInv, InputsInv, Progress
  <2>9. GapsInv'
    BY <1>1, <1>3, <2>1, <2>3 DEF GapsInv, Progress
  <2>10. Progress'
    BY <1>1, <2>1, <2>3, <2>7, <2>8, <2>9, Frame DEF Progress
  <2>11. TypeOK'
    <3>1. /\ GrantHashes(call, i) = DOMAIN byHash' /\ pc = "grants"
          /\ Len(call.grants) \in Nat /\ i' \in 1..(Len(call.grants) + 1)
      BY <1>1, <1>2, <2>1, <2>6, CallFacts DEF CheckGrant
    <3>2. ASSUME NEW h \in DOMAIN byHash'
          PROVE  byHash'[h] \in GrantsAt(call, Len(call.grants)) /\ GrantHash(byHash'[h]) = h
      <4>1. PICK k \in 1..i : h = GrantHash(call.grants[k])
        BY <3>1, <3>2 DEF GrantHashes
      <4>2. byHash'[h] = call.grants[k]
        BY <4>1, <2>7, <2>2, <2>1 DEF GrantsInv
      <4> QED BY <4>1, <4>2, <1>2, <3>1 DEF GrantsAt
    <3>3. /\ \A id \in DOMAIN byAction :
               byAction[id] \in ActionsAt(call, Len(call.actions)) /\ byAction[id].record.id = id
          /\ verdict \in {"none"} \cup Oracle!Verdicts
          /\ verdict = "none" <=> pc # "done"
      BY DEF IInv, TypeOK
    <3> QED BY <2>1, <3>1, <3>2, <3>3 DEF TypeOK, Steps, Bound
  <2> QED BY <1>1, <2>1, <2>10, <2>11 DEF IInv
<1> QED BY <1>5, <1>6

\* seen_use_ids grows by the USE at i.
LEMMA CheckUseRecordInv ==
  ASSUME IInv, CheckUseRecord
  PROVE  IInv'
<1> DEFINE u == call.uses[i]
<1>1. verdict = "none" /\ Progress /\ call \in Calls /\ pc = "uses"
  BY Running DEF CheckUseRecord, At
<1>2. i \in 1..Len(call.uses) /\ Len(call.uses) \in Nat
  BY <1>1, Running, CallFacts DEF Bound, CheckUseRecord, At
<1>3. UsesSeen = i - 1 /\ useIds = UseIds(call, i - 1)
  BY <1>1 DEF UsesSeen, Walked, Progress, UseRecordsInv
<1>4. CASE UseRecordRefuted(call, u, useIds)
  <2>1. Refuted(call)
    BY <1>2, <1>3, <1>4, CallFacts, <1>1 DEF Refuted, UseIds, UsesAt
  <2> QED BY <1>4, <2>1, FailInv DEF CheckUseRecord
<1>5. CASE ~UseRecordRefuted(call, u, useIds)
  <2>1. /\ useIds' = useIds \cup {u.id}
        /\ i' = i + 1
        /\ UNCHANGED <<call, pc, byAction, byHash, claims, named, incomplete, verdict, reason>>
    BY <1>5 DEF CheckUseRecord, Advance
  <2>2. UsesSeen' = i
    BY <1>1, <1>2, <2>1 DEF UsesSeen, Walked
  <2>3. UNCHANGED <<ItemsSeen, GrantsSeen, ConflictsSeen, UsesWeighed, ActionsWeighed>>
    BY <1>1, <2>1 DEF ItemsSeen, GrantsSeen, ConflictsSeen, UsesWeighed, ActionsWeighed,
       Walked, Steps
  <2>4. useIds' = UseIds(call, i)
    <3>1. 1..i = (1..(i - 1)) \cup {i}
      BY <1>2
    <3> QED BY <3>1, <1>3, <2>1 DEF UseIds, UsesAt
  <2>5. UseRecordsInv'
    <3>1. ASSUME NEW k \in 1..i
          PROVE  ~UseRecordRefuted(call, call.uses[k], UseIds(call, k - 1))
      <4>1. CASE k = i
        BY <4>1, <1>3, <1>5
      <4>2. CASE k \in 1..(i - 1)
        BY <4>2, <1>1, <1>3 DEF Progress, UseRecordsInv
      <4> QED BY <4>1, <4>2, <1>2
    <3> QED BY <3>1, <2>1, <2>2, <2>4 DEF UseRecordsInv
  <2>6. Progress'
    BY <1>1, <2>1, <2>3, <2>5, Frame DEF Progress, InputsInv
  <2>7. TypeOK'
    BY <1>1, <1>2, <2>1 DEF IInv, TypeOK, Steps, Bound
  <2> QED BY <1>1, <2>1, <2>6, <2>7 DEF IInv
<1> QED BY <1>4, <1>5

\* The claims and the named actions grow by those of the USE at i.
LEMMA CheckConflictInv ==
  ASSUME IInv, CheckConflict
  PROVE  IInv'
<1> DEFINE u == call.uses[i]
<1>1. verdict = "none" /\ Progress /\ call \in Calls /\ pc = "conflicts"
  BY Running DEF CheckConflict, At
<1>2. i \in 1..Len(call.uses) /\ Len(call.uses) \in Nat
  BY <1>1, Running, CallFacts DEF Bound, CheckConflict, At
<1>3. ConflictsSeen = i - 1 /\ claims = Claims(call, i - 1) /\ named = Named(call, i - 1)
  BY <1>1 DEF ConflictsSeen, Walked, Progress, ConflictsInv
<1>4. CASE ConflictRefuted(u, claims, named)
  <2>1. Refuted(call)
    BY <1>2, <1>3, <1>4, CallFacts, <1>1 DEF Refuted, Claims, Named, UsesAt
  <2> QED BY <1>4, <2>1, FailInv DEF CheckConflict
<1>5. CASE ~ConflictRefuted(u, claims, named)
  <2>1. /\ claims' = claims \cup {Claim(u)} /\ named' = named \cup {u.actionId}
        /\ i' = i + 1
        /\ UNCHANGED <<call, pc, byAction, byHash, useIds, incomplete, verdict, reason>>
    BY <1>5 DEF CheckConflict, Advance
  <2>2. ConflictsSeen' = i
    BY <1>1, <1>2, <2>1 DEF ConflictsSeen, Walked
  <2>3. UNCHANGED <<ItemsSeen, GrantsSeen, UsesSeen, UsesWeighed, ActionsWeighed>>
    BY <1>1, <2>1 DEF ItemsSeen, GrantsSeen, UsesSeen, UsesWeighed, ActionsWeighed,
       Walked, Steps
  <2>4. claims' = Claims(call, i) /\ named' = Named(call, i)
    <3>1. 1..i = (1..(i - 1)) \cup {i}
      BY <1>2
    <3> QED BY <3>1, <1>3, <2>1 DEF Claims, Named, UsesAt
  <2>5. ConflictsInv'
    <3>1. ASSUME NEW k \in 1..i
          PROVE  ~ConflictRefuted(call.uses[k], Claims(call, k - 1), Named(call, k - 1))
      <4>1. CASE k = i
        BY <4>1, <1>3, <1>5
      <4>2. CASE k \in 1..(i - 1)
        BY <4>2, <1>1, <1>3 DEF Progress, ConflictsInv
      <4> QED BY <4>1, <4>2, <1>2
    <3> QED BY <3>1, <2>1, <2>2, <2>4 DEF ConflictsInv
  <2>6. Progress'
    BY <1>1, <2>1, <2>3, <2>5, Frame DEF Progress, InputsInv
  <2>7. TypeOK'
    BY <1>1, <1>2, <2>1 DEF IInv, TypeOK, Steps, Bound
  <2> QED BY <1>1, <2>1, <2>6, <2>7 DEF IInv
<1> QED BY <1>4, <1>5

\* When a loop over the grants, and one over the actions, are through, the
\* lookups they made are those of the whole call.
LEMMA LookupsWhole ==
  ASSUME Progress, call \in Calls
  PROVE  /\ ItemsSeen = Len(call.actions) => byAction = ByAction(call)
         /\ GrantsSeen = Len(call.grants) => byHash = ByHash(call)
<1>1. ASSUME ItemsSeen = Len(call.actions)
      PROVE  byAction = ByAction(call)
  <2> DEFINE D == {call.actions[k].record.id : k \in DOMAIN call.actions}
             first(id) == CHOOSE n \in DOMAIN call.actions : call.actions[n].record.id = id
  <2>1. byAction = [id \in D |-> byAction[id]]
    BY <1>1, CallFacts DEF Progress, ItemsInv, ActionIds
  <2>2. ASSUME NEW id \in D
        PROVE  byAction[id] = call.actions[first(id)]
    <3>1. first(id) \in DOMAIN call.actions /\ call.actions[first(id)].record.id = id
      OBVIOUS
    <3> QED BY <1>1, <3>1, CallFacts DEF Progress, ItemsInv
  <2>3. [id \in D |-> byAction[id]] = [id \in D |-> call.actions[first(id)]]
    BY <2>2
  <2> QED BY <2>1, <2>3 DEF ByAction
<1>2. ASSUME GrantsSeen = Len(call.grants)
      PROVE  byHash = ByHash(call)
  <2> DEFINE D == {GrantHash(call.grants[k]) : k \in DOMAIN call.grants}
             first(h) == CHOOSE n \in DOMAIN call.grants : GrantHash(call.grants[n]) = h
  <2>1. byHash = [h \in D |-> byHash[h]]
    BY <1>2, CallFacts DEF Progress, GrantsInv, GrantHashes
  <2>2. ASSUME NEW h \in D
        PROVE  byHash[h] = call.grants[first(h)]
    <3>1. first(h) \in DOMAIN call.grants /\ GrantHash(call.grants[first(h)]) = h
      OBVIOUS
    <3> QED BY <1>2, <3>1, CallFacts DEF Progress, GrantsInv
  <2>3. [h \in D |-> byHash[h]] = [h \in D |-> call.grants[first(h)]]
    BY <2>2
  <2> QED BY <2>1, <2>3 DEF ByHash
<1> QED BY <1>1, <1>2

\* A step and a position name a gap, and with one more there are some.
LEMMA AppendGap ==
  ASSUME NEW gaps \in Seq(Gap), i \in Nat,
         NEW name \in {"use", "grant", "approvers", "useOfAction", "empty"}
  PROVE  Append(gaps, <<name, i>>) \in Seq(Gap) /\ Append(gaps, <<name, i>>) # <<>>
<1>1. <<name, i>> \in Gap
  BY DEF Gap
<1> QED BY <1>1, AppendProperties

\* A USE that contradicts nothing is weighed: lacking, it leaves a gap.
LEMMA CheckUseInv ==
  ASSUME IInv, CheckUse
  PROVE  IInv'
<1> DEFINE u == call.uses[i]
<1>1. verdict = "none" /\ Progress /\ call \in Calls /\ pc = "eachUse"
  BY Running DEF CheckUse, At
<1>2. i \in 1..Len(call.uses) /\ Len(call.uses) \in Nat
  BY <1>1, Running, CallFacts DEF Bound, CheckUse, At
<1>3. /\ UsesWeighed = i - 1 /\ ActionsWeighed = 0
      /\ ItemsSeen = Len(call.actions) /\ GrantsSeen = Len(call.grants)
  BY <1>1 DEF UsesWeighed, ActionsWeighed, ItemsSeen, GrantsSeen, Walked, Steps
<1>4. CASE UseRefuted(u, byHash, byAction)
  <2>1. byAction = ByAction(call) /\ byHash = ByHash(call)
    BY <1>1, <1>3, LookupsWhole
  <2>2. Refuted(call)
    BY <1>1, <1>2, <1>4, <2>1, CallFacts DEF Refuted
  <2> QED BY <1>4, <2>2, FailInv DEF CheckUse
<1>5. CASE ~UseRefuted(u, byHash, byAction)
  <2>1. /\ incomplete' = IF UseLacking(u, byHash, byAction)
                         THEN Append(incomplete, <<"use", i>>) ELSE incomplete
        /\ i' = i + 1
        /\ UNCHANGED <<call, pc, byAction, byHash, useIds, claims, named, verdict, reason>>
    BY <1>5 DEF CheckUse, Advance, Noted, collected
  <2>2. UsesWeighed' = i /\ ActionsWeighed' = 0
    BY <1>1, <1>2, <2>1 DEF UsesWeighed, ActionsWeighed, Walked, Steps
  <2>3. UNCHANGED <<ItemsSeen, GrantsSeen, UsesSeen, ConflictsSeen>>
    BY <1>1, <2>1 DEF ItemsSeen, GrantsSeen, UsesSeen, ConflictsSeen, Walked
  <2>4. \A k \in 1..i : k = i \/ k \in 1..(i - 1)
    BY <1>2
  <2>5. UsesInv'
    <3>1. \A k \in 1..i : ~UseRefuted(call.uses[k], byHash, byAction)
      BY <1>1, <1>3, <1>5, <2>4 DEF Progress, UsesInv
    <3> QED BY <3>1, <2>1, <2>2 DEF UsesInv
  <2>6. ActionsInv'
    BY <2>2 DEF ActionsInv
  <2>7. incomplete' \in Seq(Gap)
        /\ (incomplete' # <<>> <=> incomplete # <<>> \/ UseLacking(u, byHash, byAction))
    <3>1. incomplete \in Seq(Gap) /\ i \in Nat
      BY <1>2 DEF IInv
    <3> QED BY <3>1, <2>1, AppendGap
  <2>8. GapsInv'
    <3>1. incomplete # <<>> <=> \E k \in 1..(i - 1) : UseLacking(call.uses[k], byHash, byAction)
      BY <1>1, <1>3 DEF Progress, GapsInv
    <3>2. incomplete' # <<>> <=> \E k \in 1..i : UseLacking(call.uses[k], byHash, byAction)
      BY <3>1, <2>4, <2>7, <1>2
    <3> QED BY <3>2, <2>1, <2>2 DEF GapsInv
  <2>9. Progress'
    BY <1>1, <2>1, <2>3, <2>5, <2>6, <2>8, Frame DEF Progress, InputsInv
  <2>10. TypeOK'
    BY <1>1, <1>2, <2>1 DEF IInv, TypeOK, Steps, Bound
  <2> QED BY <1>1, <2>1, <2>7, <2>9, <2>10 DEF IInv
<1> QED BY <1>4, <1>5

\* An action that contradicts nothing is weighed: each thing it lacks leaves
\* a gap.
LEMMA CheckActionInv ==
  ASSUME IInv, CheckAction
  PROVE  IInv'
<1> DEFINE a == call.actions[i]
<1>1. verdict = "none" /\ Progress /\ call \in Calls /\ pc = "eachAction"
  BY Running DEF CheckAction, At
<1>2. i \in 1..Len(call.actions) /\ Len(call.actions) \in Nat
  BY <1>1, Running, CallFacts DEF Bound, CheckAction, At
<1>3. /\ UsesWeighed = Len(call.uses) /\ ActionsWeighed = i - 1
      /\ ItemsSeen = Len(call.actions) /\ GrantsSeen = Len(call.grants)
  BY <1>1 DEF UsesWeighed, ActionsWeighed, ItemsSeen, GrantsSeen, Walked, Steps
<1>4. CASE ActionRefuted(call, a, byHash)
  <2>1. byHash = ByHash(call)
    BY <1>1, <1>3, LookupsWhole
  <2>2. Refuted(call)
    BY <1>1, <1>2, <1>4, <2>1, CallFacts DEF Refuted
  <2> QED BY <1>4, <2>2, FailInv DEF CheckAction
<1>5. CASE ~ActionRefuted(call, a, byHash)
  <2>1. /\ incomplete' = Noted(Noted(Noted(incomplete, GrantLacking(a, byHash), "grant"),
                                     ApproversLacking(call, a, byHash), "approvers"),
                               UseOfActionLacking(call, a, byHash), "useOfAction")
        /\ i' = i + 1
        /\ UNCHANGED <<call, pc, byAction, byHash, useIds, claims, named, verdict, reason>>
    BY <1>5 DEF CheckAction, Advance, collected
  <2>2. ActionsWeighed' = i
    BY <1>1, <1>2, <2>1 DEF ActionsWeighed, Walked, Steps
  <2>3. UNCHANGED <<ItemsSeen, GrantsSeen, UsesSeen, ConflictsSeen, UsesWeighed>>
    BY <1>1, <2>1 DEF ItemsSeen, GrantsSeen, UsesSeen, ConflictsSeen, UsesWeighed, Walked, Steps
  <2>4. \A k \in 1..i : k = i \/ k \in 1..(i - 1)
    BY <1>2
  <2>5. ActionsInv'
    <3>1. \A k \in 1..i : ~ActionRefuted(call, call.actions[k], byHash)
      BY <1>1, <1>3, <1>5, <2>4 DEF Progress, ActionsInv
    <3> QED BY <3>1, <2>1, <2>2 DEF ActionsInv
  <2>6. incomplete' \in Seq(Gap)
        /\ (incomplete' # <<>> <=> incomplete # <<>> \/ ActionLacking(call, a, byHash))
    <3> DEFINE one == Noted(incomplete, GrantLacking(a, byHash), "grant")
               two == Noted(one, ApproversLacking(call, a, byHash), "approvers")
    <3>1. incomplete \in Seq(Gap) /\ i \in Nat
      BY <1>2 DEF IInv
    <3>2. one \in Seq(Gap) /\ (one # <<>> <=> incomplete # <<>> \/ GrantLacking(a, byHash))
      BY <3>1, AppendGap DEF Noted
    <3> HIDE DEF one
    <3>3. two \in Seq(Gap) /\ (two # <<>> <=> one # <<>> \/ ApproversLacking(call, a, byHash))
      BY <3>1, <3>2, AppendGap DEF Noted
    <3>4. incomplete' = Noted(two, UseOfActionLacking(call, a, byHash), "useOfAction")
      BY <2>1 DEF one
    <3> HIDE DEF two
    <3>5. incomplete' \in Seq(Gap)
          /\ (incomplete' # <<>> <=> two # <<>> \/ UseOfActionLacking(call, a, byHash))
      BY <3>1, <3>3, <3>4, AppendGap DEF Noted
    <3> QED BY <3>2, <3>3, <3>5 DEF ActionLacking
  <2>7. GapsInv'
    <3>1. incomplete # <<>> <=>
            \/ \E k \in 1..UsesWeighed : UseLacking(call.uses[k], byHash, byAction)
            \/ \E k \in 1..(i - 1) : ActionLacking(call, call.actions[k], byHash)
      BY <1>1, <1>3 DEF Progress, GapsInv
    <3>2. incomplete' # <<>> <=>
            \/ \E k \in 1..UsesWeighed : UseLacking(call.uses[k], byHash, byAction)
            \/ \E k \in 1..i : ActionLacking(call, call.actions[k], byHash)
      BY <3>1, <2>4, <2>6, <1>2
    <3> QED BY <3>2, <2>1, <2>2, <2>3 DEF GapsInv
  <2>8. Progress'
    BY <1>1, <2>1, <2>3, <2>5, <2>7, Frame DEF Progress, InputsInv
  <2>9. TypeOK'
    BY <1>1, <1>2, <2>1 DEF IInv, TypeOK, Steps, Bound
  <2> QED BY <1>1, <2>1, <2>6, <2>8, <2>9 DEF IInv
<1> QED BY <1>4, <1>5

\* A loop that ends has walked its whole array.
LEMMA EndLoopInv ==
  ASSUME IInv, EndLoop
  PROVE  IInv'
<1>1. pc # "done"
  BY DEF EndLoop, Past
<1>2. verdict = "none" /\ Progress /\ call \in Calls /\ i \in 1..(Bound(pc) + 1)
  BY <1>1, Running
<1>3. UNCHANGED <<call, byAction, byHash, useIds, claims, named, incomplete, verdict>> /\ i' = 1
  BY DEF EndLoop, Goto, collected
<1>4. /\ UNCHANGED <<ItemsSeen, GrantsSeen, UsesSeen, ConflictsSeen, UsesWeighed, ActionsWeighed>>
      /\ pc # "inputs" /\ pc' \in Steps \ {"inputs", "done"}
  <2>1. CASE Past("actions", call.actions) /\ Goto("grants")
    BY <2>1, <1>2, CallFacts DEF Past, Goto, Bound, ItemsSeen, GrantsSeen, UsesSeen, ConflictsSeen, UsesWeighed,
       ActionsWeighed, Walked, Steps
  <2>2. CASE Past("grants", call.grants) /\ Goto("uses")
    BY <2>2, <1>2, CallFacts DEF Past, Goto, Bound, ItemsSeen, GrantsSeen, UsesSeen, ConflictsSeen, UsesWeighed,
       ActionsWeighed, Walked, Steps
  <2>3. CASE Past("uses", call.uses) /\ Goto("conflicts")
    BY <2>3, <1>2, CallFacts DEF Past, Goto, Bound, ItemsSeen, GrantsSeen, UsesSeen, ConflictsSeen, UsesWeighed,
       ActionsWeighed, Walked, Steps
  <2>4. CASE Past("conflicts", call.uses) /\ Goto("eachUse")
    BY <2>4, <1>2, CallFacts DEF Past, Goto, Bound, ItemsSeen, GrantsSeen, UsesSeen, ConflictsSeen, UsesWeighed,
       ActionsWeighed, Walked, Steps
  <2>5. CASE Past("eachUse", call.uses) /\ Goto("eachAction")
    BY <2>5, <1>2, CallFacts DEF Past, Goto, Bound, ItemsSeen, GrantsSeen, UsesSeen, ConflictsSeen, UsesWeighed,
       ActionsWeighed, Walked, Steps
  <2> QED BY <2>1, <2>2, <2>3, <2>4, <2>5 DEF EndLoop
<1>5. Progress'
  BY <1>2, <1>3, <1>4, Frame DEF Progress, InputsInv
<1>6. TypeOK'
  <2>1. Bound(pc)' \in Nat
    BY <1>2, <1>3, CallFacts DEF Bound
  <2> QED BY <1>2, <1>3, <1>4, <2>1 DEF IInv, TypeOK, Steps
<1> QED BY <1>2, <1>3, <1>5, <1>6 DEF IInv

\* When every loop is through without a contradiction, the call is not refuted,
\* and it lacks something exactly when a gap was noted.
LEMMA WalkedWhole ==
  ASSUME IInv, Past("eachAction", call.actions)
  PROVE  /\ ~Refuted(call)
         /\ Lacking(call) <=> incomplete # <<>> \/ call.actions = <<>>
<1>1. verdict = "none" /\ Progress /\ call \in Calls /\ pc = "eachAction"
  BY Running DEF Past
<1>2. i = Len(call.actions) + 1
  BY <1>1, Running, CallFacts DEF Bound, Past
<1>3. /\ ItemsSeen = Len(call.actions) /\ GrantsSeen = Len(call.grants)
      /\ UsesSeen = Len(call.uses) /\ ConflictsSeen = Len(call.uses)
      /\ UsesWeighed = Len(call.uses) /\ ActionsWeighed = Len(call.actions)
  BY <1>1, <1>2, CallFacts DEF ItemsSeen, GrantsSeen, UsesSeen, ConflictsSeen, UsesWeighed,
     ActionsWeighed, Walked, Steps
<1>4. byAction = ByAction(call) /\ byHash = ByHash(call)
  BY <1>1, <1>3, LookupsWhole
<1>5. ~Refuted(call)
  <2>1. ~InputsRefuted(call)
    BY <1>1 DEF Progress, InputsInv
  <2>2. \A k \in DOMAIN call.actions :
          ~ActionItemRefuted(call, call.actions[k], {call.actions[m].record.id : m \in 1..(k - 1)})
    BY <1>1, <1>3, CallFacts DEF Progress, ItemsInv, ActionIds
  <2>3. \A k \in DOMAIN call.grants :
          ~GrantRefuted(call.grants[k], {GrantHash(call.grants[m]) : m \in 1..(k - 1)})
    BY <1>1, <1>3, CallFacts DEF Progress, GrantsInv, GrantHashes
  <2>4. \A k \in DOMAIN call.uses :
          ~UseRecordRefuted(call, call.uses[k], {u.id : u \in {call.uses[m] : m \in 1..(k - 1)}})
    BY <1>1, <1>3, CallFacts DEF Progress, UseRecordsInv, UseIds, UsesAt
  <2>5. \A k \in DOMAIN call.uses :
          ~ConflictRefuted(call.uses[k], {Claim(u) : u \in {call.uses[m] : m \in 1..(k - 1)}},
                           {u.actionId : u \in {call.uses[m] : m \in 1..(k - 1)}})
    BY <1>1, <1>3, CallFacts DEF Progress, ConflictsInv, Claims, Named, UsesAt
  <2>6. \A k \in DOMAIN call.uses : ~UseRefuted(call.uses[k], ByHash(call), ByAction(call))
    BY <1>1, <1>3, <1>4, CallFacts DEF Progress, UsesInv
  <2>7. \A k \in DOMAIN call.actions : ~ActionRefuted(call, call.actions[k], ByHash(call))
    BY <1>1, <1>3, <1>4, CallFacts DEF Progress, ActionsInv
  <2> QED BY <2>1, <2>2, <2>3, <2>4, <2>5, <2>6, <2>7 DEF Refuted
<1>6. incomplete # <<>> <=>
        \/ \E k \in DOMAIN call.uses : UseLacking(call.uses[k], ByHash(call), ByAction(call))
        \/ \E k \in DOMAIN call.actions : ActionLacking(call, call.actions[k], ByHash(call))
  BY <1>1, <1>3, <1>4, CallFacts DEF Progress, GapsInv
<1> QED BY <1>5, <1>6 DEF Lacking, ActionLacking

\* At the end the gaps alone decide between INCOMPLETE and PASS.
LEMMA FinishInv ==
  ASSUME IInv, Finish
  PROVE  IInv'
<1>1. /\ Past("eachAction", call.actions) /\ pc' = "done"
      /\ UNCHANGED <<call, i, byAction, byHash, useIds, claims, named>>
      /\ verdict' = IF incomplete' # <<>> THEN "INCOMPLETE" ELSE "PASS"
      /\ incomplete' = IF call.actions = <<>> THEN Append(incomplete, <<"empty", i>>)
                       ELSE incomplete
  BY DEF Finish, Noted, collected
<1>2. verdict = "none" /\ call \in Calls /\ i \in Nat /\ incomplete \in Seq(Gap)
  BY <1>1, Running, CallFacts DEF Past, Bound, IInv
<1>3. incomplete' \in Seq(Gap) /\ (incomplete' # <<>> <=> incomplete # <<>> \/ call.actions = <<>>)
  BY <1>1, <1>2, AppendGap
<1>4. verdict' = Oracle!Answer(call) /\ Oracle!Answer(call)' = Oracle!Answer(call)
  BY <1>1, <1>3, WalkedWhole DEF Oracle!Answer
<1>5. TypeOK'
  BY <1>1 DEF IInv, TypeOK, Steps, Oracle!Verdicts
<1> QED BY <1>1, <1>2, <1>3, <1>4, <1>5 DEF IInv

\* Every step of verify_chain keeps the invariant.
LEMMA NextInv ==
  ASSUME IInv, [Next]_vars
  PROVE  IInv'
<1>1. CASE UNCHANGED vars
  <2> USE <1>1 DEF vars, collected
  <2>1. /\ ItemsSeen' = ItemsSeen /\ GrantsSeen' = GrantsSeen /\ UsesSeen' = UsesSeen
        /\ ConflictsSeen' = ConflictsSeen /\ UsesWeighed' = UsesWeighed
        /\ ActionsWeighed' = ActionsWeighed
    BY DEF ItemsSeen, GrantsSeen, UsesSeen, ConflictsSeen, UsesWeighed, ActionsWeighed, Walked
  <2>2. TypeOK'
    BY DEF IInv, TypeOK, Bound
  <2>3. Progress => Progress'
    BY <2>1, Frame DEF Progress, InputsInv
  <2>4. Oracle!Answer(call)' = Oracle!Answer(call)
    OBVIOUS
  <2> QED BY <2>2, <2>3, <2>4 DEF IInv
<1> QED BY <1>1, CheckInputsInv, CheckActionItemInv, CheckGrantInv, CheckUseRecordInv,
           CheckConflictInv, CheckUseInv, CheckActionInv, EndLoopInv, FinishInv DEF Next

\* What each loop has established of the part of its array it has walked.
THEOREM Invariant == Spec => []IInv
BY InitInv, NextInv, PTL DEF Spec

-----------------------------------------------------------------------------
(* What follows *)

\* Every loop of the verifier stays inside the array it walks, its lookups hold
\* records of the bundle under their own keys, and a verdict is there exactly
\* when it has returned: for every call, whatever the bundle.
THEOREM TypeCorrect == Spec => []TypeOK
<1>1. IInv => TypeOK
  BY DEF IInv
<1> QED BY <1>1, Invariant, PTL

\* The eight loops and their lookups answer what the order-free rule answers:
\* FAIL when any two pieces of evidence contradict each other, whatever gap was
\* met first, INCOMPLETE when nothing contradicts and something is missing.
\* AnswersAsPromised adds that every call is answered.
THEOREM AnswersOnlyAsPromised == Spec => Oracle!Safety
<1>1. Init => Oracle!Init
  BY DEF Init, Start, Oracle!Init
<1>2. ASSUME IInv, IInv', [Next]_vars
      PROVE  [Oracle!Decide]_<<call, verdict>>
  <2>1. CASE UNCHANGED vars
    BY <2>1 DEF vars
  <2>2. CASE Next
    <3>1. call' = call /\ pc # "done"
      BY <2>2 DEF Next, CheckInputs, CheckActionItem, CheckGrant, CheckUseRecord, CheckConflict,
         CheckUse, CheckAction, EndLoop, Finish, Fail, Goto, Advance, At, Past
    <3>2. verdict = "none"
      BY <1>2, <3>1 DEF IInv, TypeOK
    <3>3. /\ verdict' # "none" => verdict' = Oracle!Answer(call)'
          /\ verdict' \in {"none"} \cup Oracle!Verdicts
      BY <1>2 DEF IInv, TypeOK, Oracle!Verdicts
    <3>4. Oracle!Answer(call)' = Oracle!Answer(call)
      BY <3>1
    <3> QED BY <3>1, <3>2, <3>3, <3>4 DEF Oracle!Decide
  <2> QED BY <1>2, <2>1, <2>2
<1> QED BY <1>1, <1>2, Invariant, PTL DEF Spec, Oracle!Safety

\* What a PASS says of the call alone, read off the order-free rule.
LEMMA PassFacts ==
  ASSUME call \in Calls, ~Refuted(call), ~Lacking(call)
  PROVE  /\ \A k, m \in DOMAIN call.actions :
              call.actions[k].record.id = call.actions[m].record.id => k = m
         /\ \A k \in DOMAIN call.grants : call.grants[k].signed
         /\ \A k \in DOMAIN call.uses : call.uses[k].index >= 1
         /\ \A k, m \in DOMAIN call.uses : Claim(call.uses[k]) = Claim(call.uses[m]) => k = m
<1>2. ASSUME NEW k \in DOMAIN call.actions, NEW m \in DOMAIN call.actions, k < m
      PROVE  call.actions[k].record.id # call.actions[m].record.id
  <2>1. ~ActionItemRefuted(call, call.actions[m], {call.actions[n].record.id : n \in 1..(m - 1)})
    BY DEF Refuted
  <2>2. k \in 1..(m - 1)
    BY <1>2, CallFacts
  <2> QED BY <2>1, <2>2 DEF ActionItemRefuted
<1>3. \A k \in DOMAIN call.grants : call.grants[k].signed
  BY DEF Refuted, GrantRefuted
<1>4. \A k \in DOMAIN call.uses : call.uses[k].index >= 1
  BY DEF Refuted, UseRecordRefuted, UseOk
<1>5. ASSUME NEW k \in DOMAIN call.uses, NEW m \in DOMAIN call.uses, k < m
      PROVE  Claim(call.uses[k]) # Claim(call.uses[m])
  <2> DEFINE earlier == {call.uses[n] : n \in 1..(m - 1)}
  <2>1. ~ConflictRefuted(call.uses[m], {Claim(u) : u \in earlier}, {u.actionId : u \in earlier})
    BY DEF Refuted
  <2>2. call.uses[k] \in earlier
    BY <1>5, CallFacts
  <2>3. Claim(call.uses[k]) \in {Claim(u) : u \in earlier}
    BY <2>2
  <2> QED BY <2>1, <2>3 DEF ConflictRefuted
<1>6. /\ \A k, m \in DOMAIN call.actions : k < m \/ m < k \/ k = m
      /\ \A k, m \in DOMAIN call.uses : k < m \/ m < k \/ k = m
  BY CallFacts
<1> QED BY <1>2, <1>3, <1>4, <1>5, <1>6

\* In a PASS bundle the action a USE names, when some action has that id, is that
\* action; the grant an action names by hash is a grant of the bundle.
LEMMA PassLookups ==
  ASSUME call \in Calls, ~Refuted(call), ~Lacking(call)
  PROVE  /\ \A k \in DOMAIN call.actions :
              /\ call.actions[k].record.id \in DOMAIN ByAction(call)
              /\ ByAction(call)[call.actions[k].record.id] = call.actions[k]
         /\ \A h \in DOMAIN ByHash(call) :
              \E n \in DOMAIN call.grants :
                ByHash(call)[h] = call.grants[n] /\ GrantHash(call.grants[n]) = h
<1>1. ASSUME NEW k \in DOMAIN call.actions
      PROVE  /\ call.actions[k].record.id \in DOMAIN ByAction(call)
             /\ ByAction(call)[call.actions[k].record.id] = call.actions[k]
  <2> DEFINE id == call.actions[k].record.id
             first == CHOOSE n \in DOMAIN call.actions : call.actions[n].record.id = id
  <2>1. first \in DOMAIN call.actions /\ call.actions[first].record.id = id
    OBVIOUS
  <2>2. first = k
    BY <2>1, PassFacts
  <2>3. id \in DOMAIN ByAction(call) /\ ByAction(call)[id] = call.actions[first]
    BY DEF ByAction
  <2> QED BY <2>2, <2>3
<1>2. ASSUME NEW h \in DOMAIN ByHash(call)
      PROVE  \E n \in DOMAIN call.grants :
               ByHash(call)[h] = call.grants[n] /\ GrantHash(call.grants[n]) = h
  <2> DEFINE first == CHOOSE n \in DOMAIN call.grants : GrantHash(call.grants[n]) = h
  <2>1. h \in {GrantHash(call.grants[k]) : k \in DOMAIN call.grants}
    BY DEF ByHash
  <2>2. first \in DOMAIN call.grants /\ GrantHash(call.grants[first]) = h
    BY <2>1
  <2>3. ByHash(call)[h] = call.grants[first]
    BY <2>1 DEF ByHash
  <2> QED BY <2>2, <2>3
<1> QED BY <1>1, <1>2

\* The USE of an ALLOWED action under a counted grant: it exists, claims a number
\* within the grant's limit under the grant's key, at a time in its window.
LEMMA PassUse ==
  ASSUME call \in Calls, ~Refuted(call), ~Lacking(call),
         NEW k \in DOMAIN call.actions, Granted(call.actions[k], ByHash(call)),
         Counted(ByHash(call)[call.actions[k].args.grantHash])
  PROVE  LET a == call.actions[k]
             g == ByHash(call)[a.args.grantHash] IN
         \E m \in DOMAIN call.uses :
           LET u == call.uses[m] IN
           /\ u.actionId = a.record.id
           /\ u.args = a.record.args
           /\ u.index =< g.maxUses
           /\ u.consumptionKey = ConsumptionKey(g, g.org)
           /\ InGrantWindow(g, u.time)
<1> DEFINE a == call.actions[k]
           g == ByHash(call)[a.args.grantHash]
<1>1. PICK m \in DOMAIN call.uses : call.uses[m].actionId = a.record.id
  <2>1. ~UseOfActionLacking(call, a, ByHash(call))
    BY DEF Lacking
  <2>2. UsesOf(call, a) # {}
    BY <2>1 DEF UseOfActionLacking
  <2> QED BY <2>2 DEF UsesOf
<1> DEFINE u == call.uses[m]
<1>2. ~UseRefuted(u, ByHash(call), ByAction(call)) /\ ~UseLacking(u, ByHash(call), ByAction(call))
  BY DEF Refuted, Lacking
<1>3. u.actionId \in DOMAIN ByAction(call) /\ ByAction(call)[u.actionId] = a
  BY <1>1, PassLookups
<1>4. /\ u.grantHash \in DOMAIN ByHash(call)
      /\ ~ClaimRefuted(u, ByHash(call)[u.grantHash])
      /\ ~BindingRefuted(u, a)
  BY <1>2, <1>3 DEF UseRefuted, UseLacking
<1>5. a.args.grantHash = u.grantHash /\ a.record.args = u.args
  BY <1>4 DEF BindingRefuted
<1>6. ~ClaimRefuted(u, g)
  BY <1>4, <1>5
<1>7. u.org = g.org /\ u.consumptionKey = ConsumptionKey(g, u.org) /\ InGrantWindow(g, u.time)
  BY <1>6 DEF ClaimRefuted
<1>8. u.index =< g.maxUses
  <2>1. ~(u.index > g.maxUses)
    BY <1>6 DEF ClaimRefuted
  <2>2. u.index \in Nat
    BY CallFacts
  <2>3. g.maxUses \in Nat
    <3>1. a.args.grantHash \in DOMAIN ByHash(call)
      BY DEF Granted
    <3>2. PICK n \in DOMAIN call.grants : g = call.grants[n]
      BY <3>1, PassLookups
    <3> QED BY <3>2, CallFacts DEF Counted
  <2> QED BY <2>1, <2>2, <2>3
<1> QED BY <1>1, <1>5, <1>7, <1>8

\* A PASS traces every ALLOWED action that rests on a grant to an approver the
\* relying party designated, at a moment the approver allowed.
THEOREM TracesSound == Spec => []TracesToApprover
<1>1. ASSUME IInv, verdict = "PASS", NEW k \in DOMAIN call.actions,
             call.actions[k].record.outcome = "ALLOWED", References(call.actions[k])
      PROVE  LET a == call.actions[k] IN
             \E n \in DOMAIN call.grants :
               LET g == call.grants[n] IN
               /\ g.signed /\ g.key \in call.approverKeys
               /\ GrantHash(g) = a.args.grantHash
               /\ g.org = a.record.org /\ a.record.tool \in g.scopeTools
               /\ IF Counted(g)
                  THEN \E m \in DOMAIN call.uses :
                         LET u == call.uses[m] IN
                         /\ u.actionId = a.record.id /\ u.args = Hash(a.args)
                         /\ InGrantWindow(g, u.time)
                  ELSE InGrantWindow(g, a.record.time)
  <2> DEFINE a == call.actions[k]
  <2>1. call \in Calls /\ ~Refuted(call) /\ ~Lacking(call)
    BY <1>1 DEF IInv, Oracle!Answer
  <2>2. Granted(a, ByHash(call))
    <3>1. ~GrantLacking(a, ByHash(call))
      BY <2>1 DEF Lacking
    <3> QED BY <1>1, <3>1 DEF GrantLacking, Granted
  <2>3. PICK n \in DOMAIN call.grants : /\ ByHash(call)[a.args.grantHash] = call.grants[n]
                                        /\ GrantHash(call.grants[n]) = a.args.grantHash
    BY <2>1, <2>2, PassLookups DEF Granted
  <2> DEFINE g == call.grants[n]
  <2>4. g.signed
    BY <2>1, PassFacts
  <2>5. /\ InScope(g, a)
        /\ call.approverKeys # NoKeySet => g.key \in call.approverKeys
        /\ ~Counted(g) => InGrantWindow(g, a.record.time)
    <3>1. ~ActionRefuted(call, a, ByHash(call))
      BY <2>1 DEF Refuted
    <3> QED BY <1>1, <2>2, <2>3, <3>1 DEF ActionRefuted
  <2>6. call.approverKeys # NoKeySet
    BY <2>1, <2>2 DEF Lacking, ApproversLacking
  <2>7. g.org = a.record.org /\ a.record.tool \in g.scopeTools
    BY <2>5 DEF InScope
  <2>8. a.record.args = Hash(a.args)
    BY <2>1 DEF Refuted, ActionItemRefuted, ActionOk
  <2>9. Counted(g) => \E m \in DOMAIN call.uses :
                        /\ call.uses[m].actionId = a.record.id
                        /\ call.uses[m].args = Hash(a.args)
                        /\ InGrantWindow(g, call.uses[m].time)
    BY <2>1, <2>2, <2>3, <2>8, PassUse
  <2> QED BY <2>3, <2>4, <2>5, <2>6, <2>7, <2>9
<1>2. IInv => TracesToApprover
  BY <1>1 DEF TracesToApprover
<1> QED BY <1>2, Invariant, PTL

\* A grant for n uses has n numbers to give.
LEMMA NumbersOf ==
  ASSUME NEW n \in Nat
  PROVE  IsFiniteSet(1..n) /\ Cardinality(1..n) = n
<1>1. IsFiniteSet(1..n) /\ Cardinality(1..n) = IF 1 > n THEN 0 ELSE n - 1 + 1
  BY FS_Interval
<1> QED BY <1>1

\* The position of its USE, for an ALLOWED action under a counted grant.
UseOf(k) ==
  LET g == ByHash(call)[call.actions[k].args.grantHash] IN
  CHOOSE m \in DOMAIN call.uses :
    /\ call.uses[m].actionId = call.actions[k].record.id
    /\ call.uses[m].index =< g.maxUses
    /\ call.uses[m].consumptionKey = ConsumptionKey(g, g.org)

\* A PASS keeps every grant's limit: numbering each action charged to a grant by
\* the index of its USE is an injection into the numbers the grant allows,
\* because USEs that share a consumption key and an index conflict.
THEOREM LimitsSound == Spec => []LimitsKept
<1>1. ASSUME IInv, verdict = "PASS", NEW k \in DOMAIN call.grants, Counted(call.grants[k])
      PROVE  Cardinality(ChargedWith(call.grants[k])) =< call.grants[k].maxUses
  <2> DEFINE g == call.grants[k]
             charged == ChargedWith(g)
             granted(n) == ByHash(call)[call.actions[n].args.grantHash]
             number == [n \in charged |-> call.uses[UseOf(n)].index]
  <2>1. call \in Calls /\ ~Refuted(call) /\ ~Lacking(call)
    BY <1>1 DEF IInv, Oracle!Answer
  <2>2. g.maxUses \in Nat
    BY <1>1, <2>1, CallFacts DEF Counted
  <2>3. ASSUME NEW n \in charged
        PROVE  /\ n \in DOMAIN call.actions
               /\ UseOf(n) \in DOMAIN call.uses
               /\ call.uses[UseOf(n)].actionId = call.actions[n].record.id
               /\ call.uses[UseOf(n)].consumptionKey = ConsumptionKey(g, g.org)
               /\ call.uses[UseOf(n)].index \in 1..g.maxUses
    <3>1. /\ n \in DOMAIN call.actions /\ Granted(call.actions[n], ByHash(call))
          /\ Counted(granted(n))
          /\ ConsumptionKey(granted(n), granted(n).org) = ConsumptionKey(g, g.org)
          /\ granted(n).maxUses =< g.maxUses
      BY DEF ChargedWith
    <3>2. \E m \in DOMAIN call.uses :
            /\ call.uses[m].actionId = call.actions[n].record.id
            /\ call.uses[m].index =< granted(n).maxUses
            /\ call.uses[m].consumptionKey = ConsumptionKey(granted(n), granted(n).org)
      BY <2>1, <3>1, PassUse
    <3>3. /\ UseOf(n) \in DOMAIN call.uses
          /\ call.uses[UseOf(n)].actionId = call.actions[n].record.id
          /\ call.uses[UseOf(n)].index =< granted(n).maxUses
          /\ call.uses[UseOf(n)].consumptionKey = ConsumptionKey(granted(n), granted(n).org)
      BY <3>2 DEF UseOf
    <3>4. call.uses[UseOf(n)].index \in Nat /\ call.uses[UseOf(n)].index >= 1
      BY <2>1, <3>3, CallFacts, PassFacts
    <3>5. granted(n).maxUses \in Nat
      <4>1. PICK h \in DOMAIN call.grants : granted(n) = call.grants[h]
        BY <2>1, <3>1, PassLookups DEF Granted
      <4> QED BY <3>1, <4>1, <2>1, CallFacts DEF Counted
    <3>6. PICK index, bound : index = call.uses[UseOf(n)].index /\ bound = granted(n).maxUses
      OBVIOUS
    <3>7. index \in 1..g.maxUses
      <4>1. index \in Nat /\ index >= 1 /\ bound \in Nat /\ index =< bound /\ bound =< g.maxUses
        BY <3>1, <3>3, <3>4, <3>5, <3>6
      <4> QED BY <2>2, <4>1
    <3> QED BY <3>1, <3>3, <3>6, <3>7
  <2>4. ASSUME NEW n \in charged, NEW m \in charged, number[n] = number[m]
        PROVE  n = m
    <3>1. Claim(call.uses[UseOf(n)]) = Claim(call.uses[UseOf(m)])
      BY <2>3, <2>4 DEF Claim
    <3>2. UseOf(n) = UseOf(m)
      BY <2>1, <2>3, <3>1, PassFacts
    <3>3. call.actions[n].record.id = call.actions[m].record.id
      BY <2>3, <3>2
    <3> QED BY <2>1, <2>3, <3>3, PassFacts
  <2>5. number \in Injection(charged, 1..g.maxUses)
    <3>1. number \in [charged -> 1..g.maxUses]
      BY <2>3
    <3>2. IsInjective(number)
      BY <2>4 DEF IsInjective
    <3> QED BY <3>1, <3>2 DEF Injection
  <2>6. IsFiniteSet(1..g.maxUses) /\ Cardinality(1..g.maxUses) = g.maxUses
    BY <2>2, NumbersOf
  <2> HIDE DEF number, charged, g
  <2>7. Cardinality(charged) =< Cardinality(1..g.maxUses)
    BY <2>5, <2>6, FS_Injection
  <2> QED BY <2>6, <2>7 DEF charged, g
<1>2. IInv => LimitsKept
  BY <1>1 DEF LimitsKept
<1> QED BY <1>2, Invariant, PTL
=============================================================================
