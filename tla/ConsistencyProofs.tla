------------------------- MODULE ConsistencyProofs -------------------------
(***************************************************************************)
(* Consistency proofs are sound for every two sizes of a log and paths of  *)
(* every length, from the injectivity of the hash alone.                   *)
(*                                                                         *)
(* As in InclusionProofs the invariant is an implication, now between the  *)
(* two hashes of the walk: IF the new one is the new tree's at the         *)
(* position reached, THEN the old one is the old tree's there.  What makes *)
(* it inductive is that the two trees agree to the left of that position   *)
(* on every row: a left sibling of the path is under both roots.           *)
(***************************************************************************)
EXTENDS ConsistencyWalk, MerkleLemmas, SequenceTheorems

Old == RowAt(proof.older, level)
New == RowAt(proof.newer, level)

\* The stated sizes are the trees'.
SizesOfLog ==
  proof.old_size = Len(LeavesOf(proof.older)) /\ proof.new_size = Len(LeavesOf(proof.newer))

OldRootOfLog == proof.old_root = Root(proof.older)

Climbing == pc \in {"align", "walk", "strip"}

\* fn and sn are the last positions of the rows reached, which agree before fn.
InRows ==
  Climbing /\ SizesOfLog =>
    Len(Old) = fn + 1 /\ Len(New) = sn + 1 /\ \A j \in 1..fn : Old[j] = New[j]

\* While the old tree ends with a full subtree, that subtree is in both.
Aligned == pc = "align" /\ SizesOfLog => Old[fn + 1] = New[fn + 1]

Entailed == pc = "walk" /\ SizesOfLog /\ sr = New[fn + 1] => fr = Old[fn + 1]

EntailedBelow ==
  pc = "strip" =>
    /\ fn # 0 /\ (fn % 2 = 1 \/ fn = sn) /\ i =< Len(nodes)
    /\ SizesOfLog => \A x : sr = node(x, New[fn + 1]) => fr = node(x, Old[fn + 1])

IInv ==
  /\ proof \in Proofs
  /\ TypeOK
  /\ Len(nodes) \in Nat /\ (nodes # <<>> => Len(nodes) # 0)
  /\ pc = "check" => i = 1 /\ level = 1
  /\ pc = "align" => i = 1
  /\ InRows /\ Aligned /\ Entailed /\ EntailedBelow
  /\ AcceptsOnlyThePrefix

-----------------------------------------------------------------------------

\* The invariant holds of every call before its first step.
LEMMA Initially == ASSUME Init PROVE IInv
<1>1. Len(<<>>) = 0
  OBVIOUS
<1> QED
  BY <1>1, SizeAssumption
  DEF Init, IInv, TypeOK, Answers, InRows, Climbing, Aligned, Entailed, EntailedBelow,
      AcceptsOnlyThePrefix

\* What a climb does to the positions and, in trees of the stated sizes, the rows.
BothClimbed ==
  /\ fn' = fn \div 2 /\ sn' = sn \div 2
  /\ fn' \in 0..sn' /\ sn' \in 0..MaxSafeSize /\ level' \in Nat \ {0}
  /\ SizesOfLog =>
       /\ Len(Old') = fn' + 1 /\ Len(New') = sn' + 1
       /\ \A j \in 1..fn' : Old'[j] = New'[j]
       /\ Old'[fn' + 1] = IF 2 * fn' + 1 =< fn
                          THEN node(Old[2 * fn' + 1], Old[2 * fn' + 2])
                          ELSE Old[2 * fn' + 1]
       /\ New'[fn' + 1] = IF 2 * fn' + 1 =< sn
                          THEN node(New[2 * fn' + 1], New[2 * fn' + 2])
                          ELSE New[2 * fn' + 1]

\* Halving both positions climbs one row: each parent is made of the nodes the
\* two positions stood on.
LEMMA RowsClimbed ==
  ASSUME IInv, Climbing, Halve, proof' = proof
  PROVE  BothClimbed
<1>1. fn \in 0..sn /\ sn \in 0..MaxSafeSize /\ level \in Nat \ {0} /\ MaxSafeSize \in Nat
  BY SizeAssumption DEF IInv, TypeOK
<1>2. fn' = fn \div 2 /\ sn' = sn \div 2 /\ level' = level + 1
  BY DEF Halve, halve
<1>3. fn' \in 0..sn' /\ sn' \in 0..MaxSafeSize /\ level' \in Nat \ {0}
  BY <1>1, <1>2
<1>4. ASSUME SizesOfLog
      PROVE  /\ Len(Old') = fn' + 1 /\ Len(New') = sn' + 1
             /\ \A j \in 1..fn' : Old'[j] = New'[j]
             /\ Old'[fn' + 1] = IF 2 * fn' + 1 =< fn
                                THEN node(Old[2 * fn' + 1], Old[2 * fn' + 2])
                                ELSE Old[2 * fn' + 1]
             /\ New'[fn' + 1] = IF 2 * fn' + 1 =< sn
                                THEN node(New[2 * fn' + 1], New[2 * fn' + 2])
                                ELSE New[2 * fn' + 1]
  <2> DEFINE older == proof.older
  <2> DEFINE newer == proof.newer
  <2>1. Len(Old) = fn + 1 /\ Len(New) = sn + 1 /\ \A j \in 1..fn : Old[j] = New[j]
    BY <1>4 DEF IInv, InRows
  <2>2. Old' = RowAt(older, level + 1) /\ New' = RowAt(newer, level + 1)
    BY <1>2 DEF Old, New
  <2>3. IsTree(older) /\ IsTree(newer)
    BY ProofAssumption DEF IInv
  <2>4. Old = RowAt(older, level) /\ New = RowAt(newer, level)
    BY DEF Old, New
  <2> HIDE DEF older, newer
  <2>5. fn \in Nat /\ sn \in Nat /\ Len(RowAt(older, level)) = fn + 1
        /\ Len(RowAt(newer, level)) = sn + 1
    BY <1>1, <2>1, <2>4
  <2>6. /\ Len(RowAt(older, level + 1)) = (fn \div 2) + 1
        /\ \A p \in 0..(fn \div 2) :
             RowAt(older, level + 1)[p + 1] =
               IF 2 * p + 1 =< fn
               THEN node(RowAt(older, level)[2 * p + 1], RowAt(older, level)[2 * p + 2])
               ELSE RowAt(older, level)[2 * p + 1]
    BY <1>1, <2>3, <2>5, PositionClimbed
  <2>7. /\ Len(RowAt(newer, level + 1)) = (sn \div 2) + 1
        /\ \A p \in 0..(sn \div 2) :
             RowAt(newer, level + 1)[p + 1] =
               IF 2 * p + 1 =< sn
               THEN node(RowAt(newer, level)[2 * p + 1], RowAt(newer, level)[2 * p + 2])
               ELSE RowAt(newer, level)[2 * p + 1]
    BY <1>1, <2>3, <2>5, PositionClimbed
  <2>8. /\ Len(Old') = fn' + 1 /\ Len(New') = sn' + 1
        /\ \A p \in 0..fn' : Old'[p + 1] = IF 2 * p + 1 =< fn
                                           THEN node(Old[2 * p + 1], Old[2 * p + 2])
                                           ELSE Old[2 * p + 1]
        /\ \A p \in 0..sn' : New'[p + 1] = IF 2 * p + 1 =< sn
                                           THEN node(New[2 * p + 1], New[2 * p + 2])
                                           ELSE New[2 * p + 1]
    BY <1>2, <2>2, <2>4, <2>6, <2>7
  <2>9. ASSUME NEW j \in 1..fn' PROVE Old'[j] = New'[j]
    <3> DEFINE p == j - 1
    <3>1. /\ p \in 0..fn' /\ p \in 0..sn' /\ p + 1 = j
          /\ 2 * p + 1 \in 1..fn /\ 2 * p + 2 \in 1..fn /\ 2 * p + 1 =< sn
      BY <1>1, <1>2, <1>3
    <3> HIDE DEF p
    <3>2. Old'[p + 1] = node(Old[2 * p + 1], Old[2 * p + 2])
      BY <2>8, <3>1
    <3>3. New'[p + 1] = node(New[2 * p + 1], New[2 * p + 2])
      BY <2>8, <3>1
    <3>4. Old[2 * p + 1] = New[2 * p + 1] /\ Old[2 * p + 2] = New[2 * p + 2]
      BY <2>1, <3>1
    <3> QED BY <3>1, <3>2, <3>3, <3>4
  <2>10. fn' \in 0..fn' /\ fn' \in 0..sn'
    BY <1>3
  <2> QED BY <2>8, <2>9, <2>10
<1> QED BY <1>2, <1>3, <1>4 DEF BothClimbed

\* A return leaves the walk where it is.
LEMMA ReturnKeeps ==
  ASSUME IInv, NEW a \in Answers \ {"none"}, Return(a), answer = "none",
         a = "valid" /\ OfSignedHead(proof) => OldRootOfLog
  PROVE  IInv'
BY DEF IInv, TypeOK, Return, InRows, Climbing, Aligned, Entailed, EntailedBelow,
       AcceptsOnlyThePrefix, OfSignedHead, OldRootOfLog

\* The field checks start no walk.
LEMMA CheckFieldsKeeps == ASSUME IInv, CheckFields PROVE IInv'
<1>1. pc = "check" /\ answer = "none" /\ i = 1 /\ level = 1
  BY DEF IInv, TypeOK, CheckFields
<1>2. CASE \/ Return("old_size") \/ Return("new_size") \/ Return("hashes")
  BY <1>1, <1>2, ReturnKeeps DEF Answers
<1>3. CASE proof.old_size = proof.new_size /\ CheckUnchanged
  <2>1. CASE Return("unexpected") \/ Return("differ")
    BY <1>1, <2>1, ReturnKeeps DEF Answers
  <2>2. CASE proof.old_root = proof.new_root /\ Return("valid")
    <3>1. ASSUME OfSignedHead(proof) PROVE OldRootOfLog
      <4>1. Len(LeavesOf(proof.older)) = Len(LeavesOf(proof.newer))
        BY <1>3, <3>1 DEF OfSignedHead
      <4>2. proof.older = proof.newer
        BY <4>1, ProofAssumption DEF IInv
      <4> QED BY <2>2, <3>1, <4>2 DEF OfSignedHead, OldRootOfLog
    <3> QED BY <1>1, <2>2, <3>1, ReturnKeeps DEF Answers
  <2> QED BY <1>3, <2>1, <2>2 DEF CheckUnchanged
<1>4. CASE /\ IsSize(proof.old_size) /\ proof.old_size # 0
           /\ IsSize(proof.new_size) /\ ~(proof.new_size < proof.old_size)
           /\ Begin
  <2>1. /\ fn' \in 0..sn' /\ sn' \in 0..MaxSafeSize
        /\ fn' + 1 = proof.old_size /\ sn' + 1 = proof.new_size
    BY <1>4, SizeAssumption, SMTT(30) DEF Begin, IsSize
  <2>2. UNCHANGED <<proof, i, fr, sr, answer, level>> /\ pc' = "align"
    BY <1>4 DEF Begin
  <2>3. Len(nodes') \in Nat /\ (nodes' # <<>> => Len(nodes') # 0)
    <3> DEFINE path == proof.consistency_path
    <3> DEFINE S == {path[k] : k \in DOMAIN path} \cup {proof.old_root}
    <3>1. path \in Seq({path[k] : k \in DOMAIN path})
      BY ProofAssumption DEF IInv
    <3>2. path \in Seq(S)
      BY <3>1, SeqMonotonic
    <3>3. <<proof.old_root>> \in Seq(S)
      OBVIOUS
    <3>4. <<proof.old_root>> \o path \in Seq(S)
      BY <3>2, <3>3, ConcatProperties
    <3>5. nodes' \in Seq(S)
      BY <1>4, <3>2, <3>4 DEF Begin
    <3> HIDE DEF S
    <3> QED BY <3>5, LenProperties, EmptySeq
  <2>4. Old' = LeavesOf(proof.older) /\ New' = LeavesOf(proof.newer)
    <3>1. IsTree(proof.older) /\ IsTree(proof.newer)
      BY ProofAssumption DEF IInv
    <3> QED BY <1>1, <2>2, <3>1 DEF Old, New, RowAt, LeavesOf, IsTree
  <2>5. ASSUME SizesOfLog'
        PROVE  /\ Len(Old') = fn' + 1 /\ Len(New') = sn' + 1
               /\ \A j \in 1..(fn' + 1) : Old'[j] = New'[j]
    <3>1. /\ proof.old_size = Len(LeavesOf(proof.older))
          /\ proof.new_size = Len(LeavesOf(proof.newer))
      BY <2>2, <2>5 DEF SizesOfLog
    <3>2. \A j \in 1..Len(LeavesOf(proof.older)) :
            LeavesOf(proof.older)[j] = LeavesOf(proof.newer)[j]
      BY ProofAssumption DEF IInv
    <3> QED BY <2>1, <2>4, <3>1, <3>2
  <2>6. fn' + 1 \in 1..(fn' + 1) /\ \A j \in 1..fn' : j \in 1..(fn' + 1)
    <3>1. fn' \in Nat
      BY <2>1, SizeAssumption
    <3>2. \A n \in Nat : n + 1 \in 1..(n + 1) /\ \A j \in 1..n : j \in 1..(n + 1)
      OBVIOUS
    <3> QED BY <3>1, <3>2
  <2>7. InRows' /\ Aligned'
    BY <2>2, <2>5, <2>6 DEF InRows, Aligned
  <2>8. i' \in 1..(Len(nodes') + 1)
    BY <1>1, <2>2, <2>3
  <2> QED
    BY <1>1, <2>1, <2>2, <2>3, <2>7, <2>8
    DEF IInv, TypeOK, Entailed, EntailedBelow, AcceptsOnlyThePrefix
<1> QED BY <1>2, <1>3, <1>4 DEF CheckFields

\* The empty tree is answered without a walk.
LEMMA EmptyKeeps == ASSUME IInv, Empty PROVE IInv'
BY ReturnKeeps DEF Empty, IInv, TypeOK, Answers

\* A larger first tree is refused without a walk.
LEMMA LongerKeeps == ASSUME IInv, Longer PROVE IInv'
BY ReturnKeeps DEF Longer, IInv, TypeOK, Answers

\* The last leaf of the first tree is lifted to where its path starts.
LEMMA AlignKeeps == ASSUME IInv, Align PROVE IInv'
<1>1. /\ pc = "align" /\ fn % 2 = 1 /\ Halve
      /\ UNCHANGED <<proof, pc, nodes, i, fr, sr, answer>>
  BY DEF Align
<1>2. fn \in 0..sn /\ sn \in 0..MaxSafeSize /\ answer = "none"
  BY <1>1 DEF IInv, TypeOK
<1>3. BothClimbed
  BY <1>1, RowsClimbed DEF Climbing
<1>4. 2 * fn' + 1 = fn /\ 2 * fn' + 2 = fn + 1 /\ fn \in 1..fn /\ fn =< sn
  BY <1>1, <1>2, <1>3 DEF BothClimbed
<1>5. (SizesOfLog' <=> SizesOfLog)
  BY <1>1 DEF SizesOfLog
<1>6. ASSUME SizesOfLog PROVE Old'[fn' + 1] = New'[fn' + 1]
  <2>1. Old[fn] = New[fn] /\ Old[fn + 1] = New[fn + 1]
    BY <1>1, <1>4, <1>6 DEF IInv, InRows, Aligned, Climbing
  <2> QED BY <1>3, <1>4, <1>6, <2>1 DEF BothClimbed
<1>7. InRows' /\ Aligned'
  BY <1>3, <1>5, <1>6 DEF BothClimbed, InRows, Aligned
<1> QED
  BY <1>1, <1>2, <1>3, <1>7 DEF BothClimbed, IInv, TypeOK, Entailed, EntailedBelow, AcceptsOnlyThePrefix

\* The walk starts from the old root or the first hash of the proof.
LEMMA StartWalkKeeps == ASSUME IInv, StartWalk PROVE IInv'
<1>1. /\ pc = "align" /\ nodes # <<>> /\ fr' = nodes[1] /\ sr' = nodes[1]
      /\ i' = 2 /\ pc' = "walk"
      /\ UNCHANGED <<proof, nodes, fn, sn, answer, level>>
  BY DEF StartWalk
<1>2. Old' = Old /\ New' = New /\ (SizesOfLog' <=> SizesOfLog)
  BY <1>1 DEF Old, New, SizesOfLog
<1>3. i' \in 1..(Len(nodes') + 1)
  BY <1>1 DEF IInv
<1>4. InRows' /\ Entailed'
  BY <1>1, <1>2 DEF IInv, InRows, Climbing, Aligned, Entailed
<1> QED
  BY <1>1, <1>3, <1>4 DEF IInv, TypeOK, Aligned, EntailedBelow, AcceptsOnlyThePrefix

\* A hash of the proof joins from the left.
LEMMA HashWithLeftKeeps == ASSUME IInv, HashWithLeft PROVE IInv'
<1>1. /\ pc = "walk" /\ sn # 0 /\ (fn % 2 = 1 \/ fn = sn) /\ i =< Len(nodes)
      /\ fr' = node(nodes[i], fr) /\ sr' = node(nodes[i], sr) /\ pc' = "strip"
      /\ UNCHANGED <<proof, nodes, i, fn, sn, answer, level>>
  BY DEF HashWithLeft, OnRight
<1>2. fn \in 0..sn /\ sn \in 0..MaxSafeSize /\ answer = "none"
  BY <1>1 DEF IInv, TypeOK
<1>3. fn # 0
  BY <1>1, <1>2
<1>4. Old' = Old /\ New' = New /\ (SizesOfLog' <=> SizesOfLog)
  BY <1>1 DEF Old, New, SizesOfLog
<1>5. ASSUME SizesOfLog, NEW x, sr' = node(x, New[fn + 1])
      PROVE  fr' = node(x, Old[fn + 1])
  <2>1. x = nodes[i] /\ sr = New[fn + 1]
    <3>1. node(nodes[i], sr) = node(x, New[fn + 1])
      BY <1>1, <1>5
    <3> QED BY <3>1, NodeInjective
  <2>2. fr = Old[fn + 1]
    BY <1>1, <1>5, <2>1 DEF IInv, Entailed
  <2> QED BY <1>1, <2>1, <2>2
<1>6. EntailedBelow'
  BY <1>1, <1>3, <1>4, <1>5 DEF EntailedBelow
<1>7. InRows'
  BY <1>1, <1>4 DEF IInv, InRows, Climbing
<1> QED
  BY <1>1, <1>2, <1>6, <1>7 DEF IInv, TypeOK, Aligned, Entailed, AcceptsOnlyThePrefix

\* A promoted node climbs a level with no hash.
LEMMA SkipPromotedKeeps == ASSUME IInv, SkipPromoted PROVE IInv'
<1>1. /\ pc = "strip" /\ fn # 0 /\ fn % 2 = 0 /\ Halve
      /\ UNCHANGED <<proof, pc, nodes, i, fr, sr, answer>>
  BY DEF SkipPromoted
<1>2. fn \in 0..sn /\ sn \in 0..MaxSafeSize /\ fn = sn /\ i =< Len(nodes) /\ answer = "none"
  BY <1>1 DEF IInv, TypeOK, EntailedBelow
<1>3. BothClimbed
  BY <1>1, RowsClimbed DEF Climbing
<1>4. 2 * fn' = fn /\ fn' # 0 /\ fn' = sn' /\ ~(2 * fn' + 1 =< fn) /\ ~(2 * fn' + 1 =< sn)
  BY <1>1, <1>2, <1>3 DEF BothClimbed
<1>5. (SizesOfLog' <=> SizesOfLog)
  BY <1>1 DEF SizesOfLog
<1>6. SizesOfLog => Old'[fn' + 1] = Old[fn + 1] /\ New'[fn' + 1] = New[fn + 1]
  BY <1>3, <1>4 DEF BothClimbed
<1>7. EntailedBelow'
  BY <1>1, <1>2, <1>4, <1>5, <1>6 DEF IInv, EntailedBelow
<1>8. InRows'
  BY <1>3, <1>5 DEF BothClimbed, InRows
<1> QED
  BY <1>1, <1>2, <1>3, <1>7, <1>8 DEF BothClimbed, IInv, TypeOK, Aligned, Entailed, AcceptsOnlyThePrefix

\* The position climbs a level.
LEMMA ClimbKeeps == ASSUME IInv, Climb PROVE IInv'
<1>1. /\ pc = "strip" /\ ~(fn # 0 /\ fn % 2 = 0) /\ Halve
      /\ i' = i + 1 /\ pc' = "walk" /\ UNCHANGED <<proof, nodes, fr, sr, answer>>
  BY DEF Climb
<1>2. /\ fn \in 0..sn /\ sn \in 0..MaxSafeSize /\ fn # 0
      /\ i \in 1..(Len(nodes) + 1) /\ i =< Len(nodes) /\ Len(nodes) \in Nat /\ answer = "none"
  BY <1>1 DEF IInv, TypeOK, EntailedBelow
<1>3. BothClimbed
  BY <1>1, RowsClimbed DEF Climbing
<1>4. 2 * fn' + 1 = fn /\ 2 * fn' + 2 = fn + 1 /\ fn \in 1..fn /\ fn =< sn
  BY <1>1, <1>2, <1>3 DEF BothClimbed
<1>5. (SizesOfLog' <=> SizesOfLog)
  BY <1>1 DEF SizesOfLog
<1>6. ASSUME SizesOfLog, sr' = New'[fn' + 1] PROVE fr' = Old'[fn' + 1]
  <2>1. New'[fn' + 1] = node(New[fn], New[fn + 1])
    BY <1>3, <1>4, <1>6 DEF BothClimbed
  <2>2. Old'[fn' + 1] = node(Old[fn], Old[fn + 1])
    BY <1>3, <1>4, <1>6 DEF BothClimbed
  <2>3. Old[fn] = New[fn]
    BY <1>1, <1>4, <1>6 DEF IInv, InRows, Climbing
  <2>4. sr = node(Old[fn], New[fn + 1])
    BY <1>1, <1>6, <2>1, <2>3
  <2> QED BY <1>1, <1>6, <2>2, <2>4 DEF IInv, EntailedBelow
<1>7. Entailed' /\ InRows'
  BY <1>1, <1>3, <1>5, <1>6 DEF BothClimbed, Entailed, InRows
<1>8. i' \in 1..(Len(nodes') + 1)
  BY <1>1, <1>2
<1> QED
  BY <1>1, <1>2, <1>3, <1>7, <1>8 DEF BothClimbed, IInv, TypeOK, Aligned, EntailedBelow, AcceptsOnlyThePrefix

\* A hash of the proof joins from the right.
LEMMA HashWithRightKeeps == ASSUME IInv, HashWithRight PROVE IInv'
<1>1. /\ pc = "walk" /\ sn # 0 /\ ~(fn % 2 = 1 \/ fn = sn) /\ i =< Len(nodes)
      /\ sr' = node(sr, nodes[i]) /\ Halve /\ i' = i + 1
      /\ UNCHANGED <<proof, pc, nodes, fr, answer>>
  BY DEF HashWithRight, OnRight
<1>2. /\ fn \in 0..sn /\ sn \in 0..MaxSafeSize /\ answer = "none"
      /\ i \in 1..(Len(nodes) + 1) /\ Len(nodes) \in Nat
  BY <1>1 DEF IInv, TypeOK
<1>3. BothClimbed
  BY <1>1, RowsClimbed DEF Climbing
<1>4. 2 * fn' = fn /\ 2 * fn' + 1 =< sn /\ ~(2 * fn' + 1 =< fn)
  BY <1>1, <1>2, <1>3, SMTT(30) DEF BothClimbed
<1>5. (SizesOfLog' <=> SizesOfLog)
  BY <1>1 DEF SizesOfLog
<1>6. ASSUME SizesOfLog, sr' = New'[fn' + 1] PROVE fr' = Old'[fn' + 1]
  <2>1. New'[fn' + 1] = node(New[fn + 1], New[fn + 2])
    BY <1>3, <1>4, <1>6 DEF BothClimbed
  <2>2. Old'[fn' + 1] = Old[fn + 1]
    BY <1>3, <1>4, <1>6 DEF BothClimbed
  <2>3. sr = New[fn + 1]
    <3>1. node(sr, nodes[i]) = node(New[fn + 1], New[fn + 2])
      BY <1>1, <1>6, <2>1
    <3> QED BY <3>1, NodeInjective
  <2> QED BY <1>1, <1>6, <2>2, <2>3 DEF IInv, Entailed
<1>7. Entailed' /\ InRows'
  BY <1>1, <1>3, <1>5, <1>6 DEF BothClimbed, Entailed, InRows
<1>8. i' \in 1..(Len(nodes') + 1)
  BY <1>1, <1>2
<1> QED
  BY <1>1, <1>2, <1>3, <1>7, <1>8 DEF BothClimbed, IInv, TypeOK, Aligned, EntailedBelow, AcceptsOnlyThePrefix

\* The comparison with the roots ends the run.
LEMMA FinishKeeps == ASSUME IInv, Finish PROVE IInv'
<1>1. pc = "walk" /\ answer = "none" /\ fn \in 0..sn /\ sn \in 0..MaxSafeSize
  BY DEF IInv, TypeOK, Finish
<1>2. CASE Return("shorter") \/ Return("old_root") \/ Return("new_root")
  BY <1>1, <1>2, ReturnKeeps DEF Answers
<1>3. CASE sn = 0 /\ fr = proof.old_root /\ sr = proof.new_root /\ Return("valid")
  <2>1. ASSUME OfSignedHead(proof) PROVE OldRootOfLog
    <3>1. SizesOfLog /\ sr = Root(proof.newer)
      BY <1>3, <2>1 DEF OfSignedHead, SizesOfLog
    <3>2. fn = 0 /\ Len(New) = 1 /\ Len(Old) = 1
      BY <1>1, <1>3, <3>1 DEF IInv, InRows, Climbing
    <3>3. IsTree(proof.older) /\ IsTree(proof.newer) /\ level \in Nat \ {0}
      BY ProofAssumption DEF IInv, TypeOK
    <3>4. New[1] = Root(proof.newer) /\ Old[1] = Root(proof.older)
      BY <3>2, <3>3, RowOfRoot DEF New, Old
    <3>5. sr = New[fn + 1] => fr = Old[fn + 1]
      BY <1>1, <3>1 DEF IInv, Entailed
    <3> QED BY <1>3, <3>1, <3>2, <3>4, <3>5 DEF OldRootOfLog
  <2> QED BY <1>1, <1>3, <2>1, ReturnKeeps DEF Answers
<1> QED BY <1>2, <1>3 DEF Finish

-----------------------------------------------------------------------------

\* Every step keeps the invariant.
THEOREM Invariant == Spec => []IInv
<1>1. Init => IInv
  BY Initially
<1>2. IInv /\ [Next]_vars => IInv'
  <2> SUFFICES ASSUME IInv, [Next]_vars PROVE IInv'
    OBVIOUS
  <2>1. CASE Next
    BY <2>1, CheckFieldsKeeps, EmptyKeeps, AlignKeeps, StartWalkKeeps, LongerKeeps,
       HashWithLeftKeeps, SkipPromotedKeeps, ClimbKeeps, HashWithRightKeeps, FinishKeeps
    DEF Next
  <2>2. CASE UNCHANGED vars
    BY <2>2 DEF vars, IInv, TypeOK, InRows, Climbing, SizesOfLog, Old, New, Aligned, Entailed,
                EntailedBelow, AcceptsOnlyThePrefix, OfSignedHead
  <2> QED BY <2>1, <2>2
<1> QED BY <1>1, <1>2, PTL DEF Spec

\* Both cursors of the walk stay inside their trees, up to the largest size.
THEOREM TypeCorrect == Spec => []TypeOK
<1>1. IInv => TypeOK
  BY DEF IInv
<1> QED BY <1>1, Invariant, PTL

\* verify_consistency_proof accepts, towards a signed head, only the old root
\* of the entries that head begins with: for every two sizes and every path.
THEOREM ConsistencySound == Spec => []AcceptsOnlyThePrefix
<1>1. IInv => AcceptsOnlyThePrefix
  BY DEF IInv
<1> QED BY <1>1, Invariant, PTL

-----------------------------------------------------------------------------
(* The walk answers as the whole call of the other implementation *)

\* The nodes of the other implementation, where it starts, and the cursors it
\* goes through.
Kept == Nodes(proof.old_size, proof.old_root, proof.consistency_path)
Start == SeedCursor(proof.old_size, proof.new_size, Kept)
End == FoldLeft(Consume, Start, Tail(Kept))
Trail == CHOOSE w : Walk(w, Start, Tail(Kept), Len(Tail(Kept))) /\ End = w[Len(Tail(Kept))]

Checked ==
  /\ IsSize(proof.old_size) /\ proof.old_size # 0
  /\ IsSize(proof.new_size) /\ ~(proof.new_size < proof.old_size)
  /\ proof.hashes
  /\ proof.old_size # proof.new_size

\* Between two nodes both stand at one cursor.  Before the first node and amid
\* a later one the walk climbs one row at a time, to where a shift jumps.
InStep ==
  /\ pc = "align" =>
       /\ fn \div power[Ones(fn)] = (proof.old_size - 1) \div power[Ones(proof.old_size - 1)]
       /\ sn \div power[Ones(fn)] = (proof.new_size - 1) \div power[Ones(proof.old_size - 1)]
  /\ pc = "walk" => Standing(Trail[i - 2], fn, sn, fr, sr)
  /\ pc = "strip" =>
       Standing(Trail[i - 1], fn \div power[Zeros(fn) + 1], sn \div power[Zeros(fn) + 1], fr, sr)

AlikeInv ==
  /\ pc = "check" => answer = "none"
  /\ Climbing => Checked /\ nodes = Kept
  /\ pc \in {"walk", "strip"} => nodes # <<>> /\ i # 1
  /\ InStep
  /\ AnswersAlike

\* The other implementation's nodes are a sequence.
LEMMA KeptSequence ==
  ASSUME proof \in Proofs
  PROVE  \E S : Kept \in Seq(S)
<1> DEFINE path == proof.consistency_path
<1> DEFINE S == {path[k] : k \in DOMAIN path} \cup {proof.old_root}
<1>1. path \in Seq(S)
  <2>1. path \in Seq({path[k] : k \in DOMAIN path})
    BY ProofAssumption
  <2> QED BY <2>1, SeqMonotonic
<1>2. <<proof.old_root>> \o path \in Seq(S)
  <2>1. <<proof.old_root>> \in Seq(S)
    OBVIOUS
  <2> QED BY <1>1, <2>1, ConcatProperties
<1> HIDE DEF S
<1> QED BY <1>1, <1>2 DEF Kept, Nodes

\* It goes through cursors, one per node after the first.
LEMMA Trailing ==
  ASSUME proof \in Proofs, Kept # <<>>
  PROVE  /\ Len(Kept) \in Nat \ {0} /\ Len(Tail(Kept)) \in Nat /\ Len(Tail(Kept)) = Len(Kept) - 1
         /\ \A k \in 1..Len(Tail(Kept)) : Tail(Kept)[k] = Kept[k + 1]
         /\ IsCursor(Start)
         /\ Standing(Start, (proof.old_size - 1) \div power[Ones(proof.old_size - 1)],
                     (proof.new_size - 1) \div power[Ones(proof.old_size - 1)], Kept[1], Kept[1])
         /\ Walk(Trail, Start, Tail(Kept), Len(Tail(Kept)))
         /\ End = Trail[Len(Tail(Kept))]
<1>1. PICK S : Kept \in Seq(S)
  BY KeptSequence
<1>2. /\ Tail(Kept) \in Seq(S) /\ Len(Tail(Kept)) = Len(Kept) - 1
      /\ \A k \in 1..Len(Tail(Kept)) : Tail(Kept)[k] = Kept[k + 1]
  BY <1>1, HeadTailProperties
<1>3. /\ Len(Kept) \in Nat \ {0} /\ Len(Tail(Kept)) \in Nat
      /\ DOMAIN Tail(Kept) = 1..Len(Tail(Kept))
  BY <1>1, <1>2, LenProperties, EmptySeq
<1>4. Standing(Start, (proof.old_size - 1) \div power[Ones(proof.old_size - 1)],
               (proof.new_size - 1) \div power[Ones(proof.old_size - 1)], Kept[1], Kept[1])
  <2>1. Standing(Cursor(proof.old_size - 1, proof.new_size - 1, Kept[1]),
                 proof.old_size - 1, proof.new_size - 1, Kept[1], Kept[1])
    BY DEF Standing, Cursor
  <2> QED BY <2>1, StandingClimbed DEF Start, SeedCursor
<1>5. IsCursor(Start)
  BY <1>4, CursorStands
<1>6. \E w : Walk(w, Start, Tail(Kept), Len(Tail(Kept))) /\ End = w[Len(Tail(Kept))]
  BY <1>3, FoldWalks DEF End
<1>7. Walk(Trail, Start, Tail(Kept), Len(Tail(Kept))) /\ End = Trail[Len(Tail(Kept))]
  BY <1>6 DEF Trail
<1> QED BY <1>2, <1>3, <1>4, <1>5, <1>7

\* Past the field checks the other implementation's answer is read off its end.
LEMMA OtherAnswer ==
  ASSUME Checked
  PROVE  ConsistencyAnswer(proof) =
           IF Kept = <<>> THEN "empty" ELSE IF End.longer THEN "longer"
           ELSE IF End.sn # 0 THEN "shorter" ELSE IF End.fr # proof.old_root THEN "old_root"
           ELSE IF End.sr # proof.new_root THEN "new_root" ELSE "valid"
<1>1. ~(proof.old_size < 1)
  BY SizeAssumption DEF Checked, IsSize
<1> QED BY <1>1 DEF ConsistencyAnswer, End, Start, SeedCursor, Kept, Nodes, Checked

\* A return is right when the answer is.
LEMMA ReturnAlike ==
  ASSUME AlikeInv, NEW a, Return(a), a = ConsistencyAnswer(proof)
  PROVE  AlikeInv'
BY DEF AlikeInv, Return, Climbing, InStep, AnswersAlike

\* Before the first step.
LEMMA AlikeAtFirst == ASSUME Init PROVE AlikeInv
BY DEF Init, AlikeInv, Climbing, InStep, AnswersAlike

\* A step that keeps the proof keeps what the other implementation makes of it.
LEMMA SameTrail ==
  ASSUME proof' = proof
  PROVE  Kept' = Kept /\ Trail' = Trail /\ (Checked' <=> Checked)
BY DEF Trail, End, Start, Kept, Checked

\* The field checks refuse the same proofs for the same reasons.
LEMMA CheckFieldsAlike == ASSUME IInv, AlikeInv, CheckFields PROVE AlikeInv'
<1>1. CASE (~IsSize(proof.old_size) \/ proof.old_size = 0) /\ Return("old_size")
  <2>1. ConsistencyAnswer(proof) = "old_size"
    BY <1>1 DEF ConsistencyAnswer
  <2> QED BY <1>1, <2>1, ReturnAlike
<1> DEFINE OldFits == ~(~IsSize(proof.old_size) \/ proof.old_size = 0)
<1> DEFINE NewFits == ~(~IsSize(proof.new_size) \/ proof.new_size < proof.old_size)
<1>2. OldFits => IsSize(proof.old_size) /\ ~(proof.old_size < 1)
  BY SizeAssumption DEF IsSize
<1>3. CASE OldFits /\ ~NewFits /\ Return("new_size")
  <2>1. ConsistencyAnswer(proof) = "new_size"
    BY <1>2, <1>3 DEF ConsistencyAnswer
  <2> QED BY <1>3, <2>1, ReturnAlike
<1>4. CASE OldFits /\ NewFits /\ ~proof.hashes /\ Return("hashes")
  <2>1. ConsistencyAnswer(proof) = "hashes"
    BY <1>2, <1>4 DEF ConsistencyAnswer
  <2> QED BY <1>4, <2>1, ReturnAlike
<1>5. CASE OldFits /\ NewFits /\ proof.hashes /\ proof.old_size = proof.new_size /\ CheckUnchanged
  <2>1. ConsistencyAnswer(proof) = IF proof.consistency_path # <<>> THEN "unexpected"
                                   ELSE IF proof.old_root # proof.new_root THEN "differ" ELSE "valid"
    BY <1>2, <1>5 DEF ConsistencyAnswer
  <2> QED BY <1>5, <2>1, ReturnAlike DEF CheckUnchanged
<1>6. CASE Checked /\ Begin
  <2>1. /\ pc' = "align" /\ proof' = proof
        /\ fn' = proof.old_size - 1 /\ sn' = proof.new_size - 1
    BY <1>6 DEF Begin
  <2>2. nodes' = Kept
    BY <1>6 DEF Begin, IsPowerOfTwo, PowerOfTwo, Kept, Nodes
  <2>3. Kept' = Kept /\ Checked'
    BY <1>6, <2>1, SameTrail
  <2>4. InStep'
    BY <2>1 DEF InStep
  <2> QED BY <2>1, <2>2, <2>3, <2>4 DEF AlikeInv, AnswersAlike
<1> QED BY <1>1, <1>3, <1>4, <1>5, <1>6 DEF CheckFields, Checked

\* No node at all.
LEMMA EmptyAlike == ASSUME IInv, AlikeInv, Empty PROVE AlikeInv'
<1>1. Checked /\ Kept = <<>> /\ Return("empty")
  BY DEF Empty, AlikeInv, Climbing
<1>2. ConsistencyAnswer(proof) = "empty"
  BY <1>1, OtherAnswer
<1> QED BY <1>1, <1>2, ReturnAlike

\* A row climbed before the first node is one halving of the first jump.
LEMMA AlignAlike == ASSUME IInv, AlikeInv, Align PROVE AlikeInv'
<1>1. /\ pc = "align" /\ fn % 2 = 1 /\ fn' = fn \div 2 /\ sn' = sn \div 2
      /\ UNCHANGED <<proof, pc, nodes, i, fr, sr, answer>>
  BY DEF Align, Halve, halve
<1>2. fn \in Nat /\ sn \in Nat
  BY SizeAssumption DEF IInv, TypeOK
<1>3. /\ fn' \div power[Ones(fn')] = fn \div power[Ones(fn)]
      /\ sn' \div power[Ones(fn')] = sn \div power[Ones(fn)]
  BY <1>1, <1>2, RowAligned
<1>4. Kept' = Kept /\ (Checked' <=> Checked)
  BY <1>1, SameTrail
<1>5. InStep'
  BY <1>1, <1>3 DEF AlikeInv, InStep
<1> QED BY <1>1, <1>4, <1>5 DEF AlikeInv, Climbing, AnswersAlike

\* Aligned, the walk is where the first jump ends.
LEMMA StartWalkAlike == ASSUME IInv, AlikeInv, StartWalk PROVE AlikeInv'
<1>1. /\ pc = "align" /\ nodes # <<>> /\ fn % 2 # 1 /\ fr' = nodes[1] /\ sr' = nodes[1]
      /\ i' = 2 /\ pc' = "walk" /\ UNCHANGED <<proof, nodes, fn, sn, answer, level>>
  BY DEF StartWalk
<1>2. fn \in Nat /\ sn \in Nat
  BY SizeAssumption DEF IInv, TypeOK
<1>3. fn \div power[Ones(fn)] = fn /\ sn \div power[Ones(fn)] = sn
  BY <1>1, <1>2, RowAligned
<1>4. Checked /\ nodes = Kept
  BY <1>1 DEF AlikeInv, Climbing
<1>5. /\ fn = (proof.old_size - 1) \div power[Ones(proof.old_size - 1)]
      /\ sn = (proof.new_size - 1) \div power[Ones(proof.old_size - 1)]
  BY <1>1, <1>3 DEF AlikeInv, InStep
<1>6. Standing(Start, fn, sn, fr', sr') /\ Trail[0] = Start
  BY <1>1, <1>4, <1>5, Trailing DEF IInv, Walk
<1>7. Kept' = Kept /\ Trail' = Trail /\ Checked' /\ i' - 2 = 0 /\ i' # 1
  BY <1>1, <1>4, SameTrail
<1>8. InStep'
  BY <1>1, <1>6, <1>7 DEF InStep
<1> QED BY <1>1, <1>4, <1>7, <1>8 DEF AlikeInv, Climbing, AnswersAlike

\* Where the other implementation is when the walk takes a node.
LEMMA AtNode ==
  ASSUME IInv, AlikeInv, pc = "walk"
  PROVE  /\ Checked /\ nodes = Kept /\ Kept # <<>>
         /\ i - 2 \in Nat /\ i - 2 =< Len(Tail(Kept)) /\ (i - 2) + 1 = i - 1
         /\ i =< Len(nodes) => i - 2 < Len(Tail(Kept)) /\ Tail(Kept)[i - 1] = nodes[i]
         /\ i > Len(nodes) => i - 2 = Len(Tail(Kept))
<1>1. Checked /\ nodes = Kept /\ Kept # <<>> /\ i # 1 /\ i \in 1..(Len(nodes) + 1)
  BY DEF IInv, TypeOK, AlikeInv, Climbing
<1>2. /\ Len(Kept) \in Nat \ {0} /\ Len(Tail(Kept)) = Len(Kept) - 1
      /\ \A k \in 1..Len(Tail(Kept)) : Tail(Kept)[k] = Kept[k + 1]
  BY <1>1, Trailing DEF IInv
<1>3. i \in Nat /\ i >= 2 /\ (i - 1) + 1 = i
  BY <1>1, <1>2
<1>4. i =< Len(Kept) => i - 1 \in 1..Len(Tail(Kept))
  BY <1>2, <1>3
<1>5. i =< Len(Kept) => Tail(Kept)[i - 1] = Kept[i]
  BY <1>2, <1>3, <1>4
<1> QED BY <1>1, <1>2, <1>3, <1>5

\* A node to spare at the top: the other implementation ends past it.
LEMMA LongerAlike == ASSUME IInv, AlikeInv, Longer PROVE AlikeInv'
<1>1. pc = "walk" /\ i =< Len(nodes) /\ sn = 0 /\ Return("longer")
  BY DEF Longer
<1>2. Checked /\ Kept # <<>> /\ i - 2 \in Nat /\ i - 2 < Len(Tail(Kept))
  BY <1>1, AtNode
<1>3. Trail[i - 2].sn = 0
  BY <1>1 DEF AlikeInv, InStep, Standing
<1>4. End.longer
  <2>1. PICK j, n : j = i - 2 /\ n = Len(Tail(Kept))
    OBVIOUS
  <2>2. n \in Nat /\ j \in 0..n /\ j < n /\ Trail[j].sn = 0 /\ End = Trail[n]
        /\ IsCursor(Start) /\ Walk(Trail, Start, Tail(Kept), n)
    BY <1>2, <1>3, <2>1, Trailing DEF IInv
  <2> QED BY <2>2, WalkPast
<1>5. ConsistencyAnswer(proof) = "longer"
  BY <1>2, <1>4, OtherAnswer
<1> QED BY <1>1, <1>5, ReturnAlike

\* A hash from the left, of which the other implementation makes one jump.
LEMMA HashWithLeftAlike == ASSUME IInv, AlikeInv, HashWithLeft PROVE AlikeInv'
<1>1. /\ pc = "walk" /\ sn # 0 /\ i =< Len(nodes) /\ Turns(fn, sn)
      /\ fr' = node(nodes[i], fr) /\ sr' = node(nodes[i], sr) /\ pc' = "strip"
      /\ UNCHANGED <<proof, nodes, i, fn, sn, answer, level>>
  BY DEF HashWithLeft, OnRight, Turns
<1>2. /\ nodes = Kept /\ Kept # <<>> /\ i - 2 \in Nat /\ (i - 2) + 1 = i - 1
      /\ i - 2 < Len(Tail(Kept)) /\ Tail(Kept)[i - 1] = nodes[i]
  BY <1>1, AtNode
<1>3. Standing(Trail[i - 1], fn \div power[Zeros(fn) + 1], sn \div power[Zeros(fn) + 1], fr', sr')
  <2>1. PICK j, n : j = i - 2 /\ n = Len(Tail(Kept))
    OBVIOUS
  <2>2. /\ n \in Nat /\ j \in Nat /\ j < n /\ Walk(Trail, Start, Tail(Kept), n)
        /\ Standing(Trail[j], fn, sn, fr, sr) /\ j + 1 = i - 1 /\ Tail(Kept)[j + 1] = nodes[i]
    BY <1>1, <1>2, <2>1, Trailing DEF IInv, AlikeInv, InStep
  <2>3. Standing(Trail[j + 1], fn \div power[Zeros(fn) + 1], sn \div power[Zeros(fn) + 1],
                 node(Tail(Kept)[j + 1], fr), node(Tail(Kept)[j + 1], sr))
    BY <1>1, <2>2, WalkStands
  <2> QED BY <1>1, <2>2, <2>3
<1>4. Kept' = Kept /\ Trail' = Trail /\ (Checked' <=> Checked)
  BY <1>1, SameTrail
<1>5. InStep'
  BY <1>1, <1>3, <1>4 DEF InStep
<1> QED BY <1>1, <1>4, <1>5 DEF AlikeInv, Climbing, AnswersAlike

\* A row climbed alone is one halving of the jump.
LEMMA SkipPromotedAlike == ASSUME IInv, AlikeInv, SkipPromoted PROVE AlikeInv'
<1>1. /\ pc = "strip" /\ fn # 0 /\ fn % 2 = 0 /\ fn' = fn \div 2 /\ sn' = sn \div 2
      /\ UNCHANGED <<proof, pc, nodes, i, fr, sr, answer>>
  BY DEF SkipPromoted, Halve, halve
<1>2. fn \in Nat \ {0} /\ sn \in Nat
  BY <1>1, SizeAssumption DEF IInv, TypeOK
<1>3. /\ fn' \div power[Zeros(fn') + 1] = fn \div power[Zeros(fn) + 1]
      /\ sn' \div power[Zeros(fn') + 1] = sn \div power[Zeros(fn) + 1]
  BY <1>1, <1>2, RowSkipped
<1>4. Kept' = Kept /\ Trail' = Trail /\ (Checked' <=> Checked)
  BY <1>1, SameTrail
<1>5. InStep'
  BY <1>1, <1>3, <1>4 DEF AlikeInv, InStep
<1> QED BY <1>1, <1>4, <1>5 DEF AlikeInv, Climbing, AnswersAlike

\* The last row of the jump.
LEMMA ClimbAlike == ASSUME IInv, AlikeInv, Climb PROVE AlikeInv'
<1>1. /\ pc = "strip" /\ ~(fn # 0 /\ fn % 2 = 0) /\ fn' = fn \div 2 /\ sn' = sn \div 2
      /\ i' = i + 1 /\ pc' = "walk" /\ UNCHANGED <<proof, nodes, fr, sr, answer>>
  BY DEF Climb, Halve, halve
<1>2. fn \in Nat \ {0} /\ i \in Nat /\ fn % 2 = 1
  BY <1>1, SizeAssumption DEF IInv, TypeOK, EntailedBelow
<1>3. power[Zeros(fn) + 1] = 2
  BY <1>2, ZerosOdd
<1>4. Standing(Trail[i - 1], fn', sn', fr, sr)
  BY <1>1, <1>3 DEF AlikeInv, InStep
<1>5. Kept' = Kept /\ Trail' = Trail /\ (Checked' <=> Checked)
  BY <1>1, SameTrail
<1>6. i' - 2 = i - 1 /\ i' # 1
  <2>1. i # 0
    BY <1>1 DEF IInv, TypeOK
  <2> QED BY <1>1, <1>2, <2>1
<1>7. InStep'
  BY <1>1, <1>4, <1>5, <1>6 DEF InStep
<1> QED BY <1>1, <1>5, <1>6, <1>7 DEF AlikeInv, Climbing, AnswersAlike

\* A hash from the right, and one row up in both.
LEMMA HashWithRightAlike == ASSUME IInv, AlikeInv, HashWithRight PROVE AlikeInv'
<1>1. /\ pc = "walk" /\ sn # 0 /\ i =< Len(nodes) /\ ~Turns(fn, sn)
      /\ sr' = node(sr, nodes[i]) /\ fn' = fn \div 2 /\ sn' = sn \div 2 /\ i' = i + 1
      /\ UNCHANGED <<proof, pc, nodes, fr, answer>>
  BY DEF HashWithRight, OnRight, Turns, Halve, halve
<1>2. /\ nodes = Kept /\ Kept # <<>> /\ i - 2 \in Nat /\ (i - 2) + 1 = i - 1
      /\ i - 2 < Len(Tail(Kept)) /\ Tail(Kept)[i - 1] = nodes[i]
  BY <1>1, AtNode
<1>3. Standing(Trail[i - 1], fn', sn', fr', sr')
  <2>1. PICK j, n : j = i - 2 /\ n = Len(Tail(Kept))
    OBVIOUS
  <2>2. /\ n \in Nat /\ j \in Nat /\ j < n /\ Walk(Trail, Start, Tail(Kept), n)
        /\ Standing(Trail[j], fn, sn, fr, sr) /\ j + 1 = i - 1 /\ Tail(Kept)[j + 1] = nodes[i]
    BY <1>1, <1>2, <2>1, Trailing DEF IInv, AlikeInv, InStep
  <2>3. Standing(Trail[j + 1], fn \div 2, sn \div 2, fr, node(sr, Tail(Kept)[j + 1]))
    BY <1>1, <2>2, WalkStands
  <2> QED BY <1>1, <2>2, <2>3
<1>4. Kept' = Kept /\ Trail' = Trail /\ (Checked' <=> Checked)
  BY <1>1, SameTrail
<1>5. i' - 2 = i - 1 /\ i' # 1
  <2>1. i \in Nat \ {0}
    BY <1>2 DEF IInv, TypeOK
  <2> QED BY <1>1, <2>1
<1>6. InStep'
  BY <1>1, <1>3, <1>4, <1>5 DEF InStep
<1> QED BY <1>1, <1>4, <1>5, <1>6 DEF AlikeInv, Climbing, AnswersAlike

\* The path used up, both read the answer off the same cursor.
LEMMA FinishAlike == ASSUME IInv, AlikeInv, Finish PROVE AlikeInv'
<1>1. pc = "walk" /\ i > Len(nodes)
  BY DEF Finish
<1>2. Checked /\ Kept # <<>> /\ i - 2 = Len(Tail(Kept))
  BY <1>1, AtNode
<1>3. Standing(End, fn, sn, fr, sr)
  BY <1>1, <1>2, Trailing DEF IInv, AlikeInv, InStep
<1>4. ConsistencyAnswer(proof) = IF sn # 0 THEN "shorter" ELSE IF fr # proof.old_root THEN "old_root"
                                 ELSE IF sr # proof.new_root THEN "new_root" ELSE "valid"
  BY <1>2, <1>3, OtherAnswer DEF Standing
<1> QED BY <1>4, ReturnAlike DEF Finish

\* verify_consistency_proof and verifyConsistencyProof give one answer to every
\* proof, the reason of a refusal included: the loops of the one and the shifts
\* of the other agree at every two sizes and length of path.
THEOREM ConsistencyAnswersAlike == Spec => []AnswersAlike
<1>1. Init => IInv /\ AlikeInv
  BY Initially, AlikeAtFirst
<1>2. IInv /\ AlikeInv /\ [Next]_vars => AlikeInv'
  <2> SUFFICES ASSUME IInv, AlikeInv, [Next]_vars PROVE AlikeInv'
    OBVIOUS
  <2>1. CASE Next
    BY <2>1, CheckFieldsAlike, EmptyAlike, AlignAlike, StartWalkAlike, LongerAlike, HashWithLeftAlike,
       SkipPromotedAlike, ClimbAlike, HashWithRightAlike, FinishAlike DEF Next
  <2>2. CASE UNCHANGED vars
    <3>1. Kept' = Kept /\ Trail' = Trail /\ (Checked' <=> Checked)
      BY <2>2, SameTrail DEF vars
    <3> QED BY <2>2, <3>1 DEF vars, AlikeInv, Climbing, InStep, AnswersAlike
  <2> QED BY <2>1, <2>2
<1>3. AlikeInv => AnswersAlike
  BY DEF AlikeInv
<1> QED BY <1>1, <1>2, <1>3, Invariant, PTL DEF Spec

\* Between two heads of one log verify_consistency_proof accepts the genuine
\* proof of the true old root and nothing else, for every two sizes and path.
THEOREM ConsistencyExact == Spec => []AcceptsExactlyTheGenuine
<1>1. IInv /\ AnswersAlike => AcceptsExactlyTheGenuine
  <2> SUFFICES ASSUME IInv, AnswersAlike, OfSignedHead(proof)
               PROVE  ConsistencyAnswer(proof) = "valid" <=>
                        /\ IsSize(proof.new_size) /\ proof.hashes
                        /\ proof.old_root = merkle_root(LeavesOf(proof.older))
                        /\ proof.consistency_path = consistency_path(LeavesOf(proof.newer), proof.old_size)
    BY DEF AcceptsExactlyTheGenuine, AnswersAlike
  <2>1. PICK old, leaves : old = LeavesOf(proof.older) /\ leaves = LeavesOf(proof.newer)
    OBVIOUS
  <2>2. IsTree(proof.older) /\ IsTree(proof.newer)
    BY ProofAssumption DEF IInv
  <2>3. Len(old) \in Nat \ {0} /\ Len(leaves) \in Nat \ {0}
    BY <2>1, <2>2 DEF IsTree, LeavesOf
  <2>4. Prefix(old, leaves)
    BY <2>1, <2>3, ProofAssumption DEF IInv, Prefix
  <2>5. merkle_root(leaves) = Root(proof.newer)
    BY <2>1, <2>2, RootOfRows
  <2>6. proof.old_size = Len(old) /\ proof.new_size = Len(leaves) /\ proof.new_root = merkle_root(leaves)
    BY <2>1, <2>5 DEF OfSignedHead
  <2>7. PICK S : proof.consistency_path \in Seq(S)
    BY ProofAssumption DEF IInv
  <2>8. PICK p : p = proof
    OBVIOUS
  <2>9. ConsistencyAnswer(p) = "valid" <=>
          /\ IsSize(Len(leaves)) /\ p.hashes /\ p.old_root = merkle_root(old)
          /\ p.consistency_path = consistency_path(leaves, Len(old))
    BY <2>4, <2>6, <2>7, <2>8, ConsistencyExactly
  <2> QED BY <2>1, <2>6, <2>8, <2>9
<1> QED BY <1>1, Invariant, ConsistencyAnswersAlike, PTL
=============================================================================
