-------------------------- MODULE InclusionProofs --------------------------
(***************************************************************************)
(* Inclusion proofs are sound for trees of every size and proofs of every  *)
(* length, from the injectivity of the hash alone.                         *)
(*                                                                         *)
(* The argument runs against the direction of the walk.  The verifier does *)
(* not know the tree, so nothing can be said of the hash it has computed;  *)
(* what is invariant is an implication: IF that hash is the tree's at the  *)
(* position reached, THEN the leaf is the tree's at the stated index.  It  *)
(* holds at the leaf, every climb carries it one row up because a node     *)
(* determines its children, and at the top the root is the signed one.     *)
(***************************************************************************)
EXTENDS InclusionWalk, MerkleLemmas

Row == RowAt(proof.rows, level)

LeafOfLog == proof.leaf_hash = LeavesOf(proof.rows)[proof.leaf_index + 1]

Climbing == pc \in {"walk", "strip"}

\* The stated size is the tree's: what a signed head settles for its verifier.
SizeOfLog == proof.tree_size = Len(LeavesOf(proof.rows))

\* sn is the last position of the row reached.
InRow == Climbing /\ SizeOfLog => Len(Row) = sn + 1

Entailed == pc = "walk" /\ SizeOfLog /\ r = Row[fn + 1] => LeafOfLog

\* Between a node and the climb to its row, the position is its right child's.
EntailedBelow ==
  pc = "strip" => /\ fn # 0 /\ (fn % 2 = 1 \/ fn = sn) /\ i =< Len(proof.audit_path)
                  /\ SizeOfLog => \A x : r = node(x, Row[fn + 1]) => LeafOfLog

IInv ==
  /\ proof \in Proofs
  /\ TypeOK
  /\ pc = "check" => i = 1 /\ level = 1 /\ r = proof.leaf_hash
  /\ InRow /\ Entailed /\ EntailedBelow
  /\ AcceptsOnlyTheLeaf

-----------------------------------------------------------------------------

\* The invariant holds of every call before its first step.
LEMMA Initially == ASSUME Init PROVE IInv
<1>1. Len(proof.audit_path) \in Nat
  BY ProofAssumption DEF Init
<1> QED
  BY <1>1, SizeAssumption
  DEF Init, IInv, TypeOK, Answers, InRow, Climbing, Entailed, EntailedBelow, AcceptsOnlyTheLeaf

\* What climbing does to the row.
LEMMA RowClimbed ==
  ASSUME IInv, Climbing, Halve, proof' = proof
  PROVE  /\ fn' \in 0..sn' /\ sn' \in 0..MaxSafeSize /\ level' \in Nat \ {0}
         /\ SizeOfLog =>
              /\ Len(Row') = sn' + 1
              /\ Row'[fn' + 1] = IF 2 * fn' + 1 =< sn
                                 THEN node(Row[2 * fn' + 1], Row[2 * fn' + 2])
                                 ELSE Row[2 * fn' + 1]
<1>1. fn \in 0..sn /\ sn \in 0..MaxSafeSize /\ level \in Nat \ {0} /\ MaxSafeSize \in Nat
  BY SizeAssumption DEF IInv, TypeOK
<1>2. fn' = fn \div 2 /\ sn' = sn \div 2 /\ level' = level + 1
  BY DEF Halve, halve
<1>3. fn' \in 0..sn' /\ sn' \in 0..MaxSafeSize /\ level' \in Nat \ {0}
  BY <1>1, <1>2
<1>4. ASSUME SizeOfLog
      PROVE  /\ Len(Row') = sn' + 1
             /\ Row'[fn' + 1] = IF 2 * fn' + 1 =< sn
                                THEN node(Row[2 * fn' + 1], Row[2 * fn' + 2])
                                ELSE Row[2 * fn' + 1]
  <2>1. Len(Row) = sn + 1
    BY <1>4 DEF IInv, InRow
  <2>2. Row' = RowAt(proof.rows, level + 1)
    BY <1>2 DEF Row
  <2>3. IsTree(proof.rows)
    BY ProofAssumption DEF IInv
  <2>4. /\ Len(Row') = (sn \div 2) + 1
        /\ \A p \in 0..(sn \div 2) :
             Row'[p + 1] = IF 2 * p + 1 =< sn THEN node(Row[2 * p + 1], Row[2 * p + 2])
                           ELSE Row[2 * p + 1]
    <3> DEFINE rows == proof.rows
    <3>1. IsTree(rows) /\ level \in Nat \ {0} /\ sn \in Nat /\ Len(RowAt(rows, level)) = sn + 1
      BY <1>1, <2>1, <2>3 DEF Row
    <3> HIDE DEF rows
    <3>2. /\ Len(RowAt(rows, level + 1)) = (sn \div 2) + 1
          /\ \A p \in 0..(sn \div 2) :
               RowAt(rows, level + 1)[p + 1] =
                 IF 2 * p + 1 =< sn
                 THEN node(RowAt(rows, level)[2 * p + 1], RowAt(rows, level)[2 * p + 2])
                 ELSE RowAt(rows, level)[2 * p + 1]
      BY <3>1, PositionClimbed, ZenonT(60)
    <3> QED BY <2>2, <3>2 DEF Row, rows
  <2> QED BY <1>2, <1>3, <2>4
<1> QED BY <1>3, <1>4

\* A return leaves the walk where it is.
LEMMA ReturnKeeps ==
  ASSUME IInv, NEW a \in Answers \ {"none"}, Return(a), answer = "none",
         a = "valid" /\ OfSignedHead(proof) => LeafOfLog
  PROVE  IInv'
BY DEF IInv, TypeOK, Return, InRow, Climbing, Entailed, EntailedBelow, AcceptsOnlyTheLeaf,
       OfSignedHead, LeafOfLog

\* The field checks start the walk at the leaf.
LEMMA CheckFieldsKeeps == ASSUME IInv, CheckFields PROVE IInv'
<1>1. pc = "check" /\ answer = "none" /\ i = 1 /\ level = 1 /\ r = proof.leaf_hash
  BY DEF IInv, TypeOK, CheckFields
<1>2. CASE \/ Return("tree_size") \/ Return("leaf_index") \/ Return("hashes")
  BY <1>1, <1>2, ReturnKeeps DEF Answers
<1>3. CASE /\ IsSize(proof.tree_size) /\ proof.tree_size # 0
           /\ IsSize(proof.leaf_index) /\ ~(proof.leaf_index >= proof.tree_size)
           /\ Begin
  <2>1. /\ fn' \in 0..sn' /\ sn' \in 0..MaxSafeSize
        /\ fn' = proof.leaf_index /\ sn' + 1 = proof.tree_size
    BY <1>3, SizeAssumption DEF Begin, IsSize
  <2>2. UNCHANGED <<proof, i, r, answer, level>> /\ pc' = "walk"
    BY <1>3 DEF Begin
  <2>3. Row' = LeavesOf(proof.rows)
    <3>1. IsTree(proof.rows)
      BY ProofAssumption DEF IInv
    <3> QED BY <1>1, <2>2, <3>1 DEF Row, RowAt, LeavesOf, IsTree
  <2>4. InRow' /\ Entailed'
    BY <1>1, <2>1, <2>2, <2>3 DEF InRow, Entailed, SizeOfLog, LeafOfLog
  <2> QED
    BY <1>1, <2>1, <2>2, <2>4 DEF IInv, TypeOK, EntailedBelow, AcceptsOnlyTheLeaf
<1> QED BY <1>2, <1>3 DEF CheckFields

\* A path longer than the tree needs is refused.
LEMMA LongerKeeps == ASSUME IInv, Longer PROVE IInv'
BY ReturnKeeps DEF Longer, IInv, TypeOK, Answers

\* A hash of the path joins from the left.
LEMMA HashWithLeftKeeps == ASSUME IInv, HashWithLeft PROVE IInv'
<1>1. /\ pc = "walk" /\ sn # 0 /\ (fn % 2 = 1 \/ fn = sn) /\ i =< Len(proof.audit_path)
      /\ r' = node(proof.audit_path[i], r) /\ pc' = "strip"
      /\ UNCHANGED <<proof, i, fn, sn, answer, level>>
  BY DEF HashWithLeft, OnRight
<1>2. fn \in 0..sn /\ sn \in 0..MaxSafeSize /\ answer = "none"
  BY <1>1 DEF IInv, TypeOK
<1>3. fn # 0
  BY <1>1, <1>2
<1>4. Row' = Row /\ (SizeOfLog' <=> SizeOfLog) /\ (LeafOfLog' <=> LeafOfLog)
  BY <1>1 DEF Row, SizeOfLog, LeafOfLog
<1>5. ASSUME SizeOfLog, NEW x, r' = node(x, Row[fn + 1]) PROVE LeafOfLog
  <2>1. r = Row[fn + 1]
    <3>1. node(proof.audit_path[i], r) = node(x, Row[fn + 1])
      BY <1>1, <1>5
    <3> QED BY <3>1, NodeInjective
  <2> QED BY <1>1, <1>5, <2>1 DEF IInv, Entailed
<1>6. EntailedBelow'
  BY <1>1, <1>3, <1>4, <1>5 DEF EntailedBelow
<1> QED
  BY <1>1, <1>2, <1>4, <1>6 DEF IInv, TypeOK, InRow, Climbing, Entailed, AcceptsOnlyTheLeaf

\* A promoted node climbs a level with no hash.
LEMMA SkipPromotedKeeps == ASSUME IInv, SkipPromoted PROVE IInv'
<1>1. /\ pc = "strip" /\ fn # 0 /\ fn % 2 = 0 /\ Halve
      /\ UNCHANGED <<proof, pc, i, r, answer>>
  BY DEF SkipPromoted
<1>2. fn \in 0..sn /\ sn \in 0..MaxSafeSize /\ fn = sn /\ i =< Len(proof.audit_path)
  BY <1>1 DEF IInv, TypeOK, EntailedBelow
<1>3. fn' = fn \div 2 /\ sn' = sn \div 2
  BY <1>1 DEF Halve, halve
<1>4. 2 * fn' = fn /\ fn' # 0 /\ fn' = sn'
  BY <1>1, <1>2, <1>3
<1>5. /\ fn' \in 0..sn' /\ sn' \in 0..MaxSafeSize /\ level' \in Nat \ {0}
      /\ SizeOfLog => Len(Row') = sn' + 1 /\ Row'[fn' + 1] = Row[fn + 1]
  BY <1>1, <1>2, <1>4, RowClimbed DEF Climbing
<1>6. (SizeOfLog' <=> SizeOfLog) /\ (LeafOfLog' <=> LeafOfLog)
  BY <1>1 DEF SizeOfLog, LeafOfLog
<1>7. EntailedBelow'
  BY <1>1, <1>2, <1>4, <1>5, <1>6 DEF IInv, EntailedBelow
<1> QED
  BY <1>1, <1>5, <1>6, <1>7 DEF IInv, TypeOK, InRow, Climbing, Entailed, AcceptsOnlyTheLeaf

\* The position climbs a level.
LEMMA ClimbKeeps == ASSUME IInv, Climb PROVE IInv'
<1>1. /\ pc = "strip" /\ ~(fn # 0 /\ fn % 2 = 0) /\ Halve
      /\ i' = i + 1 /\ pc' = "walk" /\ UNCHANGED <<proof, r, answer>>
  BY DEF Climb
<1>2. /\ fn \in 0..sn /\ sn \in 0..MaxSafeSize /\ fn # 0
      /\ i \in 1..Len(proof.audit_path) /\ answer = "none"
  BY <1>1, ProofAssumption DEF IInv, TypeOK, EntailedBelow
<1>3. fn' = fn \div 2 /\ sn' = sn \div 2
  BY <1>1 DEF Halve, halve
<1>4. 2 * fn' + 1 = fn /\ 2 * fn' + 2 = fn + 1
  BY <1>1, <1>2, <1>3
<1>5. /\ fn' \in 0..sn' /\ sn' \in 0..MaxSafeSize /\ level' \in Nat \ {0}
      /\ SizeOfLog => /\ Len(Row') = sn' + 1
                      /\ Row'[fn' + 1] = node(Row[fn], Row[fn + 1])
  BY <1>1, <1>2, <1>4, RowClimbed DEF Climbing
<1>6. (SizeOfLog' <=> SizeOfLog) /\ (LeafOfLog' <=> LeafOfLog)
  BY <1>1 DEF SizeOfLog, LeafOfLog
<1>7. Entailed'
  BY <1>1, <1>5, <1>6 DEF IInv, EntailedBelow, Entailed
<1>8. i' \in 1..(Len(proof.audit_path) + 1)
  BY <1>1, <1>2, ProofAssumption DEF IInv
<1> QED
  BY <1>1, <1>2, <1>5, <1>6, <1>7, <1>8
  DEF IInv, TypeOK, InRow, Climbing, EntailedBelow, AcceptsOnlyTheLeaf

\* A hash of the path joins from the right.
LEMMA HashWithRightKeeps == ASSUME IInv, HashWithRight PROVE IInv'
<1>1. /\ pc = "walk" /\ sn # 0 /\ ~(fn % 2 = 1 \/ fn = sn) /\ i =< Len(proof.audit_path)
      /\ r' = node(r, proof.audit_path[i]) /\ Halve /\ i' = i + 1
      /\ UNCHANGED <<proof, pc, answer>>
  BY DEF HashWithRight, OnRight
<1>2. fn \in 0..sn /\ sn \in 0..MaxSafeSize /\ answer = "none"
  BY <1>1 DEF IInv, TypeOK
<1>3. fn' = fn \div 2 /\ sn' = sn \div 2
  BY <1>1 DEF Halve, halve
<1>4. 2 * fn' = fn /\ 2 * fn' + 1 =< sn
  BY <1>1, <1>2, <1>3
<1>5. /\ fn' \in 0..sn' /\ sn' \in 0..MaxSafeSize /\ level' \in Nat \ {0}
      /\ SizeOfLog => /\ Len(Row') = sn' + 1
                      /\ Row'[fn' + 1] = node(Row[fn + 1], Row[fn + 2])
  BY <1>1, <1>4, RowClimbed DEF Climbing
<1>6. (SizeOfLog' <=> SizeOfLog) /\ (LeafOfLog' <=> LeafOfLog)
  BY <1>1 DEF SizeOfLog, LeafOfLog
<1>7. ASSUME SizeOfLog, r' = Row'[fn' + 1] PROVE LeafOfLog
  <2>1. r = Row[fn + 1]
    <3>1. node(r, proof.audit_path[i]) = node(Row[fn + 1], Row[fn + 2])
      BY <1>1, <1>5, <1>7
    <3> QED BY <3>1, NodeInjective
  <2> QED BY <1>1, <1>7, <2>1 DEF IInv, Entailed
<1>8. i' \in 1..(Len(proof.audit_path) + 1)
  BY <1>1, ProofAssumption DEF IInv, TypeOK
<1> QED
  BY <1>1, <1>2, <1>5, <1>6, <1>7, <1>8
  DEF IInv, TypeOK, InRow, Climbing, Entailed, EntailedBelow, AcceptsOnlyTheLeaf

\* The comparison with the root ends the run.
LEMMA FinishKeeps == ASSUME IInv, Finish PROVE IInv'
<1>1. pc = "walk" /\ answer = "none" /\ fn \in 0..sn /\ sn \in 0..MaxSafeSize
  BY DEF IInv, TypeOK, Finish
<1>2. CASE Return("shorter") \/ Return("root")
  BY <1>1, <1>2, ReturnKeeps DEF Answers
<1>3. CASE sn = 0 /\ r = proof.root_hash /\ Return("valid")
  <2>1. ASSUME OfSignedHead(proof) PROVE LeafOfLog
    <3>1. SizeOfLog /\ r = Root(proof.rows)
      BY <1>3, <2>1 DEF OfSignedHead, SizeOfLog
    <3>2. fn = 0 /\ Len(Row) = 1
      BY <1>1, <1>3, <3>1 DEF IInv, InRow, Climbing
    <3>3. IsTree(proof.rows) /\ level \in Nat \ {0}
      BY ProofAssumption DEF IInv, TypeOK
    <3>4. Row[1] = Root(proof.rows)
      BY <3>2, <3>3, RowOfRoot DEF Row
    <3> QED BY <1>1, <3>1, <3>2, <3>4 DEF IInv, Entailed
  <2> QED BY <1>1, <1>3, <2>1, ReturnKeeps DEF Answers
<1> QED BY <1>2, <1>3 DEF Finish

-----------------------------------------------------------------------------

\* Every step keeps the invariant.
THEOREM Invariant == Spec => []IInv
<1>1. Init => IInv
  BY Initially
<1>2. IInv /\ [Next]_vars => IInv'
  <2> SUFFICES ASSUME IInv, [Next]_vars PROVE IInv'
    OBVIOUS
  <2>1. CASE Next
    BY <2>1, CheckFieldsKeeps, LongerKeeps, HashWithLeftKeeps, SkipPromotedKeeps, ClimbKeeps,
       HashWithRightKeeps, FinishKeeps DEF Next
  <2>2. CASE UNCHANGED vars
    BY <2>2 DEF vars, IInv, TypeOK, InRow, Climbing, SizeOfLog, Row, LeafOfLog, Entailed,
                EntailedBelow, AcceptsOnlyTheLeaf
  <2> QED BY <2>1, <2>2
<1> QED BY <1>1, <1>2, PTL DEF Spec

\* The cursor of the walk never leaves the tree of the stated size, up to the
\* largest size both verifiers parse: the while loops of verify_inclusion_proof
\* and the halvings of verifyInclusionProof keep fn at or below sn.
THEOREM TypeCorrect == Spec => []TypeOK
<1>1. IInv => TypeOK
  BY DEF IInv
<1> QED BY <1>1, Invariant, PTL

\* verify_inclusion_proof accepts, against a signed head, only the leaf the log
\* holds at the stated index: for every tree, index and path.
THEOREM InclusionSound == Spec => []AcceptsOnlyTheLeaf
<1>1. IInv => AcceptsOnlyTheLeaf
  BY DEF IInv
<1> QED BY <1>1, Invariant, PTL

-----------------------------------------------------------------------------
(* The walk answers as the whole call of the other implementation *)

\* Where the other implementation starts, and the cursors it goes through.
Start == Cursor(proof.leaf_index, proof.tree_size - 1, proof.leaf_hash)
End == FoldLeft(Consume, Start, proof.audit_path)
Trail == CHOOSE w : /\ Walk(w, Start, proof.audit_path, Len(proof.audit_path))
                    /\ End = w[Len(proof.audit_path)]

Checked ==
  /\ IsSize(proof.tree_size) /\ proof.tree_size # 0
  /\ IsSize(proof.leaf_index) /\ ~(proof.leaf_index >= proof.tree_size)
  /\ proof.hashes

\* Between two nodes both stand at one cursor.  Amid a node the walk climbs one
\* row at a time, to where the shift of the other implementation jumps.
InStep ==
  /\ pc = "walk" => Standing(Trail[i - 1], fn, sn, Trail[i - 1].fr, r)
  /\ pc = "strip" =>
       Standing(Trail[i], fn \div power[Zeros(fn) + 1], sn \div power[Zeros(fn) + 1], Trail[i].fr, r)

AlikeInv ==
  /\ pc = "check" => answer = "none" /\ r = proof.leaf_hash
  /\ Climbing => Checked
  /\ InStep
  /\ AnswersAlike

\* The other implementation goes through cursors.
LEMMA Trailing ==
  ASSUME proof \in Proofs
  PROVE  /\ Len(proof.audit_path) \in Nat /\ DOMAIN proof.audit_path = 1..Len(proof.audit_path)
         /\ IsCursor(Start) /\ Standing(Start, proof.leaf_index, proof.tree_size - 1, Start.fr, proof.leaf_hash)
         /\ Walk(Trail, Start, proof.audit_path, Len(proof.audit_path))
         /\ End = Trail[Len(proof.audit_path)]
<1>1. Len(proof.audit_path) \in Nat /\ DOMAIN proof.audit_path = 1..Len(proof.audit_path)
  BY ProofAssumption
<1>2. IsCursor(Start) /\ Standing(Start, proof.leaf_index, proof.tree_size - 1, Start.fr, proof.leaf_hash)
  BY DEF IsCursor, Standing, Start, Cursor
<1>3. \E w : /\ Walk(w, Start, proof.audit_path, Len(proof.audit_path))
             /\ End = w[Len(proof.audit_path)]
  BY <1>1, FoldWalks DEF End
<1>4. /\ Walk(Trail, Start, proof.audit_path, Len(proof.audit_path))
      /\ End = Trail[Len(proof.audit_path)]
  BY <1>3 DEF Trail
<1> QED BY <1>1, <1>2, <1>4

\* Past the field checks the other implementation's answer is read off its end.
LEMMA OtherAnswer ==
  ASSUME Checked
  PROVE  InclusionAnswer(proof) = IF End.longer THEN "longer" ELSE IF End.sn # 0 THEN "shorter"
                                  ELSE IF End.sr # proof.root_hash THEN "root" ELSE "valid"
<1>1. ~(proof.tree_size < 1)
  BY SizeAssumption DEF Checked, IsSize
<1> QED BY <1>1 DEF InclusionAnswer, End, Start, Checked

\* A return is right when the answer is.
LEMMA ReturnAlike ==
  ASSUME AlikeInv, NEW a, Return(a), a = InclusionAnswer(proof)
  PROVE  AlikeInv'
BY DEF AlikeInv, Return, Climbing, InStep, AnswersAlike

\* Before the first step.
LEMMA AlikeAtFirst == ASSUME Init PROVE AlikeInv
BY DEF Init, AlikeInv, Climbing, InStep, AnswersAlike

\* The field checks refuse the same proofs for the same reasons.
LEMMA CheckFieldsAlike == ASSUME IInv, AlikeInv, CheckFields PROVE AlikeInv'
<1>1. pc = "check" /\ i = 1 /\ r = proof.leaf_hash
  BY DEF IInv, CheckFields
<1>2. CASE (~IsSize(proof.tree_size) \/ proof.tree_size = 0) /\ Return("tree_size")
  <2>1. InclusionAnswer(proof) = "tree_size"
    BY <1>2 DEF InclusionAnswer
  <2> QED BY <1>2, <2>1, ReturnAlike
<1>3. CASE /\ ~(~IsSize(proof.tree_size) \/ proof.tree_size = 0)
           /\ ~IsSize(proof.leaf_index) \/ proof.leaf_index >= proof.tree_size
           /\ Return("leaf_index")
  <2>1. ~(proof.tree_size < 1)
    BY <1>3, SizeAssumption DEF IsSize
  <2>2. InclusionAnswer(proof) = "leaf_index"
    BY <1>3, <2>1 DEF InclusionAnswer
  <2> QED BY <1>3, <2>2, ReturnAlike
<1>4. CASE /\ ~(~IsSize(proof.tree_size) \/ proof.tree_size = 0)
           /\ ~(~IsSize(proof.leaf_index) \/ proof.leaf_index >= proof.tree_size)
           /\ ~proof.hashes /\ Return("hashes")
  <2>1. ~(proof.tree_size < 1)
    BY <1>4, SizeAssumption DEF IsSize
  <2>2. InclusionAnswer(proof) = "hashes"
    BY <1>4, <2>1 DEF InclusionAnswer
  <2> QED BY <1>4, <2>2, ReturnAlike
<1>5. CASE Checked /\ Begin
  <2>1. /\ pc' = "walk" /\ proof' = proof /\ i' = 1 /\ r' = proof.leaf_hash
        /\ fn' = proof.leaf_index /\ sn' = proof.tree_size - 1
    BY <1>1, <1>5 DEF Begin
  <2>2. Trail' = Trail /\ Checked'
    BY <1>5, <2>1 DEF Trail, End, Start, Checked
  <2>3. Trail[0] = Start
    BY Trailing DEF IInv, Walk
  <2>4. InStep'
    <3>1. Standing(Trail[0], fn', sn', Trail[0].fr, r')
      BY <2>1, <2>3, Trailing DEF IInv
    <3>2. i' - 1 = 0
      BY <2>1
    <3> QED BY <2>1, <2>2, <3>1, <3>2 DEF InStep
  <2> QED BY <2>1, <2>2, <2>4 DEF AlikeInv, AnswersAlike
<1> QED BY <1>2, <1>3, <1>4, <1>5 DEF CheckFields, Checked

\* A node to spare at the top: the other implementation ends past it.
LEMMA LongerAlike == ASSUME IInv, AlikeInv, Longer PROVE AlikeInv'
<1>1. pc = "walk" /\ i =< Len(proof.audit_path) /\ sn = 0 /\ Return("longer")
  BY DEF Longer
<1>2. i \in Nat \ {0} /\ i - 1 \in 0..Len(proof.audit_path) /\ i - 1 < Len(proof.audit_path)
  BY <1>1, Trailing DEF IInv, TypeOK
<1>3. Trail[i - 1].sn = 0
  BY <1>1 DEF AlikeInv, InStep, Standing
<1>4. End.longer
  BY <1>2, <1>3, Trailing, WalkPast DEF IInv
<1>5. InclusionAnswer(proof) = "longer"
  BY <1>1, <1>4, OtherAnswer DEF AlikeInv, Climbing
<1> QED BY <1>1, <1>5, ReturnAlike

\* A hash from the left, of which the other implementation makes one jump.
LEMMA HashWithLeftAlike == ASSUME IInv, AlikeInv, HashWithLeft PROVE AlikeInv'
<1>1. /\ pc = "walk" /\ sn # 0 /\ i =< Len(proof.audit_path) /\ Turns(fn, sn)
      /\ r' = node(proof.audit_path[i], r) /\ pc' = "strip"
      /\ UNCHANGED <<proof, i, fn, sn, answer, level>>
  BY DEF HashWithLeft, OnRight, Turns
<1>2. PICK j : j = i - 1 /\ j \in Nat /\ j < Len(proof.audit_path) /\ j + 1 = i
  BY <1>1, Trailing DEF IInv, TypeOK
<1>3. Standing(Trail[j], fn, sn, Trail[j].fr, r)
  BY <1>1, <1>2 DEF AlikeInv, InStep
<1>4. Standing(Trail[j + 1], fn \div power[Zeros(fn) + 1], sn \div power[Zeros(fn) + 1],
               node(proof.audit_path[j + 1], Trail[j].fr), node(proof.audit_path[j + 1], r))
  BY <1>1, <1>2, <1>3, Trailing, WalkStands DEF IInv
<1>5. Standing(Trail[i], fn \div power[Zeros(fn) + 1], sn \div power[Zeros(fn) + 1], Trail[i].fr, r')
  BY <1>1, <1>2, <1>4 DEF Standing
<1>6. Trail' = Trail /\ (Checked' <=> Checked)
  BY <1>1 DEF Trail, End, Start, Checked
<1>7. InStep'
  BY <1>1, <1>5, <1>6 DEF InStep
<1> QED BY <1>1, <1>6, <1>7 DEF AlikeInv, Climbing, AnswersAlike

\* A row climbed alone is one halving of the jump.
LEMMA SkipPromotedAlike == ASSUME IInv, AlikeInv, SkipPromoted PROVE AlikeInv'
<1>1. /\ pc = "strip" /\ fn # 0 /\ fn % 2 = 0 /\ fn' = fn \div 2 /\ sn' = sn \div 2
      /\ UNCHANGED <<proof, pc, i, r, answer>>
  BY DEF SkipPromoted, Halve, halve
<1>2. fn \in Nat \ {0} /\ sn \in Nat
  BY <1>1, SizeAssumption DEF IInv, TypeOK
<1>3. /\ fn' \div power[Zeros(fn') + 1] = fn \div power[Zeros(fn) + 1]
      /\ sn' \div power[Zeros(fn') + 1] = sn \div power[Zeros(fn) + 1]
  BY <1>1, <1>2, RowSkipped
<1>4. Trail' = Trail /\ (Checked' <=> Checked)
  BY <1>1 DEF Trail, End, Start, Checked
<1>5. InStep'
  BY <1>1, <1>3, <1>4 DEF AlikeInv, InStep
<1> QED BY <1>1, <1>4, <1>5 DEF AlikeInv, Climbing, AnswersAlike

\* The last row of the jump.
LEMMA ClimbAlike == ASSUME IInv, AlikeInv, Climb PROVE AlikeInv'
<1>1. /\ pc = "strip" /\ ~(fn # 0 /\ fn % 2 = 0) /\ fn' = fn \div 2 /\ sn' = sn \div 2
      /\ i' = i + 1 /\ pc' = "walk" /\ UNCHANGED <<proof, r, answer>>
  BY DEF Climb, Halve, halve
<1>2. fn \in Nat \ {0} /\ i \in Nat /\ fn % 2 = 1
  BY <1>1, SizeAssumption DEF IInv, TypeOK, EntailedBelow
<1>3. power[Zeros(fn) + 1] = 2
  BY <1>2, ZerosOdd
<1>4. Standing(Trail[i], fn', sn', Trail[i].fr, r)
  BY <1>1, <1>3 DEF AlikeInv, InStep
<1>5. Trail' = Trail /\ (Checked' <=> Checked) /\ i' - 1 = i
  BY <1>1, <1>2 DEF Trail, End, Start, Checked
<1>6. InStep'
  BY <1>1, <1>4, <1>5 DEF InStep
<1> QED BY <1>1, <1>5, <1>6 DEF AlikeInv, Climbing, AnswersAlike

\* A hash from the right, and one row up in both.
LEMMA HashWithRightAlike == ASSUME IInv, AlikeInv, HashWithRight PROVE AlikeInv'
<1>1. /\ pc = "walk" /\ sn # 0 /\ i =< Len(proof.audit_path) /\ ~Turns(fn, sn)
      /\ r' = node(r, proof.audit_path[i]) /\ fn' = fn \div 2 /\ sn' = sn \div 2 /\ i' = i + 1
      /\ UNCHANGED <<proof, pc, answer>>
  BY DEF HashWithRight, OnRight, Turns, Halve, halve
<1>2. PICK j : j = i - 1 /\ j \in Nat /\ j < Len(proof.audit_path) /\ j + 1 = i /\ i' - 1 = j + 1
  BY <1>1, Trailing DEF IInv, TypeOK
<1>3. Standing(Trail[j], fn, sn, Trail[j].fr, r)
  BY <1>1, <1>2 DEF AlikeInv, InStep
<1>4. Standing(Trail[j + 1], fn \div 2, sn \div 2, Trail[j].fr, node(r, proof.audit_path[j + 1]))
  BY <1>1, <1>2, <1>3, Trailing, WalkStands DEF IInv
<1>5. Standing(Trail[j + 1], fn', sn', Trail[j + 1].fr, r')
  BY <1>1, <1>2, <1>4 DEF Standing
<1>6. Trail' = Trail /\ (Checked' <=> Checked)
  BY <1>1 DEF Trail, End, Start, Checked
<1>7. InStep'
  BY <1>1, <1>2, <1>5, <1>6 DEF InStep
<1> QED BY <1>1, <1>6, <1>7 DEF AlikeInv, Climbing, AnswersAlike

\* The path used up, both read the answer off the same cursor.
LEMMA FinishAlike == ASSUME IInv, AlikeInv, Finish PROVE AlikeInv'
<1>1. pc = "walk" /\ i > Len(proof.audit_path)
  BY DEF Finish
<1>2. i - 1 = Len(proof.audit_path)
  BY <1>1, Trailing DEF IInv, TypeOK
<1>3. Standing(End, fn, sn, End.fr, r)
  BY <1>1, <1>2, Trailing DEF IInv, AlikeInv, InStep
<1>4. InclusionAnswer(proof) = IF sn # 0 THEN "shorter" ELSE IF r # proof.root_hash THEN "root" ELSE "valid"
  BY <1>1, <1>3, OtherAnswer DEF AlikeInv, Climbing, Standing
<1> QED BY <1>4, ReturnAlike DEF Finish

\* verify_inclusion_proof and verifyInclusionProof give one answer to every
\* proof, the reason of a refusal included: the loops of the one and the shifts
\* of the other agree at every size, index and length of path.
THEOREM InclusionAnswersAlike == Spec => []AnswersAlike
<1>1. Init => IInv /\ AlikeInv
  BY Initially, AlikeAtFirst
<1>2. IInv /\ AlikeInv /\ [Next]_vars => AlikeInv'
  <2> SUFFICES ASSUME IInv, AlikeInv, [Next]_vars PROVE AlikeInv'
    OBVIOUS
  <2>1. CASE Next
    BY <2>1, CheckFieldsAlike, LongerAlike, HashWithLeftAlike, SkipPromotedAlike, ClimbAlike,
       HashWithRightAlike, FinishAlike DEF Next
  <2>2. CASE UNCHANGED vars
    <3>1. Trail' = Trail /\ (Checked' <=> Checked)
      BY <2>2 DEF vars, Trail, End, Start, Checked
    <3> QED BY <2>2, <3>1 DEF vars, AlikeInv, Climbing, InStep, AnswersAlike
  <2> QED BY <2>1, <2>2
<1>3. AlikeInv => AnswersAlike
  BY DEF AlikeInv
<1> QED BY <1>1, <1>2, <1>3, Invariant, PTL DEF Spec

\* Against a signed head verify_inclusion_proof accepts the genuine proof and
\* no other, for every tree, index and path; and the head of the rows the walk
\* climbs is the head of the recursion of RFC 6962.
THEOREM InclusionExact == Spec => []AcceptsExactlyTheGenuine
<1>1. IInv /\ AnswersAlike => AcceptsExactlyTheGenuine
  <2> SUFFICES ASSUME IInv, AnswersAlike PROVE AcceptsExactlyTheGenuine
    OBVIOUS
  <2>1. PICK leaves, n : leaves = LeavesOf(proof.rows) /\ n = Len(leaves)
    OBVIOUS
  <2>2. IsTree(proof.rows) /\ n \in Nat \ {0}
    BY <2>1, ProofAssumption DEF IInv, IsTree, LeavesOf
  <2>3. merkle_root(leaves) = Root(proof.rows)
    BY <2>1, <2>2, RootOfRows
  <2>4. ASSUME OfSignedHead(proof)
        PROVE  InclusionAnswer(proof) = "valid" <=>
                 /\ IsSize(n) /\ proof.hashes /\ proof.leaf_index \in 0..(n - 1)
                 /\ proof.leaf_hash = leaves[proof.leaf_index + 1]
                 /\ proof.audit_path = inclusion_path(leaves, proof.leaf_index)
    <3>1. proof.tree_size = n /\ proof.root_hash = merkle_root(leaves)
      BY <2>1, <2>3, <2>4 DEF OfSignedHead
    <3>2. PICK S : proof.audit_path \in Seq(S)
      BY ProofAssumption DEF IInv
    <3> QED BY <2>1, <2>2, <3>1, <3>2, InclusionExactly
  <2> QED BY <2>1, <2>3, <2>4 DEF AcceptsExactlyTheGenuine, AnswersAlike, OfSignedHead
<1> QED BY <1>1, Invariant, InclusionAnswersAlike, PTL
=============================================================================
