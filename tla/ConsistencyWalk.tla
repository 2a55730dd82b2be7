-------------------------- MODULE ConsistencyWalk --------------------------
(***************************************************************************)
(* verify_consistency_proof of transparency.py (RFC 6962 section 2.1.2):   *)
(* is a later tree an append-only extension of an earlier one.  One step   *)
(* per path node and per turn of the inner loops.                          *)
(***************************************************************************)
EXTENDS TransparencyCalls, MerkleGenerator

CONSTANT Proofs   \* the proofs a verifier may be handed

\* older and newer are the trees of one log at two times: the verifier never
\* reads them.  hashes says that consistency_path is an array and every hash
\* 32 bytes of lowercase hex.
ASSUME ProofAssumption ==
  \A p \in Proofs :
    /\ p.consistency_path \in Seq({p.consistency_path[k] : k \in DOMAIN p.consistency_path})
    /\ p.hashes \in BOOLEAN
    /\ IsTree(p.older) /\ IsTree(p.newer)
    /\ Len(LeavesOf(p.older)) =< Len(LeavesOf(p.newer))
    /\ \A k \in 1..Len(LeavesOf(p.older)) : LeavesOf(p.older)[k] = LeavesOf(p.newer)[k]
    /\ Len(LeavesOf(p.older)) = Len(LeavesOf(p.newer)) => p.older = p.newer

VARIABLES
  proof,        \* the proof being checked
  pc,           \* "check", "align", then "walk" and "strip" in turn, "done"
  nodes,        \* the path, with the old root in front when it is a full tree's
  i,            \* the node the loop is at
  fn, sn,       \* the last old position in its row, and the last new one
  fr, sr,       \* the hashes computed so far towards the old and the new root
  answer        \* "none", "valid", or the check that refused

\* Auxiliary: the row the walk has climbed to.  No action reads it.
VARIABLE level

vars == <<proof, pc, nodes, i, fn, sn, fr, sr, answer, level>>

\* old_size & (old_size - 1) == 0
IsPowerOfTwo(n) == \E e \in 0..n : power[e] = n

-----------------------------------------------------------------------------

Init ==
  /\ proof \in Proofs
  /\ pc = "check" /\ answer = "none"
  /\ nodes = <<>> /\ i = 1 /\ fn = 0 /\ sn = 0 /\ level = 1
  /\ fr = proof.old_root /\ sr = proof.old_root

Return(a) ==
  /\ answer' = a /\ pc' = "done"
  /\ UNCHANGED <<proof, nodes, i, fn, sn, fr, sr, level>>

Begin ==
  /\ nodes' = IF IsPowerOfTwo(proof.old_size)
              THEN <<proof.old_root>> \o proof.consistency_path ELSE proof.consistency_path
  /\ fn' = proof.old_size - 1 /\ sn' = proof.new_size - 1
  /\ pc' = "align"
  /\ UNCHANGED <<proof, i, fr, sr, answer, level>>

\* A tree that has not grown: the roots match and a path would be noise.
CheckUnchanged ==
  Return(IF proof.consistency_path # <<>> THEN "unexpected"
         ELSE IF proof.old_root # proof.new_root THEN "differ" ELSE "valid")

\* Mutant: a log may shrink.
MutShrinkTolerated ==
  /\ pc = "check"
  /\ IF ~IsSize(proof.old_size) \/ proof.old_size = 0 THEN Return("old_size")
     ELSE IF ~IsSize(proof.new_size) \/ proof.new_size = 0 THEN Return("new_size")
     ELSE IF ~proof.hashes THEN Return("hashes")
     ELSE IF proof.old_size = proof.new_size THEN CheckUnchanged
     ELSE Begin

CheckFields ==
  /\ pc = "check"
  /\ IF ~IsSize(proof.old_size) \/ proof.old_size = 0 THEN Return("old_size")
     ELSE IF ~IsSize(proof.new_size) \/ proof.new_size < proof.old_size THEN Return("new_size")
     ELSE IF ~proof.hashes THEN Return("hashes")
     ELSE IF proof.old_size = proof.new_size THEN CheckUnchanged
     ELSE Begin

Halve == fn' = halve(fn) /\ sn' = halve(sn) /\ level' = level + 1

Empty == pc = "align" /\ nodes = <<>> /\ Return("empty")

\* while fn % 2 == 1: the old tree ends with a full subtree.
Align ==
  /\ pc = "align" /\ nodes # <<>> /\ fn % 2 = 1
  /\ Halve
  /\ UNCHANGED <<proof, pc, nodes, i, fr, sr, answer>>

StartWalk ==
  /\ pc = "align" /\ nodes # <<>> /\ fn % 2 # 1
  /\ fr' = nodes[1] /\ sr' = nodes[1]
  /\ i' = 2 /\ pc' = "walk"
  /\ UNCHANGED <<proof, nodes, fn, sn, answer, level>>

Longer ==
  /\ pc = "walk" /\ i =< Len(nodes) /\ sn = 0
  /\ Return("longer")

\* Mutant: the rule of a full tree, where a last hash always has a partner.
MutFullTree == fn % 2 = 1

OnRight == fn % 2 = 1 \/ fn = sn

\* A left sibling is under both roots.
HashWithLeft ==
  /\ pc = "walk" /\ i =< Len(nodes) /\ sn # 0 /\ OnRight
  /\ fr' = node(nodes[i], fr) /\ sr' = node(nodes[i], sr)
  /\ pc' = "strip"
  /\ UNCHANGED <<proof, nodes, i, fn, sn, answer, level>>

SkipPromoted ==
  /\ pc = "strip" /\ fn # 0 /\ fn % 2 = 0
  /\ Halve
  /\ UNCHANGED <<proof, pc, nodes, i, fr, sr, answer>>

Climb ==
  /\ pc = "strip" /\ ~(fn # 0 /\ fn % 2 = 0)
  /\ Halve
  /\ i' = i + 1 /\ pc' = "walk"
  /\ UNCHANGED <<proof, nodes, fr, sr, answer>>

\* Mutant: the right sibling is hashed into the old root as well.
MutHashWithRightBoth ==
  /\ pc = "walk" /\ i =< Len(nodes) /\ sn # 0 /\ ~OnRight
  /\ fr' = node(fr, nodes[i]) /\ sr' = node(sr, nodes[i])
  /\ Halve
  /\ i' = i + 1
  /\ UNCHANGED <<proof, pc, nodes, answer>>

\* A right sibling came after the old tree: it is under the new root alone.
HashWithRight ==
  /\ pc = "walk" /\ i =< Len(nodes) /\ sn # 0 /\ ~OnRight
  /\ sr' = node(sr, nodes[i])
  /\ Halve
  /\ i' = i + 1
  /\ UNCHANGED <<proof, pc, nodes, fr, answer>>

\* Mutant: only the new root is compared.
MutOldRootUnchecked ==
  /\ pc = "walk" /\ i > Len(nodes)
  /\ Return(IF sn # 0 THEN "shorter" ELSE IF sr # proof.new_root THEN "new_root" ELSE "valid")

Finish ==
  /\ pc = "walk" /\ i > Len(nodes)
  /\ Return(IF sn # 0 THEN "shorter"
            ELSE IF fr # proof.old_root THEN "old_root"
            ELSE IF sr # proof.new_root THEN "new_root" ELSE "valid")

Next == \/ CheckFields \/ Empty \/ Align \/ StartWalk \/ Longer \/ HashWithLeft
        \/ SkipPromoted \/ Climb \/ HashWithRight \/ Finish

Spec == Init /\ [][Next]_vars /\ WF_vars(Next)

-----------------------------------------------------------------------------
(* Properties *)

Answers == {"none", "valid", "old_size", "new_size", "hashes", "unexpected", "differ",
            "empty", "longer", "shorter", "old_root", "new_root"}

\* Both positions stay inside the rows they have climbed to, the old one never
\* to the right of the new one.
TypeOK ==
  /\ pc \in {"check", "align", "walk", "strip", "done"}
  /\ i \in 1..(Len(nodes) + 1)
  /\ fn \in 0..sn /\ sn \in 0..MaxSafeSize
  /\ answer \in Answers /\ (answer = "none" <=> pc # "done")
  /\ level \in Nat \ {0}

\* The new size and root are those of a head of the log, the old size that of
\* an earlier state of it.
OfSignedHead(p) ==
  /\ p.new_size = Len(LeavesOf(p.newer)) /\ p.new_root = Root(p.newer)
  /\ p.old_size = Len(LeavesOf(p.older))

\* An accepted proof leaves one possible old root: that of the first old_size
\* entries of the new tree.  An older head over anything else was forked.
AcceptsOnlyThePrefix ==
  answer = "valid" /\ OfSignedHead(proof) => proof.old_root = Root(proof.older)

\* Between two heads of one log the walk accepts the generator's proof of the
\* true old root and nothing else, and never refuses it.
AcceptsExactlyTheGenuine ==
  pc = "done" /\ OfSignedHead(proof) =>
    (answer = "valid" <=>
       /\ IsSize(proof.new_size) /\ proof.hashes
       /\ proof.old_root = merkle_root(LeavesOf(proof.older))
       /\ proof.consistency_path = consistency_path(LeavesOf(proof.newer), proof.old_size))

\* The step-by-step walk answers as the whole call of the other implementation.
AnswersAlike == pc = "done" => answer = ConsistencyAnswer(proof)
=============================================================================
