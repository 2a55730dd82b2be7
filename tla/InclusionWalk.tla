--------------------------- MODULE InclusionWalk ---------------------------
(***************************************************************************)
(* verify_inclusion_proof of transparency.py (RFC 6962 section 2.1.1):     *)
(* is a leaf in the tree of the stated size and root, at the stated index. *)
(* One step per audit-path node, and one per turn of the inner loop that   *)
(* skips the levels where the node is a last one without a partner.        *)
(***************************************************************************)
EXTENDS TransparencyCalls, MerkleGenerator

CONSTANT Proofs   \* the proofs a verifier may be handed

\* A proof carries the fields of the JSON object.  hashes says that audit_path
\* is an array and every hash 32 bytes of lowercase hex.  rows is the tree
\* whose head the log signed: the verifier never reads it.
ASSUME ProofAssumption ==
  \A p \in Proofs : /\ p.audit_path \in Seq({p.audit_path[k] : k \in DOMAIN p.audit_path})
                    /\ p.hashes \in BOOLEAN
                    /\ IsTree(p.rows)

VARIABLES
  proof,        \* the proof being checked
  pc,           \* "check", then "walk" and "strip" in turn, "done" at the end
  i,            \* the audit-path node the loop is at
  fn, sn,       \* the node's position in its row, and the last one of the row
  r,            \* the hash computed so far
  answer        \* "none", "valid", or the check that refused

\* Auxiliary: the row the walk has climbed to.  No action reads it.
VARIABLE level

vars == <<proof, pc, i, fn, sn, r, answer, level>>

-----------------------------------------------------------------------------

Init ==
  /\ proof \in Proofs
  /\ pc = "check" /\ answer = "none"
  /\ i = 1 /\ fn = 0 /\ sn = 0 /\ level = 1
  /\ r = proof.leaf_hash

\* return ProofResult(...): valid, or the reason of the refusal.
Return(a) ==
  /\ answer' = a /\ pc' = "done"
  /\ UNCHANGED <<proof, i, fn, sn, r, level>>

Begin ==
  /\ fn' = proof.leaf_index /\ sn' = proof.tree_size - 1
  /\ pc' = "walk"
  /\ UNCHANGED <<proof, i, r, answer, level>>

\* Mutant: an index one past the last leaf.
MutIndexAtSize ==
  /\ pc = "check"
  /\ IF ~IsSize(proof.tree_size) \/ proof.tree_size = 0 THEN Return("tree_size")
     ELSE IF ~IsSize(proof.leaf_index) \/ proof.leaf_index > proof.tree_size
     THEN Return("leaf_index")
     ELSE IF ~proof.hashes THEN Return("hashes")
     ELSE Begin

CheckFields ==
  /\ pc = "check"
  /\ IF ~IsSize(proof.tree_size) \/ proof.tree_size = 0 THEN Return("tree_size")
     ELSE IF ~IsSize(proof.leaf_index) \/ proof.leaf_index >= proof.tree_size
     THEN Return("leaf_index")
     ELSE IF ~proof.hashes THEN Return("hashes")
     ELSE Begin

Halve == fn' = halve(fn) /\ sn' = halve(sn) /\ level' = level + 1

\* The loop head: a node to spare when the top is reached.
Longer ==
  /\ pc = "walk" /\ i =< Len(proof.audit_path) /\ sn = 0
  /\ Return("longer")

\* Mutant: the rule of a full tree, where a last hash always has a partner.
MutFullTree == fn % 2 = 1

\* The sibling is on the left: the position is odd, or the last of its row.
OnRight == fn % 2 = 1 \/ fn = sn

HashWithLeft ==
  /\ pc = "walk" /\ i =< Len(proof.audit_path) /\ sn # 0 /\ OnRight
  /\ r' = node(proof.audit_path[i], r)
  /\ pc' = "strip"
  /\ UNCHANGED <<proof, i, fn, sn, answer, level>>

\* while fn != 0 and fn % 2 == 0
SkipPromoted ==
  /\ pc = "strip" /\ fn # 0 /\ fn % 2 = 0
  /\ Halve
  /\ UNCHANGED <<proof, pc, i, r, answer>>

Climb ==
  /\ pc = "strip" /\ ~(fn # 0 /\ fn % 2 = 0)
  /\ Halve
  /\ i' = i + 1 /\ pc' = "walk"
  /\ UNCHANGED <<proof, r, answer>>

HashWithRight ==
  /\ pc = "walk" /\ i =< Len(proof.audit_path) /\ sn # 0 /\ ~OnRight
  /\ r' = node(r, proof.audit_path[i])
  /\ Halve
  /\ i' = i + 1
  /\ UNCHANGED <<proof, pc, answer>>

\* Mutant: a path that ends early is tolerated.
MutShortTolerated ==
  /\ pc = "walk" /\ i > Len(proof.audit_path)
  /\ Return(IF r # proof.root_hash THEN "root" ELSE "valid")

Finish ==
  /\ pc = "walk" /\ i > Len(proof.audit_path)
  /\ Return(IF sn # 0 THEN "shorter" ELSE IF r # proof.root_hash THEN "root" ELSE "valid")

Next == CheckFields \/ Longer \/ HashWithLeft \/ SkipPromoted \/ Climb \/ HashWithRight \/ Finish

Spec == Init /\ [][Next]_vars /\ WF_vars(Next)

-----------------------------------------------------------------------------
(* Properties *)

Answers == {"none", "valid", "tree_size", "leaf_index", "hashes", "longer", "shorter", "root"}

\* The cursor stays inside the row it has climbed to: the row of the tree of
\* the stated size, whose width halves with every climb.
TypeOK ==
  /\ pc \in {"check", "walk", "strip", "done"}
  /\ i \in 1..(Len(proof.audit_path) + 1)
  /\ fn \in 0..sn /\ sn \in 0..MaxSafeSize
  /\ answer \in Answers /\ (answer = "none" <=> pc # "done")
  /\ level \in Nat \ {0}

\* The stated size and root are those of a head the log signed.
OfSignedHead(p) == p.tree_size = Len(LeavesOf(p.rows)) /\ p.root_hash = Root(p.rows)

\* A proof against a signed head is accepted only for the leaf the log holds
\* at the stated index, whatever path the proof brings.
AcceptsOnlyTheLeaf ==
  answer = "valid" /\ OfSignedHead(proof)
    => proof.leaf_hash = LeavesOf(proof.rows)[proof.leaf_index + 1]

\* Against a signed head the walk accepts the proof the generator makes and no
\* other: no second leaf, no second path, and never a refusal of the genuine.
\* The head is the same whether the tree is built by rows, as the walk climbs
\* it, or by the recursion of RFC 6962, as the generator does.
AcceptsExactlyTheGenuine ==
  /\ merkle_root(LeavesOf(proof.rows)) = Root(proof.rows)
  /\ pc = "done" /\ OfSignedHead(proof) =>
       (answer = "valid" <=>
          /\ IsSize(proof.tree_size) /\ proof.hashes
          /\ proof.leaf_index \in 0..(proof.tree_size - 1)
          /\ proof.leaf_hash = LeavesOf(proof.rows)[proof.leaf_index + 1]
          /\ proof.audit_path = inclusion_path(LeavesOf(proof.rows), proof.leaf_index))

\* The step-by-step walk answers as the whole call of the other implementation.
AnswersAlike == pc = "done" => answer = InclusionAnswer(proof)
=============================================================================
