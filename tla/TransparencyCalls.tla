-------------------------- MODULE TransparencyCalls --------------------------
(***************************************************************************)
(* The proof checks of transparency.ts, each as one call: what the         *)
(* TypeScript verifier answers for a proof object.  Modules that only need *)
(* the answer of a check use these; InclusionWalk and ConsistencyWalk have *)
(* the Python verifier step by step, and the runs compare the two.         *)
(***************************************************************************)
EXTENDS MerkleTree, SequencesExt

\* A cursor: position and last position of the row reached, the hash on the
\* way to the old root and to the new one (or only one), and whether a node
\* came after the top.
Cursor(fn, sn, start) == [fn |-> fn, sn |-> sn, fr |-> start, sr |-> start, longer |-> FALSE]

\* The powers of two, by their recursion.
power[n \in Nat] == IF n = 0 THEN 1 ELSE 2 * power[n - 1]

Climbed(c, rows) == [c EXCEPT !.fn = @ \div power[rows], !.sn = @ \div power[rows]]

\* How many times while (fn is even) halves.
Zeros(n) == CHOOSE z \in 0..n : n % power[z] = 0 /\ (n \div power[z]) % 2 = 1

\* while (fn % 2 === 1): the levels at which n is odd.
Ones(n) == Zeros(n + 1)

WithLeft(c, sibling) ==
  Climbed([c EXCEPT !.fr = node(sibling, @), !.sr = node(sibling, @)], Zeros(c.fn) + 1)

WithRight(c, sibling) == Climbed([c EXCEPT !.sr = node(@, sibling)], 1)

Consume(c, sibling) ==
  IF c.longer \/ c.sn = 0 THEN [c EXCEPT !.longer = TRUE]
  ELSE IF c.fn % 2 = 1 \/ c.fn = c.sn THEN WithLeft(c, sibling) ELSE WithRight(c, sibling)

InclusionAnswer(p) ==
  LET end == FoldLeft(Consume, Cursor(p.leaf_index, p.tree_size - 1, p.leaf_hash), p.audit_path) IN
  IF ~IsSize(p.tree_size) \/ p.tree_size < 1 THEN "tree_size"
  ELSE IF ~IsSize(p.leaf_index) \/ p.leaf_index >= p.tree_size THEN "leaf_index"
  ELSE IF ~p.hashes THEN "hashes"
  ELSE IF end.longer THEN "longer"
  ELSE IF end.sn # 0 THEN "shorter"
  ELSE IF end.sr # p.root_hash THEN "root" ELSE "valid"

\* isPowerOfTwo
PowerOfTwo(n) == \E e \in 0..n : power[e] = n

ConsistencyAnswer(p) ==
  LET nodes == IF PowerOfTwo(p.old_size) THEN <<p.old_root>> \o p.consistency_path
               ELSE p.consistency_path
      start == Climbed(Cursor(p.old_size - 1, p.new_size - 1, nodes[1]), Ones(p.old_size - 1))
      end   == FoldLeft(Consume, start, Tail(nodes)) IN
  IF ~IsSize(p.old_size) \/ p.old_size < 1 THEN "old_size"
  ELSE IF ~IsSize(p.new_size) \/ p.new_size < p.old_size THEN "new_size"
  ELSE IF ~p.hashes THEN "hashes"
  ELSE IF p.old_size = p.new_size
  THEN IF p.consistency_path # <<>> THEN "unexpected"
       ELSE IF p.old_root # p.new_root THEN "differ" ELSE "valid"
  ELSE IF nodes = <<>> THEN "empty"
  ELSE IF end.longer THEN "longer"
  ELSE IF end.sn # 0 THEN "shorter"
  ELSE IF end.fr # p.old_root THEN "old_root"
  ELSE IF end.sr # p.new_root THEN "new_root" ELSE "valid"
=============================================================================
