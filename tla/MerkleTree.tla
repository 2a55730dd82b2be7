----------------------------- MODULE MerkleTree -----------------------------
(***************************************************************************)
(* The RFC 6962 tree whose root a signed tree head carries.                *)
(*                                                                         *)
(* SHA-256 is abstracted to a free term algebra: a leaf hash is <<entry>>, *)
(* an interior node is <<left, right>>, so hashes are equal exactly when   *)
(* their inputs are, and the 0x00 and 0x01 prefixes show as the length of  *)
(* the tuple.                                                              *)
(*                                                                         *)
(* The tree is given row by row: the leaves first, and above each row the  *)
(* row of its pairs, where a last hash without a partner is promoted as it *)
(* is.  No recursion is needed, and the rows are what the proof walks      *)
(* climb.  MerkleGenerator has the recursive definition of the RFC, and    *)
(* the runs compare the two.                                               *)
(***************************************************************************)
EXTENDS Integers, Sequences

\* _MAX_SAFE_SIZE: 2^53 - 1, the largest integer both verifiers parse exactly.
CONSTANT MaxSafeSize

ASSUME SizeAssumption == MaxSafeSize \in Nat

\* What is not an integer is in no interval.  A size is a number here, however
\* it is written; 4.0 is none to Python and is 4 to JavaScript.
IsSize(n) == n \in 0..MaxSafeSize

\* Mutant: the halving of a bitwise operator, with integers of two bits.
MutHalveTruncates(n) == (n % 4) \div 2

halve(n) == n \div 2

leaf_hash(entry) == <<entry>>
node(left, right) == <<left, right>>

\* The row above: pairs, and a promoted last hash when the row is odd.
RowAbove(row) ==
  [j \in 1..((Len(row) + 1) \div 2) |->
     IF 2 * j =< Len(row) THEN node(row[2 * j - 1], row[2 * j]) ELSE row[2 * j - 1]]

\* rows is the tree over the leaves rows[1]: only the top row has one hash.
IsTree(rows) ==
  /\ Len(rows) \in Nat \ {0}
  /\ Len(rows[1]) \in Nat \ {0}
  /\ \A k \in 1..(Len(rows) - 1) : rows[k + 1] = RowAbove(rows[k]) /\ Len(rows[k]) \in Nat \ {0, 1}
  /\ Len(rows[Len(rows)]) = 1

\* The rows, continued above the root by the root itself.
RowAt(rows, k) == rows[IF k =< Len(rows) THEN k ELSE Len(rows)]

LeavesOf(rows) == rows[1]
Root(rows) == rows[Len(rows)][1]
=============================================================================
