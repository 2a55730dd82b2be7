--------------------------- MODULE MerkleGenerator ---------------------------
(***************************************************************************)
(* The recursive definitions of RFC 6962 section 2.1 as the repository's   *)
(* vector generator writes them: the root of a list of leaf hashes, the    *)
(* audit path of a leaf, and the consistency path between two sizes.  A    *)
(* log that serves proofs is taken to compute these.  Each recurses on the *)
(* slice leaves[lo:hi] of one list, written lo..hi - 1 as in Python.       *)
(***************************************************************************)
EXTENDS MerkleTree, SequencesExt

empty_hash == <<>>

\* The largest power of two below n, for n > 1.
k_below(n) ==
  LET k[m \in 1..n] == IF m =< 2 THEN 1 ELSE 2 * k[(m + 1) \div 2] IN k[n]

\* Where the slice lo:hi is cut in two.
Cut(lo, hi) == lo + k_below(hi - lo)

\* The slices of leaves that are not empty.
Slices(leaves) == {s \in (0..Len(leaves)) \X (0..Len(leaves)) : s[1] < s[2]}

\* merkle_root of every slice of leaves.
SliceRoot(leaves) ==
  LET root[s \in Slices(leaves)] ==
        LET lo == s[1]
            hi == s[2]
        IN  IF hi - lo = 1 THEN leaves[hi]
            ELSE node(root[<<lo, Cut(lo, hi)>>], root[<<Cut(lo, hi), hi>>])
  IN  root

merkle_root(leaves) ==
  IF leaves = <<>> THEN empty_hash ELSE SliceRoot(leaves)[<<0, Len(leaves)>>]

inclusion_path(leaves, index) ==
  LET root == SliceRoot(leaves)
      path[s \in Slices(leaves)] ==
        LET lo == s[1]
            hi == s[2]
            k  == Cut(lo, hi)
        IN  IF hi - lo = 1 THEN <<>>
            ELSE IF index < k THEN Append(path[<<lo, k>>], root[<<k, hi>>])
            ELSE Append(path[<<k, hi>>], root[<<lo, k>>])
  IN  path[<<0, Len(leaves)>>]

\* The slices that have the last old leaf.
Around(leaves, old) == {s \in Slices(leaves) : s[1] < old /\ old =< s[2]}

\* From the first old leaves to all of them.  The subtree that starts at 0
\* needs no node of its own: the verifier holds the old root.
consistency_path(leaves, old) ==
  LET root == SliceRoot(leaves)
      path[s \in Around(leaves, old)] ==
        LET lo == s[1]
            hi == s[2]
            k  == Cut(lo, hi)
        IN  IF old = hi THEN IF lo = 0 THEN <<>> ELSE <<root[<<lo, hi>>]>>
            ELSE IF old =< k THEN Append(path[<<lo, k>>], root[<<k, hi>>])
            ELSE Append(path[<<k, hi>>], root[<<lo, k>>])
  IN  path[<<0, Len(leaves)>>]

\* The rows of the tree over a list of leaf hashes.
RowsOver(leaves) ==
  LET width(k) == (Len(leaves) + 2^(k - 1) - 1) \div 2^(k - 1)
      row[k \in 1..(Len(leaves) + 1)] == IF k = 1 THEN leaves ELSE RowAbove(row[k - 1])
  IN  [k \in 1..(CHOOSE t \in 1..Len(leaves) : width(t) = 1) |-> row[k]]
=============================================================================
