---------------------------- MODULE MCInclusion ----------------------------
(***************************************************************************)
(* Inclusion proofs for every leaf of every log of up to MaxLog entries:   *)
(* the genuine one, every proof that differs from it in one respect as the *)
(* transparency vectors do (a node replaced, dropped, added or moved, a    *)
(* wrong leaf, index, size or root, malformed fields), and for small logs  *)
(* every path at all.                                                      *)
(***************************************************************************)
EXTENDS InclusionWalk

CONSTANTS MaxLog, MaxForged, NotInteger

Entries(n) == [k \in 1..n |-> leaf_hash(k)]
Trees == [n \in 1..MaxLog |-> RowsOver(Entries(n))]
Roots == [n \in 1..MaxLog |-> merkle_root(Entries(n))]

\* The proof the log serves for each of its leaves.
Genuine ==
  UNION {{[tree_size |-> n, leaf_index |-> index, leaf_hash |-> leaf_hash(index + 1),
           root_hash |-> Roots[n], audit_path |-> inclusion_path(Entries(n), index),
           hashes |-> TRUE, rows |-> Trees[n]] : index \in 0..(n - 1)} : n \in 1..MaxLog}

\* The hashes at hand: every node of the tree, an entry the log does not
\* hold, and the roots of shorter logs.
Hashes(p) ==
  UNION {{p.rows[k][j] : j \in DOMAIN p.rows[k]} : k \in DOMAIN p.rows}
  \cup {leaf_hash(0)} \cup {Roots[n] : n \in 1..p.tree_size}

WithPath(p, paths) == {[p EXCEPT !.audit_path = s] : s \in paths}

OneOff(p) ==
  LET path == p.audit_path IN
  WithPath(p, {[path EXCEPT ![k] = h] : k \in DOMAIN path, h \in Hashes(p)}
              \cup {RemoveAt(path, k) : k \in DOMAIN path}
              \cup {InsertAt(path, k, h) : k \in 1..(Len(path) + 1), h \in Hashes(p)}
              \cup {Reverse(path)})
  \cup {[p EXCEPT !.leaf_hash = h] : h \in Hashes(p)}
  \cup {[p EXCEPT !.leaf_index = k] : k \in 0..p.tree_size}
  \cup {[p EXCEPT !.tree_size = n] : n \in 0..(2 * p.tree_size)}
  \cup {[p EXCEPT !.root_hash = h] : h \in Hashes(p)}
  \cup {[p EXCEPT !.leaf_index = NotInteger], [p EXCEPT !.tree_size = NotInteger],
        [p EXCEPT !.hashes = FALSE], [p EXCEPT !.tree_size = MaxSafeSize + 1]}

\* Every leaf with every path, up to one node more than any tree needs.
Forged(p) ==
  {[q EXCEPT !.leaf_hash = h] :
     h \in Hashes(p), q \in WithPath(p, UNION {[1..n -> Hashes(p)] : n \in 0..3})}

MCProofs ==
  Genuine \cup UNION {OneOff(p) : p \in Genuine}
  \cup UNION {Forged(p) : p \in {q \in Genuine : q.tree_size =< MaxForged}}
=============================================================================
