--------------------------- MODULE MCConsistency ---------------------------
(***************************************************************************)
(* Consistency proofs between every two sizes of a log of up to MaxLog     *)
(* entries: the genuine one and every proof that differs from it in one    *)
(* respect, the old root taken from every fork of the log included; for    *)
(* small logs every path with every old root.  A fork replaces one entry,  *)
(* or exchanges two, and is hashed and proved as the log is.               *)
(***************************************************************************)
EXTENDS ConsistencyWalk

CONSTANTS MaxLog, MaxForged, NotInteger

Entries(n) == [k \in 1..n |-> leaf_hash(k)]
Trees == [n \in 1..MaxLog |-> RowsOver(Entries(n))]
Roots == [n \in 1..MaxLog |-> merkle_root(Entries(n))]

\* Rewritten histories of n entries.
Forks(n) ==
  {[Entries(n) EXCEPT ![k] = leaf_hash(0)] : k \in 1..n}
  \cup {[Entries(n) EXCEPT ![j] = leaf_hash(k), ![k] = leaf_hash(j)] : j \in 1..n, k \in 1..n}

ForkRoots == [n \in 1..MaxLog |-> {merkle_root(f) : f \in Forks(n)}]

Genuine ==
  {[old_size |-> s[1], new_size |-> s[2], old_root |-> Roots[s[1]], new_root |-> Roots[s[2]],
    consistency_path |-> consistency_path(Entries(s[2]), s[1]), hashes |-> TRUE,
    older |-> Trees[s[1]], newer |-> Trees[s[2]]]
     : s \in {p \in (1..MaxLog) \X (1..MaxLog) : p[1] =< p[2]}}

\* The hashes at hand: every node of the new tree, the older roots and the
\* old roots of the forks.
Hashes(p) ==
  UNION {{p.newer[k][j] : j \in DOMAIN p.newer[k]} : k \in DOMAIN p.newer}
  \cup {leaf_hash(0)} \cup {Roots[n] : n \in 1..p.new_size}
  \cup ForkRoots[p.old_size]

WithPath(p, paths) == {[p EXCEPT !.consistency_path = s] : s \in paths}

OneOff(p) ==
  LET path == p.consistency_path IN
  WithPath(p, {[path EXCEPT ![k] = h] : k \in DOMAIN path, h \in Hashes(p)}
              \cup {RemoveAt(path, k) : k \in DOMAIN path}
              \cup {InsertAt(path, k, h) : k \in 1..(Len(path) + 1), h \in Hashes(p)}
              \cup {Reverse(path), <<>>})
  \cup {[p EXCEPT !.old_size = n] : n \in 0..(p.new_size + 1)}
  \cup {[p EXCEPT !.new_size = n] : n \in 0..(2 * p.new_size)}
  \cup {[p EXCEPT !.old_root = h] : h \in Hashes(p)}
  \cup {[p EXCEPT !.new_root = h] : h \in Hashes(p)}
  \cup {[p EXCEPT !.old_size = NotInteger], [p EXCEPT !.new_size = NotInteger],
        [p EXCEPT !.hashes = FALSE], [p EXCEPT !.new_size = MaxSafeSize + 1]}

\* A fork of the old tree with the fork's own consistency path.
ForkProofs(p) ==
  {[p EXCEPT !.old_root = merkle_root(f),
             !.consistency_path = consistency_path(f \o SubSeq(Entries(p.new_size), p.old_size + 1, p.new_size), p.old_size)]
     : f \in Forks(p.old_size)}

\* Every old root with every path of up to two nodes.
Forged(p) ==
  {[q EXCEPT !.old_root = h] :
     h \in Hashes(p), q \in WithPath(p, UNION {[1..n -> Hashes(p)] : n \in 0..2})}

MCProofs ==
  Genuine \cup UNION {OneOff(p) \cup ForkProofs(p) : p \in Genuine}
  \cup UNION {Forged(p) : p \in {q \in Genuine : q.new_size =< MaxForged}}
=============================================================================
