----------------------------- MODULE MCHistory -----------------------------
(***************************************************************************)
(* Bundles over four logs an issuer may have kept, as the adversary        *)
(* vectors build them: the honest log, one with an entry replaced, one     *)
(* with two entries swapped and a side log for one reviewer.  Heads of any *)
(* of them, signed at different times; consistency proofs made from one    *)
(* log and presented between the heads of others; inclusion proofs with    *)
(* the time each record claims; and every malformed part of the vectors.   *)
(***************************************************************************)
EXTENDS History, MerkleGenerator

CONSTANTS Trusted, Stranger   \* the issuer's key and another

Entries(names) == [k \in DOMAIN names |-> leaf_hash(names[k])]

Honest   == Entries(<<1, 2, 3, 4>>)
Replaced == Entries(<<1, 12, 3, 4>>)
Swapped  == Entries(<<1, 2, 4, 3>>)
Side     == Entries(<<11, 2, 3, 4>>)
Logs     == {Honest, Replaced, Swapped, Side}

ShownLogs == {SubSeq(log, 1, n) : log \in Logs, n \in 1..4}

\* Every log the issuer signed a head of, with its root.
Signed == {[log |-> p, root |-> merkle_root(p)] : p \in ShownLogs}
RootOf(p) == (CHOOSE s \in Signed : s.log = p).root

\* The log a signed size and root are of.
LogOf(size, root) == (CHOOSE s \in Signed : Len(s.log) = size /\ s.root = root).log

-----------------------------------------------------------------------------
(* The issuer's heads *)

Stamped(h) == [h EXCEPT !.signature = [key |-> Trusted, over |-> Preimage(h)]]

SignedHead(log, minute) ==
  Stamped([log |-> "public", org_id |-> NoValue, tree_size |-> Len(log), root_hash |-> RootOf(log),
           timestamp |-> minute, form |-> TRUE, signature |-> Null])

\* Entry k is submitted at minute k and heads are signed from then on.
Minutes(log) == {Len(log), Len(log) + 1}
Issued == UNION {{SignedHead(p, t) : t \in Minutes(p)} : p \in ShownLogs}

OrgHead(log) == Stamped([SignedHead(log, NoValue) EXCEPT !.log = "org", !.org_id = "org-a"])

\* What a reviewer may be handed in place of a head of the public log.
Reshaped ==
  LET h == SignedHead(Honest, 4)
      o == OrgHead(Honest) IN
  {o, [o EXCEPT !.log = "public"], [o EXCEPT !.log = "public", !.org_id = NoValue],
   [o EXCEPT !.log = "public", !.org_id = NoValue, !.timestamp = 4],
   [h EXCEPT !.org_id = "org-a"], [h EXCEPT !.org_id = Null], [h EXCEPT !.log = "org", !.org_id = "org-a"],
   [h EXCEPT !.timestamp = 9], [h EXCEPT !.timestamp = NoValue],
   [h EXCEPT !.root_hash = RootOf(Replaced)], [h EXCEPT !.tree_size = 3],
   [h EXCEPT !.tree_size = Loose], [h EXCEPT !.form = FALSE],
   [h EXCEPT !.signature = [key |-> Stranger, over |-> Preimage(h)]],
   SignedHead(Honest, Loose)}

-----------------------------------------------------------------------------
(* Links and inclusions *)

Link(log, old, oldroot) ==
  [object |-> TRUE, old_size |-> old, new_size |-> Len(log), old_root |-> oldroot,
   new_root |-> RootOf(log), consistency_path |-> consistency_path(log, old), hashes |-> TRUE]

\* A proof made from each of the logs, from each older size, presented
\* for each of the older roots.
Links ==
  {Link(log, Len(p), RootOf(p)) :
     log \in {Honest, Swapped, Side}, p \in {q \in ShownLogs : Len(q) \in {2, 3}}}
  \cup {Link(p, Len(p), RootOf(p)) : p \in {Honest, Replaced}}

OddLinks ==
  LET l == Link(Honest, 2, RootOf(SubSeq(Honest, 1, 2))) IN
  {[l EXCEPT !.object = FALSE], [l EXCEPT !.hashes = FALSE], [l EXCEPT !.old_size = Loose],
   [l EXCEPT !.consistency_path = Append(@, leaf_hash(1))],
   [l EXCEPT !.consistency_path = Tail(@)]}

Inclusion(log, index, claims) ==
  [object |-> TRUE,
   proof |-> [tree_size |-> Len(log), leaf_index |-> index, leaf_hash |-> log[index + 1],
              root_hash |-> RootOf(log), audit_path |-> inclusion_path(log, index), hashes |-> TRUE],
   record_timestamp |-> claims]

Inclusions ==
  {Inclusion(log, index, claims) :
     log \in {Honest, Swapped}, index \in {1, 2}, claims \in {NoValue, 1, 4, 5, 6}}
  \cup {Inclusion(SubSeq(Honest, 1, 2), 1, claims) : claims \in {1, 2, 3}}

OddInclusions ==
  LET e == Inclusion(Honest, 1, 1) IN
  {[e EXCEPT !.object = FALSE], [e EXCEPT !.record_timestamp = Loose],
   [e EXCEPT !.proof.hashes = FALSE], [e EXCEPT !.proof.leaf_hash = leaf_hash(12)],
   [e EXCEPT !.proof.leaf_index = 2], [e EXCEPT !.proof.audit_path = Tail(@)]}

-----------------------------------------------------------------------------
(* Bundles *)

Bundle(hs, links, entries) ==
  [key |-> Trusted, heads |-> hs, consistency |-> links, inclusions |-> entries]

UpTo1(S) == {<<>>} \cup {<<x>> : x \in S}

\* A pinned head, and a later head of any log.
Pinned == {SignedHead(SubSeq(log, 1, n), n) : log \in {Honest, Side}, n \in {2, 3}}
Later  == {SignedHead(log, 5) : log \in Logs}

HeadBundles ==
  {Bundle(<<h>>, <<>>, <<>>) : h \in Issued \cup Reshaped}
  \cup {Bundle(<<SignedHead(Honest, 4), h>>, <<>>, <<>>) : h \in Issued \cup Reshaped}
  \cup {Bundle(<<h, g, f>>, <<>>, <<>>) : h \in Later, g \in Pinned, f \in Later}
  \cup {Bundle(<<>>, <<>>, <<>>)}

LinkBundles ==
  {Bundle(<<h, g>>, <<l>>, <<>>) : h \in Pinned, g \in Later, l \in Links \cup OddLinks}
  \cup {Bundle(<<h, f, g>>, <<l, m>>, <<>>) :
          h \in {SignedHead(SubSeq(Honest, 1, 2), 2)}, f \in {SignedHead(SubSeq(Honest, 1, 3), 3)},
          g \in Later, l \in Links, m \in Links}

InclusionBundles ==
  {Bundle(<<h, g>>, <<Link(Honest, 2, RootOf(SubSeq(Honest, 1, 2)))>>, <<d>> \o s) :
     h \in {SignedHead(SubSeq(Honest, 1, 2), 2)}, g \in {SignedHead(Honest, 4), SignedHead(Honest, 5)},
     d \in Inclusions \cup OddInclusions, s \in UpTo1(Inclusions \cup OddInclusions)}
  \cup {Bundle(<<h>>, <<>>, <<d>>) : h \in Issued, d \in Inclusions \cup OddInclusions}

MCBundles == HeadBundles \cup LinkBundles \cup InclusionBundles

\* One record whose record_timestamp is null.
NullBundles == {Bundle(<<SignedHead(Honest, 4)>>, <<>>, <<Inclusion(Honest, 1, Null)>>)}

\* One tree signed twice.
TwiceSigned ==
  {Bundle(hs, <<>>, <<Inclusion(Honest, 1, claims)>>) :
     hs \in {<<SignedHead(Honest, 4), SignedHead(Honest, 5)>>, <<SignedHead(Honest, 5), SignedHead(Honest, 4)>>},
     claims \in {4, 5}}

-----------------------------------------------------------------------------
(* Properties *)

\* No head is taken for one the issuer did not sign for the public log at that
\* time: not another log's head, nor one with a timestamp put in its place.
HeadsAreSigned ==
  \A k \in DOMAIN heads :
    \E h \in Issued : heads[k] = [tree_size |-> h.tree_size, root_hash |-> h.root_hash,
                                  timestamp |-> h.timestamp]

\* The log behind a head of the bundle and the record of an inclusion proof.
HeadLog(h) == LogOf(h.tree_size, h.root_hash)
IsIn(e, log) == log[e.proof.leaf_index + 1] = e.proof.leaf_hash

\* A consistent bundle tells one history: heads of one size are of one log,
\* each link is from a log to an extension of it, and each record is at its
\* place in the log of its head and so in every log linked after it.
OneHistory ==
  verdict = "consistent" =>
    /\ \A j, k \in DOMAIN bundle.heads :
         bundle.heads[j].tree_size = bundle.heads[k].tree_size =>
           HeadLog(bundle.heads[j]) = HeadLog(bundle.heads[k])
    /\ \A k \in DOMAIN bundle.consistency :
         LET c == bundle.consistency[k] IN
         /\ IsPrefix(LogOf(c.old_size, c.old_root), LogOf(c.new_size, c.new_root))
         /\ {c.old_size, c.new_size} \subseteq {bundle.heads[j].tree_size : j \in DOMAIN bundle.heads}
    /\ \A k \in DOMAIN bundle.inclusions :
         LET e == bundle.inclusions[k]
             first == LogOf(e.proof.tree_size, e.proof.root_hash) IN
         /\ IsIn(e, first)
         /\ \A j \in DOMAIN bundle.consistency :
              LET c == bundle.consistency[j] IN
              LogOf(c.old_size, c.old_root) = first => IsIn(e, LogOf(c.new_size, c.new_root))

\* The issuer kept one log, and each record says it was made no later than it
\* was submitted, which is no later than any head that includes it.
HonestBundle ==
  /\ bundle.heads # <<>>
  /\ \A k \in DOMAIN bundle.heads : bundle.heads[k] \in Issued
  /\ \A k \in DOMAIN bundle.heads : IsPrefix(HeadLog(bundle.heads[k]), Honest)
  /\ \A k \in DOMAIN bundle.consistency :
       LET c == bundle.consistency[k] IN
       /\ HeadsFor(bundle.heads, c.new_size, c.new_root) # {}
       /\ HeadsFor(bundle.heads, c.old_size, c.old_root) # {}
       /\ c = Link(SubSeq(Honest, 1, c.new_size), c.old_size, c.old_root)
  /\ \A k \in DOMAIN bundle.inclusions :
       LET e == bundle.inclusions[k] IN
       /\ HeadsFor(bundle.heads, e.proof.tree_size, e.proof.root_hash) # {}
       /\ e = Inclusion(SubSeq(Honest, 1, e.proof.tree_size), e.proof.leaf_index, e.record_timestamp)
       /\ \/ e.record_timestamp = NoValue
          \/ e.record_timestamp \in Int /\ e.record_timestamp =< e.proof.tree_size

\* transparency.py:308-310: an honest log is never accused, although a record
\* may be older than heads that do not include it yet (lag is not backdating).
HonestNotAccused == pc = "done" /\ HonestBundle => verdict = "consistent"
=============================================================================
