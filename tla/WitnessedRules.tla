--------------------------- MODULE WitnessedRules ---------------------------
(***************************************************************************)
(* What the `witnessed` profile holds a bundle to: the checks of           *)
(* packages/verify-receipt-py/src/aqta_verify_receipt/witnessed.py, as     *)
(* operators on one call.  witnessed.ts makes the same checks in the same  *)
(* order.  Heads, consistency proofs and inclusion proofs are those of     *)
(* HistoryRules; a record is checked as the complete profile checks it.    *)
(*                                                                         *)
(* What the syntax checks of a statement, of a record item or of the       *)
(* bundle's members decide is one Boolean, `form`.  A checkpoint is        *)
(* compared with its own period, so beside the claimed time as it is       *)
(* written (timestamp) a record has the instant itself (time).             *)
(***************************************************************************)
EXTENDS Records, HistoryRules, Instants

Profile == INSTANCE CompleteRules

StatementHash(w) == Hash(Unsigned(w))

\* The public head a statement names.
witnessed_head(w) ==
  [log |-> "public", org_id |-> NoValue, tree_size |-> w.size, root_hash |-> w.root,
   timestamp |-> w.headTime, form |-> TRUE, signature |-> w.headSignature]

\* check_witness_record: integrity under the statement's own key
StatementOk(w) ==
  /\ w.form
  /\ w.seq = 1 <=> w.prev = NoHash
  /\ w.size \in 1..MaxSafeSize
  /\ w.signed

-----------------------------------------------------------------------------
(* What each step refutes, and what it finds lacking *)

InputsRefuted(r) ==
  \/ r.pinned = NoKey
  \/ r.witnessKeys # NoKeySet /\ NoKey \in r.witnessKeys
  \/ ~IsSize(r.tolerance)

HeadRefuted(r) == r.head.log # "public" \/ ~HeadValid(r.head, r.pinned)

BundleRefuted(r) == InputsRefuted(r) \/ ~r.form \/ HeadRefuted(r)

\* A statement and the one before it.
DoesNotFollow(r, k) ==
  LET w    == r.witnessed[k]
      prev == r.witnessed[k - 1]
  IN  \/ w.id # prev.id
      \/ w.seq # prev.seq + 1
      \/ w.prev # StatementHash(prev)
      \/ cmp_instant(w.at, prev.at) < 0
      \/ w.size < prev.size
      \/ w.size = prev.size /\ w.root # prev.root

StatementRefuted(r, k) ==
  LET w == r.witnessed[k] IN
  \/ ~StatementOk(w)
  \/ w.logKey # r.pinned
  \/ ~HeadValid(witnessed_head(w), r.pinned)
  \/ r.witnessKeys # NoKeySet /\ w.key \notin r.witnessKeys
  \/ k > 1 /\ DoesNotFollow(r, k)
  \/ w.size > r.head.tree_size

WitnessedSizes(r) == {r.witnessed[k].size : k \in DOMAIN r.witnessed}

LinkStrays(r, j) == ~r.links[j].object \/ r.links[j].old_size \notin WitnessedSizes(r)

LinksFrom(r, size) == {j \in DOMAIN r.links : r.links[j].old_size = size}

\* Statements of one size share the first proof that starts there.
LinkFrom(r, size) ==
  r.links[CHOOSE j \in LinksFrom(r, size) : \A m \in LinksFrom(r, size) : j =< m]

\* Mutant: the proof is verified, but not asked to start at the root that was
\* witnessed.
MutAnyOldRoot(r, k) ==
  LET w == r.witnessed[k]
      c == LinkFrom(r, w.size)
  IN  IF w.size = r.head.tree_size THEN w.root # r.head.root_hash
      ELSE /\ LinksFrom(r, w.size) # {}
           /\ \/ c.new_size # r.head.tree_size
              \/ c.new_root # r.head.root_hash
              \/ ConsistencyAnswer(c) # "valid"

JoinRefuted(r, k) ==
  LET w == r.witnessed[k]
      c == LinkFrom(r, w.size)
  IN  IF w.size = r.head.tree_size THEN w.root # r.head.root_hash
      ELSE /\ LinksFrom(r, w.size) # {}
           /\ \/ c.old_root # w.root
              \/ c.new_size # r.head.tree_size
              \/ c.new_root # r.head.root_hash
              \/ ConsistencyAnswer(c) # "valid"

JoinLacking(r, k) ==
  LET w == r.witnessed[k] IN w.size # r.head.tree_size /\ LinksFrom(r, w.size) = {}

\* check_record_of_kind
ItemOk(r, item) ==
  /\ item.form
  /\ IF item.kind = "checkpoint" THEN Profile!CheckpointOk(r, item.record)
     ELSE Profile!RecordOk(r, item)

ProofRefuted(r, item) ==
  \/ item.proof.tree_size # r.head.tree_size
  \/ item.proof.root_hash # r.head.root_hash
  \/ item.proof.leaf_hash # leaf_hash(Profile!RecordLeaf(item))
  \/ InclusionAnswer(item.proof) # "valid"

\* The statements whose tree contains the record, and the first of them.
Containing(r, item) == {k \in DOMAIN r.witnessed : r.witnessed[k].size > item.proof.leaf_index}
Inc(r, item) == CHOOSE k \in Containing(r, item) : \A m \in Containing(r, item) : k =< m

\* The claimed time is after a head that contains the record, or more than the
\* tolerance before the last one that does not.
TimeRefuted(r, item) ==
  /\ Containing(r, item) # {}
  /\ \/ cmp_instant(item.record.timestamp, r.witnessed[Inc(r, item)].at) > 0
     \/ /\ Inc(r, item) > 1
        /\ later_than(r.witnessed[Inc(r, item) - 1].at, item.record.timestamp, r.tolerance)

RecordRefuted(r, item) == ~ItemOk(r, item) \/ ProofRefuted(r, item) \/ TimeRefuted(r, item)

\* Mutant: a record in the first statement shown is believed.
MutFirstIsBelieved(r, item) == Containing(r, item) = {}

\* No statement contains the record yet, or none shows how late it came.
TimeLacking(r, item) ==
  \/ Containing(r, item) = {}
  \/ /\ Inc(r, item) = 1
     /\ later_than(r.witnessed[1].at, item.record.timestamp, r.tolerance)

-----------------------------------------------------------------------------
(* The answer, read off the whole call with no loop and no order *)

Refuted(r) ==
  \/ BundleRefuted(r)
  \/ \E k \in DOMAIN r.witnessed : StatementRefuted(r, k) \/ JoinRefuted(r, k)
  \/ \E j \in DOMAIN r.links : LinkStrays(r, j)
  \/ \E k \in DOMAIN r.records : RecordRefuted(r, r.records[k])

Lacking(r) ==
  \/ r.records = <<>>
  \/ r.witnessed # <<>> /\ r.witnessKeys = NoKeySet
  \/ \E k \in DOMAIN r.witnessed : JoinLacking(r, k)
  \/ \E k \in DOMAIN r.records : TimeLacking(r, r.records[k])
=============================================================================
