--------------------------- MODULE CompleteRules ---------------------------
(***************************************************************************)
(* What the `complete` profile holds a bundle to: the checks of            *)
(* packages/verify-receipt-py/src/aqta_verify_receipt/complete.py, as      *)
(* operators on one call.  Complete runs them in the order of the code;    *)
(* Issuance asks what they answer about bundles that come from a running   *)
(* issuer.  What the field-by-field syntax checks of a record decide is    *)
(* one Boolean, `form`; whether its Ed25519 signature verifies under the   *)
(* key it embeds is another, `signed`.                                     *)
(***************************************************************************)
EXTENDS Records

-----------------------------------------------------------------------------
(* Hashes and leaves *)

CheckpointHash(cp)   == Hash(Unsigned(cp))
ExecutionHash(entry) == Hash(Unsigned(entry))

\* Tag, length, payload and signature: one leaf per (kind, record).
RecordLeaf(item) == <<item.kind, item.record>>
LeafKind(l)      == l[1]
LeafRecord(l)    == l[2]

\* The leaves are sorted before they are hashed: the hash is of their set.
RecordsHash(leaves) == Hash(leaves)

-----------------------------------------------------------------------------
(* One record at a time *)

\* check_checkpoint_record
CheckpointOk(r, cp) ==
  /\ cp.form
  /\ cp.seq = 1 <=> cp.prev = NoHash
  /\ cp.start < cp.end
  /\ cp.end =< cp.time
  /\ cp.count =< cp.total
  /\ cp.seq = 1 => cp.total = cp.count
  /\ cp.count = 0 => cp.hash = RecordsHash({})
  /\ cp.key = r.pinned
  /\ cp.signed

\* check_record_of_kind, for the two kinds this profile counts
RecordOk(r, item) ==
  /\ item.kind \in {"action", "use"}
  /\ item.record.form
  /\ item.record.key = r.pinned
  /\ item.record.signed

\* check_execution_record: integrity under the entry's own key
ExecutionOk(e) ==
  /\ e.form
  /\ e.seq = 1 <=> e.prev = NoHash
  /\ e.result \in {"EXECUTED", "REFUSED"}
  /\ e.result = "EXECUTED" =>
       /\ e.actionId # "" /\ e.useId # ""
       /\ e.actionLeaf # NoHash /\ e.useLeaf # NoHash /\ e.args # ""
  /\ e.actionLeaf = NoHash => e.actionId = ""
  /\ e.useLeaf = NoHash => e.useId = ""
  /\ e.signed

-----------------------------------------------------------------------------
(* What each step of the profile refutes, and what it finds lacking *)

InputsRefuted(r) ==
  \/ r.pinned = NoKey
  \/ r.from >= r.to
  \/ ~r.form            \* step 2: a member missing, unknown or mistyped

\* Mutant: the periods of a chain need not be contiguous.
MutGapAllowed(r, k) ==
  LET cp == r.checkpoints[k] IN
  \/ ~CheckpointOk(r, cp)
  \/ cp.org # r.org
  \/ /\ k > 1
     /\ LET prev == r.checkpoints[k - 1] IN
        \/ cp.seq # prev.seq + 1
        \/ cp.prev # CheckpointHash(prev)
        \/ cp.total # prev.total + cp.count

CheckpointRefuted(r, k) ==
  LET cp == r.checkpoints[k] IN
  \/ ~CheckpointOk(r, cp)
  \/ cp.org # r.org
  \/ /\ k > 1
     /\ LET prev == r.checkpoints[k - 1] IN
        \/ cp.seq # prev.seq + 1
        \/ cp.prev # CheckpointHash(prev)
        \/ cp.start # prev.end
        \/ cp.total # prev.total + cp.count

FirstStart(r) == r.checkpoints[1].start
LastEnd(r)    == r.checkpoints[Len(r.checkpoints)].end

CoverageLacking(r) ==
  \/ r.checkpoints = <<>>
  \/ FirstStart(r) > r.from
  \/ LastEnd(r) < r.to

RecordRefuted(r, k, leaves) ==
  LET item == r.records[k] IN
  \/ ~RecordOk(r, item)
  \/ item.record.org # r.org
  \/ RecordLeaf(item) \in leaves

\* Mutant: a period holds its own end.
MutPeriodClosed(cp, t) == cp.start =< t /\ t =< cp.end

\* A period is half open.
InPeriod(cp, t) == cp.start =< t /\ t < cp.end

Slots(r, t) == {j \in DOMAIN r.checkpoints : InPeriod(r.checkpoints[j], t)}

\* The first checkpoint whose period holds t.
Slot(r, t) == CHOOSE j \in Slots(r, t) : \A k \in Slots(r, t) : j =< k

CountLacking(cp, leaves) == Cardinality(leaves) < cp.count

CountRefuted(cp, leaves) ==
  /\ ~CountLacking(cp, leaves)
  /\ Cardinality(leaves) > cp.count \/ RecordsHash(leaves) # cp.hash

\* Mutant: an entry may name an action the bundle does not carry.
MutLinkOptional(e, leaves) ==
  /\ e.actionLeaf \in leaves
  /\ \/ LeafKind(e.actionLeaf) # "action"
     \/ LET rec == LeafRecord(e.actionLeaf) IN
        \/ rec.id # e.actionId
        \/ e.args # "" /\ e.args # rec.args
        \/ e.result = "EXECUTED" /\ rec.outcome # "ALLOWED"

ActionRefuted(e, leaves) ==
  \/ e.actionLeaf \notin leaves
  \/ LeafKind(e.actionLeaf) # "action"
  \/ LET rec == LeafRecord(e.actionLeaf) IN
     \/ rec.id # e.actionId
     \/ e.args # "" /\ e.args # rec.args
     \/ e.result = "EXECUTED" /\ rec.outcome # "ALLOWED"

UseRefuted(e, leaves) ==
  \/ e.useLeaf \notin leaves
  \/ LeafKind(e.useLeaf) # "use"
  \/ LET use == LeafRecord(e.useLeaf) IN
     \/ use.id # e.useId
     \/ use.actionId # e.actionId

ExecutionRefuted(r, k, leaves, done) ==
  LET e == r.executions[k] IN
  \/ ~ExecutionOk(e)
  \/ e.org # r.org
  \/ /\ k > 1
     /\ LET prev == r.executions[k - 1] IN
        \/ e.executor # r.executions[1].executor
        \/ e.key # r.executions[1].key
        \/ e.seq # prev.seq + 1
        \/ e.prev # ExecutionHash(prev)
  \/ r.executorKeys # NoKeySet /\ e.key \notin r.executorKeys
  \/ e.actionLeaf # NoHash /\ ActionRefuted(e, leaves)
  \/ e.useLeaf # NoHash /\ UseRefuted(e, leaves)
  \/ e.result = "EXECUTED" /\ e.actionId \in done

ExecutionOutside(r, e) ==
  /\ r.checkpoints # <<>>
  /\ e.time < FirstStart(r) \/ e.time >= LastEnd(r)

-----------------------------------------------------------------------------
(* The answer, read off the whole call with no loop and no order *)

Leaves(r) == {RecordLeaf(r.records[k]) : k \in DOMAIN r.records}

LeavesIn(r, cp) == {l \in Leaves(r) : InPeriod(cp, LeafRecord(l).time)}

ExecutedBefore(r, k) ==
  {r.executions[m].actionId :
     m \in {n \in 1..(k - 1) : r.executions[n].result = "EXECUTED"}}

Refuted(r) ==
  \/ InputsRefuted(r)
  \/ \E k \in DOMAIN r.checkpoints : CheckpointRefuted(r, k)
  \/ \E k \in DOMAIN r.records :
       RecordRefuted(r, k, {RecordLeaf(r.records[m]) : m \in 1..(k - 1)})
  \/ \E k \in DOMAIN r.checkpoints :
       CountRefuted(r.checkpoints[k], LeavesIn(r, r.checkpoints[k]))
  \/ \E k \in DOMAIN r.executions :
       ExecutionRefuted(r, k, Leaves(r), ExecutedBefore(r, k))

Lacking(r) ==
  \/ CoverageLacking(r)
  \/ \E l \in Leaves(r) : Slots(r, LeafRecord(l).time) = {}
  \/ \E k \in DOMAIN r.checkpoints :
       CountLacking(r.checkpoints[k], LeavesIn(r, r.checkpoints[k]))
  \/ r.executions # <<>> /\ r.executorKeys = NoKeySet
  \/ \E k \in DOMAIN r.executions : ExecutionOutside(r, r.executions[k])
=============================================================================
