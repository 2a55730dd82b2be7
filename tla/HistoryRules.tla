---------------------------- MODULE HistoryRules ----------------------------
(***************************************************************************)
(* What one check of a history bundle answers: a signed tree head, a       *)
(* consistency link, an inclusion entry; and, with them, what assessHistory*)
(* of transparency.ts answers for a whole bundle.                          *)
(*                                                                         *)
(* Abstractions.  A signature is the key and the bytes it was made over;   *)
(* the signed bytes are the tuple of their parts, which the fixed prefix,  *)
(* the decimal size and the 32-byte root make unambiguous.  A timestamp of *)
(* the bundle grammar is an integer.                                       *)
(***************************************************************************)
EXTENDS TransparencyCalls

CONSTANTS
  NoValue,      \* a field that is absent
  Null,         \* a field that is null
  Loose         \* a string outside YYYY-MM-DDTHH:MM:SSZ

IsStamp(t) == t \notin {NoValue, Null, Loose}

\* Mutant: the signing time is left out of what a public head commits to.
MutPreimageUntimed(h) ==
  IF h.log = "public" THEN <<"aqta-sth-public-v1", h.tree_size, h.root_hash>>
  ELSE <<"aqta-sth-v1", h.org_id, h.tree_size, h.root_hash>>

\* The bytes a head's signature is over: one prefix for each of the two logs.
Preimage(h) ==
  IF h.log = "public" THEN <<"aqta-sth-public-v1", h.tree_size, h.root_hash, h.timestamp>>
  ELSE <<"aqta-sth-v1", h.org_id, h.tree_size, h.root_hash>>

\* form: root, signature and key are well-formed and no string has a lone
\* surrogate.
HeadValid(h, key) ==
  /\ IF h.log = "public" THEN h.org_id \in {NoValue, Null} /\ h.timestamp \notin {NoValue, Null}
     ELSE h.org_id \notin {NoValue, Null}
  /\ IsSize(h.tree_size)
  /\ h.form
  /\ h.signature = [key |-> key, over |-> Preimage(h)]

\* Mutant: the grammar is not asked of a head's timestamp.
MutAnyStamp(h, key) == h.log = "public" /\ HeadValid(h, key)

\* A head a history can rest on: valid, public, and stamped in the grammar.
HeadUsable(h, key) == h.log = "public" /\ HeadValid(h, key) /\ IsStamp(h.timestamp)

Equivocal(heads) ==
  \E j, k \in DOMAIN heads :
    heads[j].tree_size = heads[k].tree_size /\ heads[j].root_hash # heads[k].root_hash

\* The positions of the heads that sign a root at a size.
HeadsFor(heads, size, root) ==
  {k \in DOMAIN heads : heads[k].tree_size = size /\ heads[k].root_hash = root}

\* The first of them, which is the one a bundle is read with.
HeadFor(heads, size, root) ==
  LET found == HeadsFor(heads, size, root)
  IN  heads[CHOOSE k \in found : \A m \in found : k =< m]

LinkFault(heads, c) ==
  IF \/ ~c.object
     \/ HeadsFor(heads, c.old_size, c.old_root) = {}
     \/ HeadsFor(heads, c.new_size, c.new_root) = {} THEN "unsigned_root"
  ELSE IF ConsistencyAnswer(c) # "valid" THEN "fork" ELSE "none"

\* The part of an inclusion check both implementations share.
ProofFault(heads, e) ==
  IF ~e.object THEN "invalid_proof"
  ELSE IF HeadsFor(heads, e.proof.tree_size, e.proof.root_hash) = {} THEN "unsigned_root"
  ELSE IF InclusionAnswer(e.proof) # "valid" THEN "invalid_proof" ELSE "none"

\* assessHistory: only an absent record_timestamp is passed over.
InclusionFault(heads, e) ==
  LET fault == ProofFault(heads, e) IN
  IF fault # "none" THEN fault
  ELSE IF e.record_timestamp \in {Null, Loose} THEN "invalid_proof" ELSE "none"

\* Mutant: a record as old as the head counts as later.
MutEqualIsLater(heads, e) ==
  /\ IsStamp(e.record_timestamp)
  /\ e.record_timestamp >= HeadFor(heads, e.proof.tree_size, e.proof.root_hash).timestamp

\* The record claims a time after the head that already includes it.
Contradicts(heads, e) ==
  /\ IsStamp(e.record_timestamp)
  /\ e.record_timestamp > HeadFor(heads, e.proof.tree_size, e.proof.root_hash).timestamp

\* The first fault along a list, "none" if there is none.
FirstFault(faults) ==
  LET at == {k \in DOMAIN faults : faults[k] # "none"}
  IN  IF at = {} THEN "none" ELSE faults[CHOOSE k \in at : \A m \in at : k =< m]

AssessHistory(b) ==
  LET links   == FirstFault([k \in DOMAIN b.consistency |-> LinkFault(b.heads, b.consistency[k])])
      entries == FirstFault([k \in DOMAIN b.inclusions |-> InclusionFault(b.heads, b.inclusions[k])])
  IN  IF b.heads = <<>> \/ \E k \in DOMAIN b.heads : ~HeadUsable(b.heads[k], b.key)
      THEN "invalid_head"
      ELSE IF Equivocal(b.heads) THEN "equivocation"
      ELSE IF links # "none" THEN links
      ELSE IF entries # "none" THEN entries
      ELSE IF \E k \in DOMAIN b.inclusions : Contradicts(b.heads, b.inclusions[k])
      THEN "timestamp_contradiction" ELSE "consistent"
=============================================================================
