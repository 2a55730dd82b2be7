------------------------------- MODULE History -------------------------------
(***************************************************************************)
(* assess_history of transparency.py: several signed heads, consistency    *)
(* proofs between them and inclusion proofs of the records in question,    *)
(* judged together.  One step per head, link and inclusion, in the order   *)
(* the code takes them.  A timestamp contradiction is kept until the end:  *)
(* a later proof may still fail.                                           *)
(***************************************************************************)
EXTENDS HistoryRules

CONSTANT Bundles   \* the bundles a reviewer may hold, each with the trusted key

VARIABLES
  bundle,        \* the bundle being assessed
  pc,            \* "heads", "pairs", "links", "inclusions", "done"
  i,             \* the position of the loop
  heads,         \* what is kept of each head: its size, root and timestamp
  contradiction, \* the first inclusion whose record is later than its head, 0 if none
  verdict        \* "none" while running

vars == <<bundle, pc, i, heads, contradiction, verdict>>

Init ==
  /\ bundle \in Bundles
  /\ pc = "heads" /\ i = 1
  /\ heads = <<>> /\ contradiction = 0
  /\ verdict = "none"

Return(v) == verdict' = v /\ pc' = "done" /\ UNCHANGED <<bundle, i, heads, contradiction>>

At(step, s)   == pc = step /\ i =< Len(s)
Past(step, s) == pc = step /\ i > Len(s)
Goto(step)    == pc' = step /\ i' = 1 /\ UNCHANGED <<bundle, verdict>>
Advance       == i' = i + 1 /\ UNCHANGED <<bundle, pc, verdict>>

\* A bundle that is not an object is one without heads.
CheckBundle ==
  /\ pc = "heads" /\ bundle.heads = <<>>
  /\ Return("invalid_head")

CheckHead ==
  /\ At("heads", bundle.heads)
  /\ LET h == bundle.heads[i] IN
     IF ~HeadUsable(h, bundle.key) THEN Return("invalid_head")
     ELSE /\ heads' = Append(heads, [tree_size |-> h.tree_size, root_hash |-> h.root_hash,
                                     timestamp |-> h.timestamp])
          /\ Advance
          /\ UNCHANGED contradiction

EndHeads ==
  /\ Past("heads", bundle.heads) /\ bundle.heads # <<>>
  /\ Goto("pairs")
  /\ UNCHANGED <<heads, contradiction>>

\* Mutant: only neighbours are compared.
MutEquivocationOfNeighbours ==
  /\ pc = "pairs"
  /\ IF \E k \in 2..Len(heads) : /\ heads[k].tree_size = heads[k - 1].tree_size
                                 /\ heads[k].root_hash # heads[k - 1].root_hash
     THEN Return("equivocation")
     ELSE Goto("links") /\ UNCHANGED <<heads, contradiction>>

CheckEquivocation ==
  /\ pc = "pairs"
  /\ IF Equivocal(heads) THEN Return("equivocation")
     ELSE Goto("links") /\ UNCHANGED <<heads, contradiction>>

\* Mutant: the endpoints of a link need not be signed.
MutLinkUnsigned ==
  /\ At("links", bundle.consistency)
  /\ IF ConsistencyAnswer(bundle.consistency[i]) # "valid" THEN Return("fork")
     ELSE Advance /\ UNCHANGED <<heads, contradiction>>

CheckLink ==
  /\ At("links", bundle.consistency)
  /\ LET fault == LinkFault(heads, bundle.consistency[i]) IN
     IF fault # "none" THEN Return(fault)
     ELSE Advance /\ UNCHANGED <<heads, contradiction>>

EndLinks ==
  /\ Past("links", bundle.consistency)
  /\ Goto("inclusions")
  /\ UNCHANGED <<heads, contradiction>>

\* Mutant: a contradiction is returned where it is met.
MutContradictionAtOnce ==
  /\ At("inclusions", bundle.inclusions)
  /\ LET e == bundle.inclusions[i] IN
     IF ProofFault(heads, e) # "none" THEN Return(ProofFault(heads, e))
     ELSE IF e.record_timestamp = Loose THEN Return("invalid_proof")
     ELSE IF Contradicts(heads, e) THEN Return("timestamp_contradiction")
     ELSE Advance /\ UNCHANGED <<heads, contradiction>>

\* An absent record_timestamp is passed over, and so is null.
CheckInclusion ==
  /\ At("inclusions", bundle.inclusions)
  /\ LET e == bundle.inclusions[i] IN
     IF ProofFault(heads, e) # "none" THEN Return(ProofFault(heads, e))
     ELSE IF e.record_timestamp = Loose THEN Return("invalid_proof")
     ELSE /\ contradiction' = IF Contradicts(heads, e) /\ contradiction = 0 THEN i
                              ELSE contradiction
          /\ Advance
          /\ UNCHANGED heads

Finish ==
  /\ Past("inclusions", bundle.inclusions)
  /\ Return(IF contradiction # 0 THEN "timestamp_contradiction" ELSE "consistent")

Next == \/ CheckBundle \/ CheckHead \/ EndHeads \/ CheckEquivocation \/ CheckLink
        \/ EndLinks \/ CheckInclusion \/ Finish

Spec == Init /\ [][Next]_vars /\ WF_vars(Next)

-----------------------------------------------------------------------------
(* Properties *)

Faults == {"invalid_head", "equivocation", "unsigned_root", "fork", "invalid_proof",
           "timestamp_contradiction"}

\* What is kept of the heads are the heads walked so far, and a contradiction
\* is only remembered of an inclusion already walked.
TypeOK ==
  /\ pc \in {"heads", "pairs", "links", "inclusions", "done"}
  /\ i \in Nat
  /\ Len(heads) =< Len(bundle.heads)
  /\ \A k \in DOMAIN heads : IsSize(heads[k].tree_size) /\ heads[k].timestamp \in Int
  /\ contradiction \in 0..Len(bundle.inclusions)
  /\ verdict \in {"none", "consistent"} \cup Faults
  /\ verdict = "none" <=> pc # "done"

\* transparency.py:304-305: both implementations must name the same verdict.
SameVerdict == pc = "done" => verdict = AssessHistory(bundle)

\* transparency.ts:378-379: a record that claims a time after the timestamp of
\* a head that already includes it contradicts that head.  Here: of any head
\* of the bundle that signs the very tree the record is proved to be in.
ContradictionNamed ==
  verdict = "consistent" =>
    \A k \in DOMAIN bundle.inclusions :
      LET e == bundle.inclusions[k] IN
      IsStamp(e.record_timestamp) =>
        \A h \in HeadsFor(bundle.heads, e.proof.tree_size, e.proof.root_hash) :
          e.record_timestamp =< bundle.heads[h].timestamp
=============================================================================
