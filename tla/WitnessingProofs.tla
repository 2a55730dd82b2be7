-------------------------- MODULE WitnessingProofs --------------------------
(***************************************************************************)
(* Proofs about the witnessed profile in its world, for every horizon,     *)
(* tolerance, number of statements and style of writing times: what is     *)
(* published is ordered as it happened; whatever an operator shows, edited *)
(* or not, the loops of verify_witnessed answer what the order-free rule   *)
(* answers; a PASS is of one log, and hides no record that came late; and  *)
(* an issuer whose records were logged in time is not accused.             *)
(*                                                                         *)
(* After the inductive invariant come the facts that the last three rest   *)
(* on: the lists and recursions of a bundle, how written times compare,    *)
(* what a leaf, a root and a signature commit to, what no edit can change, *)
(* and what an honest log shows.                                           *)
(***************************************************************************)
EXTENDS Witnessing, MerkleLemmas, TLAPS, FiniteSetTheorems, SequenceTheorems

-----------------------------------------------------------------------------
(* Arrays *)

\* An array has positions 1 to its length, and is empty when it has none.
LEMMA ArrayFacts ==
  ASSUME NEW s, IsArray(s)
  PROVE  /\ Len(s) \in Nat /\ DOMAIN s = 1..Len(s)
         /\ s = <<>> <=> Len(s) = 0
<1>1. Len(s) \in Nat /\ DOMAIN s = 1..Len(s)
  BY DEF IsArray
<1>2. s \in Seq({s[k] : k \in 1..Len(s)})
  <2> DEFINE S == {s[k] : k \in 1..Len(s)}
  <2>1. s \in [1..Len(s) -> S]
    BY DEF IsArray
  <2>2. Len(s) \in Nat
    BY <1>1
  <2> QED BY <2>1, <2>2, SeqDef
<1> QED BY <1>1, <1>2, EmptySeq, LenProperties

\* A function on 1..n is an array of that length.
LEMMA FunctionArray ==
  ASSUME NEW s, NEW n \in Nat, s = [k \in 1..n |-> s[k]]
  PROVE  IsArray(s) /\ Len(s) = n
<1>1. Len(s) = n
  OBVIOUS
<1> QED BY <1>1 DEF IsArray

\* The ascending list of a finite set is an array.
LEMMA AscendingArray ==
  ASSUME NEW S, IsFiniteSet(S)
  PROVE  IsArray(Ascending(S)) /\ Len(Ascending(S)) = Cardinality(S)
<1> DEFINE n == Cardinality(S)
           s == Ascending(S)
<1>1. n \in Nat
  BY FS_CardinalityType
<1>2. s = [k \in 1..n |-> s[k]]
  <2> DEFINE Nth(k) == CHOOSE x \in S : Cardinality({y \in S : y =< x}) = k
             F == [k \in 1..n |-> Nth(k)]
  <2>1. s = F
    BY DEF Ascending
  <2> HIDE DEF Nth, s
  <2> QED BY <2>1
<1> QED BY <1>1, <1>2, FunctionArray

\* One more element at the end, or another last one.
LEMMA AppendArray ==
  ASSUME NEW s, IsArray(s), NEW e
  PROVE  /\ IsArray(Append(s, e)) /\ Len(Append(s, e)) = Len(s) + 1
         /\ \A k \in 1..Len(s) : Append(s, e)[k] = s[k]
         /\ Append(s, e)[Len(s) + 1] = e
<1> DEFINE S == {s[k] : k \in 1..Len(s)} \cup {e}
<1>1. Len(s) \in Nat /\ s \in [1..Len(s) -> S]
  BY DEF IsArray
<1>2. s \in Seq(S) /\ e \in S
  BY <1>1, SeqDef
<1>3. /\ Append(s, e) \in Seq(S) /\ Len(Append(s, e)) = Len(s) + 1
      /\ \A k \in 1..Len(s) : Append(s, e)[k] = s[k]
      /\ Append(s, e)[Len(s) + 1] = e
  BY <1>2, AppendProperties
<1>4. Append(s, e) = [k \in 1..(Len(s) + 1) |-> Append(s, e)[k]]
  BY <1>3, LenProperties
<1> QED BY <1>1, <1>3, <1>4, FunctionArray

\* An edit of the last element keeps the length.
LEMMA EditArray ==
  ASSUME NEW s, IsArray(s), NEW e
  PROVE  IsArray(EditLast(s, e)) /\ Len(EditLast(s, e)) = Len(s)
<1> DEFINE t == EditLast(s, e)
<1>1. Len(s) \in Nat /\ t = [k \in 1..Len(s) |-> t[k]]
  BY DEF IsArray, EditLast
<1> QED BY <1>1, FunctionArray

\* The empty tuple is an array.
LEMMA NoArray == IsArray(<<>>)
<1>1. <<>> = [k \in 1..0 |-> <<>>[k]]
  OBVIOUS
<1> QED BY <1>1, FunctionArray

-----------------------------------------------------------------------------
(* Bundles *)

\* Statements are published in an array, and a log is one of entries.
LEMMA LogArray ==
  ASSUME NEW entries, NEW S, entries \in Seq(S), NEW style
  PROVE  /\ DOMAIN entries = 1..Len(entries) /\ IsFiniteSet(DOMAIN entries)
         /\ Len(entries) \in Nat /\ Len(Leaves(style, entries)) = Len(entries)
<1>1. DOMAIN entries = 1..Len(entries) /\ Len(entries) \in Nat
  BY LenProperties
<1>2. IsFiniteSet(1..Len(entries))
  BY <1>1, FS_Interval
<1>3. Len(Leaves(style, entries)) = Len(entries)
  <2> DEFINE Hashed(k) == IF entries[k] = Other THEN Foreign(Other)
                      ELSE leaf_hash(Profile!RecordLeaf(Item(style, entries[k])))
  <2>1. Leaves(style, entries) = [k \in 1..Len(entries) |-> Hashed(k)]
    BY <1>1 DEF Leaves
  <2> HIDE DEF Hashed
  <2> QED BY <1>1, <2>1
<1> QED BY <1>1, <1>2, <1>3

\* What World builds: three arrays, whatever is shown of whatever log.
LEMMA BundleArrays ==
  ASSUME NEW v, NEW S, v.target \in Seq(S), IsFiniteSet(v.shown)
  PROVE  CallOk(bundle(v))
<1> DEFINE b == bundle(v)
           leaves == Leaves(v.style, v.target)
           order == Ascending(v.shown)
           ours == Ascending({k \in DOMAIN v.target : v.target[k] # Other})
<1>1. /\ IsArray(order) /\ IsArray(ours) /\ Len(leaves) \in Nat
  <2>1. IsFiniteSet({k \in DOMAIN v.target : v.target[k] # Other})
    BY LogArray, FS_Subset
  <2> QED BY <2>1, LogArray, AscendingArray
<1>2. Len(order) \in Nat /\ DOMAIN order = 1..Len(order)
      /\ Len(ours) \in Nat /\ DOMAIN ours = 1..Len(ours)
  BY <1>1, ArrayFacts
<1>3. IsArray(b.witnessed)
  <2> DEFINE published == Statements(v.style)
             w == [n \in 1..Len(order) |-> published[order[n]]]
  <2>1. b.witnessed = w
    BY <1>2 DEF bundle
  <2> HIDE DEF published, b
  <2>2. w = [n \in 1..Len(order) |-> w[n]]
    OBVIOUS
  <2> QED BY <1>2, <2>1, <2>2, FunctionArray
<1>4. IsArray(b.links)
  <2> DEFINE statements == [n \in DOMAIN order |-> Statements(v.style)[order[n]]]
             sizes == {n \in 1..(Len(leaves) - 1) : \E k \in DOMAIN statements : statements[k].size = n}
             joins == Ascending(sizes)
             Link(n) == [object |-> TRUE, old_size |-> n, new_size |-> Len(leaves), hashes |-> TRUE,
                         old_root |-> merkle_root(SubSeq(leaves, 1, n)), new_root |-> merkle_root(leaves),
                         consistency_path |-> consistency_path(leaves, n)]
             l == [j \in 1..Len(joins) |-> Link(joins[j])]
  <2>1. IsFiniteSet(sizes)
    <3> DEFINE all == 1..(Len(leaves) - 1)
    <3>1. IsFiniteSet(all)
      BY <1>1, FS_Interval
    <3>2. sizes \subseteq all
      <4> HIDE DEF statements, leaves
      <4> QED OBVIOUS
    <3> HIDE DEF sizes, all
    <3> QED BY <3>1, <3>2, FS_Subset
  <2>2. Len(joins) \in Nat /\ DOMAIN joins = 1..Len(joins)
    BY <2>1, AscendingArray, ArrayFacts
  <2>3. b.links = cons(statements, leaves)
    BY DEF bundle
  <2>4. cons(statements, leaves) = l
    BY <2>2 DEF cons
  <2> HIDE DEF b, Link, joins
  <2>5. l = [j \in 1..Len(joins) |-> l[j]]
    OBVIOUS
  <2> QED BY <2>2, <2>3, <2>4, <2>5, FunctionArray
<1>5. IsArray(b.records)
  <2> DEFINE Shown(n) == LET item == Item(v.style, v.target[ours[n]]) IN
                         [form |-> TRUE, proof |-> proof(leaves, ours[n]),
                          kind |-> item.kind, record |-> item.record]
             r == [n \in 1..Len(ours) |-> Shown(n)]
  <2>1. b.records = r
    BY <1>2 DEF bundle
  <2> HIDE DEF b, Shown
  <2>2. r = [n \in 1..Len(ours) |-> r[n]]
    OBVIOUS
  <2> QED BY <1>2, <2>1, <2>2, FunctionArray
<1> QED BY <1>3, <1>4, <1>5 DEF CallOk

\* Every selection shows a finite part of the chain and a log.
LEMMA SelectionShape ==
  ASSUME IInv, NEW v \in Selections
  PROVE  v.target \in Seq(Logged \cup {Other}) /\ IsFiniteSet(v.shown)
<1>1. Len(chain) \in Nat /\ DOMAIN chain = 1..Len(chain) /\ IsFiniteSet(DOMAIN chain)
  <2>1. IsArray(chain)
    BY DEF IInv, ChainInv
  <2>2. Len(chain) \in Nat /\ DOMAIN chain = 1..Len(chain)
    BY <2>1, ArrayFacts
  <2> QED BY <2>2, FS_Interval
<1>2. log \in Seq(Logged \cup {Other})
      /\ \A k \in DOMAIN chain : chain[k].log \in Seq(Logged \cup {Other})
  BY DEF IInv, LoggedBy, ChainInv, HeadInv
<1>3. \A k \in DOMAIN chain : IsFiniteSet(k..Len(chain)) /\ IsFiniteSet(1..k)
  BY <1>1, FS_Interval
<1>4. IsFiniteSet(DOMAIN chain \ 2..(Len(chain) - 1))
  BY <1>1, FS_Subset
<1>5. PICK style, shown, target :
        /\ v = Selection(style, shown, target)
        /\ \/ shown = DOMAIN chain /\ target = log
           \/ \E k \in DOMAIN chain : shown = k..Len(chain) /\ target = log
           \/ \E k \in DOMAIN chain : shown = 1..k /\ target = chain[k].log
           \/ shown = DOMAIN chain \ 2..(Len(chain) - 1) /\ target = log
  BY DEF Selections, Whole
<1>6. target \in Seq(Logged \cup {Other}) /\ IsFiniteSet(shown)
  BY <1>1, <1>2, <1>3, <1>4, <1>5
<1> QED BY <1>5, <1>6 DEF Selection

\* No edit of the operator makes anything but arrays of the arrays.
LEMMA TamperedArrays ==
  ASSUME NEW v, CallOk(bundle(v)), NEW leaves, NEW t \in Tampered(bundle(v), leaves)
  PROVE  CallOk(t)
<1> DEFINE r == bundle(v)
<1>1. r = [pinned |-> r.pinned, witnessKeys |-> r.witnessKeys, tolerance |-> r.tolerance,
           form |-> r.form, head |-> r.head, witnessed |-> r.witnessed, links |-> r.links,
           records |-> r.records]
  BY DEF bundle
<1>2. IsArray(r.witnessed) /\ IsArray(r.links) /\ IsArray(r.records) /\ IsArray(<<>>)
  BY NoArray DEF CallOk
<1>3. t \in Tampered(r, leaves)
  OBVIOUS
<1> HIDE DEF r
<1>4. CASE \E w : t = [r EXCEPT !.witnessed = EditLast(@, w)]
  BY <1>1, <1>2, <1>4, EditArray DEF CallOk
<1>5. CASE \E c : t = [r EXCEPT !.links = EditLast(@, c)]
  BY <1>1, <1>2, <1>5, EditArray DEF CallOk
<1>6. CASE \E x : t = [r EXCEPT !.records = EditLast(@, x)]
  BY <1>1, <1>2, <1>6, EditArray DEF CallOk
<1>7. CASE \E h : t = [r EXCEPT !.head = h]
  BY <1>1, <1>2, <1>7 DEF CallOk
<1>8. CASE t \in {[r EXCEPT !.form = FALSE], [r EXCEPT !.tolerance = -1], [r EXCEPT !.pinned = NoKey],
                  [r EXCEPT !.pinned = Stranger], [r EXCEPT !.witnessKeys = {Authority, NoKey}],
                  [r EXCEPT !.witnessKeys = NoKeySet], [r EXCEPT !.witnessed = <<>>],
                  [r EXCEPT !.records = <<>>], [r EXCEPT !.links = <<>>]}
  BY <1>1, <1>2, <1>8 DEF CallOk
<1> QED BY <1>3, <1>4, <1>5, <1>6, <1>7, <1>8 DEF Tampered

-----------------------------------------------------------------------------
(* The loops of verify_witnessed *)

\* The arrays of a call, and the position in the one that is walked.
LEMMA Walking ==
  ASSUME VerifierInv, pc \notin {"idle", "done"}
  PROVE  /\ Len(call.witnessed) \in Nat /\ DOMAIN call.witnessed = 1..Len(call.witnessed)
         /\ Len(call.links) \in Nat /\ DOMAIN call.links = 1..Len(call.links)
         /\ Len(call.records) \in Nat /\ DOMAIN call.records = 1..Len(call.records)
         /\ call.witnessed = <<>> <=> Len(call.witnessed) = 0
         /\ call.records = <<>> <=> Len(call.records) = 0
         /\ CallOk(call) /\ SoundSoFar /\ GapsInv /\ verdict = "none"
         /\ i \in 1..(Len(Walked(pc)) + 1)
<1>1. CallOk(call) /\ SoundSoFar /\ GapsInv /\ verdict = "none" /\ i \in 1..(Len(Walked(pc)) + 1)
  BY DEF VerifierInv
<1>2. IsArray(call.witnessed) /\ IsArray(call.links) /\ IsArray(call.records)
  BY <1>1 DEF CallOk
<1> QED BY <1>1, <1>2, ArrayFacts

\* A loop that stops at a contradiction answers FAIL, which is the answer of
\* the call whatever was still to be walked.
LEMMA FailInv ==
  ASSUME VerifierInv, Fail, Refuted(call)
  PROVE  VerifierInv'
<1>1. /\ pc' = "done" /\ verdict' = "FAIL" /\ UNCHANGED <<call, i, incomplete>>
  BY DEF Fail, Return
<1>2. Rule!Answer(call)' = "FAIL"
  BY <1>1 DEF Rule!Answer
<1> QED BY <1>1, <1>2 DEF VerifierInv, Rule!Verdicts

\* What has been walked stays walked.
LEMMA Frame ==
  ASSUME UNCHANGED <<call, StatementsSeen, StraysSeen, JoinsSeen, RecordsSeen>>
  PROVE  /\ SoundSoFar /\ ~BundleRefuted(call) => SoundSoFar'
         /\ GapsInv /\ UNCHANGED incomplete => GapsInv'
<1>1. SoundSoFar /\ ~BundleRefuted(call) => SoundSoFar'
  BY DEF SoundSoFar
<1>2. GapsInv /\ UNCHANGED incomplete => GapsInv'
  BY DEF GapsInv
<1> QED BY <1>1, <1>2

\* A step that keeps the verifier walking keeps the rest of the invariant.
LEMMA StillWalking ==
  ASSUME VerifierInv, pc \notin {"idle", "done"}, UNCHANGED <<call, verdict>>,
         pc' \in {"statements", "strays", "joins", "records", "empty"},
         incomplete' \subseteq {"witness keys", "join", "time"},
         (i \in 1..(Len(Walked(pc)) + 1))', SoundSoFar', GapsInv'
  PROVE  VerifierInv'
<1>1. CallOk(call)' /\ verdict' = "none"
  BY DEF VerifierInv
<1> QED BY <1>1 DEF VerifierInv

\* Steps 1 to 3 of the code: inputs, bundle, head.
LEMMA CheckInputsInv ==
  ASSUME VerifierInv, CheckInputs
  PROVE  VerifierInv'
<1>1. pc = "inputs" /\ i = 1 /\ incomplete = {} /\ SoundSoFar /\ GapsInv
  BY DEF CheckInputs, VerifierInv
<1>2. CASE BundleRefuted(call)
  BY <1>2, FailInv DEF CheckInputs, Refuted
<1>3. CASE ~BundleRefuted(call)
  <2>1. pc' = "statements" /\ UNCHANGED <<call, i, incomplete, verdict>>
    BY <1>3 DEF CheckInputs
  <2>2. UNCHANGED <<StatementsSeen, StraysSeen, JoinsSeen, RecordsSeen>>
    BY <1>1, <2>1 DEF StatementsSeen, StraysSeen, JoinsSeen, RecordsSeen
  <2>3. SoundSoFar' /\ GapsInv'
    BY <1>1, <1>3, <2>1, <2>2, Frame
  <2>4. i' \in 1..(Len(Walked(pc)) + 1)'
    BY <1>1, <2>1, Walking DEF Walked
  <2> QED BY <1>1, <2>1, <2>3, <2>4, StillWalking
<1> QED BY <1>2, <1>3

\* Step 4 of the code: one statement.
LEMMA CheckStatementInv ==
  ASSUME VerifierInv, CheckStatement
  PROVE  VerifierInv'
<1>1. pc = "statements" /\ i \in 1..Len(call.witnessed) /\ Len(call.witnessed) \in Nat
  <2>1. pc = "statements" /\ i =< Len(call.witnessed)
    BY DEF CheckStatement, At
  <2>2. Walked(pc) = call.witnessed
    BY <2>1 DEF Walked
  <2> QED BY <2>1, <2>2, Walking
<1>2. CASE StatementRefuted(call, i)
  BY <1>1, <1>2, FailInv, Walking DEF CheckStatement, Refuted
<1>3. CASE ~StatementRefuted(call, i)
  <2>1. i' = i + 1 /\ UNCHANGED <<call, pc, verdict>>
    BY <1>3 DEF CheckStatement, Advance
  <2>2. incomplete' = IF call.witnessKeys = NoKeySet THEN incomplete \cup {"witness keys"}
                      ELSE incomplete
    BY <1>3 DEF CheckStatement, Noting
  <2>3. /\ StatementsSeen = i - 1 /\ StatementsSeen' = i
        /\ StraysSeen = 0 /\ JoinsSeen = 0 /\ RecordsSeen = 0
        /\ StraysSeen' = 0 /\ JoinsSeen' = 0 /\ RecordsSeen' = 0
    <3>1. pc' = "statements" /\ i \in Nat /\ i' - 1 = i
      BY <1>1, <2>1
    <3> QED BY <1>1, <3>1 DEF StatementsSeen, StraysSeen, JoinsSeen, RecordsSeen
  <2>4. SoundSoFar'
    <3>1. \A k \in 1..i : ~StatementRefuted(call, k)
      BY <1>1, <1>3, <2>3, Walking DEF SoundSoFar
    <3> QED BY <1>1, <2>1, <2>3, <3>1, Walking DEF SoundSoFar
  <2>5. GapsInv'
    <3>1. i > 0 /\ (i - 1 > 0 \/ i - 1 = 0) /\ 1..0 = {}
      BY <1>1
    <3>2. incomplete # {} => call.witnessKeys = NoKeySet
      <4>1. GapsInv
        BY <1>1, Walking
      <4> QED BY <2>3, <3>1, <4>1 DEF GapsInv
    <3> QED BY <2>1, <2>2, <2>3, <3>1, <3>2 DEF GapsInv
  <2>6. incomplete' \subseteq {"witness keys", "join", "time"}
    BY <2>2 DEF VerifierInv
  <2>7. i' \in 1..(Len(Walked(pc)) + 1)'
    <3>1. Walked(pc)' = call.witnessed
      BY <1>1, <2>1 DEF Walked
    <3> QED BY <1>1, <2>1, <3>1
  <2> QED BY <1>1, <2>1, <2>4, <2>5, <2>6, <2>7, StillWalking
<1> QED BY <1>2, <1>3

\* Step 5 of the code, its first loop: one consistency proof.
LEMMA CheckStrayInv ==
  ASSUME VerifierInv, CheckStray
  PROVE  VerifierInv'
<1>1. pc = "strays" /\ i \in 1..Len(call.links)
  BY Walking DEF CheckStray, At, Walked
<1>2. CASE LinkStrays(call, i)
  BY <1>1, <1>2, FailInv, Walking DEF CheckStray, Refuted
<1>3. CASE ~LinkStrays(call, i)
  <2>1. i' = i + 1 /\ UNCHANGED <<call, pc, verdict, incomplete>>
    BY <1>3 DEF CheckStray, Advance
  <2>2. /\ StraysSeen = i - 1 /\ StraysSeen' = i
        /\ UNCHANGED <<StatementsSeen, JoinsSeen, RecordsSeen>>
    BY <1>1, <2>1 DEF StatementsSeen, StraysSeen, JoinsSeen, RecordsSeen
  <2>3. SoundSoFar'
    <3>1. \A k \in 1..i : ~LinkStrays(call, k)
      BY <1>1, <1>3, <2>2, Walking DEF SoundSoFar
    <3> QED BY <1>1, <2>1, <2>2, <3>1, Walking DEF SoundSoFar
  <2>4. GapsInv'
    BY <2>1, <2>2, <1>1, Walking DEF GapsInv
  <2>5. i' \in 1..(Len(Walked(pc)) + 1)'
    BY <1>1, <2>1, Walking DEF Walked
  <2> QED BY <1>1, <2>1, <2>3, <2>4, <2>5, StillWalking DEF VerifierInv
<1> QED BY <1>2, <1>3

\* Step 5 of the code, its second loop: one join.
LEMMA CheckJoinInv ==
  ASSUME VerifierInv, CheckJoin
  PROVE  VerifierInv'
<1>1. pc = "joins" /\ i \in 1..Len(call.witnessed)
  BY Walking DEF CheckJoin, At, Walked
<1>2. CASE JoinRefuted(call, i)
  BY <1>1, <1>2, FailInv, Walking DEF CheckJoin, Refuted
<1>3. CASE ~JoinRefuted(call, i)
  <2>1. /\ i' = i + 1 /\ UNCHANGED <<call, pc, verdict>>
        /\ incomplete' = IF JoinLacking(call, i) THEN incomplete \cup {"join"} ELSE incomplete
    BY <1>3 DEF CheckJoin, Advance, Noting
  <2>2. /\ JoinsSeen = i - 1 /\ JoinsSeen' = i
        /\ UNCHANGED <<StatementsSeen, StraysSeen, RecordsSeen>>
    BY <1>1, <2>1 DEF StatementsSeen, StraysSeen, JoinsSeen, RecordsSeen
  <2>3. SoundSoFar'
    <3>1. \A k \in 1..i : ~JoinRefuted(call, k)
      BY <1>1, <1>3, <2>2, Walking DEF SoundSoFar
    <3> QED BY <1>1, <2>1, <2>2, <3>1, Walking DEF SoundSoFar
  <2>4. GapsInv'
    <3>1. 1..i = (1..(i - 1)) \cup {i}
      BY <1>1
    <3>2. (\E k \in 1..i : JoinLacking(call, k))
            <=> JoinLacking(call, i) \/ \E k \in 1..(i - 1) : JoinLacking(call, k)
      BY <3>1
    <3> QED BY <2>1, <2>2, <3>2, <1>1, Walking DEF GapsInv
  <2>5. incomplete' \subseteq {"witness keys", "join", "time"}
    BY <2>1 DEF VerifierInv
  <2>6. i' \in 1..(Len(Walked(pc)) + 1)'
    BY <1>1, <2>1, Walking DEF Walked
  <2> QED BY <1>1, <2>1, <2>3, <2>4, <2>5, <2>6, StillWalking
<1> QED BY <1>2, <1>3

\* Step 6 of the code: one record.
LEMMA CheckRecordInv ==
  ASSUME VerifierInv, CheckRecord
  PROVE  VerifierInv'
<1> DEFINE x == call.records[i]
<1>1. pc = "records" /\ i \in 1..Len(call.records)
  BY Walking DEF CheckRecord, At, Walked
<1>2. CASE RecordRefuted(call, x)
  BY <1>1, <1>2, FailInv, Walking DEF CheckRecord, Refuted
<1>3. CASE ~RecordRefuted(call, x)
  <2>1. /\ i' = i + 1 /\ UNCHANGED <<call, pc, verdict>>
        /\ incomplete' = IF TimeLacking(call, x) THEN incomplete \cup {"time"} ELSE incomplete
    BY <1>3 DEF CheckRecord, Advance, Noting
  <2>2. /\ RecordsSeen = i - 1 /\ RecordsSeen' = i
        /\ UNCHANGED <<StatementsSeen, StraysSeen, JoinsSeen>>
    BY <1>1, <2>1 DEF StatementsSeen, StraysSeen, JoinsSeen, RecordsSeen
  <2>3. SoundSoFar'
    <3>1. \A k \in 1..i : ~RecordRefuted(call, call.records[k])
      BY <1>1, <1>3, <2>2, Walking DEF SoundSoFar
    <3> QED BY <1>1, <2>1, <2>2, <3>1, Walking DEF SoundSoFar
  <2>4. GapsInv'
    <3>1. 1..i = (1..(i - 1)) \cup {i}
      BY <1>1
    <3>2. (\E k \in 1..i : TimeLacking(call, call.records[k]))
            <=> TimeLacking(call, x) \/ \E k \in 1..(i - 1) : TimeLacking(call, call.records[k])
      BY <3>1
    <3> QED BY <2>1, <2>2, <3>2, <1>1, Walking DEF GapsInv
  <2>5. incomplete' \subseteq {"witness keys", "join", "time"}
    BY <2>1 DEF VerifierInv
  <2>6. i' \in 1..(Len(Walked(pc)) + 1)'
    BY <1>1, <2>1, Walking DEF Walked
  <2> QED BY <1>1, <2>1, <2>3, <2>4, <2>5, <2>6, StillWalking
<1> QED BY <1>2, <1>3

\* From one loop to the next: what the new one has seen is nothing yet.
LEMMA PastInv ==
  ASSUME VerifierInv,
         NEW step \in {"statements", "strays", "joins", "records"},
         Past(step, Walked(step), CASE step = "statements" -> "strays" [] step = "strays" -> "joins"
                                    [] step = "joins" -> "records" [] step = "records" -> "empty")
  PROVE  VerifierInv'
<1>1. /\ pc = step /\ i > Len(Walked(step)) /\ i' = 1
      /\ pc' \in {"strays", "joins", "records", "empty"}
      /\ UNCHANGED <<call, incomplete, verdict>>
  BY DEF Past
<1>2. UNCHANGED <<StatementsSeen, StraysSeen, JoinsSeen, RecordsSeen>>
  BY <1>1, Walking DEF Past, Walked, StatementsSeen, StraysSeen, JoinsSeen, RecordsSeen
<1>3. SoundSoFar' /\ GapsInv'
  BY <1>1, <1>2, Walking, Frame DEF SoundSoFar
<1>4. (i \in 1..(Len(Walked(pc)) + 1))'
  BY <1>1, Walking, EmptySeq DEF Walked
<1> QED BY <1>1, <1>3, <1>4, StillWalking DEF VerifierInv

\* Everything has been walked: what is noted is what is lacking.
LEMMA DecideInv ==
  ASSUME VerifierInv, Decide
  PROVE  VerifierInv'
<1>1. /\ pc = "empty" /\ pc' = "done" /\ UNCHANGED <<call, i, incomplete>>
      /\ verdict' = IF incomplete # {} \/ call.records = <<>> THEN "INCOMPLETE" ELSE "PASS"
  BY DEF Decide, Return
<1>2. /\ StatementsSeen = Len(call.witnessed) /\ StraysSeen = Len(call.links)
      /\ JoinsSeen = Len(call.witnessed) /\ RecordsSeen = Len(call.records)
  BY <1>1 DEF StatementsSeen, StraysSeen, JoinsSeen, RecordsSeen
<1>3. ~Refuted(call)
  BY <1>1, <1>2, Walking DEF SoundSoFar, Refuted
<1>4. Lacking(call) <=> incomplete # {} \/ call.records = <<>>
  BY <1>1, <1>2, Walking DEF GapsInv, Lacking
<1>5. Rule!Answer(call)' = verdict'
  BY <1>1, <1>3, <1>4 DEF Rule!Answer
<1> QED BY <1>1, <1>5 DEF VerifierInv, Rule!Verdicts

\* Every step of verify_witnessed.
LEMMA VerifyInv ==
  ASSUME VerifierInv, Verify
  PROVE  VerifierInv'
<1>1. CASE \/ Past("statements", call.witnessed, "strays") \/ Past("strays", call.links, "joins")
           \/ Past("joins", call.witnessed, "records") \/ Past("records", call.records, "empty")
  BY <1>1, PastInv DEF Walked
<1> QED BY <1>1, CheckInputsInv, CheckStatementInv, CheckStrayInv, CheckJoinInv, CheckRecordInv,
        DecideInv DEF Verify

-----------------------------------------------------------------------------
(* The world *)

\* The clock is a natural number.
LEMMA NowIsNat ==
  ASSUME IInv
  PROVE  now \in Nat /\ Horizon \in Nat /\ now =< Horizon
<1>1. Horizon \in Nat
  BY WitnessingAssumption
<1>2. now \in 0..Horizon
  BY DEF IInv
<1> QED BY <1>1, <1>2

\* A log that grows keeps its prefixes, and starts with itself.
LEMMA GrownPrefix ==
  ASSUME NEW S, NEW s \in Seq(S), NEW t \in Seq(S), NEW e \in S
  PROVE  IsPrefix(s, s) /\ (IsPrefix(s, t) => IsPrefix(s, Append(t, e)))
<1>1. Len(s) \in Nat /\ Len(t) \in Nat
  BY LenProperties
<1>2. IsPrefix(s, s)
  BY <1>1 DEF IsPrefix
<1>3. ASSUME IsPrefix(s, t)
      PROVE  IsPrefix(s, Append(t, e))
  <2>1. Len(s) =< Len(t) /\ SubSeq(s, 1, Len(s)) = SubSeq(t, 1, Len(s))
    BY <1>3 DEF IsPrefix
  <2>2. /\ Append(t, e) \in Seq(S) /\ Len(Append(t, e)) = Len(t) + 1
        /\ \A k \in 1..Len(t) : Append(t, e)[k] = t[k]
    BY AppendProperties
  <2>3. SubSeq(Append(t, e), 1, Len(s)) = SubSeq(t, 1, Len(s))
    BY <1>1, <2>1, <2>2, SubSeqProperties
  <2> QED BY <1>1, <2>1, <2>2, <2>3 DEF IsPrefix
<1> QED BY <1>2, <1>3

\* One more entry, at the end or before an entry.
PutAt(t, s, k, e) ==
  \/ t = InsertAt(s, k, e) /\ k =< Len(s)
  \/ t = Append(s, e) /\ k = Len(s) + 1

\* What InsertAt makes of a log.
LEMMA Inserted ==
  ASSUME NEW S, NEW s \in Seq(S), NEW e \in S, NEW k \in 1..(Len(s) + 1), NEW t,
         PutAt(t, s, k, e)
  PROVE  /\ t \in Seq(S) /\ Len(t) = Len(s) + 1 /\ Len(s) \in Nat
         /\ \A j \in 1..(Len(s) + 1) :
              t[j] = IF j < k THEN s[j] ELSE IF j = k THEN e ELSE s[j - 1]
<1>1. Len(s) \in Nat /\ k \in Nat \ {0} /\ \A j \in 1..Len(s) : s[j] \in S
  BY LenProperties
<1>2. CASE t = Append(s, e) /\ k = Len(s) + 1
  BY <1>1, <1>2, AppendProperties
<1>3. CASE t = InsertAt(s, k, e) /\ k =< Len(s)
  <2> DEFINE a == SubSeq(s, 1, k - 1)
             b == SubSeq(s, k, Len(s))
             u == a \o <<e>>
  <2>1. /\ a \in Seq(S) /\ Len(a) = k - 1 /\ \A j \in 1..(k - 1) : a[j] = s[j]
    <3>1. \A j \in 1..(k - 1) : s[j] \in S
      BY <1>1, <1>3
    <3> QED BY <1>1, <3>1, SubSeqProperties
  <2>2. /\ b \in Seq(S) /\ Len(b) = Len(s) - k + 1
        /\ \A j \in 1..(Len(s) - k + 1) : b[j] = s[k + j - 1]
    <3>1. \A j \in k..Len(s) : s[j] \in S
      BY <1>1, <1>3
    <3> QED BY <1>1, <1>3, <3>1, SubSeqProperties
  <2>3. <<e>> \in Seq(S) /\ Len(<<e>>) = 1 /\ <<e>>[1] = e
    BY <1>1
  <2> HIDE DEF a, b
  <2>4. /\ u \in Seq(S) /\ Len(u) = k
        /\ \A j \in 1..k : u[j] = IF j < k THEN s[j] ELSE e
    BY <1>1, <2>1, <2>3, ConcatProperties
  <2>5. t = u \o b
    BY <1>3 DEF InsertAt, a, b
  <2> HIDE DEF u
  <2>6. /\ t \in Seq(S) /\ Len(t) = Len(s) + 1
        /\ \A j \in 1..(Len(s) + 1) : t[j] = IF j =< k THEN u[j] ELSE b[j - k]
    <3>1. Len(u) + Len(b) = Len(s) + 1 /\ Len(u) = k
      BY <1>1, <2>2, <2>4
    <3>2. /\ u \o b \in Seq(S) /\ Len(u \o b) = Len(u) + Len(b)
          /\ \A j \in 1..(Len(u) + Len(b)) :
               (u \o b)[j] = IF j =< Len(u) THEN u[j] ELSE b[j - Len(u)]
      BY <2>2, <2>4, ConcatProperties
    <3> QED BY <2>5, <3>1, <3>2
  <2>7. ASSUME NEW j \in 1..(Len(s) + 1)
        PROVE  t[j] = IF j < k THEN s[j] ELSE IF j = k THEN e ELSE s[j - 1]
    <3>1. CASE j =< k
      BY <1>1, <2>4, <2>6, <3>1
    <3>2. CASE j > k
      <4>1. j - k \in 1..(Len(s) - k + 1) /\ k + (j - k) - 1 = j - 1
        BY <1>1, <3>2
      <4>2. b[j - k] = s[j - 1]
        BY <2>2, <4>1
      <4> QED BY <1>1, <2>6, <3>2, <4>2
    <3> QED BY <1>1, <3>1, <3>2
  <2> QED BY <1>1, <2>6, <2>7
<1> QED BY <1>2, <1>3 DEF PutAt

\* What is logged now may be at any position of a log.
LEMMA LoggedNow ==
  ASSUME NEW tick \in Nat, NEW s, LoggedBy(s, tick), NEW k \in 1..(Len(s) + 1), NEW t,
         NEW e \in Logged, e.signed =< e.logged, e.logged =< tick,
         \A x \in Entries(s) : x.id # e.id, PutAt(t, s, k, e)
  PROVE  /\ LoggedBy(t, tick)
         /\ Entries(s) \subseteq Entries(t) /\ Entries(t) \subseteq Entries(s) \cup {e}
<1> DEFINE S == Logged \cup {Other}
           n == Len(s)
           Place(j) == IF j < k THEN j ELSE j - 1
<1>1. s \in Seq(S) /\ e \in S /\ n >= 2
  BY DEF LoggedBy
<1>2. DOMAIN s = 1..n /\ n \in Nat
  BY <1>1, LenProperties
<1>3. /\ t \in Seq(S) /\ Len(t) = n + 1
      /\ \A j \in 1..(n + 1) : t[j] = IF j < k THEN s[j] ELSE IF j = k THEN e ELSE s[j - 1]
  <2> HIDE DEF S
  <2> QED BY <1>1, Inserted
<1>4. DOMAIN t = 1..(n + 1)
  BY <1>3, LenProperties
<1>5. k \in 1..(n + 1)
  OBVIOUS
<1> HIDE DEF n
<1>6. ASSUME NEW j \in 1..(n + 1), j # k
      PROVE  Place(j) \in 1..n /\ t[j] = s[Place(j)]
  BY <1>2, <1>3, <1>5, <1>6
<1>7. t[k] = e
  BY <1>2, <1>3, <1>5
<1>8. ASSUME NEW j \in 1..n
      PROVE  \E m \in 1..(n + 1) : t[m] = s[j]
  <2>1. CASE j < k
    BY <1>2, <1>3, <2>1
  <2>2. CASE j >= k
    <3>1. j + 1 \in 1..(n + 1) /\ ~(j + 1 < k) /\ j + 1 # k /\ (j + 1) - 1 = j
      BY <1>2, <1>5, <2>2
    <3> QED BY <1>3, <3>1
  <2> QED BY <1>2, <1>5, <2>1, <2>2
<1>9. \A i1, i2 \in 1..(n + 1) : i1 # k /\ i2 # k /\ Place(i1) = Place(i2) => i1 = i2
  BY <1>2, <1>5
<1> HIDE DEF Place
<1>10. Entries(s) \subseteq Entries(t) /\ Entries(t) \subseteq Entries(s) \cup {e}
  <2>1. Entries(s) \subseteq Entries(t)
    BY <1>2, <1>4, <1>8 DEF Entries
  <2>2. Entries(t) \subseteq Entries(s) \cup {e}
    BY <1>2, <1>4, <1>6, <1>7 DEF Entries
  <2> QED BY <2>1, <2>2
<1>11. \A x \in Entries(t) : x.signed =< x.logged /\ x.logged =< tick
  BY <1>10 DEF LoggedBy
<1>12. ASSUME NEW i1 \in 1..(n + 1), NEW i2 \in 1..(n + 1), t[i1] # Other, t[i2] # Other,
              t[i1].id = t[i2].id
       PROVE  i1 = i2
  <2>1. ASSUME NEW j \in 1..(n + 1), j # k, t[j] # Other
        PROVE  t[j].id # e.id
    BY <1>2, <1>6, <2>1 DEF Entries
  <2>2. CASE i1 # k /\ i2 # k
    BY <1>2, <1>6, <1>9, <1>12, <2>2 DEF LoggedBy
  <2>3. CASE i1 = k \/ i2 = k
    BY <1>7, <1>12, <2>1, <2>3
  <2> QED BY <2>2, <2>3
<1>13. Len(t) >= 2
  BY <1>1, <1>2, <1>3 DEF n
<1> QED BY <1>3, <1>4, <1>10, <1>11, <1>12, <1>13 DEF LoggedBy

\* What goes on in the issuer: the log and the clock only go on, or the log is
\* rewritten, and loses nothing.
Onward ==
  /\ now' \in now..Horizon /\ rewritten' \in BOOLEAN
  /\ Entries(log) \subseteq Entries(log')
  /\ rewritten' \/ (~rewritten /\ \A s \in Seq(Logged \cup {Other}) : IsPrefix(s, log) => IsPrefix(s, log'))

\* A head that was fetched stays what it was.
LEMMA HeadKept ==
  ASSUME now \in Nat, Onward, NEW head, HeadInv(head)
  PROVE  HeadInv(head)'
<1>1. now' \in Nat /\ now =< now'
  BY WitnessingAssumption DEF Onward
<1>2. head.fetched \in 0..now' /\ LoggedBy(head.log, head.fetched)
  BY <1>1 DEF HeadInv
<1>3. Entries(head.log) \subseteq Entries(log')
  BY DEF HeadInv, Onward
<1>4. ~rewritten' => IsPrefix(head.log, log')
  BY <1>2 DEF HeadInv, LoggedBy, Onward
<1> QED BY <1>2, <1>3, <1>4 DEF HeadInv

\* What the issuer does keeps what was witnessed.
LEMMA IssuerInv ==
  ASSUME IInv, pc = "idle", UNCHANGED <<chain, fetched, verifier>>, Onward,
         LoggedBy(log, now)', PendingInv'
  PROVE  IInv'
<1>1. now \in Nat /\ now' \in now..Horizon /\ now' \in 0..Horizon /\ rewritten' \in BOOLEAN
  BY NowIsNat DEF Onward
<1>2. \A head : HeadInv(head) => HeadInv(head)'
  BY <1>1, HeadKept
<1>3. ChainInv'
  <2>1. ASSUME NEW k \in DOMAIN chain
        PROVE  HeadInv(chain[k])' /\ chain[k].at \in chain[k].fetched..now'
    <3>1. HeadInv(chain[k]) /\ chain[k].at \in chain[k].fetched..now /\ chain[k].fetched \in 0..now
      BY DEF IInv, ChainInv, HeadInv
    <3>2. PICK head : head = chain[k]
      OBVIOUS
    <3>3. HeadInv(head)'
      BY <1>2, <3>1, <3>2
    <3>4. (head = chain[k])'
      BY <3>2
    <3> QED BY <1>1, <3>1, <3>3, <3>4 DEF HeadInv
  <2> QED BY <2>1 DEF IInv, ChainInv
<1>4. FetchedInv'
  <2>1. CASE fetched # NoHead
    <3>1. HeadInv(fetched) /\ \A k \in DOMAIN chain : Follows(fetched, chain[k])
      BY <2>1 DEF IInv, FetchedInv
    <3>2. PICK head : head = fetched
      OBVIOUS
    <3>3. HeadInv(head)' /\ (head = fetched)'
      BY <1>2, <3>1, <3>2
    <3> QED BY <3>1, <3>3 DEF FetchedInv, HeadInv
  <2>2. CASE fetched = NoHead
    BY <2>2 DEF FetchedInv
  <2> QED BY <2>1, <2>2
<1>5. VerifierInv' /\ ReviewInv'
  <2>1. VerifierInv /\ UNCHANGED <<call, pc, i, incomplete, verdict>>
    BY DEF IInv, verifier
  <2>2. VerifierInv'
    BY <2>1 DEF VerifierInv, SoundSoFar, GapsInv, StatementsSeen, StraysSeen, JoinsSeen,
             RecordsSeen, Walked
  <2> QED BY <2>1, <2>2 DEF ReviewInv
<1> QED BY <1>1, <1>3, <1>4, <1>5 DEF IInv

\* A record of one of the issuer's ids, signed no later than it was logged.
LEMMA LoggedRecord ==
  ASSUME NEW id \in Ids, NEW claims \in 0..(Horizon + 1), NEW signed \in Nat, NEW logged \in Nat
  PROVE  [id |-> id, claims |-> claims, signed |-> signed, logged |-> logged] \in Logged
BY DEF Logged

\* The clock moves on.
LEMMA TickInv ==
  ASSUME IInv, Tick
  PROVE  IInv'
<1>1. /\ now' = now + 1 /\ now < Horizon /\ pc = "idle"
      /\ UNCHANGED <<log, pending, rewritten, fetched, chain, verifier>>
  BY DEF Tick, Open
<1>2. now \in Nat /\ now' \in now..Horizon
  BY <1>1, NowIsNat
<1>3. LoggedBy(log, now)'
  <2>1. \A e \in Entries(log) : e.logged \in Int
    BY ElementOfSeq, LenProperties DEF IInv, LoggedBy, Entries, Logged
  <2>2. \A e \in Entries(log) : e.signed =< e.logged /\ e.logged =< now
    BY DEF IInv, LoggedBy
  <2>3. \A e \in Entries(log) : e.signed =< e.logged /\ e.logged =< now + 1
    BY <1>2, <2>1, <2>2
  <2> QED BY <1>1, <2>3 DEF IInv, LoggedBy, Entries
<1>4. PendingInv'
  <2>1. 0..now \subseteq 0..now'
    BY <1>1, <1>2
  <2> QED BY <1>1, <2>1 DEF IInv, PendingInv, Waiting, Entries
<1>5. Onward
  BY <1>1, <1>2 DEF IInv, Onward, Entries
<1> QED BY <1>1, <1>3, <1>4, <1>5, IssuerInv

\* A record is signed.
LEMMA SignInv ==
  ASSUME IInv, NEW id \in Ids, Sign(id)
  PROVE  IInv'
<1> DEFINE w == [id |-> id, claims |-> now, signed |-> now]
<1>1. /\ pending' = pending \cup {w} /\ pc = "idle" /\ Unused(id)
      /\ UNCHANGED <<now, log, rewritten, fetched, chain, verifier>>
  BY DEF Sign, Open
<1>2. now \in Nat /\ now' \in now..Horizon
  BY <1>1, NowIsNat DEF IInv
<1>3. LoggedBy(log, now)'
  BY <1>1 DEF IInv, LoggedBy, Entries
<1>4. PendingInv'
  <2>1. w \in Waiting /\ w.id = id
    BY <1>2 DEF Waiting
  <2>2. \A x \in pending : x.id # id
    BY <1>1 DEF Unused
  <2>3. \A e \in Entries(log) : e.id # id
    BY <1>1 DEF Unused
  <2> HIDE DEF w
  <2> QED BY <1>1, <2>1, <2>2, <2>3 DEF IInv, PendingInv, Waiting, Entries
<1>5. Onward
  BY <1>1, <1>2 DEF IInv, Onward, Entries
<1> QED BY <1>1, <1>3, <1>4, <1>5, IssuerInv

\* A log that grows by a record logged now.
LEMMA LoggingInv ==
  ASSUME IInv, pc = "idle", NEW e \in Logged, e.signed =< now, e.logged = now,
         \A x \in Entries(log) : x.id # e.id, \A x \in pending' : x.id # e.id,
         log' = Append(log, e), pending' \subseteq pending,
         UNCHANGED <<now, rewritten, fetched, chain, verifier>>
  PROVE  IInv'
<1>1. now \in Nat /\ now' \in now..Horizon
  BY NowIsNat DEF IInv
<1>2. log \in Seq(Logged \cup {Other}) /\ e \in Logged \cup {Other}
  BY DEF IInv, LoggedBy
<1>3. /\ LoggedBy(log', now)
      /\ Entries(log) \subseteq Entries(log') /\ Entries(log') \subseteq Entries(log) \cup {e}
  <2>1. Len(log) + 1 \in 1..(Len(log) + 1)
    BY <1>2, LenProperties
  <2>2. e.signed =< e.logged /\ e.logged =< now /\ LoggedBy(log, now)
    BY <1>1 DEF IInv
  <2>3. PICK s, t, k : s = log /\ t = Append(s, e) /\ k = Len(s) + 1
    OBVIOUS
  <2>4. k \in 1..(Len(s) + 1) /\ LoggedBy(s, now) /\ \A x \in Entries(s) : x.id # e.id
    BY <2>1, <2>2, <2>3
  <2>5. now \in Nat /\ e.signed =< e.logged /\ e.logged =< now
    BY <1>1, <2>2
  <2>6. PutAt(t, s, k, e)
    BY <2>3 DEF PutAt
  <2> HIDE <2>3
  <2>7. /\ LoggedBy(t, now) /\ Entries(s) \subseteq Entries(t) /\ Entries(t) \subseteq Entries(s) \cup {e}
    BY <2>4, <2>5, <2>6, LoggedNow
  <2> QED BY <2>3, <2>7
<1>4. LoggedBy(log, now)'
  BY <1>3 DEF LoggedBy, Entries
<1>5. PendingInv'
  <2>1. Waiting' = Waiting
    BY DEF Waiting
  <2>2. \A w \in pending', x \in Entries(log') : w.id # x.id
    BY <1>3 DEF IInv, PendingInv
  <2> QED BY <2>1, <2>2 DEF IInv, PendingInv, Entries
<1>6. Onward
  <2>1. \A s \in Seq(Logged \cup {Other}) : IsPrefix(s, log) => IsPrefix(s, Append(log, e))
    BY <1>2, GrownPrefix
  <2> QED BY <1>1, <1>3, <2>1 DEF IInv, Onward
<1> QED BY <1>1, <1>4, <1>5, <1>6, IssuerInv

\* A record that was signed before is logged.
LEMMA SubmitInv ==
  ASSUME IInv, NEW w \in pending, Submit(w)
  PROVE  IInv'
<1> DEFINE e == [id |-> w.id, claims |-> w.claims, signed |-> w.signed, logged |-> now]
<1>1. /\ log' = Append(log, e) /\ pending' = pending \ {w} /\ pc = "idle"
      /\ UNCHANGED <<now, rewritten, fetched, chain, verifier>>
  BY DEF Submit, Open
<1>2. now \in Nat
  BY NowIsNat
<1>3. w.id \in Ids /\ w.claims \in 0..(Horizon + 1) /\ w.signed \in Nat /\ w.signed =< now
  <2>1. w.id \in Ids /\ w.claims \in 0..now /\ w.signed \in 0..now
    BY DEF IInv, PendingInv, Waiting
  <2> QED BY <2>1, NowIsNat
<1>4. e \in Logged /\ e.signed =< now /\ e.logged = now
  BY <1>2, <1>3, LoggedRecord
<1>5. \A x \in Entries(log) : x.id # w.id
  BY DEF IInv, PendingInv
<1>6. \A x \in pending' : x.id # w.id
  BY <1>1 DEF IInv, PendingInv
<1>7. e.id = w.id
  OBVIOUS
<1> HIDE DEF e
<1> QED BY <1>1, <1>4, <1>5, <1>6, <1>7, LoggingInv

\* A record with another time is logged.
LEMMA MisdateInv ==
  ASSUME IInv, NEW id \in Ids, NEW claims \in {0, now + 1}, Misdate(id, claims)
  PROVE  IInv'
<1> DEFINE e == Misdated(id, claims)
<1>1. /\ log' = Append(log, e) /\ pc = "idle" /\ Unused(id)
      /\ UNCHANGED <<now, pending, rewritten, fetched, chain, verifier>>
  BY DEF Misdate, Open
<1>2. now \in Nat /\ claims \in 0..(Horizon + 1)
  BY NowIsNat
<1>3. e \in Logged /\ e.signed =< now /\ e.logged = now /\ e.id = id
  BY <1>2, LoggedRecord DEF Misdated
<1>4. (\A x \in Entries(log) : x.id # id) /\ \A x \in pending' : x.id # id
  BY <1>1 DEF Unused
<1> HIDE DEF e
<1> QED BY <1>1, <1>3, <1>4, LoggingInv

\* A backdated record is inserted.
LEMMA RewriteInv ==
  ASSUME IInv, NEW id \in Ids, NEW k \in 1..Len(log), Rewrite(id, k)
  PROVE  IInv'
<1> DEFINE e == Misdated(id, 0)
<1>1. /\ log' = InsertAt(log, k, e) /\ rewritten' = TRUE /\ pc = "idle" /\ Unused(id)
      /\ UNCHANGED <<now, pending, fetched, chain, verifier>>
  BY DEF Rewrite, Open
<1>2. now \in Nat /\ now' \in now..Horizon /\ 0 \in 0..(Horizon + 1)
  BY <1>1, NowIsNat DEF IInv
<1>3. e \in Logged /\ e.signed =< e.logged /\ e.logged =< now /\ e.id = id
  BY <1>2, LoggedRecord DEF Misdated
<1>4. (\A x \in Entries(log) : x.id # id) /\ \A x \in pending : x.id # id
  BY <1>1 DEF Unused
<1> HIDE DEF e
<1>5. /\ LoggedBy(log', now)
      /\ Entries(log) \subseteq Entries(log') /\ Entries(log') \subseteq Entries(log) \cup {e}
  <2>1. k \in 1..(Len(log) + 1) /\ PutAt(log', log, k, e)
    BY <1>1, LenProperties DEF IInv, LoggedBy, PutAt
  <2> QED BY <1>1, <1>2, <1>3, <1>4, <2>1, LoggedNow DEF IInv
<1>6. LoggedBy(log, now)'
  BY <1>1, <1>5 DEF LoggedBy, Entries
<1>7. PendingInv'
  <2>1. Waiting' = Waiting
    BY <1>1 DEF Waiting
  <2>2. \A w \in pending', x \in Entries(log') : w.id # x.id
    BY <1>1, <1>3, <1>4, <1>5 DEF IInv, PendingInv
  <2> QED BY <1>1, <2>1, <2>2 DEF IInv, PendingInv, Entries
<1>8. Onward
  BY <1>1, <1>2, <1>5 DEF Onward
<1> QED BY <1>1, <1>6, <1>7, <1>8, IssuerInv

\* The witness does nothing to the verifier, the issuer or the log.
LEMMA WitnessInv ==
  ASSUME IInv, pc = "idle", UNCHANGED <<now, log, pending, rewritten, verifier>>,
         ChainInv', FetchedInv'
  PROVE  IInv'
<1>1. UNCHANGED <<now, log, pending, rewritten, call, pc, i, incomplete, verdict>>
  BY DEF verifier
<1>2. VerifierInv'
  BY <1>1 DEF IInv, VerifierInv, SoundSoFar, GapsInv, StatementsSeen, StraysSeen, JoinsSeen,
              RecordsSeen, Walked
<1>3. LoggedBy(log, now)' /\ PendingInv' /\ ReviewInv'
  BY <1>1 DEF IInv, LoggedBy, PendingInv, Entries, Waiting, ReviewInv
<1> QED BY <1>1, <1>2, <1>3 DEF IInv

\* What the invariant says of a head survives a step that changes only who
\* holds it.
LEMMA SameHead ==
  ASSUME UNCHANGED <<now, log, rewritten>>, NEW head, HeadInv(head)
  PROVE  HeadInv(head)'
BY DEF HeadInv, LoggedBy, Entries

\* The invariants of the world are about the world alone.
LEMMA SameWorld ==
  ASSUME IInv, UNCHANGED <<now, log, rewritten, chain>>
  PROVE  /\ ChainInv' /\ LoggedBy(log, now)'
         /\ UNCHANGED fetched => FetchedInv'
         /\ UNCHANGED pending => PendingInv'
<1>1. \A head : HeadInv(head) => HeadInv(head)'
  BY SameHead
<1>2. ChainInv'
  <2>1. ASSUME NEW k \in DOMAIN chain
        PROVE  HeadInv(chain[k])' /\ chain[k].at \in chain[k].fetched..now
    <3>1. HeadInv(chain[k]) /\ chain[k].at \in chain[k].fetched..now
      BY DEF IInv, ChainInv
    <3>2. PICK head : head = chain[k]
      OBVIOUS
    <3>3. HeadInv(head)' /\ (head = chain[k])'
      BY <1>1, <3>1, <3>2
    <3> QED BY <3>1, <3>3 DEF HeadInv
  <2>2. \A j, k \in DOMAIN chain : j < k => Follows(chain[k], chain[j])
    BY DEF IInv, ChainInv
  <2>3. IsArray(chain)
    BY DEF IInv, ChainInv
  <2>4. (IsArray(chain))'
    BY <2>3 DEF IsArray
  <2>5. (\A k \in DOMAIN chain : HeadInv(chain[k]) /\ chain[k].at \in chain[k].fetched..now)'
    BY <2>1
  <2>6. (\A j, k \in DOMAIN chain : j < k => Follows(chain[k], chain[j]))'
    BY <2>2 DEF Follows, Entries
  <2> QED BY <2>4, <2>5, <2>6 DEF ChainInv
<1>3. LoggedBy(log, now)'
  BY DEF IInv, LoggedBy, Entries
<1>4. ASSUME UNCHANGED fetched
      PROVE  FetchedInv'
  <2>1. CASE fetched # NoHead
    <3>1. HeadInv(fetched) /\ \A k \in DOMAIN chain : Follows(fetched, chain[k])
      BY <2>1 DEF IInv, FetchedInv
    <3>2. PICK head : head = fetched
      OBVIOUS
    <3>3. HeadInv(head)' /\ (head = fetched)'
      BY <1>1, <1>4, <3>1, <3>2
    <3> QED BY <1>4, <3>1, <3>3 DEF FetchedInv, HeadInv, Follows, Entries
  <2>2. CASE fetched = NoHead
    BY <1>4, <2>2 DEF FetchedInv
  <2> QED BY <2>1, <2>2
<1>5. UNCHANGED pending => PendingInv'
  BY DEF IInv, PendingInv, Waiting, Entries
<1> QED BY <1>2, <1>3, <1>4, <1>5

\* A head is fetched.
LEMMA FetchInv ==
  ASSUME IInv, Fetch
  PROVE  IInv'
<1>1. /\ fetched' = [log |-> log, fetched |-> now] /\ pc = "idle"
      /\ UNCHANGED <<now, log, pending, rewritten, chain, verifier>>
  BY DEF Fetch, Open
<1>2. ChainInv'
  BY <1>1, SameWorld
<1>3. FetchedInv'
  <2> DEFINE head == [log |-> log, fetched |-> now]
  <2>1. head.log = log /\ head.fetched = now
    OBVIOUS
  <2> HIDE DEF head
  <2>2. HeadInv(head)
    <3>1. now \in 0..now
      BY NowIsNat
    <3>2. IsPrefix(log, log)
      BY GrownPrefix, LenProperties DEF IInv, LoggedBy, IsPrefix
    <3> QED BY <2>1, <3>1, <3>2 DEF HeadInv, IInv
  <2>3. ASSUME NEW k \in DOMAIN chain
        PROVE  Follows(head, chain[k])
    <3>1. HeadInv(chain[k]) /\ chain[k].at \in chain[k].fetched..now
      BY DEF IInv, ChainInv
    <3>2. chain[k].at =< now
      BY <3>1
    <3> QED BY <2>1, <3>1, <3>2 DEF HeadInv, Follows
  <2>4. PICK h : h = head
    OBVIOUS
  <2>5. fetched' = h
    BY <1>1, <2>4 DEF head
  <2>6. HeadInv(fetched)'
    <3>1. HeadInv(h)'
      BY <1>1, <2>2, <2>4, SameHead
    <3> QED BY <2>5, <3>1 DEF HeadInv
  <2>7. \A k \in DOMAIN chain' : Follows(fetched', chain'[k])
    BY <1>1, <2>3, <2>4, <2>5
  <2> QED BY <2>6, <2>7 DEF FetchedInv, Follows, Entries
<1> QED BY <1>1, <1>2, <1>3, WitnessInv

\* The chain grows by the head that was fetched.
LEMMA StampInv ==
  ASSUME IInv, Stamp
  PROVE  IInv'
<1> DEFINE st == Stamped(fetched)
           n == Len(chain)
<1>1. /\ fetched # NoHead /\ fetched' = NoHead /\ chain' = Append(chain, st) /\ pc = "idle"
      /\ UNCHANGED <<now, log, pending, rewritten, verifier>>
  BY DEF Stamp, Open
<1>2. HeadInv(fetched) /\ \A k \in DOMAIN chain : Follows(fetched, chain[k])
  BY <1>1 DEF IInv, FetchedInv
<1>3. /\ IsArray(chain') /\ Len(chain') = n + 1 /\ n \in Nat
      /\ \A k \in 1..n : chain'[k] = chain[k]
      /\ chain'[n + 1] = st
  BY <1>1, AppendArray, ArrayFacts DEF IInv, ChainInv
<1>4. DOMAIN chain = 1..n /\ DOMAIN chain' = 1..(n + 1)
  BY <1>3, ArrayFacts DEF IInv, ChainInv
<1>5. st.log = fetched.log /\ st.fetched = fetched.fetched /\ st.at = now
  BY DEF Stamped
<1> HIDE DEF st, n
<1>6. HeadInv(st) /\ st.at \in st.fetched..now
  BY <1>2, <1>5, NowIsNat DEF HeadInv
<1>7. \A head : HeadInv(head) => HeadInv(head)'
  BY <1>1, SameHead
<1>8. ChainInv'
  <2>1. ASSUME NEW k \in 1..(n + 1)
        PROVE  HeadInv(chain[k])' /\ chain'[k].at \in chain'[k].fetched..now'
    <3>1. PICK head : head = chain'[k]
      OBVIOUS
    <3>2. HeadInv(head) /\ head.at \in head.fetched..now
      <4>1. CASE k = n + 1
        BY <1>3, <1>6, <3>1, <4>1
      <4>2. CASE k \in 1..n
        BY <1>3, <1>4, <3>1, <4>2 DEF IInv, ChainInv
      <4> QED BY <1>3, <4>1, <4>2
    <3>3. HeadInv(head)'
      BY <1>7, <3>2
    <3> QED BY <1>1, <3>1, <3>2, <3>3 DEF HeadInv
  <2>2. ASSUME NEW j \in 1..(n + 1), NEW k \in 1..(n + 1), j < k
        PROVE  Follows(chain'[k], chain'[j])
    <3>1. j \in 1..n
      BY <1>3, <2>2
    <3>2. CASE k = n + 1
      BY <1>2, <1>3, <1>4, <1>5, <3>1, <3>2 DEF Follows
    <3>3. CASE k \in 1..n
      BY <1>3, <1>4, <2>2, <3>1, <3>3 DEF IInv, ChainInv
    <3> QED BY <1>3, <3>2, <3>3
  <2>3. (\A k \in DOMAIN chain : HeadInv(chain[k]) /\ chain[k].at \in chain[k].fetched..now)'
    BY <1>4, <2>1
  <2>4. (\A j, k \in DOMAIN chain : j < k => Follows(chain[k], chain[j]))'
    BY <1>4, <2>2
  <2> QED BY <1>3, <2>3, <2>4 DEF ChainInv
<1>9. FetchedInv'
  BY <1>1 DEF FetchedInv
<1> QED BY <1>1, <1>8, <1>9, WitnessInv

\* What can be built of what is published changes only when that does.
LEMMA SameBundles ==
  ASSUME UNCHANGED <<now, log, rewritten, chain>>
  PROVE  /\ Selections' = Selections
         /\ \A style : Whole(style)' = Whole(style)
         /\ \A v : bundle(v)' = bundle(v)
         /\ \A r, leaves : Tampered(r, leaves)' = Tampered(r, leaves)
<1>1. Selections' = Selections
  BY DEF Selections, Whole, Selection
<1>2. \A style : Whole(style)' = Whole(style)
  BY DEF Whole
<1>3. \A v : bundle(v)' = bundle(v)
  BY DEF bundle, Statements
<1>4. \A r, leaves : Tampered(r, leaves)' = Tampered(r, leaves)
  BY DEF Tampered, OddStatements
<1> QED BY <1>1, <1>2, <1>3, <1>4

\* A selection and the call that is made of it, edited or not.
Reviewed(v, edited, rev, r) ==
  /\ rev = [style |-> v.style, shown |-> v.shown, target |-> v.target, tampered |-> edited]
  /\ IF edited
     THEN /\ ~rewritten /\ Len(chain) > 1 /\ v = Whole(Styles[1])
          /\ r \in Tampered(bundle(v), Leaves(v.style, log))
     ELSE r = bundle(v)

Selected(v, edited) == [style |-> v.style, shown |-> v.shown, target |-> v.target, tampered |-> edited]

\* What is reviewed stays a selection of what is published.
LEMMA SameReview ==
  ASSUME UNCHANGED <<now, log, rewritten, chain>>, NEW v, NEW edited \in BOOLEAN, NEW rev, NEW r,
         Reviewed(v, edited, rev, r)
  PROVE  Reviewed(v, edited, rev, r)'
<1>1. bundle(v)' = bundle(v)
  BY SameBundles
<1>2. CASE edited
  <2>1. PICK leaves : leaves = Leaves(v.style, log)
    OBVIOUS
  <2>2. PICK b : b = bundle(v)
    OBVIOUS
  <2>3. Tampered(b, leaves)' = Tampered(b, leaves) /\ (b = bundle(v))' /\ (leaves = Leaves(v.style, log))'
    BY <1>1, <2>1, <2>2, SameBundles
  <2>4. Tampered(bundle(v), Leaves(v.style, log))' = Tampered(bundle(v), Leaves(v.style, log))
    BY <2>1, <2>2, <2>3
  <2>5. PICK st : st = Styles[1]
    OBVIOUS
  <2>6. Whole(Styles[1])' = Whole(Styles[1])
    BY <2>5, SameBundles DEF Whole
  <2> QED BY <1>2, <2>4, <2>6 DEF Reviewed
<1>3. CASE ~edited
  BY <1>1, <1>3 DEF Reviewed
<1> QED BY <1>2, <1>3

\* A call that is made of a selection is what the invariant asks for.
LEMMA ReviewedAs ==
  ASSUME NEW v, v \in Selections', NEW edited \in BOOLEAN, NEW rev, NEW r, rev = review', r = call',
         Reviewed(v, edited, rev, r)'
  PROVE  ReviewInv'
<1>1. Reviewed(v, edited, review, call)'
  BY DEF Reviewed
<1> QED BY <1>1 DEF ReviewInv, Reviewed

\* While the verifier works, nobody edits the bundle.
LEMMA ReviewKept ==
  ASSUME ReviewInv, pc # "idle", UNCHANGED <<now, log, rewritten, chain, review, call>>
  PROVE  ReviewInv'
<1>1. PICK v \in Selections, edited \in BOOLEAN : Reviewed(v, edited, review, call)
  BY DEF ReviewInv, Reviewed
<1>2. PICK rev, r : rev = review /\ r = call
  OBVIOUS
<1>3. Reviewed(v, edited, rev, r)'
  BY <1>1, <1>2, SameReview
<1>4. v \in Selections' /\ rev = review' /\ r = call'
  BY <1>2, SameBundles
<1> QED BY <1>3, <1>4, ReviewedAs


\* Whatever is reviewed, edited or not, is three arrays.
LEMMA PresentInv ==
  ASSUME IInv, Review \/ ReviewTampered
  PROVE  IInv'
<1>1. PICK v, r, edited :
        /\ v \in Selections /\ edited \in BOOLEAN
        /\ Present(v, r, edited) /\ CallOk(r)
        /\ Reviewed(v, edited, Selected(v, edited), r)
  <2>1. CASE Review
    <3>1. PICK v \in Selections : Present(v, bundle(v), FALSE)
      BY <2>1 DEF Review
    <3>2. CallOk(bundle(v))
      BY SelectionShape, BundleArrays
    <3>3. PICK r : r = bundle(v)
      OBVIOUS
    <3>4. Reviewed(v, FALSE, Selected(v, FALSE), r)
      BY <3>3 DEF Reviewed, Selected
    <3>5. FALSE \in BOOLEAN /\ CallOk(r) /\ Present(v, r, FALSE)
      BY <3>1, <3>2, <3>3 DEF Present, Call
    <3> QED BY <3>4, <3>5
  <2>2. CASE ReviewTampered
    <3> DEFINE v == Whole(Styles[1])
    <3>1. PICK r \in Tampered(bundle(v), Leaves(v.style, log)) : Present(v, r, TRUE)
      BY <2>2 DEF ReviewTampered
    <3>2. ~rewritten /\ Len(chain) > 1
      BY <2>2, WitnessingAssumption DEF ReviewTampered
    <3>3. v \in Selections
      BY <3>2, WitnessingAssumption DEF Selections
    <3>4. CallOk(bundle(v))
      BY <3>3, SelectionShape, BundleArrays
    <3>5. v = Whole(Styles[1])
      OBVIOUS
    <3> HIDE DEF v
    <3>6. CallOk(r)
      BY <3>1, <3>4, TamperedArrays
    <3>7. Reviewed(v, TRUE, Selected(v, TRUE), r)
      BY <3>1, <3>2, <3>5 DEF Reviewed, Selected
    <3> QED BY <3>1, <3>3, <3>6, <3>7
  <2> QED BY <2>1, <2>2
<1>2. /\ call' = r /\ pc = "idle" /\ pc' = "inputs" /\ UNCHANGED <<i, incomplete, verdict>>
      /\ UNCHANGED <<now, log, pending, rewritten, fetched, chain>>
      /\ review' = Selected(v, edited)
  BY <1>1 DEF Present, Call, Selected
<1>3. VerifierInv'
  <2>1. i' = 1 /\ incomplete' = {} /\ verdict' = "none"
    BY <1>2 DEF IInv, VerifierInv
  <2>2. (StatementsSeen = 0 /\ StraysSeen = 0 /\ JoinsSeen = 0 /\ RecordsSeen = 0)'
    BY <1>2 DEF StatementsSeen, StraysSeen, JoinsSeen, RecordsSeen
  <2>3. SoundSoFar' /\ GapsInv'
    BY <1>2, <2>1, <2>2 DEF SoundSoFar, GapsInv
  <2>4. (Walked(pc) = <<>>)' /\ 1 \in 1..(Len(<<>>) + 1)
    BY <1>2, EmptySeq DEF Walked
  <2> QED BY <1>1, <1>2, <2>1, <2>3, <2>4 DEF VerifierInv
<1>4. ChainInv' /\ FetchedInv' /\ LoggedBy(log, now)' /\ PendingInv'
  BY <1>2, SameWorld
<1>5. ReviewInv'
  <2>1. PICK rev : rev = Selected(v, edited)
    OBVIOUS
  <2>2. Reviewed(v, edited, rev, r)'
    BY <1>1, <1>2, <2>1, SameReview
  <2>3. v \in Selections' /\ edited \in BOOLEAN /\ rev = review' /\ r = call'
    BY <1>1, <1>2, <2>1, SameBundles
  <2> QED BY <2>2, <2>3, ReviewedAs
<1> QED BY <1>2, <1>3, <1>4, <1>5 DEF IInv

\* Before anything happens the log holds one checkpoint of ours.
LEMMA InitInv ==
  ASSUME Init
  PROVE  IInv
<1>1. 0 \in 0..Horizon
  BY WitnessingAssumption
<1>2. LoggedBy(log, 0)
  <2>1. log = <<Other, Early>> /\ Early \in Logged /\ Early.signed = 0 /\ Early.logged = 0
    BY WitnessingAssumption DEF Init, Early, Logged
  <2> HIDE DEF Early
  <2>2. log \in Seq(Logged \cup {Other}) /\ Len(log) = 2 /\ DOMAIN log = 1..2
        /\ log[1] = Other /\ log[2] = Early
    BY <2>1
  <2>3. \A j, k \in DOMAIN log : log[j] # Other /\ log[k] # Other => j = k
    BY <2>2
  <2> QED BY <2>1, <2>2, <2>3 DEF LoggedBy, Entries
<1>3. ChainInv
  BY NoArray, ArrayFacts DEF Init, ChainInv
<1>4. VerifierInv /\ ReviewInv
  BY DEF Init, VerifierInit, VerifierInv, ReviewInv
<1>5. PendingInv
  BY DEF Init, PendingInv
<1> QED BY <1>1, <1>2, <1>3, <1>4, <1>5 DEF Init, IInv, FetchedInv

\* The inductive step: one case per action.
LEMMA NextInv ==
  ASSUME IInv, [Next]_vars
  PROVE  IInv'
<1>1. CASE Verify /\ UNCHANGED world
  <2>1. VerifierInv'
    BY <1>1, VerifyInv DEF IInv
  <2>2. UNCHANGED <<now, log, pending, rewritten, fetched, chain, review>>
    BY <1>1 DEF world
  <2>3. pc # "idle" /\ UNCHANGED call
    BY <1>1 DEF Verify, CheckInputs, CheckStatement, CheckStray, CheckJoin, CheckRecord, Decide,
                Past, At, Fail, Return, Advance
  <2>4. ReviewInv'
    BY <2>2, <2>3, ReviewKept DEF IInv
  <2>5. ChainInv' /\ FetchedInv' /\ LoggedBy(log, now)' /\ PendingInv'
    BY <2>2, SameWorld
  <2> QED BY <2>1, <2>2, <2>4, <2>5 DEF IInv
<1>2. CASE UNCHANGED vars
  <2>1. UNCHANGED <<now, log, pending, rewritten, fetched, chain, review, call, pc, i, incomplete, verdict>>
    BY <1>2 DEF vars, world, verifier
  <2>2. ReviewInv'
    <3>1. CASE pc = "idle"
      BY <2>1, <3>1 DEF ReviewInv
    <3>2. CASE pc # "idle"
      BY <2>1, <3>2, ReviewKept DEF IInv
    <3> QED BY <3>1, <3>2
  <2>3. ChainInv' /\ FetchedInv' /\ LoggedBy(log, now)' /\ PendingInv'
    BY <2>1, SameWorld
  <2>4. VerifierInv'
    BY <2>1 DEF IInv, VerifierInv, SoundSoFar, GapsInv, StatementsSeen, StraysSeen, JoinsSeen,
                RecordsSeen, Walked
  <2> QED BY <2>1, <2>2, <2>3, <2>4 DEF IInv
<1> QED BY <1>1, <1>2, TickInv, FetchInv, StampInv, SignInv, SubmitInv, MisdateInv, RewriteInv,
        PresentInv DEF Next, Publish

\* The ascending list of a finite set of integers holds its members, in order.
Rank(S, x) == Cardinality({y \in S : y =< x})

\* Ranks count from 1, in the order of the integers.
LEMMA RankFacts ==
  ASSUME NEW S \in SUBSET Int, IsFiniteSet(S)
  PROVE  /\ \A x \in S : Rank(S, x) \in 1..Cardinality(S)
         /\ \A x, y \in S : x < y => Rank(S, x) < Rank(S, y)
<1>1. ASSUME NEW x \in S
      PROVE  /\ IsFiniteSet({z \in S : z =< x}) /\ Rank(S, x) \in Nat
             /\ Rank(S, x) =< Cardinality(S)
  <2>1. {z \in S : z =< x} \subseteq S
    OBVIOUS
  <2> QED BY <2>1, FS_Subset, FS_CardinalityType DEF Rank
<1>2. ASSUME NEW x \in S
      PROVE  Rank(S, x) \in 1..Cardinality(S)
  <2>1. x \in {z \in S : z =< x}
    OBVIOUS
  <2>2. {z \in S : z =< x} # {}
    BY <2>1
  <2>3. Rank(S, x) # 0
    BY <1>1, <2>2, FS_EmptySet DEF Rank
  <2>4. Cardinality(S) \in Nat
    BY FS_CardinalityType
  <2>5. Rank(S, x) \in Nat /\ Rank(S, x) =< Cardinality(S)
    BY <1>1
  <2> QED BY <2>3, <2>4, <2>5
<1>3. ASSUME NEW x \in S, NEW y \in S, x < y
      PROVE  Rank(S, x) < Rank(S, y)
  <2> DEFINE A == {z \in S : z =< x}
             B == {z \in S : z =< y}
  <2>1. A \subseteq B /\ y \in B /\ y \notin A
    <3>1. \A z \in S : z \in Int
      OBVIOUS
    <3>2. \A z \in S : z =< x => z =< y
      BY <1>3, <3>1
    <3>3. y =< y /\ ~(y =< x)
      BY <1>3, <3>1
    <3> QED BY <3>2, <3>3
  <2>2. IsFiniteSet(B) /\ Cardinality(B) \in Nat /\ Cardinality(A) \in Nat
    BY <1>1, FS_CardinalityType
  <2>3. Rank(S, x) = Cardinality(A) /\ Rank(S, y) = Cardinality(B)
    BY DEF Rank
  <2> HIDE DEF A, B
  <2>4. A # B
    BY <2>1
  <2>5. Cardinality(A) =< Cardinality(B) /\ (Cardinality(A) = Cardinality(B) => A = B)
    BY <2>1, <2>2, FS_Subset
  <2> QED BY <2>2, <2>3, <2>4, <2>5
<1> QED BY <1>2, <1>3

\* The list is of the set, strictly ascending, and misses no member.
LEMMA AscendingFacts ==
  ASSUME NEW S \in SUBSET Int, IsFiniteSet(S)
  PROVE  LET s == Ascending(S) IN
         /\ DOMAIN s = 1..Cardinality(S) /\ Len(s) = Cardinality(S) /\ Cardinality(S) \in Nat
         /\ \A k \in DOMAIN s : s[k] \in S
         /\ \A j, k \in DOMAIN s : j < k => s[j] < s[k]
         /\ \A x \in S : \E k \in DOMAIN s : s[k] = x
<1> DEFINE n == Cardinality(S)
           s == Ascending(S)
           f == [x \in S |-> Rank(S, x)]
           ranks == {Rank(S, x) : x \in S}
<1>1. n \in Nat /\ DOMAIN s = 1..n /\ Len(s) = n
  <2>1. IsArray(s) /\ Len(s) = n
    BY AscendingArray
  <2> QED BY <2>1, ArrayFacts
<1>2. /\ \A x \in S : Rank(S, x) \in 1..n
      /\ \A x, y \in S : x < y => Rank(S, x) < Rank(S, y)
  BY RankFacts
<1>3. \A x, y \in S : Rank(S, x) = Rank(S, y) => x = y
  <2> SUFFICES ASSUME NEW x \in S, NEW y \in S, Rank(S, x) = Rank(S, y), x # y PROVE FALSE
    OBVIOUS
  <2>1. x \in Int /\ y \in Int
    OBVIOUS
  <2>2. x < y \/ y < x
    BY <2>1
  <2>3. Rank(S, x) \in Int /\ Rank(S, y) \in Int
    BY <1>2
  <2> QED BY <1>2, <2>2, <2>3
<1>4. ranks = 1..n
  <2>1. ranks \subseteq 1..n
    BY <1>2
  <2>2. IsFiniteSet(1..n) /\ Cardinality(1..n) = n
    <3>1. IF 1 > n THEN Cardinality(1..n) = 0 ELSE Cardinality(1..n) = n - 1 + 1
      BY <1>1, FS_Interval, SMTT(30)
    <3> QED BY <1>1, <3>1, FS_Interval
  <2>3. f \in Bijection(S, ranks)
    <3>1. f \in [S -> ranks]
      OBVIOUS
    <3>2. \A x, y \in S : f[x] = f[y] => x = y
      BY <1>3
    <3>3. \A r \in ranks : \E x \in S : f[x] = r
      OBVIOUS
    <3> QED BY <3>1, <3>2, <3>3 DEF Bijection, Injection, Surjection, IsInjective
  <2>4. Cardinality(ranks) = n
    <3> HIDE DEF f
    <3> QED BY <2>3, FS_Bijection DEF ExistsBijection
  <2> HIDE DEF ranks
  <2> QED BY <2>1, <2>2, <2>4, FS_Subset
<1>5. ASSUME NEW k \in 1..n
      PROVE  s[k] \in S /\ Rank(S, s[k]) = k
  <2>1. \E x \in S : Cardinality({y \in S : y =< x}) = k
    BY <1>4 DEF Rank
  <2>2. s[k] = CHOOSE x \in S : Cardinality({y \in S : y =< x}) = k
    BY DEF Ascending
  <2> QED BY <2>1, <2>2 DEF Rank
<1>6. ASSUME NEW j \in 1..n, NEW k \in 1..n, j < k
      PROVE  s[j] < s[k]
  <2>1. s[j] \in Int /\ s[k] \in Int /\ Rank(S, s[j]) = j /\ Rank(S, s[k]) = k
    BY <1>5
  <2>2. ~(s[k] < s[j]) /\ s[k] # s[j]
    BY <1>2, <1>5, <1>6, <2>1
  <2> QED BY <2>1, <2>2
<1>7. ASSUME NEW x \in S
      PROVE  \E k \in 1..n : s[k] = x
  <2>1. Rank(S, x) \in 1..n
    BY <1>2
  <2>2. s[Rank(S, x)] \in S /\ Rank(S, s[Rank(S, x)]) = Rank(S, x)
    BY <1>5, <2>1
  <2>3. s[Rank(S, x)] = x
    BY <1>3, <2>2
  <2> QED BY <2>1, <2>3
<1> QED BY <1>1, <1>5, <1>6, <1>7

-----------------------------------------------------------------------------
(* What is published *)

\* Statement k, given the ones before it.
StatementFrom(style, f, k) ==
  statement(style, k, IF k = 1 THEN NoHash ELSE StatementHash(f[k - 1]),
            sth(Leaves(style, chain[k].log), chain[k].fetched), chain[k].at)

StatementsTo(style, m, f) == f = [k \in 1..m |-> StatementFrom(style, f, k)]

\* The recursion along the chain has a solution, however far it is followed.
LEMMA StatementsExist ==
  ASSUME NEW style
  PROVE  \A m \in Nat : \E f : StatementsTo(style, m, f)
<1> DEFINE T == {m \in Nat : \E f : StatementsTo(style, m, f)}
<1>1. 0 \in T
  <2>1. StatementsTo(style, 0, [k \in 1..0 |-> 0])
    BY DEF StatementsTo
  <2> QED BY <2>1
<1>2. ASSUME NEW m \in T
      PROVE  m + 1 \in T
  <2>1. PICK f : StatementsTo(style, m, f)
    OBVIOUS
  <2> DEFINE g == [k \in 1..(m + 1) |-> StatementFrom(style, f, k)]
  <2>2. m \in Nat
    OBVIOUS
  <2>3. ASSUME NEW k \in 1..m
        PROVE  g[k] = f[k]
    <3>1. f[k] = StatementFrom(style, f, k)
      BY <2>1 DEF StatementsTo
    <3> QED BY <2>2, <3>1
  <2>4. ASSUME NEW k \in 1..(m + 1)
        PROVE  StatementFrom(style, f, k) = StatementFrom(style, g, k)
    <3>1. k = 1 \/ k - 1 \in 1..m
      BY <2>2
    <3>2. k = 1 \/ g[k - 1] = f[k - 1]
      BY <2>3, <3>1
    <3> HIDE DEF g
    <3> QED BY <3>2 DEF StatementFrom
  <2>5. StatementsTo(style, m + 1, g)
    BY <2>4 DEF StatementsTo
  <2> QED BY <2>2, <2>5
<1> HIDE DEF T
<1>3. T = Nat
  <2>1. T \in SUBSET Nat
    BY DEF T
  <2> QED BY <1>1, <1>2, <2>1, Induct
<1> QED BY <1>3 DEF T

\* Each statement published is what its recursive definition says.
LEMMA StatementEquation ==
  ASSUME IsArray(chain), NEW style, NEW k \in DOMAIN chain
  PROVE  Statements(style)[k] = StatementFrom(style, Statements(style), k)
<1> DEFINE n == Len(chain)
           Body(f) == [j \in DOMAIN chain |->
             statement(style, j, IF j = 1 THEN NoHash ELSE StatementHash(f[j - 1]),
                       sth(Leaves(style, chain[j].log), chain[j].fetched), chain[j].at)]
           st == CHOOSE f : f = Body(f)
<1>1. n \in Nat /\ DOMAIN chain = 1..n
  BY ArrayFacts
<1>2. \E f : f = Body(f)
  <2>1. PICK f : StatementsTo(style, n, f)
    BY <1>1, StatementsExist
  <2> HIDE DEF n
  <2>2. f = Body(f)
    BY <1>1, <2>1 DEF StatementsTo, StatementFrom
  <2> QED BY <2>2
<1>3. st = Body(st)
  <2> HIDE DEF Body
  <2> QED BY <1>2
<1>4. Statements(style) = [j \in DOMAIN chain |-> st[j]]
  BY DEF Statements
<1> HIDE DEF st
<1>5. Statements(style) = st
  BY <1>3, <1>4
<1>6. st[k] = StatementFrom(style, st, k)
  BY <1>3 DEF StatementFrom
<1> QED BY <1>5, <1>6

-----------------------------------------------------------------------------
(* Written times *)

\* Hours, minutes and seconds add up to the second of the day.
LEMMA ClockSum ==
  ASSUME NEW c \in Int, 0 =< c, c < 86400
  PROVE  (c \div 3600) * 3600 + ((c \div 60) % 60) * 60 + (c % 60) = c
<1>1. c \div 3600 = (c \div 60) \div 60
  OBVIOUS
<1> DEFINE m == c \div 60
<1>2. m \in Nat /\ c = m * 60 + (c % 60)
  OBVIOUS
<1>3. m = (m \div 60) * 60 + (m % 60)
  OBVIOUS
<1> QED BY <1>1, <1>2, <1>3

\* The digits of a half second and of a whole one.
LEMMA HalfDigits ==
  ASSUME NEW odd \in {0, 1}, NEW padded, NEW f, f = HalfFraction(odd = 1, padded)
  PROVE  /\ Len(f) \in Nat /\ (odd = 1 => Len(f) >= 1)
         /\ Digit(f, 1) = IF odd = 1 THEN 5 ELSE 0
         /\ \A k \in Nat : k >= 2 => Digit(f, k) = 0
<1>1. f \in {<<5, 0, 0>>, <<0, 0>>, <<5>>, <<>>} /\ (odd = 1 => f \in {<<5, 0, 0>>, <<5>>})
      /\ (odd = 0 => f \in {<<0, 0>>, <<>>})
  BY DEF HalfFraction
<1>2. CASE f = <<5, 0, 0>>
  <2>1. DOMAIN f = 1..3 /\ Len(f) = 3 /\ f[1] = 5 /\ f[2] = 0 /\ f[3] = 0
    BY <1>2
  <2>2. odd = 1
    BY <1>1, <2>1
  <2>3. \A k \in Nat : k >= 2 => Digit(f, k) = 0
    BY <2>1 DEF Digit
  <2>4. Digit(f, 1) = 5
    BY <2>1 DEF Digit
  <2>5. Len(f) \in Nat /\ Len(f) >= 1
    BY <2>1
  <2> QED BY <2>2, <2>3, <2>4, <2>5
<1>3. CASE f = <<0, 0>>
  <2>1. DOMAIN f = 1..2 /\ Len(f) = 2 /\ f[1] = 0 /\ f[2] = 0
    BY <1>3
  <2> QED BY <1>1, <2>1 DEF Digit
<1>4. CASE f = <<5>>
  <2>1. DOMAIN f = 1..1 /\ Len(f) = 1 /\ f[1] = 5
    BY <1>4
  <2> QED BY <1>1, <2>1 DEF Digit
<1>5. CASE f = <<>>
  <2>1. DOMAIN f = {} /\ Len(f) = 0
    BY <1>5
  <2>2. odd = 0
    BY <1>1, <1>5
  <2> QED BY <2>1, <2>2 DEF Digit
<1> QED BY <1>1, <1>2, <1>3, <1>4, <1>5

\* Fractions compare as the half seconds they write, whatever zeros follow.
LEMMA HalvesCompared ==
  ASSUME NEW o1 \in {0, 1}, NEW o2 \in {0, 1}, NEW p1, NEW p2
  PROVE  LET f == HalfFraction(o1 = 1, p1)
             g == HalfFraction(o2 = 1, p2)
         IN  /\ FractionEqual(f, g) <=> o1 = o2
             /\ FractionLess(f, g) <=> o1 = 0 /\ o2 = 1
<1> DEFINE f == HalfFraction(o1 = 1, p1)
           g == HalfFraction(o2 = 1, p2)
           n == LongerOf(f, g)
<1>1. /\ Digit(f, 1) = IF o1 = 1 THEN 5 ELSE 0
      /\ Digit(g, 1) = IF o2 = 1 THEN 5 ELSE 0
      /\ \A k \in Nat : k >= 2 => Digit(f, k) = 0 /\ Digit(g, k) = 0
  BY HalfDigits
<1>2. n \in Nat /\ (o1 = 1 \/ o2 = 1 => n >= 1)
  BY HalfDigits DEF LongerOf
<1> HIDE DEF f, g, n
<1>3. \A k \in 1..n : k = 1 \/ (Digit(f, k) = 0 /\ Digit(g, k) = 0)
  BY <1>1, <1>2
<1>4. o1 = 1 \/ o2 = 1 => 1 \in 1..n
  BY <1>2
<1>5. FractionEqual(f, g) <=> o1 = o2
  <2>1. FractionEqual(f, g) <=> \A k \in 1..n : Digit(f, k) = Digit(g, k)
    BY DEF FractionEqual, n
  <2> QED BY <1>1, <1>3, <1>4, <2>1
<1>6. FractionLess(f, g) <=> o1 = 0 /\ o2 = 1
  <2>1. FractionLess(f, g) <=> \E k \in 1..n : Digit(f, k) < Digit(g, k) /\ \A j \in 1..(k - 1) : Digit(f, j) = Digit(g, j)
    BY DEF FractionLess, n
  <2>2. ASSUME FractionLess(f, g)
        PROVE  o1 = 0 /\ o2 = 1
    <3>1. PICK k \in 1..n : Digit(f, k) < Digit(g, k)
      BY <2>1, <2>2
    <3>2. k = 1
      BY <1>3, <3>1
    <3> QED BY <1>1, <3>1, <3>2
  <2>3. ASSUME o1 = 0, o2 = 1
        PROVE  FractionLess(f, g)
    <3>1. 1 \in 1..n /\ Digit(f, 1) < Digit(g, 1) /\ 1..(1 - 1) = {}
      BY <1>1, <1>4, <2>3
    <3> QED BY <2>1, <3>1
  <2> QED BY <2>2, <2>3
<1> QED BY <1>5, <1>6 DEF f, g

\* A civil date is a whole number of days.
LEMMA DaysAreInt ==
  ASSUME NEW y \in Int, NEW m \in Int, NEW d \in Int
  PROVE  days_from_civil(y, m, d) \in Int
<1> DEFINE year == IF m =< 2 THEN y - 1 ELSE y
           era == year \div 400
           yoe == year - era * 400
           doy == (153 * (m + (IF m > 2 THEN -3 ELSE 9)) + 2) \div 5 + d - 1
           doe == yoe * 365 + yoe \div 4 - yoe \div 100 + doy
<1>1. days_from_civil(y, m, d) = era * 146097 + doe - 719468
  BY DEF days_from_civil
<1>2. year \in Int
  OBVIOUS
<1> HIDE DEF year
<1>3. era \in Int /\ yoe \in Int
  BY <1>2
<1>4. doy \in Int
  OBVIOUS
<1> HIDE DEF era, yoe, doy
<1>5. doe \in Int
  BY <1>3, <1>4
<1> HIDE DEF doe
<1> QED BY <1>1, <1>3, <1>5

\* An instant is the local seconds less the offset.
LEMMA InstantIs ==
  ASSUME NEW w
  PROVE  /\ instant(w).frac = w.fraction
         /\ instant(w).secs
              = Seconds(days_from_civil(w.year, w.month, w.day), w.hour, w.minute, w.second) - Offset(w)
BY DEF instant

\* The fields of a time, and the instant they name.
LEMMA InstantOf ==
  ASSUME NEW y, NEW m, NEW d, NEW h, NEW mi, NEW s, NEW f, NEW sg, NEW oh, NEW om,
         NEW w, w = [year |-> y, month |-> m, day |-> d, hour |-> h, minute |-> mi, second |-> s,
                     fraction |-> f, sign |-> sg, offHour |-> oh, offMinute |-> om]
  PROVE  /\ w.sign = sg /\ w.offHour = oh /\ w.offMinute = om
         /\ instant(w).frac = f
         /\ instant(w).secs = Seconds(days_from_civil(y, m, d), h, mi, s) - Offset(w)
<1>1. /\ w.year = y /\ w.month = m /\ w.day = d /\ w.hour = h /\ w.minute = mi /\ w.second = s
      /\ w.fraction = f /\ w.sign = sg /\ w.offHour = oh /\ w.offMinute = om
  OBVIOUS
<1>2. /\ instant(w).frac = w.fraction
      /\ instant(w).secs
           = Seconds(days_from_civil(w.year, w.month, w.day), w.hour, w.minute, w.second) - Offset(w)
  BY InstantIs
<1> QED BY <1>1, <1>2

\* The day of the midnight around which a style's times are.
DayAfter(style)  == days_from_civil(style.after[1], style.after[2], style.after[3])
DayBefore(style) == days_from_civil(style.before[1], style.before[2], style.before[3])

\* Whole seconds from the start of a style's evidence, as seconds of the epoch.
SecondsAt(style, h) == DayAfter(style) * 86400 + h - 1

\* The two dates of a style are a day apart.
LEMMA DaysFollow ==
  ASSUME NEW style, DatesFollow(style)
  PROVE  DayAfter(style) \in Int /\ DayBefore(style) \in Int /\ DayAfter(style) = DayBefore(style) + 1
<1>1. /\ style.after[1] \in Int /\ style.after[2] \in Int /\ style.after[3] \in Int
      /\ style.before[1] \in Int /\ style.before[2] \in Int /\ style.before[3] \in Int
  BY DEF DatesFollow
<1>2. DayAfter(style) = DayBefore(style) + 1
  BY DEF DatesFollow, DayAfter, DayBefore
<1>3. DayAfter(style) \in Int
  BY <1>1, DaysAreInt DEF DayAfter
<1>4. DayBefore(style) \in Int
  BY <1>1, DaysAreInt DEF DayBefore
<1> QED BY <1>2, <1>3, <1>4

\* A zone is an hour ahead, an hour behind or neither.
LEMMA ShiftFacts ==
  ASSUME NEW zone
  PROVE  /\ Shift(zone) \in {3600, -3600, 0}
         /\ zone = "+" => Shift(zone) = 3600
         /\ zone = "-" => Shift(zone) = -3600
         /\ zone \notin {"+", "-"} => Shift(zone) = 0
<1>1. CASE zone = "+"
  BY <1>1 DEF Shift
<1>2. CASE zone = "-"
  BY <1>2 DEF Shift
<1>3. CASE zone \notin {"+", "-"}
  BY <1>3 DEF Shift
<1> QED BY <1>1, <1>2, <1>3

\* The offset that is written undoes the shift of the clock.
LEMMA OffsetWritten ==
  ASSUME NEW zone, NEW w, w.sign = (IF zone = "leap" THEN "Z" ELSE zone),
         w.offHour = (IF zone \in {"+", "-"} THEN 1 ELSE 0), w.offMinute = 0
  PROVE  Offset(w) = Shift(zone)
<1>1. CASE zone = "+"
  <2>1. w.sign = "+" /\ w.offHour = 1 /\ w.offMinute = 0
    BY <1>1
  <2>2. Offset(w) = 1 * 3600 + 0 * 60
    BY <2>1 DEF Offset
  <2> QED BY <1>1, <2>2, ShiftFacts
<1>2. CASE zone = "-"
  <2>1. w.sign = "-" /\ w.offHour = 1 /\ w.offMinute = 0
    BY <1>2
  <2>2. Offset(w) = -(1 * 3600 + 0 * 60)
    BY <2>1 DEF Offset
  <2> QED BY <1>2, <2>2, ShiftFacts
<1>3. CASE zone \notin {"+", "-"}
  <2>1. w.sign \notin {"+", "-"}
    BY <1>3
  <2>2. Offset(w) = 0
    BY <2>1 DEF Offset
  <2> QED BY <1>3, <2>2, ShiftFacts
<1> QED BY <1>1, <1>2, <1>3

\* The seconds of the local clock, on the day before midnight or after it.
LEMMA LocalSeconds ==
  ASSUME NEW B \in Int, NEW local \in Int, -3601 =< local, local =< 46800, NEW clock, NEW D,
         clock = local % 86400, D = (IF local < 0 THEN B ELSE B + 1)
  PROVE  Seconds(D, clock \div 3600, (clock \div 60) % 60, clock % 60) = (B + 1) * 86400 + local
<1>1. clock \in Int /\ 0 =< clock /\ clock < 86400 /\ clock = (IF local < 0 THEN local + 86400 ELSE local)
  OBVIOUS
<1>2. (clock \div 3600) * 3600 + ((clock \div 60) % 60) * 60 + (clock % 60) = clock
  BY <1>1, ClockSum
<1>3. PICK hh, mm, ss : hh = (clock \div 3600) * 3600 /\ mm = ((clock \div 60) % 60) * 60 /\ ss = clock % 60
  OBVIOUS
<1>4. hh \in Int /\ mm \in Int /\ ss \in Int /\ hh + mm + ss = clock
  BY <1>1, <1>2, <1>3
<1>5. D \in Int /\ D * 86400 + clock = (B + 1) * 86400 + local
  BY <1>1
<1>6. D * 86400 + hh + mm + ss = (B + 1) * 86400 + local
  BY <1>1, <1>4, <1>5
<1> QED BY <1>3, <1>6 DEF Seconds

\* However a tick is written, the instant is that of the tick.
LEMMA WrittenInstant ==
  ASSUME NEW style, DatesFollow(style), NEW sp, NEW t \in Nat, t =< 86400
  PROVE  /\ instant(Written(style, sp, t)).secs = SecondsAt(style, t \div 2)
         /\ instant(Written(style, sp, t)).frac = HalfFraction(t % 2 = 1, sp.padded)
<1>1. PICK shift, A, B : shift = Shift(sp.zone) /\ A = DayAfter(style) /\ B = DayBefore(style)
  OBVIOUS
<1>2. PICK local : local = (t \div 2) - 1 + shift
  OBVIOUS
<1> DEFINE leap == sp.zone = "leap" /\ local = 0
<1> HIDE DEF leap
<1>3. PICK date, clock, second, f, sign, hours :
        /\ date = IF local < 0 \/ leap THEN style.before ELSE style.after
        /\ clock = IF leap THEN 86399 ELSE local % 86400
        /\ second = IF leap THEN 60 ELSE clock % 60
        /\ f = HalfFraction(t % 2 = 1, sp.padded)
        /\ sign = IF sp.zone = "leap" THEN "Z" ELSE sp.zone
        /\ hours = IF sp.zone \in {"+", "-"} THEN 1 ELSE 0
  OBVIOUS
<1>4. PICK w : w = Written(style, sp, t)
  OBVIOUS
<1>5. w = [year |-> date[1], month |-> date[2], day |-> date[3],
           hour |-> clock \div 3600, minute |-> (clock \div 60) % 60, second |-> second,
           fraction |-> f, sign |-> sign, offHour |-> hours, offMinute |-> 0]
  BY <1>1, <1>2, <1>3, <1>4 DEF Written, leap
<1>6. PICK D : D = days_from_civil(date[1], date[2], date[3])
  OBVIOUS
<1>7. /\ w.sign = sign /\ w.offHour = hours /\ w.offMinute = 0
      /\ instant(w).frac = f
      /\ instant(w).secs = Seconds(D, clock \div 3600, (clock \div 60) % 60, second) - Offset(w)
  BY <1>5, <1>6, InstantOf
<1>8. Offset(w) = shift
  BY <1>1, <1>3, <1>7, OffsetWritten
<1>9. A \in Int /\ B \in Int /\ A = B + 1 /\ shift \in {3600, -3600, 0}
       /\ (sp.zone = "leap" => shift = 0)
  BY <1>1, DaysFollow, ShiftFacts
<1>10. D = IF local < 0 \/ leap THEN B ELSE A
  BY <1>1, <1>3, <1>6 DEF DayAfter, DayBefore
<1>11. Seconds(D, clock \div 3600, (clock \div 60) % 60, second) = A * 86400 + local
  <2>1. CASE leap
    <3>1. clock = 86399 /\ local = 0 /\ D = B /\ second = 60
      BY <1>3, <1>10, <2>1 DEF leap
    <3>2. 86399 \div 3600 = 23 /\ (86399 \div 60) % 60 = 59
      OBVIOUS
    <3>3. Seconds(D, clock \div 3600, (clock \div 60) % 60, second) = Seconds(B, 23, 59, 60)
      BY <3>1, <3>2
    <3> QED BY <1>9, <3>1, <3>3 DEF Seconds
  <2>2. CASE ~leap
    <3>1. local \in Int /\ -3601 =< local /\ local =< 46800
      BY <1>2, <1>9
    <3>2. clock = local % 86400 /\ second = clock % 60
      BY <1>3, <2>2
    <3>3. D = IF local < 0 THEN B ELSE B + 1
      BY <1>9, <1>10, <2>2
    <3>4. Seconds(D, clock \div 3600, (clock \div 60) % 60, clock % 60) = (B + 1) * 86400 + local
      BY <1>9, <3>1, <3>2, <3>3, LocalSeconds
    <3> QED BY <1>9, <3>2, <3>4
  <2> QED BY <2>1, <2>2
<1>12. instant(w).secs = A * 86400 + (t \div 2) - 1
  <2>1. PICK X : X = Seconds(D, clock \div 3600, (clock \div 60) % 60, second)
    OBVIOUS
  <2>2. instant(w).secs = X - Offset(w)
    BY <1>7, <2>1
  <2>3. X = A * 86400 + local
    BY <1>11, <2>1
  <2>4. PICK h : h = t \div 2 /\ h \in Int
    OBVIOUS
  <2>5. PICK M : M = A * 86400 /\ M \in Int
    BY <1>9
  <2>6. X = M + local /\ local = h - 1 + shift
    BY <1>2, <2>3, <2>4, <2>5
  <2>7. shift \in Int
    BY <1>9
  <2>8. (M + local) - shift = M + h - 1
    BY <2>4, <2>5, <2>6, <2>7
  <2>9. instant(w).secs = M + h - 1
    BY <1>8, <2>2, <2>6, <2>8
  <2> QED BY <2>4, <2>5, <2>9
<1>13. instant(w).secs = SecondsAt(style, t \div 2)
  BY <1>1, <1>12 DEF SecondsAt
<1> QED BY <1>3, <1>4, <1>7, <1>13

\* Two instants whose seconds are given from one origin, with a half or without.
LEMMA InstantsCompared ==
  ASSUME NEW S \in Int, NEW g \in Int, NEW h \in Int, NEW o \in {0, 1}, NEW p \in {0, 1},
         NEW pad, NEW pad2, NEW a, NEW b,
         instant(a).secs = S + g, instant(a).frac = HalfFraction(o = 1, pad),
         instant(b).secs = S + h, instant(b).frac = HalfFraction(p = 1, pad2)
  PROVE  /\ cmp_instant(a, b) < 0 <=> g < h \/ (g = h /\ o = 0 /\ p = 1)
         /\ cmp_instant(a, b) > 0 <=> g > h \/ (g = h /\ o = 1 /\ p = 0)
         /\ \A tol \in Nat : later_than(a, b, tol) <=> g > h + tol \/ (g = h + tol /\ o = 1 /\ p = 0)
<1>1. /\ FractionEqual(instant(a).frac, instant(b).frac) <=> o = p
      /\ FractionLess(instant(a).frac, instant(b).frac) <=> o = 0 /\ p = 1
      /\ FractionLess(instant(b).frac, instant(a).frac) <=> o = 1 /\ p = 0
  BY HalvesCompared
<1>2. PICK x, y : x = instant(a) /\ y = instant(b)
  OBVIOUS
<1>3. PICK xs, ys : xs = x.secs /\ ys = y.secs
  OBVIOUS
<1>4. xs = S + g /\ ys = S + h
  BY <1>2, <1>3
<1>5. cmp_instant(a, b) = IF xs # ys THEN IF xs < ys THEN -1 ELSE 1
                          ELSE IF FractionEqual(x.frac, y.frac) THEN 0
                          ELSE IF FractionLess(x.frac, y.frac) THEN -1 ELSE 1
  BY <1>2, <1>3 DEF cmp_instant
<1>6. \A tol : later_than(a, b, tol) <=> IF xs # ys + tol THEN xs > ys + tol ELSE FractionLess(y.frac, x.frac)
  BY <1>2, <1>3 DEF later_than
<1>7. /\ FractionEqual(x.frac, y.frac) <=> o = p
      /\ FractionLess(x.frac, y.frac) <=> o = 0 /\ p = 1
      /\ FractionLess(y.frac, x.frac) <=> o = 1 /\ p = 0
  BY <1>1, <1>2
<1>8. (xs = ys <=> g = h) /\ (xs < ys <=> g < h) /\ xs \in Int /\ ys \in Int
  BY <1>4
<1>9. \A tol \in Nat : later_than(a, b, tol) <=> g > h + tol \/ (g = h + tol /\ o = 1 /\ p = 0)
  <2>1. SUFFICES ASSUME NEW tol \in Nat
                 PROVE  later_than(a, b, tol) <=> g > h + tol \/ (g = h + tol /\ o = 1 /\ p = 0)
    OBVIOUS
  <2>2. (xs = ys + tol <=> g = h + tol) /\ (xs > ys + tol <=> g > h + tol)
    BY <1>4
  <2>3. later_than(a, b, tol) <=> IF g # h + tol THEN g > h + tol ELSE o = 1 /\ p = 0
    BY <1>6, <1>7, <2>2
  <2> QED BY <2>3
<1>10. CASE g = h
  <2>1. cmp_instant(a, b) = IF o = p THEN 0 ELSE IF o = 0 /\ p = 1 THEN -1 ELSE 1
    BY <1>5, <1>7, <1>8, <1>10
  <2>2. (cmp_instant(a, b) < 0 <=> o = 0 /\ p = 1) /\ (cmp_instant(a, b) > 0 <=> o = 1 /\ p = 0)
    BY <2>1
  <2> QED BY <1>9, <1>10, <2>2
<1>11. CASE g # h
  <2>1. cmp_instant(a, b) = IF g < h THEN -1 ELSE 1
    BY <1>5, <1>8, <1>11
  <2> QED BY <1>9, <1>11, <2>1
<1> QED BY <1>10, <1>11

\* A time is a whole number of seconds from the start, and a half second or none.
TickAt(w, style, t, g, o, pad) ==
  /\ t = 2 * g + o
  /\ instant(w).secs = SecondsAt(style, g) /\ instant(w).frac = HalfFraction(o = 1, pad)

\* The parts of a written tick, named.
LEMMA WrittenAt ==
  ASSUME NEW style, DatesFollow(style), NEW sp, NEW t \in Nat, t =< 86400
  PROVE  \E g, o, pad : g \in Int /\ o \in {0, 1} /\ TickAt(Written(style, sp, t), style, t, g, o, pad)
<1>1. PICK w, pad : w = Written(style, sp, t) /\ pad = sp.padded
  OBVIOUS
<1>2. PICK g \in Int, o \in {0, 1} : g = t \div 2 /\ o = t % 2
  OBVIOUS
<1>3. t = 2 * g + o
  BY <1>2
<1>4. instant(w).secs = SecondsAt(style, t \div 2) /\ instant(w).frac = HalfFraction(t % 2 = 1, pad)
  BY <1>1, WrittenInstant
<1>5. instant(w).secs = SecondsAt(style, g) /\ instant(w).frac = HalfFraction(o = 1, pad)
  BY <1>2, <1>4
<1>6. TickAt(w, style, t, g, o, pad)
  BY <1>3, <1>5 DEF TickAt
<1> QED BY <1>1, <1>6

\* Written times compare as the ticks they are of, whatever the spelling.
LEMMA WrittenCompared ==
  ASSUME NEW style, DatesFollow(style), NEW sp, NEW sq,
         NEW t \in Nat, NEW u \in Nat, t =< 86400, u =< 86400
  PROVE  LET a == Written(style, sp, t)
             b == Written(style, sq, u)
         IN  /\ cmp_instant(a, b) < 0 <=> t < u
             /\ cmp_instant(a, b) > 0 <=> t > u
             /\ \A tol \in Nat : later_than(a, b, tol) <=> t > u + 2 * tol
<1>1. PICK a, b : a = Written(style, sp, t) /\ b = Written(style, sq, u)
  OBVIOUS
<1>2. PICK g, o, pad : g \in Int /\ o \in {0, 1} /\ TickAt(a, style, t, g, o, pad)
  BY <1>1, WrittenAt
<1>3. PICK h, p, pad2 : h \in Int /\ p \in {0, 1} /\ TickAt(b, style, u, h, p, pad2)
  BY <1>1, WrittenAt
<1>4. g \in Int /\ h \in Int /\ o \in {0, 1} /\ p \in {0, 1}
  BY <1>2, <1>3
<1>5. PICK S \in Int : S = SecondsAt(style, 0)
  <2>1. DayAfter(style) \in Int
    BY DaysFollow
  <2> QED BY <2>1 DEF SecondsAt
<1>6. SecondsAt(style, g) = S + g /\ SecondsAt(style, h) = S + h
  <2>1. DayAfter(style) \in Int
    BY DaysFollow
  <2> QED BY <1>4, <1>5, <2>1 DEF SecondsAt
<1>7. /\ instant(a).secs = S + g /\ instant(a).frac = HalfFraction(o = 1, pad)
      /\ instant(b).secs = S + h /\ instant(b).frac = HalfFraction(p = 1, pad2)
  BY <1>2, <1>3, <1>6 DEF TickAt
<1>8. t = 2 * g + o /\ u = 2 * h + p
  BY <1>2, <1>3 DEF TickAt
<1>9. /\ cmp_instant(a, b) < 0 <=> g < h \/ (g = h /\ o = 0 /\ p = 1)
      /\ cmp_instant(a, b) > 0 <=> g > h \/ (g = h /\ o = 1 /\ p = 0)
      /\ \A tol \in Nat : later_than(a, b, tol) <=> g > h + tol \/ (g = h + tol /\ o = 1 /\ p = 0)
  BY <1>4, <1>7, InstantsCompared
<1>10. cmp_instant(a, b) < 0 <=> t < u
  BY <1>4, <1>8, <1>9
<1>11. cmp_instant(a, b) > 0 <=> t > u
  BY <1>4, <1>8, <1>9
<1>12. ASSUME NEW tol \in Nat
       PROVE  later_than(a, b, tol) <=> t > u + 2 * tol
  <2>1. later_than(a, b, tol) <=> g > h + tol \/ (g = h + tol /\ o = 1 /\ p = 0)
    BY <1>9
  <2> QED BY <1>4, <1>8, <2>1
<1> QED BY <1>1, <1>10, <1>11, <1>12

\* The days before a year that is counted from March.
EraDays(era, yoe) == era * 146097 + (yoe * 365 + yoe \div 4 - yoe \div 100)
DaysTo(year) == EraDays(year \div 400, year - (year \div 400) * 400)

\* Every year has days: leap rules included, the count rises from year to year.
LEMMA DaysToRise ==
  ASSUME NEW year \in Int
  PROVE  DaysTo(year) \in Int /\ DaysTo(year - 1) \in Int /\ DaysTo(year - 1) < DaysTo(year)
<1>1. PICK era, yoe : era = year \div 400 /\ yoe = year - era * 400
  OBVIOUS
<1>2. era \in Int /\ yoe \in Int /\ 0 =< yoe /\ yoe < 400 /\ year = era * 400 + yoe
  BY <1>1
<1>3. DaysTo(year) = EraDays(era, yoe)
  BY <1>1 DEF DaysTo, EraDays
<1>4. CASE yoe = 0
  <2>1. (year - 1) \div 400 = era - 1
    BY <1>2, <1>4
  <2>2. (year - 1) - (era - 1) * 400 = 399
    BY <1>2, <1>4
  <2>3. DaysTo(year - 1) = EraDays(era - 1, 399)
    BY <2>1, <2>2 DEF DaysTo
  <2>4. EraDays(era - 1, 399) = (era - 1) * 146097 + (399 * 365 + 99 - 3)
    BY DEF EraDays
  <2>5. EraDays(era, yoe) = era * 146097
    BY <1>2, <1>4 DEF EraDays
  <2> QED BY <1>2, <1>3, <2>3, <2>4, <2>5
<1>5. CASE yoe # 0
  <2>1. (year - 1) \div 400 = era
    BY <1>2, <1>5
  <2>2. (year - 1) - era * 400 = yoe - 1
    BY <1>2
  <2>3. DaysTo(year - 1) = EraDays(era, yoe - 1)
    BY <2>1, <2>2 DEF DaysTo
  <2>4. EraDays(era, yoe) \in Int /\ EraDays(era, yoe - 1) \in Int /\ EraDays(era, yoe - 1) < EraDays(era, yoe)
    <3>1. PICK E \in Int : E = era * 146097
      BY <1>2
    <3>2. PICK q \in Int, q1 \in Int, c \in Int, c1 \in Int :
            q = yoe \div 4 /\ q1 = (yoe - 1) \div 4 /\ c = yoe \div 100 /\ c1 = (yoe - 1) \div 100
      BY <1>2
    <3>3. q1 =< q /\ c =< c1 + 1
      BY <1>2, <3>2
    <3>4. EraDays(era, yoe) = E + (yoe * 365 + q - c) /\ EraDays(era, yoe - 1) = E + ((yoe - 1) * 365 + q1 - c1)
      BY <3>1, <3>2 DEF EraDays
    <3> QED BY <1>2, <3>3, <3>4
  <2> QED BY <1>3, <2>3, <2>4
<1> QED BY <1>4, <1>5

\* The same day of the year before is an earlier day.
LEMMA YearBefore ==
  ASSUME NEW y \in Int, NEW m \in Int, NEW d \in Int
  PROVE  days_from_civil(y - 1, m, d) < days_from_civil(y, m, d)
<1> DEFINE doy == (153 * (m + (IF m > 2 THEN -3 ELSE 9)) + 2) \div 5 + d - 1
           From(year) == LET era == year \div 400
                             yoe == year - era * 400
                             doe == yoe * 365 + yoe \div 4 - yoe \div 100 + doy
                         IN  era * 146097 + doe - 719468
<1>1. doy \in Int
  OBVIOUS
<1>2. PICK year \in Int : year = IF m =< 2 THEN y - 1 ELSE y
  OBVIOUS
<1>3. (IF m =< 2 THEN (y - 1) - 1 ELSE y - 1) = year - 1
  BY <1>2
<1>4. days_from_civil(y, m, d) = From(year) /\ days_from_civil(y - 1, m, d) = From(year - 1)
  BY <1>2, <1>3 DEF days_from_civil
<1> HIDE DEF doy
<1>5. ASSUME NEW n \in Int
      PROVE  From(n) = DaysTo(n) + doy - 719468
  BY <1>1 DEF DaysTo, EraDays
<1> HIDE DEF From
<1>6. From(year) = DaysTo(year) + doy - 719468 /\ From(year - 1) = DaysTo(year - 1) + doy - 719468
  BY <1>5
<1> QED BY <1>1, <1>4, <1>6, DaysToRise

\* A shift is an integer.
LEMMA ShiftIsInt ==
  ASSUME NEW zone
  PROVE  Shift(zone) \in Int
BY ShiftFacts

\* What a written time is made of.
LEMMA WrittenFields ==
  ASSUME NEW style, DatesFollow(style), NEW sp, NEW t \in Nat, NEW w, w = Written(style, sp, t)
  PROVE  /\ w.year \in Int /\ w.month \in Int /\ w.day \in Int
         /\ w.hour \in Int /\ w.minute \in Int /\ w.second \in Int /\ Offset(w) \in Int
         /\ w = [year |-> w.year, month |-> w.month, day |-> w.day, hour |-> w.hour,
                 minute |-> w.minute, second |-> w.second, fraction |-> w.fraction,
                 sign |-> w.sign, offHour |-> w.offHour, offMinute |-> w.offMinute]
<1>1. PICK local : local = (t \div 2) - 1 + Shift(sp.zone)
  OBVIOUS
<1>2. local \in Int
  BY <1>1, ShiftIsInt
<1> DEFINE leap == sp.zone = "leap" /\ local = 0
<1> HIDE DEF leap
<1>3. PICK date, clock, second, f, sign, hours :
        /\ date = IF local < 0 \/ leap THEN style.before ELSE style.after
        /\ clock = IF leap THEN 86399 ELSE local % 86400
        /\ second = IF leap THEN 60 ELSE clock % 60
        /\ f = HalfFraction(t % 2 = 1, sp.padded)
        /\ sign = IF sp.zone = "leap" THEN "Z" ELSE sp.zone
        /\ hours = IF sp.zone \in {"+", "-"} THEN 1 ELSE 0
  OBVIOUS
<1>4. w = [year |-> date[1], month |-> date[2], day |-> date[3],
           hour |-> clock \div 3600, minute |-> (clock \div 60) % 60, second |-> second,
           fraction |-> f, sign |-> sign, offHour |-> hours, offMinute |-> 0]
  BY <1>1, <1>3 DEF Written, leap
<1>5. /\ w.year = date[1] /\ w.month = date[2] /\ w.day = date[3] /\ w.hour = clock \div 3600
      /\ w.minute = (clock \div 60) % 60 /\ w.second = second
      /\ w.sign = sign /\ w.offHour = hours /\ w.offMinute = 0 /\ w.fraction = f
  BY <1>4
<1>6. clock \in Int /\ second \in Int
  <2>1. clock \in Int
    BY <1>2, <1>3
  <2> QED BY <1>3, <2>1
<1>7. date[1] \in Int /\ date[2] \in Int /\ date[3] \in Int
  BY <1>3 DEF DatesFollow
<1>8. Offset(w) = Shift(sp.zone)
  BY <1>3, <1>5, OffsetWritten
<1>9. Offset(w) \in Int
  BY <1>8, ShiftIsInt
<1>10. w.hour \in Int /\ w.minute \in Int /\ w.second \in Int
  BY <1>5, <1>6
<1>11. w.year \in Int /\ w.month \in Int /\ w.day \in Int
  BY <1>5, <1>7
<1>12. w = [year |-> w.year, month |-> w.month, day |-> w.day, hour |-> w.hour,
            minute |-> w.minute, second |-> w.second, fraction |-> w.fraction,
            sign |-> w.sign, offHour |-> w.offHour, offMinute |-> w.offMinute]
  BY <1>4, <1>5
<1> QED BY <1>9, <1>10, <1>11, <1>12

\* The instant that is named when the year alone is another.
LEMMA OtherYear ==
  ASSUME NEW a, NEW w, NEW E, E = days_from_civil(w.year - 1, w.month, w.day),
         a.year = w.year - 1, a.month = w.month, a.day = w.day, a.hour = w.hour,
         a.minute = w.minute, a.second = w.second, Offset(a) = Offset(w)
  PROVE  instant(a).secs = Seconds(E, w.hour, w.minute, w.second) - Offset(w)
<1>1. instant(a).secs = Seconds(days_from_civil(a.year, a.month, a.day), a.hour, a.minute, a.second) - Offset(a)
  BY InstantIs
<1>2. days_from_civil(a.year, a.month, a.day) = E
  OBVIOUS
<1> QED BY <1>1, <1>2

\* A date that is days earlier names an instant at least a day earlier.
LEMMA DaysEarlier ==
  ASSUME NEW w, NEW a, NEW D \in Int, NEW E \in Int, E < D,
         D = days_from_civil(w.year, w.month, w.day), E = days_from_civil(w.year - 1, w.month, w.day),
         w.hour \in Int, w.minute \in Int, w.second \in Int, Offset(w) \in Int,
         a.year = w.year - 1, a.month = w.month, a.day = w.day, a.hour = w.hour,
         a.minute = w.minute, a.second = w.second, Offset(a) = Offset(w)
  PROVE  instant(a).secs \in Int /\ instant(w).secs \in Int /\ instant(a).secs + 86400 =< instant(w).secs
<1>1. instant(w).secs = Seconds(D, w.hour, w.minute, w.second) - Offset(w)
  BY InstantIs
<1>2. instant(a).secs = Seconds(E, w.hour, w.minute, w.second) - Offset(w)
  BY OtherYear
<1>3. PICK h \in Int, m \in Int, s \in Int, o \in Int :
        h = w.hour /\ m = w.minute /\ s = w.second /\ o = Offset(w)
  OBVIOUS
<1>4. PICK x, z : x = instant(a).secs /\ z = instant(w).secs
  OBVIOUS
<1>5. z = Seconds(D, h, m, s) - o /\ x = Seconds(E, h, m, s) - o
  BY <1>1, <1>2, <1>3, <1>4
<1>6. PICK V \in Int : V = h * 3600 + m * 60 + s
  OBVIOUS
<1>7. Seconds(D, h, m, s) = D * 86400 + V /\ Seconds(E, h, m, s) = E * 86400 + V
  BY <1>6 DEF Seconds
<1>8. PICK P, Q : P = Seconds(D, h, m, s) /\ Q = Seconds(E, h, m, s)
  OBVIOUS
<1>9. P \in Int /\ Q \in Int /\ Q + 86400 =< P
  BY <1>7, <1>8
<1>10. z = P - o /\ x = Q - o
  BY <1>5, <1>8
<1>11. z \in Int /\ x \in Int /\ x + 86400 =< z
  BY <1>9, <1>10
<1> QED BY <1>4, <1>11

\* The year before names an instant at least a day earlier.
LEMMA YearEdited ==
  ASSUME NEW style, DatesFollow(style), NEW sp, NEW t \in Nat, NEW w, w = Written(style, sp, t),
         NEW a, a = [w EXCEPT !.year = @ - 1]
  PROVE  instant(a).secs \in Int /\ instant(w).secs \in Int /\ instant(a).secs + 86400 =< instant(w).secs
<1>1. /\ w.year \in Int /\ w.month \in Int /\ w.day \in Int
      /\ w.hour \in Int /\ w.minute \in Int /\ w.second \in Int /\ Offset(w) \in Int
      /\ w = [year |-> w.year, month |-> w.month, day |-> w.day, hour |-> w.hour,
              minute |-> w.minute, second |-> w.second, fraction |-> w.fraction,
              sign |-> w.sign, offHour |-> w.offHour, offMinute |-> w.offMinute]
  BY WrittenFields
<1>2. /\ a.year = w.year - 1 /\ a.month = w.month /\ a.day = w.day /\ a.hour = w.hour
      /\ a.minute = w.minute /\ a.second = w.second /\ a.sign = w.sign
      /\ a.offHour = w.offHour /\ a.offMinute = w.offMinute
  BY <1>1
<1>3. Offset(a) = Offset(w)
  BY <1>2 DEF Offset
<1>4. PICK D, E : D = days_from_civil(w.year, w.month, w.day) /\ E = days_from_civil(w.year - 1, w.month, w.day)
  OBVIOUS
<1>5. D \in Int /\ E \in Int /\ E < D
  <2>1. w.year - 1 \in Int
    BY <1>1
  <2>2. D \in Int /\ E \in Int
    BY <1>1, <1>4, <2>1, DaysAreInt
  <2> QED BY <1>1, <1>4, <2>2, YearBefore
<1>6. PICK v, c : v = w /\ c = a
  OBVIOUS
<1>7. /\ D = days_from_civil(v.year, v.month, v.day) /\ E = days_from_civil(v.year - 1, v.month, v.day)
      /\ v.hour \in Int /\ v.minute \in Int /\ v.second \in Int /\ Offset(v) \in Int
      /\ c.year = v.year - 1 /\ c.month = v.month /\ c.day = v.day /\ c.hour = v.hour
      /\ c.minute = v.minute /\ c.second = v.second /\ Offset(c) = Offset(v)
  BY <1>1, <1>2, <1>3, <1>4, <1>6
<1>8. instant(c).secs \in Int /\ instant(v).secs \in Int /\ instant(c).secs + 86400 =< instant(v).secs
  BY <1>5, <1>7, DaysEarlier
<1> QED BY <1>6, <1>8

\* A time that is written with the year before is earlier than any of the evidence.
LEMMA YearEarlier ==
  ASSUME NEW style, DatesFollow(style), NEW sp, NEW sq,
         NEW t \in Nat, NEW u \in Nat, t =< 86400, u =< 86400,
         NEW a, a = [Written(style, sp, t) EXCEPT !.year = @ - 1]
  PROVE  cmp_instant(a, Written(style, sq, u)) < 0
<1>1. PICK w, b : w = Written(style, sp, t) /\ b = Written(style, sq, u)
  OBVIOUS
<1>2. PICK x, y, z : x = instant(a).secs /\ y = instant(b).secs /\ z = instant(w).secs
  OBVIOUS
<1>3. z \in Int /\ x \in Int /\ x + 86400 =< z
  BY <1>1, <1>2, YearEdited
<1>4. PICK g, k, S : g \in Int /\ k \in Int /\ S \in Int /\ 0 =< k /\ g =< 43200 /\ z = S + g /\ y = S + k
  <2>1. PICK g, o1, pad : g \in Int /\ o1 \in {0, 1} /\ TickAt(w, style, t, g, o1, pad)
    BY <1>1, WrittenAt
  <2>2. PICK k, o2, pad2 : k \in Int /\ o2 \in {0, 1} /\ TickAt(b, style, u, k, o2, pad2)
    BY <1>1, WrittenAt
  <2>3. t = 2 * g + o1 /\ u = 2 * k + o2 /\ z = SecondsAt(style, g) /\ y = SecondsAt(style, k)
    BY <1>2, <2>1, <2>2 DEF TickAt
  <2>4. 0 =< k /\ g =< 43200
    BY <2>1, <2>2, <2>3
  <2>5. PICK S \in Int : S = SecondsAt(style, 0) /\ SecondsAt(style, g) = S + g /\ SecondsAt(style, k) = S + k
    <3>1. DayAfter(style) \in Int
      BY DaysFollow
    <3> QED BY <2>1, <2>2, <3>1 DEF SecondsAt
  <2> QED BY <2>1, <2>2, <2>3, <2>4, <2>5
<1>5. x < y /\ y \in Int
  BY <1>3, <1>4
<1>6. cmp_instant(a, b) = IF x # y THEN IF x < y THEN -1 ELSE 1
                          ELSE IF FractionEqual(instant(a).frac, instant(b).frac) THEN 0
                          ELSE IF FractionLess(instant(a).frac, instant(b).frac) THEN -1 ELSE 1
  BY <1>2 DEF cmp_instant
<1>7. cmp_instant(a, b) = -1
  BY <1>3, <1>5, <1>6
<1> QED BY <1>1, <1>7

-----------------------------------------------------------------------------
(* What a bundle holds *)

\* A style of the bundles, and what a selection takes from the world.
LEMMA StylesFollow ==
  ASSUME NEW v \in Selections
  PROVE  DatesFollow(v.style)
<1>1. \A n \in DOMAIN Styles : DatesFollow(Styles[n])
  BY WitnessingAssumption
<1>2. 1 \in DOMAIN Styles
  BY WitnessingAssumption
<1>3. PICK n, shown, target : n \in DOMAIN Styles /\ v = Selection(Styles[n], shown, target)
  <2>1. CASE v \in {Whole(Styles[n]) : n \in IF rewritten THEN {1} ELSE DOMAIN Styles}
    <3>1. PICK n \in DOMAIN Styles : v = Whole(Styles[n])
      BY <1>2, <2>1
    <3> QED BY <3>1 DEF Whole
  <2>2. CASE v \notin {Whole(Styles[n]) : n \in IF rewritten THEN {1} ELSE DOMAIN Styles}
    <3>1. \E shown, target : v = Selection(Styles[1], shown, target)
      BY <2>2 DEF Selections
    <3> QED BY <1>2, <3>1
  <2> QED BY <2>1, <2>2
<1>4. v.style = Styles[n]
  BY <1>3 DEF Selection
<1> QED BY <1>1, <1>3, <1>4

\* What a log holds, whoever shows it: entries of the public log, each once.
LogOk(entries) ==
  /\ entries \in Seq(Logged \cup {Other}) /\ Len(entries) \in Nat /\ Len(entries) >= 2
  /\ DOMAIN entries = 1..Len(entries)
  /\ Entries(entries) \subseteq Entries(log)
  /\ \A j, k \in DOMAIN entries :
       entries[j] # Other /\ entries[k] # Other /\ entries[j].id = entries[k].id => j = k

\* The public log and every log that was witnessed.
LEMMA LogsOk ==
  ASSUME IInv
  PROVE  LogOk(log) /\ \A k \in DOMAIN chain : LogOk(chain[k].log)
<1>1. \A s, tick : LoggedBy(s, tick) /\ Entries(s) \subseteq Entries(log) => LogOk(s)
  <2>1. SUFFICES ASSUME NEW s, NEW tick, LoggedBy(s, tick), Entries(s) \subseteq Entries(log)
                 PROVE  LogOk(s)
    OBVIOUS
  <2>2. s \in Seq(Logged \cup {Other}) /\ Len(s) >= 2
    BY <2>1 DEF LoggedBy
  <2>3. Len(s) \in Nat /\ DOMAIN s = 1..Len(s)
    BY <2>2, LenProperties
  <2> QED BY <2>1, <2>2, <2>3 DEF LogOk, LoggedBy
<1>2. LoggedBy(log, now)
  BY DEF IInv
<1>3. \A k \in DOMAIN chain : LoggedBy(chain[k].log, chain[k].fetched) /\ Entries(chain[k].log) \subseteq Entries(log)
  BY DEF IInv, ChainInv, HeadInv
<1> QED BY <1>1, <1>2, <1>3

\* Every selection shows a part of the chain, and a log.
LEMMA SelectionTakes ==
  ASSUME IInv, NEW v \in Selections
  PROVE  /\ DOMAIN chain = 1..Len(chain) /\ Len(chain) \in Nat
         /\ v.shown \subseteq DOMAIN chain /\ IsFiniteSet(v.shown) /\ v.shown \in SUBSET Int
         /\ LogOk(v.target)
<1>1. Len(chain) \in Nat /\ DOMAIN chain = 1..Len(chain)
  BY ArrayFacts DEF IInv, ChainInv
<1>2. IsFiniteSet(v.shown)
  BY SelectionShape
<1>3. PICK style, shown, target :
        /\ v = Selection(style, shown, target)
        /\ \/ shown = DOMAIN chain /\ target = log
           \/ \E k \in DOMAIN chain : shown = k..Len(chain) /\ target = log
           \/ \E k \in DOMAIN chain : shown = 1..k /\ target = chain[k].log
           \/ shown = DOMAIN chain \ 2..(Len(chain) - 1) /\ target = log
  BY DEF Selections, Whole
<1>4. v.shown = shown /\ v.target = target
  BY <1>3 DEF Selection
<1>5. shown \subseteq DOMAIN chain
  BY <1>1, <1>3
<1>6. LogOk(target)
  BY <1>3, LogsOk
<1>7. shown \in SUBSET Int
  BY <1>1, <1>5
<1> QED BY <1>1, <1>2, <1>4, <1>5, <1>6, <1>7

\* A head of the public log over the leaves.
SthOf(h, leaves, tick) ==
  /\ h.log = "public" /\ h.tree_size = Len(leaves) /\ h.root_hash = merkle_root(leaves)
  /\ h.timestamp = tick
  /\ h.signature = [key |-> Issuer, over |-> <<"aqta-sth-public-v1", Len(leaves), merkle_root(leaves), tick>>]
  /\ h = [log |-> h.log, org_id |-> h.org_id, tree_size |-> h.tree_size, form |-> h.form,
          root_hash |-> h.root_hash, timestamp |-> h.timestamp, signature |-> h.signature]

\* The fields of a head that is built.
LEMMA SthFields ==
  ASSUME NEW leaves, NEW tick
  PROVE  SthOf(sth(leaves, tick), leaves, tick)
<1> DEFINE h == sth(leaves, tick)
<1> DEFINE g == [log |-> "public", org_id |-> NoValue, tree_size |-> Len(leaves), form |-> TRUE,
                 root_hash |-> merkle_root(leaves), timestamp |-> tick, signature |-> Null]
<1>1. Preimage(g) = <<"aqta-sth-public-v1", Len(leaves), merkle_root(leaves), tick>>
  BY DEF Preimage
<1>2. h = [g EXCEPT !.signature = [key |-> Issuer, over |-> Preimage(g)]]
  BY DEF sth
<1> QED BY <1>1, <1>2 DEF SthOf

\* A statement that was published: what it names, and when.
Published(w, style, k) ==
  /\ w.seq = k /\ w.size = Len(chain[k].log) /\ w.root = merkle_root(Leaves(style, chain[k].log))
  /\ w.headTime = chain[k].fetched /\ w.at = Written(style, style.stamps, chain[k].at)
  /\ w.headSignature = [key |-> Issuer, over |-> <<"aqta-sth-public-v1", w.size, w.root, w.headTime>>]

StatementShape(w) ==
  w = [form |-> w.form, signed |-> w.signed, key |-> w.key, id |-> w.id, seq |-> w.seq, prev |-> w.prev,
       logKey |-> w.logKey, size |-> w.size, root |-> w.root, headTime |-> w.headTime,
       headSignature |-> w.headSignature, at |-> w.at]

\* One leaf per entry.
LEMMA LeavesLen ==
  ASSUME NEW style, NEW entries, LogOk(entries)
  PROVE  /\ Len(Leaves(style, entries)) = Len(entries) /\ DOMAIN Leaves(style, entries) = DOMAIN entries
         /\ \A k \in DOMAIN entries :
              Leaves(style, entries)[k] = IF entries[k] = Other THEN Foreign(Other)
                                          ELSE leaf_hash(Profile!RecordLeaf(Item(style, entries[k])))
<1>1. Len(Leaves(style, entries)) = Len(entries)
  BY LogArray DEF LogOk
<1>2. \A k \in DOMAIN entries :
        Leaves(style, entries)[k] = IF entries[k] = Other THEN Foreign(Other)
                                    ELSE leaf_hash(Profile!RecordLeaf(Item(style, entries[k])))
  BY DEF Leaves
<1>3. DOMAIN Leaves(style, entries) = DOMAIN entries
  BY DEF Leaves
<1> QED BY <1>1, <1>2, <1>3

\* Each statement of the chain names the log that was fetched, and when it was stamped.
LEMMA PublishedIs ==
  ASSUME IInv, NEW style, NEW k \in DOMAIN chain, NEW w, w = Statements(style)[k]
  PROVE  Published(w, style, k) /\ StatementShape(w)
<1>1. PICK leaves, head, prev :
        /\ leaves = Leaves(style, chain[k].log) /\ head = sth(leaves, chain[k].fetched)
        /\ w = statement(style, k, prev, head, chain[k].at)
  <2>1. IsArray(chain)
    BY DEF IInv, ChainInv
  <2>2. w = StatementFrom(style, Statements(style), k)
    BY <2>1, StatementEquation
  <2> QED BY <2>2 DEF StatementFrom
<1>2. Len(leaves) = Len(chain[k].log)
  BY <1>1, LogsOk, LeavesLen
<1>3. /\ head.tree_size = Len(leaves) /\ head.root_hash = merkle_root(leaves)
      /\ head.timestamp = chain[k].fetched
      /\ head.signature = [key |-> Issuer,
                           over |-> <<"aqta-sth-public-v1", Len(leaves), merkle_root(leaves), chain[k].fetched>>]
  <2>1. SthOf(head, leaves, chain[k].fetched)
    BY <1>1, SthFields
  <2> QED BY <2>1 DEF SthOf
<1>4. w = [form |-> TRUE, signed |-> TRUE, key |-> Authority, id |-> "witness", seq |-> k, prev |-> prev,
           logKey |-> Issuer, size |-> head.tree_size, root |-> head.root_hash, headTime |-> head.timestamp,
           headSignature |-> head.signature, at |-> Written(style, style.stamps, chain[k].at)]
  BY <1>1 DEF statement
<1>5. StatementShape(w)
  BY <1>4 DEF StatementShape
<1>6. /\ w.seq = k /\ w.size = head.tree_size /\ w.root = head.root_hash /\ w.headTime = head.timestamp
      /\ w.headSignature = head.signature /\ w.at = Written(style, style.stamps, chain[k].at)
  BY <1>4
<1> QED BY <1>1, <1>2, <1>3, <1>5, <1>6 DEF Published

\* The statements of a bundle are those shown, in their order.
LEMMA BundleStatements ==
  ASSUME IInv, NEW v \in Selections, NEW r, r.witnessed = bundle(v).witnessed
  PROVE  /\ DOMAIN r.witnessed = DOMAIN Ascending(v.shown) /\ DOMAIN r.witnessed = 1..Len(r.witnessed)
         /\ Len(r.witnessed) = Cardinality(v.shown) /\ Len(r.witnessed) \in Nat
         /\ \A n \in DOMAIN r.witnessed :
              /\ Ascending(v.shown)[n] \in v.shown /\ Ascending(v.shown)[n] \in DOMAIN chain
              /\ r.witnessed[n] = Statements(v.style)[Ascending(v.shown)[n]]
              /\ Published(r.witnessed[n], v.style, Ascending(v.shown)[n]) /\ StatementShape(r.witnessed[n])
<1> DEFINE order == Ascending(v.shown)
           published == Statements(v.style)
<1>1. r.witnessed = [n \in DOMAIN order |-> published[order[n]]]
  BY DEF bundle
<1>2. /\ DOMAIN order = 1..Cardinality(v.shown) /\ Cardinality(v.shown) \in Nat
      /\ \A n \in DOMAIN order : order[n] \in v.shown
  BY SelectionTakes, AscendingFacts
<1> HIDE DEF order, published
<1>3. DOMAIN r.witnessed = DOMAIN order
  BY <1>1
<1>4. Len(r.witnessed) = Cardinality(v.shown)
  BY <1>1, <1>2
<1>5. ASSUME NEW n \in DOMAIN r.witnessed
      PROVE  /\ order[n] \in v.shown /\ order[n] \in DOMAIN chain
             /\ r.witnessed[n] = published[order[n]]
             /\ Published(r.witnessed[n], v.style, order[n]) /\ StatementShape(r.witnessed[n])
  <2>1. order[n] \in v.shown /\ order[n] \in DOMAIN chain
    BY <1>2, <1>3, SelectionTakes
  <2>2. r.witnessed[n] = published[order[n]]
    BY <1>1, <1>3
  <2>3. PICK w, k : w = r.witnessed[n] /\ k = order[n]
    OBVIOUS
  <2>4. Published(w, v.style, k) /\ StatementShape(w)
    BY <2>1, <2>2, <2>3, PublishedIs DEF published
  <2> QED BY <2>1, <2>2, <2>3, <2>4
<1> QED BY <1>2, <1>3, <1>4, <1>5 DEF order, published

-----------------------------------------------------------------------------
(* Leaves *)

\* A leaf is one organisation's, or that of one record of ours.
LEMMA LeafInjective ==
  ASSUME NEW a, NEW b, NEW kind, NEW rec, NEW kind2, NEW rec2
  PROVE  /\ Foreign(a) = Foreign(b) => a = b
         /\ leaf_hash(<<kind, rec>>) = leaf_hash(<<kind2, rec2>>) => kind = kind2 /\ rec = rec2
         /\ Foreign(a) # leaf_hash(<<kind, rec>>)
<1>1. Foreign(a) = Foreign(b) => a = b
  BY DEF Foreign, leaf_hash
<1>2. leaf_hash(<<kind, rec>>) = leaf_hash(<<kind2, rec2>>) => kind = kind2 /\ rec = rec2
  BY DEF leaf_hash
<1>3. Foreign(a) # leaf_hash(<<kind, rec>>)
  <2>1. Len(<<a>>) = 1 /\ Len(<<kind, rec>>) = 2
    OBVIOUS
  <2> QED BY <2>1 DEF Foreign, leaf_hash
<1> QED BY <1>1, <1>2, <1>3

\* A record carries its entry's name and time, and the time as it is written.
LEMMA ItemFields ==
  ASSUME NEW style, NEW e
  PROVE  /\ Item(style, e).record.id = e.id /\ Item(style, e).record.time = e.claims
         /\ Item(style, e).record.timestamp = Written(style, style.claims, e.claims)
<1>1. CASE e.id = "checkpoint"
  BY <1>1 DEF Item
<1>2. CASE e.id # "checkpoint"
  BY <1>2 DEF Item
<1> QED BY <1>1, <1>2

\* The leaf of an entry of ours.
Leaf(style, e) == leaf_hash(Profile!RecordLeaf(Item(style, e)))

\* Leaves tell the entries of the log apart.
LEMMA LeavesDiffer ==
  ASSUME NEW style, NEW e, NEW f, NEW a
  PROVE  /\ Foreign(a) # Leaf(style, e)
         /\ Leaf(style, e) = Leaf(style, f) => e.id = f.id
<1>1. PICK x, y : x = Item(style, e) /\ y = Item(style, f)
  OBVIOUS
<1>2. Leaf(style, e) = leaf_hash(<<x.kind, x.record>>) /\ Leaf(style, f) = leaf_hash(<<y.kind, y.record>>)
  BY <1>1 DEF Leaf, Profile!RecordLeaf
<1>3. Foreign(a) # leaf_hash(<<x.kind, x.record>>)
  BY LeafInjective
<1>4. leaf_hash(<<x.kind, x.record>>) = leaf_hash(<<y.kind, y.record>>) => x.record = y.record
  BY LeafInjective
<1>5. x.record.id = e.id /\ y.record.id = f.id
  BY <1>1, ItemFields
<1> QED BY <1>2, <1>3, <1>4, <1>5

\* Equal leaves at a position mean equal entries there.
LEMMA EntriesOfLeaves ==
  ASSUME IInv, NEW s, NEW t, LogOk(s), LogOk(t), NEW style, NEW k \in DOMAIN s, k \in DOMAIN t,
         Leaves(style, s)[k] = Leaves(style, t)[k]
  PROVE  s[k] = t[k]
<1>1. PICK e, f : e = s[k] /\ f = t[k]
  OBVIOUS
<1>2. (IF e = Other THEN Foreign(Other) ELSE Leaf(style, e))
        = (IF f = Other THEN Foreign(Other) ELSE Leaf(style, f))
  <2>1. /\ Leaves(style, s)[k] = IF e = Other THEN Foreign(Other) ELSE Leaf(style, e)
        /\ Leaves(style, t)[k] = IF f = Other THEN Foreign(Other) ELSE Leaf(style, f)
    BY <1>1, LeavesLen DEF Leaf
  <2> QED BY <2>1
<1>3. e = Other <=> f = Other
  BY <1>2, LeavesDiffer
<1>4. CASE e # Other /\ f # Other
  <2>1. e.id = f.id
    BY <1>2, <1>4, LeavesDiffer
  <2>2. e \in Entries(log) /\ f \in Entries(log)
    BY <1>1, <1>4 DEF LogOk, Entries
  <2>3. PICK m, n : m \in DOMAIN log /\ n \in DOMAIN log /\ e = log[m] /\ f = log[n]
    BY <2>2 DEF Entries
  <2>4. LogOk(log)
    BY LogsOk
  <2> QED BY <1>1, <1>4, <2>1, <2>3, <2>4 DEF LogOk
<1> QED BY <1>1, <1>3, <1>4

\* Two logs whose leaves agree up to the end of the first: one starts the other.
LEMMA PrefixOfLeaves ==
  ASSUME IInv, NEW s, NEW t, LogOk(s), LogOk(t), NEW style, Len(s) =< Len(t),
         \A k \in 1..Len(s) : Leaves(style, s)[k] = Leaves(style, t)[k]
  PROVE  IsPrefix(s, t)
<1>1. \A k \in 1..Len(s) : s[k] = t[k]
  <2>1. SUFFICES ASSUME NEW k \in 1..Len(s) PROVE s[k] = t[k]
    OBVIOUS
  <2>2. k \in DOMAIN s /\ k \in DOMAIN t
    BY DEF LogOk
  <2> QED BY <2>2, EntriesOfLeaves
<1>2. s \in Seq(Logged \cup {Other}) /\ t \in Seq(Logged \cup {Other}) /\ Len(s) \in Nat /\ Len(t) \in Nat
  BY DEF LogOk
<1>3. SubSeq(t, 1, Len(s)) = SubSeq(s, 1, Len(s))
  BY <1>1, <1>2
<1> QED BY <1>2, <1>3 DEF IsPrefix

-----------------------------------------------------------------------------
(* What a bundle joins and proves *)

\* The head of a bundle and its fields.
LEMMA BundleHead ==
  ASSUME IInv, NEW v \in Selections, NEW b, b = bundle(v)
  PROVE  /\ b.head = sth(Leaves(v.style, v.target), now)
         /\ b.head.tree_size = Len(v.target) /\ b.head.root_hash = merkle_root(Leaves(v.style, v.target))
         /\ b.pinned = Issuer /\ b.witnessKeys = {Authority} /\ b.tolerance = Tolerance
         /\ b = [pinned |-> b.pinned, witnessKeys |-> b.witnessKeys, tolerance |-> b.tolerance,
                 form |-> b.form, head |-> b.head, witnessed |-> b.witnessed, links |-> b.links,
                 records |-> b.records]
<1>1. PICK leaves : leaves = Leaves(v.style, v.target)
  OBVIOUS
<1>2. b.head = sth(leaves, now) /\ b.pinned = Issuer /\ b.witnessKeys = {Authority} /\ b.tolerance = Tolerance
  BY <1>1 DEF bundle
<1>3. b = [pinned |-> b.pinned, witnessKeys |-> b.witnessKeys, tolerance |-> b.tolerance,
           form |-> b.form, head |-> b.head, witnessed |-> b.witnessed, links |-> b.links,
           records |-> b.records]
  BY DEF bundle
<1>4. LogOk(v.target)
  BY SelectionTakes
<1>5. Len(leaves) = Len(v.target)
  BY <1>1, <1>4, LeavesLen
<1>6. b.head.tree_size = Len(leaves) /\ b.head.root_hash = merkle_root(leaves)
  <2>1. SthOf(b.head, leaves, now)
    BY <1>2, SthFields
  <2> QED BY <2>1 DEF SthOf
<1> QED BY <1>1, <1>2, <1>3, <1>5, <1>6

\* Each consistency proof starts at the root of the first leaves of the log.
LEMMA BundleLinks ==
  ASSUME IInv, NEW v \in Selections, NEW b, b = bundle(v), NEW j \in DOMAIN b.links
  PROVE  /\ b.links[j].old_size \in 1..(Len(v.target) - 1)
         /\ b.links[j].old_root = merkle_root(SubSeq(Leaves(v.style, v.target), 1, b.links[j].old_size))
<1> DEFINE leaves == Leaves(v.style, v.target)
           order == Ascending(v.shown)
           statements == [n \in DOMAIN order |-> Statements(v.style)[order[n]]]
           sizes == {n \in 1..(Len(leaves) - 1) : \E k \in DOMAIN statements : statements[k].size = n}
           joins == Ascending(sizes)
           Link(n) == [object |-> TRUE, old_size |-> n, new_size |-> Len(leaves), hashes |-> TRUE,
                       old_root |-> merkle_root(SubSeq(leaves, 1, n)), new_root |-> merkle_root(leaves),
                       consistency_path |-> consistency_path(leaves, n)]
<1>1. b.links = cons(statements, leaves)
  BY DEF bundle
<1>2. cons(statements, leaves) = [m \in DOMAIN joins |-> Link(joins[m])]
  BY DEF cons
<1>3. LogOk(v.target)
  BY SelectionTakes
<1>4. Len(leaves) = Len(v.target) /\ Len(v.target) \in Nat
  BY <1>3, LeavesLen DEF LogOk
<1>5. sizes \in SUBSET Int /\ IsFiniteSet(sizes) /\ sizes \subseteq 1..(Len(v.target) - 1)
  <2> DEFINE all == 1..(Len(leaves) - 1)
  <2>1. IsFiniteSet(all) /\ all \subseteq Int
    BY <1>4, FS_Interval
  <2>2. sizes \subseteq all
    <3> HIDE DEF statements, leaves
    <3> QED OBVIOUS
  <2>3. all = 1..(Len(v.target) - 1)
    BY <1>4
  <2> HIDE DEF sizes, all
  <2> QED BY <2>1, <2>2, <2>3, FS_Subset
<1> HIDE DEF sizes, statements, leaves
<1>6. \A m \in DOMAIN joins : joins[m] \in sizes
  BY <1>5, AscendingFacts
<1> HIDE DEF joins
<1>7. j \in DOMAIN joins /\ b.links[j] = Link(joins[j])
  <2> HIDE DEF Link
  <2> QED BY <1>1, <1>2
<1>8. b.links[j].old_size = joins[j] /\ b.links[j].old_root = merkle_root(SubSeq(leaves, 1, joins[j]))
  BY <1>7
<1> QED BY <1>5, <1>6, <1>7, <1>8 DEF leaves

\* A record that is shown is an entry of the log, at the place it is proved to be.
RecordOf(x, v, m) ==
  /\ m \in DOMAIN v.target /\ v.target[m] # Other /\ x.proof.leaf_index = m - 1
  /\ x.record.id = v.target[m].id /\ x.record.time = v.target[m].claims
  /\ x.record.timestamp = Written(v.style, v.style.claims, v.target[m].claims)

\* What an edit of a record has to keep.
ItemShape(x) ==
  /\ x = [form |-> x.form, proof |-> x.proof, kind |-> x.kind, record |-> x.record]
  /\ x.proof = [tree_size |-> x.proof.tree_size, leaf_index |-> x.proof.leaf_index,
                leaf_hash |-> x.proof.leaf_hash, root_hash |-> x.proof.root_hash,
                audit_path |-> x.proof.audit_path, hashes |-> x.proof.hashes]
  /\ {"id", "time", "timestamp"} \subseteq DOMAIN x.record
  /\ x.record = [f \in DOMAIN x.record |-> x.record[f]]

\* Every record of a bundle is of an entry of the log it is proved in.
LEMMA BundleRecords ==
  ASSUME IInv, NEW v \in Selections, NEW b, b = bundle(v), NEW n \in DOMAIN b.records
  PROVE  ItemShape(b.records[n]) /\ \E m : RecordOf(b.records[n], v, m)
<1> DEFINE leaves == Leaves(v.style, v.target)
           places == {k \in DOMAIN v.target : v.target[k] # Other}
           ours == Ascending(places)
           Shown(m) == [form |-> TRUE, proof |-> proof(leaves, m),
                        kind |-> Item(v.style, v.target[m]).kind, record |-> Item(v.style, v.target[m]).record]
<1>1. b.records = [m \in DOMAIN ours |-> Shown(ours[m])]
  BY DEF bundle
<1>2. LogOk(v.target)
  BY SelectionTakes
<1>3. places \in SUBSET Int /\ IsFiniteSet(places)
  <2>1. DOMAIN v.target = 1..Len(v.target) /\ Len(v.target) \in Nat
    BY <1>2 DEF LogOk
  <2>2. IsFiniteSet(DOMAIN v.target)
    BY <2>1, FS_Interval
  <2> QED BY <2>1, <2>2, FS_Subset
<1>4. \A m \in DOMAIN ours : ours[m] \in places
  BY <1>3, AscendingFacts
<1> HIDE DEF ours
<1>5. PICK m : m \in places /\ b.records[n] = Shown(m)
  <2> HIDE DEF Shown
  <2> QED BY <1>1, <1>4
<1>6. PICK e, item : e = v.target[m] /\ item = Item(v.style, e)
  OBVIOUS
<1>7. PICK x : x = b.records[n]
  OBVIOUS
<1>8. x = [form |-> TRUE, proof |-> proof(leaves, m), kind |-> item.kind, record |-> item.record]
  BY <1>5, <1>6, <1>7
<1>9. x.record = item.record /\ x.proof = proof(leaves, m)
      /\ x = [form |-> x.form, proof |-> x.proof, kind |-> x.kind, record |-> x.record]
  BY <1>8
<1>10. /\ x.record.id = e.id /\ x.record.time = e.claims
       /\ x.record.timestamp = Written(v.style, v.style.claims, e.claims)
  BY <1>6, <1>9, ItemFields
<1>11. /\ x.proof.leaf_index = m - 1
       /\ x.proof = [tree_size |-> x.proof.tree_size, leaf_index |-> x.proof.leaf_index,
                     leaf_hash |-> x.proof.leaf_hash, root_hash |-> x.proof.root_hash,
                     audit_path |-> x.proof.audit_path, hashes |-> x.proof.hashes]
  BY <1>9 DEF proof
<1>12. {"id", "time", "timestamp"} \subseteq DOMAIN x.record
       /\ x.record = [f \in DOMAIN x.record |-> x.record[f]]
  <2>1. CASE e.id = "checkpoint"
    BY <1>6, <1>9, <2>1 DEF Item
  <2>2. CASE e.id # "checkpoint"
    BY <1>6, <1>9, <2>2 DEF Item
  <2> QED BY <2>1, <2>2
<1>13. RecordOf(x, v, m)
  BY <1>5, <1>6, <1>10, <1>11 DEF RecordOf
<1>14. ItemShape(x)
  BY <1>9, <1>11, <1>12 DEF ItemShape
<1> QED BY <1>7, <1>13, <1>14

-----------------------------------------------------------------------------
(* What a PASS of an honest bundle shows of each log that was seen *)

\* Lists whose roots are those of the same length of first leaves agree there.
LEMMA FirstLeaves ==
  ASSUME NEW a, NEW b, NEW S, b \in Seq(S), NEW n \in Nat, n >= 1, Len(a) = n, n =< Len(b),
         merkle_root(a) = merkle_root(SubSeq(b, 1, n))
  PROVE  \A j \in 1..n : a[j] = b[j]
<1>1. PICK c : c = SubSeq(b, 1, n)
  OBVIOUS
<1>2. Len(c) = n /\ \A j \in 1..n : c[j] = b[j]
  BY <1>1
<1>3. \A j \in 1..n : a[j] = c[j]
  <2>1. n \in Nat \ {0} /\ merkle_root(a) = merkle_root(c)
    BY <1>1
  <2> QED BY <1>2, <2>1, RootInjective
<1> QED BY <1>2, <1>3

\* Root equality or the joining proof ties each witnessed log to the one shown.
LEMMA JoinedPrefix ==
  ASSUME IInv, NEW v \in Selections, call = bundle(v), ~Refuted(call), ~Lacking(call),
         NEW n \in DOMAIN call.witnessed
  PROVE  IsPrefix(chain[Ascending(v.shown)[n]].log, v.target)
<1>1. PICK k, w : k = Ascending(v.shown)[n] /\ w = call.witnessed[n]
  OBVIOUS
<1>2. k \in DOMAIN chain /\ Published(w, v.style, k)
  <2>1. call.witnessed = bundle(v).witnessed
    OBVIOUS
  <2> QED BY <1>1, <2>1, BundleStatements
<1>3. PICK seen, leaves : seen = Leaves(v.style, chain[k].log) /\ leaves = Leaves(v.style, v.target)
  OBVIOUS
<1>4. LogOk(chain[k].log) /\ LogOk(v.target)
  BY <1>2, LogsOk, SelectionTakes
<1>5. /\ Len(seen) = Len(chain[k].log) /\ Len(leaves) = Len(v.target)
      /\ Len(seen) \in Nat /\ Len(seen) >= 2 /\ Len(leaves) \in Nat
      /\ leaves = [m \in 1..Len(leaves) |-> leaves[m]]
  <2>1. Len(seen) = Len(chain[k].log) /\ Len(leaves) = Len(v.target) /\ DOMAIN leaves = DOMAIN v.target
    BY <1>3, <1>4, LeavesLen
  <2>2. leaves = [m \in DOMAIN v.target |-> leaves[m]]
    BY <1>3 DEF Leaves
  <2> QED BY <1>4, <2>1, <2>2 DEF LogOk
<1>6. w.size = Len(seen) /\ w.root = merkle_root(seen)
  BY <1>2, <1>3, <1>5 DEF Published
<1>7. call.head.tree_size = Len(leaves) /\ call.head.root_hash = merkle_root(leaves)
  BY <1>3, <1>5, BundleHead
<1>8. ~StatementRefuted(call, n) /\ ~JoinRefuted(call, n) /\ ~JoinLacking(call, n)
  BY DEF Refuted, Lacking
<1>9. Len(seen) =< Len(leaves)
  BY <1>1, <1>5, <1>6, <1>7, <1>8 DEF StatementRefuted
<1>10. \A j \in 1..Len(seen) : seen[j] = leaves[j]
  <2>1. CASE w.size = call.head.tree_size
    <3>1. w.root = call.head.root_hash
      BY <1>1, <1>8, <2>1 DEF JoinRefuted
    <3>2. Len(leaves) = Len(seen) /\ merkle_root(seen) = merkle_root(leaves) /\ Len(seen) \in Nat \ {0}
      BY <1>5, <1>6, <1>7, <2>1, <3>1
    <3> QED BY <3>2, RootInjective
  <2>2. CASE w.size # call.head.tree_size
    <3>1. LinksFrom(call, w.size) # {} /\ LinkFrom(call, w.size).old_root = w.root
      BY <1>1, <1>8, <2>2 DEF JoinRefuted, JoinLacking
    <3>2. LinksFrom(call, w.size) \in SUBSET Nat
      <4>1. IsArray(call.links)
        <5>1. CallOk(bundle(v))
          BY SelectionShape, BundleArrays
        <5> QED BY <5>1 DEF CallOk
      <4>2. DOMAIN call.links \subseteq Nat
        BY <4>1, ArrayFacts
      <4> QED BY <4>2 DEF LinksFrom
    <3>3. PICK j \in LinksFrom(call, w.size) : LinkFrom(call, w.size) = call.links[j]
      <4>1. \E j \in LinksFrom(call, w.size) : \A m \in LinksFrom(call, w.size) : j =< m
        BY <3>1, <3>2, Least
      <4> QED BY <4>1 DEF LinkFrom
    <3>4. j \in DOMAIN call.links /\ call.links[j].old_size = w.size
      BY DEF LinksFrom
    <3>5. call.links[j].old_root = merkle_root(SubSeq(leaves, 1, w.size))
      BY <1>3, <3>4, BundleLinks
    <3>6. merkle_root(seen) = merkle_root(SubSeq(leaves, 1, Len(seen)))
      BY <1>6, <3>1, <3>3, <3>5
    <3>7. leaves \in Seq({leaves[m] : m \in 1..Len(leaves)})
      BY <1>5, SeqDef
    <3> QED BY <1>5, <1>9, <3>6, <3>7, FirstLeaves, SMTT(30)
  <2> QED BY <2>1, <2>2
<1>11. IsPrefix(chain[k].log, v.target)
  BY <1>3, <1>4, <1>5, <1>9, <1>10, PrefixOfLeaves
<1> QED BY <1>1, <1>11

-----------------------------------------------------------------------------
(* What an operator cannot edit *)

\* The statement before the last, and the call that carries an edited last one.
EditedAfter(r, m, style, j) ==
  /\ m \in DOMAIN r.witnessed /\ m > 1 /\ j \in DOMAIN chain
  /\ Published(r.witnessed[m - 1], style, j)
  /\ r.pinned = Issuer /\ r.witnessKeys = {Authority} /\ r.witnessKeys # NoKeySet
  /\ r.head.tree_size = Len(log)

\* A signature fixes the key, the size, the root and the time.
LEMMA SignedHead ==
  ASSUME NEW w, NEW key, HeadValid(witnessed_head(w), key)
  PROVE  /\ w.headSignature.key = key
         /\ w.headSignature.over = <<"aqta-sth-public-v1", w.size, w.root, w.headTime>>
<1>1. PICK h : h = witnessed_head(w)
  OBVIOUS
<1>2. /\ h.log = "public" /\ h.tree_size = w.size /\ h.root_hash = w.root /\ h.timestamp = w.headTime
      /\ h.signature = w.headSignature
  BY <1>1 DEF witnessed_head
<1>3. Preimage(h) = <<"aqta-sth-public-v1", w.size, w.root, w.headTime>>
  BY <1>2 DEF Preimage
<1>4. h.signature = [key |-> key, over |-> Preimage(h)]
  BY <1>1 DEF HeadValid
<1> QED BY <1>2, <1>3, <1>4

\* Signed by another key, about another log, malformed or edited.
LEMMA OddFieldRefuted ==
  ASSUME IInv, NEW r, NEW m, NEW style, NEW j, EditedAfter(r, m, style, j),
         NEW w, NEW k \in DOMAIN chain, Published(w, style, k), StatementShape(w),
         r.witnessed[m] \in {[w EXCEPT !.key = Issuer], [w EXCEPT !.logKey = Stranger],
                             [w EXCEPT !.headSignature.key = Stranger], [w EXCEPT !.headTime = @ + 1],
                             [w EXCEPT !.form = FALSE], [w EXCEPT !.signed = FALSE]}
  PROVE  StatementRefuted(r, m)
<1>1. PICK x : x = r.witnessed[m]
  OBVIOUS
<1>2. /\ r.pinned = Issuer /\ r.witnessKeys = {Authority} /\ r.witnessKeys # NoKeySet
      /\ Authority # Issuer /\ Stranger # Issuer
  BY WitnessingAssumption DEF EditedAfter
<1>3. CASE x = [w EXCEPT !.key = Issuer]
  <2>1. x.key = Issuer
    BY <1>3 DEF StatementShape
  <2>2. x.key \notin r.witnessKeys
    BY <1>2, <2>1
  <2> QED BY <1>1, <1>2, <2>2 DEF StatementRefuted
<1>4. CASE x = [w EXCEPT !.logKey = Stranger]
  <2>1. x.logKey = Stranger
    BY <1>4 DEF StatementShape
  <2> QED BY <1>1, <1>2, <2>1 DEF StatementRefuted
<1>5. CASE x = [w EXCEPT !.headSignature.key = Stranger]
  <2>1. x.headSignature = [w.headSignature EXCEPT !.key = Stranger]
    BY <1>5 DEF StatementShape
  <2>2. x.headSignature.key = Stranger
    BY <2>1 DEF Published
  <2> QED BY <1>1, <1>2, <2>2, SignedHead DEF StatementRefuted
<1>6. CASE x = [w EXCEPT !.headTime = @ + 1]
  <2>1. x.headTime = w.headTime + 1 /\ x.headSignature = w.headSignature
    BY <1>6 DEF StatementShape
  <2>2. w.headTime \in Int
    BY NowIsNat DEF Published, IInv, ChainInv, HeadInv
  <2>3. w.headSignature.over = <<"aqta-sth-public-v1", w.size, w.root, w.headTime>>
    BY DEF Published
  <2>4. x.headSignature.over # <<"aqta-sth-public-v1", x.size, x.root, x.headTime>>
    BY <2>1, <2>2, <2>3
  <2> QED BY <1>1, <1>2, <2>4, SignedHead DEF StatementRefuted
<1>7. CASE x = [w EXCEPT !.form = FALSE]
  <2>1. ~x.form
    BY <1>7 DEF StatementShape
  <2> QED BY <1>1, <2>1 DEF StatementRefuted, StatementOk
<1>8. CASE x = [w EXCEPT !.signed = FALSE]
  <2>1. ~x.signed
    BY <1>8 DEF StatementShape
  <2> QED BY <1>1, <2>1 DEF StatementRefuted, StatementOk
<1> QED BY <1>1, <1>3, <1>4, <1>5, <1>6, <1>7, <1>8

\* The ticks of the evidence are less than a day.
LEMMA TicksInADay ==
  ASSUME IInv, NEW k \in DOMAIN chain
  PROVE  chain[k].at \in Nat /\ chain[k].at =< 86400 /\ chain[k].at =< now
<1>1. now \in Nat /\ now =< Horizon /\ Horizon \in Nat /\ Horizon < 86400
  BY WitnessingAssumption DEF IInv
<1>2. chain[k].fetched \in 0..now /\ chain[k].at \in chain[k].fetched..now
  BY DEF IInv, ChainInv, HeadInv
<1> QED BY <1>1, <1>2

\* Stamped in the year before.
LEMMA OddTimeRefuted ==
  ASSUME IInv, NEW r, NEW m, NEW style, NEW j, EditedAfter(r, m, style, j), DatesFollow(style),
         NEW w, NEW k \in DOMAIN chain, Published(w, style, k), StatementShape(w),
         r.witnessed[m] = [w EXCEPT !.at.year = @ - 1]
  PROVE  StatementRefuted(r, m)
<1>1. PICK x, prev : x = r.witnessed[m] /\ prev = r.witnessed[m - 1]
  OBVIOUS
<1>2. m > 1 /\ j \in DOMAIN chain /\ Published(prev, style, j)
  BY <1>1 DEF EditedAfter
<1>3. PICK t, u : t = chain[k].at /\ u = chain[j].at
  OBVIOUS
<1>4. t \in Nat /\ u \in Nat /\ t =< 86400 /\ u =< 86400
  BY <1>2, <1>3, TicksInADay
<1>5. x.at = [w.at EXCEPT !.year = @ - 1]
  BY <1>1 DEF StatementShape
<1>6. w.at = Written(style, style.stamps, t) /\ prev.at = Written(style, style.stamps, u)
  BY <1>2, <1>3 DEF Published
<1>7. PICK a, sp : a = x.at /\ sp = style.stamps
  OBVIOUS
<1>8. a = [Written(style, sp, t) EXCEPT !.year = @ - 1]
  BY <1>5, <1>6, <1>7
<1>9. cmp_instant(a, Written(style, sp, u)) < 0
  BY <1>4, <1>8, YearEarlier
<1>10. cmp_instant(x.at, prev.at) < 0
  BY <1>6, <1>7, <1>9
<1>11. DoesNotFollow(r, m)
  BY <1>1, <1>10 DEF DoesNotFollow
<1> QED BY <1>2, <1>11 DEF StatementRefuted

\* A statement about another head names that head's size and root.
LEMMA ResignedFields ==
  ASSUME NEW w, StatementShape(w), NEW leaves, NEW tick, NEW x, x = Resigned(w, sth(leaves, tick))
  PROVE  x.size = Len(leaves) /\ x.root = merkle_root(leaves)
<1>1. PICK h : h = sth(leaves, tick)
  OBVIOUS
<1>2. h.tree_size = Len(leaves) /\ h.root_hash = merkle_root(leaves)
  BY <1>1, SthFields DEF SthOf
<1>3. x = [w EXCEPT !.size = h.tree_size, !.root = h.root_hash, !.headTime = h.timestamp,
                    !.headSignature = h.signature]
  BY <1>1 DEF Resigned
<1>4. x.size = h.tree_size /\ x.root = h.root_hash
  BY <1>3 DEF StatementShape
<1> QED BY <1>2, <1>4

\* Naming a smaller tree, another of the size before, or a larger one.
LEMMA OddTreeRefuted ==
  ASSUME IInv, ~rewritten, NEW r, NEW m, NEW style, NEW j, EditedAfter(r, m, style, j),
         NEW w, StatementShape(w), NEW leaves, leaves = Leaves(style, log), NEW tick,
         NEW forked, forked = [SubSeq(leaves, 1, Len(chain[j].log)) EXCEPT ![1] = Foreign(Stranger)],
         r.witnessed[m] \in {Resigned(w, sth(SubSeq(leaves, 1, 1), tick)), Resigned(w, sth(forked, tick)),
                             Resigned(w, sth(Append(leaves, Foreign(Other)), tick))}
  PROVE  StatementRefuted(r, m)
<1>1. PICK x, prev, seen, size :
        /\ x = r.witnessed[m] /\ prev = r.witnessed[m - 1] /\ seen = Leaves(style, chain[j].log)
        /\ size = Len(chain[j].log)
  OBVIOUS
<1>2. m > 1 /\ j \in DOMAIN chain /\ prev.size = size /\ prev.root = merkle_root(seen)
  BY <1>1 DEF EditedAfter, Published
<1>3. LogOk(log) /\ LogOk(chain[j].log)
  BY <1>2, LogsOk
<1>4. /\ Len(leaves) = Len(log) /\ Len(seen) = size /\ size \in Nat /\ size >= 2
      /\ Len(leaves) \in Nat /\ Len(leaves) >= 2
      /\ leaves = [k \in 1..Len(leaves) |-> leaves[k]]
  <2>1. Len(leaves) = Len(log) /\ DOMAIN leaves = DOMAIN log /\ Len(seen) = size
    BY <1>1, <1>3, LeavesLen
  <2>2. leaves = [k \in DOMAIN log |-> leaves[k]]
    BY DEF Leaves
  <2> QED BY <1>1, <1>3, <2>1, <2>2 DEF LogOk
<1>5. leaves \in Seq({leaves[k] : k \in 1..Len(leaves)})
  BY <1>4, SeqDef
<1>6. size =< Len(leaves)
  <2>1. IsPrefix(chain[j].log, log)
    BY <1>2 DEF IInv, ChainInv, HeadInv
  <2> QED BY <1>1, <1>4, <2>1 DEF IsPrefix
<1>7. CASE x = Resigned(w, sth(SubSeq(leaves, 1, 1), tick))
  <2>1. Len(SubSeq(leaves, 1, 1)) = 1
    BY <1>4, <1>5
  <2>2. x.size = 1
    <3>1. PICK one : one = SubSeq(leaves, 1, 1)
      OBVIOUS
    <3>2. x = Resigned(w, sth(one, tick)) /\ Len(one) = 1
      BY <1>7, <2>1, <3>1
    <3> QED BY <3>2, ResignedFields
  <2>3. x.size < prev.size
    BY <1>2, <1>4, <2>2
  <2>4. DoesNotFollow(r, m)
    BY <1>1, <2>3 DEF DoesNotFollow
  <2> QED BY <1>2, <2>4 DEF StatementRefuted
<1>8. CASE x = Resigned(w, sth(forked, tick))
  <2>1. Len(forked) = size /\ forked[1] = Foreign(Stranger)
    BY <1>1, <1>4, <1>5, <1>6
  <2>2. x.size = prev.size /\ x.root = merkle_root(forked)
    BY <1>2, <1>8, <2>1, ResignedFields
  <2>3. seen[1] # Foreign(Stranger)
    <3>1. 1 \in DOMAIN chain[j].log
      BY <1>1, <1>3, <1>4 DEF LogOk
    <3>2. PICK e : e = chain[j].log[1]
      OBVIOUS
    <3>3. seen[1] = IF e = Other THEN Foreign(Other) ELSE Leaf(style, e)
      BY <1>1, <1>3, <3>1, <3>2, LeavesLen DEF Leaf
    <3>4. Foreign(Stranger) # Foreign(Other)
      <4>1. Stranger # Other
        BY WitnessingAssumption
      <4> QED BY <4>1, LeafInjective
    <3>5. Foreign(Stranger) # Leaf(style, e)
      BY LeavesDiffer
    <3> QED BY <3>3, <3>4, <3>5
  <2>4. merkle_root(forked) # merkle_root(seen)
    <3>1. size \in Nat \ {0} /\ 1 \in 1..size
      BY <1>4
    <3>2. PICK f : f = forked
      OBVIOUS
    <3>3. Len(f) = size /\ Len(seen) = size /\ f[1] # seen[1]
      BY <1>4, <2>1, <2>3, <3>2
    <3>4. merkle_root(f) # merkle_root(seen)
      BY <3>1, <3>3, RootInjective
    <3> QED BY <3>2, <3>4
  <2>5. DoesNotFollow(r, m)
    BY <1>1, <1>2, <2>2, <2>4 DEF DoesNotFollow
  <2> QED BY <1>2, <2>5 DEF StatementRefuted
<1>9. CASE x = Resigned(w, sth(Append(leaves, Foreign(Other)), tick))
  <2>1. Len(Append(leaves, Foreign(Other))) = Len(leaves) + 1
    BY <1>5
  <2>2. x.size = Len(leaves) + 1
    <3>1. PICK more : more = Append(leaves, Foreign(Other))
      OBVIOUS
    <3>2. x = Resigned(w, sth(more, tick)) /\ Len(more) = Len(leaves) + 1
      BY <1>9, <2>1, <3>1
    <3> QED BY <3>2, ResignedFields
  <2>3. r.head.tree_size = Len(leaves)
    BY <1>4 DEF EditedAfter
  <2>4. x.size > r.head.tree_size
    BY <1>4, <2>2, <2>3
  <2> QED BY <1>1, <2>4 DEF StatementRefuted
<1> QED BY <1>1, <1>7, <1>8, <1>9

-----------------------------------------------------------------------------
(* What an edit keeps, if the answer is PASS *)

\* The statements that were published, the tolerance, and records of the log.
Kept(t, v) ==
  /\ t.witnessed = bundle(v).witnessed /\ t.tolerance = Tolerance
  /\ \A n \in DOMAIN t.records : \E m : RecordOf(t.records[n], v, m)

BundleShape(b) ==
  b = [pinned |-> b.pinned, witnessKeys |-> b.witnessKeys, tolerance |-> b.tolerance,
       form |-> b.form, head |-> b.head, witnessed |-> b.witnessed, links |-> b.links,
       records |-> b.records]

\* An edit outside statements, tolerance and records keeps them.
LEMMA BundleKeeps ==
  ASSUME IInv, NEW v \in Selections, NEW b, b = bundle(v),
         NEW t, t.witnessed = b.witnessed, t.tolerance = b.tolerance, t.records = b.records
  PROVE  Kept(t, v)
<1>1. b.tolerance = Tolerance
  BY BundleHead
<1>2. \A n \in DOMAIN b.records : \E m : RecordOf(b.records[n], v, m)
  BY BundleRecords
<1> QED BY <1>1, <1>2 DEF Kept

\* Without statements nothing shows how late a record came.
LEMMA NoStatements ==
  ASSUME NEW t, t.witnessed = <<>> \/ t.records = <<>>, IsArray(t.records)
  PROVE  Lacking(t)
<1>1. CASE t.records = <<>>
  BY <1>1 DEF Lacking
<1>2. CASE t.records # <<>> /\ t.witnessed = <<>>
  <2>1. 1 \in DOMAIN t.records
    <3>1. Len(t.records) \in Nat /\ DOMAIN t.records = 1..Len(t.records) /\ Len(t.records) # 0
      BY <1>2, ArrayFacts
    <3> QED BY <3>1
  <2>2. DOMAIN t.witnessed = {}
    BY <1>2
  <2>3. Containing(t, t.records[1]) = {}
    BY <2>2 DEF Containing
  <2> QED BY <2>1, <2>3 DEF Lacking, TimeLacking
<1> QED BY <1>1, <1>2

\* An edited last statement is refuted, however it is edited.
LEMMA EditedStatement ==
  ASSUME IInv, ~rewritten, NEW v \in Selections, v.shown = DOMAIN chain, v.target = log, Len(chain) > 1,
         NEW b, b = bundle(v), NEW w \in OddStatements(b.witnessed[Len(b.witnessed)],
                                                       b.witnessed[Len(b.witnessed) - 1], Leaves(v.style, log)),
         NEW t, t = [b EXCEPT !.witnessed = EditLast(@, w)], ~Lacking(t)
  PROVE  Refuted(t)
<1>1. PICK m, last, prior, leaves :
        /\ m = Len(b.witnessed) /\ last = b.witnessed[m] /\ prior = b.witnessed[m - 1]
        /\ leaves = Leaves(v.style, log)
  OBVIOUS
<1>2. /\ DOMAIN b.witnessed = 1..m /\ m \in Nat /\ m > 1
  <2>1. b.witnessed = bundle(v).witnessed
    OBVIOUS
  <2>2. DOMAIN b.witnessed = 1..m /\ m = Cardinality(DOMAIN chain) /\ m \in Nat
    BY <1>1, <2>1, BundleStatements
  <2>3. DOMAIN chain = 1..Len(chain) /\ Len(chain) \in Nat
    BY SelectionTakes
  <2>4. Cardinality(1..Len(chain)) = Len(chain)
    <3>1. PICK c : c = Len(chain)
      OBVIOUS
    <3>2. c \in Int /\ 1 \in Int /\ c > 1
      BY <2>3, <3>1
    <3>3. Cardinality(1..c) = IF 1 > c THEN 0 ELSE c - 1 + 1
      BY <3>2, FS_Interval
    <3> QED BY <3>1, <3>2, <3>3
  <2>5. m = Len(chain)
    BY <2>2, <2>3, <2>4
  <2> QED BY <2>2, <2>5
<1>3. PICK j, k :
        /\ j \in DOMAIN chain /\ Published(prior, v.style, j)
        /\ k \in DOMAIN chain /\ Published(last, v.style, k) /\ StatementShape(last)
  <2>1. m \in DOMAIN b.witnessed /\ m - 1 \in DOMAIN b.witnessed
    BY <1>2
  <2>2. b.witnessed = bundle(v).witnessed
    OBVIOUS
  <2> QED BY <1>1, <2>1, <2>2, BundleStatements
<1>4. /\ t.witnessed = EditLast(b.witnessed, w) /\ t.pinned = Issuer /\ t.witnessKeys = {Authority}
      /\ t.head.tree_size = Len(log)
  BY BundleHead
<1>5. /\ DOMAIN t.witnessed = 1..m /\ t.witnessed[m] = w /\ t.witnessed[m - 1] = prior
  <2>1. t.witnessed = [b.witnessed EXCEPT ![m] = w]
    BY <1>1, <1>4 DEF EditLast
  <2> QED BY <1>1, <1>2, <2>1
<1>6. t.witnessKeys # NoKeySet
  <2>1. m \in DOMAIN t.witnessed
    BY <1>2, <1>5
  <2>2. t.witnessed # <<>>
    BY <2>1
  <2> QED BY <2>2 DEF Lacking
<1>7. EditedAfter(t, m, v.style, j)
  <2>1. m \in DOMAIN t.witnessed /\ m > 1
    BY <1>2, <1>5
  <2> QED BY <1>3, <1>4, <1>5, <1>6, <2>1 DEF EditedAfter
<1>8. prior.size = Len(chain[j].log)
  BY <1>3 DEF Published
<1>9. PICK forked : forked = [SubSeq(leaves, 1, Len(chain[j].log)) EXCEPT ![1] = Foreign(Stranger)]
  OBVIOUS
<1>10. w \in {[last EXCEPT !.key = Issuer], [last EXCEPT !.logKey = Stranger],
              [last EXCEPT !.headSignature.key = Stranger], [last EXCEPT !.headTime = @ + 1],
              [last EXCEPT !.form = FALSE], [last EXCEPT !.signed = FALSE], [last EXCEPT !.at.year = @ - 1],
              Resigned(last, sth(SubSeq(leaves, 1, 1), now)), Resigned(last, sth(forked, now)),
              Resigned(last, sth(Append(leaves, Foreign(Other)), now))}
  <2>1. [SubSeq(leaves, 1, prior.size) EXCEPT ![1] = Foreign(Stranger)] = forked
    BY <1>8, <1>9
  <2>2. w \in OddStatements(last, prior, leaves)
    BY <1>1
  <2> QED BY <2>1, <2>2, Zenon DEF OddStatements
<1>11. StatementRefuted(t, m)
  <2>1. CASE w \in {[last EXCEPT !.key = Issuer], [last EXCEPT !.logKey = Stranger],
              [last EXCEPT !.headSignature.key = Stranger], [last EXCEPT !.headTime = @ + 1],
              [last EXCEPT !.form = FALSE], [last EXCEPT !.signed = FALSE]}
    <3>1. PICK u, style : u = last /\ style = v.style
      OBVIOUS
    <3>2. /\ Published(u, style, k) /\ StatementShape(u) /\ EditedAfter(t, m, style, j)
          /\ t.witnessed[m] \in {[u EXCEPT !.key = Issuer], [u EXCEPT !.logKey = Stranger],
              [u EXCEPT !.headSignature.key = Stranger], [u EXCEPT !.headTime = @ + 1],
              [u EXCEPT !.form = FALSE], [u EXCEPT !.signed = FALSE]}
      BY <1>3, <1>5, <1>7, <2>1, <3>1
    <3> QED BY <1>3, <3>2, OddFieldRefuted
  <2>2. CASE w = [last EXCEPT !.at.year = @ - 1]
    <3>1. DatesFollow(v.style)
      BY StylesFollow
    <3> QED BY <1>3, <1>5, <1>7, <2>2, <3>1, OddTimeRefuted
  <2>3. CASE w \in {Resigned(last, sth(SubSeq(leaves, 1, 1), now)), Resigned(last, sth(forked, now)),
                    Resigned(last, sth(Append(leaves, Foreign(Other)), now))}
    <3>1. PICK u, style, tick : u = last /\ style = v.style /\ tick = now
      OBVIOUS
    <3>2. /\ StatementShape(u) /\ EditedAfter(t, m, style, j) /\ leaves = Leaves(style, log)
          /\ t.witnessed[m] \in {Resigned(u, sth(SubSeq(leaves, 1, 1), tick)), Resigned(u, sth(forked, tick)),
                                  Resigned(u, sth(Append(leaves, Foreign(Other)), tick))}
      BY <1>1, <1>3, <1>5, <1>7, <2>3, <3>1
    <3> QED BY <1>9, <3>2, OddTreeRefuted
  <2> QED BY <1>10, <2>1, <2>2, <2>3
<1>12. m \in DOMAIN t.witnessed
  BY <1>2, <1>5
<1> QED BY <1>11, <1>12 DEF Refuted

\* An edited record is of the same entry, and claims what it claimed.
LEMMA EditedItem ==
  ASSUME NEW y, ItemShape(y), NEW x \in OddItems(y), NEW v, NEW m, RecordOf(y, v, m)
  PROVE  RecordOf(x, v, m)
<1>1. /\ x.proof.leaf_index = y.proof.leaf_index
      /\ x.record.id = y.record.id /\ x.record.time = y.record.time /\ x.record.timestamp = y.record.timestamp
  <2>1. CASE x \in {[y EXCEPT !.proof.tree_size = @ - 1], [y EXCEPT !.proof.leaf_hash = Foreign(Other)],
                    [y EXCEPT !.proof.audit_path = Append(@, Foreign(Stranger))]}
    <3>1. x.record = y.record
      BY <2>1 DEF ItemShape
    <3>2. x.proof \in {[y.proof EXCEPT !.tree_size = @ - 1], [y.proof EXCEPT !.leaf_hash = Foreign(Other)],
                       [y.proof EXCEPT !.audit_path = Append(@, Foreign(Stranger))]}
      BY <2>1 DEF ItemShape
    <3>3. x.proof.leaf_index = y.proof.leaf_index
      BY <3>2 DEF ItemShape
    <3> QED BY <3>1, <3>3
  <2>2. CASE x \in {[y EXCEPT !.record.signed = FALSE], [y EXCEPT !.record.key = Stranger]}
    <3>1. x.proof = y.proof /\ x.record \in {[y.record EXCEPT !.signed = FALSE], [y.record EXCEPT !.key = Stranger]}
      BY <2>2 DEF ItemShape
    <3>2. x.record.id = y.record.id /\ x.record.time = y.record.time /\ x.record.timestamp = y.record.timestamp
      BY <3>1 DEF ItemShape
    <3> QED BY <3>1, <3>2
  <2>3. CASE x = [y EXCEPT !.form = FALSE]
    <3>1. x.proof = y.proof /\ x.record = y.record
      BY <2>3 DEF ItemShape
    <3> QED BY <3>1
  <2> QED BY <2>1, <2>2, <2>3 DEF OddItems
<1> QED BY <1>1 DEF RecordOf

\* An edit of the last record keeps what every record is of.
LEMMA EditedRecords ==
  ASSUME IInv, NEW v \in Selections, NEW b, b = bundle(v), BundleShape(b), b.records # <<>>,
         NEW x \in OddItems(Last(b.records)), NEW t, t = [b EXCEPT !.records = EditLast(@, x)]
  PROVE  Kept(t, v)
<1>1. t.witnessed = bundle(v).witnessed /\ t.tolerance = Tolerance
  <2>1. t.witnessed = b.witnessed /\ t.tolerance = b.tolerance
    BY DEF BundleShape
  <2>2. b.tolerance = Tolerance
    BY BundleHead
  <2> QED BY <2>1, <2>2
<1>2. PICK s, n : s = b.records /\ n = Len(s)
  OBVIOUS
<1>3. n \in Nat /\ DOMAIN s = 1..n /\ n # 0
  <2>1. IsArray(s)
    <3>1. CallOk(bundle(v))
      BY SelectionShape, BundleArrays
    <3> QED BY <1>2, <3>1 DEF CallOk
  <2> QED BY <1>2, <2>1, ArrayFacts
<1>4. n \in DOMAIN s /\ Last(s) = s[n]
  BY <1>2, <1>3 DEF Last
<1>5. ItemShape(s[n]) /\ \E m : RecordOf(s[n], v, m)
  BY <1>2, <1>4, BundleRecords
<1>6. \E m : RecordOf(x, v, m)
  <2>1. PICK y : y = s[n]
    OBVIOUS
  <2>2. PICK m : RecordOf(y, v, m)
    BY <1>5, <2>1
  <2>3. ItemShape(y) /\ x \in OddItems(y)
    BY <1>2, <1>4, <1>5, <2>1
  <2> QED BY <2>2, <2>3, EditedItem
<1>7. t.records = [s EXCEPT ![n] = x]
  <2>1. t.records = EditLast(s, x)
    BY <1>2 DEF BundleShape
  <2> QED BY <1>2, <2>1 DEF EditLast
<1>8. ASSUME NEW k \in DOMAIN t.records
      PROVE  \E m : RecordOf(t.records[k], v, m)
  <2>1. k \in DOMAIN s
    BY <1>7
  <2>2. CASE k = n
    <3>1. t.records[k] = x
      BY <1>4, <1>7, <2>2
    <3> QED BY <1>6, <3>1
  <2>3. CASE k # n
    <3>1. t.records[k] = b.records[k]
      BY <1>2, <1>7, <2>1, <2>3
    <3> QED BY <1>2, <2>1, <3>1, BundleRecords
  <2> QED BY <2>2, <2>3
<1> QED BY <1>1, <1>8 DEF Kept

\* An edit that is neither refuted nor lacking has kept all that matters.
LEMMA TamperedKeeps ==
  ASSUME IInv, ~rewritten, Len(chain) > 1, NEW v, v = Whole(Styles[1]), v \in Selections,
         NEW t \in Tampered(bundle(v), Leaves(v.style, log)), ~Refuted(t), ~Lacking(t)
  PROVE  Kept(t, v)
<1>1. PICK b : b = bundle(v)
  OBVIOUS
<1>2. BundleShape(b)
  BY <1>1, BundleHead DEF BundleShape
<1>3. PICK leaves, n : leaves = Leaves(v.style, log) /\ n = Len(b.witnessed)
  OBVIOUS
<1>4. CASE \E w \in OddStatements(b.witnessed[n], b.witnessed[n - 1], leaves) :
             t = [b EXCEPT !.witnessed = EditLast(@, w)]
  <2>1. v.shown = DOMAIN chain /\ v.target = log
    BY DEF Whole, Selection
  <2>2. PICK w : /\ w \in OddStatements(b.witnessed[Len(b.witnessed)], b.witnessed[Len(b.witnessed) - 1],
                                         Leaves(v.style, log))
                 /\ t = [b EXCEPT !.witnessed = EditLast(@, w)]
    BY <1>3, <1>4
  <2>3. Refuted(t)
    BY <1>1, <2>1, <2>2, EditedStatement
  <2> QED BY <2>3
<1>5. CASE \/ \E h \in OddHeads(b.head) : t = [b EXCEPT !.head = h]
           \/ \E c \in OddLinks(Last(b.links)) : t = [b EXCEPT !.links = EditLast(@, c)]
           \/ t \in {[b EXCEPT !.form = FALSE], [b EXCEPT !.pinned = NoKey], [b EXCEPT !.pinned = Stranger],
                     [b EXCEPT !.witnessKeys = {Authority, NoKey}], [b EXCEPT !.witnessKeys = NoKeySet],
                     [b EXCEPT !.links = <<>>]}
  <2>1. t.witnessed = b.witnessed /\ t.tolerance = b.tolerance /\ t.records = b.records
    BY <1>2, <1>5 DEF BundleShape
  <2> QED BY <1>1, <2>1, BundleKeeps
<1>6. CASE b.records # <<>> /\ \E x \in OddItems(Last(b.records)) : t = [b EXCEPT !.records = EditLast(@, x)]
  BY <1>1, <1>2, <1>6, EditedRecords
<1>7. CASE t = [b EXCEPT !.tolerance = -1]
  <2>1. t.tolerance = -1
    BY <1>2, <1>7 DEF BundleShape
  <2>2. ~IsSize(-1)
    BY SizeAssumption DEF IsSize
  <2> QED BY <2>1, <2>2 DEF Refuted, BundleRefuted, InputsRefuted
<1>8. CASE t \in {[b EXCEPT !.witnessed = <<>>], [b EXCEPT !.records = <<>>]}
  <2>1. t.witnessed = <<>> \/ t.records = <<>>
    BY <1>2, <1>8 DEF BundleShape
  <2>2. IsArray(t.records)
    <3>1. CallOk(bundle(v))
      BY SelectionShape, BundleArrays
    <3>2. t.records \in {b.records, <<>>}
      BY <1>2, <1>8 DEF BundleShape
    <3> QED BY <1>1, <3>1, <3>2, NoArray DEF CallOk
  <2> QED BY <2>1, <2>2, NoStatements
<1> QED BY <1>1, <1>3, <1>4, <1>5, <1>6, <1>7, <1>8 DEF Tampered

-----------------------------------------------------------------------------
(* What a PASS is of *)

\* Statements and records as they were published, all of one log.
OneLog(v) ==
  /\ Kept(call, v)
  /\ \A n \in DOMAIN call.witnessed : IsPrefix(chain[Ascending(v.shown)[n]].log, v.target)

\* A selection of what was published, shown as it was published.
Vouched(v) ==
  /\ review.style = v.style /\ review.shown = v.shown /\ review.target = v.target
  /\ OneLog(v) /\ ~Refuted(call) /\ ~Lacking(call)

\* A PASS is of statements that were published, and that saw one log.
LEMMA PassMeans ==
  ASSUME IInv, verdict = "PASS"
  PROVE  \E v \in Selections : Vouched(v)
<1>1. pc = "done" /\ verdict = Rule!Answer(call)
  BY DEF IInv, VerifierInv
<1>2. ~Refuted(call) /\ ~Lacking(call)
  BY <1>1 DEF Rule!Answer
<1>3. PICK v, edited :
        /\ v \in Selections /\ edited \in BOOLEAN
        /\ review = [style |-> v.style, shown |-> v.shown, target |-> v.target, tampered |-> edited]
        /\ IF edited
           THEN /\ ~rewritten /\ Len(chain) > 1 /\ v = Whole(Styles[1])
                /\ call \in Tampered(bundle(v), Leaves(v.style, log))
           ELSE call = bundle(v)
  BY <1>1 DEF IInv, ReviewInv
<1>4. review.style = v.style /\ review.shown = v.shown /\ review.target = v.target
  BY <1>3
<1>5. CASE edited
  <2>1. PICK t : t = call
    OBVIOUS
  <2>2. /\ ~rewritten /\ Len(chain) > 1 /\ v = Whole(Styles[1])
        /\ t \in Tampered(bundle(v), Leaves(v.style, log)) /\ ~Refuted(t) /\ ~Lacking(t)
    BY <1>2, <1>3, <1>5, <2>1
  <2>3. Kept(t, v)
    BY <1>3, <2>2, TamperedKeeps
  <2>4. ASSUME NEW n \in DOMAIN call.witnessed
        PROVE  IsPrefix(chain[Ascending(v.shown)[n]].log, v.target)
    <3>1. call.witnessed = bundle(v).witnessed
      BY <2>1, <2>3 DEF Kept
    <3>2. Ascending(v.shown)[n] \in DOMAIN chain
      BY <1>3, <3>1, BundleStatements
    <3>3. v.target = log
      BY <2>2 DEF Whole, Selection
    <3> QED BY <2>2, <3>2, <3>3 DEF IInv, ChainInv, HeadInv
  <2> QED BY <1>2, <1>3, <1>4, <2>1, <2>3, <2>4 DEF Vouched, OneLog
<1>6. CASE ~edited
  <2>1. call = bundle(v)
    BY <1>3, <1>6
  <2>2. Kept(call, v)
    BY <1>3, <2>1, BundleKeeps
  <2>3. \A n \in DOMAIN call.witnessed : IsPrefix(chain[Ascending(v.shown)[n]].log, v.target)
    BY <1>2, <1>3, <2>1, JoinedPrefix
  <2> QED BY <1>2, <1>3, <1>4, <2>2, <2>3 DEF Vouched, OneLog
<1> QED BY <1>5, <1>6

\* What the theorem VouchesSound says, in one state.
LEMMA Vouches ==
  ASSUME IInv
  PROVE  PassVouchesOneLog
<1>1. SUFFICES ASSUME verdict = "PASS"
               PROVE  /\ \A n \in DOMAIN call.witnessed :
                           LET w == call.witnessed[n] IN
                           /\ w = Statements(review.style)[w.seq]
                           /\ IsPrefix(chain[w.seq].log, review.target)
                      /\ \A n \in DOMAIN call.records :
                           LET e == review.target[call.records[n].proof.leaf_index + 1] IN
                           e # Other /\ e.id = call.records[n].record.id /\ e.claims = call.records[n].record.time
  BY DEF PassVouchesOneLog
<1>2. PICK v \in Selections : Vouched(v)
  BY <1>1, PassMeans
<1>3. review.style = v.style /\ review.target = v.target
  BY <1>2 DEF Vouched
<1>4. ASSUME NEW n \in DOMAIN call.witnessed
      PROVE  /\ call.witnessed[n] = Statements(review.style)[call.witnessed[n].seq]
             /\ IsPrefix(chain[call.witnessed[n].seq].log, review.target)
  <2>1. PICK k, w : k = Ascending(v.shown)[n] /\ w = call.witnessed[n]
    OBVIOUS
  <2>2. call.witnessed = bundle(v).witnessed
    BY <1>2 DEF Vouched, OneLog, Kept
  <2>3. w = Statements(v.style)[k] /\ Published(w, v.style, k)
    BY <2>1, <2>2, BundleStatements
  <2>4. w.seq = k
    BY <2>3 DEF Published
  <2>5. IsPrefix(chain[k].log, v.target)
    BY <1>2, <2>1 DEF Vouched, OneLog
  <2> QED BY <1>3, <2>1, <2>3, <2>4, <2>5
<1>5. ASSUME NEW n \in DOMAIN call.records
      PROVE  LET e == review.target[call.records[n].proof.leaf_index + 1] IN
             e # Other /\ e.id = call.records[n].record.id /\ e.claims = call.records[n].record.time
  <2>1. PICK x, m : x = call.records[n] /\ RecordOf(x, v, m)
    BY <1>2 DEF Vouched, OneLog, Kept
  <2>2. DOMAIN v.target = 1..Len(v.target) /\ Len(v.target) \in Nat
    BY SelectionTakes DEF LogOk
  <2>3. m \in Int /\ x.proof.leaf_index = m - 1
    BY <2>1, <2>2 DEF RecordOf
  <2>4. x.proof.leaf_index + 1 = m
    BY <2>3
  <2> QED BY <1>3, <2>1, <2>4 DEF RecordOf
<1> QED BY <1>4, <1>5

-----------------------------------------------------------------------------
(* What a PASS says of a record's lateness *)

HoldsId(k, id) == \E e \in Entries(chain[k].log) : e.id = id

\* Statements are stamped in their order, and none has lost an entry.
LEMMA StampedInOrder ==
  ASSUME IInv, NEW j \in DOMAIN chain, NEW k \in DOMAIN chain, j =< k, NEW id
  PROVE  chain[j].at =< chain[k].at /\ (HoldsId(j, id) => HoldsId(k, id))
<1>1. j \in Nat /\ k \in Nat
  <2>1. DOMAIN chain = 1..Len(chain) /\ Len(chain) \in Nat
    BY ArrayFacts DEF IInv, ChainInv
  <2> QED BY <2>1
<1>2. CASE j = k
  <2>1. chain[k].at \in Nat
    BY TicksInADay
  <2> QED BY <1>2, <2>1
<1>3. CASE j < k
  <2>1. Follows(chain[k], chain[j])
    BY <1>3 DEF IInv, ChainInv
  <2>2. chain[k].fetched \in 0..now /\ chain[k].at \in chain[k].fetched..now /\ now \in Nat
    BY NowIsNat DEF IInv, ChainInv, HeadInv
  <2>3. chain[j].at \in Nat
    BY TicksInADay
  <2>4. chain[j].at =< chain[k].at
    BY <2>1, <2>2, <2>3 DEF Follows
  <2>5. HoldsId(j, id) => HoldsId(k, id)
    BY <2>1 DEF Follows, HoldsId
  <2> QED BY <2>4, <2>5
<1> QED BY <1>1, <1>2, <1>3

\* A log that starts another holds a record when it reaches as far as its place.
LEMMA HeldWhenReached ==
  ASSUME NEW s, NEW t, LogOk(s), LogOk(t), IsPrefix(s, t),
         NEW m \in DOMAIN t, t[m] # Other
  PROVE  (\E e \in Entries(s) : e.id = t[m].id) <=> Len(s) > m - 1
<1>1. /\ Len(s) \in Nat /\ Len(t) \in Nat /\ DOMAIN s = 1..Len(s) /\ DOMAIN t = 1..Len(t)
      /\ s \in Seq(Logged \cup {Other}) /\ t \in Seq(Logged \cup {Other})
  BY DEF LogOk
<1>2. Len(s) =< Len(t) /\ \A k \in 1..Len(s) : s[k] = t[k]
  <2>1. Len(s) =< Len(t) /\ SubSeq(s, 1, Len(s)) = SubSeq(t, 1, Len(s))
    BY DEF IsPrefix
  <2> QED BY <1>1, <2>1
<1>3. ASSUME NEW e \in Entries(s), e.id = t[m].id
      PROVE  Len(s) > m - 1
  <2>1. PICK k \in DOMAIN s : e = s[k] /\ e # Other
    BY DEF Entries
  <2>2. k \in DOMAIN t /\ t[k] = e
    BY <1>1, <1>2, <2>1
  <2>3. k = m
    BY <1>3, <2>1, <2>2 DEF LogOk
  <2> QED BY <1>1, <2>3
<1>4. ASSUME Len(s) > m - 1
      PROVE  \E e \in Entries(s) : e.id = t[m].id
  <2>1. m \in 1..Len(s)
    BY <1>1, <1>4
  <2>2. s[m] = t[m]
    BY <1>2, <2>1
  <2>3. s[m] \in Entries(s)
    BY <1>1, <2>1, <2>2 DEF Entries
  <2> QED BY <2>2, <2>3
<1> QED BY <1>3, <1>4

\* A record that is shown, and a statement that is shown: the instants compare
\* as the ticks, and the size tells whether the log held it.
Judged(x, v, n) ==
  LET w == call.witnessed[n]
      k == Ascending(v.shown)[n]
  IN  /\ k \in DOMAIN chain /\ k \in v.shown /\ w.seq = k
      /\ cmp_instant(x.record.timestamp, w.at) > 0 <=> x.record.time > chain[k].at
      /\ later_than(w.at, x.record.timestamp, call.tolerance) <=> chain[k].at > x.record.time + Ticks
      /\ w.size > x.proof.leaf_index <=> HoldsId(k, x.record.id)
      /\ x.record.time \in Nat /\ chain[k].at \in Nat

\* The comparisons of the code, on ticks: step 6 for one record and statement.
LEMMA RecordJudged ==
  ASSUME IInv, NEW v \in Selections, OneLog(v), NEW x, NEW m, RecordOf(x, v, m),
         NEW n \in DOMAIN call.witnessed
  PROVE  Judged(x, v, n)
<1>1. PICK k, w : k = Ascending(v.shown)[n] /\ w = call.witnessed[n]
  OBVIOUS
<1>2. k \in DOMAIN chain /\ k \in v.shown /\ Published(w, v.style, k)
  <2>1. call.witnessed = bundle(v).witnessed
    BY DEF OneLog, Kept
  <2> QED BY <1>1, <2>1, BundleStatements
<1>3. LogOk(v.target) /\ LogOk(chain[k].log) /\ IsPrefix(chain[k].log, v.target)
  BY <1>1, <1>2, SelectionTakes, LogsOk DEF OneLog
<1>4. PICK c, u, style : c = x.record.time /\ u = chain[k].at /\ style = v.style
  OBVIOUS
<1>5. m \in DOMAIN v.target /\ v.target[m] # Other /\ c = v.target[m].claims
  BY <1>4 DEF RecordOf
<1>6. c \in Nat /\ c =< 86400
  <2>1. v.target \in Seq(Logged \cup {Other}) /\ DOMAIN v.target = 1..Len(v.target)
    BY <1>3 DEF LogOk
  <2>2. v.target[m] \in Logged \cup {Other}
    BY <1>5, <2>1
  <2>3. c \in 0..(Horizon + 1)
    BY <1>5, <2>2 DEF Logged
  <2>4. Horizon \in Nat /\ Horizon < 86400
    BY WitnessingAssumption
  <2> QED BY <2>3, <2>4
<1>7. u \in Nat /\ u =< 86400
  BY <1>2, <1>4, TicksInADay
<1>8. DatesFollow(style)
  BY <1>4, StylesFollow
<1>9. /\ x.record.timestamp = Written(style, style.claims, c) /\ w.at = Written(style, style.stamps, u)
  BY <1>2, <1>4 DEF RecordOf, Published
<1>10. Tolerance \in Nat /\ call.tolerance = Tolerance
  BY WitnessingAssumption DEF OneLog, Kept
<1>11. PICK sp, sq : sp = style.claims /\ sq = style.stamps
  OBVIOUS
<1>12. cmp_instant(Written(style, sp, c), Written(style, sq, u)) > 0 <=> c > u
  BY <1>6, <1>7, <1>8, WrittenCompared
<1>13. later_than(Written(style, sq, u), Written(style, sp, c), Tolerance) <=> u > c + 2 * Tolerance
  BY <1>6, <1>7, <1>8, <1>10, WrittenCompared
<1>14. cmp_instant(x.record.timestamp, w.at) > 0 <=> c > u
  BY <1>9, <1>11, <1>12
<1>15. later_than(w.at, x.record.timestamp, call.tolerance) <=> u > c + Ticks
  BY <1>9, <1>10, <1>11, <1>13 DEF Ticks
<1>16. w.size > x.proof.leaf_index <=> HoldsId(k, x.record.id)
  <2>1. w.size = Len(chain[k].log) /\ x.proof.leaf_index = m - 1 /\ x.record.id = v.target[m].id
    BY <1>2 DEF Published, RecordOf
  <2>2. HoldsId(k, v.target[m].id) <=> Len(chain[k].log) > m - 1
    BY <1>3, <1>5, HeldWhenReached DEF HoldsId
  <2> QED BY <2>1, <2>2
<1>17. w.seq = k
  BY <1>2 DEF Published
<1> QED BY <1>1, <1>2, <1>4, <1>6, <1>7, <1>14, <1>15, <1>16, <1>17 DEF Judged

\* The first statement shown that holds the record: its neighbours are in the
\* order they were published, none left out, and the times are what they claim.
FirstHolder(x, v, n) ==
  /\ n \in DOMAIN call.witnessed /\ HoldsId(Ascending(v.shown)[n], x.record.id)
  /\ \A m \in DOMAIN call.witnessed : HoldsId(Ascending(v.shown)[m], x.record.id) => n =< m
  /\ x.record.time =< chain[Ascending(v.shown)[n]].at
  /\ n = 1 => chain[Ascending(v.shown)[n]].at =< x.record.time + Ticks
  /\ n > 1 => /\ chain[Ascending(v.shown)[n - 1]].at =< x.record.time + Ticks
              /\ n - 1 \in DOMAIN call.witnessed
              /\ Ascending(v.shown)[n] = Ascending(v.shown)[n - 1] + 1

\* A record that is accepted has a first statement that holds it.
LEMMA FirstHolderExists ==
  ASSUME IInv, NEW v \in Selections, Vouched(v), NEW k \in DOMAIN call.records, NEW x, x = call.records[k]
  PROVE  \E n : FirstHolder(x, v, n)
<1>1. PICK place : RecordOf(x, v, place)
  BY DEF Vouched, OneLog, Kept
<1>2. \A n \in DOMAIN call.witnessed : Judged(x, v, n)
  BY <1>1, RecordJudged DEF Vouched
<1>3. ~TimeRefuted(call, x) /\ ~TimeLacking(call, x)
  BY DEF Vouched, Refuted, Lacking, RecordRefuted
<1>4. DOMAIN call.witnessed = 1..Len(call.witnessed) /\ Len(call.witnessed) \in Nat
  <2>1. call.witnessed = bundle(v).witnessed
    BY DEF Vouched, OneLog, Kept
  <2> QED BY <2>1, BundleStatements
<1>5. PICK n : n = Inc(call, x)
  OBVIOUS
<1>6. n \in Containing(call, x) /\ \A m \in Containing(call, x) : n =< m
  <2>1. Containing(call, x) # {}
    BY <1>3 DEF TimeLacking
  <2>2. Containing(call, x) \in SUBSET Nat
    BY <1>4 DEF Containing
  <2>3. \E m \in Containing(call, x) : \A q \in Containing(call, x) : m =< q
    BY <2>1, <2>2, Least
  <2> QED BY <1>5, <2>3 DEF Inc
<1>7. \A m \in DOMAIN call.witnessed : m \in Containing(call, x) <=> HoldsId(Ascending(v.shown)[m], x.record.id)
  BY <1>2 DEF Judged, Containing
<1>8. n \in DOMAIN call.witnessed
  BY <1>6 DEF Containing
<1>9. HoldsId(Ascending(v.shown)[n], x.record.id)
  BY <1>6, <1>7, <1>8
<1>10. \A m \in DOMAIN call.witnessed : HoldsId(Ascending(v.shown)[m], x.record.id) => n =< m
  BY <1>6, <1>7
<1>11. Judged(x, v, n)
  BY <1>2, <1>8
<1>12. x.record.time =< chain[Ascending(v.shown)[n]].at
  <2>1. ~(cmp_instant(x.record.timestamp, call.witnessed[n].at) > 0)
    BY <1>3, <1>5, <1>6 DEF TimeRefuted
  <2>2. PICK c, u : c = x.record.time /\ u = chain[Ascending(v.shown)[n]].at
    OBVIOUS
  <2>3. c \in Nat /\ u \in Nat /\ ~(c > u)
    BY <1>11, <2>1, <2>2 DEF Judged
  <2> QED BY <2>2, <2>3
<1>13. Ticks \in Nat
  BY WitnessingAssumption DEF Ticks
<1>14. ASSUME n = 1
       PROVE  chain[Ascending(v.shown)[n]].at =< x.record.time + Ticks
  <2>1. ~later_than(call.witnessed[n].at, x.record.timestamp, call.tolerance)
    BY <1>3, <1>5, <1>14 DEF TimeLacking
  <2>2. PICK c, u : c = x.record.time /\ u = chain[Ascending(v.shown)[n]].at
    OBVIOUS
  <2>3. c \in Nat /\ u \in Nat /\ ~(u > c + Ticks)
    BY <1>11, <2>1, <2>2 DEF Judged
  <2> QED BY <1>13, <2>2, <2>3
<1>15. ASSUME n > 1
       PROVE  /\ chain[Ascending(v.shown)[n - 1]].at =< x.record.time + Ticks
              /\ n - 1 \in DOMAIN call.witnessed
              /\ Ascending(v.shown)[n] = Ascending(v.shown)[n - 1] + 1
  <2>1. n - 1 \in DOMAIN call.witnessed
    BY <1>4, <1>8, <1>15
  <2>2. Judged(x, v, n - 1)
    BY <1>2, <2>1
  <2>3. ~later_than(call.witnessed[n - 1].at, x.record.timestamp, call.tolerance)
    BY <1>3, <1>5, <1>6, <1>15 DEF TimeRefuted
  <2>4. chain[Ascending(v.shown)[n - 1]].at =< x.record.time + Ticks
    <3>1. PICK c, u : c = x.record.time /\ u = chain[Ascending(v.shown)[n - 1]].at
      OBVIOUS
    <3>2. c \in Nat /\ u \in Nat /\ ~(u > c + Ticks)
      BY <2>2, <2>3, <3>1 DEF Judged
    <3> QED BY <1>13, <3>1, <3>2
  <2>5. call.witnessed[n].seq = call.witnessed[n - 1].seq + 1
    <3>1. ~StatementRefuted(call, n)
      BY <1>8 DEF Vouched, Refuted
    <3>2. ~DoesNotFollow(call, n)
      BY <1>15, <3>1 DEF StatementRefuted
    <3> QED BY <3>2 DEF DoesNotFollow
  <2>6. Ascending(v.shown)[n] = Ascending(v.shown)[n - 1] + 1
    BY <1>11, <2>2, <2>5 DEF Judged
  <2> QED BY <2>1, <2>4, <2>6
<1>16. FirstHolder(x, v, n)
  BY <1>8, <1>9, <1>10, <1>12, <1>14, <1>15 DEF FirstHolder
<1> QED BY <1>16

\* What the theorem LatenessSound says, in one state.
LEMMA HidesNoLateness ==
  ASSUME IInv
  PROVE  PassHidesNoLateness
<1>1. SUFFICES ASSUME verdict = "PASS", NEW q \in DOMAIN call.records, NEW k \in DOMAIN chain,
                      NEW x, x = call.records[q]
               PROVE  /\ chain[k].at > x.record.time + Ticks => HoldsId(k, x.record.id)
                      /\ HoldsId(k, x.record.id) /\ k \in review.shown => x.record.time =< chain[k].at
  BY DEF PassHidesNoLateness, HoldsId
<1>2. PICK v \in Selections : Vouched(v)
  BY <1>1, PassMeans
<1>3. PICK n : FirstHolder(x, v, n)
  BY <1>1, <1>2, FirstHolderExists
<1>4. review.shown = v.shown
  BY <1>2 DEF Vouched
<1>5. /\ DOMAIN call.witnessed = DOMAIN Ascending(v.shown)
      /\ \A m \in DOMAIN call.witnessed : Ascending(v.shown)[m] \in DOMAIN chain
  <2>1. call.witnessed = bundle(v).witnessed
    BY <1>2 DEF Vouched, OneLog, Kept
  <2> QED BY <2>1, BundleStatements
<1>6. DOMAIN chain = 1..Len(chain) /\ Len(chain) \in Nat
  BY SelectionTakes
<1>7. PICK order : order = Ascending(v.shown)
  OBVIOUS
<1>8. n \in DOMAIN order /\ order[n] \in DOMAIN chain
  BY <1>3, <1>5, <1>7 DEF FirstHolder
<1>9. /\ \A p, m \in DOMAIN order : p < m => order[p] < order[m]
      /\ \A y \in v.shown : \E m \in DOMAIN order : order[m] = y
      /\ DOMAIN order \subseteq Nat
  <2>1. v.shown \in SUBSET Int /\ IsFiniteSet(v.shown)
    BY SelectionTakes
  <2>2. DOMAIN order = 1..Cardinality(v.shown) /\ Cardinality(v.shown) \in Nat
    BY <1>7, <2>1, AscendingFacts
  <2>3. DOMAIN order \subseteq Nat
    BY <2>2
  <2> QED BY <1>7, <2>1, <2>3, AscendingFacts
<1>10. x.record.time \in Nat /\ chain[order[n]].at \in Nat /\ chain[k].at \in Nat /\ Ticks \in Nat
  <2>1. PICK place : RecordOf(x, v, place)
    BY <1>1, <1>2 DEF Vouched, OneLog, Kept
  <2>2. n \in DOMAIN call.witnessed
    BY <1>3 DEF FirstHolder
  <2>3. Judged(x, v, n)
    BY <1>2, <2>1, <2>2, RecordJudged DEF Vouched
  <2>4. x.record.time \in Nat /\ chain[order[n]].at \in Nat
    BY <1>7, <2>3 DEF Judged
  <2>5. chain[k].at \in Nat
    BY TicksInADay
  <2> QED BY <2>4, <2>5, WitnessingAssumption DEF Ticks
<1>11. ASSUME chain[k].at > x.record.time + Ticks
       PROVE  HoldsId(k, x.record.id)
  <2>1. CASE order[n] =< k
    <3>1. HoldsId(order[n], x.record.id)
      BY <1>3, <1>7 DEF FirstHolder
    <3> QED BY <1>8, <2>1, <3>1, StampedInOrder
  <2>2. CASE k < order[n] /\ n = 1
    <3>1. chain[order[n]].at =< x.record.time + Ticks
      BY <1>3, <1>7, <2>2 DEF FirstHolder
    <3>2. chain[k].at =< chain[order[n]].at
      BY <1>6, <1>8, <2>2, StampedInOrder
    <3> QED BY <1>10, <1>11, <3>1, <3>2
  <2>3. CASE k < order[n] /\ n > 1
    <3>1. PICK b : b = order[n - 1]
      OBVIOUS
    <3>2. chain[b].at =< x.record.time + Ticks /\ order[n] = b + 1 /\ b \in DOMAIN chain
      BY <1>3, <1>5, <1>7, <2>3, <3>1 DEF FirstHolder
    <3>3. k =< b
      BY <1>6, <2>3, <3>2
    <3>4. chain[k].at =< chain[b].at /\ chain[b].at \in Nat
      BY <3>2, <3>3, StampedInOrder, TicksInADay
    <3> QED BY <1>10, <1>11, <3>2, <3>4
  <2>4. n = 1 \/ n > 1
    <3>1. n \in 1..Len(call.witnessed) /\ Len(call.witnessed) \in Nat
      <4>1. call.witnessed = bundle(v).witnessed
        BY <1>2 DEF Vouched, OneLog, Kept
      <4> QED BY <1>3, <4>1, BundleStatements DEF FirstHolder
    <3> QED BY <3>1
  <2>5. order[n] =< k \/ k < order[n]
    BY <1>6, <1>8
  <2> QED BY <2>1, <2>2, <2>3, <2>4, <2>5
<1>12. ASSUME HoldsId(k, x.record.id), k \in review.shown
       PROVE  x.record.time =< chain[k].at
  <2>1. PICK m \in DOMAIN order : order[m] = k
    BY <1>4, <1>9, <1>12
  <2>2. n =< m
    BY <1>3, <1>5, <1>7, <1>12, <2>1 DEF FirstHolder
  <2>3. order[n] =< order[m]
    <3>1. CASE n = m
      BY <1>6, <1>8, <3>1
    <3>2. CASE n < m
      <4>1. order[n] < order[m]
        BY <1>8, <1>9, <2>1, <3>2
      <4> QED BY <1>6, <1>8, <2>1, <4>1
    <3> QED BY <1>8, <1>9, <2>1, <2>2, <3>1, <3>2
  <2>4. chain[order[n]].at =< chain[k].at
    BY <1>8, <2>1, <2>3, StampedInOrder
  <2>5. x.record.time =< chain[order[n]].at
    BY <1>3, <1>7 DEF FirstHolder
  <2> QED BY <1>10, <2>4, <2>5
<1> QED BY <1>11, <1>12

-----------------------------------------------------------------------------
(* What is told to an honest issuer *)

\* The log grows at its end by a record logged now.
LEMMA GrownBy ==
  ASSUME IInv, GrownInv, NEW e \in Logged, e.logged = now, log' = Append(log, e),
         UNCHANGED <<rewritten, fetched, chain>>
  PROVE  GrownInv'
<1>1. log \in Seq(Logged \cup {Other}) /\ Len(log) \in Nat /\ DOMAIN log = 1..Len(log) /\ now \in Nat
  BY LenProperties, NowIsNat DEF IInv, LoggedBy
<1>2. DOMAIN log' = 1..(Len(log) + 1) /\ log'[Len(log) + 1] = e /\ \A m \in DOMAIN log : log'[m] = log[m]
  BY <1>1
<1>3. e # Other
  BY HonestAssumption
<1>4. ASSUME NEW head, HeadInv(head), MissesOnly(head), NEW m \in DOMAIN log', m > Len(head.log)
      PROVE  log'[m].logged >= head.fetched
  <2>1. CASE m \in DOMAIN log
    BY <1>2, <1>4, <2>1 DEF MissesOnly
  <2>2. CASE m = Len(log) + 1
    <3>1. head.fetched \in 0..now
      BY <1>4 DEF HeadInv
    <3> QED BY <1>1, <1>2, <2>2, <3>1
  <2> QED BY <1>1, <1>2, <2>1, <2>2
<1>5. \A k \in DOMAIN chain : HeadInv(chain[k])
  BY DEF IInv, ChainInv
<1>6. fetched # NoHead => HeadInv(fetched)
  BY DEF IInv, FetchedInv
<1>7. \A m \in DOMAIN log' : m > 1 /\ ~rewritten => log'[m] # Other
  BY <1>1, <1>2, <1>3 DEF GrownInv
<1>8. ~rewritten => \A k \in DOMAIN chain : MissesOnly(chain[k])'
  <2>1. ASSUME ~rewritten, NEW k \in DOMAIN chain, NEW m \in DOMAIN log', m > Len(chain[k].log)
        PROVE  log'[m].logged >= chain[k].fetched
    <3>1. PICK head : head = chain[k]
      OBVIOUS
    <3>2. HeadInv(head) /\ MissesOnly(head)
      BY <1>5, <2>1, <3>1 DEF GrownInv
    <3> QED BY <1>4, <2>1, <3>1, <3>2
  <2> QED BY <2>1 DEF MissesOnly
<1>9. ~rewritten /\ fetched # NoHead => MissesOnly(fetched)'
  <2>1. ASSUME ~rewritten, fetched # NoHead, NEW m \in DOMAIN log', m > Len(fetched.log)
        PROVE  log'[m].logged >= fetched.fetched
    <3>1. PICK head : head = fetched
      OBVIOUS
    <3>2. HeadInv(head) /\ MissesOnly(head)
      BY <1>6, <2>1, <3>1 DEF GrownInv
    <3> QED BY <1>4, <2>1, <3>1, <3>2
  <2> QED BY <2>1 DEF MissesOnly
<1> QED BY <1>7, <1>8, <1>9 DEF GrownInv

\* The issuer's log is what the honest parties left it, until it is rewritten.
LEMMA GrownNext ==
  ASSUME IInv, GrownInv, [Next]_vars
  PROVE  GrownInv'
<1>1. CASE UNCHANGED <<log, rewritten, fetched, chain>>
  BY <1>1 DEF GrownInv, MissesOnly
<1>2. ASSUME NEW w \in pending, Submit(w)
      PROVE  GrownInv'
  <2>1. PICK e : e = [id |-> w.id, claims |-> w.claims, signed |-> w.signed, logged |-> now]
    OBVIOUS
  <2>2. w.id \in Ids /\ w.claims \in 0..now /\ w.signed \in 0..now
    BY DEF IInv, PendingInv, Waiting
  <2>3. now \in Nat /\ w.claims \in 0..(Horizon + 1) /\ w.signed \in Nat
    BY <2>2, NowIsNat
  <2>4. e \in Logged /\ e.logged = now
    BY <2>1, <2>2, <2>3, LoggedRecord
  <2>5. log' = Append(log, e) /\ UNCHANGED <<rewritten, fetched, chain>>
    BY <1>2, <2>1 DEF Submit
  <2> QED BY <2>4, <2>5, GrownBy
<1>3. ASSUME NEW id \in Ids, NEW claims \in {0, now + 1}, Misdate(id, claims)
      PROVE  GrownInv'
  <2>1. PICK e : e = Misdated(id, claims)
    OBVIOUS
  <2>2. now \in Nat /\ claims \in 0..(Horizon + 1)
    BY NowIsNat
  <2>3. e \in Logged /\ e.logged = now
    BY <2>1, <2>2, LoggedRecord DEF Misdated
  <2>4. log' = Append(log, e) /\ UNCHANGED <<rewritten, fetched, chain>>
    BY <1>3, <2>1 DEF Misdate
  <2> QED BY <2>3, <2>4, GrownBy
<1>4. ASSUME NEW id \in Ids, NEW k \in 1..Len(log), Rewrite(id, k)
      PROVE  GrownInv'
  BY <1>4 DEF Rewrite, GrownInv
<1>5. CASE Fetch
  <2>1. fetched' = [log |-> log, fetched |-> now] /\ UNCHANGED <<log, rewritten, chain>>
    BY <1>5 DEF Fetch
  <2>2. ~(\E m \in DOMAIN log : m > Len(log))
    BY LenProperties DEF IInv, LoggedBy
  <2> QED BY <2>1, <2>2 DEF GrownInv, MissesOnly
<1>6. CASE Stamp
  <2>1. PICK st : st = Stamped(fetched)
    OBVIOUS
  <2>2. /\ fetched # NoHead /\ fetched' = NoHead /\ chain' = Append(chain, st)
        /\ UNCHANGED <<log, rewritten>>
    BY <1>6, <2>1 DEF Stamp
  <2>3. st.log = fetched.log /\ st.fetched = fetched.fetched
    BY <2>1 DEF Stamped
  <2>4. /\ \A k \in DOMAIN chain' : (k \in DOMAIN chain /\ chain'[k] = chain[k]) \/ chain'[k] = st
    <3>1. IsArray(chain)
      BY DEF IInv, ChainInv
    <3>2. Len(chain) \in Nat /\ DOMAIN chain = 1..Len(chain)
      BY <3>1, ArrayFacts
    <3>3. /\ IsArray(chain') /\ Len(chain') = Len(chain) + 1
          /\ \A k \in 1..Len(chain) : chain'[k] = chain[k]
          /\ chain'[Len(chain) + 1] = st
      BY <2>2, <3>1, AppendArray
    <3>4. DOMAIN chain' = 1..(Len(chain) + 1)
      BY <3>3, ArrayFacts
    <3>5. ASSUME NEW k \in DOMAIN chain'
          PROVE  k \in 1..Len(chain) \/ k = Len(chain) + 1
      BY <3>2, <3>4
    <3> QED BY <3>2, <3>3, <3>5
  <2>5. ~rewritten => MissesOnly(st) /\ \A k \in DOMAIN chain : MissesOnly(chain[k])
    BY <2>2, <2>3 DEF GrownInv, MissesOnly
  <2>6. ~rewritten => \A k \in DOMAIN chain' : MissesOnly(chain'[k])
    BY <2>4, <2>5
  <2>7. ~rewritten' => \A k \in DOMAIN chain' : MissesOnly(chain[k])'
    BY <2>2, <2>6 DEF MissesOnly
  <2> QED BY <2>2, <2>7 DEF GrownInv
<1>7. Tick \/ (\E id \in Ids : Sign(id)) \/ Review \/ ReviewTampered \/ (Verify /\ UNCHANGED world)
      \/ UNCHANGED vars => UNCHANGED <<log, rewritten, fetched, chain>>
  BY DEF Tick, Sign, Review, ReviewTampered, Present, world, vars
<1> QED BY <1>1, <1>2, <1>3, <1>4, <1>5, <1>6, <1>7 DEF Next, Publish

\* The first entries of a list.
LEMMA PrefixFacts ==
  ASSUME NEW s, NEW t, LogOk(s), LogOk(t)
  PROVE  IsPrefix(s, t) <=> Len(s) =< Len(t) /\ \A k \in 1..Len(s) : s[k] = t[k]
<1>1. /\ Len(s) \in Nat /\ Len(t) \in Nat
      /\ s \in Seq(Logged \cup {Other}) /\ t \in Seq(Logged \cup {Other})
  BY DEF LogOk
<1>2. ASSUME IsPrefix(s, t)
      PROVE  Len(s) =< Len(t) /\ \A k \in 1..Len(s) : s[k] = t[k]
  <2>1. Len(s) =< Len(t) /\ SubSeq(s, 1, Len(s)) = SubSeq(t, 1, Len(s))
    BY <1>2 DEF IsPrefix
  <2> QED BY <1>1, <2>1
<1>3. ASSUME Len(s) =< Len(t), \A k \in 1..Len(s) : s[k] = t[k]
      PROVE  IsPrefix(s, t)
  <2>1. SubSeq(s, 1, Len(s)) = SubSeq(t, 1, Len(s))
    BY <1>1, <1>3
  <2> QED BY <1>3, <2>1 DEF IsPrefix
<1> QED BY <1>2, <1>3

\* No head is of a log too large to be read: the issuer has so many records.
LEMMA LogSize ==
  ASSUME IInv, GrownInv, ~rewritten
  PROVE  Len(log) =< MaxSafeSize
<1> DEFINE n == Len(log)
           ours == Ids \cup {"checkpoint"}
           name == [m \in 2..n |-> log[m].id]
<1>1. LogOk(log)
  BY LogsOk
<1>2. n \in Nat /\ n >= 2 /\ DOMAIN log = 1..n /\ log \in Seq(Logged \cup {Other})
  BY <1>1 DEF LogOk
<1>3. ASSUME NEW m \in 2..n
      PROVE  m \in DOMAIN log /\ log[m] # Other /\ log[m].id \in ours
  <2>1. m \in DOMAIN log /\ m > 1
    BY <1>2
  <2>2. log[m] # Other
    BY <2>1 DEF GrownInv
  <2>3. log[m] \in Logged
    BY <1>2, <2>1, <2>2
  <2> QED BY <2>1, <2>2, <2>3 DEF Logged
<1>4. \A j, k \in 2..n : log[j].id = log[k].id => j = k
  BY <1>1, <1>3 DEF LogOk
<1>5. name \in Injection(2..n, ours)
  <2>1. name \in [2..n -> ours]
    BY <1>3
  <2>2. IsInjective(name)
    BY <1>4 DEF IsInjective
  <2> QED BY <2>1, <2>2 DEF Injection
<1>6. IsFiniteSet(Ids) /\ Cardinality(Ids) + 2 =< MaxSafeSize /\ Cardinality(Ids) \in Nat
  BY HonestAssumption, FS_CardinalityType
<1>7. IsFiniteSet(ours) /\ Cardinality(ours) =< Cardinality(Ids) + 1 /\ Cardinality(ours) \in Nat
  <2>1. /\ IsFiniteSet(ours)
        /\ Cardinality(ours) = IF "checkpoint" \in Ids THEN Cardinality(Ids) ELSE Cardinality(Ids) + 1
    BY <1>6, FS_AddElement
  <2> QED BY <1>6, <2>1
<1>8. Cardinality(2..n) = n - 1
  <2>1. Cardinality(2..n) = IF 2 > n THEN 0 ELSE n - 2 + 1
    BY <1>2, FS_Interval
  <2> QED BY <1>2, <2>1
<1> HIDE DEF name, ours, n
<1>9. Cardinality(2..n) =< Cardinality(ours)
  BY <1>5, <1>7, FS_Injection
<1> QED BY <1>2, <1>6, <1>7, <1>8, <1>9, SizeAssumption DEF n

\* An entry stands at one place, in every log that starts the log.
LEMMA FewerHeld ==
  ASSUME IInv, GrownInv, ~rewritten, NEW s, NEW t, LogOk(s), LogOk(t),
         IsPrefix(s, log), IsPrefix(t, log), Entries(s) \subseteq Entries(t)
  PROVE  Len(s) =< Len(t)
<1>1. LogOk(log)
  BY LogsOk
<1>2. /\ Len(s) \in Nat /\ Len(t) \in Nat /\ Len(s) >= 2 /\ Len(t) >= 2 /\ Len(log) \in Nat
      /\ DOMAIN s = 1..Len(s) /\ DOMAIN t = 1..Len(t) /\ DOMAIN log = 1..Len(log)
  BY <1>1 DEF LogOk
<1>3. /\ Len(s) =< Len(log) /\ \A k \in 1..Len(s) : s[k] = log[k]
      /\ Len(t) =< Len(log) /\ \A k \in 1..Len(t) : t[k] = log[k]
  BY <1>1, PrefixFacts
<1>4. SUFFICES ASSUME Len(s) > Len(t) PROVE FALSE
  BY <1>2
<1>5. PICK m : m = Len(s)
  OBVIOUS
<1>6. m \in DOMAIN s /\ m \in DOMAIN log /\ m > 1 /\ s[m] = log[m]
  BY <1>2, <1>3, <1>5
<1>7. log[m] # Other
  BY <1>6 DEF GrownInv
<1>8. log[m] \in Entries(t)
  BY <1>6, <1>7 DEF Entries
<1>9. PICK k \in DOMAIN t : t[k] = log[m]
  BY <1>8 DEF Entries
<1>10. k \in DOMAIN log /\ log[k] = log[m]
  BY <1>2, <1>3, <1>9
<1>11. k = m
  BY <1>1, <1>6, <1>7, <1>10 DEF LogOk
<1> QED BY <1>2, <1>4, <1>5, <1>9, <1>11

\* A call that is a bundle of an honest log, as World builds it.
Plain(v) == /\ IInv /\ GrownInv /\ ~rewritten
            /\ v \in Selections /\ call = bundle(v)

\* Every log that was seen starts the log, and the later ones go on from it.
LEMMA SeenOnward ==
  ASSUME IInv, GrownInv, ~rewritten, NEW j \in DOMAIN chain, NEW k \in DOMAIN chain
  PROVE  /\ LogOk(chain[k].log) /\ IsPrefix(chain[k].log, log)
         /\ j =< k => IsPrefix(chain[j].log, chain[k].log)
<1>1. LogOk(chain[k].log) /\ LogOk(chain[j].log) /\ LogOk(log)
  BY LogsOk
<1>2. IsPrefix(chain[j].log, log) /\ IsPrefix(chain[k].log, log)
  BY DEF IInv, ChainInv, HeadInv
<1>3. ASSUME j =< k
      PROVE  Entries(chain[j].log) \subseteq Entries(chain[k].log)
  <2>1. DOMAIN chain = 1..Len(chain) /\ Len(chain) \in Nat
    BY ArrayFacts DEF IInv, ChainInv
  <2>2. j = k \/ j < k
    BY <1>3, <2>1
  <2>3. j < k => Follows(chain[k], chain[j])
    BY DEF IInv, ChainInv
  <2> QED BY <2>2, <2>3 DEF Follows
<1>4. ASSUME j =< k
      PROVE  IsPrefix(chain[j].log, chain[k].log)
  <2>1. Len(chain[j].log) =< Len(chain[k].log)
    BY <1>1, <1>2, <1>3, <1>4, FewerHeld
  <2>2. /\ \A m \in 1..Len(chain[j].log) : chain[j].log[m] = log[m]
        /\ \A m \in 1..Len(chain[k].log) : chain[k].log[m] = log[m]
    BY <1>1, <1>2, PrefixFacts
  <2>3. Len(chain[j].log) \in Nat /\ Len(chain[k].log) \in Nat
    BY <1>1 DEF LogOk
  <2>4. \A m \in 1..Len(chain[j].log) : chain[j].log[m] = chain[k].log[m]
    BY <2>1, <2>2, <2>3
  <2> QED BY <1>1, <2>1, <2>4, PrefixFacts
<1> QED BY <1>1, <1>2, <1>4

\* What is shown of an honest log: each statement saw a prefix of the target,
\* which is a prefix of the log.
LEMMA TargetSeen ==
  ASSUME NEW v, Plain(v)
  PROVE  /\ LogOk(v.target) /\ IsPrefix(v.target, log) /\ Len(v.target) =< MaxSafeSize
         /\ \A k \in v.shown : k \in DOMAIN chain /\ IsPrefix(chain[k].log, v.target)
<1>1. IInv /\ GrownInv /\ ~rewritten /\ v \in Selections
  BY DEF Plain
<1>2. LogOk(log) /\ IsPrefix(log, log)
  <2>1. LogOk(log)
    BY <1>1, LogsOk
  <2>2. Len(log) \in Nat
    BY <2>1 DEF LogOk
  <2> QED BY <2>1, <2>2, PrefixFacts
<1>3. /\ DOMAIN chain = 1..Len(chain) /\ Len(chain) \in Nat /\ v.shown \subseteq DOMAIN chain
      /\ LogOk(v.target)
  BY <1>1, SelectionTakes
<1>4. PICK style, shown, target :
        /\ v = Selection(style, shown, target)
        /\ target = log \/ \E k \in DOMAIN chain : shown = 1..k /\ target = chain[k].log
  BY <1>1 DEF Selections, Whole
<1>5. v.shown = shown /\ v.target = target
  BY <1>4 DEF Selection
<1>6. CASE target = log
  BY <1>1, <1>2, <1>3, <1>5, <1>6, SeenOnward, LogSize
<1>7. ASSUME NEW k \in DOMAIN chain, shown = 1..k, target = chain[k].log
      PROVE  /\ IsPrefix(target, log) /\ Len(target) =< MaxSafeSize
             /\ \A j \in shown : j \in DOMAIN chain /\ IsPrefix(chain[j].log, target)
  <2>1. IsPrefix(target, log)
    BY <1>1, <1>7, SeenOnward
  <2>2. Len(target) =< Len(log) /\ Len(log) =< MaxSafeSize
    BY <1>1, <1>2, <1>3, <1>5, <2>1, PrefixFacts, LogSize
  <2>3. Len(target) \in Nat /\ Len(log) \in Nat
    BY <1>2, <1>3, <1>5 DEF LogOk
  <2>4. \A j \in shown : j \in DOMAIN chain /\ j =< k
    BY <1>3, <1>7
  <2>5. \A j \in shown : IsPrefix(chain[j].log, target)
    BY <1>1, <1>7, <2>4, SeenOnward
  <2> QED BY <2>1, <2>2, <2>3, <2>4, <2>5, SizeAssumption
<1> QED BY <1>3, <1>4, <1>5, <1>6, <1>7

\* The leaves of a log that starts another.
LEMMA LeavesStart ==
  ASSUME NEW s, NEW t, LogOk(s), LogOk(t), IsPrefix(s, t), NEW style
  PROVE  /\ Prefix(Leaves(style, s), Leaves(style, t))
         /\ SubSeq(Leaves(style, t), 1, Len(s)) = Leaves(style, s)
         /\ Len(s) = Len(t) => Leaves(style, s) = Leaves(style, t)
<1>1. PICK a, b, n : a = Leaves(style, s) /\ b = Leaves(style, t) /\ n = Len(s)
  OBVIOUS
<1>2. n \in Nat /\ n >= 2 /\ Len(t) \in Nat /\ DOMAIN s = 1..n /\ DOMAIN t = 1..Len(t)
  BY <1>1 DEF LogOk
<1>3. n =< Len(t) /\ \A k \in 1..n : s[k] = t[k]
  BY <1>1, PrefixFacts
<1>4. Len(a) = n /\ DOMAIN a = 1..n /\ Len(b) = Len(t) /\ DOMAIN b = 1..Len(t)
  BY <1>1, <1>2, LeavesLen
<1>5. \A k \in 1..n : a[k] = b[k]
  <2>1. SUFFICES ASSUME NEW k \in 1..n PROVE a[k] = b[k]
    OBVIOUS
  <2>2. k \in DOMAIN s /\ k \in DOMAIN t /\ s[k] = t[k]
    BY <1>2, <1>3
  <2> QED BY <1>1, <2>2, LeavesLen
<1>6. a = [k \in 1..n |-> a[k]] /\ b = [k \in 1..Len(t) |-> b[k]]
  <2>1. a = [k \in DOMAIN s |-> a[k]] /\ b = [k \in DOMAIN t |-> b[k]]
    BY <1>1 DEF Leaves
  <2> QED BY <1>2, <2>1
<1>7. Prefix(a, b)
  BY <1>2, <1>3, <1>4, <1>5 DEF Prefix
<1>8. SubSeq(b, 1, n) = a
  <2>1. b \in Seq({b[k] : k \in 1..Len(t)})
    BY <1>2, <1>4, <1>6, SeqDef
  <2>2. PICK c : c = SubSeq(b, 1, n)
    OBVIOUS
  <2>3. c = [k \in 1..n |-> c[k]] /\ \A k \in 1..n : c[k] = b[k]
    BY <1>2, <1>3, <1>4, <2>1, <2>2
  <2> QED BY <1>5, <1>6, <2>2, <2>3
<1>9. n = Len(t) => a = b
  BY <1>5, <1>6
<1> QED BY <1>1, <1>7, <1>8, <1>9

\* What the authority signs.
Authentic(w, style, k) ==
  /\ w.form = TRUE /\ w.signed = TRUE /\ w.key = Authority /\ w.id = "witness" /\ w.logKey = Issuer
  /\ w.prev = IF k = 1 THEN NoHash ELSE StatementHash(Statements(style)[k - 1])

\* Every statement published is signed and names the one before it.
LEMMA StatementAuthentic ==
  ASSUME IInv, NEW style, NEW k \in DOMAIN chain
  PROVE  Authentic(Statements(style)[k], style, k)
<1>1. PICK w, f, head, prev :
        /\ w = Statements(style)[k] /\ f = Statements(style)
        /\ head = sth(Leaves(style, chain[k].log), chain[k].fetched)
        /\ prev = IF k = 1 THEN NoHash ELSE StatementHash(f[k - 1])
  OBVIOUS
<1>2. w = statement(style, k, prev, head, chain[k].at)
  <2>1. IsArray(chain)
    BY DEF IInv, ChainInv
  <2>2. w = StatementFrom(style, f, k)
    BY <1>1, <2>1, StatementEquation
  <2> QED BY <1>1, <2>2 DEF StatementFrom
<1>3. /\ w.form = TRUE /\ w.signed = TRUE /\ w.key = Authority /\ w.id = "witness" /\ w.logKey = Issuer
      /\ w.prev = prev
  BY <1>2 DEF statement
<1>4. Authentic(w, style, k)
  BY <1>1, <1>3 DEF Authentic
<1> QED BY <1>1, <1>4

\* Of the statements shown, none is left out between two.
LEMMA Neighbours ==
  ASSUME NEW m \in Int, NEW n \in Int, NEW k, k \in DOMAIN Ascending(m..n), k > 1
  PROVE  k - 1 \in DOMAIN Ascending(m..n) /\ Ascending(m..n)[k] = Ascending(m..n)[k - 1] + 1
<1>1. PICK order, size : order = Ascending(m..n) /\ size = Cardinality(m..n)
  OBVIOUS
<1>2. m..n \in SUBSET Int /\ IsFiniteSet(m..n)
  BY FS_Interval
<1>3. /\ DOMAIN order = 1..size /\ size \in Nat
      /\ \A j \in DOMAIN order : order[j] \in m..n
      /\ \A j, q \in DOMAIN order : j < q => order[j] < order[q]
      /\ \A x \in m..n : \E j \in DOMAIN order : order[j] = x
  BY <1>1, <1>2, AscendingFacts
<1>4. k \in DOMAIN order /\ k \in 1..size /\ k - 1 \in DOMAIN order
  BY <1>1, <1>3
<1>5. PICK a \in m..n, b \in m..n : a = order[k - 1] /\ b = order[k]
  BY <1>3, <1>4
<1>6. a < b
  BY <1>3, <1>4, <1>5
<1>7. a + 1 \in m..n
  BY <1>5, <1>6
<1>8. PICK j \in DOMAIN order : order[j] = a + 1
  BY <1>3, <1>7
<1>9. ~(j =< k - 1)
  <2>1. j = k - 1 => order[j] = a
    BY <1>5
  <2>2. j < k - 1 => order[j] < a
    BY <1>3, <1>4, <1>5
  <2> QED BY <1>3, <1>4, <1>5, <1>8, <2>1, <2>2
<1>10. j = k \/ k < j
  BY <1>3, <1>4, <1>9, SMTT(30)
<1>11. k < j => b < a + 1
  BY <1>3, <1>4, <1>5, <1>8
<1>12. b = a + 1
  BY <1>5, <1>6, <1>8, <1>10, <1>11
<1> QED BY <1>1, <1>4, <1>5, <1>12

\* A statement of an honest chain, where it is shown.
ShownAt(w, v, k) ==
  /\ k \in DOMAIN chain /\ k \in v.shown /\ Published(w, v.style, k) /\ Authentic(w, v.style, k)
  /\ w = Statements(v.style)[k]

\* Each statement shown is one that was published.
LEMMA WitnessedAt ==
  ASSUME NEW v, Plain(v), NEW n \in DOMAIN call.witnessed
  PROVE  ShownAt(call.witnessed[n], v, Ascending(v.shown)[n])
<1>1. IInv /\ v \in Selections /\ call.witnessed = bundle(v).witnessed
  BY DEF Plain
<1>2. PICK k, w : k = Ascending(v.shown)[n] /\ w = call.witnessed[n]
  OBVIOUS
<1>3. k \in v.shown /\ k \in DOMAIN chain /\ w = Statements(v.style)[k] /\ Published(w, v.style, k)
  BY <1>1, <1>2, BundleStatements
<1>4. Authentic(w, v.style, k)
  BY <1>1, <1>3, StatementAuthentic
<1> QED BY <1>2, <1>3, <1>4 DEF ShownAt

\* Its head is of a prefix of the target, of a size that is read.
LEMMA HeadShown ==
  ASSUME NEW v, Plain(v), NEW w, NEW k, ShownAt(w, v, k)
  PROVE  /\ w.size \in 1..MaxSafeSize /\ w.size =< call.head.tree_size
         /\ HeadValid(witnessed_head(w), Issuer)
<1>1. IInv
  BY DEF Plain
<1>2. Published(w, v.style, k) /\ k \in DOMAIN chain /\ k \in v.shown
  BY DEF ShownAt
<1>3. /\ LogOk(v.target) /\ Len(v.target) =< MaxSafeSize /\ IsPrefix(chain[k].log, v.target)
      /\ LogOk(chain[k].log)
  BY <1>1, <1>2, TargetSeen, LogsOk
<1>4. /\ Len(chain[k].log) \in Nat /\ Len(chain[k].log) >= 2 /\ Len(v.target) \in Nat
      /\ Len(chain[k].log) =< Len(v.target)
  BY <1>3, PrefixFacts DEF LogOk
<1>5. w.size = Len(chain[k].log) /\ call.head.tree_size = Len(v.target)
  <2>1. call.head.tree_size = Len(v.target)
    BY BundleHead DEF Plain
  <2> QED BY <1>2, <2>1 DEF Published
<1>6. w.size \in 1..MaxSafeSize /\ w.size =< call.head.tree_size
  BY <1>3, <1>4, <1>5, SizeAssumption
<1>7. w.headTime \in 0..Horizon
  <2>1. w.headTime = chain[k].fetched /\ chain[k].fetched \in 0..now /\ now \in 0..Horizon
    BY <1>1, <1>2 DEF Published, IInv, ChainInv, HeadInv
  <2> QED BY <2>1, WitnessingAssumption
<1>8. PICK h : h = witnessed_head(w)
  OBVIOUS
<1>9. /\ h.log = "public" /\ h.org_id = NoValue /\ h.tree_size = w.size /\ h.root_hash = w.root
      /\ h.timestamp = w.headTime /\ h.form = TRUE /\ h.signature = w.headSignature
  BY <1>8 DEF witnessed_head
<1>10. Preimage(h) = <<"aqta-sth-public-v1", w.size, w.root, w.headTime>>
  BY <1>9 DEF Preimage
<1>11. h.signature = [key |-> Issuer, over |-> Preimage(h)]
  BY <1>2, <1>9, <1>10 DEF Published
<1>12. h.timestamp \notin {NoValue, Null}
  BY <1>7, <1>9, HonestAssumption
<1>13. IsSize(h.tree_size)
  BY <1>6, <1>9, SizeAssumption DEF IsSize
<1>14. HeadValid(h, Issuer)
  BY <1>9, <1>11, <1>12, <1>13 DEF HeadValid
<1> QED BY <1>6, <1>8, <1>14

\* A statement of the chain follows the one published before it.
LEMMA FollowsPlain ==
  ASSUME NEW v, Plain(v), NEW n \in DOMAIN call.witnessed, n - 1 \in DOMAIN call.witnessed,
         Ascending(v.shown)[n] = Ascending(v.shown)[n - 1] + 1
  PROVE  ~DoesNotFollow(call, n)
<1>1. PICK k, j, w, prev :
        /\ k = Ascending(v.shown)[n] /\ j = Ascending(v.shown)[n - 1]
        /\ w = call.witnessed[n] /\ prev = call.witnessed[n - 1]
  OBVIOUS
<1>2. ShownAt(w, v, k) /\ ShownAt(prev, v, j) /\ k = j + 1
  BY <1>1, WitnessedAt
<1>3. /\ j \in DOMAIN chain /\ k \in DOMAIN chain
      /\ Published(w, v.style, k) /\ Published(prev, v.style, j)
      /\ Authentic(w, v.style, k) /\ Authentic(prev, v.style, j) /\ prev = Statements(v.style)[j]
  BY <1>2 DEF ShownAt
<1>4. IInv /\ GrownInv /\ ~rewritten /\ v \in Selections
  BY DEF Plain
<1>5. j \in Nat /\ k \in Nat /\ j > 0 /\ k - 1 = j
  <2>1. DOMAIN chain = 1..Len(chain) /\ Len(chain) \in Nat
    BY <1>4, SelectionTakes
  <2> QED BY <1>2, <1>3, <2>1
<1>6. w.id = prev.id
  BY <1>3 DEF Authentic
<1>7. w.seq = prev.seq + 1
  BY <1>2, <1>3 DEF Published
<1>8. w.prev = StatementHash(prev)
  <2>1. k # 1
    BY <1>2, <1>5
  <2> QED BY <1>3, <1>5, <2>1 DEF Authentic
<1>9. ~(cmp_instant(w.at, prev.at) < 0)
  <2>1. PICK t, u, style, sp :
          t = chain[k].at /\ u = chain[j].at /\ style = v.style /\ sp = v.style.stamps
    OBVIOUS
  <2>2. t \in Nat /\ u \in Nat /\ t =< 86400 /\ u =< 86400
    BY <1>3, <1>4, <2>1, TicksInADay
  <2>3. j =< k
    BY <1>2, <1>5
  <2>4. u =< t
    BY <1>3, <1>4, <2>1, <2>3, StampedInOrder
  <2>5. DatesFollow(style)
    BY <1>4, <2>1, StylesFollow
  <2>6. cmp_instant(Written(style, sp, t), Written(style, sp, u)) < 0 <=> t < u
    BY <2>2, <2>5, WrittenCompared
  <2>7. w.at = Written(style, sp, t) /\ prev.at = Written(style, sp, u)
    BY <1>3, <2>1 DEF Published
  <2> QED BY <2>2, <2>4, <2>6, <2>7
<1>10. PICK s, t : s = chain[j].log /\ t = chain[k].log
  OBVIOUS
<1>11. LogOk(s) /\ LogOk(t) /\ IsPrefix(s, t)
  <2>1. j =< k
    BY <1>2, <1>5
  <2> QED BY <1>3, <1>4, <1>10, <2>1, SeenOnward
<1>12. Len(s) =< Len(t) /\ Len(s) \in Nat /\ Len(t) \in Nat
  BY <1>11, PrefixFacts DEF LogOk
<1>13. w.size = Len(t) /\ prev.size = Len(s)
       /\ w.root = merkle_root(Leaves(v.style, t)) /\ prev.root = merkle_root(Leaves(v.style, s))
  BY <1>3, <1>10 DEF Published
<1>14. ~(w.size < prev.size)
  BY <1>12, <1>13
<1>15. w.size = prev.size => w.root = prev.root
  <2>1. Len(s) = Len(t) => Leaves(v.style, s) = Leaves(v.style, t)
    BY <1>11, LeavesStart
  <2> QED BY <1>13, <2>1
<1> QED BY <1>1, <1>6, <1>7, <1>8, <1>9, <1>14, <1>15 DEF DoesNotFollow

\* No statement that is shown is refuted, when none between them is left out.
LEMMA StatementPlain ==
  ASSUME NEW v, Plain(v), NEW first \in Int, NEW end \in Int, v.shown = first..end,
         NEW n \in DOMAIN call.witnessed
  PROVE  ~StatementRefuted(call, n)
<1>1. PICK k, w : k = Ascending(v.shown)[n] /\ w = call.witnessed[n]
  OBVIOUS
<1>2. ShownAt(w, v, k)
  BY <1>1, WitnessedAt
<1>3. Authentic(w, v.style, k) /\ Published(w, v.style, k)
  BY <1>2 DEF ShownAt
<1>4. w.size \in 1..MaxSafeSize /\ w.size =< call.head.tree_size /\ HeadValid(witnessed_head(w), Issuer)
  BY <1>2, HeadShown
<1>5. IInv /\ v \in Selections /\ call.witnessed = bundle(v).witnessed
  BY DEF Plain
<1>6. call.pinned = Issuer /\ call.witnessKeys = {Authority} /\ call.head.tree_size = Len(v.target)
  BY <1>5, BundleHead DEF Plain
<1>7. StatementOk(w)
  <2>1. w.seq = 1 <=> w.prev = NoHash
    <3>1. \A x : StatementHash(x) # NoHash
      BY DEF StatementHash, Hash, NoHash
    <3> QED BY <1>3, <3>1 DEF Published, Authentic
  <2> QED BY <1>3, <1>4, <2>1 DEF StatementOk, Authentic
<1>8. w.logKey = call.pinned /\ w.key \in call.witnessKeys
  BY <1>3, <1>6 DEF Authentic
<1>9. n > 1 => ~DoesNotFollow(call, n)
  <2>1. DOMAIN call.witnessed = DOMAIN Ascending(v.shown)
    BY <1>5, BundleStatements
  <2>2. n > 1 => /\ n - 1 \in DOMAIN call.witnessed
                 /\ Ascending(v.shown)[n] = Ascending(v.shown)[n - 1] + 1
    BY <2>1, Neighbours
  <2> QED BY <2>2, FollowsPlain
<1>10. ~(w.size > call.head.tree_size)
  <2>1. Len(v.target) \in Nat
    BY <1>5, SelectionTakes DEF LogOk
  <2> QED BY <1>4, <1>6, <2>1, SizeAssumption
<1> QED BY <1>1, <1>4, <1>6, <1>7, <1>8, <1>9, <1>10 DEF StatementRefuted

\* A consistency proof between the head and a size that was witnessed.
Joins(c, v) ==
  LET leaves == Leaves(v.style, v.target) IN
  /\ c.object = TRUE /\ c.hashes = TRUE /\ c.new_size = Len(leaves) /\ c.new_root = merkle_root(leaves)
  /\ c.old_size \in 1..(Len(leaves) - 1)
  /\ c.old_root = merkle_root(SubSeq(leaves, 1, c.old_size))
  /\ c.consistency_path = consistency_path(leaves, c.old_size)

\* The proofs of a bundle: one for each size that was witnessed, and no other.
LEMMA LinksPlain ==
  ASSUME NEW v, Plain(v)
  PROVE  /\ \A j \in DOMAIN call.links :
              Joins(call.links[j], v) /\ \E k \in DOMAIN call.witnessed : call.witnessed[k].size = call.links[j].old_size
         /\ \A k \in DOMAIN call.witnessed :
              call.witnessed[k].size \in 1..(Len(v.target) - 1) => LinksFrom(call, call.witnessed[k].size) # {}
<1> DEFINE leaves == Leaves(v.style, v.target)
           order == Ascending(v.shown)
           statements == [n \in DOMAIN order |-> Statements(v.style)[order[n]]]
           sizes == {n \in 1..(Len(leaves) - 1) : \E k \in DOMAIN statements : statements[k].size = n}
           joins == Ascending(sizes)
           Link(n) == [object |-> TRUE, old_size |-> n, new_size |-> Len(leaves), hashes |-> TRUE,
                       old_root |-> merkle_root(SubSeq(leaves, 1, n)), new_root |-> merkle_root(leaves),
                       consistency_path |-> consistency_path(leaves, n)]
<1>1. IInv /\ v \in Selections /\ call = bundle(v) /\ LogOk(v.target)
  BY SelectionTakes DEF Plain
<1>2. call.links = cons(statements, leaves) /\ call.witnessed = statements
  BY <1>1 DEF bundle
<1>3. cons(statements, leaves) = [m \in DOMAIN joins |-> Link(joins[m])]
  BY DEF cons
<1>4. Len(leaves) = Len(v.target) /\ Len(v.target) \in Nat
  BY <1>1, LeavesLen DEF LogOk
<1>5. sizes \in SUBSET Int /\ IsFiniteSet(sizes) /\ sizes \subseteq 1..(Len(leaves) - 1)
  <2> DEFINE all == 1..(Len(leaves) - 1)
  <2>1. IsFiniteSet(all) /\ all \subseteq Int
    BY <1>4, FS_Interval
  <2>2. sizes \subseteq all
    <3> HIDE DEF statements, leaves
    <3> QED OBVIOUS
  <2> HIDE DEF sizes
  <2> QED BY <2>1, <2>2, FS_Subset
<1>6. /\ \A m \in DOMAIN joins : joins[m] \in sizes
      /\ \A x \in sizes : \E m \in DOMAIN joins : joins[m] = x
  <2> HIDE DEF sizes
  <2> QED BY <1>5, AscendingFacts
<1>7. \A x \in sizes : \E k \in DOMAIN statements : statements[k].size = x
  <2> HIDE DEF statements, leaves
  <2> QED OBVIOUS
<1>8. \A k \in DOMAIN statements : statements[k].size \in 1..(Len(leaves) - 1) => statements[k].size \in sizes
  <2> HIDE DEF statements, leaves
  <2> QED OBVIOUS
<1> HIDE DEF sizes, statements, joins
<1>9. DOMAIN call.links = DOMAIN joins /\ \A j \in DOMAIN joins : call.links[j] = Link(joins[j])
  <2> HIDE DEF Link
  <2> QED BY <1>2, <1>3
<1>10. ASSUME NEW j \in DOMAIN call.links
       PROVE  Joins(call.links[j], v) /\ \E k \in DOMAIN call.witnessed : call.witnessed[k].size = call.links[j].old_size
  <2>1. PICK c, n : c = call.links[j] /\ n = joins[j] /\ n \in sizes /\ c = Link(n)
    <3> HIDE DEF Link
    <3> QED BY <1>6, <1>9
  <2>2. /\ c.object = TRUE /\ c.hashes = TRUE /\ c.new_size = Len(leaves) /\ c.new_root = merkle_root(leaves)
        /\ c.old_size = n /\ c.old_root = merkle_root(SubSeq(leaves, 1, n))
        /\ c.consistency_path = consistency_path(leaves, n)
    BY <2>1
  <2>3. n \in 1..(Len(leaves) - 1)
    BY <1>5, <2>1
  <2>4. Joins(c, v)
    BY <2>2, <2>3 DEF Joins
  <2> QED BY <1>2, <1>7, <2>1, <2>2, <2>4
<1>11. ASSUME NEW k \in DOMAIN call.witnessed, call.witnessed[k].size \in 1..(Len(v.target) - 1)
       PROVE  LinksFrom(call, call.witnessed[k].size) # {}
  <2>1. PICK x : x = call.witnessed[k].size
    OBVIOUS
  <2>2. x \in sizes
    BY <1>2, <1>4, <1>8, <1>11, <2>1
  <2>3. PICK j \in DOMAIN joins : joins[j] = x
    BY <1>6, <2>2
  <2>4. call.links[j] = Link(x)
    <3> HIDE DEF Link
    <3> QED BY <1>9, <2>3
  <2>5. call.links[j].old_size = x
    BY <2>4
  <2>6. j \in LinksFrom(call, x)
    BY <1>9, <2>3, <2>5 DEF LinksFrom
  <2> QED BY <2>1, <2>6
<1> QED BY <1>10, <1>11

\* Every statement that is shown is joined to the head.
LEMMA JoinPlain ==
  ASSUME NEW v, Plain(v), NEW n \in DOMAIN call.witnessed
  PROVE  ~JoinRefuted(call, n) /\ ~JoinLacking(call, n)
<1>1. PICK k, w, s : k = Ascending(v.shown)[n] /\ w = call.witnessed[n] /\ s = chain[k].log
  OBVIOUS
<1>2. ShownAt(w, v, k)
  BY <1>1, WitnessedAt
<1>3. k \in DOMAIN chain /\ k \in v.shown /\ Published(w, v.style, k)
  BY <1>2 DEF ShownAt
<1>4. IInv /\ v \in Selections /\ call = bundle(v)
  BY DEF Plain
<1>5. LogOk(s) /\ LogOk(v.target) /\ IsPrefix(s, v.target) /\ Len(v.target) =< MaxSafeSize
  BY <1>1, <1>3, <1>4, LogsOk, TargetSeen
<1>6. PICK old, leaves : old = Leaves(v.style, s) /\ leaves = Leaves(v.style, v.target)
  OBVIOUS
<1>7. /\ Prefix(old, leaves) /\ SubSeq(leaves, 1, Len(s)) = old
      /\ Len(s) = Len(v.target) => old = leaves
  BY <1>5, <1>6, LeavesStart
<1>8. /\ Len(old) = Len(s) /\ Len(leaves) = Len(v.target) /\ Len(s) \in Nat /\ Len(s) >= 2
      /\ Len(v.target) \in Nat /\ Len(s) =< Len(v.target)
  BY <1>5, <1>6, LeavesLen, PrefixFacts DEF LogOk
<1>9. w.size = Len(s) /\ w.root = merkle_root(old)
  BY <1>1, <1>3, <1>6 DEF Published
<1>10. call.head.tree_size = Len(leaves) /\ call.head.root_hash = merkle_root(leaves)
  BY <1>4, <1>6, <1>8, BundleHead
<1>11. CASE w.size = call.head.tree_size
  <2>1. w.root = call.head.root_hash
    BY <1>7, <1>8, <1>9, <1>10, <1>11
  <2> QED BY <1>1, <1>11, <2>1 DEF JoinRefuted, JoinLacking
<1>12. CASE w.size # call.head.tree_size
  <2>1. w.size \in 1..(Len(v.target) - 1)
    BY <1>8, <1>9, <1>10, <1>12
  <2>2. LinksFrom(call, w.size) # {}
    BY <1>1, <2>1, LinksPlain
  <2>3. LinksFrom(call, w.size) \in SUBSET Nat
    <3>1. IsArray(call.links)
      <4>1. CallOk(bundle(v))
        BY <1>4, SelectionShape, BundleArrays
      <4> QED BY <1>4, <4>1 DEF CallOk
    <3>2. DOMAIN call.links \subseteq Nat
      BY <3>1, ArrayFacts
    <3> QED BY <3>2 DEF LinksFrom
  <2>4. PICK j \in LinksFrom(call, w.size) : LinkFrom(call, w.size) = call.links[j]
    <3>1. \E j \in LinksFrom(call, w.size) : \A m \in LinksFrom(call, w.size) : j =< m
      BY <2>2, <2>3, Least
    <3> QED BY <3>1 DEF LinkFrom
  <2>5. PICK c : c = LinkFrom(call, w.size)
    OBVIOUS
  <2>6. Joins(c, v) /\ c.old_size = w.size
    BY <2>4, <2>5, LinksPlain DEF LinksFrom
  <2>7. /\ c.hashes /\ c.new_size = Len(leaves) /\ c.new_root = merkle_root(leaves)
        /\ c.old_size = Len(old) /\ c.old_root = merkle_root(old)
        /\ c.consistency_path = consistency_path(leaves, Len(old))
    BY <1>6, <1>7, <1>8, <1>9, <2>6 DEF Joins
  <2>8. Len(leaves) =< MaxSafeSize
    BY <1>5, <1>8
  <2>9. ConsistencyAnswer(c) = "valid"
    BY <1>7, <2>7, <2>8, ConsistencyAccepted
  <2>10. c.old_root = w.root /\ c.new_size = call.head.tree_size /\ c.new_root = call.head.root_hash
    BY <1>9, <1>10, <2>7
  <2> QED BY <1>1, <1>12, <2>2, <2>5, <2>9, <2>10 DEF JoinRefuted, JoinLacking
<1> QED BY <1>11, <1>12

\* No consistency proof strays.
LEMMA StrayPlain ==
  ASSUME NEW v, Plain(v), NEW j \in DOMAIN call.links
  PROVE  ~LinkStrays(call, j)
<1>1. Joins(call.links[j], v) /\ \E k \in DOMAIN call.witnessed : call.witnessed[k].size = call.links[j].old_size
  BY LinksPlain
<1> QED BY <1>1 DEF LinkStrays, WitnessedSizes, Joins

\* The inputs are what a caller gives who knows the keys, and the head is signed.
LEMMA BundlePlain ==
  ASSUME NEW v, Plain(v)
  PROVE  ~BundleRefuted(call)
<1>1. IInv /\ v \in Selections /\ call = bundle(v)
  BY DEF Plain
<1>2. PICK leaves, h : leaves = Leaves(v.style, v.target) /\ h = sth(leaves, now)
  OBVIOUS
<1>3. /\ call.head = h /\ h.tree_size = Len(v.target) /\ call.pinned = Issuer
      /\ call.witnessKeys = {Authority} /\ call.tolerance = Tolerance
  BY <1>1, <1>2, BundleHead
<1>4. call.form = TRUE
  BY <1>1 DEF bundle
<1>5. IsSize(call.tolerance)
  BY <1>3, WitnessingAssumption, HonestAssumption, SizeAssumption DEF IsSize
<1>6. SthOf(h, leaves, now)
  BY <1>2, SthFields
<1>7. h.org_id = NoValue /\ h.form = TRUE
  BY <1>2 DEF sth
<1>8. h.timestamp \notin {NoValue, Null}
  <2>1. h.timestamp = now /\ now \in 0..Horizon
    BY <1>1, <1>6 DEF SthOf, IInv
  <2> QED BY <2>1, HonestAssumption
<1>9. IsSize(h.tree_size)
  <2>1. Len(v.target) =< MaxSafeSize /\ Len(v.target) \in Nat
    BY TargetSeen DEF LogOk
  <2> QED BY <1>3, <2>1, SizeAssumption DEF IsSize
<1>10. h.log = "public" /\ h.signature = [key |-> Issuer, over |-> Preimage(h)]
  BY <1>6 DEF SthOf, Preimage
<1>11. HeadValid(h, Issuer)
  BY <1>7, <1>8, <1>9, <1>10 DEF HeadValid
<1>12. ~InputsRefuted(call)
  BY <1>3, <1>5, HonestAssumption DEF InputsRefuted
<1> QED BY <1>3, <1>4, <1>10, <1>11, <1>12 DEF BundleRefuted, HeadRefuted

\* A record of the bundle, where it stands in the target.
ShownRecord(x, v, m) ==
  LET leaves == Leaves(v.style, v.target)
      item   == Item(v.style, v.target[m])
  IN  /\ RecordOf(x, v, m)
      /\ x.form = TRUE /\ x.kind = item.kind /\ x.record = item.record
      /\ x.proof.tree_size = Len(leaves) /\ x.proof.leaf_index = m - 1 /\ x.proof.leaf_hash = leaves[m]
      /\ x.proof.root_hash = merkle_root(leaves) /\ x.proof.audit_path = inclusion_path(leaves, m - 1)
      /\ x.proof.hashes = TRUE

\* Every record of the target is shown, and nothing else.
LEMMA RecordsPlain ==
  ASSUME NEW v, Plain(v)
  PROVE  /\ \A n \in DOMAIN call.records : \E m : ShownRecord(call.records[n], v, m)
         /\ Entries(v.target) # {} => call.records # <<>>
<1> DEFINE leaves == Leaves(v.style, v.target)
           places == {k \in DOMAIN v.target : v.target[k] # Other}
           ours == Ascending(places)
           Shown(m) == [form |-> TRUE, proof |-> proof(leaves, m),
                        kind |-> Item(v.style, v.target[m]).kind, record |-> Item(v.style, v.target[m]).record]
<1>1. IInv /\ v \in Selections /\ call = bundle(v) /\ LogOk(v.target)
  BY SelectionTakes DEF Plain
<1>2. call.records = [m \in DOMAIN ours |-> Shown(ours[m])]
  BY <1>1 DEF bundle
<1>3. places \in SUBSET Int /\ IsFiniteSet(places)
  <2>1. DOMAIN v.target = 1..Len(v.target) /\ Len(v.target) \in Nat
    BY <1>1 DEF LogOk
  <2>2. IsFiniteSet(DOMAIN v.target)
    BY <2>1, FS_Interval
  <2> QED BY <2>1, <2>2, FS_Subset
<1>4. (\A m \in DOMAIN ours : ours[m] \in places) /\ \A y \in places : \E m \in DOMAIN ours : ours[m] = y
  BY <1>3, AscendingFacts
<1> HIDE DEF ours
<1>5. ASSUME NEW n \in DOMAIN call.records
      PROVE  \E m : ShownRecord(call.records[n], v, m)
  <2>1. PICK m : m \in places /\ call.records[n] = Shown(m)
    <3> HIDE DEF Shown
    <3> QED BY <1>2, <1>4
  <2>2. PICK x, e, item : x = call.records[n] /\ e = v.target[m] /\ item = Item(v.style, e)
    OBVIOUS
  <2>3. x.form = TRUE /\ x.proof = proof(leaves, m) /\ x.kind = item.kind /\ x.record = item.record
    BY <2>1, <2>2
  <2>4. /\ x.proof.tree_size = Len(leaves) /\ x.proof.leaf_index = m - 1 /\ x.proof.leaf_hash = leaves[m]
        /\ x.proof.root_hash = merkle_root(leaves) /\ x.proof.audit_path = inclusion_path(leaves, m - 1)
        /\ x.proof.hashes = TRUE
    BY <2>3 DEF proof
  <2>5. x.record.id = e.id /\ x.record.time = e.claims
        /\ x.record.timestamp = Written(v.style, v.style.claims, e.claims)
    BY <2>2, <2>3, ItemFields
  <2>6. RecordOf(x, v, m)
    BY <2>1, <2>2, <2>4, <2>5 DEF RecordOf
  <2>7. ShownRecord(x, v, m)
    BY <2>2, <2>3, <2>4, <2>6 DEF ShownRecord
  <2> QED BY <2>2, <2>7
<1>6. ASSUME Entries(v.target) # {}
      PROVE  call.records # <<>>
  <2>1. PICK k \in DOMAIN v.target : v.target[k] # Other
    BY <1>6 DEF Entries
  <2>2. PICK m : m \in DOMAIN ours
    BY <1>4, <2>1
  <2>3. DOMAIN call.records = DOMAIN ours
    <3> HIDE DEF Shown
    <3> QED BY <1>2
  <2>4. DOMAIN call.records # {}
    BY <2>2, <2>3
  <2> QED BY <2>4
<1> QED BY <1>5, <1>6

\* A record of an honest log is well formed, signed, and proved where it stands.
LEMMA RecordPlain ==
  ASSUME NEW v, Plain(v), NEW x, NEW m, ShownRecord(x, v, m)
  PROVE  ItemOk(call, x) /\ ~ProofRefuted(call, x)
<1>1. IInv /\ v \in Selections /\ call = bundle(v)
  BY DEF Plain
<1>2. PICK e, item, leaves : e = v.target[m] /\ item = Item(v.style, e) /\ leaves = Leaves(v.style, v.target)
  OBVIOUS
<1>3. /\ m \in DOMAIN v.target /\ e # Other
      /\ x.form = TRUE /\ x.kind = item.kind /\ x.record = item.record
      /\ x.proof.tree_size = Len(leaves) /\ x.proof.leaf_index = m - 1 /\ x.proof.leaf_hash = leaves[m]
      /\ x.proof.root_hash = merkle_root(leaves) /\ x.proof.audit_path = inclusion_path(leaves, m - 1)
      /\ x.proof.hashes = TRUE
  BY <1>2 DEF ShownRecord, RecordOf
<1>4. /\ LogOk(v.target) /\ Len(v.target) \in Nat /\ Len(v.target) =< MaxSafeSize
      /\ DOMAIN v.target = 1..Len(v.target)
  BY TargetSeen DEF LogOk
<1>5. Len(leaves) = Len(v.target) /\ leaves[m] = leaf_hash(Profile!RecordLeaf(item))
  BY <1>2, <1>3, <1>4, LeavesLen
<1>6. /\ call.pinned = Issuer /\ call.head.tree_size = Len(leaves)
      /\ call.head.root_hash = merkle_root(leaves)
  BY <1>1, <1>2, <1>5, BundleHead
<1>7. e.claims \in Int
  <2>1. v.target \in Seq(Logged \cup {Other}) /\ e \in Logged \cup {Other}
    BY <1>2, <1>3, <1>4 DEF LogOk
  <2> QED BY <1>3, <2>1 DEF Logged
<1>8. ItemOk(call, x)
  <2>1. CASE e.id = "checkpoint"
    <3>1. item.kind = "checkpoint"
      BY <1>2, <2>1 DEF Item
    <3>2. PICK cp : cp = item.record
      OBVIOUS
    <3>3. /\ cp.form = TRUE /\ cp.signed = TRUE /\ cp.key = Issuer /\ cp.time = e.claims /\ cp.seq = 1
          /\ cp.prev = NoHash /\ cp.start = e.claims - 1 /\ cp.end = e.claims /\ cp.count = 0
          /\ cp.total = 0 /\ cp.hash = Profile!RecordsHash({})
      BY <1>2, <2>1, <3>2 DEF Item
    <3>4. cp.start < cp.end /\ cp.end =< cp.time /\ cp.count =< cp.total
      BY <1>7, <3>3
    <3>5. Profile!CheckpointOk(call, cp)
      BY <1>6, <3>3, <3>4 DEF Profile!CheckpointOk, Profile!NoHash, NoHash
    <3> QED BY <1>3, <3>1, <3>2, <3>5 DEF ItemOk
  <2>2. CASE e.id # "checkpoint"
    <3>1. item.kind = "action" /\ item.record.form = TRUE /\ item.record.signed = TRUE
          /\ item.record.key = Issuer
      BY <1>2, <2>2 DEF Item
    <3> QED BY <1>3, <1>6, <3>1 DEF ItemOk, Profile!RecordOk
  <2> QED BY <2>1, <2>2
<1>9. InclusionAnswer(x.proof) = "valid"
  <2>1. PICK n, y, p : n = Len(leaves) /\ y = m - 1 /\ p = x.proof
    OBVIOUS
  <2>2. n \in 1..MaxSafeSize /\ y \in 0..(n - 1) /\ y + 1 = m
    BY <1>3, <1>4, <1>5, <2>1, SizeAssumption
  <2>3. /\ p.tree_size = n /\ p.leaf_index = y /\ p.hashes /\ p.leaf_hash = leaves[y + 1]
        /\ p.root_hash = merkle_root(leaves) /\ p.audit_path = inclusion_path(leaves, y)
    BY <1>3, <2>1, <2>2
  <2>4. Len(leaves) = n
    BY <2>1
  <2> QED BY <2>1, <2>2, <2>3, <2>4, InclusionAccepted
<1>10. x.proof.leaf_hash = leaf_hash(Profile!RecordLeaf(x))
  BY <1>3, <1>5 DEF Profile!RecordLeaf
<1> QED BY <1>3, <1>6, <1>8, <1>9, <1>10 DEF ProofRefuted

\* An honest bundle is of one log.
LEMMA OneLogPlain ==
  ASSUME NEW v, Plain(v)
  PROVE  OneLog(v)
<1>1. IInv /\ v \in Selections /\ call = bundle(v)
  BY DEF Plain
<1>2. Kept(call, v)
  BY <1>1, BundleKeeps
<1>3. \A n \in DOMAIN call.witnessed : IsPrefix(chain[Ascending(v.shown)[n]].log, v.target)
  <2>1. SUFFICES ASSUME NEW n \in DOMAIN call.witnessed, NEW k, k = Ascending(v.shown)[n]
                 PROVE  IsPrefix(chain[k].log, v.target)
    OBVIOUS
  <2>2. k \in v.shown
    BY <2>1, WitnessedAt DEF ShownAt
  <2> QED BY <2>2, TargetSeen
<1> QED BY <1>2, <1>3 DEF OneLog

\* The issuer told the truth, and both delays together are within the tolerance.
InTime ==
  /\ \A e \in Entries(log) : e.claims = e.signed
  /\ \A e \in Entries(log), k \in DOMAIN chain :
       (e.logged - e.signed) + (chain[k].at - chain[k].fetched) =< Ticks

\* An entry of the target is the one of the log at that place.
LEMMA EntryAt ==
  ASSUME NEW v, Plain(v), NEW m \in DOMAIN v.target, v.target[m] # Other
  PROVE  /\ m \in DOMAIN log /\ m \in Nat /\ log[m] = v.target[m] /\ log[m] \in Entries(log)
         /\ log[m].claims \in Nat /\ log[m].signed \in Nat /\ log[m].logged \in Nat
<1>1. IInv /\ LogOk(log) /\ LogOk(v.target) /\ IsPrefix(v.target, log)
  BY TargetSeen, LogsOk DEF Plain
<1>2. /\ Len(v.target) =< Len(log) /\ \A k \in 1..Len(v.target) : v.target[k] = log[k]
      /\ Len(log) \in Nat /\ DOMAIN log = 1..Len(log) /\ log \in Seq(Logged \cup {Other})
      /\ Len(v.target) \in Nat /\ DOMAIN v.target = 1..Len(v.target)
  <2>1. /\ Len(log) \in Nat /\ DOMAIN log = 1..Len(log) /\ log \in Seq(Logged \cup {Other})
        /\ Len(v.target) \in Nat /\ DOMAIN v.target = 1..Len(v.target)
    BY <1>1 DEF LogOk
  <2>2. Len(v.target) =< Len(log) /\ \A k \in 1..Len(v.target) : v.target[k] = log[k]
    BY <1>1, PrefixFacts
  <2> QED BY <2>1, <2>2
<1>3. m \in DOMAIN log /\ m \in Nat /\ log[m] = v.target[m]
  BY <1>2
<1>4. log[m] \in Logged
  BY <1>2, <1>3
<1>5. 0..(Horizon + 1) \subseteq Nat
  BY WitnessingAssumption
<1> QED BY <1>3, <1>4, <1>5 DEF Logged, Entries

\* A record is in a head that reaches its place; a head that does not had not
\* been fetched when the record was logged.
LEMMA TimePlain ==
  ASSUME NEW v, Plain(v), InTime, NEW x, NEW m, ShownRecord(x, v, m)
  PROVE  ~TimeRefuted(call, x)
<1>1. IInv /\ GrownInv /\ ~rewritten /\ v \in Selections /\ call = bundle(v)
  BY DEF Plain
<1>2. RecordOf(x, v, m)
  BY DEF ShownRecord
<1>3. \A n \in DOMAIN call.witnessed : Judged(x, v, n)
  BY <1>1, <1>2, OneLogPlain, RecordJudged
<1>4. DOMAIN call.witnessed = 1..Len(call.witnessed) /\ Len(call.witnessed) \in Nat
  BY <1>1, BundleStatements
<1>5. SUFFICES ASSUME Containing(call, x) # {} PROVE ~TimeRefuted(call, x)
  BY DEF TimeRefuted
<1>6. PICK n : n = Inc(call, x)
  OBVIOUS
<1>7. n \in Containing(call, x) /\ \A q \in Containing(call, x) : n =< q
  <2>1. Containing(call, x) \in SUBSET Nat
    BY <1>4 DEF Containing
  <2>2. \E q \in Containing(call, x) : \A p \in Containing(call, x) : q =< p
    BY <1>5, <2>1, Least
  <2> QED BY <1>6, <2>2 DEF Inc
<1>8. n \in DOMAIN call.witnessed /\ n \in Nat /\ n > 0
  BY <1>4, <1>7 DEF Containing
<1>9. PICK e : e = log[m]
  OBVIOUS
<1>10. /\ m \in DOMAIN log /\ m \in Nat /\ v.target[m] = e /\ e # Other /\ e \in Entries(log)
       /\ e.claims \in Nat /\ e.signed \in Nat /\ e.logged \in Nat
       /\ m \in DOMAIN v.target /\ x.record.time = e.claims /\ x.proof.leaf_index = m - 1
       /\ x.record.id = e.id
  BY <1>2, <1>9, EntryAt DEF RecordOf
<1>11. ASSUME NEW q \in DOMAIN call.witnessed, NEW k, k = Ascending(v.shown)[q]
       PROVE  /\ k \in DOMAIN chain /\ call.witnessed[q].size = Len(chain[k].log)
              /\ Len(chain[k].log) \in Nat
              /\ chain[k].at \in Nat /\ chain[k].fetched \in Nat /\ chain[k].fetched =< chain[k].at
  <2>1. ShownAt(call.witnessed[q], v, k)
    BY <1>11, WitnessedAt
  <2>2. k \in DOMAIN chain /\ call.witnessed[q].size = Len(chain[k].log)
    BY <2>1 DEF ShownAt, Published
  <2>3. chain[k].fetched \in 0..now /\ chain[k].at \in chain[k].fetched..now /\ now \in Nat
    BY <1>1, <2>2, NowIsNat DEF IInv, ChainInv, HeadInv
  <2>4. LogOk(chain[k].log)
    BY <1>1, <2>2, LogsOk
  <2> QED BY <2>2, <2>3, <2>4 DEF LogOk
<1>12. ~(cmp_instant(x.record.timestamp, call.witnessed[n].at) > 0)
  <2>1. PICK k : k = Ascending(v.shown)[n]
    OBVIOUS
  <2>2. HoldsId(k, e.id)
    <3>1. call.witnessed[n].size > x.proof.leaf_index
      BY <1>7 DEF Containing
    <3> QED BY <1>3, <1>8, <1>10, <2>1, <3>1 DEF Judged
  <2>3. k \in DOMAIN chain /\ chain[k].at \in Nat /\ chain[k].fetched \in Nat /\ chain[k].fetched =< chain[k].at
    BY <1>8, <1>11, <2>1
  <2>4. PICK f \in Entries(chain[k].log) : f.id = e.id
    BY <2>2 DEF HoldsId
  <2>5. f \in Entries(log) /\ f.logged =< chain[k].fetched /\ f.signed =< f.logged
    BY <1>1, <2>3 DEF IInv, ChainInv, HeadInv, LoggedBy
  <2>6. f = e
    <3>1. LogOk(log)
      BY <1>1, LogsOk
    <3> QED BY <1>10, <2>4, <2>5, <3>1 DEF LogOk, Entries
  <2>7. e.claims = e.signed
    BY <1>10 DEF InTime
  <2>8. PICK a, c, s, l, b : a = chain[k].at /\ c = e.claims /\ s = e.signed /\ l = e.logged /\ b = chain[k].fetched
    OBVIOUS
  <2>9. a \in Nat /\ c \in Nat /\ s \in Nat /\ l \in Nat /\ b \in Nat /\ c = s /\ s =< l /\ l =< b /\ b =< a
    BY <1>10, <2>3, <2>5, <2>6, <2>7, <2>8
  <2>10. ~(c > a)
    BY <2>9
  <2> QED BY <1>3, <1>8, <1>10, <2>1, <2>8, <2>10 DEF Judged
<1>13. ASSUME n > 1
       PROVE  ~later_than(call.witnessed[n - 1].at, x.record.timestamp, call.tolerance)
  <2>1. n - 1 \in DOMAIN call.witnessed /\ ~(n =< n - 1)
    BY <1>4, <1>8, <1>13
  <2>2. PICK j : j = Ascending(v.shown)[n - 1]
    OBVIOUS
  <2>3. /\ j \in DOMAIN chain /\ call.witnessed[n - 1].size = Len(chain[j].log) /\ Len(chain[j].log) \in Nat
        /\ chain[j].at \in Nat /\ chain[j].fetched \in Nat
    BY <1>11, <2>1, <2>2
  <2>4. ~(call.witnessed[n - 1].size > x.proof.leaf_index)
    BY <1>7, <2>1 DEF Containing
  <2>5. m > Len(chain[j].log)
    BY <1>10, <2>3, <2>4
  <2>6. e.logged >= chain[j].fetched
    BY <1>1, <1>9, <1>10, <2>3, <2>5 DEF GrownInv, MissesOnly
  <2>7. e.claims = e.signed /\ (e.logged - e.signed) + (chain[j].at - chain[j].fetched) =< Ticks
    BY <1>10, <2>3 DEF InTime
  <2>8. PICK a, c, s, l, b : a = chain[j].at /\ c = e.claims /\ s = e.signed /\ l = e.logged /\ b = chain[j].fetched
    OBVIOUS
  <2>9. Ticks \in Nat
    BY WitnessingAssumption DEF Ticks
  <2>10. a \in Nat /\ c \in Nat /\ s \in Nat /\ l \in Nat /\ b \in Nat /\ c = s /\ l >= b
         /\ (l - s) + (a - b) =< Ticks
    BY <1>10, <2>3, <2>6, <2>7, <2>8
  <2>11. ~(a > c + Ticks)
    BY <2>9, <2>10
  <2>12. Judged(x, v, n - 1)
    BY <1>3, <2>1
  <2> QED BY <1>10, <2>2, <2>8, <2>11, <2>12 DEF Judged
<1> QED BY <1>6, <1>12, <1>13 DEF TimeRefuted

\* The whole evidence of an honest issuer, when a statement holds every record
\* and the first one was stamped in time.
WholeEvidence(v) ==
  /\ v.shown = DOMAIN chain /\ v.target = log /\ chain # <<>>
  /\ Entries(chain[Len(chain)].log) = Entries(log)
  /\ \A e \in Entries(log) : chain[1].at =< e.claims + Ticks

\* Then every record is bounded from above.
LEMMA TimeShown ==
  ASSUME NEW v, Plain(v), WholeEvidence(v), NEW x, NEW m, ShownRecord(x, v, m)
  PROVE  ~TimeLacking(call, x)
<1>1. IInv /\ GrownInv /\ ~rewritten /\ v \in Selections /\ call = bundle(v)
  BY DEF Plain
<1>2. RecordOf(x, v, m)
  BY DEF ShownRecord
<1>3. \A n \in DOMAIN call.witnessed : Judged(x, v, n)
  BY <1>1, <1>2, OneLogPlain, RecordJudged
<1>4. DOMAIN call.witnessed = DOMAIN Ascending(v.shown)
  BY <1>1, BundleStatements
<1>5. PICK order, last : order = Ascending(v.shown) /\ last = Len(chain)
  OBVIOUS
<1>6. /\ DOMAIN order \subseteq Nat \ {0} /\ 1 \in DOMAIN order
      /\ \A k \in DOMAIN order : order[k] \in 1..last
      /\ \A j, k \in DOMAIN order : j < k => order[j] < order[k]
      /\ \A y \in 1..last : \E k \in DOMAIN order : order[k] = y
      /\ last \in Nat /\ last >= 1 /\ DOMAIN chain = 1..last
  <2>1. v.shown \in SUBSET Int /\ IsFiniteSet(v.shown) /\ v.shown = 1..last /\ last \in Nat /\ DOMAIN chain = 1..last
    BY <1>1, <1>5, SelectionTakes DEF WholeEvidence
  <2>2. last >= 1
    <3>1. last # 0
      BY <1>1, <1>5, ArrayFacts DEF WholeEvidence, IInv, ChainInv
    <3> QED BY <2>1, <3>1
  <2>3. /\ DOMAIN order = 1..Cardinality(v.shown) /\ Cardinality(v.shown) \in Nat
        /\ \A k \in DOMAIN order : order[k] \in v.shown
        /\ \A j, k \in DOMAIN order : j < k => order[j] < order[k]
        /\ \A y \in v.shown : \E k \in DOMAIN order : order[k] = y
    BY <1>5, <2>1, AscendingFacts
  <2>4. PICK k \in DOMAIN order : order[k] = last
    BY <2>1, <2>2, <2>3
  <2>5. 1 \in DOMAIN order /\ DOMAIN order \subseteq Nat \ {0}
    BY <2>3, <2>4
  <2> QED BY <2>1, <2>2, <2>3, <2>5
<1>7. PICK e : e = log[m]
  OBVIOUS
<1>8. /\ m \in DOMAIN log /\ m \in Nat /\ e # Other /\ e \in Entries(log) /\ x.record.time = e.claims
      /\ x.proof.leaf_index = m - 1
  BY <1>2, <1>7, EntryAt DEF RecordOf
<1>9. Containing(call, x) # {}
  <2>1. PICK n \in DOMAIN order : order[n] = last
    BY <1>6
  <2>2. ShownAt(call.witnessed[n], v, last)
    BY <1>4, <1>5, <2>1, WitnessedAt
  <2>3. last \in DOMAIN chain /\ call.witnessed[n].size = Len(chain[last].log)
    BY <2>2 DEF ShownAt, Published
  <2>4. LogOk(log) /\ LogOk(chain[last].log) /\ IsPrefix(chain[last].log, log)
    BY <1>1, <2>3, LogsOk, SeenOnward
  <2>5. IsPrefix(log, log) /\ Len(log) \in Nat /\ DOMAIN log = 1..Len(log) /\ Len(chain[last].log) \in Nat
    <3>1. Len(log) \in Nat /\ DOMAIN log = 1..Len(log) /\ Len(chain[last].log) \in Nat
      BY <2>4 DEF LogOk
    <3>2. IsPrefix(log, log)
      BY <2>4, <3>1, PrefixFacts
    <3> QED BY <3>1, <3>2
  <2>6. Len(log) =< Len(chain[last].log)
    BY <1>1, <1>5, <2>4, <2>5, FewerHeld DEF WholeEvidence
  <2>7. call.witnessed[n].size > x.proof.leaf_index
    BY <1>8, <2>3, <2>5, <2>6
  <2>8. n \in Containing(call, x)
    BY <1>4, <1>5, <2>1, <2>7 DEF Containing
  <2> QED BY <2>8
<1>10. ~later_than(call.witnessed[1].at, x.record.timestamp, call.tolerance)
  <2>1. order[1] = 1
    <3>1. PICK q \in DOMAIN order : order[q] = 1
      BY <1>6
    <3>2. q = 1 \/ 1 < q
      BY <1>6
    <3>3. 1 < q => order[1] < 1
      BY <1>6, <3>1
    <3>4. order[1] \in 1..last
      BY <1>6
    <3> QED BY <1>6, <3>1, <3>2, <3>3, <3>4
  <2>2. Judged(x, v, 1)
    BY <1>3, <1>4, <1>5, <1>6
  <2>3. PICK a, c : a = chain[1].at /\ c = e.claims
    OBVIOUS
  <2>4. a =< c + Ticks
    BY <1>8, <2>3 DEF WholeEvidence
  <2>5. a \in Nat /\ c \in Nat /\ Ticks \in Nat
    BY <1>5, <1>8, <2>1, <2>2, <2>3, WitnessingAssumption DEF Judged, Ticks
  <2>6. ~(a > c + Ticks)
    BY <2>4, <2>5
  <2> QED BY <1>5, <1>8, <2>1, <2>2, <2>3, <2>6 DEF Judged
<1> QED BY <1>9, <1>10 DEF TimeLacking

\* What the theorem HonestSpared says, in one state.
LEMMA Spared ==
  ASSUME IInv, GrownInv
  PROVE  HonestNeverAccused
<1>1. SUFFICES ASSUME verdict # "none", Honest(review)
               PROVE  /\ verdict # "FAIL"
                      /\ /\ review.shown = DOMAIN chain /\ review.target = log
                         /\ Entries(log) # {} /\ chain # <<>>
                         /\ Entries(chain[Len(chain)].log) = Entries(log)
                         /\ \A e \in Entries(log) : chain[1].at =< e.claims + Ticks
                         => verdict = "PASS"
  BY DEF HonestNeverAccused
<1>2. pc = "done" /\ verdict = Rule!Answer(call)
  BY <1>1 DEF IInv, VerifierInv
<1>3. ~rewritten /\ ~review.tampered
      /\ \E m, n \in 0..Len(chain) : review.shown = m..n
  BY <1>1 DEF Honest
<1>4. InTime
  <2>1. \A e \in Entries(log) : e.claims = e.signed
    BY <1>1 DEF Honest
  <2>2. \A d \in {e.logged - e.signed : e \in Entries(log)}, g \in {chain[k].at - chain[k].fetched : k \in DOMAIN chain} :
          d + g =< Ticks
    BY <1>1 DEF Honest
  <2> QED BY <2>1, <2>2 DEF InTime
<1>5. PICK v \in Selections, edited \in BOOLEAN :
        /\ review = [style |-> v.style, shown |-> v.shown, target |-> v.target, tampered |-> edited]
        /\ IF edited
           THEN /\ ~rewritten /\ Len(chain) > 1 /\ v = Whole(Styles[1])
                /\ call \in Tampered(bundle(v), Leaves(v.style, log))
           ELSE call = bundle(v)
  BY <1>2 DEF IInv, ReviewInv
<1>6. review.shown = v.shown /\ review.target = v.target /\ review.tampered = edited
  BY <1>5
<1>7. Plain(v)
  BY <1>3, <1>5, <1>6 DEF Plain
<1>8. PICK m \in Int, n \in Int : v.shown = m..n
  <2>1. Len(chain) \in Nat
    BY SelectionTakes
  <2> QED BY <1>3, <1>6, <2>1
<1>9. ~Refuted(call)
  <2>1. ~BundleRefuted(call)
    BY <1>7, BundlePlain
  <2>2. \A k \in DOMAIN call.witnessed : ~StatementRefuted(call, k) /\ ~JoinRefuted(call, k)
    BY <1>7, <1>8, StatementPlain, JoinPlain
  <2>3. \A j \in DOMAIN call.links : ~LinkStrays(call, j)
    BY <1>7, StrayPlain
  <2>4. ASSUME NEW k \in DOMAIN call.records
        PROVE  ~RecordRefuted(call, call.records[k])
    <3>1. PICK x, place : x = call.records[k] /\ ShownRecord(x, v, place)
      BY <1>7, RecordsPlain
    <3> QED BY <1>4, <1>7, <3>1, RecordPlain, TimePlain DEF RecordRefuted
  <2> QED BY <2>1, <2>2, <2>3, <2>4 DEF Refuted
<1>10. verdict # "FAIL"
  BY <1>2, <1>9 DEF Rule!Answer
<1>11. ASSUME WholeEvidence(v), Entries(log) # {}
       PROVE  verdict = "PASS"
  <2>1. call.records # <<>>
    BY <1>7, <1>11, RecordsPlain DEF WholeEvidence
  <2>2. call.witnessKeys # NoKeySet
    <3>1. call.witnessKeys = {Authority}
      BY <1>7, BundleHead DEF Plain
    <3> QED BY <3>1, HonestAssumption
  <2>3. \A k \in DOMAIN call.witnessed : ~JoinLacking(call, k)
    BY <1>7, JoinPlain
  <2>4. ASSUME NEW k \in DOMAIN call.records
        PROVE  ~TimeLacking(call, call.records[k])
    <3>1. PICK x, place : x = call.records[k] /\ ShownRecord(x, v, place)
      BY <1>7, RecordsPlain
    <3> QED BY <1>7, <1>11, <3>1, TimeShown
  <2>5. ~Lacking(call)
    BY <2>1, <2>2, <2>3, <2>4 DEF Lacking
  <2> QED BY <1>2, <1>9, <2>5 DEF Rule!Answer
<1> QED BY <1>6, <1>10, <1>11 DEF WholeEvidence

-----------------------------------------------------------------------------
(* Theorems *)

\* The strengthened invariant: heads of the log as it was, statements in the
\* order of time, and loops that have found exactly what they walked to have.
THEOREM Invariant == Spec => []IInv
<1>1. Init => IInv
  BY InitInv
<1>2. IInv /\ [Next]_vars => IInv'
  BY NextInv
<1> QED BY <1>1, <1>2, PTL DEF Spec

\* Only what was published can be reviewed, in the order it was published.
THEOREM TypeCorrect == Spec => []TypeOK
<1>1. IInv => TypeOK
  <2>1. SUFFICES ASSUME IInv PROVE TypeOK
    OBVIOUS
  <2>2. ASSUME NEW k \in DOMAIN chain
        PROVE  /\ chain[k].fetched =< chain[k].at /\ chain[k].at =< now
               /\ \A e \in Entries(chain[k].log) :
                    e.signed =< e.logged /\ e.logged =< chain[k].fetched
               /\ k > 1 => chain[k - 1].at =< chain[k].fetched
               /\ ~rewritten => IsPrefix(chain[k].log, log)
    <3>1. DOMAIN chain = 1..Len(chain) /\ Len(chain) \in Nat
      BY <2>1, ArrayFacts DEF IInv, ChainInv
    <3>2. HeadInv(chain[k]) /\ chain[k].at \in chain[k].fetched..now
      BY <2>1 DEF IInv, ChainInv
    <3>3. k > 1 => chain[k - 1].at =< chain[k].fetched
      <4>1. k > 1 => k - 1 \in DOMAIN chain /\ k - 1 < k
        BY <3>1
      <4> QED BY <2>1, <4>1 DEF IInv, ChainInv, Follows
    <3> QED BY <3>2, <3>3 DEF HeadInv, LoggedBy
  <2>3. (pc = "done" <=> verdict # "none") /\ incomplete \subseteq {"witness keys", "join", "time"}
    BY <2>1 DEF IInv, VerifierInv, Rule!Verdicts
  <2> QED BY <2>1, <2>2, <2>3 DEF TypeOK, IInv
<1> QED BY <1>1, Invariant, PTL

\* The refinement: whatever the world does before it asks, the call does not
\* change while it is answered, and the answer is the one of the order-free
\* rule of WitnessedRules (witnessed.py:13-16).
THEOREM AnswersPromised == Spec => AnswersAsPromised
<1>1. Init => Oracle!Init
  BY DEF Init, VerifierInit, Oracle!Init
<1>2. ASSUME IInv, IInv', [Next]_vars
      PROVE  [Oracle!Ask \/ Oracle!Decide]_<<pc # "idle", call, verdict>>
  <2>1. CASE UNCHANGED <<pc, call, verdict>>
    BY <2>1
  <2>2. CASE Review \/ ReviewTampered
    <3>1. pc = "idle" /\ pc' = "inputs" /\ UNCHANGED verdict
      BY <2>2 DEF Review, ReviewTampered, Present, Call
    <3> QED BY <3>1 DEF Oracle!Ask
  <2>3. CASE Verify
    <3>1. pc \notin {"idle", "done"} /\ pc' # "idle" /\ UNCHANGED call
      BY <2>3 DEF Verify, CheckInputs, CheckStatement, CheckStray, CheckJoin, CheckRecord, Decide,
                  Past, At, Fail, Return, Advance
    <3>2. CASE UNCHANGED verdict
      BY <3>1, <3>2
    <3>3. CASE verdict' # verdict
      <4>1. verdict = "none" /\ verdict' \in Oracle!Promise!Verdicts
            /\ verdict' = Oracle!Promise!Answer(call)'
        BY <1>2, <3>1, <3>3 DEF IInv, VerifierInv, Rule!Verdicts, Rule!Answer, Oracle!Promise!Verdicts,
                      Oracle!Promise!Answer
      <4> QED BY <3>1, <4>1 DEF Oracle!Decide, Oracle!Promise!Answer
    <3> QED BY <3>2, <3>3
  <2>4. CASE Publish
    BY <2>4 DEF Publish, Tick, Sign, Submit, Misdate, Rewrite, Fetch, Stamp, Open, verifier
  <2> QED BY <1>2, <2>1, <2>2, <2>3, <2>4 DEF Next, vars, verifier
<1> QED BY <1>1, <1>2, Invariant, PTL DEF Spec, AnswersAsPromised, Oracle!Spec

\* A PASS vouches for one log, of which every statement saw a prefix.
THEOREM VouchesSound == Spec => []PassVouchesOneLog
<1>1. IInv => PassVouchesOneLog
  BY Vouches
<1> QED BY <1>1, Invariant, PTL

\* A PASS hides no record that came later than the tolerance.
THEOREM LatenessSound == Spec => []PassHidesNoLateness
<1>1. IInv => PassHidesNoLateness
  BY HidesNoLateness
<1> QED BY <1>1, Invariant, PTL

\* A record that was logged in time is not accused, whatever part is shown.
THEOREM HonestSpared == Spec => []HonestNeverAccused
<1>1. Init => GrownInv
  <2>1. SUFFICES ASSUME Init PROVE GrownInv
    OBVIOUS
  <2>2. log = <<Other, Early>> /\ chain = <<>> /\ fetched = NoHead
    BY <2>1 DEF Init
  <2>3. Early # Other
    BY HonestAssumption, WitnessingAssumption DEF Early, Logged
  <2> QED BY <2>2, <2>3 DEF GrownInv
<1>2. IInv /\ GrownInv /\ [Next]_vars => GrownInv'
  BY GrownNext
<1>3. IInv /\ GrownInv => HonestNeverAccused
  BY Spared
<1> QED BY <1>1, <1>2, <1>3, Invariant, PTL DEF Spec
=============================================================================
