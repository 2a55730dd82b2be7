------------------------------ MODULE Complete ------------------------------
(***************************************************************************)
(* The `complete` profile: verify_complete of                              *)
(* packages/verify-receipt-py/src/aqta_verify_receipt/complete.py.         *)
(*                                                                         *)
(* A reviewer hands the verifier an organisation's signed checkpoints, the *)
(* records an operator chose to disclose and, optionally, an executor's    *)
(* log.  The verifier is modelled as the state machine its code is: one    *)
(* action per step of section 8.3, one step per iteration of each loop.    *)
(* The wording of a reason is abstracted to its step and position.         *)
(***************************************************************************)
EXTENDS CompleteRules

CONSTANTS
  Reviews,      \* the calls: arguments of verify_complete and the bundle
  Counted       \* the leaves the issuer counted: what a reviewer cannot see

\* What _RFC3339_OFFSET, _DECIMAL and isinstance(..., list) leave of a call.
ASSUME ReviewAssumption ==
  \A r \in Reviews :
    /\ r.from \in Int /\ r.to \in Int
    /\ IsSequence(r.checkpoints) /\ IsSequence(r.records) /\ IsSequence(r.executions)
    /\ \A k \in DOMAIN r.checkpoints :
         r.checkpoints[k].start \in Int /\ r.checkpoints[k].end \in Int
    /\ \A k \in DOMAIN r.records : r.records[k].record.time \in Int

ASSUME CountedAssumption == \A l \in Counted : l[2].time \in Int

VARIABLES
  review,       \* the call in progress
  pc,           \* the step of section 8.3 in progress, "done" at the end
  i,            \* the position the loop of that step has reached
  byLeaf,       \* by_leaf: the leaves of the records seen so far
  perCp,        \* per_cp: for each checkpoint, the leaves in its period
  executed,     \* the action ids executed so far in the executor's log
  incomplete,   \* the gaps collected so far, in order
  verdict,      \* "none" while running
  reason        \* what the verdict names

vars == <<review, pc, i, byLeaf, perCp, executed, incomplete, verdict, reason>>

-----------------------------------------------------------------------------
(* The verifier as a state machine *)

Start(r) ==
  /\ review = r
  /\ pc = "inputs" /\ i = 1
  /\ byLeaf = {}
  /\ perCp = [j \in DOMAIN r.checkpoints |-> {}]
  /\ executed = {}
  /\ incomplete = <<>>
  /\ verdict = "none"
  /\ reason = <<>>

Init == \E r \in Reviews : Start(r)

\* raise _Fail: the first contradiction ends the run.
Fail ==
  /\ verdict' = "FAIL" /\ reason' = <<pc, i>> /\ pc' = "done"
  /\ UNCHANGED <<review, i, byLeaf, perCp, executed, incomplete>>

\* The loop over S is at an element, or past the last one.
At(step, S)   == pc = step /\ i =< Len(S)
Past(step, S) == pc = step /\ i > Len(S)

Advance == i' = i + 1 /\ UNCHANGED <<review, pc, verdict, reason>>
\* Mutant: the loop variable of one step survives into the next.
MutGotoKeepsIndex(step) == pc' = step /\ UNCHANGED <<review, i, verdict, reason>>

Goto(step) == pc' = step /\ i' = 1 /\ UNCHANGED <<review, verdict, reason>>

CheckInputs ==
  /\ pc = "inputs"
  /\ IF InputsRefuted(review) THEN Fail
     ELSE Goto("checkpoints") /\ UNCHANGED <<byLeaf, perCp, executed, incomplete>>

CheckCheckpoint ==
  /\ At("checkpoints", review.checkpoints)
  /\ IF CheckpointRefuted(review, i) THEN Fail
     ELSE Advance /\ UNCHANGED <<byLeaf, perCp, executed, incomplete>>

CheckCoverage ==
  /\ Past("checkpoints", review.checkpoints)
  /\ incomplete' = IF CoverageLacking(review)
                   THEN Append(incomplete, <<"coverage", 0>>) ELSE incomplete
  /\ Goto("records")
  /\ UNCHANGED <<byLeaf, perCp, executed>>

CheckRecord ==
  /\ At("records", review.records)
  /\ LET item  == review.records[i]
         slots == Slots(review, item.record.time) IN
     IF RecordRefuted(review, i, byLeaf) THEN Fail
     ELSE /\ byLeaf' = byLeaf \cup {RecordLeaf(item)}
          /\ IF slots = {}
             THEN /\ incomplete' = IF review.checkpoints = <<>> THEN incomplete
                                   ELSE Append(incomplete, <<"outside", i>>)
                  /\ UNCHANGED perCp
             ELSE /\ perCp' = [perCp EXCEPT
                        ![Slot(review, item.record.time)] = @ \cup {RecordLeaf(item)}]
                  /\ UNCHANGED incomplete
          /\ Advance
          /\ UNCHANGED executed

EndRecords ==
  /\ Past("records", review.records)
  /\ Goto("counts")
  /\ UNCHANGED <<byLeaf, perCp, executed, incomplete>>

\* Mutant: a count that is short returns INCOMPLETE at once.
MutCountReturnsEarly ==
  /\ At("counts", review.checkpoints)
  /\ IF CountRefuted(review.checkpoints[i], perCp[i]) THEN Fail
     ELSE IF CountLacking(review.checkpoints[i], perCp[i])
          THEN /\ verdict' = "INCOMPLETE" /\ reason' = <<"withheld", i>> /\ pc' = "done"
               /\ UNCHANGED <<review, i, byLeaf, perCp, executed, incomplete>>
          ELSE Advance /\ UNCHANGED <<byLeaf, perCp, executed, incomplete>>

CheckCount ==
  /\ At("counts", review.checkpoints)
  /\ IF CountRefuted(review.checkpoints[i], perCp[i]) THEN Fail
     ELSE /\ incomplete' = IF CountLacking(review.checkpoints[i], perCp[i])
                           THEN Append(incomplete, <<"withheld", i>>) ELSE incomplete
          /\ Advance
          /\ UNCHANGED <<byLeaf, perCp, executed>>

EndCounts ==
  /\ Past("counts", review.checkpoints)
  /\ Goto("executions")
  /\ UNCHANGED <<byLeaf, perCp, executed, incomplete>>

NoKeys == <<"noExecutorKeys", 0>>
Gaps(s) == {s[n] : n \in DOMAIN s}

\* Mutant: the entry's action is not remembered as executed.
MutExecutedForgotten ==
  /\ At("executions", review.executions)
  /\ LET e == review.executions[i]
         unkeyed == IF review.executorKeys = NoKeySet /\ NoKeys \notin Gaps(incomplete)
                    THEN Append(incomplete, NoKeys) ELSE incomplete IN
     IF ExecutionRefuted(review, i, byLeaf, executed) THEN Fail
     ELSE /\ incomplete' = IF ExecutionOutside(review, e)
                           THEN Append(unkeyed, <<"outsideSpan", i>>) ELSE unkeyed
          /\ Advance
          /\ UNCHANGED <<byLeaf, perCp, executed>>

CheckExecution ==
  /\ At("executions", review.executions)
  /\ LET e == review.executions[i]
         unkeyed == IF review.executorKeys = NoKeySet /\ NoKeys \notin Gaps(incomplete)
                    THEN Append(incomplete, NoKeys) ELSE incomplete IN
     IF ExecutionRefuted(review, i, byLeaf, executed) THEN Fail
     ELSE /\ incomplete' = IF ExecutionOutside(review, e)
                           THEN Append(unkeyed, <<"outsideSpan", i>>) ELSE unkeyed
          /\ executed' = IF e.result = "EXECUTED"
                         THEN executed \cup {e.actionId} ELSE executed
          /\ Advance
          /\ UNCHANGED <<byLeaf, perCp>>

Finish ==
  /\ Past("executions", review.executions)
  /\ pc' = "done"
  /\ IF incomplete # <<>>
     THEN verdict' = "INCOMPLETE" /\ reason' = Head(incomplete)
     ELSE verdict' = "PASS" /\ reason' = <<>>
  /\ UNCHANGED <<review, i, byLeaf, perCp, executed, incomplete>>

Next ==
  \/ CheckInputs
  \/ CheckCheckpoint
  \/ CheckCoverage
  \/ CheckRecord
  \/ EndRecords
  \/ CheckCount
  \/ EndCounts
  \/ CheckExecution
  \/ Finish

\* A verifier is one sequential function: it runs until it returns.
Spec == Init /\ [][Next]_vars /\ WF_vars(Next)

-----------------------------------------------------------------------------
(* The promise the verifier implements *)

Oracle == INSTANCE Verdict WITH Calls <- Reviews, call <- review, answer <- verdict

-----------------------------------------------------------------------------
(* Properties *)

Steps == {"inputs", "checkpoints", "records", "counts", "executions", "done"}

\* How far the loop of a step can run.
Bound(step) ==
  CASE step \in {"checkpoints", "counts"} -> Len(review.checkpoints)
    [] step = "records"                  -> Len(review.records)
    [] step = "executions"               -> Len(review.executions)
    [] OTHER                             -> 0

\* The type invariant: every loop stays inside the array it walks, what is
\* collected comes from the bundle, and a verdict is there exactly at the end.
TypeOK ==
  /\ review \in Reviews
  /\ pc \in Steps
  /\ pc # "done" => i \in 1..(Bound(pc) + 1)
  /\ byLeaf \subseteq Leaves(review)
  /\ perCp \in [DOMAIN review.checkpoints -> SUBSET byLeaf]
  /\ verdict \in {"none"} \cup Oracle!Verdicts
  /\ verdict = "none" <=> pc # "done"

\* The verifier implements the one-step oracle: whatever the order of the
\* loops, FAIL is the answer whenever any evidence in the bundle contradicts
\* other evidence, even evidence met after a gap was recorded, INCOMPLETE
\* whenever something is missing and nothing contradicts, and every call is
\* answered (complete.py 225-239: "Never raises").
AnswersAsPromised == Oracle!Spec

\* L is what the issuer counted: every presented checkpoint commits to the
\* members of L stamped inside its period.
CountedFrom(L) ==
  \A k \in DOMAIN review.checkpoints :
    review.checkpoints[k].hash =
      RecordsHash({l \in L : InPeriod(review.checkpoints[k], LeafRecord(l).time)})

InWindow(l) == review.from =< LeafRecord(l).time /\ LeafRecord(l).time < review.to

WholeWindowOf(L) ==
  verdict = "PASS" /\ CountedFrom(L) =>
    /\ \A l \in L : InWindow(l) => l \in Leaves(review)
    /\ Leaves(review) \subseteq L

ExecutedCountedIn(L) ==
  verdict = "PASS" /\ CountedFrom(L) =>
    \A k \in DOMAIN review.executions :
      LET e == review.executions[k] IN
      e.result = "EXECUTED" =>
        /\ {e.actionLeaf, e.useLeaf} \subseteq L
        /\ LeafRecord(e.actionLeaf).outcome = "ALLOWED"
        /\ LeafRecord(e.useLeaf).actionId = LeafRecord(e.actionLeaf).id
        /\ e.key \in review.executorKeys
        /\ \A m \in DOMAIN review.executions \ {k} :
             review.executions[m].result = "EXECUTED" =>
               review.executions[m].actionLeaf # e.actionLeaf

\* The promise of section 8.4, for an issuer that counted Counted: when the
\* answer is PASS, every record of Counted stamped inside the review window is
\* in the bundle, and the bundle carries nothing that was not counted.
WholeWindow == WholeWindowOf(Counted)

\* Under the same condition, whatever a designated executor's log says was
\* executed was counted: an ALLOWED action with its USE, once each.
ExecutedWasCounted == ExecutedCountedIn(Counted)

\* CHECKPOINT-v1 section 8.3 step 7 as written: an entry that names a USE leaf
\* finds that record in the bundle "with the same action_id, use_id and
\* args_hash, else FAIL".
UseArgsReconciled ==
  verdict = "PASS" =>
    \A k \in DOMAIN review.executions :
      LET e == review.executions[k] IN
      e.useLeaf # NoHash /\ e.args # "" => LeafRecord(e.useLeaf).args = e.args

-----------------------------------------------------------------------------
(* The inductive invariant behind WholeWindow and ExecutedWasCounted *)

\* How many elements of each array the loop over it has accepted.
CheckpointsSeen ==
  CASE pc = "inputs" -> 0 [] pc = "checkpoints" -> i - 1
    [] OTHER -> Len(review.checkpoints)
RecordsSeen ==
  CASE pc \in {"inputs", "checkpoints"} -> 0 [] pc = "records" -> i - 1
    [] OTHER -> Len(review.records)
CountsSeen ==
  CASE pc \in {"inputs", "checkpoints", "records"} -> 0 [] pc = "counts" -> i - 1
    [] OTHER -> Len(review.checkpoints)
ExecutionsSeen ==
  CASE pc = "executions" -> i - 1 [] pc = "done" -> Len(review.executions)
    [] OTHER -> 0

\* The first n periods tile the line: none empty, none overlapping an earlier
\* one, and no instant between the first start and the last end left out.
Tiled(n) ==
  LET cps == review.checkpoints IN
  /\ \A j \in 1..n : cps[j].start < cps[j].end
  /\ \A j, k \in 1..n : j < k => cps[j].end =< cps[k].start
  /\ n > 0 => \A t \in cps[1].start .. cps[n].end - 1 :
                \E j \in 1..n : InPeriod(cps[j], t)

LeafAt(k) == RecordLeaf(review.records[k])
TimeAt(k) == review.records[k].record.time

CoverageInv ==
  pc \notin {"inputs", "checkpoints"} /\ incomplete = <<>> => ~CoverageLacking(review)

RecordsInv ==
  /\ byLeaf = {LeafAt(k) : k \in 1..RecordsSeen}
  /\ \A j \in DOMAIN review.checkpoints :
       perCp[j] = {LeafAt(k) : k \in {m \in 1..RecordsSeen :
                                      InPeriod(review.checkpoints[j], TimeAt(m))}}
  /\ incomplete = <<>> =>
       \A k \in 1..RecordsSeen : Slots(review, TimeAt(k)) # {}

CountsInv ==
  incomplete = <<>> =>
    \A j \in 1..CountsSeen : RecordsHash(perCp[j]) = review.checkpoints[j].hash

ExecutionsInv ==
  /\ \A k \in 1..ExecutionsSeen :
       ~ExecutionRefuted(review, k, byLeaf, ExecutedBefore(review, k))
  /\ executed = ExecutedBefore(review, ExecutionsSeen + 1)
  /\ incomplete = <<>> /\ ExecutionsSeen > 0 => review.executorKeys # NoKeySet

\* A gap: what is missing, and at which position.
Gap == {"coverage", "outside", "withheld", "noExecutorKeys", "outsideSpan"} \X Nat

IInv ==
  /\ TypeOK
  /\ incomplete \in Seq(Gap)
  /\ verdict = "PASS" => incomplete = <<>>
  /\ verdict # "FAIL" =>
       /\ Tiled(CheckpointsSeen)
       /\ CoverageInv
       /\ RecordsInv
       /\ CountsInv
       /\ ExecutionsInv

-----------------------------------------------------------------------------
(* The inductive invariant behind AnswersAsPromised, on top of IInv *)

LeavesBefore(r, k) == {RecordLeaf(r.records[m]) : m \in 1..(k - 1)}

LackingPeriod(r, k) == Slots(r, r.records[k].record.time) = {}
LackingCount(r, k)  == CountLacking(r.checkpoints[k], LeavesIn(r, r.checkpoints[k]))
CountContradicts(r, k) == CountRefuted(r.checkpoints[k], LeavesIn(r, r.checkpoints[k]))

\* Nothing walked so far contradicts anything.
SoundSoFar ==
  /\ pc # "inputs" => ~InputsRefuted(review)
  /\ \A k \in 1..CheckpointsSeen : ~CheckpointRefuted(review, k)
  /\ \A k \in 1..RecordsSeen : ~RecordRefuted(review, k, LeavesBefore(review, k))
  /\ \A k \in 1..CountsSeen : ~CountContradicts(review, k)

\* A gap is noted exactly when something weighed so far is lacking.
GapsInv ==
  incomplete # <<>> <=>
    \/ pc \notin {"inputs", "checkpoints"} /\ CoverageLacking(review)
    \/ \E k \in 1..RecordsSeen : LackingPeriod(review, k)
    \/ \E k \in 1..CountsSeen : LackingCount(review, k)
    \/ ExecutionsSeen > 0 /\ review.executorKeys = NoKeySet
    \/ \E k \in 1..ExecutionsSeen : ExecutionOutside(review, review.executions[k])

AnswerInv ==
  /\ verdict = "none" => SoundSoFar /\ GapsInv
  /\ verdict # "none" => verdict = Oracle!Answer(review)
=============================================================================
