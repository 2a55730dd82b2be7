------------------------------ MODULE Witnessed ------------------------------
(***************************************************************************)
(* verify_witnessed of witnessed.py, one step per statement, consistency   *)
(* proof, join and record, in the order of the code.  The first check that *)
(* fails answers FAIL; what is missing is noted, and answers INCOMPLETE    *)
(* only when the whole bundle has been walked.  While no call is made the  *)
(* verifier is idle: Witnessing is the world that calls it.                *)
(***************************************************************************)
EXTENDS WitnessedRules

CONSTANT NoCall

VARIABLES
  call,         \* the arguments and the bundle
  pc,           \* "idle", "inputs", "statements", "strays", "joins", "records", "empty", "done"
  i,            \* the position of the loop
  incomplete,   \* what is missing so far, by the step that noted it
  verdict       \* "none" until it is answered

verifier == <<call, pc, i, incomplete, verdict>>

VerifierInit ==
  /\ call = NoCall
  /\ pc = "idle" /\ i = 1
  /\ incomplete = {}
  /\ verdict = "none"

Call(r) ==
  /\ pc = "idle"
  /\ call' = r /\ pc' = "inputs"
  /\ UNCHANGED <<i, incomplete, verdict>>

Return(v)   == verdict' = v /\ pc' = "done" /\ UNCHANGED <<call, i, incomplete>>
Fail        == Return("FAIL")
At(step, s) == pc = step /\ i =< Len(s)
Advance     == i' = i + 1 /\ UNCHANGED <<call, pc, verdict>>
Noting(note, lacking) == incomplete' = IF lacking THEN incomplete \cup {note} ELSE incomplete

Past(step, s, nextstep) ==
  /\ pc = step /\ i > Len(s)
  /\ pc' = nextstep /\ i' = 1
  /\ UNCHANGED <<call, incomplete, verdict>>

\* Steps 1 to 3: inputs, bundle, and the head the proofs target.
CheckInputs ==
  /\ pc = "inputs"
  /\ IF BundleRefuted(call) THEN Fail
     ELSE pc' = "statements" /\ UNCHANGED <<call, i, incomplete, verdict>>

\* Step 4.
CheckStatement ==
  /\ At("statements", call.witnessed)
  /\ IF StatementRefuted(call, i) THEN Fail
     ELSE Advance /\ Noting("witness keys", call.witnessKeys = NoKeySet)

\* Step 5: every proof starts at a witnessed size, then each witnessed head is
\* joined to the head.
CheckStray ==
  /\ At("strays", call.links)
  /\ IF LinkStrays(call, i) THEN Fail ELSE Advance /\ UNCHANGED incomplete

CheckJoin ==
  /\ At("joins", call.witnessed)
  /\ IF JoinRefuted(call, i) THEN Fail
     ELSE Advance /\ Noting("join", JoinLacking(call, i))

\* Mutant: a record whose lateness cannot be bounded ends the walk.
MutStopAtLacking ==
  /\ At("records", call.records)
  /\ LET item == call.records[i] IN
     IF RecordRefuted(call, item) THEN Fail
     ELSE IF TimeLacking(call, item) THEN Return("INCOMPLETE")
     ELSE Advance /\ UNCHANGED incomplete

\* Step 6.
CheckRecord ==
  /\ At("records", call.records)
  /\ LET item == call.records[i] IN
     IF RecordRefuted(call, item) THEN Fail
     ELSE Advance /\ Noting("time", TimeLacking(call, item))

\* Step 7, and the answer.
Decide ==
  /\ pc = "empty"
  /\ Return(IF incomplete # {} \/ call.records = <<>> THEN "INCOMPLETE" ELSE "PASS")

Verify ==
  \/ CheckInputs \/ CheckStatement \/ CheckStray \/ CheckJoin \/ CheckRecord \/ Decide
  \/ pc \notin {"idle", "done"}
     /\ \/ Past("statements", call.witnessed, "strays")
        \/ Past("strays", call.links, "joins")
        \/ Past("joins", call.witnessed, "records")
        \/ Past("records", call.records, "empty")

-----------------------------------------------------------------------------
(* The inductive invariant of the loops *)

Rule == INSTANCE Verdict WITH Calls <- {}, answer <- verdict

\* How many elements of each array its loop has accepted.
StatementsSeen ==
  CASE pc = "inputs" -> 0 [] pc = "statements" -> i - 1 [] OTHER -> Len(call.witnessed)
StraysSeen ==
  CASE pc \in {"inputs", "statements"} -> 0 [] pc = "strays" -> i - 1 [] OTHER -> Len(call.links)
JoinsSeen ==
  CASE pc \in {"inputs", "statements", "strays"} -> 0 [] pc = "joins" -> i - 1
    [] OTHER -> Len(call.witnessed)
RecordsSeen ==
  CASE pc = "records" -> i - 1 [] pc = "empty" -> Len(call.records) [] OTHER -> 0

\* The array that a loop walks.
Walked(step) ==
  CASE step \in {"statements", "joins"} -> call.witnessed [] step = "strays" -> call.links
    [] step = "records" -> call.records [] OTHER -> <<>>

\* Nothing walked so far is refuted, and something is noted exactly when
\* something walked so far is lacking.
SoundSoFar ==
  /\ pc # "inputs" => ~BundleRefuted(call)
  /\ \A k \in 1..StatementsSeen : ~StatementRefuted(call, k)
  /\ \A k \in 1..StraysSeen : ~LinkStrays(call, k)
  /\ \A k \in 1..JoinsSeen : ~JoinRefuted(call, k)
  /\ \A k \in 1..RecordsSeen : ~RecordRefuted(call, call.records[k])

GapsInv ==
  incomplete # {} <=>
    \/ StatementsSeen > 0 /\ call.witnessKeys = NoKeySet
    \/ \E k \in 1..JoinsSeen : JoinLacking(call, k)
    \/ \E k \in 1..RecordsSeen : TimeLacking(call, call.records[k])

IsArray(s) == Len(s) \in Nat /\ s = [k \in 1..Len(s) |-> s[k]]
CallOk(r)  == IsArray(r.witnessed) /\ IsArray(r.links) /\ IsArray(r.records)

VerifierInv ==
  /\ pc \in {"idle", "inputs", "statements", "strays", "joins", "records", "empty", "done"}
  /\ incomplete \subseteq {"witness keys", "join", "time"}
  /\ pc \in {"idle", "inputs"} => i = 1 /\ incomplete = {}
  /\ pc \notin {"idle", "done"} =>
       /\ CallOk(call) /\ i \in 1..(Len(Walked(pc)) + 1)
       /\ SoundSoFar /\ GapsInv
  /\ IF pc = "done" THEN verdict \in Rule!Verdicts /\ verdict = Rule!Answer(call)
     ELSE verdict = "none"
=============================================================================
