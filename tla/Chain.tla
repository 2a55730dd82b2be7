-------------------------------- MODULE Chain --------------------------------
(***************************************************************************)
(* The `chain` profile: verify_chain of                                    *)
(* packages/verify-receipt-py/src/aqta_verify_receipt/chain.py as the      *)
(* state machine its code is: one action per step of USE-v1 section 9.3,   *)
(* one step per iteration of each loop.  The wording of a reason is        *)
(* abstracted to its step and position.                                    *)
(***************************************************************************)
EXTENDS ChainRules

CONSTANT Calls        \* the calls: arguments of verify_chain and the bundle

\* What the syntax checks of the records leave of a call.
ASSUME CallAssumption ==
  \A c \in Calls :
    /\ IsSequence(c.actions) /\ IsSequence(c.grants) /\ IsSequence(c.uses)
    /\ \A k \in DOMAIN c.grants : c.grants[k].maxUses \in Nat \cup {NoLimit}
    /\ \A k \in DOMAIN c.uses : c.uses[k].index \in Nat

ASSUME LimitAssumption == NoLimit \notin Nat

VARIABLES
  call,         \* the call in progress
  pc,           \* the step of section 9.3 in progress, "done" at the end
  i,            \* the position the loop of that step has reached
  byAction,     \* by_action: the actions accepted so far, by id
  byHash,       \* by_hash: the grants accepted so far, by hash
  useIds,       \* seen_use_ids
  claims,       \* the (consumption key, index) pairs claimed so far
  named,        \* the actions named by a USE so far
  incomplete,   \* the gaps collected so far, in order
  verdict,      \* "none" while running
  reason        \* what the verdict names

collected == <<byAction, byHash, useIds, claims, named>>
vars == <<call, pc, i, collected, incomplete, verdict, reason>>

\* A function with one more argument.
With(f, x, y) == [z \in DOMAIN f \cup {x} |-> IF z = x THEN y ELSE f[z]]

-----------------------------------------------------------------------------
Start(c) ==
  /\ call = c
  /\ pc = "inputs" /\ i = 1
  /\ byAction = <<>> /\ byHash = <<>>
  /\ useIds = {} /\ claims = {} /\ named = {}
  /\ incomplete = <<>>
  /\ verdict = "none" /\ reason = <<>>

Init == \E c \in Calls : Start(c)

\* raise _Fail: the first contradiction ends the run.
Fail ==
  /\ verdict' = "FAIL" /\ reason' = <<pc, i>> /\ pc' = "done"
  /\ UNCHANGED <<call, i, collected, incomplete>>

At(step, S)   == pc = step /\ i =< Len(S)
Past(step, S) == pc = step /\ i > Len(S)

Advance    == i' = i + 1 /\ UNCHANGED <<call, pc, verdict, reason>>
\* Mutant: the loop variable of one step survives into the next.
MutGotoKeepsIndex(step) == pc' = step /\ UNCHANGED <<call, i, verdict, reason>>

Goto(step) == pc' = step /\ i' = 1 /\ UNCHANGED <<call, verdict, reason>>

\* The gaps with one more, when its condition holds.
Noted(gaps, condition, name) == IF condition THEN Append(gaps, <<name, i>>) ELSE gaps

CheckInputs ==
  /\ pc = "inputs"
  /\ IF InputsRefuted(call) THEN Fail
     ELSE Goto("actions") /\ UNCHANGED <<collected, incomplete>>

CheckActionItem ==
  /\ At("actions", call.actions)
  /\ LET a == call.actions[i] IN
     IF ActionItemRefuted(call, a, DOMAIN byAction) THEN Fail
     ELSE /\ byAction' = With(byAction, a.record.id, a)
          /\ Advance
          /\ UNCHANGED <<byHash, useIds, claims, named, incomplete>>

CheckGrant ==
  /\ At("grants", call.grants)
  /\ LET g == call.grants[i] IN
     IF GrantRefuted(g, DOMAIN byHash) THEN Fail
     ELSE /\ byHash' = With(byHash, GrantHash(g), g)
          /\ Advance
          /\ UNCHANGED <<byAction, useIds, claims, named, incomplete>>

CheckUseRecord ==
  /\ At("uses", call.uses)
  /\ LET u == call.uses[i] IN
     IF UseRecordRefuted(call, u, useIds) THEN Fail
     ELSE /\ useIds' = useIds \cup {u.id}
          /\ Advance
          /\ UNCHANGED <<byAction, byHash, claims, named, incomplete>>

CheckConflict ==
  /\ At("conflicts", call.uses)
  /\ LET u == call.uses[i] IN
     IF ConflictRefuted(u, claims, named) THEN Fail
     ELSE /\ claims' = claims \cup {Claim(u)}
          /\ named' = named \cup {u.actionId}
          /\ Advance
          /\ UNCHANGED <<byAction, byHash, useIds, incomplete>>

\* Mutant: a gap ends the run, before later contradictions are met.
MutUseReturnsEarly ==
  /\ At("eachUse", call.uses)
  /\ LET u == call.uses[i] IN
     IF UseRefuted(u, byHash, byAction) THEN Fail
     ELSE IF UseLacking(u, byHash, byAction)
          THEN /\ verdict' = "INCOMPLETE" /\ reason' = <<pc, i>> /\ pc' = "done"
               /\ UNCHANGED <<call, i, collected, incomplete>>
          ELSE Advance /\ UNCHANGED <<collected, incomplete>>

CheckUse ==
  /\ At("eachUse", call.uses)
  /\ LET u == call.uses[i] IN
     IF UseRefuted(u, byHash, byAction) THEN Fail
     ELSE /\ incomplete' = Noted(incomplete, UseLacking(u, byHash, byAction), "use")
          /\ Advance
          /\ UNCHANGED collected

\* Mutant: an ALLOWED action of a counted grant may go without its USE.
MutUseNotRequired ==
  /\ At("eachAction", call.actions)
  /\ LET a == call.actions[i] IN
     IF ActionRefuted(call, a, byHash) THEN Fail
     ELSE /\ incomplete' = Noted(Noted(incomplete, GrantLacking(a, byHash), "grant"),
                                ApproversLacking(call, a, byHash), "approvers")
          /\ Advance
          /\ UNCHANGED collected

CheckAction ==
  /\ At("eachAction", call.actions)
  /\ LET a == call.actions[i] IN
     IF ActionRefuted(call, a, byHash) THEN Fail
     ELSE /\ incomplete' = Noted(Noted(Noted(incomplete, GrantLacking(a, byHash), "grant"),
                                      ApproversLacking(call, a, byHash), "approvers"),
                                UseOfActionLacking(call, a, byHash), "useOfAction")
          /\ Advance
          /\ UNCHANGED collected

\* The end of each loop, in the order of section 9.3.
EndLoop ==
  /\ \/ Past("actions", call.actions)  /\ Goto("grants")
     \/ Past("grants", call.grants)    /\ Goto("uses")
     \/ Past("uses", call.uses)        /\ Goto("conflicts")
     \/ Past("conflicts", call.uses)   /\ Goto("eachUse")
     \/ Past("eachUse", call.uses)    /\ Goto("eachAction")
  /\ UNCHANGED <<collected, incomplete>>

Finish ==
  /\ Past("eachAction", call.actions)
  /\ pc' = "done"
  /\ incomplete' = Noted(incomplete, call.actions = <<>>, "empty")
  /\ IF incomplete' # <<>>
     THEN verdict' = "INCOMPLETE" /\ reason' = Head(incomplete')
     ELSE verdict' = "PASS" /\ reason' = <<>>
  /\ UNCHANGED <<call, i, collected>>

Next ==
  \/ CheckInputs
  \/ CheckActionItem
  \/ CheckGrant
  \/ CheckUseRecord
  \/ CheckConflict
  \/ CheckUse
  \/ CheckAction
  \/ EndLoop
  \/ Finish

\* A verifier is one sequential function: it runs until it returns.
Spec == Init /\ [][Next]_vars /\ WF_vars(Next)

Oracle == INSTANCE Verdict WITH answer <- verdict

-----------------------------------------------------------------------------
(* Properties *)

Steps == {"inputs", "actions", "grants", "uses", "conflicts", "eachUse", "eachAction",
          "done"}

\* How far the loop of a step can run.
Bound(step) ==
  CASE step \in {"actions", "eachAction"}         -> Len(call.actions)
    [] step = "grants"                            -> Len(call.grants)
    [] step \in {"uses", "conflicts", "eachUse"}   -> Len(call.uses)
    [] OTHER                                      -> 0

\* The first n elements of each array.
ActionsAt(c, n) == {c.actions[k] : k \in 1..n}
GrantsAt(c, n)  == {c.grants[k] : k \in 1..n}
UsesAt(c, n)    == {c.uses[k] : k \in 1..n}

\* The type invariant: every loop stays inside the array it walks, what the
\* lookups hold comes from the bundle under its own key, and a verdict is
\* there exactly at the end.
TypeOK ==
  /\ pc \in Steps
  /\ pc # "done" => i \in 1..(Bound(pc) + 1)
  /\ \A id \in DOMAIN byAction :
       byAction[id] \in ActionsAt(call, Len(call.actions)) /\ byAction[id].record.id = id
  /\ \A h \in DOMAIN byHash :
       byHash[h] \in GrantsAt(call, Len(call.grants)) /\ GrantHash(byHash[h]) = h
  /\ verdict \in {"none"} \cup Oracle!Verdicts
  /\ verdict = "none" <=> pc # "done"

\* The verifier implements the one-step oracle: whatever the order of its eight
\* loops and the lookups they share, FAIL is the answer whenever any evidence
\* contradicts other evidence, INCOMPLETE whenever something is missing and
\* nothing contradicts (USE-v1 section 9.2), and every call is answered.
AnswersAsPromised == Oracle!Spec

\* The ALLOWED actions charged to grant g's count: those under a counted grant
\* with g's consumption key that allows no more uses than g.
ChargedWith(g) ==
  {k \in DOMAIN call.actions :
     /\ Granted(call.actions[k], ByHash(call))
     /\ LET h == ByHash(call)[call.actions[k].args.grantHash] IN
        /\ Counted(h)
        /\ ConsumptionKey(h, h.org) = ConsumptionKey(g, g.org)
        /\ h.maxUses =< g.maxUses}

\* USE-v1 section 9.4, "the grant's limit was not exceeded": a PASS bundle shows
\* no more ALLOWED actions under a grant than it allows, not even spread over
\* the reissues of one intent, which share one count.
LimitsKept ==
  verdict = "PASS" =>
    \A k \in DOMAIN call.grants :
      LET g == call.grants[k] IN
      Counted(g) => Cardinality(ChargedWith(g)) =< g.maxUses

\* USE-v1 section 9.4, "within a grant signed by a key the relying party
\* designated": every ALLOWED action that rests on a grant traces to a
\* designated approver who granted that tool to that organisation, and the
\* moment it was authorised lies in the grant's window.  That moment is the
\* USE's, signed over the same arguments, when the grant is counted; the
\* action's own time is then never looked at.
TracesToApprover ==
  verdict = "PASS" =>
    \A k \in DOMAIN call.actions :
      LET a == call.actions[k] IN
      a.record.outcome = "ALLOWED" /\ References(a) =>
        \E n \in DOMAIN call.grants :
          LET g == call.grants[n] IN
          /\ g.signed /\ g.key \in call.approverKeys
          /\ GrantHash(g) = a.args.grantHash
          /\ g.org = a.record.org /\ a.record.tool \in g.scopeTools
          /\ IF Counted(g)
             THEN \E m \in DOMAIN call.uses :
                    LET u == call.uses[m] IN
                    /\ u.actionId = a.record.id /\ u.args = Hash(a.args)
                    /\ InGrantWindow(g, u.time)
             ELSE InGrantWindow(g, a.record.time)

-----------------------------------------------------------------------------
(* The inductive invariant behind the refinement and the two promises *)

\* How many elements of each array the loop of a step has accepted.
Walked(step, before, S) == CASE pc \in before -> 0 [] pc = step -> i - 1 [] OTHER -> Len(S)

ItemsSeen      == Walked("actions", {"inputs"}, call.actions)
GrantsSeen     == Walked("grants", {"inputs", "actions"}, call.grants)
UsesSeen       == Walked("uses", {"inputs", "actions", "grants"}, call.uses)
ConflictsSeen  == Walked("conflicts", {"inputs", "actions", "grants", "uses"}, call.uses)
UsesWeighed    == Walked("eachUse", Steps \ {"eachUse", "eachAction", "done"}, call.uses)
ActionsWeighed == Walked("eachAction", Steps \ {"eachAction", "done"}, call.actions)

\* What the loops collect of the first n elements.
ActionIds(c, n)   == {c.actions[k].record.id : k \in 1..n}
GrantHashes(c, n) == {GrantHash(c.grants[k]) : k \in 1..n}
UseIds(c, n)      == {u.id : u \in UsesAt(c, n)}
Claims(c, n)      == {Claim(u) : u \in UsesAt(c, n)}
Named(c, n)       == {u.actionId : u \in UsesAt(c, n)}

InputsInv == pc # "inputs" => ~InputsRefuted(call)

\* The actions walked are sound, each with an id of its own under which
\* by_action has it.
ItemsInv ==
  /\ byAction \in [ActionIds(call, ItemsSeen) -> ActionsAt(call, ItemsSeen)]
  /\ \A k \in 1..ItemsSeen :
       /\ byAction[call.actions[k].record.id] = call.actions[k]
       /\ ~ActionItemRefuted(call, call.actions[k], ActionIds(call, k - 1))

GrantsInv ==
  /\ byHash \in [GrantHashes(call, GrantsSeen) -> GrantsAt(call, GrantsSeen)]
  /\ \A k \in 1..GrantsSeen :
       /\ byHash[GrantHash(call.grants[k])] = call.grants[k]
       /\ ~GrantRefuted(call.grants[k], GrantHashes(call, k - 1))

UseRecordsInv ==
  /\ useIds = UseIds(call, UsesSeen)
  /\ \A k \in 1..UsesSeen : ~UseRecordRefuted(call, call.uses[k], UseIds(call, k - 1))

ConflictsInv ==
  /\ claims = Claims(call, ConflictsSeen)
  /\ named = Named(call, ConflictsSeen)
  /\ \A k \in 1..ConflictsSeen :
       ~ConflictRefuted(call.uses[k], Claims(call, k - 1), Named(call, k - 1))

UsesInv == \A k \in 1..UsesWeighed : ~UseRefuted(call.uses[k], byHash, byAction)

ActionsInv == \A k \in 1..ActionsWeighed : ~ActionRefuted(call, call.actions[k], byHash)

ActionLacking(c, a, grants) ==
  \/ GrantLacking(a, grants)
  \/ ApproversLacking(c, a, grants)
  \/ UseOfActionLacking(c, a, grants)

\* A gap is noted exactly when something weighed so far is lacking.
GapsInv ==
  incomplete # <<>> <=>
    \/ \E k \in 1..UsesWeighed : UseLacking(call.uses[k], byHash, byAction)
    \/ \E k \in 1..ActionsWeighed : ActionLacking(call, call.actions[k], byHash)

\* A gap: what is missing, and at which position.
Gap == {"use", "grant", "approvers", "useOfAction", "empty"} \X Nat

\* What the loops have established of the elements they have walked.
Progress ==
  /\ InputsInv
  /\ ItemsInv
  /\ GrantsInv
  /\ UseRecordsInv
  /\ ConflictsInv
  /\ UsesInv
  /\ ActionsInv
  /\ GapsInv

IInv ==
  /\ call \in Calls
  /\ TypeOK
  /\ incomplete \in Seq(Gap)
  /\ verdict = "none" => Progress
  /\ verdict # "none" => verdict = Oracle!Answer(call)
=============================================================================
