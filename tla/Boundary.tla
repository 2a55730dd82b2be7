------------------------------ MODULE Boundary ------------------------------
(***************************************************************************)
(* Where a `chain` bundle comes from: a boundary whose workers decide      *)
(* agents' requests concurrently, claim numbered uses of the approvers'    *)
(* grants, and may crash at any point, and an operator who hands a relying *)
(* party a selection of the records.  The records are built as             *)
(* test-vectors/chain/generate.py builds them; when they are signed is the *)
(* boundary's, which is not in the repository (spec/USE-v1.md section 5    *)
(* says what it must do).                                                  *)
(*                                                                         *)
(* The relying party is the answer of verify_chain, the one Chain is shown *)
(* to compute.                                                             *)
(***************************************************************************)
EXTENDS ChainRules

CONSTANTS
  Requests,     \* what agents ask for: [id, tool, fields, grant]
  Horizon,      \* the last instant of the model
  Issuer,
  Approvers,    \* the keys the relying party designates
  NoReview      \* nothing has been presented yet

ASSUME BoundaryAssumption == Horizon \in Nat /\ Issuer # NoKey /\ Approvers # NoKeySet

\* An agent rests its request on a grant some designated approver signed, and
\* the boundary gives each request an action id of its own.
ASSUME RequestAssumption ==
  /\ IsFiniteSet(Requests) /\ NoLimit \notin Nat
  /\ \A req \in Requests :
       LET g == req.grant IN
       /\ g.form /\ g.signed /\ Unsigned(g) = g /\ g.key \in Approvers
       /\ g.maxUses \in Nat \cup {NoLimit}
       /\ {g.id, GrantHash(g)} \cap {Absent, NotText} = {}
       /\ \A other \in Requests : other.id = req.id => other = req

VARIABLES
  now,
  phase,        \* how far the worker of each request has come
  next,         \* the use index the worker read
  uses,         \* the committed USE records
  actions,      \* the signed decisions, each with its arguments
  review,       \* the call the operator's selection makes
  answer        \* the relying party's verdict

vars == <<now, phase, next, uses, actions, review, answer>>

-----------------------------------------------------------------------------
(* Records, as the generator signs them *)

ActionItem(req, outcome, t) ==
  LET args == [grantId |-> req.grant.id, grantHash |-> GrantHash(req.grant),
               fields |-> req.fields] IN
  [form |-> TRUE, args |-> args,
   record |-> [form |-> TRUE, signed |-> TRUE, key |-> Issuer, org |-> req.grant.org,
               id |-> req.id, args |-> Hash(args), outcome |-> outcome,
               tool |-> req.tool, time |-> t]]

KeyOf(req) == ConsumptionKey(req.grant, req.grant.org)

Use(req, index, t) ==
  LET g == req.grant IN
  [form |-> TRUE, signed |-> TRUE, key |-> Issuer, id |-> req.id, org |-> g.org,
   actionId |-> req.id, args |-> ActionItem(req, "ALLOWED", t).record.args,
   grantId |-> g.id, grantHash |-> GrantHash(g), approverKey |-> g.key,
   consumptionKey |-> KeyOf(req), index |-> index, maxUses |-> g.maxUses, time |-> t]

ArrayOf(S) ==
  CHOOSE f \in [1..Cardinality(S) -> S] : \A j, k \in DOMAIN f : j # k => f[j] # f[k]

Bundle(grants, someUses, someActions) ==
  [pinned |-> Issuer, form |-> TRUE, approverKeys |-> Approvers,
   grants |-> ArrayOf(grants), uses |-> ArrayOf(someUses), actions |-> ArrayOf(someActions)]

-----------------------------------------------------------------------------
(* The boundary: one worker per request *)

Init ==
  /\ now = 0
  /\ phase = [req \in Requests |-> "new"]
  /\ next = [req \in Requests |-> 0]
  /\ uses = {} /\ actions = {}
  /\ review = NoReview /\ answer = "none"

Running == answer = "none"
Moves(req, p) == phase' = [phase EXCEPT ![req] = p]

Tick ==
  /\ Running /\ now < Horizon
  /\ now' = now + 1
  /\ UNCHANGED <<phase, next, uses, actions, review, answer>>

\* Policy first: a refused action claims nothing.
Evaluate(req) ==
  /\ Running /\ phase[req] = "new"
  /\ Moves(req, IF InScope(req.grant, ActionItem(req, "ALLOWED", now))
                   /\ InGrantWindow(req.grant, now)
                THEN IF Counted(req.grant) THEN "numbering" ELSE "permitted"
                ELSE "refused")
  /\ UNCHANGED <<now, next, uses, actions, review, answer>>

\* The next index under the consumption key, read before the claim.
ReadIndex(req) ==
  /\ Running /\ phase[req] = "numbering"
  /\ LET n == Cardinality({u \in uses : u.consumptionKey = KeyOf(req)}) + 1 IN
     IF n > req.grant.maxUses
     THEN Moves(req, "refused") /\ UNCHANGED next
     ELSE Moves(req, "claiming") /\ next' = [next EXCEPT ![req] = n]
  /\ UNCHANGED <<now, uses, actions, review, answer>>

\* Mutant: the insert does not look at the uniqueness constraint.
MutClaimUnconditionally(req) ==
  /\ Running /\ phase[req] = "claiming"
  /\ InGrantWindow(req.grant, now)
  /\ uses' = uses \cup {Use(req, next[req], now)} /\ Moves(req, "permitted")
  /\ UNCHANGED <<now, next, actions, review, answer>>

\* Mutant: a claim that lost a race is retried with the index it already read.
MutRetrySameIndex(req) ==
  /\ Running /\ phase[req] = "claiming"
  /\ IF <<KeyOf(req), next[req]>> \in {Claim(u) : u \in uses}
     THEN UNCHANGED <<phase, uses>>
     ELSE IF InGrantWindow(req.grant, now)
          THEN uses' = uses \cup {Use(req, next[req], now)} /\ Moves(req, "permitted")
          ELSE Moves(req, "refused") /\ UNCHANGED uses
  /\ UNCHANGED <<now, next, actions, review, answer>>

\* The atomic insert: the claim and its USE commit together, or the claim lost
\* a race and is retried with the next index.
ClaimUse(req) ==
  /\ Running /\ phase[req] = "claiming"
  /\ IF <<KeyOf(req), next[req]>> \in {Claim(u) : u \in uses}
     THEN Moves(req, "numbering") /\ UNCHANGED uses
     ELSE IF InGrantWindow(req.grant, now)
          THEN uses' = uses \cup {Use(req, next[req], now)} /\ Moves(req, "permitted")
          ELSE Moves(req, "refused") /\ UNCHANGED uses
  /\ UNCHANGED <<now, next, actions, review, answer>>

\* The decision is signed; under an uncounted grant only inside its window.
Sign(req) ==
  /\ Running /\ phase[req] \in {"permitted", "refused"}
  /\ LET allowed == phase[req] = "permitted"
                    /\ (Counted(req.grant) \/ InGrantWindow(req.grant, now)) IN
     actions' = actions \cup {ActionItem(req, IF allowed THEN "ALLOWED" ELSE "BLOCKED", now)}
  /\ Moves(req, "decided")
  /\ UNCHANGED <<now, next, uses, review, answer>>

\* A worker dies between any two steps; what it committed stays.
Crash(req) ==
  /\ Running /\ phase[req] \notin {"decided", "crashed"}
  /\ Moves(req, "crashed")
  /\ UNCHANGED <<now, next, uses, actions, review, answer>>

Verifier == INSTANCE Verdict WITH Calls <- {}, call <- review

\* The operator presents the grants and some of the records, at the model's
\* last instant.
Present(someUses, someActions) ==
  /\ Running /\ now = Horizon
  /\ review' = Bundle({req.grant : req \in Requests}, someUses, someActions)
  /\ answer' = Verifier!Answer(review')
  /\ UNCHANGED <<now, phase, next, uses, actions>>

Step(req) == Evaluate(req) \/ ReadIndex(req) \/ ClaimUse(req) \/ Sign(req)

Next ==
  \/ Tick
  \/ \E req \in Requests : Step(req) \/ Crash(req)
  \/ \E someUses \in SUBSET uses, someActions \in SUBSET actions :
       Present(someUses, someActions)

\* A worker that has not crashed is scheduled.
Spec == Init /\ [][Next]_vars /\ \A req \in Requests : WF_vars(Step(req))

-----------------------------------------------------------------------------
(* Properties *)

Phases == {"new", "numbering", "claiming", "permitted", "refused", "decided", "crashed"}

UsesUnder(key) == {u \in uses : u.consumptionKey = key}
Disclosed(array) == {array[k] : k \in DOMAIN array}
CountedGrants == {g \in {req.grant : req \in Requests} : Counted(g)}

\* The uses under a consumption key are numbered from 1 without a gap, however
\* the workers' reads and inserts interleave and wherever one crashes, and only
\* a worker past its claim has one.
TypeOK ==
  /\ now \in 0..Horizon
  /\ phase \in [Requests -> Phases] /\ next \in [Requests -> Nat]
  /\ \A key \in {KeyOf(req) : req \in Requests} :
       {u.index : u \in UsesUnder(key)} = 1..Cardinality(UsesUnder(key))
  /\ \A u \in uses : \E req \in Requests :
       u.actionId = req.id /\ phase[req] \in {"permitted", "decided", "crashed"}
  /\ answer \in {"none"} \cup Verifier!Verdicts

\* A boundary that follows section 5 and an operator who discloses everything
\* are never told that the evidence contradicts itself, whatever crashed; the
\* answer is PASS exactly when every use claimed was decided.
HonestNeverRefuted ==
  ~Running /\ Disclosed(review.uses) = uses /\ Disclosed(review.actions) = actions =>
    /\ answer # "FAIL"
    /\ answer = "PASS" <=>
         /\ actions # {}
         /\ \A u \in uses : \E a \in actions : a.record.id = u.actionId

\* USE-v1 sections 5.4 and 9.4.  A use spent by a worker that died before its
\* decision never passes; and what an operator can keep from a PASS bundle is
\* exactly whole pairs, a USE and its ALLOWED action together.
PassOmitsOnlyPairs ==
  answer = "PASS" =>
    \A u \in uses :
      u \in Disclosed(review.uses) <=>
        \E a \in Disclosed(review.actions) :
          a.record.id = u.actionId /\ a.record.outcome = "ALLOWED"

\* No interleaving of claims, retries and crashes spends a grant more often
\* than its approver allowed, not even over the reissues of one intent.
LimitKept ==
  \A g \in CountedGrants :
    Cardinality({u \in UsesUnder(ConsumptionKey(g, g.org)) : u.maxUses =< g.maxUses}) =< g.maxUses

\* Every request is decided or dies with its worker: losing races to other
\* workers does not go on for ever.
EveryRequestSettles ==
  \A req \in Requests :
    phase[req] = "new" ~> phase[req] \in {"decided", "crashed"} \/ ~Running

-----------------------------------------------------------------------------
(* The inductive invariant behind the four properties *)

Grants == {req.grant : req \in Requests}

\* What the policy asks of a request whatever its outcome.
Permitted(req) == InScope(req.grant, ActionItem(req, "ALLOWED", 0))

Claimed(req) == \E u \in uses : u.actionId = req.id

\* The steps of a worker follow its phase.
WorkersInv ==
  \A req \in Requests :
    /\ phase[req] \in {"numbering", "claiming"} => Counted(req.grant)
    /\ phase[req] \in {"numbering", "claiming", "permitted"} => Permitted(req)
    /\ phase[req] = "claiming" =>
         next[req] \in 1..(Cardinality(UsesUnder(KeyOf(req))) + 1)
         /\ next[req] =< req.grant.maxUses
    /\ phase[req] = "permitted" /\ Counted(req.grant) => Claimed(req)

\* Every USE is what its worker claimed within the grant, and no two USEs share
\* an action, or a consumption key and an index.
UsesInv ==
  /\ IsFiniteSet(uses)
  /\ \A u \in uses : \E req \in Requests :
       /\ u = Use(req, u.index, u.time)
       /\ phase[req] \in {"permitted", "decided", "crashed"}
       /\ Counted(req.grant) /\ u.index \in 1..req.grant.maxUses
       /\ InGrantWindow(req.grant, u.time)
  /\ \A u, v \in uses : u.actionId = v.actionId \/ Claim(u) = Claim(v) => u = v

\* Every decision is its worker's last step: ALLOWED with what the grant asks
\* for, BLOCKED when nothing was claimed.
ActionsInv ==
  /\ IsFiniteSet(actions)
  /\ \A a \in actions : \E req \in Requests :
       /\ phase[req] = "decided"
       /\ \/ /\ a = ActionItem(req, "ALLOWED", a.record.time)
             /\ Permitted(req)
             /\ Counted(req.grant) => Claimed(req)
             /\ ~Counted(req.grant) => InGrantWindow(req.grant, a.record.time)
          \/ a = ActionItem(req, "BLOCKED", a.record.time) /\ ~Claimed(req)
  /\ \A a, b \in actions : a.record.id = b.record.id => a = b

\* The relying party answers what it was given.
ReviewInv ==
  answer # "none" =>
    /\ \E someUses \in SUBSET uses, someActions \in SUBSET actions :
         review = Bundle(Grants, someUses, someActions)
    /\ answer = Verifier!Answer(review)

IInv ==
  /\ TypeOK
  /\ WorkersInv
  /\ UsesInv
  /\ ActionsInv
  /\ ReviewInv
=============================================================================
