--------------------------- MODULE BoundaryProofs ---------------------------
(***************************************************************************)
(* Proofs about the boundary that issues chain bundles, for every set of   *)
(* requests, every horizon and any number of workers, crashes and retries. *)
(* The inductive invariant IInv ties each USE and each decision to the     *)
(* worker that made it; what a relying party is told follows from it and   *)
(* the order-free answer of ChainRules.                                    *)
(***************************************************************************)
EXTENDS Boundary, FiniteSetTheorems, TLAPS

-----------------------------------------------------------------------------
(* Records and requests *)

\* The argument object every decision on a request, and its USE, commits to.
ArgumentsOf(req) ==
  [grantId |-> req.grant.id, grantHash |-> GrantHash(req.grant), fields |-> req.fields]

\* What a USE says of the request it was claimed for.
LEMMA UseFields ==
  ASSUME NEW req, NEW n, NEW t, NEW u, u = Use(req, n, t)
  PROVE  /\ \A c : c.pinned = Issuer /\ n >= 1 => UseOk(c, u)
         /\ u.id = req.id /\ u.actionId = req.id
         /\ u.org = req.grant.org /\ u.grantId = req.grant.id
         /\ u.grantHash = GrantHash(req.grant) /\ u.approverKey = req.grant.key
         /\ u.args = Hash(ArgumentsOf(req))
         /\ u.consumptionKey = KeyOf(req) /\ u.index = n
         /\ u.maxUses = req.grant.maxUses /\ u.time = t
BY DEF Use, ActionItem, ArgumentsOf, UseOk

\* What a decision says of the request it decides.
LEMMA ActionFields ==
  ASSUME NEW req, NEW outcome, NEW t, NEW a, a = ActionItem(req, outcome, t)
  PROVE  /\ \A c : c.pinned = Issuer => ActionOk(c, a)
         /\ a.args = ArgumentsOf(req) /\ a.record.args = Hash(a.args)
         /\ a.args.grantId = req.grant.id /\ a.args.grantHash = GrantHash(req.grant)
         /\ a.record.id = req.id /\ a.record.org = req.grant.org
         /\ a.record.outcome = outcome /\ a.record.time = t
BY DEF ActionItem, ArgumentsOf, ActionOk

\* Whether a request is in its grant's scope does not depend on when it is
\* decided, or how.
LEMMA ScopeOf ==
  ASSUME NEW req, NEW outcome, NEW t
  PROVE  InScope(req.grant, ActionItem(req, outcome, t)) <=> Permitted(req)
BY DEF Permitted, InScope, ActionItem

\* What the assumption says of one request.
LEMMA RequestFacts ==
  ASSUME NEW req \in Requests
  PROVE  /\ req.grant.form /\ req.grant.signed /\ Unsigned(req.grant) = req.grant
         /\ req.grant.key \in Approvers
         /\ Counted(req.grant) => req.grant.maxUses \in Nat
         /\ {req.grant.id, GrantHash(req.grant)} \cap {Absent, NotText} = {}
         /\ \A other \in Requests : other.id = req.id => other = req
BY RequestAssumption DEF Counted

-----------------------------------------------------------------------------
(* The invariant holds initially and every step preserves it *)

\* Before any worker moves there is nothing to keep.
LEMMA InitInv ==
  ASSUME Init
  PROVE  IInv
<1> USE DEF Init
<1>1. ASSUME NEW key
      PROVE  {u.index : u \in UsesUnder(key)} = 1..Cardinality(UsesUnder(key))
  <2>1. UsesUnder(key) = {}
    BY DEF UsesUnder
  <2>2. Cardinality({}) = 0 /\ 1..0 = {}
    BY FS_EmptySet
  <2> QED BY <2>1, <2>2
<1>2. TypeOK
  BY <1>1, BoundaryAssumption DEF TypeOK, Phases
<1>3. WorkersInv
  BY DEF WorkersInv
<1>4. UsesInv /\ ActionsInv /\ ReviewInv
  BY FS_EmptySet DEF UsesInv, ActionsInv, ReviewInv
<1> QED BY <1>2, <1>3, <1>4 DEF IInv

\* While the boundary runs nothing has been presented, so a step that presents
\* nothing has nothing to say about the relying party.
LEMMA Unreviewed ==
  ASSUME IInv, Running, UNCHANGED answer
  PROVE  ReviewInv' /\ answer' \in {"none"} \cup Verifier!Verdicts
BY DEF Running, ReviewInv

\* Moving one worker leaves the others where they are.
LEMMA Moving ==
  ASSUME IInv, NEW req \in Requests, NEW p \in Phases, Moves(req, p)
  PROVE  /\ phase' \in [Requests -> Phases]
         /\ phase'[req] = p
         /\ \A other \in Requests : other # req => phase'[other] = phase[other]
BY DEF IInv, TypeOK, Moves

\* Time alone changes nothing.
LEMMA TickInv ==
  ASSUME IInv, Tick
  PROVE  IInv'
<1> USE DEF Tick
<1>1. now' \in 0..Horizon
  BY BoundaryAssumption DEF IInv, TypeOK
<1>2. TypeOK'
  BY <1>1, Unreviewed DEF IInv, TypeOK, UsesUnder
<1>3. WorkersInv'
  BY DEF IInv, WorkersInv, UsesUnder, Claimed
<1>4. UsesInv' /\ ActionsInv'
  BY DEF IInv, UsesInv, ActionsInv, Claimed
<1> QED BY <1>2, <1>3, <1>4, Unreviewed DEF IInv

\* A step that moves one worker and claims nothing keeps the invariant when the
\* worker's new phase is one it may be in; the decisions are looked at when the
\* step signs one.
LEMMA MoveInv ==
  ASSUME IInv, Running, NEW req \in Requests, NEW p \in Phases, Moves(req, p),
         UNCHANGED <<now, uses, review, answer>>,
         next' \in [Requests -> Nat],
         \A other \in Requests : other # req => next'[other] = next[other],
         phase[req] # "decided",
         Claimed(req) => p \in {"permitted", "decided", "crashed"},
         p \in {"numbering", "claiming"} => Counted(req.grant),
         p \in {"numbering", "claiming", "permitted"} => Permitted(req),
         p = "claiming" =>
           /\ next'[req] \in 1..(Cardinality(UsesUnder(KeyOf(req))) + 1)
           /\ next'[req] =< req.grant.maxUses,
         p = "permitted" /\ Counted(req.grant) => Claimed(req)
  PROVE  /\ TypeOK' /\ WorkersInv' /\ UsesInv' /\ ReviewInv'
         /\ UNCHANGED actions => IInv'
<1>1. /\ phase' \in [Requests -> Phases]
      /\ phase'[req] = p
      /\ \A other \in Requests : other # req => phase'[other] = phase[other]
  BY Moving
<1>2. /\ \A key : UsesUnder(key)' = UsesUnder(key)
      /\ \A other : Claimed(other)' = Claimed(other)
  BY DEF UsesUnder, Claimed
<1>3. ASSUME NEW u \in uses, NEW other \in Requests, u = Use(other, u.index, u.time),
             phase[other] \in {"permitted", "decided", "crashed"}
      PROVE  phase'[other] \in {"permitted", "decided", "crashed"}
  <2>1. u.actionId = other.id
    BY <1>3, UseFields
  <2>2. Claimed(other)
    BY <2>1 DEF Claimed
  <2> QED BY <1>1, <1>3, <2>2
<1>4. UsesInv'
  BY <1>3 DEF IInv, UsesInv
<1>5. TypeOK'
  <2>1. \A u \in uses : \E other \in Requests :
          u.actionId = other.id /\ phase'[other] \in {"permitted", "decided", "crashed"}
    BY <1>3, UseFields DEF IInv, UsesInv
  <2> QED BY <1>1, <2>1, Unreviewed DEF IInv, TypeOK, UsesUnder
<1>6. WorkersInv'
  BY <1>1, <1>2 DEF IInv, WorkersInv
<1>7. UNCHANGED actions => ActionsInv'
  BY <1>1, <1>2 DEF IInv, ActionsInv
<1> QED BY <1>4, <1>5, <1>6, <1>7, Unreviewed DEF IInv

\* Only a worker past its claim has claimed.
LEMMA ClaimedPast ==
  ASSUME IInv, NEW req \in Requests, Claimed(req)
  PROVE  phase[req] \in {"permitted", "decided", "crashed"} /\ Counted(req.grant)
<1>1. PICK u \in uses : u.actionId = req.id
  BY DEF Claimed
<1>2. PICK other \in Requests :
        /\ u = Use(other, u.index, u.time)
        /\ phase[other] \in {"permitted", "decided", "crashed"}
        /\ Counted(other.grant)
  BY DEF IInv, UsesInv
<1>3. other = req
  BY <1>1, <1>2, UseFields, RequestFacts
<1> QED BY <1>2, <1>3

\* A request in scope goes on to its number, or straight to its decision when
\* its grant is not counted.
LEMMA EvaluateInv ==
  ASSUME IInv, NEW req \in Requests, Evaluate(req)
  PROVE  IInv'
<1> DEFINE p == IF InScope(req.grant, ActionItem(req, "ALLOWED", now))
                   /\ InGrantWindow(req.grant, now)
                THEN IF Counted(req.grant) THEN "numbering" ELSE "permitted"
                ELSE "refused"
<1>1. Running /\ phase[req] = "new" /\ Moves(req, p)
      /\ UNCHANGED <<now, next, uses, actions, review, answer>>
  BY DEF Evaluate
<1>2. ~Claimed(req)
  BY <1>1, ClaimedPast
<1>3. p \in {"numbering", "permitted"} => Permitted(req)
  BY ScopeOf
<1>4. p \in Phases /\ p # "claiming"
  BY DEF Phases
<1>5. (p = "numbering" => Counted(req.grant)) /\ (p = "permitted" => ~Counted(req.grant))
  OBVIOUS
<1>6. next' \in [Requests -> Nat]
  BY <1>1 DEF IInv, TypeOK
<1> HIDE DEF p
<1> QED BY <1>1, <1>2, <1>3, <1>4, <1>5, <1>6, MoveInv

\* The number of uses under a key is a natural number.
LEMMA CountOf ==
  ASSUME IInv, NEW key
  PROVE  IsFiniteSet(UsesUnder(key)) /\ Cardinality(UsesUnder(key)) \in Nat
<1>1. UsesUnder(key) \in SUBSET uses
  BY DEF UsesUnder
<1>2. IsFiniteSet(UsesUnder(key))
  BY <1>1, FS_Subset DEF IInv, UsesInv
<1> QED BY <1>2, FS_CardinalityType

\* The number read is one more than the uses there are, within the limit.
LEMMA ReadIndexInv ==
  ASSUME IInv, NEW req \in Requests, ReadIndex(req)
  PROVE  IInv'
<1> DEFINE n == Cardinality(UsesUnder(KeyOf(req))) + 1
<1>1. /\ Running /\ phase[req] = "numbering"
      /\ UNCHANGED <<now, uses, actions, review, answer>>
      /\ IF n > req.grant.maxUses
         THEN Moves(req, "refused") /\ UNCHANGED next
         ELSE Moves(req, "claiming") /\ next' = [next EXCEPT ![req] = n]
  BY DEF ReadIndex, UsesUnder
<1>2. Counted(req.grant) /\ Permitted(req) /\ ~Claimed(req)
  BY <1>1, ClaimedPast DEF IInv, WorkersInv
<1>3. Cardinality(UsesUnder(KeyOf(req))) \in Nat /\ req.grant.maxUses \in Nat
  BY <1>2, CountOf, RequestFacts
<1>4. CASE n > req.grant.maxUses
  BY <1>1, <1>2, <1>4, MoveInv DEF Phases, IInv, TypeOK
<1>5. CASE ~(n > req.grant.maxUses)
  <2>1. n \in Nat /\ n \in 1..n /\ n =< req.grant.maxUses
    BY <1>3, <1>5
  <2>2. next' = [next EXCEPT ![req] = n] /\ Moves(req, "claiming")
    BY <1>1, <1>5
  <2>3. /\ next' \in [Requests -> Nat]
        /\ next'[req] = n /\ \A other \in Requests : other # req => next'[other] = next[other]
    BY <2>1, <2>2 DEF IInv, TypeOK
  <2>4. next'[req] \in 1..(Cardinality(UsesUnder(KeyOf(req))) + 1)
    BY <2>1, <2>3
  <2> HIDE DEF n
  <2> QED BY <1>1, <1>2, <2>1, <2>2, <2>3, <2>4, MoveInv DEF Phases
<1> QED BY <1>4, <1>5

\* The number read before the claim is the next one, or it is taken: no other
\* number was ever free.
LEMMA NextNumber ==
  ASSUME IInv, NEW req \in Requests, phase[req] = "claiming",
         <<KeyOf(req), next[req]>> \notin {Claim(u) : u \in uses}
  PROVE  /\ next[req] = Cardinality(UsesUnder(KeyOf(req))) + 1
         /\ next[req] \in 1..req.grant.maxUses
<1> DEFINE held == UsesUnder(KeyOf(req))
<1>1. Cardinality(held) \in Nat
  BY CountOf
<1>2. {u.index : u \in held} = 1..Cardinality(held)
  BY DEF IInv, TypeOK
<1>3. /\ next[req] \in 1..(Cardinality(held) + 1) /\ next[req] =< req.grant.maxUses
      /\ req.grant.maxUses \in Nat
  BY RequestFacts DEF IInv, WorkersInv
<1>4. next[req] \notin {u.index : u \in held}
  <2>1. ASSUME NEW u \in held
        PROVE  u.index # next[req]
    BY <2>1 DEF UsesUnder, Claim
  <2> QED BY <2>1
<1> HIDE DEF held
<1>5. next[req] = Cardinality(held) + 1
  BY <1>1, <1>2, <1>3, <1>4
<1> QED BY <1>1, <1>3, <1>5 DEF held

\* One more use under a key, numbered next.
LEMMA OneMore ==
  ASSUME IInv, NEW v, uses' = uses \cup {v}, v \notin uses, NEW key
  PROVE  /\ UsesUnder(key)' = IF v.consumptionKey = key THEN UsesUnder(key) \cup {v}
                              ELSE UsesUnder(key)
         /\ Cardinality(UsesUnder(key)') = IF v.consumptionKey = key
                                           THEN Cardinality(UsesUnder(key)) + 1
                                           ELSE Cardinality(UsesUnder(key))
<1>1. UsesUnder(key)' = IF v.consumptionKey = key THEN UsesUnder(key) \cup {v}
                        ELSE UsesUnder(key)
  BY DEF UsesUnder
<1>2. v \notin UsesUnder(key)
  BY DEF UsesUnder
<1>3. IsFiniteSet(UsesUnder(key))
  BY CountOf
<1>4. Cardinality(UsesUnder(key) \cup {v}) = Cardinality(UsesUnder(key)) + 1
  BY <1>2, <1>3, FS_AddElement
<1> QED BY <1>1, <1>4

\* The atomic insert: a claim that lost its race changes no record, one that
\* won takes the next number and is its worker's only one.
LEMMA ClaimUseInv ==
  ASSUME IInv, NEW req \in Requests, ClaimUse(req)
  PROVE  IInv'
<1>1. /\ Running /\ phase[req] = "claiming"
      /\ UNCHANGED <<now, next, actions, review, answer>>
      /\ next' \in [Requests -> Nat]
  BY DEF ClaimUse, IInv, TypeOK
<1>2. Counted(req.grant) /\ Permitted(req) /\ ~Claimed(req)
  BY <1>1, ClaimedPast DEF IInv, WorkersInv
<1>3. CASE <<KeyOf(req), next[req]>> \in {Claim(u) : u \in uses}
  <2>1. Moves(req, "numbering") /\ UNCHANGED uses
    BY <1>3 DEF ClaimUse
  <2> QED BY <1>1, <1>2, <2>1, MoveInv DEF Phases
<1>4. CASE /\ <<KeyOf(req), next[req]>> \notin {Claim(u) : u \in uses}
           /\ ~InGrantWindow(req.grant, now)
  <2>1. Moves(req, "refused") /\ UNCHANGED uses
    BY <1>4 DEF ClaimUse
  <2> QED BY <1>1, <1>2, <2>1, MoveInv DEF Phases
<1>5. CASE /\ <<KeyOf(req), next[req]>> \notin {Claim(u) : u \in uses}
           /\ InGrantWindow(req.grant, now)
  <2> DEFINE v == Use(req, next[req], now)
  <2>1. uses' = uses \cup {v} /\ Moves(req, "permitted")
    BY <1>5 DEF ClaimUse
  <2>2. /\ phase' \in [Requests -> Phases]
        /\ phase'[req] = "permitted"
        /\ \A other \in Requests : other # req => phase'[other] = phase[other]
    BY <2>1, Moving DEF Phases
  <2>3. v.actionId = req.id /\ v.consumptionKey = KeyOf(req) /\ v.index = next[req] /\ v.time = now
    BY UseFields
  <2>4. v \notin uses
    BY <1>2, <2>3 DEF Claimed
  <2>5. /\ next[req] = Cardinality(UsesUnder(KeyOf(req))) + 1
        /\ next[req] \in 1..req.grant.maxUses
    BY <1>1, <1>5, NextNumber
  <2>6. Claim(v) = <<KeyOf(req), next[req]>>
    BY <2>3 DEF Claim
  <2>7. v = Use(req, v.index, v.time)
    BY <2>3
  <2> HIDE DEF v
  <2>8. \A other \in Requests : other # req => (Claimed(other)' <=> Claimed(other))
    BY <2>1, <2>3, RequestFacts DEF Claimed
  <2>9. Claimed(req)'
    BY <2>1, <2>3 DEF Claimed
  <2>10. UsesInv'
    <3>1. IsFiniteSet(uses')
      BY <2>1, FS_AddElement DEF IInv, UsesInv
    <3>2. \E r \in Requests :
            /\ v = Use(r, v.index, v.time)
            /\ phase'[r] \in {"permitted", "decided", "crashed"}
            /\ Counted(r.grant) /\ v.index \in 1..r.grant.maxUses
            /\ InGrantWindow(r.grant, v.time)
      BY <1>2, <1>5, <2>2, <2>3, <2>5, <2>7
    <3>3. ASSUME NEW u \in uses
          PROVE  \E r \in Requests :
                   /\ u = Use(r, u.index, u.time)
                   /\ phase'[r] \in {"permitted", "decided", "crashed"}
                   /\ Counted(r.grant) /\ u.index \in 1..r.grant.maxUses
                   /\ InGrantWindow(r.grant, u.time)
      <4>1. PICK r \in Requests :
              /\ u = Use(r, u.index, u.time)
              /\ phase[r] \in {"permitted", "decided", "crashed"}
              /\ Counted(r.grant) /\ u.index \in 1..r.grant.maxUses
              /\ InGrantWindow(r.grant, u.time)
        BY DEF IInv, UsesInv
      <4>2. r # req
        BY <1>1, <4>1
      <4> QED BY <2>2, <4>1, <4>2
    <3>4. \A u \in uses : u.actionId # v.actionId /\ Claim(u) # Claim(v)
      BY <1>2, <1>5, <2>3, <2>6 DEF Claimed
    <3>5. \A u, w \in uses' : u.actionId = w.actionId \/ Claim(u) = Claim(w) => u = w
      BY <2>1, <3>4 DEF IInv, UsesInv
    <3> QED BY <2>1, <3>1, <3>2, <3>3, <3>5 DEF UsesInv
  <2>11. ASSUME NEW other \in Requests
         PROVE  /\ phase'[other] \in {"numbering", "claiming"} => Counted(other.grant)
                /\ phase'[other] \in {"numbering", "claiming", "permitted"} => Permitted(other)
                /\ phase'[other] = "claiming" =>
                     next'[other] \in 1..(Cardinality(UsesUnder(KeyOf(other))') + 1)
                     /\ next'[other] =< other.grant.maxUses
                /\ phase'[other] = "permitted" /\ Counted(other.grant) => Claimed(other)'
    <3>1. CASE other = req
      BY <1>2, <2>2, <2>9, <3>1
    <3>2. CASE other # req
      <4>1. /\ Cardinality(UsesUnder(KeyOf(other))) \in Nat
            /\ \/ Cardinality(UsesUnder(KeyOf(other))') = Cardinality(UsesUnder(KeyOf(other)))
               \/ Cardinality(UsesUnder(KeyOf(other))') = Cardinality(UsesUnder(KeyOf(other))) + 1
        BY <2>1, <2>4, OneMore, CountOf
      <4>2. phase[other] = "claiming" =>
              next[other] \in 1..(Cardinality(UsesUnder(KeyOf(other)))' + 1)
        BY <4>1 DEF IInv, WorkersInv
      <4> QED BY <1>1, <2>2, <2>8, <3>2, <4>2 DEF IInv, WorkersInv
    <3> QED BY <3>1, <3>2
  <2>12. WorkersInv'
    BY <2>11 DEF WorkersInv
  <2>13. TypeOK'
    <3>1. ASSUME NEW key
          PROVE  {u.index : u \in UsesUnder(key)} = 1..Cardinality(UsesUnder(key))
                   => {u.index : u \in UsesUnder(key)'} = 1..Cardinality(UsesUnder(key)')
      <4>1. CASE key = KeyOf(req)
        <5>1. /\ UsesUnder(key)' = UsesUnder(key) \cup {v}
              /\ Cardinality(UsesUnder(key)') = Cardinality(UsesUnder(key)) + 1
          BY <2>1, <2>3, <2>4, <4>1, OneMore
        <5>2. {u.index : u \in UsesUnder(key)'} = {u.index : u \in UsesUnder(key)} \cup {next[req]}
          BY <2>3, <5>1
        <5>3. Cardinality(UsesUnder(key)) \in Nat
          BY CountOf
        <5>4. ASSUME NEW n \in Nat
              PROVE  1..(n + 1) = (1..n) \cup {n + 1}
          OBVIOUS
        <5> QED BY <2>5, <4>1, <5>1, <5>2, <5>3, <5>4
      <4>2. CASE key # KeyOf(req)
        BY <2>1, <2>3, <2>4, <4>2, OneMore
      <4> QED BY <4>1, <4>2
    <3>2. \A u \in uses' : \E r \in Requests :
            u.actionId = r.id /\ phase'[r] \in {"permitted", "decided", "crashed"}
      BY <2>10, UseFields DEF UsesInv
    <3> QED BY <1>1, <2>2, <3>1, <3>2, Unreviewed DEF IInv, TypeOK
  <2>14. ActionsInv'
    BY <1>1, <2>2, <2>8, <2>9 DEF IInv, ActionsInv
  <2> QED BY <1>1, <2>10, <2>12, <2>13, <2>14, Unreviewed DEF IInv
<1> QED BY <1>3, <1>4, <1>5

\* A worker that dies leaves its claim behind, and decides nothing.
LEMMA CrashInv ==
  ASSUME IInv, NEW req \in Requests, Crash(req)
  PROVE  IInv'
BY MoveInv DEF Crash, Phases, IInv, TypeOK

\* The decision of a request matches what its worker claimed, and no other
\* decision is the request's.
LEMMA SignInv ==
  ASSUME IInv, NEW req \in Requests, Sign(req)
  PROVE  IInv'
<1> DEFINE allowed == phase[req] = "permitted"
                      /\ (Counted(req.grant) \/ InGrantWindow(req.grant, now))
           b == ActionItem(req, IF allowed THEN "ALLOWED" ELSE "BLOCKED", now)
<1>1. /\ Running /\ phase[req] \in {"permitted", "refused"}
      /\ UNCHANGED <<now, next, uses, review, answer>>
      /\ actions' = actions \cup {b}
      /\ Moves(req, "decided")
  BY DEF Sign
<1>2. TypeOK' /\ WorkersInv' /\ UsesInv' /\ ReviewInv'
  BY <1>1, MoveInv DEF Phases, IInv, TypeOK
<1>3. /\ phase'[req] = "decided"
      /\ \A other \in Requests : other # req => phase'[other] = phase[other]
  BY <1>1, Moving DEF Phases
<1>4. \A other : Claimed(other)' = Claimed(other)
  BY <1>1 DEF Claimed
<1>5. /\ b.record.id = req.id /\ b.record.time = now
      /\ b = ActionItem(req, IF allowed THEN "ALLOWED" ELSE "BLOCKED", b.record.time)
  BY ActionFields
<1>6. /\ allowed => Permitted(req)
      /\ allowed /\ Counted(req.grant) => Claimed(req)
      /\ allowed /\ ~Counted(req.grant) => InGrantWindow(req.grant, b.record.time)
      /\ ~allowed => ~Claimed(req)
  <2>1. ~allowed => ~Claimed(req)
    BY <1>1, ClaimedPast
  <2> QED BY <1>5, <2>1 DEF IInv, WorkersInv
<1> HIDE DEF allowed, b
<1>7. \E r \in Requests :
        /\ phase'[r] = "decided"
        /\ \/ /\ b = ActionItem(r, "ALLOWED", b.record.time)
              /\ Permitted(r)
              /\ Counted(r.grant) => Claimed(r)
              /\ ~Counted(r.grant) => InGrantWindow(r.grant, b.record.time)
           \/ b = ActionItem(r, "BLOCKED", b.record.time) /\ ~Claimed(r)
  BY <1>3, <1>5, <1>6
<1>8. ASSUME NEW a \in actions
      PROVE  /\ a.record.id # b.record.id
             /\ \E r \in Requests :
                  /\ phase'[r] = "decided"
                  /\ \/ /\ a = ActionItem(r, "ALLOWED", a.record.time)
                        /\ Permitted(r)
                        /\ Counted(r.grant) => Claimed(r)
                        /\ ~Counted(r.grant) => InGrantWindow(r.grant, a.record.time)
                     \/ a = ActionItem(r, "BLOCKED", a.record.time) /\ ~Claimed(r)
  <2>1. PICK r \in Requests :
          /\ phase[r] = "decided"
          /\ \/ /\ a = ActionItem(r, "ALLOWED", a.record.time)
                /\ Permitted(r)
                /\ Counted(r.grant) => Claimed(r)
                /\ ~Counted(r.grant) => InGrantWindow(r.grant, a.record.time)
             \/ a = ActionItem(r, "BLOCKED", a.record.time) /\ ~Claimed(r)
    BY DEF IInv, ActionsInv
  <2>2. r # req
    BY <1>1, <2>1
  <2>3. a.record.id = r.id
    BY <2>1, ActionFields
  <2> QED BY <1>3, <1>5, <2>1, <2>2, <2>3, RequestFacts
<1>9. ActionsInv'
  <2>1. IsFiniteSet(actions')
    BY <1>1, FS_AddElement DEF IInv, ActionsInv
  <2>2. \A a, d \in actions' : a.record.id = d.record.id => a = d
    BY <1>1, <1>8 DEF IInv, ActionsInv
  <2> QED BY <1>1, <1>4, <1>7, <1>8, <2>1, <2>2 DEF ActionsInv
<1> QED BY <1>2, <1>9 DEF IInv

\* The relying party answers the operator's selection.
LEMMA PresentInv ==
  ASSUME IInv, NEW someUses \in SUBSET uses, NEW someActions \in SUBSET actions,
         Present(someUses, someActions)
  PROVE  IInv'
<1> USE DEF Present
<1>1. answer' \in Verifier!Verdicts
  BY DEF Verifier!Answer, Verifier!Verdicts
<1>2. TypeOK'
  BY <1>1 DEF IInv, TypeOK, UsesUnder
<1>3. WorkersInv' /\ UsesInv' /\ ActionsInv'
  BY DEF IInv, WorkersInv, UsesInv, ActionsInv, UsesUnder, Claimed
<1>4. ReviewInv'
  BY DEF ReviewInv, Grants
<1> QED BY <1>2, <1>3, <1>4 DEF IInv

\* Every step of any worker, the clock or the operator keeps the invariant.
LEMMA NextInv ==
  ASSUME IInv, [Next]_vars
  PROVE  IInv'
<1>1. CASE UNCHANGED vars
  BY <1>1 DEF vars, IInv, TypeOK, WorkersInv, UsesInv, ActionsInv, ReviewInv, UsesUnder, Claimed
<1>2. CASE Next
  BY <1>2, TickInv, EvaluateInv, ReadIndexInv, ClaimUseInv, SignInv, CrashInv, PresentInv
  DEF Next, Step
<1> QED BY <1>1, <1>2

\* What ties each USE and each decision to its worker holds throughout.
THEOREM Invariant == Spec => []IInv
BY InitInv, NextInv, PTL DEF Spec

-----------------------------------------------------------------------------
(* What follows *)

\* The uses of a grant's count are numbered from 1 without a gap however many
\* workers race, crash and retry, and only a worker past its claim has one.
THEOREM TypeCorrect == Spec => []TypeOK
<1>1. IInv => TypeOK
  BY DEF IInv
<1> QED BY <1>1, Invariant, PTL

\* A grant for n uses has n numbers to give.
LEMMA NumbersOf ==
  ASSUME NEW n \in Nat
  PROVE  IsFiniteSet(1..n) /\ Cardinality(1..n) = n
<1>1. IsFiniteSet(1..n) /\ Cardinality(1..n) = IF 1 > n THEN 0 ELSE n - 1 + 1
  BY FS_Interval
<1> QED BY <1>1

\* What the invariant says of one USE.
LEMMA UseOrigin ==
  ASSUME IInv, NEW u \in uses
  PROVE  \E req \in Requests :
           /\ u = Use(req, u.index, u.time)
           /\ u.actionId = req.id /\ Claimed(req)
           /\ u.maxUses = req.grant.maxUses /\ u.maxUses \in Nat
           /\ u.index \in 1..u.maxUses
           /\ InGrantWindow(req.grant, u.time)
<1>1. PICK req \in Requests :
        /\ u = Use(req, u.index, u.time)
        /\ Counted(req.grant) /\ u.index \in 1..req.grant.maxUses
        /\ InGrantWindow(req.grant, u.time)
  BY DEF IInv, UsesInv
<1>2. u.maxUses = req.grant.maxUses /\ u.actionId = req.id
  BY <1>1, UseFields
<1>3. Claimed(req)
  BY <1>2 DEF Claimed
<1> QED BY <1>1, <1>2, <1>3, RequestFacts

\* Whatever the interleaving, no grant is spent more often than its approver
\* allowed: the index is an injection from the uses charged to its count into
\* the numbers it gives.
THEOREM LimitSound == Spec => []LimitKept
<1>1. ASSUME IInv, NEW g \in CountedGrants
      PROVE  Cardinality({u \in UsesUnder(ConsumptionKey(g, g.org)) : u.maxUses =< g.maxUses})
               =< g.maxUses
  <2> DEFINE charged == {u \in UsesUnder(ConsumptionKey(g, g.org)) : u.maxUses =< g.maxUses}
             number == [u \in charged |-> u.index]
  <2>1. g.maxUses \in Nat
    BY RequestFacts DEF CountedGrants
  <2>2. ASSUME NEW u \in charged
        PROVE  /\ u \in uses /\ u.consumptionKey = ConsumptionKey(g, g.org)
               /\ u.index \in 1..g.maxUses
    <3>1. u \in uses /\ u.consumptionKey = ConsumptionKey(g, g.org) /\ u.maxUses =< g.maxUses
      BY DEF UsesUnder
    <3>2. u.maxUses \in Nat /\ u.index \in 1..u.maxUses
      BY <1>1, <3>1, UseOrigin
    <3> QED BY <2>1, <3>1, <3>2
  <2>3. ASSUME NEW u \in charged, NEW v \in charged, number[u] = number[v]
        PROVE  u = v
    <3>1. Claim(u) = Claim(v)
      BY <2>2, <2>3 DEF Claim
    <3> QED BY <1>1, <2>2, <3>1 DEF IInv, UsesInv
  <2>4. number \in Injection(charged, 1..g.maxUses)
    <3>1. number \in [charged -> 1..g.maxUses]
      BY <2>2
    <3>2. IsInjective(number)
      BY <2>3 DEF IsInjective
    <3> QED BY <3>1, <3>2 DEF Injection
  <2>5. IsFiniteSet(1..g.maxUses) /\ Cardinality(1..g.maxUses) = g.maxUses
    BY <2>1, NumbersOf
  <2> HIDE DEF number, charged
  <2>6. Cardinality(charged) =< Cardinality(1..g.maxUses)
    BY <2>4, <2>5, FS_Injection
  <2> QED BY <2>5, <2>6 DEF charged
<1>2. IInv => LimitKept
  BY <1>1 DEF LimitKept
<1> QED BY <1>2, Invariant, PTL

-----------------------------------------------------------------------------
(* The bundle the operator presents *)

\* A finite set presented as an array: each element once, and nothing else.
LEMMA ArrayFacts ==
  ASSUME NEW S, IsFiniteSet(S)
  PROVE  LET f == ArrayOf(S) IN
         /\ DOMAIN f = 1..Cardinality(S) /\ Cardinality(S) \in Nat
         /\ \A k \in DOMAIN f : f[k] \in S
         /\ \A x \in S : \E k \in DOMAIN f : f[k] = x
         /\ \A j, k \in DOMAIN f : f[j] = f[k] => j = k
<1> DEFINE n == Cardinality(S)
           f == ArrayOf(S)
<1>1. n \in Nat /\ ExistsBijection(1..n, S)
  BY FS_CardinalityType
<1>2. PICK b \in Bijection(1..n, S) : TRUE
  BY <1>1 DEF ExistsBijection
<1>3. b \in [1..n -> S] /\ \A j, k \in DOMAIN b : j # k => b[j] # b[k]
  BY <1>2 DEF Bijection, Injection, IsInjective
<1>4. f \in [1..n -> S] /\ \A j, k \in DOMAIN f : j # k => f[j] # f[k]
  BY <1>3, ZenonT(60) DEF ArrayOf
<1> HIDE DEF f
<1>5. f \in Injection(1..n, S)
  BY <1>4 DEF Injection, IsInjective
<1>6. Cardinality(1..n) = n
  BY <1>1, NumbersOf
<1> HIDE DEF n
<1>7. f \in Surjection(1..n, S)
  BY <1>5, <1>6, FS_Injection DEF n
<1>8. \A x \in S : \E k \in 1..n : f[k] = x
  BY <1>7 DEF Surjection
<1> QED BY <1>1, <1>4, <1>8 DEF n, f

\* The empty array is the empty sequence.
LEMMA EmptyArray ==
  ASSUME NEW S, IsFiniteSet(S)
  PROVE  ArrayOf(S) = <<>> <=> S = {}
<1>1. DOMAIN ArrayOf(S) = 1..Cardinality(S) /\ Cardinality(S) \in Nat
  BY ArrayFacts
<1>2. ASSUME S = {}
      PROVE  ArrayOf(S) = <<>>
  <2>1. DOMAIN ArrayOf(S) = {}
    BY <1>1, <1>2, FS_EmptySet
  <2>2. ArrayOf(S) = [k \in {} |-> ArrayOf(S)[k]]
    BY <2>1, ArrayFacts, <1>2 DEF ArrayOf
  <2> QED BY <2>2
<1>3. ASSUME ArrayOf(S) = <<>>
      PROVE  S = {}
  BY <1>3, ArrayFacts
<1> QED BY <1>2, <1>3

\* There are finitely many grants, and each is told apart by its hash.
LEMMA GrantFacts ==
  /\ IsFiniteSet(Grants)
  /\ \A g, h \in Grants : GrantHash(g) = GrantHash(h) => g = h
<1> DEFINE f == [req \in Requests |-> req.grant]
<1>1. f \in Surjection(Requests, Grants)
  BY DEF Surjection, Grants
<1>2. IsFiniteSet(Grants)
  BY <1>1, FS_Surjection, RequestAssumption
<1>3. \A g \in Grants : Unsigned(g) = g
  BY RequestFacts DEF Grants
<1> QED BY <1>2, <1>3 DEF GrantHash, Hash

\* What a selection of the records looks like to the relying party.
LEMMA BundleFacts ==
  ASSUME IInv, NEW someUses \in SUBSET uses, NEW someActions \in SUBSET actions,
         NEW c, c = Bundle(Grants, someUses, someActions)
  PROVE  /\ c.pinned = Issuer /\ ~InputsRefuted(c) /\ c.approverKeys = Approvers
         /\ c.grants = ArrayOf(Grants) /\ c.uses = ArrayOf(someUses)
         /\ c.actions = ArrayOf(someActions)
         /\ Disclosed(c.uses) = someUses /\ Disclosed(c.actions) = someActions
         /\ IsFiniteSet(someUses) /\ IsFiniteSet(someActions)
<1>1. /\ c.pinned = Issuer /\ ~InputsRefuted(c) /\ c.approverKeys = Approvers
      /\ c.grants = ArrayOf(Grants) /\ c.uses = ArrayOf(someUses)
      /\ c.actions = ArrayOf(someActions)
  BY BoundaryAssumption DEF Bundle, InputsRefuted
<1>2. IsFiniteSet(someUses) /\ IsFiniteSet(someActions)
  BY FS_Subset DEF IInv, UsesInv, ActionsInv
<1>3. Disclosed(c.uses) = someUses /\ Disclosed(c.actions) = someActions
  BY <1>1, <1>2, ArrayFacts DEF Disclosed
<1> QED BY <1>1, <1>2, <1>3

\* The verifier's two lookups: every grant of the requests by its hash, and every
\* disclosed decision by its id.
Lookups(c, someActions) ==
  /\ \A g \in Grants : GrantHash(g) \in DOMAIN ByHash(c) /\ ByHash(c)[GrantHash(g)] = g
  /\ \A id : id \in DOMAIN ByAction(c) <=> \E a \in someActions : a.record.id = id
  /\ \A a \in someActions : ByAction(c)[a.record.id] = a

\* They find nothing else, however the operator selects.
LEMMA BundleLookups ==
  ASSUME IInv, NEW someUses \in SUBSET uses, NEW someActions \in SUBSET actions,
         NEW c, c = Bundle(Grants, someUses, someActions)
  PROVE  Lookups(c, someActions)
<1>1. ASSUME NEW g \in Grants
      PROVE  GrantHash(g) \in DOMAIN ByHash(c) /\ ByHash(c)[GrantHash(g)] = g
  <2> DEFINE first == CHOOSE n \in DOMAIN c.grants : GrantHash(c.grants[n]) = GrantHash(g)
  <2>0. /\ \A k \in DOMAIN c.grants : c.grants[k] \in Grants
        /\ \A h \in Grants : \E k \in DOMAIN c.grants : c.grants[k] = h
    <3>1. c.grants = ArrayOf(Grants)
      BY BundleFacts
    <3>2. IsFiniteSet(Grants)
      BY GrantFacts
    <3> QED BY <3>1, <3>2, ArrayFacts
  <2>1. PICK k \in DOMAIN c.grants : c.grants[k] = g
    BY <2>0
  <2>2. first \in DOMAIN c.grants /\ GrantHash(c.grants[first]) = GrantHash(g)
    BY <2>1
  <2>3. c.grants[first] = g
    BY <2>0, <2>2, GrantFacts
  <2>4. GrantHash(g) \in DOMAIN ByHash(c) /\ ByHash(c)[GrantHash(g)] = c.grants[first]
    BY <2>1 DEF ByHash
  <2> QED BY <2>3, <2>4
<1>2. ASSUME NEW id
      PROVE  id \in DOMAIN ByAction(c) <=> \E a \in someActions : a.record.id = id
  <2>1. id \in DOMAIN ByAction(c) <=> \E k \in DOMAIN c.actions : c.actions[k].record.id = id
    BY DEF ByAction
  <2> QED BY <2>1, BundleFacts, SMTT(30) DEF Disclosed
<1>3. ASSUME NEW a \in someActions
      PROVE  ByAction(c)[a.record.id] = a
  <2> DEFINE id == a.record.id
             first == CHOOSE n \in DOMAIN c.actions : c.actions[n].record.id = id
  <2>1. \E k \in DOMAIN c.actions : c.actions[k].record.id = id
    BY BundleFacts DEF Disclosed
  <2>2. first \in DOMAIN c.actions /\ c.actions[first].record.id = id
    BY <2>1
  <2>3. c.actions[first] \in someActions
    <3>1. c.actions[first] \in Disclosed(c.actions)
      BY <2>2 DEF Disclosed
    <3> QED BY <3>1, BundleFacts
  <2>4. c.actions[first] = a
    BY <2>2, <2>3 DEF IInv, ActionsInv
  <2>5. ByAction(c)[id] = c.actions[first]
    BY <2>1 DEF ByAction
  <2> QED BY <2>4, <2>5
<1> QED BY <1>1, <1>2, <1>3 DEF Lookups

\* What the invariant says of one decision.
LEMMA ActionOrigin ==
  ASSUME IInv, NEW a \in actions
  PROVE  \E req \in Requests :
           /\ a.record.id = req.id /\ a.record.org = req.grant.org
           /\ a.args = ArgumentsOf(req) /\ a.record.args = Hash(ArgumentsOf(req))
           /\ a.args.grantId = req.grant.id /\ a.args.grantHash = GrantHash(req.grant)
           /\ \A c : c.pinned = Issuer => ActionOk(c, a)
           /\ \/ /\ a.record.outcome = "ALLOWED" /\ InScope(req.grant, a)
                 /\ Counted(req.grant) => Claimed(req)
                 /\ ~Counted(req.grant) => InGrantWindow(req.grant, a.record.time)
              \/ a.record.outcome = "BLOCKED" /\ ~Claimed(req)
<1>1. PICK req \in Requests :
        \/ /\ a = ActionItem(req, "ALLOWED", a.record.time)
           /\ Permitted(req)
           /\ Counted(req.grant) => Claimed(req)
           /\ ~Counted(req.grant) => InGrantWindow(req.grant, a.record.time)
        \/ a = ActionItem(req, "BLOCKED", a.record.time) /\ ~Claimed(req)
  BY DEF IInv, ActionsInv
<1>2. PICK outcome \in {"ALLOWED", "BLOCKED"} : a = ActionItem(req, outcome, a.record.time)
  BY <1>1
<1>3. /\ a.record.id = req.id /\ a.record.org = req.grant.org
      /\ a.args = ArgumentsOf(req) /\ a.record.args = Hash(ArgumentsOf(req))
      /\ a.args.grantId = req.grant.id /\ a.args.grantHash = GrantHash(req.grant)
      /\ \A c : c.pinned = Issuer => ActionOk(c, a)
  BY <1>2, ActionFields
<1>4. CASE /\ a = ActionItem(req, "ALLOWED", a.record.time)
           /\ Permitted(req)
           /\ Counted(req.grant) => Claimed(req)
           /\ ~Counted(req.grant) => InGrantWindow(req.grant, a.record.time)
  <2>1. a.record.outcome = "ALLOWED" /\ InScope(req.grant, a)
    BY <1>4, ActionFields, ScopeOf
  <2> QED BY <1>3, <1>4, <2>1
<1>5. CASE a = ActionItem(req, "BLOCKED", a.record.time) /\ ~Claimed(req)
  <2>1. a.record.outcome = "BLOCKED"
    BY <1>5, ActionFields
  <2> QED BY <1>3, <1>5, <2>1
<1> QED BY <1>1, <1>4, <1>5

-----------------------------------------------------------------------------
(* What the relying party is told *)

\* A PASS hides no half of a pair: a USE whose worker died undecided keeps the
\* verdict from PASS when it is shown, and an ALLOWED action under a counted
\* grant keeps it from PASS when its USE is not.
THEOREM PassOmitsSound == Spec => []PassOmitsOnlyPairs
<1>1. ASSUME IInv, answer = "PASS"
      PROVE  \A u \in uses :
               u \in Disclosed(review.uses) <=>
                 \E a \in Disclosed(review.actions) :
                   a.record.id = u.actionId /\ a.record.outcome = "ALLOWED"
  <2>1. PICK someUses \in SUBSET uses, someActions \in SUBSET actions :
          review = Bundle(Grants, someUses, someActions)
    BY <1>1 DEF IInv, ReviewInv
  <2>2. ~Refuted(review) /\ ~Lacking(review)
    BY <1>1 DEF IInv, ReviewInv, Verifier!Answer
  <2>3. Disclosed(review.uses) = someUses /\ Disclosed(review.actions) = someActions
    BY <1>1, <2>1, BundleFacts
  <2>4. Lookups(review, someActions)
    BY <1>1, <2>1, BundleLookups
  <2>5. ASSUME NEW u \in someUses
        PROVE  \E a \in someActions : a.record.id = u.actionId /\ a.record.outcome = "ALLOWED"
    <3>1. PICK k \in DOMAIN review.uses : review.uses[k] = u
      BY <2>3 DEF Disclosed
    <3>2. /\ ~UseLacking(u, ByHash(review), ByAction(review))
          /\ ~UseRefuted(u, ByHash(review), ByAction(review))
      BY <2>2, <3>1 DEF Lacking, Refuted
    <3>3. /\ u.actionId \in DOMAIN ByAction(review)
          /\ ~BindingRefuted(u, ByAction(review)[u.actionId])
      BY <3>2 DEF UseLacking, UseRefuted
    <3>4. PICK a \in someActions : a.record.id = u.actionId
      BY <2>4, <3>3 DEF Lookups
    <3>5. ByAction(review)[u.actionId] = a
      BY <2>4, <3>4 DEF Lookups
    <3> QED BY <3>3, <3>4, <3>5 DEF BindingRefuted
  <2>6. ASSUME NEW u \in uses, NEW a \in someActions,
               a.record.id = u.actionId, a.record.outcome = "ALLOWED"
        PROVE  u \in someUses
    <3>1. PICK k \in DOMAIN review.actions : review.actions[k] = a
      BY <2>3 DEF Disclosed
    <3>2. PICK req \in Requests :
            /\ a.record.id = req.id
            /\ a.args.grantId = req.grant.id /\ a.args.grantHash = GrantHash(req.grant)
      BY <1>1, ActionOrigin
    <3>3. Counted(req.grant)
      <4>1. Claimed(req)
        BY <2>6, <3>2 DEF Claimed
      <4> QED BY <1>1, <4>1, ClaimedPast
    <3>4. References(a)
      BY <3>2, RequestFacts DEF References
    <3>5. req.grant \in Grants
      BY DEF Grants
    <3>6. /\ a.args.grantHash \in DOMAIN ByHash(review)
          /\ ByHash(review)[a.args.grantHash] = req.grant
      BY <2>4, <3>2, <3>5 DEF Lookups
    <3>7. ~UseOfActionLacking(review, a, ByHash(review))
      BY <2>2, <3>1 DEF Lacking
    <3>8. UsesOf(review, a) # {}
      BY <2>6, <3>3, <3>4, <3>6, <3>7 DEF UseOfActionLacking, Granted
    <3>9. PICK m \in DOMAIN review.uses : review.uses[m].actionId = a.record.id
      BY <3>8 DEF UsesOf
    <3>10. review.uses[m] \in someUses
      BY <2>3, <3>9 DEF Disclosed
    <3>11. review.uses[m] = u
      BY <1>1, <2>6, <3>9, <3>10 DEF IInv, UsesInv
    <3> QED BY <3>10, <3>11
  <2> QED BY <2>3, <2>5, <2>6
<1>2. IInv => PassOmitsOnlyPairs
  BY <1>1 DEF PassOmitsOnlyPairs
<1> QED BY <1>2, Invariant, PTL

\* A USE of the boundary contradicts neither the grant it was claimed under nor
\* the decision its worker went on to make.
LEMMA HonestUse ==
  ASSUME IInv, NEW c, c = Bundle(Grants, uses, actions), NEW u \in uses
  PROVE  /\ UseOk(c, u) /\ u.id = u.actionId
         /\ ~UseRefuted(u, ByHash(c), ByAction(c))
         /\ UseLacking(u, ByHash(c), ByAction(c)) <=> ~\E a \in actions : a.record.id = u.actionId
<1>0. Lookups(c, actions)
  BY BundleLookups
<1>1. PICK req \in Requests :
        /\ u = Use(req, u.index, u.time)
        /\ Claimed(req) /\ u.maxUses = req.grant.maxUses /\ u.maxUses \in Nat
        /\ u.index \in 1..u.maxUses
        /\ InGrantWindow(req.grant, u.time)
  BY UseOrigin
<1> DEFINE g == req.grant
<1>2. /\ u.id = req.id /\ u.actionId = req.id
      /\ u.org = g.org /\ u.grantId = g.id
      /\ u.grantHash = GrantHash(g) /\ u.approverKey = g.key
      /\ u.args = Hash(ArgumentsOf(req))
      /\ u.consumptionKey = ConsumptionKey(g, g.org)
      /\ \A d : d.pinned = Issuer /\ u.index >= 1 => UseOk(d, u)
  BY <1>1, UseFields DEF KeyOf
<1>3. u.index >= 1 /\ ~(u.index > u.maxUses)
  BY <1>1
<1>4. UseOk(c, u)
  BY <1>2, <1>3, BundleFacts
<1>5. g \in Grants
  BY DEF Grants
<1>6. u.grantHash \in DOMAIN ByHash(c) /\ ByHash(c)[u.grantHash] = g
  BY <1>2, <1>5, <1>0 DEF Lookups
<1>7. ~ClaimRefuted(u, g)
  <2>1. Counted(g)
    BY <1>1, ClaimedPast
  <2> QED BY <1>1, <1>2, <1>3, <2>1 DEF ClaimRefuted
<1>8. ASSUME u.actionId \in DOMAIN ByAction(c)
      PROVE  ~BindingRefuted(u, ByAction(c)[u.actionId])
  <2>1. PICK a \in actions : a.record.id = u.actionId
    BY <1>8, <1>0 DEF Lookups
  <2>2. ByAction(c)[u.actionId] = a
    BY <2>1, <1>0 DEF Lookups
  <2>3. PICK r \in Requests :
          /\ a.record.id = r.id /\ a.record.org = r.grant.org
          /\ a.record.args = Hash(ArgumentsOf(r)) /\ a.args.grantHash = GrantHash(r.grant)
          /\ a.record.outcome = "ALLOWED" \/ ~Claimed(r)
    BY ActionOrigin
  <2>4. r = req
    BY <1>2, <2>1, <2>3, RequestFacts, ZenonT(60)
  <2>5. a.record.outcome = "ALLOWED"
    BY <1>1, <2>3, <2>4
  <2> QED BY <1>2, <2>2, <2>3, <2>4, <2>5 DEF BindingRefuted
<1>9. ~UseRefuted(u, ByHash(c), ByAction(c))
  BY <1>6, <1>7, <1>8 DEF UseRefuted
<1>10. UseLacking(u, ByHash(c), ByAction(c)) <=> ~\E a \in actions : a.record.id = u.actionId
  BY <1>6, <1>0 DEF UseLacking, Lookups
<1> QED BY <1>2, <1>4, <1>9, <1>10

\* A decision of the boundary contradicts neither its grant nor its arguments,
\* and when everything is disclosed it lacks nothing.
LEMMA HonestAction ==
  ASSUME IInv, NEW c, c = Bundle(Grants, uses, actions), NEW a \in actions
  PROVE  /\ ActionOk(c, a)
         /\ ~ActionRefuted(c, a, ByHash(c))
         /\ ~GrantLacking(a, ByHash(c))
         /\ ~ApproversLacking(c, a, ByHash(c))
         /\ ~UseOfActionLacking(c, a, ByHash(c))
<1>0. Lookups(c, actions)
  BY BundleLookups
<1>1. PICK req \in Requests :
        /\ a.record.id = req.id
        /\ a.args.grantId = req.grant.id /\ a.args.grantHash = GrantHash(req.grant)
        /\ \A d : d.pinned = Issuer => ActionOk(d, a)
        /\ a.record.outcome = "ALLOWED" =>
             /\ InScope(req.grant, a)
             /\ Counted(req.grant) => Claimed(req)
             /\ ~Counted(req.grant) => InGrantWindow(req.grant, a.record.time)
  BY ActionOrigin
<1> DEFINE g == req.grant
<1>2. c.pinned = Issuer /\ c.approverKeys = Approvers /\ Disclosed(c.uses) = uses
  BY BundleFacts
<1>3. g \in Grants
  BY DEF Grants
<1>4. a.args.grantHash \in DOMAIN ByHash(c) /\ ByHash(c)[a.args.grantHash] = g
  BY <1>1, <1>3, <1>0 DEF Lookups
<1>5. /\ a.args.grantId \notin {Absent, NotText} /\ a.args.grantHash \notin {Absent, NotText}
      /\ g.key \in Approvers
  BY <1>1, RequestFacts
<1>6. ~ActionRefuted(c, a, ByHash(c))
  BY <1>1, <1>2, <1>4, <1>5 DEF ActionRefuted, Granted
<1>7. ~GrantLacking(a, ByHash(c)) /\ ~ApproversLacking(c, a, ByHash(c))
  BY <1>2, <1>4, BoundaryAssumption DEF GrantLacking, ApproversLacking
<1>8. ASSUME Granted(a, ByHash(c)), Counted(g)
      PROVE  UsesOf(c, a) # {}
  <2>1. Claimed(req)
    BY <1>1, <1>8 DEF Granted
  <2>2. PICK u \in uses : u.actionId = req.id
    BY <2>1 DEF Claimed
  <2>3. PICK k \in DOMAIN c.uses : c.uses[k] = u
    BY <1>2, <2>2 DEF Disclosed
  <2> QED BY <1>1, <2>2, <2>3 DEF UsesOf
<1>9. ~UseOfActionLacking(c, a, ByHash(c))
  BY <1>4, <1>8 DEF UseOfActionLacking
<1> QED BY <1>1, <1>2, <1>6, <1>7, <1>9

\* No two pieces of what the boundary issued contradict each other.
LEMMA HonestNotRefuted ==
  ASSUME IInv, NEW c, c = Bundle(Grants, uses, actions)
  PROVE  ~Refuted(c)
<1>1. /\ ~InputsRefuted(c)
      /\ c.grants = ArrayOf(Grants) /\ c.uses = ArrayOf(uses) /\ c.actions = ArrayOf(actions)
      /\ IsFiniteSet(uses) /\ IsFiniteSet(actions) /\ IsFiniteSet(Grants)
  BY BundleFacts, GrantFacts
<1>2. ASSUME NEW S, IsFiniteSet(S), NEW f, f = ArrayOf(S), NEW k \in DOMAIN f
      PROVE  /\ f[k] \in S
             /\ \A m \in 1..(k - 1) : f[m] \in S /\ f[m] # f[k]
  <2>1. /\ DOMAIN f = 1..Cardinality(S) /\ Cardinality(S) \in Nat
        /\ \A j \in DOMAIN f : f[j] \in S
        /\ \A j, n \in DOMAIN f : f[j] = f[n] => j = n
    BY <1>2, ArrayFacts
  <2>2. ASSUME NEW m \in 1..(k - 1)
        PROVE  m \in DOMAIN f /\ m # k
    BY <2>1
  <2> QED BY <2>1, <2>2
<1>3. ASSUME NEW k \in DOMAIN c.actions
      PROVE  /\ ~ActionItemRefuted(c, c.actions[k], {c.actions[m].record.id : m \in 1..(k - 1)})
             /\ ~ActionRefuted(c, c.actions[k], ByHash(c))
  <2>1. /\ c.actions[k] \in actions
        /\ \A m \in 1..(k - 1) : c.actions[m] \in actions /\ c.actions[m] # c.actions[k]
    BY <1>1, <1>2
  <2>2. \A m \in 1..(k - 1) : c.actions[m].record.id # c.actions[k].record.id
    BY <2>1 DEF IInv, ActionsInv
  <2>3. ActionOk(c, c.actions[k]) /\ ~ActionRefuted(c, c.actions[k], ByHash(c))
    BY <2>1, HonestAction
  <2> QED BY <2>2, <2>3 DEF ActionItemRefuted
<1>4. ASSUME NEW k \in DOMAIN c.grants
      PROVE  ~GrantRefuted(c.grants[k], {GrantHash(c.grants[m]) : m \in 1..(k - 1)})
  <2>1. /\ c.grants[k] \in Grants
        /\ \A m \in 1..(k - 1) : c.grants[m] \in Grants /\ c.grants[m] # c.grants[k]
    BY <1>1, <1>2
  <2>2. \A m \in 1..(k - 1) : GrantHash(c.grants[m]) # GrantHash(c.grants[k])
    BY <2>1, GrantFacts
  <2>3. c.grants[k].form /\ c.grants[k].signed
    BY <2>1, RequestFacts DEF Grants
  <2> QED BY <2>2, <2>3 DEF GrantRefuted
<1>5. ASSUME NEW k \in DOMAIN c.uses
      PROVE  LET earlier == {c.uses[m] : m \in 1..(k - 1)} IN
             /\ ~UseRecordRefuted(c, c.uses[k], {u.id : u \in earlier})
             /\ ~ConflictRefuted(c.uses[k], {Claim(u) : u \in earlier},
                                 {u.actionId : u \in earlier})
             /\ ~UseRefuted(c.uses[k], ByHash(c), ByAction(c))
  <2> DEFINE earlier == {c.uses[m] : m \in 1..(k - 1)}
  <2>1. /\ c.uses[k] \in uses
        /\ \A u \in earlier : u \in uses /\ u # c.uses[k]
    BY <1>1, <1>2
  <2>2. \A u \in uses : UseOk(c, u) /\ u.id = u.actionId /\ ~UseRefuted(u, ByHash(c), ByAction(c))
    BY HonestUse
  <2>3. \A u \in earlier : /\ u.actionId # c.uses[k].actionId /\ u.id # c.uses[k].id
                           /\ Claim(u) # Claim(c.uses[k])
    BY <2>1, <2>2 DEF IInv, UsesInv
  <2> HIDE DEF earlier
  <2>4. /\ c.uses[k].id \notin {u.id : u \in earlier}
        /\ Claim(c.uses[k]) \notin {Claim(u) : u \in earlier}
        /\ c.uses[k].actionId \notin {u.actionId : u \in earlier}
    BY <2>3
  <2> QED BY <2>1, <2>2, <2>4 DEF UseRecordRefuted, ConflictRefuted, earlier
<1> QED BY <1>1, <1>3, <1>4, <1>5 DEF Refuted

\* Everything disclosed lacks only the decisions of workers that died after
\* their claim.
LEMMA HonestLacking ==
  ASSUME IInv, NEW c, c = Bundle(Grants, uses, actions)
  PROVE  Lacking(c) <=> \/ actions = {}
                        \/ \E u \in uses : ~\E a \in actions : a.record.id = u.actionId
<1>1. /\ c.actions = <<>> <=> actions = {}
      /\ \A a : a \in actions <=> \E k \in DOMAIN c.actions : c.actions[k] = a
      /\ \A u : u \in uses <=> \E k \in DOMAIN c.uses : c.uses[k] = u
  <2>1. /\ c.actions = ArrayOf(actions) /\ IsFiniteSet(actions)
        /\ Disclosed(c.uses) = uses /\ Disclosed(c.actions) = actions
    BY BundleFacts
  <2> QED BY <2>1, EmptyArray DEF Disclosed
<1>2. \A k \in DOMAIN c.uses :
        UseLacking(c.uses[k], ByHash(c), ByAction(c)) <=>
          ~\E a \in actions : a.record.id = c.uses[k].actionId
  BY <1>1, HonestUse
<1>3. \A k \in DOMAIN c.actions :
        /\ ~GrantLacking(c.actions[k], ByHash(c))
        /\ ~ApproversLacking(c, c.actions[k], ByHash(c))
        /\ ~UseOfActionLacking(c, c.actions[k], ByHash(c))
  BY <1>1, HonestAction
<1> QED BY <1>1, <1>2, <1>3 DEF Lacking

\* A boundary that keeps section 5 and an operator who hides nothing are never
\* refuted, and pass exactly when no worker died between its claim and its
\* decision: the crash costs the verdict, never the trust.
THEOREM HonestSound == Spec => []HonestNeverRefuted
<1>1. ASSUME IInv, ~Running, Disclosed(review.uses) = uses, Disclosed(review.actions) = actions
      PROVE  /\ answer # "FAIL"
             /\ answer = "PASS" <=>
                  /\ actions # {}
                  /\ \A u \in uses : \E a \in actions : a.record.id = u.actionId
  <2>1. PICK someUses \in SUBSET uses, someActions \in SUBSET actions :
          review = Bundle(Grants, someUses, someActions)
    BY <1>1 DEF IInv, ReviewInv, Running
  <2>2. Disclosed(review.uses) = someUses /\ Disclosed(review.actions) = someActions
    <3>1. IInv
      BY <1>1
    <3> QED BY <2>1, <3>1, BundleFacts
  <2>3. review = Bundle(Grants, uses, actions)
    <3>1. someUses = uses /\ someActions = actions
      BY <1>1, <2>2
    <3> QED BY <2>1, <3>1
  <2>4. ~Refuted(review)
    BY <1>1, <2>3, HonestNotRefuted
  <2>5. Lacking(review) <=> \/ actions = {}
                            \/ \E u \in uses : ~\E a \in actions : a.record.id = u.actionId
    BY <1>1, <2>3, HonestLacking
  <2>6. answer = Verifier!Answer(review)
    BY <1>1 DEF IInv, ReviewInv, Running
  <2> QED BY <2>4, <2>5, <2>6 DEF Verifier!Answer
<1>2. IInv => HonestNeverRefuted
  BY <1>1 DEF HonestNeverRefuted
<1> QED BY <1>2, Invariant, PTL
=============================================================================
