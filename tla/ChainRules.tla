----------------------------- MODULE ChainRules -----------------------------
(***************************************************************************)
(* What the `chain` profile holds a bundle to: the checks of               *)
(* packages/verify-receipt-py/src/aqta_verify_receipt/chain.py on grants   *)
(* (an approver's signed authorisation), USE records (the boundary's claim *)
(* of one numbered use of a grant) and actions with their arguments.       *)
(*                                                                         *)
(* Abstractions, besides those of Records: a tool pattern is the set of    *)
(* tools it matches; the consumption key, which joins its parts in one     *)
(* string, keeps them apart; an argument object is the grant reference     *)
(* bound into it and a function of its other members, whose values are "", *)
(* "[]" (an empty list or object) or anything else.                        *)
(***************************************************************************)
EXTENDS Records

CONSTANTS
  NoLimit,      \* max_uses is "": the grant is not counted
  NoBound,      \* not_before is ""
  Absent,       \* an argument object does not carry the member
  NotText       \* it carries the member, and not as a string

-----------------------------------------------------------------------------
(* One record at a time *)

GrantHash(g) == Hash(Unsigned(g))

Counted(g) == g.maxUses # NoLimit

\* check_use_record
UseOk(c, u) ==
  /\ u.form
  /\ u.index >= 1
  /\ u.key = c.pinned
  /\ u.signed

\* verify_action_record under the pinned key, and the arguments it commits to
ActionOk(c, a) ==
  /\ a.form
  /\ a.record.form
  /\ a.record.key = c.pinned
  /\ a.record.signed
  /\ a.record.args = Hash(a.args)

-----------------------------------------------------------------------------
(* Scope, window and consumption key *)

\* The members of a resource an argument object really declares.
Declared(fields) ==
  {n \in {"device_id", "resource"} \cap DOMAIN fields : fields[n] # ""}

HasValue(fields, name, value) == name \in DOMAIN fields /\ fields[name] = value

Evident(fields, name) == name \in DOMAIN fields /\ fields[name] \notin {"", "[]"}

\* _scope_reason is None
InScope(g, a) ==
  LET fields == a.args.fields IN
  /\ g.org = a.record.org
  /\ a.record.tool \in g.scopeTools
  /\ g.scopeResource # "" =>
       /\ Declared(fields) # {}
       /\ \A n \in Declared(fields) : fields[n] = g.scopeResource
  /\ g.scopeEnvironment # "" => HasValue(fields, "environment", g.scopeEnvironment)
  /\ \A fixed \in g.scopeArgs : HasValue(fields, fixed[1], fixed[2])
  /\ \A name \in g.requireArgs : Evident(fields, name)

\* Both ends of a grant's window belong to it.
InGrantWindow(g, t) ==
  /\ g.notBefore # NoBound => g.notBefore =< t
  /\ t =< g.notAfter

\* Mutant: a reissued grant is counted against its own id.
MutKeyNamesGrant(g, org) == <<org, "grant", g.id>>

\* Grants of one intent share one count.
ConsumptionKey(g, org) ==
  IF g.intent # "" THEN <<org, "intent", g.intent>> ELSE <<org, "grant", g.id>>

-----------------------------------------------------------------------------
(* What each step refutes, and what it finds lacking.  grants is by_hash,   *)
(* the grants of the bundle by their hash; actions is by_action.            *)

InputsRefuted(c) == c.pinned = NoKey \/ ~c.form

ActionItemRefuted(c, a, seen) ==
  \/ ~ActionOk(c, a)
  \/ a.record.id \in seen

\* check_grant_record: integrity alone, under the grant's own key
GrantRefuted(g, seen) ==
  \/ ~g.form
  \/ ~g.signed
  \/ GrantHash(g) \in seen

UseRecordRefuted(c, u, seen) ==
  \/ ~UseOk(c, u)
  \/ u.id \in seen

Claim(u) == <<u.consumptionKey, u.index>>

\* Mutant: one use can be claimed twice, for two actions.
MutConflictByActionOnly(u, claims, named) == u.actionId \in named

ConflictRefuted(u, claims, named) ==
  \/ Claim(u) \in claims
  \/ u.actionId \in named

Ids(grants) == {grants[h].id : h \in DOMAIN grants}

\* The USE contradicts the grant it names.
ClaimRefuted(u, g) ==
  \/ u.grantId # g.id
  \/ u.org # g.org
  \/ u.approverKey # g.key
  \/ u.maxUses # g.maxUses
  \/ ~Counted(g)
  \/ u.index > g.maxUses
  \/ u.consumptionKey # ConsumptionKey(g, u.org)
  \/ ~InGrantWindow(g, u.time)

\* The USE contradicts the action it names.
BindingRefuted(u, a) ==
  \/ a.record.outcome # "ALLOWED"
  \/ a.record.org # u.org
  \/ a.record.args # u.args
  \/ a.args.grantHash # u.grantHash

\* Mutant: a USE whose action is not in the bundle is a contradiction.
MutOrphanUseRefuted(u, grants, actions) ==
  \/ u.grantHash \notin DOMAIN grants /\ u.grantId \in Ids(grants)
  \/ /\ u.grantHash \in DOMAIN grants
     /\ \/ ClaimRefuted(u, grants[u.grantHash])
        \/ u.actionId \notin DOMAIN actions
        \/ BindingRefuted(u, actions[u.actionId])

UseRefuted(u, grants, actions) ==
  \/ u.grantHash \notin DOMAIN grants /\ u.grantId \in Ids(grants)
  \/ /\ u.grantHash \in DOMAIN grants
     /\ \/ ClaimRefuted(u, grants[u.grantHash])
        \/ u.actionId \in DOMAIN actions /\ BindingRefuted(u, actions[u.actionId])

\* Mutant: a USE may go without its action.
MutOrphanUseIgnored(u, grants, actions) == u.grantHash \notin DOMAIN grants

UseLacking(u, grants, actions) ==
  u.grantHash \notin DOMAIN grants \/ u.actionId \notin DOMAIN actions

References(a) == a.args.grantId # Absent \/ a.args.grantHash # Absent

\* The action rests on a grant of the bundle.
Granted(a, grants) ==
  References(a) /\ a.record.outcome = "ALLOWED" /\ a.args.grantHash \in DOMAIN grants

ActionRefuted(c, a, grants) ==
  References(a) /\
  \/ a.args.grantId \in {Absent, NotText} \/ a.args.grantHash \in {Absent, NotText}
  \/ a.args.grantHash \notin DOMAIN grants /\ a.args.grantId \in Ids(grants)
  \/ a.args.grantHash \in DOMAIN grants /\ a.args.grantId # grants[a.args.grantHash].id
  \/ /\ Granted(a, grants)
     /\ LET g == grants[a.args.grantHash] IN
        \/ ~InScope(g, a)
        \/ c.approverKeys # NoKeySet /\ g.key \notin c.approverKeys
        \/ ~Counted(g) /\ ~InGrantWindow(g, a.record.time)

UsesOf(c, a) == {k \in DOMAIN c.uses : c.uses[k].actionId = a.record.id}

GrantLacking(a, grants) ==
  References(a) /\ a.record.outcome = "ALLOWED" /\ a.args.grantHash \notin DOMAIN grants

ApproversLacking(c, a, grants) == Granted(a, grants) /\ c.approverKeys = NoKeySet

UseOfActionLacking(c, a, grants) ==
  Granted(a, grants) /\ Counted(grants[a.args.grantHash]) /\ UsesOf(c, a) = {}

-----------------------------------------------------------------------------
(* The answer, read off the whole call with no loop and no order *)

ByHash(c) ==
  [h \in {GrantHash(c.grants[k]) : k \in DOMAIN c.grants} |->
     LET k == CHOOSE n \in DOMAIN c.grants : GrantHash(c.grants[n]) = h IN c.grants[k]]

ByAction(c) ==
  [id \in {c.actions[k].record.id : k \in DOMAIN c.actions} |->
     LET k == CHOOSE n \in DOMAIN c.actions : c.actions[n].record.id = id IN c.actions[k]]

Refuted(c) ==
  LET grants == ByHash(c)  actions == ByAction(c) IN
  \/ InputsRefuted(c)
  \/ \E k \in DOMAIN c.actions :
       ActionItemRefuted(c, c.actions[k], {c.actions[m].record.id : m \in 1..(k - 1)})
  \/ \E k \in DOMAIN c.grants :
       GrantRefuted(c.grants[k], {GrantHash(c.grants[m]) : m \in 1..(k - 1)})
  \/ \E k \in DOMAIN c.uses :
       LET earlier == {c.uses[m] : m \in 1..(k - 1)} IN
       \/ UseRecordRefuted(c, c.uses[k], {u.id : u \in earlier})
       \/ ConflictRefuted(c.uses[k], {Claim(u) : u \in earlier}, {u.actionId : u \in earlier})
       \/ UseRefuted(c.uses[k], grants, actions)
  \/ \E k \in DOMAIN c.actions : ActionRefuted(c, c.actions[k], grants)

Lacking(c) ==
  LET grants == ByHash(c)  actions == ByAction(c) IN
  \/ c.actions = <<>>
  \/ \E k \in DOMAIN c.uses : UseLacking(c.uses[k], grants, actions)
  \/ \E k \in DOMAIN c.actions :
       \/ GrantLacking(c.actions[k], grants)
       \/ ApproversLacking(c, c.actions[k], grants)
       \/ UseOfActionLacking(c, c.actions[k], grants)
=============================================================================
