------------------------------- MODULE MCChain -------------------------------
(***************************************************************************)
(* Model checking Chain over the situations of the repository's vectors    *)
(* (test-vectors/chain/generate.py): a single-use grant, its reissue for   *)
(* two uses under the same intent, an unlimited grant, and what an issuer, *)
(* an operator or an agent can change about the records made under them.   *)
(* Comparisons justifies the integers this run has for times and counters. *)
(***************************************************************************)
EXTENDS Chain, Comparisons

CONSTANTS Issuer, Forger, Approver, Agent

Grant(id, intent, max, tools) ==
  [form |-> TRUE, signed |-> TRUE, key |-> Approver, id |-> id, intent |-> intent,
   org |-> "org", maxUses |-> max, notBefore |-> NoBound, notAfter |-> 5,
   scopeTools |-> tools, scopeResource |-> "", scopeEnvironment |-> "",
   scopeArgs |-> {}, requireArgs |-> {}]

ArgsUnder(g, fields) == [grantId |-> g.id, grantHash |-> GrantHash(g), fields |-> fields]

ItemOf(id, outcome, tool, t, args) ==
  [form |-> TRUE, args |-> args,
   record |-> [form |-> TRUE, signed |-> TRUE, key |-> Issuer, org |-> "org", id |-> id,
               args |-> Hash(args), outcome |-> outcome, tool |-> tool, time |-> t]]

UseFor(id, g, a, index, t) ==
  [form |-> TRUE, signed |-> TRUE, key |-> Issuer, id |-> id, org |-> "org",
   actionId |-> a.record.id, args |-> a.record.args, grantId |-> g.id,
   grantHash |-> GrantHash(g), approverKey |-> g.key,
   consumptionKey |-> ConsumptionKey(g, "org"), index |-> index, maxUses |-> g.maxUses,
   time |-> t]

Invoice == [n \in {"resource", "amount"} |-> IF n = "resource" THEN "inv" ELSE "480"]

G1 == [Grant("g1", "pay", 1, {"pay"}) EXCEPT
         !.scopeResource = "inv", !.scopeArgs = {<<"amount", "480">>}]
G2 == Grant("g2", "pay", 2, {"pay"})               \* a reissue of the intent
Gu == Grant("g3", "", NoLimit, {"read"})
Self == [G1 EXCEPT !.key = Agent]                  \* the agent's own key

A1 == ItemOf("a1", "ALLOWED", "pay", 1, ArgsUnder(G1, Invoice))
A2 == ItemOf("a2", "ALLOWED", "pay", 2, ArgsUnder(G2, Invoice))
A3 == ItemOf("a3", "ALLOWED", "pay", 6, ArgsUnder(G2, Invoice))   \* decided after not_after
B1 == ItemOf("a4", "BLOCKED", "pay", 2, ArgsUnder(G1, Invoice))
R1 == ItemOf("a5", "ALLOWED", "read", 3, ArgsUnder(Gu, Invoice))
U1 == UseFor("u1", G1, A1, 1, 1)
U2 == UseFor("u2", G2, A2, 2, 2)
U3 == UseFor("u3", G2, A3, 1, 5)                   \* the use U1 claims
U3Over == UseFor("u3", G2, A3, 3, 5)               \* use 3 of 2

\* What can be wrong with one USE, one action or one grant.
BadUses ==
  { [U1 EXCEPT !.key = Forger], [U1 EXCEPT !.signed = FALSE], [U1 EXCEPT !.index = 0],
    [U1 EXCEPT !.maxUses = 2], [U1 EXCEPT !.org = "other"], [U1 EXCEPT !.time = 6],
    [U1 EXCEPT !.grantId = "g2"], [U1 EXCEPT !.args = Hash(ArgsUnder(G2, Invoice))],
    [U1 EXCEPT !.grantHash = GrantHash(Self)], [U1 EXCEPT !.approverKey = Agent],
    [U1 EXCEPT !.consumptionKey = <<"org", "grant", "g1">>],
    UseFor("u1", G1, B1, 1, 2), UseFor("u1", Gu, R1, 1, 3),
    UseFor("u1", G1, A2, 1, 1) }
BadActions ==
  { [A1 EXCEPT !.record.signed = FALSE], [A1 EXCEPT !.args.fields["amount"] = "750"],
    ItemOf("a1", "ALLOWED", "pay", 1, ArgsUnder(G1, [Invoice EXCEPT !["amount"] = "750"])),
    ItemOf("a1", "ALLOWED", "pay", 1, ArgsUnder(G1, [Invoice EXCEPT !["resource"] = "x"])),
    ItemOf("a1", "ALLOWED", "refund", 1, ArgsUnder(G1, Invoice)),
    ItemOf("a1", "ALLOWED", "pay", 1, [ArgsUnder(G1, Invoice) EXCEPT !.grantId = Absent]),
    ItemOf("a1", "ALLOWED", "pay", 1, [ArgsUnder(G1, Invoice) EXCEPT !.grantHash = NotText]),
    ItemOf("a1", "ALLOWED", "pay", 1,
           [grantId |-> Absent, grantHash |-> Absent, fields |-> Invoice]),
    ItemOf("a1", "ALLOWED", "pay", 1, [ArgsUnder(G1, Invoice) EXCEPT !.grantId = "g2"]),
    ItemOf("a1", "ALLOWED", "pay", 1, ArgsUnder(Self, Invoice)),
    ItemOf("a2", "ALLOWED", "pay", 1, ArgsUnder(G1, Invoice)) }
BadGrants ==
  { [G1 EXCEPT !.signed = FALSE], [G1 EXCEPT !.maxUses = 2], [G1 EXCEPT !.notBefore = 2],
    [G1 EXCEPT !.scopeEnvironment = "prod"], [G1 EXCEPT !.requireArgs = {"ticket"}], Self }

CallsOf(grants, uses, actions, keys) ==
  [pinned : {Issuer}, form : {TRUE}, approverKeys : keys,
   grants : grants, uses : uses, actions : actions]

Selections(S) == {SetToSeq(T) : T \in SUBSET S}
Keys == {{Approver}, {Agent}, NoKeySet}

\* Records made under a defective grant: the defect is the grant's alone.
UnderGrant(g) ==
  LET a == ItemOf("a1", "ALLOWED", "pay", 1, ArgsUnder(g, Invoice)) IN
  CallsOf({<<g>>, <<g, G2>>, <<g, g>>}, {<<>>, <<UseFor("u1", g, a, 1, 1)>>}, {<<a>>}, Keys)

\* Named sets: TLC computes each of them once.
SomeGrants  == Selections({G1, G2, Gu})
SomeUses    == Selections({U1, U2, U3})
UsesOver    == Selections({U1, U2, U3Over})
SomeActions == Selections({A1, A2, A3, B1, R1})
PayActions  == Selections({A1, A2, A3})
BadUseLists == {<<u>> : u \in BadUses} \cup {<<U2, u>> : u \in BadUses}
BadActionLists == {<<a>> : a \in BadActions} \cup {<<A2, a>> : a \in BadActions}
UnderGrants == UNION {UnderGrant(g) : g \in BadGrants}

MCCalls ==
  CallsOf(SomeGrants, SomeUses, SomeActions, Keys)
  \cup CallsOf({<<G1, G2>>}, UsesOver, PayActions, Keys)
  \cup CallsOf({<<G1, G2>>, <<G2, Gu>>}, BadUseLists, {<<A1, A2, B1, R1>>, <<A2>>}, {{Approver}})
  \cup CallsOf({<<G1, G2>>, <<G2>>}, {<<U1, U2>>, <<U2>>, <<U1, U1>>}, BadActionLists,
               {{Approver}})
  \cup UnderGrants
  \cup [pinned : {Issuer, NoKey}, form : BOOLEAN, approverKeys : {{Approver}},
        grants : {<<G1>>}, uses : {<<U1>>}, actions : {<<A1>>}]

\* chain.py:105-137: no call is answered by comparisons that, on written times
\* and counters, would be other than those of the integers it has here.
ComparedExactly == pc = "done" => Exact
=============================================================================
