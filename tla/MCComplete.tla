----------------------------- MODULE MCComplete -----------------------------
(***************************************************************************)
(* Model checking Complete over the situations of the repository's vectors *)
(* (scripts/make-e79-vectors.py, build_complete): one organisation, two    *)
(* periods, honest records and checkpoints, and what a defective issuer,   *)
(* an operator or an executor can change about them.                       *)
(***************************************************************************)
EXTENDS Complete, SequencesExt

CONSTANTS Issuer, Forger, Executor, OtherExecutor

Act(id, t, outcome, args) ==
  [form |-> TRUE, signed |-> TRUE, key |-> Issuer, org |-> "org", id |-> id,
   args |-> args, outcome |-> outcome, time |-> t]
UseOf(id, act, args) ==
  [form |-> TRUE, signed |-> TRUE, key |-> Issuer, org |-> "org", id |-> id,
   actionId |-> act.id, args |-> args, time |-> act.time]
Item(kind, rec) == [kind |-> kind, record |-> rec]

a1 == Act("a1", 0, "ALLOWED", "x")
a2 == Act("a2", 1, "BLOCKED", "x")
a3 == Act("a3", 2, "ALLOWED", "y")
A1 == Item("action", a1)
U1 == Item("use", UseOf("u1", a1, "x"))
A2 == Item("action", a2)
A3 == Item("action", a3)
U3 == Item("use", UseOf("u3", a3, "y"))
U3Args == Item("use", UseOf("u3", a3, "x"))           \* signed over other arguments
Added  == Item("action", Act("a5", 1, "BLOCKED", "x")) \* never counted
After  == Item("action", Act("a6", 4, "BLOCKED", "x")) \* past the last period
Forged == Item("action", [a2 EXCEPT !.key = Forger])
Foreign == Item("action", [a2 EXCEPT !.org = "other"])
Receipt == Item("receipt", a2)

Honest == <<A1, U1, A2, A3, U3>>
LeavesOf(items) == {RecordLeaf(items[k]) : k \in DOMAIN items}
Ledger == LeavesOf(Honest)

Cp(seq, prev, from, to, counted) ==
  [form |-> TRUE, signed |-> TRUE, key |-> Issuer, org |-> "org", seq |-> seq,
   prev |-> IF prev = <<>> THEN NoHash ELSE CheckpointHash(prev[1]),
   start |-> from, end |-> to, time |-> to,
   count |-> Cardinality(counted), total |-> Cardinality(counted)
             + (IF prev = <<>> THEN 0 ELSE prev[1].total),
   hash |-> RecordsHash(counted)]

Within(L, from, to) == {l \in L : from =< LeafRecord(l).time /\ LeafRecord(l).time < to}
CpOf(L, seq, prev, from, to) == Cp(seq, prev, from, to, Within(L, from, to))

C1 == CpOf(Ledger, 1, <<>>, 0, 2)
C2 == CpOf(Ledger, 2, <<C1>>, 2, 4)

Chains ==
  { <<>>, <<C1>>, <<C2>>, <<C1, C2>>, <<C2, C1>>,
    <<C1, CpOf(Ledger, 2, <<C1>>, 3, 4)>>,              \* an unaccounted gap
    <<C1, CpOf(Ledger, 2, <<C1>>, 1, 4)>>,              \* overlapping periods
    <<C1, CpOf(Ledger, 3, <<C1>>, 2, 4)>>,
    <<C1, [C2 EXCEPT !.prev = CheckpointHash(C2)]>>,
    <<C1, [C2 EXCEPT !.total = @ + 1]>>,
    <<C1, [C2 EXCEPT !.org = "other"]>>,
    <<C1, [C2 EXCEPT !.signed = FALSE]>>,
    <<C1, [C2 EXCEPT !.time = 3]>>,
    <<[C1 EXCEPT !.key = Forger]>>,
    <<[C1 EXCEPT !.total = 4]>>,
    <<CpOf(Ledger, 1, <<>>, 2, 2)>>,
    <<Cp(1, <<>>, 0, 2, LeavesOf(<<A2>>))>>,            \* a1 and u1 never counted
    <<Cp(1, <<>>, 0, 4, LeavesOf(<<A1, U1, A2, A3, U3Args>>))>>,
    <<[CpOf({}, 1, <<>>, 0, 2) EXCEPT !.hash = RecordsHash(Ledger)]>> }

Disclosures ==
  {SetToSeq(S) : S \in SUBSET {A1, U1, A2, A3, U3, Added, After}}
    \cup {<<A1, A2, A1>>, <<A2, Forged>>, <<A2, Foreign>>, <<Receipt>>,
          <<A1, U1, A2, A3, U3Args>>}

Entry(seq, prev, result, t, act, use) ==
  [form |-> TRUE, signed |-> TRUE, key |-> Executor, executor |-> "e", org |-> "org",
   seq |-> seq, prev |-> IF prev = <<>> THEN NoHash ELSE ExecutionHash(prev[1]),
   result |-> result, time |-> t,
   actionId   |-> IF act = <<>> THEN "" ELSE act[1].record.id,
   actionLeaf |-> IF act = <<>> THEN NoHash ELSE RecordLeaf(act[1]),
   args       |-> IF act = <<>> THEN "" ELSE act[1].record.args,
   useId      |-> IF use = <<>> THEN "" ELSE use[1].record.id,
   useLeaf    |-> IF use = <<>> THEN NoHash ELSE RecordLeaf(use[1])]

E1 == Entry(1, <<>>, "EXECUTED", 0, <<A1>>, <<U1>>)
E2 == Entry(2, <<E1>>, "REFUSED", 1, <<A2>>, <<>>)
E3 == Entry(3, <<E2>>, "EXECUTED", 3, <<A3>>, <<U3>>)

Logs ==
  { <<>>, <<E1>>, <<E1, E2>>, <<E1, E2, E3>>, <<E2, E3>>, <<E1, E3>>,
    <<E1, [E2 EXCEPT !.key = OtherExecutor]>>,
    <<E1, [E2 EXCEPT !.org = "other"]>>,
    <<E1, Entry(2, <<E1>>, "REFUSED", 3, <<>>, <<>>)>>,           \* no record shown
    <<E1, Entry(2, <<E1>>, "REFUSED", 4, <<>>, <<>>)>>,           \* past the span
    <<E1, Entry(2, <<E1>>, "EXECUTED", 1, <<A2>>, <<U1>>)>>,      \* refused by Seal
    <<E1, Entry(2, <<E1>>, "EXECUTED", 1, <<A1>>, <<U1>>)>>,      \* twice
    <<Entry(1, <<>>, "EXECUTED", 1, <<A1>>, <<U3>>)>>,
    <<[E1 EXCEPT !.args = "y"]>>,
    <<[E1 EXCEPT !.actionId = "a9"]>>,
    <<[E1 EXCEPT !.actionLeaf = RecordLeaf(U1)]>>,
    <<Entry(1, <<>>, "EXECUTED", 3, <<A3>>, <<U3Args>>)>>,
    <<[Entry(1, <<>>, "REFUSED", 1, <<A2>>, <<>>) EXCEPT !.signed = FALSE]>> }

\* Products of component sets: TLC enumerates them without building them.
ReviewsOf(froms, tos, chains, disclosures, logs, keys) ==
  [pinned : {Issuer}, from : froms, to : tos, executorKeys : keys, form : {TRUE},
   org : {"org"}, checkpoints : chains, records : disclosures, executions : logs]

SubstitutedUse == <<Cp(1, <<>>, 0, 4, LeavesOf(<<A1, U1, A2, A3, U3Args>>))>>

MCReviews ==
  ReviewsOf({0, 2}, {4}, Chains, Disclosures, {<<>>}, {{Executor}})
  \cup ReviewsOf({0}, {4}, {<<>>, <<C1>>, <<C1, C2>>, SubstitutedUse}, Disclosures, Logs,
                 {{Executor}, {OtherExecutor}, NoKeySet})
  \cup ReviewsOf({0, 1, 3}, {1, 3, 5}, {<<C1, C2>>}, {Honest}, {<<>>}, {{Executor}})
  \cup [pinned : {Issuer, NoKey}, from : {0}, to : {4}, executorKeys : {{Executor}},
        form : BOOLEAN, org : {"org"}, checkpoints : {<<C1, C2>>}, records : {Honest},
        executions : {<<E1, E2, E3>>}]
=============================================================================
