------------------------------ MODULE Issuance ------------------------------
(***************************************************************************)
(* Where a `complete` bundle comes from: an issuer that signs records and  *)
(* commits them later, checkpoints that close periods, an executor that    *)
(* logs what it was asked to do, and an operator who hands a reviewer a    *)
(* selection.  The records are built as scripts/make-e79-vectors.py builds *)
(* them; when they are signed, committed and counted is the gateway's,     *)
(* which is not in the repository (spec/CHECKPOINT-v1.md section 5,        *)
(* spec/EXECUTION-v1.md section 4 say what it must do).                    *)
(*                                                                         *)
(* The reviewer is the answer of verify_complete, the one Complete is      *)
(* shown to compute.                                                       *)
(***************************************************************************)
EXTENDS CompleteRules

CONSTANTS
  Requests,     \* what agents ask for: [id, outcome, args]
  Period,       \* the length of a checkpoint's period
  Settle,       \* how long after a period closes it is counted
  Delay,        \* the longest a signed record waits to be committed
  Horizon,      \* the last instant of the model
  MaxLog,       \* the most entries the executor writes
  MaxOmitted,   \* the most records the issuer leaves out
  Issuer, Executor,
  NoReview      \* nothing has been presented yet

\* The settle interval is long enough for every record stamped in a period to
\* have committed (spec/CHECKPOINT-v1.md section 5.2).
ASSUME IssuanceAssumption ==
  /\ Period \in Nat \ {0} /\ Settle \in Nat /\ Delay \in Nat /\ Delay =< Settle
  /\ Horizon \in Nat /\ MaxLog \in Nat /\ MaxOmitted \in Nat
  /\ Issuer # NoKey /\ {Executor} # NoKeySet

\* A record's identifier is not empty, and neither is a hash of its arguments.
ASSUME RequestAssumption == \A req \in Requests : req.id # "" /\ req.args # ""

VARIABLES
  now,
  pending,      \* leaves of records signed and not yet committed
  ledger,       \* leaves of committed records
  checkpoints,  \* the chain issued so far
  omitted,      \* what the issuer left out of the periods it counted
  log,          \* the executor's log
  review,       \* the call the operator's selection makes
  answer        \* the reviewer's verdict

vars == <<now, pending, ledger, checkpoints, omitted, log, review, answer>>

-----------------------------------------------------------------------------
(* Records, as the generators sign them *)

Action(req, t) ==
  [form |-> TRUE, signed |-> TRUE, key |-> Issuer, org |-> "org", id |-> req.id,
   args |-> req.args, outcome |-> req.outcome, time |-> t]

\* The USE of an action carries the action's id and arguments.
Use(req, t) ==
  [form |-> TRUE, signed |-> TRUE, key |-> Issuer, org |-> "org", id |-> req.id,
   actionId |-> req.id, args |-> req.args, time |-> t]

Item(l) == [kind |-> LeafKind(l), record |-> LeafRecord(l)]

Signed == pending \cup ledger

ActionsOf(S, req) == {l \in S : LeafKind(l) = "action" /\ LeafRecord(l).id = req.id}
UsesOf(S, req)    == {l \in S : LeafKind(l) = "use" /\ LeafRecord(l).actionId = req.id}

\* period_start =< timestamp < period_end, as the issuer counts.
StampedIn(S, from, to) == {l \in S : from =< LeafRecord(l).time /\ LeafRecord(l).time < to}

NextStart == IF checkpoints = <<>> THEN 0 ELSE checkpoints[Len(checkpoints)].end

Checkpoint(counted, from, to) ==
  LET n == Len(checkpoints) IN
  [form |-> TRUE, signed |-> TRUE, key |-> Issuer, org |-> "org", seq |-> n + 1,
   prev |-> IF n = 0 THEN NoHash ELSE CheckpointHash(checkpoints[n]),
   start |-> from, end |-> to, time |-> now,
   count |-> Cardinality(counted),
   total |-> Cardinality(counted) + (IF n = 0 THEN 0 ELSE checkpoints[n].total),
   hash |-> RecordsHash(counted)]

Entry(result, act, use) ==
  LET n == Len(log) IN
  [form |-> TRUE, signed |-> TRUE, key |-> Executor, executor |-> "executor", org |-> "org",
   seq |-> n + 1, prev |-> IF n = 0 THEN NoHash ELSE ExecutionHash(log[n]),
   result |-> result, time |-> now,
   actionId   |-> IF act = NoHash THEN "" ELSE LeafRecord(act).id,
   actionLeaf |-> act,
   args       |-> IF act = NoHash THEN "" ELSE LeafRecord(act).args,
   useId      |-> IF use = NoHash THEN "" ELSE LeafRecord(use).id,
   useLeaf    |-> use]

-----------------------------------------------------------------------------
(* The issuer, the executor, the operator and the reviewer *)

Init ==
  /\ now = 0
  /\ pending = {} /\ ledger = {}
  /\ checkpoints = <<>> /\ omitted = {}
  /\ log = <<>>
  /\ review = NoReview /\ answer = "none"

Running == answer = "none"

\* Mutant: a record may wait in flight for ever.
MutDelayUnbounded ==
  /\ Running
  /\ now < Horizon
  /\ now' = now + 1
  /\ UNCHANGED <<pending, ledger, checkpoints, omitted, log, review, answer>>

\* Time passes; a record is never left waiting longer than Delay.
Tick ==
  /\ Running
  /\ now < Horizon
  /\ \A l \in pending : now < LeafRecord(l).time + Delay
  /\ now' = now + 1
  /\ UNCHANGED <<pending, ledger, checkpoints, omitted, log, review, answer>>

\* The USE of a request is signed first.
Claim(req) ==
  /\ Running
  /\ req.outcome = "ALLOWED"
  /\ UsesOf(Signed, req) = {}
  /\ pending' = pending \cup {RecordLeaf([kind |-> "use", record |-> Use(req, now)])}
  /\ UNCHANGED <<now, ledger, checkpoints, omitted, log, review, answer>>

\* The decision; an ALLOWED one is signed once its USE is committed.
Decide(req) ==
  /\ Running
  /\ ActionsOf(Signed, req) = {}
  /\ req.outcome = "ALLOWED" => UsesOf(ledger, req) # {}
  /\ pending' = pending \cup {RecordLeaf([kind |-> "action", record |-> Action(req, now)])}
  /\ UNCHANGED <<now, ledger, checkpoints, omitted, log, review, answer>>

Commit(l) ==
  /\ Running
  /\ pending' = pending \ {l} /\ ledger' = ledger \cup {l}
  /\ UNCHANGED <<now, checkpoints, omitted, log, review, answer>>

\* Mutant: the period is counted the moment it closes.
MutIssueUnsettled(leftOut) ==
  /\ Running
  /\ now >= NextStart + Period
  /\ LET stamped == StampedIn(ledger, NextStart, NextStart + Period) IN
     /\ leftOut \subseteq stamped /\ Cardinality(omitted \cup leftOut) =< MaxOmitted
     /\ checkpoints' = Append(checkpoints,
          Checkpoint(stamped \ leftOut, NextStart, NextStart + Period))
  /\ omitted' = omitted \cup leftOut
  /\ UNCHANGED <<now, pending, ledger, log, review, answer>>

\* One period counted, with whatever the issuer chooses to leave out of it.
IssueCheckpoint(leftOut) ==
  /\ Running
  /\ now >= NextStart + Period + Settle
  /\ LET stamped == StampedIn(ledger, NextStart, NextStart + Period) IN
     /\ leftOut \subseteq stamped /\ Cardinality(omitted \cup leftOut) =< MaxOmitted
     /\ checkpoints' = Append(checkpoints,
          Checkpoint(stamped \ leftOut, NextStart, NextStart + Period))
  /\ omitted' = omitted \cup leftOut
  /\ UNCHANGED <<now, pending, ledger, log, review, answer>>

\* The executor acts on an ALLOWED action with its USE, once.
Execute(req) ==
  /\ Running
  /\ Len(log) < MaxLog
  /\ \E act \in ActionsOf(ledger, req), use \in UsesOf(ledger, req) :
       /\ LeafRecord(act).outcome = "ALLOWED"
       /\ \A k \in DOMAIN log : ~(log[k].result = "EXECUTED" /\ log[k].actionId = req.id)
       /\ log' = Append(log, Entry("EXECUTED", act, use))
  /\ UNCHANGED <<now, pending, ledger, checkpoints, omitted, review, answer>>

\* It refuses an action Seal refused, and logs the refusal.
Refuse(req) ==
  /\ Running
  /\ Len(log) < MaxLog
  /\ \E act \in ActionsOf(ledger, req) :
       /\ LeafRecord(act).outcome # "ALLOWED"
       /\ log' = Append(log, Entry("REFUSED", act, NoHash))
  /\ UNCHANGED <<now, pending, ledger, checkpoints, omitted, review, answer>>

Verifier == INSTANCE Verdict WITH Calls <- {}, call <- review

\* The part of the log the executor wrote before a chain's last period closed:
\* its entries are in the order of their times.
LogUntil(t) == SubSeq(log, 1, Cardinality({k \in DOMAIN log : log[k].time < t}))

\* The records in some order, as the bundle's array holds them.
Order(S) ==
  CHOOSE f \in [1..Cardinality(S) -> S] :
    \A j, k \in 1..Cardinality(S) : j # k => f[j] # f[k]

ArrayOf(S) == [k \in 1..Cardinality(S) |-> Item(Order(S)[k])]

\* A run of checkpoints, some committed records and the log, and the span of
\* those checkpoints as the review window.
Bundle(disclosed, first, last) ==
  [pinned |-> Issuer, from |-> checkpoints[first].start, to |-> checkpoints[last].end,
   executorKeys |-> {Executor}, form |-> TRUE, org |-> "org",
   checkpoints |-> SubSeq(checkpoints, first, last),
   records |-> ArrayOf(disclosed),
   executions |-> LogUntil(checkpoints[last].end)]

\* The operator presents a bundle, at the model's last instant.
Present(disclosed, first, last) ==
  /\ Running /\ now = Horizon
  /\ review' = Bundle(disclosed, first, last)
  /\ answer' = Verifier!Answer(review')
  /\ UNCHANGED <<now, pending, ledger, checkpoints, omitted, log>>

Next ==
  \/ Tick
  \/ \E req \in Requests : Claim(req) \/ Decide(req) \/ Execute(req) \/ Refuse(req)
  \/ \E l \in pending : Commit(l)
  \/ \E leftOut \in SUBSET ledger : IssueCheckpoint(leftOut)
  \/ \E disclosed \in SUBSET ledger, first, last \in DOMAIN checkpoints :
       first =< last /\ Present(disclosed, first, last)

Spec == Init /\ [][Next]_vars

-----------------------------------------------------------------------------
(* Properties *)

Disclosed == {RecordLeaf(review.records[k]) : k \in DOMAIN review.records}
Named == UNION {{review.executions[k].actionLeaf, review.executions[k].useLeaf} \ {NoHash} :
                  k \in DOMAIN review.executions}
InSpan(S) == StampedIn(S, review.checkpoints[1].start, LastEnd(review))

\* The records keep their clocks: nothing is stamped in the future, nothing
\* waits past Delay, and no period is counted before it has settled.
TypeOK ==
  /\ now \in 0..Horizon
  /\ pending \cap ledger = {}
  /\ \A l \in Signed : LeafRecord(l).time \in 0..now
  /\ \A l \in pending : now =< LeafRecord(l).time + Delay
  /\ omitted \subseteq ledger
  /\ answer \in {"none"} \cup Verifier!Verdicts

\* CHECKPOINT-v1 sections 2 and 8.4 over a running issuer: PASS means that
\* every record signed with a time inside the review window is in the bundle,
\* or the issuer left it out of its count.  A record in flight when its period
\* was counted would be a third way out; the settle interval closes it.
PassHidesNothing ==
  answer = "PASS" =>
    StampedIn(Signed, review.from, review.to) \subseteq Disclosed \cup omitted

\* Section 2: an action that reached a cooperating executor and that the issuer
\* left out is visible.  No bundle that carries the log passes over one.
OmissionSeen == answer = "PASS" => Named \cap omitted = {}

\* An honest operator, who presents every committed record of the span, those
\* the log names and the log, is never told its bundle contradicts itself; and
\* it passes exactly when neither the log nor a record it names reaches back
\* before the first checkpoint presented: a USE signed just before a period's
\* end and its action just after it cannot be reviewed apart.
HonestNeverRefuted ==
  ~Running /\ omitted = {} /\ Disclosed = InSpan(ledger) \cup Named =>
    /\ answer # "FAIL"
    /\ answer = "PASS" <=>
         /\ Named \subseteq InSpan(ledger)
         /\ \A k \in DOMAIN review.executions :
              review.executions[k].time >= review.checkpoints[1].start

-----------------------------------------------------------------------------
(* The inductive invariant behind the four properties *)

\* What is signed is a USE or a decision of some request; what is still on its
\* way to the log belongs to a period that has not been counted.
SignedInv ==
  /\ IsFiniteSet(ledger)
  /\ \A l \in Signed : \E req \in Requests :
       LET t == LeafRecord(l).time IN
       \/ l = RecordLeaf([kind |-> "use", record |-> Use(req, t)])
       \/ l = RecordLeaf([kind |-> "action", record |-> Action(req, t)])
  /\ \A l \in pending : NextStart =< LeafRecord(l).time

CountedIn(cp) == StampedIn(ledger, cp.start, cp.end) \ omitted

\* A record the issuer or the executor signed for its organisation.
SignedBy(rec, key) == rec.form /\ rec.signed /\ rec.key = key /\ rec.org = "org"

\* A checkpoint counts, and goes on counting, what the ledger holds of its
\* period and was not left out, and continues the one before it.
CheckpointInv(k) ==
  LET cp == checkpoints[k] IN
  /\ SignedBy(cp, Issuer) /\ cp.seq = k
  /\ cp.start \in Nat /\ cp.end \in Nat /\ cp.time \in Nat
  /\ cp.start < cp.end /\ cp.end =< cp.time
  /\ cp.hash = RecordsHash(CountedIn(cp))
  /\ cp.count = Cardinality(CountedIn(cp))
  /\ cp.total \in Nat
  /\ k = 1 => cp.prev = NoHash /\ cp.total = cp.count
  /\ k > 1 => LET before == checkpoints[k - 1] IN
              /\ cp.prev = CheckpointHash(before) /\ cp.start = before.end
              /\ cp.total = before.total + cp.count

CountsInv == \A k \in DOMAIN checkpoints : CheckpointInv(k)

\* The periods tile the time counted so far.
PeriodsInv ==
  /\ IsSequence(checkpoints)
  /\ NextStart \in Nat /\ NextStart =< now
  /\ \A k \in DOMAIN checkpoints : checkpoints[k].end =< NextStart
  /\ \A j, k \in DOMAIN checkpoints : j < k => checkpoints[j].end =< checkpoints[k].start
  /\ \A t \in 0..(NextStart - 1) : \E k \in DOMAIN checkpoints : InPeriod(checkpoints[k], t)
  /\ \A l \in omitted : LeafRecord(l).time < NextStart

\* An entry names a committed decision and, when the executor acted on it, the
\* USE it acted with.
EntryInv(k) ==
  LET e == log[k] IN
  /\ SignedBy(e, Executor) /\ e.executor = "executor" /\ e.seq = k
  /\ k = 1 => e.prev = NoHash
  /\ k > 1 => e.prev = ExecutionHash(log[k - 1])
  /\ e.time \in 0..now
  /\ e.actionLeaf \in ledger /\ LeafKind(e.actionLeaf) = "action"
  /\ LeafRecord(e.actionLeaf).id = e.actionId /\ LeafRecord(e.actionLeaf).args = e.args
  /\ \/ /\ e.result = "EXECUTED" /\ LeafRecord(e.actionLeaf).outcome = "ALLOWED"
        /\ e.useLeaf \in ledger /\ LeafKind(e.useLeaf) = "use"
        /\ LeafRecord(e.useLeaf).id = e.useId
        /\ LeafRecord(e.useLeaf).actionId = e.actionId
     \/ e.result = "REFUSED" /\ e.useLeaf = NoHash /\ e.useId = ""

\* The log is in the order of its times, and no action is executed twice.
LogInv ==
  /\ IsSequence(log)
  /\ \A k \in DOMAIN log : EntryInv(k)
  /\ \A j, k \in DOMAIN log : j < k =>
       /\ log[j].time =< log[k].time
       /\ log[j].result = "EXECUTED" /\ log[k].result = "EXECUTED" =>
            log[j].actionId # log[k].actionId

\* The reviewer answers what it was given.
ReviewInv ==
  ~Running =>
    /\ \E disclosed \in SUBSET ledger, first, last \in DOMAIN checkpoints :
         first =< last /\ review = Bundle(disclosed, first, last)
    /\ answer = Verifier!Answer(review)

IInv ==
  /\ TypeOK
  /\ SignedInv
  /\ CountsInv
  /\ PeriodsInv
  /\ LogInv
  /\ ReviewInv
=============================================================================
