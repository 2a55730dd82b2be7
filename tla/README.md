# attestation-spec in TLA+

The repository specifies signed records about what an AI agent did and ships
two implementations (Python, TypeScript) of the verifiers that read them.  This
directory models those verifiers, the world their bundles come from, and what
their verdicts are worth; TLC checks the models on small instances and TLAPS
proves the main results for every value of the constants.

## The system

| part | state it keeps | operations | who it meets |
|---|---|---|---|
| **complete verifier** (`complete.py`, `complete.ts`) | the leaves seen, leaves per checkpoint, actions executed, gaps | `verify_complete`: seven steps, four loops | the record checks, the chain's time and signature helpers |
| **chain verifier** (`chain.py`, `chain.ts`) | actions by id, grants by hash, USE ids, claims, named actions, gaps | `verify_chain`: nine steps, six loops | the action verifier, the receipt verifier's encoders |
| **witnessed verifier** (`witnessed.py`, `.ts`) | what is missing so far | `verify_witnessed`: seven steps, four loops | the Merkle proofs, the tree heads, the complete profile's record checks, the chain's instants |
| **transparency** (`transparency.py`, `.ts`, `verify_proof.py`) | none between calls | inclusion proof, consistency proof, tree head, `assess_history` | witnessed verifier, command line |
| **single-record verifier** (`verifier.py`, `index.ts`) | none | receipts, action records, envelopes | every profile |
| **command line** (`__main__.py`, `cli.ts`) | none | select a profile, read files, exit code | every verifier |
| **instants and decimals** (`chain.py`, `.ts`) | none | days, offsets, fractions to the last digit; counters as texts and as numbers | the three profiles |
| **reference issuers, vector generators** (`examples/`, `test-vectors/`) | none | sign one record; write the conformance vectors | the single-record verifier |
| **issuer, boundary, executor, log, witness** | ledger, counts, checkpoints, claims, logs, statements | outside the repository; `scripts/make-e79-vectors.py`, `test-vectors/chain/generate.py` and the reference issuers build what they sign | their records are what the verifiers read |

A verifier is a sequential function over untrusted input, so its own hard
behaviours are orders: a gap must not hide a contradiction met later, and one
loop's lookups are read by the next.  What makes the verdicts hard is the world:
records are stamped at one time and committed at another, several workers claim
uses of one grant, workers die between a claim and a decision, issuers leave
records out, operators choose what to show, periods and windows meet at single
instants, a witness stamps a head some time after it fetched it, misses runs, and a
log is rewritten between two of them.  And the two languages read the same bytes
with other defaults: sort orders, number spellings, base64, conversion limits.

What makes each part correct:

* every verifier: one verdict per call, FAIL before INCOMPLETE before PASS,
  whatever the order of its loops;
* complete: PASS means nothing the issuer counted in the window is missing, and
  everything an executor did was counted;
* chain: PASS means no grant was spent beyond its limit and every authorised
  action traces to a designated approver at a moment the grant was valid;
* both, in their worlds: an honest operator is never told its evidence
  contradicts itself, and what a dishonest one can hide is exactly what the
  specifications concede;
* transparency: a proof is accepted exactly when it is the one the tree has, for
  every pair of sizes;
* history: heads, links and inclusions that are called consistent tell one
  history, and an honest log is never accused;
* witnessed: PASS means that no statement a record should have been in, however few
  statements are shown, lacks it; an issuer whose
  lag and the witness's delay are together within the tolerance is never accused,
  whatever the witness missed and however times are spelled;
* instants and decimals: two spellings compare as what they name;
* single records: a pinned key vouches for this very document, of the kind the
  reader named, and not for anything added after it was signed;
* command line: exit codes 0 to 3 as documented, and the same ones from both
  implementations on the same bytes;
* conformance vectors: each invalid vector is refused by the rule it is named for,
  under a genuine signature where its defect is not the signature.

## Modules

| module | what it is |
|---|---|
| `Verdict` | the abstract specification of every profile: a call is answered in one step, by a rule that looks at the whole call and has no order; `Safety` is that without the promise to answer |
| `Records` | hashes, leaves, unsigned records |
| `CompleteRules` | each condition `complete.py` checks, as an operator on a call, and the order-free rule they add up to |
| `Complete` | `verify_complete` as a state machine, its properties and its inductive invariant |
| `CompleteProofs` | the proofs about `Complete` |
| `Issuance` | issuer, transparency commits, checkpoints, executor and operator around a complete bundle |
| `ChainRules`, `Chain`, `ChainProofs` | the same three layers for `chain.py` |
| `Boundary` | concurrent boundary workers, crashes and operator around a chain bundle |
| `IssuanceProofs`, `BoundaryProofs` | the proofs about the two worlds |
| `MerkleTree` | sizes, halving, free hashes, the tree of a log as its rows (a lonely last hash is promoted) |
| `InclusionWalk`, `ConsistencyWalk` | `verify_inclusion_proof` and `verify_consistency_proof`, one step per shift of the cursor, with their properties |
| `TransparencyCalls` | the same two functions of `transparency.ts`, each as one expression |
| `MerkleGenerator` | the recursive tree of RFC 6962 and the generator's paths through it |
| `MerkleLemmas` | the tree by rows and the tree by recursion are one tree; which calls the verifiers accept; cursors that jump and cursors that step |
| `InclusionProofs`, `ConsistencyProofs` | the proofs about the two walks: sound, complete, and in agreement with the other implementation |
| `HistoryRules`, `History` | what one check of a history bundle answers; `assess_history` step by step, and `assessHistory` as a whole call |
| `Inquiry` | the abstract specification of a verifier that somebody first has to ask: the answer of `Verdict`, to a call that does not change meanwhile; `asked` says that there is one |
| `Instants` | `_days_from_civil`, `_instant`, `_cmp_instant`, `_later_than` on the fields of a written time |
| `Decimals` | canonical decimals as texts, `_dec_le` |
| `Comparisons` | the calendar by its rules and decimals as numbers: the reference the two modules above are held to |
| `WitnessedRules`, `Witnessed` | the same two layers as `CompleteRules` and `Complete`, for `witnessed.py`, with the heads, walks and record checks of the modules above |
| `Witnessing` | issuer, public log, witness and operator around a witnessed bundle, and its inductive invariant |
| `WitnessingProofs` | the proofs about `Witnessing` and the loops of `Witnessed`, with the facts about lists, written times, leaves and edits they rest on |
| `Receipts` | `verifier.py` as the list of faults of a document, and `index.ts` as what it accepts |
| `Vectors` | the two reference issuers and the vectors of the two generators |
| `Command` | `main` of `__main__.py` from its options to its exit code, `main` of `cli.ts` as one expression, and the file they read |
| `MC*` | instances for TLC |

### How state and actions correspond to the code

`Complete`: `pc` and `i` are the step of `_verify_complete` and its loop's
index; `byLeaf`, `perCp`, `executed`, `incomplete` are `by_leaf`, `per_cp`,
`executed`, `incomplete`.  `CheckInputs` is steps 1 and 2, `CheckCheckpoint` one
iteration of step 3, `CheckCoverage` step 4, `CheckRecord`, `CheckCount` and
`CheckExecution` one iteration of steps 5, 6 and 7, `Finish` the last two lines;
`Fail` is `raise _Fail` and the handler in `verify_complete`, which turns it (and
any other exception) into FAIL.  The order-free operators `Refuted` and
`Lacking` are also what `verifyCompleteInner` of `complete.ts` computes: the two
bodies are line for line the same.

`Chain`: likewise `byAction`, `byHash`, `useIds`, `claims`, `named`, one action
per step of `_verify_chain`, one step per iteration, and `EndLoop` between them.

`Issuance` and `Boundary`: the record constructors (`Action`, `Use`,
`Checkpoint`, `Entry`; `ActionItem`, `Use`) are the generators' functions; the
actions that say *when* a record is signed, committed, counted or executed are
the gateway's, boundary's and executor's, which are not in the repository: they
do what the verifiers require of an honest issuer, and the project marks them
external.  The reviewer in both is one step, the verdict of `Verdict!Answer`;
that the state machines compute the same verdict is what `AnswersAsPromised`
checks.

`InclusionWalk` and `ConsistencyWalk`: `fn`, `sn`, `r`, `fr`, `sr` are the code's
variables and `i` the loop over the path; `HashWithLeft`, `SkipPromoted` and
`Climb` are the branch that hashes a left sibling, its inner loop and the two
shifts that end the iteration, `HashWithRight` is the other branch with its
shifts, `Longer` the early return, `Finish` what follows the loop.  `level` counts
the shifts; the code does not have it and no action reads it.  `TransparencyCalls`
computes the same answer differently on purpose (a fold over the path, and the
number of shifts from the divisibility of the index), so that `AnswersAlike`
compares two things; the actual bodies in the two languages are line for line the
same.

`History`: one action per check of `assess_history`, `heads` is its list of
triples, `contradiction` the index behind its reason.  `AssessHistory` is the
TypeScript function, which differs in what it does with `null`.

`Witnessed`: `pc` and `i` are the step of `_verify_witnessed` and its loop's index,
`incomplete` its list, by the step that noted each entry.  `CheckInputs` is steps 1
to 3, `CheckStatement` one iteration of step 4, `CheckStray` and `CheckJoin` of the
two loops of step 5, `CheckRecord` of step 6, `Decide` step 7 and the answer.

`Witnessing` keeps the world's `log`, the records `pending` submission, the head a
witness has `fetched` and not yet stamped, and the `chain` of published statements.
The bundle is then built as `World` of `make-e79-vectors.py` builds it: `Item`,
`Leaves`, `sth`, `statement`, `proof`, `cons` and `bundle` are its functions, and
`Tampered` is its list of failing vectors.  Who does what when (`Sign`, `Submit`,
`Misdate`, `Rewrite`, `Fetch`, `Stamp`) is WITNESS-v1's account of the parties, who
are not in the repository.

`Receipts`: `AttestationFaults`, `_verify_action_record` and
`_verify_signed_envelope` list the rules of the Python functions in their order, so
that the first fault is `result.reason`; `verifyAttestation`, `verifyActionV1` and
`Signed` are the TypeScript functions as conditions.  `Command`: `CheckArguments`
is argparse and the checks after it, `Read` and `Parse` the two ways to exit 2 on a
file, one `Answer` action per branch of `main`.  The file appears when it is read,
since nothing before depends on it.

`Instants` and `Decimals` are functions of the code; `Comparisons` holds the reference
they are compared with and the pairs of texts they are compared on.

### Abstractions

* A Merkle hash is a free term over the entries: `node` is a pair.  Nothing else
  about SHA-256 is used, by the runs or by the proofs.
* The 32-byte and hexadecimal checks of a proof are one Boolean, `hashes`; they
  come at one place of the code, before the walk.
* The signed bytes of a tree head are the tuple of their parts: the two
  prefixes differ after `aqta-sth-`, the size is decimal and the root has a fixed
  length, so the parts can be told apart.

* SHA-256 and the RFC 6962 leaf hash are injective (a tagged copy of the input).
* A signature is the answer of verifying it under the embedded key (`signed`).
* The syntax checks of a record's fields are one Boolean, `form`; `None` inputs,
  wrong members and wrong types of a bundle are the call's `form`.
* In `Complete`, `Chain`, `Issuance` and `Boundary` instants are integers and canonical
  decimals are numbers.  `ComparedExactly` checks that the code's
  comparisons are those of the moments and the numbers; `Witnessing` writes its times out.
* In `Receipts` a value is a class of the texts the checks tell apart ("hex",
  "HEX", "hex and newline"); numbers keep their spelling; identifiers are single
  characters with their code points, so that both sort orders are real; a signature
  is who signed which canonical bytes, and how it is spelled in base64.
* A bundle that reaches `Command` comes with the verdict of its profile verifier.
* A size of a Merkle proof or a head is a number: how JSON spells it is left out (see
  Divergences).
* A reason is its step and position, not its wording.
* A tool pattern is the set of tools it matches; the consumption key keeps the
  parts the code joins into one string apart.

What a proof establishes depends on the size being the log's: index 3 of 4 and
index 6 of 7 share the shape of their path, so a walk told the wrong size accepts
a leaf at another index.  The properties of the walks are therefore stated for
proofs at the size and root of a signed head, which is how `assess_history` uses
them; it looks the pair up among the heads before it runs the walk.

## Runs

| run | question | instance | distinct states |
|---|---|---|---|
| `complete` | does the verifier implement the one-step promise, and what does PASS mean? | 19 checkpoint chains, the subsets of 7 records and 5 defective lists, 18 logs, 3 key sets, several windows | 342,814 |
| `complete_use_args` | is the USE an entry names held to the entry's arguments? (it is not) | the same | stops at the violation |
| `issuance` | what does PASS say about everything signed? what is an honest operator told? | one allowed and one refused request, periods of 2 instants, settle 1, delay 1, horizon 5, at most 2 log entries and 1 omission | 1,357,479 |
| `chain` | as `complete`, for the chain profile; do its comparisons of times and counters agree with the calendar and the numbers? | subsets of 3 grants, 3 uses and 5 actions, 3 approver sets, and 14 defective uses, 11 actions, 6 grants | 108,009 |
| `inclusion` | which inclusion proofs are accepted? | every leaf of every log of up to 9 entries, every proof one change away, every path of up to 3 nodes for logs of up to 3 | 79,109 |
| `consistency` | which consistency proofs are accepted? | every two sizes up to 8, every one-change proof and every fork of one entry or two, every path of up to 2 nodes for sizes up to 3 | 55,489 |
| `history` | do the implementations name one verdict, and what does "consistent" mean? | an honest log of 4 and three rewritten ones, up to 3 heads, 2 links, 2 inclusions, 15 reshaped heads, 5 defective links, 6 defective inclusions | 38,098 |
| `history_null` | is a null `record_timestamp` judged alike? (it is not) | one bundle | stops at the violation |
| `history_first_head` | is a record later than any head that includes it named? (it is not) | one tree signed at two times | stops at the violation |
| `boundary` | what can races and crashes do to an honest bundle, and what can a selective operator hide? | four workers, a single-use grant and its reissue for two uses, an uncounted grant, two instants | 136,482 |
| `witnessed` | does the verifier implement its promise, what does PASS say about when a record was made, and what is an honest issuer told? | an action and a checkpoint, up to 3 statements, 4 instants half a second apart around a midnight, tolerance 1 s, a stamp at most half a second after its fetch, five styles of writing times, 30 edits of a bundle | 183,944 |
| `command` | what does exit 0 vouch for, do the vectors test their rules, do both commands exit alike? | every key, strictness, envelope, profile and draft option, over all vectors, envelopes and bundles, each altered or mangled at most once | 547,919 |

The situations of `complete` and `chain` are those of the repository's vectors,
multiplied: each defect the vectors name is combined with every selection of the
other records, so that a defect met late meets every gap met early.  Two
checkpoints are enough for every relation the code checks between neighbours;
three log entries for first, previous and current; two reissues for a shared
count.  `issuance` has two periods so that a record can be stamped in one and
committed in the other, and a delay as long as the settle interval, the largest
for which the promise can hold.  In `boundary` the horizon lies one instant past
the grants' expiry, so that claims and decisions can fall on either side of it.

Nine entries cover every shape a cursor can meet: full trees, one lonely leaf, a
leaf promoted over three rows (size 9), and for consistency every pair of a power
of two, an odd and an even size.  In `history` two links let a fork follow a good
link, two inclusions let a bad proof follow a contradiction, and three heads let
two equivocating ones stand apart.

`witnessed` needs three statements so that one can be withheld or missing between
two that are shown, and an instant past the tolerance: at half seconds and a
tolerance of one second, a record of instant 0 stamped at instant 2 is just in time
and at instant 3 late by a fraction.  The styles put the midnight where a calendar is
irregular (a new year, both sides of a leap day, a year divisible by 400, a leap
second) and write the two parties' times in different zones.  `ComparedExactly`,
in `chain`, goes through every day of the years 0 to 400, four centuries being the
calendar's period, and of six more years; through all pairs of spellings within three
seconds of each other around six irregular midnights (8 clocks, 5 zones, 6 fractions);
and through all pairs of canonical decimals of up to three digits 0, 1 and 9.  It is
about functions and is the same in every state.  In `command` an alteration
of each member a check looks at follows every vector, so that a second defect meets
the first.

Deadlock is not an error in any of these runs: a verifier stops when it has
answered, and a world stops when a review has been made.

What the runs show, beyond the types:

* `AnswersAsPromised` (both verifiers): the loop machine implements `Verdict`
  under the refinement that maps `verdict` to `answer`, liveness included.
* `WholeWindow`, `ExecutedWasCounted`: the promises of CHECKPOINT-v1 section 8.4.
* `PassHidesNothing`, `OmissionSeen`, `HonestNeverRefuted`: the same promises in
  a running system.  `HonestNeverRefuted` says precisely when an honest bundle
  does *not* pass: when the log, or a record it names, reaches back before the
  first checkpoint presented.  A USE stamped just before a period's end and its
  ACTION just after can only be reviewed with both periods.
* `LimitsKept`, `TracesToApprover`: the promises of USE-v1 section 9.4.  The
  moment an action under a counted grant is held to is its USE's: an action
  signed after the grant expired passes if its USE was claimed before.
* `LimitKept`, `PassOmitsOnlyPairs`, `EveryRequestSettles`, and `Boundary`'s
  `HonestNeverRefuted`: a crash spends a use and never passes; the only thing an
  operator can keep from a PASS bundle is a USE together with its ACTION, as
  section 9.4 concedes.

* `AcceptsExactlyTheGenuine` (both walks): at a signed head there is one accepted
  proof per leaf, and one per older size, and it is the generator's.  For the
  inclusion walk it also says that the rows the walk climbs and the recursive tree of
  RFC 6962 have one root.
* `SameVerdict`: the step machine of one implementation and the whole call of the
  other name one verdict.  `HeadsAreSigned`: no head of another log, nor one with
  another time, key, size or root put in its place, survives.
* `OneHistory`: consistent means one log per size, each link an extension, each
  record at its place in the log of its head and of every log linked after it.
  `HonestNotAccused` includes the lag that is not backdating, and records as old
  as their head.

* `HonestNeverAccused`, `PassHidesNoLateness`, `PassVouchesOneLog`: the promises of
  WITNESS-v1.  Withholding statements hides nothing: a statement that should have
  held a record and does not makes every later selection fail or stay incomplete.
  The honest issuer's bound is lag *plus* the witness's delay.
* `AnswersAsPromised` of `Witnessing`: the loops implement `Inquiry`, whatever world
  asks.
* `ComparedExactly`: days are counted as the calendar has them, and a day that a month
  does not have, which the grammar lets through, as that many days after its last one;
  times are ordered to the last digit across zones and leap seconds, lateness starts
  beyond the tolerance and not at it, and texts of digits are ordered as numbers.
* `VouchedAsSigned`, `VectorsTestTheirRule`, `SameExit`.  `VouchedAsSigned` is stated
  up to what a signature does not cover: the four bits of an 86-character base64url
  text that no byte uses (sixteen spellings of one signature decode alike in both
  implementations), and the spelling of an integral cost.  `SameExit` holds outside
  `Parted`, the divergences listed below.

### Fairness

The verifiers are single-threaded functions that return, hence `WF_vars(Next)`.
`Boundary` assumes that a worker that has not crashed is scheduled
(`WF_vars(Step(req))`); nothing is assumed of crashes, the clock or the
operator.  `EveryRequestSettles` rests on it: a claim that loses a race sends
its worker back for the next index, and every lost race is another worker's
claim, so the retries end.  `Issuance`, `Witnessing` and `Command` state safety
alone: nobody has to sign, stamp, review or pipe a file into a command.  That the
witnessed verifier answers once asked is a matter of four loops over finite lists.

### Divergences

CHECKPOINT-v1 section 8.3 step 7 says that an entry that names a USE leaf finds
that record "with the same `action_id`, `use_id` and `args_hash`, else FAIL".
Both implementations compare a USE's `use_id` and `action_id` only.  The run
`complete_use_args` shows a bundle that passes with a counted USE signed over
other arguments than the entry's.

`transparency.py:304` says that both implementations must name the same verdict.
`history_null`: of `record_timestamp: null` the Python function says nothing, and
the TypeScript one that the proof is invalid.

`transparency.ts:378` describes `timestamp_contradiction` as a record that claims a
time after "a head that already includes it".  `history_first_head`: when one tree
was signed at two times, both functions look at the first such head in the bundle
only, so the verdict depends on the order of the heads.

Others have no run.

* `complete.py:14`: the two implementations "must return the same verdict".  `int()`
  raises beyond the interpreter's limit (4300 digits unless set; `complete.py:152` and
  238-239) and the Python answer is then FAIL "verification error", where `BigInt` goes
  on and accepts.  Only an issuer's own signed counters can be that long.
* `__main__.py:3`: "Exit 0 if valid, 1 if not".  When the reader of an unbuffered output
  has gone, `print` raises `BrokenPipeError` and the module's last lines (391-394) exit 0,
  also for a record found invalid.  `Printed` has that path, and `VouchedAsSigned` is
  about the outputs somebody reads.
* `index.ts:369`: an envelope's padding is relaxed "matching Python's
  `_b64_any_decode`".  Python strips any number of `=` (`verifier.py:246-247`), TypeScript
  adds padding to what is there (`index.ts:159`), so three `=` after a signature of 86
  characters are accepted by one and an error to the other.
* WITNESS-v1 section 7.4 says that a record logged within the tolerance is never
  accused, and `witnessed.py:7-9` that a record missing from a statement was not in the
  log by that moment.  Between the fetch of a head and its stamp it may have been:
  `HonestNeverAccused` holds with the lag and the witness's delay together within the
  tolerance, and fails with the lag alone.
* The same section says of a PASS that "every record entered the log no more than the
  tolerance after the last witnessed head before it".  The code compares the *claimed*
  time: the last statement without the record was stamped at most the tolerance after
  it, and the first one with the record not before it (`witnessed.py`, step 6).  When
  the record entered the log between the two is not shown, and if the witness missed
  runs that may be long after the last head without it.
  `PassHidesNoLateness` says what does follow.
* `reference-issuer.py:125` sorts policy identifiers by code point, where both
  verifiers require UTF-16 order: a receipt it mints for identifiers outside the basic
  plane is refused by both (`GiveAstral`).  The reference action issuer sorts right.
* A size or index of a proof, a head or a history written `4.0` (or `4e0`) is no integer
  to Python, which refuses it (`transparency.py:72-79`), and is 4 to TypeScript, which goes
  on (`Number.isSafeInteger`, `transparency.ts:98-100`), although `transparency.py:304`
  wants one verdict.  A size in the models is a number, not its spelling (`IsSize`), so
  `AnswersAlike` and `SameVerdict` are about sizes that are written as integers.
* The two commands part on `"v": 1.0` (a float to Python, the integer 1 to
  TypeScript), on a key that starts with a dash (argparse takes it for an option), and
  on empty option values (`--key "" --integrity-only` exits 1 in Python, 2 in
  TypeScript; an empty `--envelope` is ignored by Python).  `--help` exits 0 in Python
  and 2 in TypeScript.
* Eleven of the invalid ACTION-v1 vectors are edited after they are signed
  (`test-vectors/action/generate.py`, 004 to 014), which is the weakness that
  `test-vectors/generate.py:239-258` describes and repairs for ATTESTATION-v1: a
  verifier that only checks signatures refuses them too.  `VectorsTestTheirRule`
  therefore asks for a genuine signature in the one suite only.
* The order of an ATTESTATION-v1 receipt's checks differs between the languages, so a
  receipt with two defects is refused for another reason, not with another exit code.

The comment at `transparency.py:304` calls the list
of verdicts a precedence order; between links, and between inclusions, the order is
that of the bundle: a fork in the first link is named although the second has an
unsigned root.  And a member that is not a list (`consistency: {"a": 1}`) is walked
by `for` in Python, which answers `unsigned_root`, and passed over by
`Array.isArray` in TypeScript.

## Proofs

`CompleteProofs` proves, for every set of calls and every ledger, under the
assumptions `ReviewAssumption` (times are integers and the three arrays are
sequences, which is what the syntax checks leave) and `CountedAssumption`
(counted leaves carry integer times):

* `Invariant`: `Spec => []IInv`;
* `TypeCorrect`: `Spec => []TypeOK`;
* `WindowSound`: `Spec => []WholeWindow`;
* `ExecutedSound`: `Spec => []ExecutedWasCounted`.

`WholeWindow` is about the end of a run and is not inductive: when the verdict
is reached the loops that established it are over.  `IInv` says, at every moment,
what each loop has established about the prefix it has walked: the checkpoints
accepted so far tile the line without gap or overlap (`Tiled`), `byLeaf` and
`perCp` are the leaves of the records walked and their partition by period, the
counts walked match exactly unless a gap was recorded, and every entry walked is
reconciled with the records.  The step that does the work is `TilingUnique`: in a
tiling, the first period that contains an instant is the only one.  From `IInv` at
`done` with no gap, each period's bundled leaves hash to the checkpoint's
commitment, so (hashes being injective) they *are* the leaves the issuer counted;
coverage and the tiling put every instant of the window in some period.

`InclusionProofs` and `ConsistencyProofs` prove, for trees of every size and paths of
every length, under `ProofAssumption` (a proof's hashes are terms, its path is a
sequence, its tree is a tree by rows, and, for consistency, the older tree is over a
prefix of the newer one's leaves) and `SizeAssumption`:

* `Invariant`: `Spec => []IInv`, and `TypeCorrect`: `Spec => []TypeOK`;
* `InclusionSound`: `Spec => []AcceptsOnlyTheLeaf`;
* `ConsistencySound`: `Spec => []AcceptsOnlyThePrefix`.

The verifier does not know the tree, so nothing true can be said of the hash it has
computed so far; what is invariant is an implication.  If that hash is the tree's at
the position reached, then the leaf is the tree's at the stated index (for
consistency: if the new hash is the new tree's, then the old hash is the old
tree's).  It holds where the walk begins, each climb carries it one row up because a
node determines its children (`NodeInjective`), and at the top the hash compared is the
signed root.  `RowClimbed` is the arithmetic: halving the cursor and taking the row
above agree, lonely last hashes included.

The other direction, and the second implementation:

* `InclusionAnswersAlike`, `ConsistencyAnswersAlike`: `Spec => []AnswersAlike`.  The
  loops of the one and the shifts of the other give the same answer, for every size,
  index and path.
* `InclusionExact`, `ConsistencyExact`: `Spec => []AcceptsExactlyTheGenuine`.  Against
  signed heads a proof is accepted exactly if its path is the one the generator makes,
  for the leaf or prefix the log really holds; and the root by rows is the root by
  recursion.

`InStep` is the invariant behind the first pair: the walk is somewhere on the climb
from the row the whole call is at to the row it will shift to, and on the way the
cursor has what the shift skips (`RowSkipped`; `RowAligned` where a consistency check
climbs before it has read a node).  `Zeros` is the number of such rows because it is
what divides the index (`ZerosHalved`, `ZerosOdd`).

The second pair goes through the whole calls, of which `MerkleLemmas` proves what they
accept (`InclusionExactly`, `ConsistencyExactly`).  The walk climbs rows and the
generator recurses on slices cut at a power of two, so everything rests on
`RootOfRows`: a slice that starts at a multiple of a power of two and is cut there, or
ends with the list, has the hash found in that row.  From it, each recursion of the
generator adds the one node the verifier consumes at that height (`InclusionAccepted`,
`ConsistencyAccepted`); and no second path is accepted, because with the same indices
every accepted path has the same length and at each node the same root fixes both
children (`PathUnique`).

`ChainProofs` proves, for every set of calls under `CallAssumption` (sequences,
and counters that are naturals, which is what the syntax checks leave) and
`LimitAssumption` (no limit is not a number):

* `Invariant`, `TypeCorrect`: `IInv` says, loop by loop, that nothing walked so
  far is refuted and that `by_action`, `by_hash`, the USE ids, the claims and the named
  actions are exactly those of what was walked, each under its own key.  A later loop
  reads an earlier one's lookups, so its part of the invariant is about both.
* `AnswersOnlyAsPromised`: `Spec => Oracle!Safety`, the refinement of `Verdict`
  without its liveness.  A loop that stops stops at a contradiction, which the
  order-free rule finds too wherever it stands; at `Finish` everything has been
  walked.  `CompleteProofs` has the same theorem.
* `TracesSound`: `Spec => []TracesToApprover`.
* `LimitsSound`: `Spec => []LimitsKept`.  A PASS gives each ALLOWED action under a
  counted grant a USE, no two the same claim; mapping each to its USE's index is an
  injection into `1..maxUses`, reissues of the grant's intent included, because they
  share the consumption key.

`IssuanceProofs` proves `TypeCorrect`, `PassHidesSound`, `OmissionSound` and
`HonestSound`: the run's four properties, for any requests, periods, settle interval
and horizon.  `IssuanceAssumption` includes what the specification asks of an
issuer, that no record waits to be committed longer than the settle interval; the
promise is false without it.  `RequestAssumption` says that ids are not empty.
The invariant's core is that a checkpoint *goes on* committing to its period: `hash` was
computed from the ledger once, the ledger grows ever after, and the equation
survives because everything in flight is stamped in a period not yet counted
(`SignedInv`).  Beside it, the periods tile the time counted (`PeriodsInv`) and
an executor's entry agrees with the committed records it names (`LogInv`).

`BoundaryProofs` proves `TypeCorrect`, `LimitSound`, `PassOmitsSound` and
`HonestSound` for any requests and any interleaving of claims, decisions, crashes and
retries, under `BoundaryAssumption` (the keys the reviewer designates are keys) and
`RequestAssumption` (grants are signed by designated approvers; a request has an
action id of its own).  The invariant relates a worker's phase to what it has committed: a
claim is its worker's only one, under an index no other USE has, and a decision is
the worker's last step, ALLOWED with what the grant asks for or BLOCKED with nothing
claimed.  `EveryRequestSettles` is liveness and stays with TLC.

`WitnessingProofs` proves, under `WitnessingAssumption` (the bounds are naturals; the
evidence spans less than a day, and the two dates of a style are a day and the day
after it; there is a first style; the time authority is not the issuer, and the
stranger of the edits is neither the issuer nor the other organisation), for any ids,
styles and tolerance:

* `Invariant`, `TypeCorrect`: heads hold what was logged when they were fetched,
  stamps follow fetches and one another, and only a rewrite makes a log lose a prefix.
* `AnswersPromised`: `Spec => AnswersAsPromised`, the whole refinement of `Inquiry`,
  which promises no answer and so has no liveness.  `IInv` combines the world's part
  with the loops' (`SoundSoFar`, `GapsInv`: something is noted exactly when something
  walked so far is lacking); that a bundle is three arrays is proved of what `World`
  builds and of every edit of it (`BundleArrays`, `TamperedArrays`).
* `VouchesSound`: `Spec => []PassVouchesOneLog`.
* `LatenessSound`: `Spec => []PassHidesNoLateness`.
* `HonestSpared`: `Spec => []HonestNeverAccused`, under `HonestAssumption` too: the
  issuer's and the authority's keys are keys, the ticks are times that are there, a leaf
  of another is not a record, and the tolerance and the number of entries are sizes the
  verifiers read (at most 2^53 - 1; they refuse larger ones, whoever sends them).

The last three are about the verdict, and need to know where the bundle came from.  The
world's part of `IInv` therefore says of every head, published (`ChainInv`) or only
fetched (`FetchedInv`), that it holds nothing logged later and no id twice (`HeadInv`),
that no record waits under an id that is logged (`PendingInv`), and that the bundle
under review is a selection of what is published, whole or with one edit (`ReviewInv`).
From there:

* A root is of one list (`RootInjective`), since a node determines its children; so a
  consistency proof the verifier accepts makes the witnessed log a prefix of the
  operator's (`JoinedPrefix`), and an inclusion proof puts the record's own leaf where it
  says.  Leaves of different records differ (`LeavesDiffer`), so that place is the record's.
* An edit that survives the checks leaves the statements, the tolerance and what the
  records are of as they were (`TamperedKeeps`, one case for each edit).
* Times compare as the ticks they spell (`WrittenCompared`), in any zone, with digits to
  spare and across a leap second; the one edit that moves a stamp moves it back a
  year and a year earlier is earlier (`YearEarlier`).
* The first statement shown that holds the record is next to the last shown that does
  not (`FirstHolder`).  The verifier refuses a gap in the sequence numbers, so these two
  were published one after the other, and every published statement before them lacks
  the record too.
* For an issuer that tells the truth every check has to be shown to pass.  Beside `IInv`
  this takes `GrownInv`, which is about time: until the log is rewritten only records are
  added to it, at its end, and what a head misses was logged when or after the head was
  fetched.  So each published log is a prefix of the target (`TargetSeen`), and the
  proofs the operator makes of them are accepted (`InclusionAccepted`,
  `ConsistencyAccepted`: `LinksPlain`, `JoinPlain`, `RecordPlain`).  A head that holds a record
  was stamped after its time, and the last one shown that does not was fetched before the
  record was logged, hence stamped within lag and delay of its time (`TimePlain`).  A
  statement that holds every record bounds them all (`TimeShown`), and then the answer is
  PASS.

Facts about recursive definitions (`SliceRootEquation`, `StatementEquation`, and
`SliceRootInjective`) are proved through a least counterexample (`Least`, `Induct`):
the library's induction theorems take an operator, but a set of counterexamples is a
set.

Model-checked only: liveness (`EveryRequestSettles`, and that `Complete` and `Chain`
answer at all); everything about `History`, the single records and the command
line; and the agreement of instants with the calendar and of decimals with numbers
(`ComparedExactly`; the proofs use of the calendar only that a style's dates follow
each other).

## Not modelled

* The proof command (`verify_proof.py`): it reads one file, chooses one of the
  transparency functions by the members it finds, and prints what they answer; the
  functions are modelled.
* Acceptances: the reference acceptance issuer and its vectors are records that no
  verifier under `packages/` reads.
* The bytes: JSON escapes, float rendering, SHA-256, Ed25519 and the check of a
  signature's scalar are terms; what the checks tell apart of them is in `Receipts`.
* What is printed, in which colour, and the files the generators write.
* The optional fetch of a published key, the fuzzers, the interop sweeps, the
  conformance report and the release scripts: they hold no state of the verifiers, and
  call what is modelled on inputs the runs enumerate.

## Plan

The models are complete as planned; what is left are proofs, in this order.

1. `History`: `HeadsAreSigned`, `SameVerdict`, and `OneHistory` from `ConsistencyExactly`
   and `InclusionExactly`.
2. `Command`: `TypeOK` and `VouchedAsSigned` for every command line and every file.
