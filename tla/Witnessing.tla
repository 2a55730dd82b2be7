----------------------------- MODULE Witnessing -----------------------------
(***************************************************************************)
(* Where a `witnessed` bundle comes from: an issuer who signs records and  *)
(* submits them to a shared public log, now or later, and may say that it  *)
(* signed them at another time or rewrite the log; a witness who fetches a *)
(* head, has it stamped some time afterwards and may miss any of its runs; *)
(* and an operator who shows a reviewer a part of what was published,      *)
(* perhaps edited.  Bundles are built as World of                          *)
(* scripts/make-e79-vectors.py builds them.                                *)
(*                                                                         *)
(* The clock ticks in half seconds and starts one second before a          *)
(* midnight, in UTC: that is where offsets and calendars matter.  How each *)
(* party writes its times is a style, chosen when the bundle is built.     *)
(***************************************************************************)
EXTENDS Witnessed, MerkleGenerator

DatesFollow(style) ==
  /\ \A d \in {style.before, style.after} : {d[1], d[2], d[3]} \subseteq Int
  /\ days_from_civil(style.after[1], style.after[2], style.after[3])
       = days_from_civil(style.before[1], style.before[2], style.before[3]) + 1

CONSTANTS
  Issuer, Authority, Stranger,   \* keys: log and records, time authority, anyone
  Ids,                           \* the records the issuer may sign
  Horizon,                       \* the tick at which the evidence is reviewed
  Tolerance,                     \* in seconds
  MaxStatements,
  MaxGap,                        \* bound: ticks between a fetch and its stamp
  Styles,                        \* see Written
  Other,                         \* another organisation, or its leaf in the log
  NoHead                         \* the witness has fetched nothing

\* What the log says of one of the issuer's records.
Logged == [id : Ids \cup {"checkpoint"}, claims : 0..(Horizon + 1), signed : Nat, logged : Nat]

\* The evidence spans less than a day, and a style's two dates follow each other.
ASSUME WitnessingAssumption ==
  /\ {Horizon, Tolerance, MaxStatements, MaxGap} \subseteq Nat /\ Horizon < 86400
  /\ 1 \in DOMAIN Styles
  /\ \A n \in DOMAIN Styles : DatesFollow(Styles[n])
  /\ Authority # Issuer /\ Stranger \notin {Issuer, Other}

\* What an honest bundle needs: keys that are keys, times that are there, a
\* leaf of another that is not a record, and a tolerance and a log of a size
\* that the verifiers read.
ASSUME HonestAssumption ==
  /\ NoKey \notin {Issuer, Authority} /\ NoKeySet # {Authority}
  /\ \A tick \in 0..Horizon : tick \notin {NoValue, Null}
  /\ Other \notin Logged
  /\ Tolerance =< MaxSafeSize
  /\ IsFiniteSet(Ids) /\ Cardinality(Ids) + 2 =< MaxSafeSize

VARIABLES
  now,
  log,          \* the entries of the public log: what was logged and when
  pending,      \* records signed and not yet submitted
  rewritten,    \* the issuer has put an entry before entries already logged
  fetched,      \* the head the witness holds, not stamped yet
  chain,        \* the published statements: the log that was seen, and when
  review        \* what the operator built the bundle of

world == <<now, log, pending, rewritten, fetched, chain, review>>
vars  == <<world, verifier>>

-----------------------------------------------------------------------------
(* How a time is written *)

\* How far a zone's clocks are ahead of UTC, in seconds.
Shift(zone) == CASE zone = "+" -> 3600 [] zone = "-" -> -3600 [] OTHER -> 0

\* The digits of a half second or of a whole one, with zeros to spare.
HalfFraction(half, padded) ==
  IF half THEN IF padded THEN <<5, 0, 0>> ELSE <<5>>
  ELSE IF padded THEN <<0, 0>> ELSE <<>>

\* The spelling of a tick: in the zone, with a half second or without, and
\* with digits to spare if padded; "leap" writes midnight as second 60.
Written(style, spelling, tick) ==
  LET local == tick \div 2 - 1 + Shift(spelling.zone)
      leap  == spelling.zone = "leap" /\ local = 0
      date  == IF local < 0 \/ leap THEN style.before ELSE style.after
      clock == IF leap THEN 86399 ELSE local % 86400
  IN  [year |-> date[1], month |-> date[2], day |-> date[3],
       hour |-> clock \div 3600, minute |-> (clock \div 60) % 60,
       second |-> IF leap THEN 60 ELSE clock % 60,
       fraction |-> HalfFraction(tick % 2 = 1, spelling.padded),
       sign |-> IF spelling.zone = "leap" THEN "Z" ELSE spelling.zone,
       offHour |-> IF spelling.zone \in {"+", "-"} THEN 1 ELSE 0, offMinute |-> 0]

-----------------------------------------------------------------------------
(* The bundle, as World builds it *)

\* A record is an action, or a checkpoint of the tick before it.
Item(style, e) ==
  LET written == Written(style, style.claims, e.claims)
      action  == [form |-> TRUE, signed |-> TRUE, key |-> Issuer, id |-> e.id, time |-> e.claims,
                  timestamp |-> written]
      checkpoint ==
        [form |-> TRUE, signed |-> TRUE, key |-> Issuer, id |-> e.id, time |-> e.claims,
         timestamp |-> written, seq |-> 1, prev |-> NoHash, start |-> e.claims - 1,
         end |-> e.claims, count |-> 0, total |-> 0, hash |-> Profile!RecordsHash({})]
  IN  IF e.id = "checkpoint" THEN [kind |-> "checkpoint", record |-> checkpoint]
      ELSE [kind |-> "action", record |-> action]

Foreign(org) == leaf_hash(<<org>>)

Leaves(style, entries) ==
  [k \in DOMAIN entries |->
     IF entries[k] = Other THEN Foreign(Other)
     ELSE leaf_hash(Profile!RecordLeaf(Item(style, entries[k])))]

\* A head of the public log
sth(leaves, tick) ==
  LET h == [log |-> "public", org_id |-> NoValue, tree_size |-> Len(leaves), form |-> TRUE,
            root_hash |-> merkle_root(leaves), timestamp |-> tick, signature |-> Null]
  IN  [h EXCEPT !.signature = [key |-> Issuer, over |-> Preimage(h)]]

statement(style, seq, prev, head, tick) ==
  [form |-> TRUE, signed |-> TRUE, key |-> Authority, id |-> "witness", seq |-> seq, prev |-> prev,
   logKey |-> Issuer, size |-> head.tree_size, root |-> head.root_hash, headTime |-> head.timestamp,
   headSignature |-> head.signature, at |-> Written(style, style.stamps, tick)]

\* Every statement published, each naming the one before it.
Statements(style) ==
  LET named(k) == sth(Leaves(style, chain[k].log), chain[k].fetched)
      st[k \in DOMAIN chain] ==
        statement(style, k, IF k = 1 THEN NoHash ELSE StatementHash(st[k - 1]), named(k), chain[k].at)
  IN  [k \in DOMAIN chain |-> st[k]]

proof(leaves, k) ==
  [tree_size |-> Len(leaves), leaf_index |-> k - 1, leaf_hash |-> leaves[k],
   root_hash |-> merkle_root(leaves), audit_path |-> inclusion_path(leaves, k - 1), hashes |-> TRUE]

\* The members of a finite set of integers, the smallest first.
Ascending(S) ==
  [k \in 1..Cardinality(S) |-> CHOOSE x \in S : Cardinality({y \in S : y =< x}) = k]

\* One proof per size, from the log that the head is of.
cons(statements, leaves) ==
  LET sizes == {n \in 1..(Len(leaves) - 1) : \E k \in DOMAIN statements : statements[k].size = n}
      link(n) == [object |-> TRUE, old_size |-> n, new_size |-> Len(leaves), hashes |-> TRUE,
                  old_root |-> merkle_root(SubSeq(leaves, 1, n)), new_root |-> merkle_root(leaves),
                  consistency_path |-> consistency_path(leaves, n)]
      order == Ascending(sizes)
  IN  [j \in DOMAIN order |-> link(order[j])]

\* v: the style, the statements shown, and the log the head is of.
bundle(v) ==
  LET leaves     == Leaves(v.style, v.target)
      published  == Statements(v.style)
      order      == Ascending(v.shown)
      statements == [n \in DOMAIN order |-> published[order[n]]]
      ours       == Ascending({k \in DOMAIN v.target : v.target[k] # Other})
  IN  [pinned |-> Issuer, witnessKeys |-> {Authority}, tolerance |-> Tolerance, form |-> TRUE,
       head |-> sth(leaves, now), witnessed |-> statements, links |-> cons(statements, leaves),
       records |-> [n \in DOMAIN ours |->
                      LET item == Item(v.style, v.target[ours[n]]) IN
                      [form |-> TRUE, proof |-> proof(leaves, ours[n]),
                       kind |-> item.kind, record |-> item.record]]]

-----------------------------------------------------------------------------
(* The issuer, the log and the witness *)

\* The log starts with a leaf of another organisation and a checkpoint of ours.
Early == [id |-> "checkpoint", claims |-> 0, signed |-> 0, logged |-> 0]

Init ==
  /\ now = 0
  /\ log = <<Other, Early>> /\ pending = {} /\ rewritten = FALSE
  /\ fetched = NoHead /\ chain = <<>>
  /\ review = NoCall
  /\ VerifierInit

\* Nobody has asked for a review yet.
Open == pc = "idle" /\ UNCHANGED <<review, verifier>>

Tick ==
  /\ Open /\ now < Horizon
  /\ now' = now + 1
  /\ UNCHANGED <<log, pending, rewritten, fetched, chain>>

Entries(s) == {s[k] : k \in DOMAIN s} \ {Other}
Unused(id) == \A e \in pending \cup Entries(log) : e.id # id

\* An honest record claims the present, and is submitted now or later.
Sign(id) ==
  /\ Open /\ Unused(id)
  /\ pending' = pending \cup {[id |-> id, claims |-> now, signed |-> now]}
  /\ UNCHANGED <<now, log, rewritten, fetched, chain>>

Submit(e) ==
  /\ Open
  /\ log' = Append(log, [id |-> e.id, claims |-> e.claims, signed |-> e.signed, logged |-> now])
  /\ pending' = pending \ {e}
  /\ UNCHANGED <<now, rewritten, fetched, chain>>

Misdated(id, claims) == [id |-> id, claims |-> claims, signed |-> now, logged |-> now]

\* A record that claims another time, signed and submitted now.
Misdate(id, claims) ==
  /\ Open /\ Unused(id)
  /\ log' = Append(log, Misdated(id, claims))
  /\ UNCHANGED <<now, pending, rewritten, fetched, chain>>

\* The issuer backdates a record and inserts it where the log was witnessed.
Rewrite(id, k) ==
  /\ Open /\ Unused(id)
  /\ chain # <<>> /\ k =< Len(chain[Len(chain)].log)
  /\ log' = InsertAt(log, k, Misdated(id, 0))
  /\ rewritten' = TRUE
  /\ UNCHANGED <<now, pending, fetched, chain>>

\* The scheduled run of a witness: the head is fetched, then stamped.  Runs are
\* a tick or more apart, and any of them may be missed.
Fetch ==
  /\ Open /\ fetched = NoHead /\ Len(chain) < MaxStatements
  /\ chain # <<>> => chain[Len(chain)].fetched < now
  /\ fetched' = [log |-> log, fetched |-> now]
  /\ UNCHANGED <<now, log, pending, rewritten, chain>>

Stamped(head) == [log |-> head.log, fetched |-> head.fetched, at |-> now]

\* Mutant: a head that was stamped is kept, and stamped again.
MutStampAgain ==
  /\ Open /\ fetched # NoHead /\ Len(chain) < MaxStatements
  /\ chain' = Append(chain, Stamped(fetched))
  /\ UNCHANGED <<now, log, pending, rewritten, fetched>>

Stamp ==
  /\ Open /\ fetched # NoHead /\ now - fetched.fetched =< MaxGap
  /\ chain' = Append(chain, Stamped(fetched))
  /\ fetched' = NoHead
  /\ UNCHANGED <<now, log, pending, rewritten>>

-----------------------------------------------------------------------------
(* What an operator may make of an honest bundle *)

EditLast(s, x) == [s EXCEPT ![Len(s)] = x]
Resigned(w, head) == [w EXCEPT !.size = head.tree_size, !.root = head.root_hash,
                               !.headTime = head.timestamp, !.headSignature = head.signature]

\* The last statement, in every way that a statement can be wrong: signed by
\* another key or about another log's head, malformed, edited, stamped before
\* the statement before it, or naming a smaller, a forked or a larger tree.
OddStatements(w, prior, leaves) ==
  LET forked == [SubSeq(leaves, 1, prior.size) EXCEPT ![1] = Foreign(Stranger)] IN
  {[w EXCEPT !.key = Issuer], [w EXCEPT !.logKey = Stranger],
   [w EXCEPT !.headSignature.key = Stranger], [w EXCEPT !.headTime = @ + 1],
   [w EXCEPT !.form = FALSE], [w EXCEPT !.signed = FALSE], [w EXCEPT !.at.year = @ - 1],
   Resigned(w, sth(SubSeq(leaves, 1, 1), now)), Resigned(w, sth(forked, now)),
   Resigned(w, sth(Append(leaves, Foreign(Other)), now))}

OddHeads(h) == {[h EXCEPT !.timestamp = @ + 1], [h EXCEPT !.log = "org"]}

OddLinks(c) ==
  {[c EXCEPT !.consistency_path = Append(@, Foreign(Stranger))], [c EXCEPT !.old_size = 0],
   [c EXCEPT !.object = FALSE]}

OddItems(x) ==
  {[x EXCEPT !.proof.tree_size = @ - 1], [x EXCEPT !.proof.leaf_hash = Foreign(Other)],
   [x EXCEPT !.proof.audit_path = Append(@, Foreign(Stranger))], [x EXCEPT !.record.signed = FALSE],
   [x EXCEPT !.record.key = Stranger], [x EXCEPT !.form = FALSE]}

\* The malformed and the forged, one per vector of the generator.
Tampered(r, leaves) ==
  LET n == Len(r.witnessed) IN
  UNION {{[r EXCEPT !.witnessed = EditLast(@, w)] :
            w \in OddStatements(r.witnessed[n], r.witnessed[n - 1], leaves)},
         {[r EXCEPT !.head = h] : h \in OddHeads(r.head)},
         IF r.links = <<>> THEN {}
         ELSE {[r EXCEPT !.links = EditLast(@, c)] : c \in OddLinks(Last(r.links))},
         IF r.records = <<>> THEN {}
         ELSE {[r EXCEPT !.records = EditLast(@, x)] : x \in OddItems(Last(r.records))},
         {[r EXCEPT !.form = FALSE], [r EXCEPT !.tolerance = -1], [r EXCEPT !.pinned = NoKey],
          [r EXCEPT !.pinned = Stranger], [r EXCEPT !.witnessKeys = {Authority, NoKey}],
          [r EXCEPT !.witnessKeys = NoKeySet],
          [r EXCEPT !.witnessed = <<>>], [r EXCEPT !.records = <<>>], [r EXCEPT !.links = <<>>]}}

\* What the operator shows of what was published: the last of the statements,
\* the first ones with the log that was witnessed then, or the first and the
\* last.  The whole of an honest log is shown in every style, anything else in
\* the first.
Selection(style, shown, target) == [style |-> style, shown |-> shown, target |-> target]
Whole(style) == Selection(style, DOMAIN chain, log)

Selections ==
  {Whole(Styles[n]) : n \in IF rewritten THEN {1} ELSE DOMAIN Styles}
  \cup {Selection(Styles[1], k..Len(chain), log) : k \in DOMAIN chain}
  \cup {Selection(Styles[1], 1..k, chain[k].log) : k \in DOMAIN chain}
  \cup {Selection(Styles[1], DOMAIN chain \ 2..(Len(chain) - 1), log)}

\* Evidence is reviewed when nothing is in flight: what is, is in no bundle.
Settled == pc = "idle" /\ now = Horizon /\ pending = {} /\ fetched = NoHead

Present(v, r, edited) ==
  /\ review' = [style |-> v.style, shown |-> v.shown, target |-> v.target, tampered |-> edited]
  /\ Call(r)
  /\ UNCHANGED <<now, log, pending, rewritten, fetched, chain>>

Review == Settled /\ \E v \in Selections : Present(v, bundle(v), FALSE)

ReviewTampered ==
  LET v == Whole(Styles[1]) IN
  /\ Settled
  /\ ~rewritten /\ Len(chain) = MaxStatements /\ MaxStatements > 1
  /\ \A k \in DOMAIN chain : chain[k].at = chain[k].fetched
  /\ \E r \in Tampered(bundle(v), Leaves(v.style, log)) : Present(v, r, TRUE)

Publish ==
  \/ Tick \/ Fetch \/ Stamp
  \/ \E id \in Ids : Sign(id)
  \/ \E e \in pending : Submit(e)
  \/ \E id \in Ids, claims \in {0, now + 1} : Misdate(id, claims)
  \/ \E id \in Ids, k \in 1..Len(log) : Rewrite(id, k)

Next == Publish \/ Review \/ ReviewTampered \/ (Verify /\ UNCHANGED world)

Spec == Init /\ [][Next]_vars

-----------------------------------------------------------------------------
(* Properties *)

Ticks == 2 * Tolerance

\* Only what was published can be reviewed, in the order it was published: a
\* statement is stamped no earlier than its head was fetched, of a log that
\* holds nothing logged after that, and only a rewritten log loses a prefix.
TypeOK ==
  /\ now \in 0..Horizon
  /\ \A k \in DOMAIN chain :
       /\ chain[k].fetched =< chain[k].at /\ chain[k].at =< now
       /\ \A e \in Entries(chain[k].log) : e.signed =< e.logged /\ e.logged =< chain[k].fetched
       /\ k > 1 => chain[k - 1].at =< chain[k].fetched
       /\ ~rewritten => IsPrefix(chain[k].log, log)
  /\ pc = "done" <=> verdict # "none"
  /\ incomplete \subseteq {"witness keys", "join", "time"}

Oracle == INSTANCE Inquiry WITH asked <- pc # "idle", answer <- verdict

\* witnessed.py:13-16: the verdict is a function of the call, not of the order
\* of the checks: FAIL outranks INCOMPLETE, which outranks PASS.
AnswersAsPromised == Oracle!Spec

\* The issuer told the truth, and each record was logged and each head stamped
\* so soon that both delays together are within the tolerance; the operator
\* left no statement out between two that are shown.
Honest(v) ==
  LET lag == {e.logged - e.signed : e \in Entries(log)}
      gap == {chain[k].at - chain[k].fetched : k \in DOMAIN chain} IN
  /\ ~rewritten /\ ~v.tampered
  /\ \E m, n \in 0..Len(chain) : v.shown = m..n
  /\ \A e \in Entries(log) : e.claims = e.signed
  /\ \A d \in lag, g \in gap : d + g =< Ticks

\* WITNESS-v1 section 7.4: a record that was logged within the tolerance is
\* not accused, whatever part of the chain is shown, wherever a missed run
\* leaves a hole, and however times are written.  (The gap between fetching a
\* head and stamping it counts: section 1 does not say so.)  And the whole
\* evidence passes once a statement holds every record, if the first one was
\* stamped in time.
HonestNeverAccused ==
  verdict # "none" /\ Honest(review) =>
    /\ verdict # "FAIL"
    /\ /\ review.shown = DOMAIN chain /\ review.target = log
       /\ Entries(log) # {} /\ chain # <<>>
       /\ Entries(chain[Len(chain)].log) = Entries(log)
       /\ \A e \in Entries(log) : chain[1].at =< e.claims + Ticks
       => verdict = "PASS"

\* What a PASS does not hide, though statements may be withheld: no statement
\* published up to the last one shown was stamped more than the tolerance
\* after a record's claimed time and does not hold it; and none that holds it
\* was stamped before that time.
PassHidesNoLateness ==
  verdict = "PASS" =>
    \A item \in {call.records[n] : n \in DOMAIN call.records}, k \in DOMAIN chain :
      LET held == \E e \in Entries(chain[k].log) : e.id = item.record.id IN
      /\ chain[k].at > item.record.time + Ticks /\ (\E m \in review.shown : k =< m) => held
      /\ held /\ k \in review.shown => item.record.time =< chain[k].at

\* A PASS vouches for one log: every statement is one that was published, and
\* saw a prefix of the log that the records are proved to be in.
PassVouchesOneLog ==
  verdict = "PASS" =>
    /\ \A n \in DOMAIN call.witnessed :
         LET w == call.witnessed[n] IN
         /\ w = Statements(review.style)[w.seq]
         /\ IsPrefix(chain[w.seq].log, review.target)
    /\ \A n \in DOMAIN call.records :
         LET e == review.target[call.records[n].proof.leaf_index + 1] IN
         e # Other /\ e.id = call.records[n].record.id /\ e.claims = call.records[n].record.time

-----------------------------------------------------------------------------
(* The inductive invariant of the world *)

Waiting == [id : Ids, claims : 0..now, signed : 0..now]

\* A log in which nothing was logged after the tick, and nothing twice.
LoggedBy(entries, tick) ==
  /\ entries \in Seq(Logged \cup {Other}) /\ Len(entries) >= 2
  /\ \A e \in Entries(entries) : e.signed =< e.logged /\ e.logged =< tick
  /\ \A j, k \in DOMAIN entries :
       entries[j] # Other /\ entries[k] # Other /\ entries[j].id = entries[k].id => j = k

PendingInv ==
  /\ pending \subseteq Waiting
  /\ \A w, x \in pending : w.id = x.id => w = x
  /\ \A w \in pending, e \in Entries(log) : w.id # e.id

\* A head, when it was fetched.
HeadInv(head) ==
  /\ head.fetched \in 0..now
  /\ LoggedBy(head.log, head.fetched)
  /\ Entries(head.log) \subseteq Entries(log)
  /\ ~rewritten => IsPrefix(head.log, log)

\* A head that was fetched after a statement was published, of a log that has
\* lost nothing since.
Follows(head, st) == st.at =< head.fetched /\ Entries(st.log) \subseteq Entries(head.log)

ChainInv ==
  /\ IsArray(chain)
  /\ \A k \in DOMAIN chain : HeadInv(chain[k]) /\ chain[k].at \in chain[k].fetched..now
  /\ \A j, k \in DOMAIN chain : j < k => Follows(chain[k], chain[j])

FetchedInv ==
  fetched # NoHead => HeadInv(fetched) /\ \A k \in DOMAIN chain : Follows(fetched, chain[k])

\* What is reviewed is a selection of what is published, edited or not.
ReviewInv ==
  pc # "idle" =>
    \E v \in Selections, edited \in BOOLEAN :
      /\ review = [style |-> v.style, shown |-> v.shown, target |-> v.target, tampered |-> edited]
      /\ IF edited
         THEN /\ ~rewritten /\ Len(chain) > 1 /\ v = Whole(Styles[1])
              /\ call \in Tampered(bundle(v), Leaves(v.style, log))
         ELSE call = bundle(v)

\* A head holds all that had been logged when it was fetched.
MissesOnly(head) == \A m \in DOMAIN log : m > Len(head.log) => log[m].logged >= head.fetched

\* While the log is not rewritten, it grows by records of ours at its end.
GrownInv ==
  ~rewritten =>
    /\ \A m \in DOMAIN log : m > 1 => log[m] # Other
    /\ \A k \in DOMAIN chain : MissesOnly(chain[k])
    /\ fetched # NoHead => MissesOnly(fetched)

IInv ==
  /\ now \in 0..Horizon /\ rewritten \in BOOLEAN
  /\ LoggedBy(log, now)
  /\ PendingInv
  /\ ChainInv
  /\ FetchedInv
  /\ ReviewInv
  /\ VerifierInv
=============================================================================
