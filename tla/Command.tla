------------------------------ MODULE Command ------------------------------
(***************************************************************************)
(* aqta-verify-receipt: main of __main__.py, from the command line to the  *)
(* exit code, and main of cli.ts beside it.  The world hands over a file:  *)
(* a conformance vector, a foreign envelope or a bundle, perhaps altered   *)
(* after it was signed, perhaps not JSON at all.  What a file held before  *)
(* it is read does not matter, so it appears when the command reads it.    *)
(*                                                                         *)
(* The bundle verifiers are Chain, Complete and Witnessed; here a bundle   *)
(* comes with the verdict they give it.                                    *)
(***************************************************************************)
EXTENDS Vectors

CONSTANTS
  CommandLines,         \* the command lines tried
  NoFile, NoExit        \* nothing read, nothing answered

VARIABLES
  args,         \* the parsed options
  file,         \* what the file holds: its text, a vector, its suite, a bundle's verdict
  pc,           \* "idle", "arguments", "reading", "parsing", "answering", "done"
  reason,       \* result.reason of a single record
  exit          \* the exit code

vars == <<args, file, pc, reason, exit>>

Verdicts == {"PASS", "FAIL", "INCOMPLETE"}
Profiles == {"action-1", "chain", "complete", "witnessed"}

\* What the draft-profile options apply to.
Owner == [review |-> "complete", executors |-> "complete",
          witnesses |-> "witnessed", tolerance |-> "witnessed"]

BUNDLE_MEMBERS ==
  [chain     |-> {"v", "grants", "uses", "actions"},
   complete  |-> {"v", "org_id", "checkpoints", "records", "executions"},
   witnessed |-> {"v", "head", "witnessed", "consistency", "records"}]

Given(o) == o # NoOption
Blank(o) == o \in {NoOption, ""}

-----------------------------------------------------------------------------
(* The file.                                                               *)

Text(text, vector, suite, verdict) ==
  [text |-> text, vector |-> vector, suite |-> suite, verdict |-> verdict, altered |-> FALSE]

HandOver(f) == pc = "reading" /\ file = NoFile /\ file' = f /\ UNCHANGED <<args, pc, reason, exit>>

GiveAttestation ==
  \E vector \in AttestationValid \cup AttestationInvalid :
     HandOver(Text("object", vector, "ATTESTATION-v1", "FAIL"))

GiveAction ==
  \E vector \in ActionValid \cup ActionInvalid :
     HandOver(Text("object", vector, "ACTION-v1", "FAIL"))

\* A receipt the reference issuer mints for policies outside the BMP.
GiveAstral ==
  \E policy \in {<<"emoji", "private">>, <<"private", "emoji">>} :
     LET doc == ReferenceIssuer([_base_payload EXCEPT !.policy_applied = List(policy)]) IN
     HandOver(Text("object", Defect(doc, "attestation", "policy order"), "none", "FAIL"))

\* Another issuer's envelope, which only shares the canonical form.
GiveAnchor ==
  \E outcome \in {"ALLOWED", "MAYBE"}, key \in {"issuer", "other"} :
     LET payload == [v |-> "2", outcome |-> outcome, public_key_b64 |-> key]
         doc     == With(payload, "signature_b64", Sign(key, Canonical(payload)))
     IN HandOver(Text("object", Whole(doc, "anchor"), "none", "FAIL"))

GiveBundle ==
  \E p \in DOMAIN BUNDLE_MEMBERS, verdict \in Verdicts :
     LET doc == [m \in BUNDLE_MEMBERS[p] |-> "text"]
     IN HandOver(Text("object", Whole(doc, p), "none", verdict))

\* One member changes, appears or disappears on the way.
Altered(doc) ==
  ({With(doc, m, [doc[m] EXCEPT !.spelled = how]) :
     m \in DOMAIN doc \cap {"signature", "signature_b64"},
     how \in {"slack", "changed", "padded", "padded thrice", "standard", "newline", "short", "no text"}}
  \cup {With(doc, "v", x) : x \in {"1.0", "true", "action-1"}}
  \cup {With(doc, "cost_prevented_eur", x) : x \in {"1", "1.0", "-5"}}
  \cup {With(doc, "outcome", "PASSED"), With(doc, "note", "text"), Without(doc, {"public_key"})})
  \ {doc}

Alter ==
  /\ pc = "reading" /\ file # NoFile
  /\ ~file.altered
  /\ \E doc \in Altered(file.vector.doc) :
        file' = [file EXCEPT !.vector.doc = doc, !.altered = TRUE]
  /\ UNCHANGED <<args, pc, reason, exit>>

Mangle ==
  /\ pc = "reading" /\ file # NoFile
  /\ ~file.altered
  /\ \E text \in {"no file", "not UTF-8", "not JSON", "NaN", "duplicate names", "no object"} :
        file' = [file EXCEPT !.text = text, !.altered = TRUE]
  /\ UNCHANGED <<args, pc, reason, exit>>

-----------------------------------------------------------------------------
(* __main__.py.                                                            *)

Exit(code) == pc' = "done" /\ exit' = code /\ UNCHANGED <<args, file>>

\* Mutant: the code of an interpreter that cannot flush at shutdown.
MutShutdown(code) == IF args.output = "gone" THEN {code, 120} ELSE {code}

\* With nobody reading, print itself raises when the output is unbuffered, and
\* the code is then 0; otherwise the flush raises and the code stands.
Printed(code) == IF args.output = "gone" THEN {code, 0} ELSE {code}

Answered(code) == \E c \in Printed(code) : Exit(c)

\* argparse takes a value that starts with a dash for an option.
ArgumentsRefused(a) ==
  \/ a.key = "-dash"
  \/ Blank(a.key) /\ ~a.integrity
  \/ ~Blank(a.key) /\ a.integrity
  \/ a.output = "quiet and machine"
  \/ Given(a.profile) /\ Given(a.envelope)
  \/ Given(a.profile) /\ a.profile \notin Profiles
  \/ \E f \in DOMAIN Owner : Given(a.extra[f]) /\ a.profile # Owner[f]
  \/ a.profile \in {"complete", "witnessed"} /\ (a.integrity \/ ~a.strict)
  \/ Given(a.approvers) /\ a.profile # "chain"
  \/ a.profile = "chain" /\ (a.integrity \/ ~a.strict)

Invoke ==
  /\ pc = "idle"
  /\ \E a \in CommandLines : args' = a
  /\ pc' = "arguments"
  /\ UNCHANGED <<file, reason, exit>>

CheckArguments ==
  /\ pc = "arguments"
  /\ IF ArgumentsRefused(args) THEN Exit(2)
     ELSE pc' = "reading" /\ UNCHANGED <<args, file, exit>>
  /\ UNCHANGED reason

Read ==
  /\ pc = "reading" /\ file # NoFile
  /\ IF file.text \in {"no file", "not UTF-8"} THEN Exit(2)
     ELSE pc' = "parsing" /\ UNCHANGED <<args, file, exit>>
  /\ UNCHANGED reason

Parse ==
  /\ pc = "parsing"
  /\ IF file.text # "object" THEN Exit(2)
     ELSE pc' = "answering" /\ UNCHANGED <<args, file, exit>>
  /\ UNCHANGED reason

\* A document that is no bundle of the profile fails it.
ProfileVerdict(profile, f) ==
  IF DOMAIN f.vector.doc = BUNDLE_MEMBERS[profile] /\ ~f.altered THEN f.verdict ELSE "FAIL"

CodeOf == [PASS |-> 0, FAIL |-> 1, INCOMPLETE |-> 3]

AnswerDraft ==
  /\ pc = "answering"
  /\ args.profile \in {"complete", "witnessed"}
  /\ IF Given(args.extra.tolerance) /\ args.extra.tolerance # "3600" THEN Exit(2)
     ELSE Answered(CodeOf[ProfileVerdict(args.profile, file)])
  /\ UNCHANGED reason

AnswerChain ==
  /\ pc = "answering" /\ args.profile = "chain"
  /\ Answered(CodeOf[ProfileVerdict("chain", file)])
  /\ UNCHANGED reason

\* The keyword arguments main passes to verify_receipt.
Options(a) ==
  [key |-> a.key, integrity |-> a.integrity, strict |-> a.strict, envelope |-> a.envelope,
   profile |-> IF a.profile = "action-1" THEN "ACTION-v1" ELSE NoOption]

AnswerRecord ==
  /\ pc = "answering"
  /\ args.profile \notin {"complete", "witnessed", "chain"}
  /\ LET faults == verify_receipt(file.vector.doc, Options(args)) IN
     /\ Answered(IF faults = <<>> THEN 0 ELSE 1)
     /\ reason' = IF faults = <<>> THEN "" ELSE faults[1][1]

-----------------------------------------------------------------------------
(* cli.ts: the same command in the other implementation.                   *)

cliRefuses(a) ==
  \/ a.key = "" \/ a.envelope = "" \/ a.profile = ""
  \/ Given(a.key) = a.integrity
  \/ Given(a.profile) /\ a.profile \notin Profiles
  \/ \E f \in DOMAIN Owner : Given(a.extra[f]) /\ a.profile # Owner[f]
  \/ a.profile \in {"complete", "witnessed", "chain"} /\ (a.integrity \/ ~a.strict)
  \/ Given(a.approvers) /\ a.profile # "chain"
  \/ Given(a.profile) /\ Given(a.envelope)
  \/ a.output = "quiet and machine"

cli(a, f) ==
  IF cliRefuses(a) THEN 2
  ELSE IF f = NoFile THEN NoExit
  ELSE IF f.text # "object" THEN 2
  ELSE IF a.profile = "witnessed" /\ a.extra.tolerance \notin {NoOption, "3600"} THEN 2
  ELSE IF a.profile \in DOMAIN BUNDLE_MEMBERS THEN CodeOf[ProfileVerdict(a.profile, f)]
  ELSE IF verifyReceipt(f.vector.doc, Options(a)) THEN 0 ELSE 1

-----------------------------------------------------------------------------
Init ==
  /\ args = NoOption /\ file = NoFile
  /\ pc = "idle" /\ reason = "" /\ exit = NoExit

Next ==
  \/ Invoke \/ CheckArguments
  \/ GiveAttestation \/ GiveAction \/ GiveAstral \/ GiveAnchor \/ GiveBundle
  \/ Alter \/ Mangle
  \/ Read \/ Parse
  \/ AnswerDraft \/ AnswerChain \/ AnswerRecord

Spec == Init /\ [][Next]_vars

-----------------------------------------------------------------------------
(* Properties.                                                             *)

\* The exit code is one the documentation lists, and is there exactly when the
\* command has ended (main, and the closed pipe of the module's last lines).
TypeOK ==
  /\ (args = NoOption) = (pc = "idle")
  /\ pc \in {"idle", "arguments", "reading", "parsing", "answering", "done"}
  /\ exit \in {NoExit, 0, 1, 2, 3}
  /\ (pc = "done") = (exit # NoExit)
  /\ exit = 3 => args.profile \in DOMAIN BUNDLE_MEMBERS

\* The documents that are one signed document: the text may differ in the
\* bits no byte of the signature uses and in how a number is spelled.
SameDocument(doc, signed, spellings) ==
  LET field == IF "signature" \in DOMAIN doc THEN "signature" ELSE "signature_b64" IN
  /\ Canonical(Without(doc, {field})) = Canonical(Without(signed, {field}))
  /\ doc[field].spelled \in spellings
  /\ [doc[field] EXCEPT !.spelled = "exact"] = signed[field]

\* Exit 0 with a pinned key, somebody reading, means that this key signed this
\* very document, as a document of the kind the command line names, with no
\* defect in it: not another kind let through an envelope, not a document with
\* something added after the signature (verify_receipt, _b64url_decode).
VouchedAsSigned ==
  exit = 0 /\ ~args.integrity /\ args.output # "gone" =>
     LET v == file.vector IN
     /\ ~file.altered /\ (file.suite = "ACTION-v1") = (args.profile = "action-1")
        => v.rule \in (IF args.strict THEN {""} ELSE {"", "unknown"})
     /\ IF v.kind \in DOMAIN BUNDLE_MEMBERS
        THEN args.profile = v.kind /\ file.verdict = "PASS" /\ ~file.altered
        ELSE /\ (v.kind = "action") = (args.profile = "action-1")
             /\ v.kind = "anchor" => args.envelope = "anchor-v1"
             /\ LET field == IF v.kind = "anchor" THEN "signature_b64" ELSE "signature" IN
                v.origin[field].by = args.key
             /\ SameDocument(v.doc, v.origin,
                  IF v.kind = "anchor" THEN {"exact", "slack", "padded", "padded thrice", "standard"}
                  ELSE {"exact", "slack"})

\* Every valid vector is accepted and every invalid one refused for the rule it
\* is named for; and an ATTESTATION-v1 defect that is not in the signature is
\* under a genuine signature, so that no verifier of signatures alone passes
\* the suite (_sign_raw, and the comment in generate.py on vectors 004 onwards).
VectorsTestTheirRule ==
  LET plain == /\ args.key = "issuer" /\ args.strict /\ ~Given(args.envelope)
               /\ args.output # "gone" /\ ~file.altered
               /\ args.profile = IF file.suite = "ACTION-v1" THEN "action-1" ELSE NoOption
      v       == file.vector
      payload == Without(v.doc, {"signature"})
  IN pc = "done" /\ file # NoFile /\ file.suite # "none" /\ plain =>
       /\ reason = v.rule
       /\ exit = IF v.rule = "" THEN 0 ELSE 1
       /\ file.suite = "ATTESTATION-v1" /\ v.rule \notin {"", "signature", "pin", "decode"}
          /\ Canonicalisable(payload)
          => Verifies(v.doc.signature, v.doc.public_key, Canonical(payload))

\* Where the two commands are known to part: argparse and a key that starts
\* with a dash, blank option values, a version written 1.0, a third "=" after
\* an envelope's signature, and a reader that went away.
Parted ==
  \/ args.key \in {"", "-dash"} \/ args.envelope = ""
  \/ args.output = "gone"
  \/ file # NoFile /\ LET doc == file.vector.doc IN
       \/ "v" \in DOMAIN doc /\ doc.v = "1.0"
       \/ "signature_b64" \in DOMAIN doc /\ doc.signature_b64.spelled = "padded thrice"

\* Everywhere else both implementations exit alike on the same command line
\* and the same bytes, whatever was done to the document.
SameExit == pc = "done" /\ ~Parted => exit = cli(args, file)
=============================================================================
