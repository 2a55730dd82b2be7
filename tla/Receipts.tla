------------------------------ MODULE Receipts ------------------------------
(***************************************************************************)
(* Single records: what verifier.py and index.ts check of an               *)
(* ATTESTATION-v1 receipt, an ACTION-v1 record and a foreign anchor-v1     *)
(* envelope.                                                               *)
(*                                                                         *)
(* Abstractions.  A document is a function from the member names of the    *)
(* JSON object to values.  A value stands for a class of texts the checks  *)
(* tell apart: a hash is "hex", "HEX", "hex and newline" or ""; a key is   *)
(* its owner's name.  Numbers keep their spelling, "1" or "1.0", since     *)
(* that is what the two languages read differently.  A policy list is its  *)
(* identifiers, one character each, so that both sort orders are real.  A  *)
(* signature is who signed which bytes and how it is spelled in base64.    *)
(***************************************************************************)
EXTENDS Integers, Sequences, FiniteSets, TLC

CONSTANT NoOption              \* an option of a call that is not given

ATTESTATION_FIELDS ==
  {"v", "attestation_id", "trace_id", "org_id", "request_hash", "model", "outcome",
   "policy_applied", "cost_prevented_eur", "timestamp", "public_key", "signature"}
ACTION_FIELDS ==
  {"v", "action_id", "org_id", "session_id", "intent_hash", "agent", "tool",
   "args_hash", "outcome", "policy_applied", "timestamp", "public_key", "signature"}

With(doc, name, value) == (name :> value) @@ doc
Without(doc, names)    == [m \in DOMAIN doc \ names |-> doc[m]]

-----------------------------------------------------------------------------
(* Identifiers and their two orders.                                       *)

CodePoint == [a |-> 97, z |-> 122, surrogate |-> 55296, private |-> 57344, emoji |-> 128512]

CodeUnits(name) ==
  LET c == CodePoint[name] - 65536 IN
  IF c < 0 THEN <<CodePoint[name]>> ELSE <<55296 + (c \div 1024), 56320 + (c % 1024)>>

\* Lexicographic order of two sequences of numbers.
Precedes(s, t) ==
  \E n \in 1..Len(t) :
     /\ \A k \in 1..(n - 1) : k =< Len(s) /\ s[k] = t[k]
     /\ n > Len(s) \/ s[n] < t[n]

CodePointOrder(names) == SortSeq(names, LAMBDA x, y : CodePoint[x] < CodePoint[y])

\* Mutant: sorted() without the key, which is what the verifier once used.
MutCodePoints(names) == CodePointOrder(names)

Utf16Order(names) == SortSeq(names, LAMBDA x, y : Precedes(CodeUnits(x), CodeUnits(y)))

List(names) == [array |-> TRUE, names |-> names]
NotAList    == [array |-> FALSE, names |-> <<>>]
OnlyStrings(policy) == \A k \in DOMAIN policy.names : policy.names[k] \in DOMAIN CodePoint

-----------------------------------------------------------------------------
(* Canonical bytes and signatures.                                         *)

Number(x) == IF x = "1.0" THEN "1" ELSE x

\* A lone surrogate and a number that is not finite have no canonical form.
Canonicalisable(payload) ==
  /\ "policy_applied" \in DOMAIN payload =>
       \A k \in DOMAIN payload.policy_applied.names : payload.policy_applied.names[k] # "surrogate"
  /\ "cost_prevented_eur" \in DOMAIN payload => payload.cost_prevented_eur # "1e999"

Canonical(payload) ==
  [m \in DOMAIN payload |->
     IF m \in {"v", "cost_prevented_eur"} THEN Number(payload[m]) ELSE payload[m]]

Sign(key, bytes) == [by |-> key, over |-> bytes, spelled |-> "exact"]

\* "slack" differs from the exact spelling in the bits of the last character
\* that no byte uses; "changed" spells other 64 bytes.
Decoded64 == {"exact", "slack", "changed"}

\* Mutant: the decoder that skips what is outside the alphabet.
MutSkipsForeign(sig) == sig.spelled \in Decoded64 \cup {"short", "newline", "padded"}

_b64url_decode(sig) == sig.spelled \in Decoded64 \cup {"short"}

_b64_any_decode(sig) == sig.spelled \in Decoded64 \cup {"short", "padded", "padded thrice", "standard"}

Verifies(sig, key, bytes) ==
  sig.spelled # "changed" /\ sig.by = key /\ sig.over = bytes

\* The rules of <<name, broken>> that are broken, in the order of the code:
\* the first one is the reason.
Broken(rules) == SelectSeq(rules, LAMBDA rule : rule[2])

\* Pinning, canonical form and signature, shared by the three paths.
SigningRules(doc, o, sigField, keyField, decodes) ==
  LET payload == Without(doc, {sigField})
      sig     == doc[sigField]
      whole   == sig.spelled # "short"
  IN << <<"no key", o.key = NoOption /\ ~o.integrity>>,
        <<"pin", o.key # NoOption /\ o.key # doc[keyField]>>,
        <<"canonical", ~Canonicalisable(payload)>>,
        <<"decode", ~decodes>>,
        <<"length", decodes /\ ~whole>>,
        <<"signature", decodes /\ whole /\ Canonicalisable(payload)
                       /\ ~Verifies(sig, doc[keyField], Canonical(payload))>> >>

-----------------------------------------------------------------------------
(* verifier.py.                                                            *)

IsText(x) == x \notin {"1", "1.0", "2", "true", "7", "[ALLOWED]"}
Hex64     == {"hex"}
Rfc3339   == {"zoned", "leap second"}

PolicyRules(policy) ==
  << <<"policy strings", ~OnlyStrings(policy)>>,
     <<"policy order", OnlyStrings(policy) /\ policy.names # Utf16Order(policy.names)>> >>

AttestationFaults(doc, o) ==
  IF ~(ATTESTATION_FIELDS \subseteq DOMAIN doc) THEN << <<"missing", TRUE>> >>
  ELSE Broken(
    << <<"unknown", o.strict /\ DOMAIN doc # ATTESTATION_FIELDS>>,
       <<"version", doc.v # "1">>,
       <<"outcome type", ~IsText(doc.outcome)>>,
       <<"outcome", doc.outcome \notin {"ALLOWED", "BLOCKED", "SUPPRESSED", "PASSED"}>>,
       <<"policy type", ~doc.policy_applied.array>> >>
    \o PolicyRules(doc.policy_applied)
    \o << <<"cost type", doc.cost_prevented_eur \in {"true", "text", "1e999"}>>,
          <<"cost", doc.cost_prevented_eur = "-5">>,
          <<"timestamp", doc.timestamp \notin Rfc3339>>,
          <<"request hash", doc.request_hash \notin Hex64>> >>
    \o SigningRules(doc, o, "signature", "public_key", _b64url_decode(doc.signature)))

\* The types are checked field by field, in the order of ACTION_REQUIRED_FIELDS.
_verify_action_record(doc, o) ==
  LET noText(fields) == \E m \in fields : ~IsText(doc[m]) IN
  IF ~(ACTION_FIELDS \subseteq DOMAIN doc) THEN << <<"missing", TRUE>> >>
  ELSE Broken(
    << <<"unknown", o.strict /\ DOMAIN doc # ACTION_FIELDS>>,
       <<"version", doc.v # "action-1">>,
       <<"text", noText({"action_id", "org_id", "session_id", "intent_hash", "agent", "tool", "args_hash"})>>,
       <<"outcome type", noText({"outcome"})>>,
       <<"policy type", ~doc.policy_applied.array>>,
       <<"text", noText({"timestamp", "public_key"}) \/ doc.signature.spelled = "no text">>,
       <<"outcome", doc.outcome \notin {"ALLOWED", "BLOCKED"}>>,
       <<"tool", doc.tool = "">>,
       <<"args hash", doc.args_hash \notin Hex64>>,
       <<"intent hash", doc.intent_hash \notin Hex64 \cup {""}>>,
       <<"session", doc.intent_hash # "" /\ doc.session_id = "">> >>
    \o PolicyRules(doc.policy_applied)
    \o << <<"timestamp", doc.timestamp \notin Rfc3339>> >>
    \o SigningRules(doc, o, "signature", "public_key", _b64url_decode(doc.signature)))

_verify_signed_envelope(doc, o) ==
  Broken(SigningRules(doc, o, "signature_b64", "public_key_b64", _b64_any_decode(doc.signature_b64)))

Carries(doc, sigField, keyField) ==
  /\ {sigField, keyField} \subseteq DOMAIN doc
  /\ doc[sigField].spelled # "no text" /\ IsText(doc[keyField])

detect_envelope(doc) ==
  CASE Carries(doc, "signature", "public_key")         -> "ATTESTATION-v1"
    [] ~Carries(doc, "signature", "public_key")
       /\ Carries(doc, "signature_b64", "public_key_b64") -> "anchor-v1"
    [] OTHER                                           -> "none"

\* What is wrong with a document, first reason first; valid when nothing is.
verify_receipt(doc, o) ==
  LET envelope == detect_envelope(doc) IN
  IF \/ o.profile # NoOption /\ o.envelope # NoOption
     \/ o.envelope = "ACTION-v1"
  THEN << <<"options", TRUE>> >>
  ELSE IF o.profile # NoOption THEN _verify_action_record(doc, o)
  ELSE IF envelope = "none" THEN << <<"envelope", TRUE>> >>
  ELSE IF envelope = "ATTESTATION-v1" THEN AttestationFaults(doc, o)
  ELSE IF o.envelope # envelope THEN << <<"opt-in", TRUE>> >>
  ELSE _verify_signed_envelope(doc, o)

-----------------------------------------------------------------------------
(* index.ts, the other implementation, as what it accepts.                 *)

base64url(sig) == sig.spelled \in Decoded64
\* Padding is added to what is there, so a third "=" is one too many.
base64any(sig) == sig.spelled \in Decoded64 \cup {"padded", "standard"}

Signed(doc, o, sigField, keyField, spelledRight) ==
  LET payload == Without(doc, {sigField}) IN
  /\ IF o.key = NoOption THEN o.integrity ELSE o.key = doc[keyField]
  /\ Canonicalisable(payload)
  /\ spelledRight /\ Verifies(doc[sigField], doc[keyField], Canonical(payload))

Sorted(policy) ==
  /\ policy.array /\ OnlyStrings(policy)
  /\ \A k \in 2..Len(policy.names) :
        ~Precedes(CodeUnits(policy.names[k]), CodeUnits(policy.names[k - 1]))

verifyAttestation(doc, o) ==
  /\ ATTESTATION_FIELDS \subseteq DOMAIN doc
  /\ o.strict => DOMAIN doc = ATTESTATION_FIELDS
  /\ Number(doc.v) = "1"
  /\ doc.outcome \in {"ALLOWED", "BLOCKED", "SUPPRESSED", "PASSED"}
  /\ Sorted(doc.policy_applied)
  /\ doc.request_hash = "hex"
  /\ doc.cost_prevented_eur \notin {"true", "text", "1e999", "-5"}
  /\ doc.timestamp \in {"zoned", "leap second"}
  /\ Signed(doc, o, "signature", "public_key", base64url(doc.signature))

verifyActionV1(doc, o) ==
  /\ ACTION_FIELDS \subseteq DOMAIN doc
  /\ o.strict => DOMAIN doc = ACTION_FIELDS
  /\ doc.v = "action-1"
  /\ \A m \in ACTION_FIELDS \ {"policy_applied", "signature"} : IsText(doc[m])
  /\ doc.outcome \in {"ALLOWED", "BLOCKED"}
  /\ doc.tool # "" /\ doc.args_hash = "hex"
  /\ doc.intent_hash \in {"", "hex"}
  /\ doc.intent_hash = "" \/ doc.session_id # ""
  /\ Sorted(doc.policy_applied)
  /\ doc.timestamp \in {"zoned", "leap second"}
  /\ Signed(doc, o, "signature", "public_key", base64url(doc.signature))

verifyReceipt(doc, o) ==
  /\ o.profile = NoOption \/ o.envelope = NoOption
  /\ o.envelope # "ACTION-v1"
  /\ IF o.profile # NoOption THEN verifyActionV1(doc, o)
     ELSE CASE Carries(doc, "signature", "public_key") -> verifyAttestation(doc, o)
            [] ~Carries(doc, "signature", "public_key")
               /\ Carries(doc, "signature_b64", "public_key_b64") ->
                 /\ o.envelope = "anchor-v1"
                 /\ Signed(doc, o, "signature_b64", "public_key_b64", base64any(doc.signature_b64))
            [] OTHER -> FALSE
=============================================================================
