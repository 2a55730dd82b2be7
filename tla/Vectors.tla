------------------------------- MODULE Vectors -------------------------------
(***************************************************************************)
(* The two reference issuers and the conformance vectors their generators  *)
(* write: test-vectors/generate.py for ATTESTATION-v1 and                  *)
(* test-vectors/action/generate.py for ACTION-v1.  A defect is either in   *)
(* what is signed or put in afterwards, and the difference is what the     *)
(* vectors are for: a verifier that only checks signatures refuses every   *)
(* document of the second sort.                                            *)
(*                                                                         *)
(* A vector is the document, the document as it was signed, its kind, and  *)
(* the rule that has to refuse it, "" for a valid one.  Vectors that       *)
(* differ in nothing a check looks at are one.                             *)
(***************************************************************************)
EXTENDS Receipts

Vector(doc, origin, kind, rule) == [doc |-> doc, origin |-> origin, kind |-> kind, rule |-> rule]

Whole(doc, kind)            == Vector(doc, doc, kind, "")
Defect(doc, kind, rule)     == Vector(doc, doc, kind, rule)
Edited(base, kind, name, value, rule) == Vector(With(base, name, value), base, kind, rule)
Spelled(base, how) == [base.signature EXCEPT !.spelled = how]

-----------------------------------------------------------------------------
(* reference-issuer.py and reference-action-issuer.py.                     *)

\* The payload of a receipt; `a` overrides what the caller passes.
_base_payload ==
  [v |-> "1", attestation_id |-> "id", trace_id |-> "text", org_id |-> "text",
   request_hash |-> "hex", model |-> "text", outcome |-> "ALLOWED",
   policy_applied |-> List(<<"a">>), cost_prevented_eur |-> "0", timestamp |-> "zoned",
   public_key |-> "issuer"]

\* What ReferenceIssuer.sign accepts; it raises on the rest.
Issuable(a) ==
  a.outcome \in {"ALLOWED", "BLOCKED", "SUPPRESSED", "PASSED"} /\ a.request_hash = "hex"

\* ReferenceIssuer.sign: the cost is coerced, the policies are sorted by code
\* point, and the canonical bytes are signed.
ReferenceIssuer(a) ==
  LET payload == [a EXCEPT !.cost_prevented_eur = Number(@),
                           !.policy_applied = List(CodePointOrder(@.names))]
  IN With(payload, "signature", Sign("issuer", Canonical(payload)))

_action_payload ==
  [v |-> "action-1", action_id |-> "id", org_id |-> "text", session_id |-> "text",
   intent_hash |-> "hex", agent |-> "text", tool |-> "text", args_hash |-> "hex",
   outcome |-> "BLOCKED", policy_applied |-> List(<<"a">>), timestamp |-> "zoned",
   public_key |-> "issuer"]

\* ReferenceActionIssuer.sign.
ActionIssuable(a) ==
  /\ a.outcome \in {"ALLOWED", "BLOCKED"} /\ a.tool # "" /\ a.args_hash = "hex"
  /\ a.intent_hash \in {"", "hex"}
  /\ a.intent_hash # "" => a.session_id # ""

ReferenceActionIssuer(a) ==
  LET payload == [a EXCEPT !.policy_applied = List(Utf16Order(@.names))]
  IN With(payload, "signature", Sign("issuer", Canonical(payload)))

\* Mutant: the earlier generator, which signed a clean payload and put the
\* defect in afterwards.
MutSignThenEdit(payload) ==
  With(payload, "signature", Sign("issuer", Canonical(_base_payload)))

\* _sign_raw of generate.py and _resigned of action/generate.py: json.dumps
\* writes a float as Python spells it, and nothing is checked.
_sign_raw(payload) == With(payload, "signature", Sign("issuer", payload))

-----------------------------------------------------------------------------
(* test-vectors/generate.py.                                               *)

AttestationValid ==
  {Whole(ReferenceIssuer(a), "attestation") :
     a \in {b \in {[_base_payload EXCEPT !.outcome = o] : o \in {"ALLOWED", "BLOCKED", "SUPPRESSED", "PASSED"}}
                  \cup {[_base_payload EXCEPT !.policy_applied = List(<<"z", "a">>),
                                              !.cost_prevented_eur = c] : c \in {"0", "1.0", "2.5"}}
                  \cup {[_base_payload EXCEPT !.timestamp = "leap second"]} : Issuable(b)}}

AttestationInvalid ==
  LET base == ReferenceIssuer(_base_payload)
      Edit(name, value, rule) == Edited(base, "attestation", name, value, rule)
      Raw(name, value, rule) ==
        Defect(_sign_raw(With(_base_payload, name, value)), "attestation", rule)
      short == _sign_raw(Without(_base_payload, {"outcome"}))
  IN {Edit("signature", Spelled(base, "changed"), "signature"),
      Edit("outcome", "BLOCKED", "signature"),
      Edit("public_key", "zero", "pin"),
      Defect(short, "attestation", "missing"),
      Raw("extra_metadata", "text", "unknown"),
      Raw("v", "2", "version"),
      Raw("request_hash", "not hex", "request hash"),
      Raw("outcome", "MAYBE", "outcome"),
      Raw("policy_applied", List(<<"z", "a">>), "policy order"),
      Raw("policy_applied", List(<<"1">>), "policy strings"),
      Raw("timestamp", "no offset", "timestamp"),
      Raw("timestamp", "whenever", "timestamp"),
      Raw("cost_prevented_eur", "-5", "cost"),
      Raw("v", "true", "version"),
      Raw("cost_prevented_eur", "1.0", "signature"),
      Raw("request_hash", "hex and newline", "request hash"),
      Raw("timestamp", "zoned and newline", "timestamp"),
      Edit("signature", Spelled(base, "newline"), "decode"),
      Raw("timestamp", "fullwidth", "timestamp"),
      Raw("outcome", "[ALLOWED]", "outcome type"),
      Edit("policy_applied", List(<<"surrogate", "a">>), "policy order")}

-----------------------------------------------------------------------------
(* test-vectors/action/generate.py.                                        *)

ActionValid ==
  {Whole(ReferenceActionIssuer(a), "action") :
     a \in {b \in {[_action_payload EXCEPT !.outcome = o] : o \in {"ALLOWED", "BLOCKED"}}
                  \cup {[_action_payload EXCEPT !.session_id = s, !.intent_hash = ""] : s \in {"", "text"}}
                  \cup {[_action_payload EXCEPT !.policy_applied = List(p)] :
                           p \in {<<>>, <<"z", "a">>, <<"emoji", "private">>}}
                  \cup {[_action_payload EXCEPT !.tool = "non-ASCII"], [_action_payload EXCEPT !.agent = ""]} :
              ActionIssuable(b)}}

ActionInvalid ==
  LET base == ReferenceActionIssuer(_action_payload)
      Edit(name, value, rule) == Edited(base, "action", name, value, rule)
      Resigned(name, value, rule) ==
        Defect(_sign_raw(With(_action_payload, name, value)), "action", rule)
      bare    == ReferenceActionIssuer([_action_payload EXCEPT !.session_id = "", !.intent_hash = ""])
      foreign == [_action_payload EXCEPT !.tool = "non-ASCII"]
      escaped == Sign("issuer", [foreign EXCEPT !.tool = "escaped"])
  IN {Edit("signature", Spelled(base, "changed"), "signature"),
      Edit("outcome", "ALLOWED", "signature"),
      Edit("public_key", "other", "pin"),
      Vector(Without(base, {"agent"}), base, "action", "missing"),
      Edit("cost_prevented_eur", "0", "unknown"),
      Edit("v", "1", "version"),
      Defect(ReferenceIssuer(_base_payload), "attestation", "missing"),
      Edit("args_hash", "HEX", "args hash"),
      Edit("policy_applied", List(<<"z", "a">>), "policy order"),
      Edit("policy_applied", List(<<"a", "7">>), "policy strings"),
      Edit("timestamp", "no offset", "timestamp"),
      Edit("outcome", "SUPPRESSED", "outcome"),
      Edit("tool", "", "tool"),
      Edited(bare, "action", "intent_hash", "hex", "session"),
      Defect(With(foreign, "signature", escaped), "action", "signature"),
      Resigned("policy_applied", List(<<"private", "emoji">>), "policy order"),
      Resigned("args_hash", "hex and newline", "args hash"),
      Resigned("intent_hash", "hex and newline", "intent hash"),
      Resigned("timestamp", "zoned and newline", "timestamp"),
      Edit("signature", Spelled(base, "newline"), "decode"),
      Resigned("timestamp", "fullwidth", "timestamp"),
      Resigned("outcome", "[ALLOWED]", "outcome type"),
      Edit("policy_applied", List(<<"surrogate", "a">>), "policy order")}
=============================================================================
