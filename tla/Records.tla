------------------------------ MODULE Records ------------------------------
(***************************************************************************)
(* What every signed record of the repository has in common.               *)
(*                                                                         *)
(* Abstractions.  SHA-256 over canonical bytes and the RFC 6962 leaf hash  *)
(* are injective: a hash is a tagged copy of what was hashed.  An instant  *)
(* is an integer, a canonical decimal string the natural number it writes. *)
(* A signature is what verifying it answers, so the canonical bytes        *)
(* without the signature are the record with `signed` set.                 *)
(***************************************************************************)
EXTENDS Integers, Sequences, FiniteSets

CONSTANTS
  NoKey,        \* trusted_public_key absent, or not a key
  NoKeySet      \* executor_keys or approver_keys is None

Hash(x) == <<"sha256", x>>
NoHash  == <<>>                      \* the empty string where a hash could be

Unsigned(rec) == [rec EXCEPT !.signed = TRUE]

IsSequence(s) == s \in Seq({s[k] : k \in DOMAIN s})
=============================================================================
