------------------------------ MODULE Decimals ------------------------------
(***************************************************************************)
(* Canonical decimals: a counter of a record is a text of digits, and      *)
(* chain.py compares counters as texts, without converting them.  A        *)
(* decimal is the sequence of its digits.                                  *)
(***************************************************************************)
EXTENDS Integers, Sequences

\* _DECIMAL
Canonical(n) == n # <<>> /\ (n[1] = 0 => n = <<0>>)

\* a =< b: the shorter text is the smaller number.
dec_le(a, b) ==
  \/ Len(a) < Len(b)
  \/ /\ Len(a) = Len(b)
     /\ a = b \/ \E k \in DOMAIN a : a[k] < b[k] /\ \A j \in 1..(k - 1) : a[j] = b[j]
=============================================================================
