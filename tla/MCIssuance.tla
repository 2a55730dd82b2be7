----------------------------- MODULE MCIssuance -----------------------------
(***************************************************************************)
(* Two requests, one allowed and one refused, over two periods.            *)
(***************************************************************************)
EXTENDS Issuance

MCRequests ==
  { [id |-> "a1", outcome |-> "ALLOWED", args |-> "x"],
    [id |-> "a2", outcome |-> "BLOCKED", args |-> "y"] }
=============================================================================
