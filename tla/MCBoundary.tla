----------------------------- MODULE MCBoundary -----------------------------
(***************************************************************************)
(* Three requests race for one payment: two under a single-use grant, one  *)
(* under its reissue for two uses, which shares the count of the intent;   *)
(* and one reads under a grant that is not counted.  The grants expire     *)
(* before the last instant.                                                *)
(***************************************************************************)
EXTENDS Boundary

CONSTANTS Approver

Grant(id, intent, max, tool) ==
  [form |-> TRUE, signed |-> TRUE, key |-> Approver, id |-> id, intent |-> intent,
   org |-> "org", maxUses |-> max, notBefore |-> NoBound, notAfter |-> 0,
   scopeTools |-> {tool}, scopeResource |-> "", scopeEnvironment |-> "",
   scopeArgs |-> {}, requireArgs |-> {}]

Request(id, tool, g) == [id |-> id, tool |-> tool, fields |-> <<>>, grant |-> g]

G1 == Grant("g1", "pay", 1, "pay")
G2 == Grant("g2", "pay", 2, "pay")
Gu == Grant("g3", "", NoLimit, "read")

MCRequests ==
  {Request("a1", "pay", G1), Request("a2", "pay", G2), Request("a3", "read", Gu)}
  \cup {Request("a4", "pay", G1)}
=============================================================================
