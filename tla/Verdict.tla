------------------------------- MODULE Verdict -------------------------------
(***************************************************************************)
(* What every profile verifier of the repository promises its caller.      *)
(*                                                                         *)
(* A call is answered once, with one of three verdicts.  FAIL outranks     *)
(* INCOMPLETE, which outranks PASS: evidence that contradicts itself is    *)
(* refuted even when other evidence is missing, and missing evidence is    *)
(* never a pass.  The answer is a function of the call alone: the order in *)
(* which a verifier happens to make its checks cannot show in the verdict, *)
(* which is why two implementations can be asked to agree.                 *)
(*                                                                         *)
(* The detailed verifiers (Complete, Chain) are shown to implement this    *)
(* specification.                                                          *)
(***************************************************************************)
CONSTANTS
  Calls,        \* the calls a reviewer can make: arguments and bundle
  Refuted(_),   \* the evidence of a call contradicts itself
  Lacking(_)    \* evidence the profile needs is absent from a call

VARIABLES
  call,         \* the call being answered
  answer        \* "none" until it is answered

Verdicts == {"PASS", "FAIL", "INCOMPLETE"}

Answer(c) == IF Refuted(c) THEN "FAIL"
             ELSE IF Lacking(c) THEN "INCOMPLETE" ELSE "PASS"

Init == call \in Calls /\ answer = "none"

Decide ==
  /\ answer = "none"
  /\ answer' \in Verdicts
  /\ answer' = Answer(call)
  /\ UNCHANGED call

\* At most one answer, and no other than the call's.
Safety == Init /\ [][Decide]_<<call, answer>>

\* The verifiers are total functions ("Never raises"), so a call is answered.
Spec == Safety /\ WF_<<call, answer>>(Decide)
=============================================================================
