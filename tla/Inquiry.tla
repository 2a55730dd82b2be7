------------------------------- MODULE Inquiry -------------------------------
(***************************************************************************)
(* What a profile verifier promises a reviewer who first has to obtain the *)
(* evidence: nothing is answered before it is asked, what is asked does    *)
(* not change while it is being answered, and the answer is the one        *)
(* Verdict gives.  Nobody has to ask.                                      *)
(***************************************************************************)
CONSTANTS
  Refuted(_),
  Lacking(_)

VARIABLES
  asked,        \* a call has been made
  call,         \* the call, once it is made
  answer

Promise == INSTANCE Verdict WITH Calls <- {}

Init == ~asked /\ answer = "none"

Ask ==
  /\ ~asked
  /\ asked'
  /\ UNCHANGED answer

Decide ==
  /\ asked /\ answer = "none"
  /\ answer' \in Promise!Verdicts
  /\ answer' = Promise!Answer(call)
  /\ UNCHANGED <<asked, call>>

Spec == Init /\ [][Ask \/ Decide]_<<asked, call, answer>>
=============================================================================
