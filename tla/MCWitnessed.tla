----------------------------- MODULE MCWitnessed -----------------------------
(***************************************************************************)
(* An action and a checkpoint, up to three statements, five half seconds   *)
(* around a midnight, and a tolerance of one second.  The midnights are    *)
(* where the calendar is irregular: a new year, the last of February in    *)
(* a leap year, in a year divisible by 400 and in a common year, the day   *)
(* after a leap day, and the end of a short month.                         *)
(***************************************************************************)
EXTENDS Witnessing

Style(before, after, claims, stamps) ==
  [before |-> before, after |-> after, claims |-> claims, stamps |-> stamps]
Zone(zone, padded) == [zone |-> zone, padded |-> padded]

MCStyles ==
  <<Style(<<2026, 12, 31>>, <<2027, 1, 1>>, Zone("Z", FALSE), Zone("Z", FALSE)),
    Style(<<2028, 2, 28>>, <<2028, 2, 29>>, Zone("Z", TRUE), Zone("+", FALSE)),
    Style(<<2000, 2, 29>>, <<2000, 3, 1>>, Zone("-", FALSE), Zone("Z", TRUE)),
    Style(<<2027, 2, 28>>, <<2027, 3, 1>>, Zone("+", FALSE), Zone("leap", FALSE)),
    Style(<<2026, 4, 30>>, <<2026, 5, 1>>, Zone("leap", FALSE), Zone("-", TRUE))>>
=============================================================================
