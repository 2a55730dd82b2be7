----------------------------- MODULE Comparisons -----------------------------
(***************************************************************************)
(* The instants and the decimals of chain.py against the calendar and the  *)
(* numbers.  Chain writes both as integers and compares them as integers;  *)
(* that is sound when the code's comparisons, which use neither a date     *)
(* library nor a conversion, agree with the order of what is named.        *)
(*                                                                         *)
(* TLC counts in 32 bits and `instant` counts seconds since 1970, so the   *)
(* days at which times are written lie between 1902 and 2037; the days     *)
(* themselves have no such bound.                                          *)
(***************************************************************************)
EXTENDS Instants, Decimals, FiniteSets, SequencesExt

-----------------------------------------------------------------------------
(* The calendar, by its rules *)

Leap(y) == y % 4 = 0 /\ (y % 100 = 0 => y % 400 = 0)

MonthLength(y, m) ==
  CASE m \in {4, 6, 9, 11} -> 30 [] m = 2 -> (IF Leap(y) THEN 29 ELSE 28) [] OTHER -> 31

\* The days before a year since year 0, and before a month of a year
DaysBefore(y) == 365 * y + Cardinality({k \in 0..(y - 1) : Leap(k)})
DaysBeforeMonth(y, m) == FoldFunctionOnSet(+, 0, [k \in 1..12 |-> MonthLength(y, k)], 1..(m - 1))

DayAfter(d) ==
  CASE d[3] < MonthLength(d[1], d[2]) -> <<d[1], d[2], d[3] + 1>>
    [] d[3] = MonthLength(d[1], d[2]) /\ d[2] < 12 -> <<d[1], d[2] + 1, 1>>
    [] OTHER -> <<d[1] + 1, 1, 1>>

-----------------------------------------------------------------------------
(* The instance: four centuries, the end of the grammar, and the midnights   *)
(* at which calendars are irregular.                                         *)

Years == 0..400 \cup {1969, 1999, 2000, 2026, 2028, 9999}

WriteDates ==
  {<<1969, 12, 31>>, <<2000, 2, 28>>, <<2000, 2, 29>>, <<2026, 2, 28>>, <<2026, 12, 31>>, <<2028, 2, 28>>}

\* Hour, minute and second; 60 is a second the grammar allows.
Clocks ==
  {<<0, 0, 0>>, <<0, 29, 60>>, <<0, 30, 0>>, <<0, 59, 60>>, <<1, 0, 0>>, <<22, 59, 59>>,
   <<23, 59, 59>>, <<23, 59, 60>>}
Zones == {<<"Z", 0, 0>>, <<"+", 1, 0>>, <<"-", 1, 0>>, <<"+", 0, 30>>, <<"-", 23, 59>>}
Fractions == {<<>>, <<0>>, <<5>>, <<5, 0>>, <<0, 5>>, <<4, 9>>}
Counters == {n \in UNION {[1..k -> {0, 1, 9}] : k \in 1..3} : Canonical(n)}

\* A spelling is local: the day or the day after it, a clock, a zone, a fraction.
Spellings == [later : {0, 1}, clock : Clocks, zone : Zones, fraction : Fractions]

\* A spelling at a date, as the fields chain.py captures.
Timestamp(date, s) ==
  LET d == IF s.later = 1 THEN DayAfter(date) ELSE date
  IN  [year |-> d[1], month |-> d[2], day |-> d[3],
       hour |-> s.clock[1], minute |-> s.clock[2], second |-> s.clock[3],
       fraction |-> s.fraction,
       sign |-> s.zone[1], offHour |-> s.zone[2], offMinute |-> s.zone[3]]

\* Hundredths of a second since the date began in UTC
Moment(s) ==
  LET minutes   == s.clock[1] * 60 + s.clock[2] + s.later * 1440
      ahead     == s.zone[2] * 60 + s.zone[3]
      utc       == CASE s.zone[1] = "+" -> minutes - ahead [] s.zone[1] = "-" -> minutes + ahead
                     [] OTHER -> minutes
      hundredth == Digit(s.fraction, 1) * 10 + Digit(s.fraction, 2)
  IN  (utc * 60 + s.clock[3]) * 100 + hundredth

\* Two spellings at most three seconds apart, and how far the first is ahead.
ClosePairs ==
  LET timed == {[spelling |-> s, moment |-> Moment(s)] : s \in Spellings}
  IN  {[a |-> x.spelling, b |-> y.spelling, gap |-> x.moment - y.moment] : <<x, y>> \in
         {<<x, y>> \in timed \X timed : x.moment - y.moment \in -300..300}}

Number(n) == FoldLeft(LAMBDA v, digit : v * 10 + digit, 0, n)

-----------------------------------------------------------------------------
(* The comparisons of the code, part by part *)

\* chain.py:105-111 counts days as the calendar does, from year 0 on; and a
\* day the month does not have, which the grammar lets through up to the 31st,
\* is read as that many days after the last one.
DaysAsTheCalendar ==
  LET epoch == DaysBefore(1970) IN
  \A y \in Years :
    LET before == DaysBefore(y) - epoch IN
    \A m \in 1..12 :
      LET first == before + DaysBeforeMonth(y, m)
      IN  \A d \in 1..31 : days_from_civil(y, m, d) = first + d - 1

\* GRANT-v1 section 6.1: two times compare as the moments they name, to the
\* last digit, whatever zone, fraction or second 60 they are written with.
TimesAsMoments ==
  \A p \in ClosePairs, date \in WriteDates :
    cmp_instant(Timestamp(date, p.a), Timestamp(date, p.b))
      = (IF p.gap < 0 THEN -1 ELSE IF p.gap = 0 THEN 0 ELSE 1)

\* witnessed.py:68: a time is late exactly when it is more than the tolerance
\* after the other one; at the tolerance it is not.
LateBeyondTolerance ==
  \A p \in ClosePairs, date \in WriteDates, tolerance \in 0..2 :
    later_than(Timestamp(date, p.a), Timestamp(date, p.b), tolerance) <=> p.gap > 100 * tolerance

\* chain.py:133-137: canonical decimals are ordered as texts exactly as the
\* numbers they are, with no conversion.
TextsAsNumbers == \A a, b \in Counters : dec_le(a, b) <=> Number(a) =< Number(b)

\* Whatever is compared (days, instants, lateness, counters) is compared as
\* what it names.  No state is involved: TLC evaluates it once.
Exact == DaysAsTheCalendar /\ TimesAsMoments /\ LateBeyondTolerance /\ TextsAsNumbers
=============================================================================
