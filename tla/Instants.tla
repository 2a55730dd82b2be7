------------------------------ MODULE Instants ------------------------------
(***************************************************************************)
(* Exact instants without a date library (spec/GRANT-v1.md section 6.1):   *)
(* an RFC 3339 time with an explicit offset is read as whole seconds and a *)
(* string of fractional digits, and compared to the last digit.  The       *)
(* fields of a written time are what the pattern of chain.py captures; a   *)
(* fraction is the sequence of its digits.  The grammar lets a second be   *)
(* 60, which reads as the first second of the next minute.                 *)
(***************************************************************************)
EXTENDS Integers, Sequences

LongerOf(f, g) == IF Len(f) >= Len(g) THEN Len(f) ELSE Len(g)

\* Digit k of a fraction, with the zeros that ljust puts after the last one.
Digit(f, k) == IF k \in DOMAIN f THEN f[k] ELSE 0

\* Mutant: fractions of different length are never equal.
MutNoPadding(f, g) == f = g

FractionEqual(f, g) == \A k \in 1..LongerOf(f, g) : Digit(f, k) = Digit(g, k)

FractionLess(f, g) ==
  \E k \in 1..LongerOf(f, g) :
    /\ Digit(f, k) < Digit(g, k)
    /\ \A j \in 1..(k - 1) : Digit(f, j) = Digit(g, j)

\* Days since 1970-01-01, in a year that is counted from March.
days_from_civil(y, m, d) ==
  LET year == IF m =< 2 THEN y - 1 ELSE y
      era  == year \div 400
      yoe  == year - era * 400
      doy  == (153 * (m + (IF m > 2 THEN -3 ELSE 9)) + 2) \div 5 + d - 1
      doe  == yoe * 365 + yoe \div 4 - yoe \div 100 + doy
  IN  era * 146097 + doe - 719468

Offset(ts) == LET size == ts.offHour * 3600 + ts.offMinute * 60
              IN  CASE ts.sign = "+" -> size [] ts.sign = "-" -> -size [] OTHER -> 0

Seconds(day, hour, minute, second) == day * 86400 + hour * 3600 + minute * 60 + second

\* A local time ahead of UTC is that much earlier.
instant(ts) ==
  [secs |-> Seconds(days_from_civil(ts.year, ts.month, ts.day), ts.hour, ts.minute, ts.second)
            - Offset(ts),
   frac |-> ts.fraction]

\* -1, 0 or 1
cmp_instant(a, b) ==
  LET x == instant(a)
      y == instant(b)
  IN  IF x.secs # y.secs THEN IF x.secs < y.secs THEN -1 ELSE 1
      ELSE IF FractionEqual(x.frac, y.frac) THEN 0
      ELSE IF FractionLess(x.frac, y.frac) THEN -1 ELSE 1

\* Mutant: a fraction with more digits is a later one.
MutLongerIsLater(w, claimed, tolerance) ==
  LET x == instant(w)
      y == instant(claimed)
  IN  IF x.secs # y.secs + tolerance THEN x.secs > y.secs + tolerance
      ELSE Len(x.frac) > Len(y.frac) \/ FractionLess(y.frac, x.frac)

\* w > claimed + tolerance seconds
later_than(w, claimed, tolerance) ==
  LET x == instant(w)
      y == instant(claimed)
  IN  IF x.secs # y.secs + tolerance THEN x.secs > y.secs + tolerance
      ELSE FractionLess(y.frac, x.frac)
=============================================================================
