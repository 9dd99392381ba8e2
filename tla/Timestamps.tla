----------------------------- MODULE Timestamps -----------------------------
(***************************************************************************)
(* The `time` of a cloud answer (protocol.rs): an RFC 3339 timestamp, read *)
(* into an instant, and the age and staleness that follow from it. Seconds *)
(* since the epoch are split into minutes and seconds, [min, sec]; those   *)
(* of a fraction are dropped on both sides of the difference.              *)
(***************************************************************************)
EXTENDS Integers, Sequences

\* A timestamp by its fields; sign is "+", "-" or "Z". NoStamp is an empty or an
\* unparseable one.
NoStamp == [sign |-> "none"]

LeapYear(y) == y % 4 = 0 /\ (y % 100 # 0 \/ y % 400 = 0)

YearLength(y)     == IF LeapYear(y) THEN 366 ELSE 365
MonthLength(y, m) == <<31, 28, 31, 30, 31, 30, 31, 31, 30, 31, 30, 31>>[m]
                       + (IF m = 2 /\ LeapYear(y) THEN 1 ELSE 0)

\* The days of the first n years from 1970, and of the first m months of a year.
DaysOfYears[n \in Nat] == IF n = 0 THEN 0 ELSE DaysOfYears[n - 1] + YearLength(1969 + n)
DaysOfMonths(y) ==
  LET days[m \in 0 .. 12] == IF m = 0 THEN 0 ELSE days[m - 1] + MonthLength(y, m) IN days

\* Whole years since 1970, none for a year before, whole months, days.
DaysBefore(s) ==
  (IF s.year < 1970 THEN 0 ELSE DaysOfYears[s.year - 1970])
    + DaysOfMonths(s.year)[s.month - 1] + s.day - 1

OffsetHoursOnly(s) ==   \* mutant: the sign is taken for the hours alone
  CASE s.sign = "+" -> s.oh * 60 + s.om
    [] s.sign = "-" -> s.om - s.oh * 60
    [] OTHER        -> 0
Offset(s) ==
  CASE s.sign = "+" -> s.oh * 60 + s.om
    [] s.sign = "-" -> -(s.oh * 60 + s.om)
    [] OTHER        -> 0

parse_rfc3339(s) ==
  [min |-> DaysBefore(s) * 1440 + s.hour * 60 + s.minute - Offset(s), sec |-> s.sec]

\* The instant as a u64: one before the epoch lies beyond every clock.
Ahead(t, now) ==
  \/ t.min < 0
  \/ t.min > now.min
  \/ t.min = now.min /\ t.sec > now.sec

NoAge == -1

age_secs(s, now) ==
  IF s = NoStamp THEN NoAge
  ELSE LET t == parse_rfc3339(s)
       IN  IF Ahead(t, now) THEN 0 ELSE (now.min - t.min) * 60 + now.sec - t.sec

\* An age that is not known is not stale.
is_stale(s, now, max_age_secs) == age_secs(s, now) > max_age_secs
=============================================================================
