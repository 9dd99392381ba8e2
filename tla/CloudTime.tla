------------------------------ MODULE CloudTime ------------------------------
(***************************************************************************)
(* CloudBridge knows how long ago the cloud heard the thermometer; the     *)
(* code reads it out of a timestamp. Here is what the one has to do with   *)
(* the other, for timestamps at the edges of days, months and years and    *)
(* the offsets of a cloud in China, in UTC and elsewhere.                  *)
(***************************************************************************)
EXTENDS CloudBridge, Timestamps

CONSTANTS
  Unit,         \* seconds of a tick
  Dates,        \* bound: <<year, month, day>> of the timestamps tried
  Times,        \* bound: <<hour, minute, second>>
  Offsets       \* bound: <<sign, hours, minutes>>

ASSUME TimeAssumption ==
  /\ Unit \in Nat \ {0} /\ StaleLimit * Unit = 60
  /\ Dates \subseteq Nat \X (1 .. 12) \X (1 .. 31)
  /\ \A d \in Dates : d[1] >= 1970
  /\ Times \subseteq (0 .. 23) \X (0 .. 59) \X (0 .. 59)
  /\ Offsets \subseteq {"Z", "+", "-"} \X (0 .. 23) \X (0 .. 59)
  /\ \A o \in Offsets : o[1] = "Z" => o[2] = 0 /\ o[3] = 0

Stamp(d, t, o) ==
  [year |-> d[1], month |-> d[2], day |-> d[3], hour |-> t[1], minute |-> t[2], sec |-> t[3],
   sign |-> o[1], oh |-> o[2], om |-> o[3]]

-----------------------------------------------------------------------------
(* What a timestamp means, computed another way: years start in March, so  *)
(* that the leap day is the last, and come in eras of 400.                 *)

CivilDays(d) ==
  LET y   == IF d[2] > 2 THEN d[1] ELSE d[1] - 1
      m   == IF d[2] > 2 THEN d[2] - 3 ELSE d[2] + 9
      yoe == y % 400
  IN  (y \div 400) * 146097 + yoe * 365 + yoe \div 4 - yoe \div 100
        + (153 * m + 2) \div 5 + d[3] - 1 - 719468

LocalMinutes(o) == IF o[1] = "-" THEN -60 * o[2] - o[3] ELSE 60 * o[2] + o[3]

\* The instant the cloud heard the thermometer, and a clock that is `secs` ahead of it.
Heard(d, t, o) == (CivilDays(d) * 24 + t[1]) * 60 + t[2] - LocalMinutes(o)
Clock(d, t, o, secs) ==
  [min |-> Heard(d, t, o) + (t[3] + secs) \div 60, sec |-> (t[3] + secs) % 60]

\* Bound: nothing was heard before 1970.
Heardable == {h \in Dates \X Times \X Offsets : Heard(h[1], h[2], h[3]) >= 0}

AgeTable ==
  [a \in 0 .. CutOff |->
    \A h \in Heardable :
      is_stale(Stamp(h[1], h[2], h[3]), Clock(h[1], h[2], h[3], a * Unit), 60)
        <=> a > StaleLimit]

-----------------------------------------------------------------------------
\* Whenever a poll is answered, the age that decides the availability topic
\* (mqtt.rs:332) is the time since the cloud heard the thermometer, on leap days, at
\* the ends of months, years and centuries, and in whatever time zone the cloud stamps
\* it (protocol.rs:560-624): the status published is the status in truth.
StampsAgree == phase = "polling" => AgeTable[age]
=============================================================================
