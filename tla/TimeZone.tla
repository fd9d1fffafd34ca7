------------------------------ MODULE TimeZone ------------------------------
(***************************************************************************)
(* timezone_init of time.c: the offset from UTC is found by comparing what *)
(* localtime_r and gmtime_r say of one moment, across the ends of days and *)
(* years. Years of this model have few days; minutes count by the half     *)
(* hour.                                                                   *)
(***************************************************************************)
EXTENDS Integers

CONSTANTS DaysPerYear,
          Years,     \* years that the clock runs through
          Offsets    \* of the time zones, east or west, in half hours

Day == 48

TimeZoneAssumption ==
  /\ DaysPerYear \in Nat \ {0, 1} /\ Years \in Nat
  /\ Offsets \subseteq 0..Day - 1

VARIABLES now,      \* time(NULL), in half hours
          zone,     \* the offset that the system's time zone has
          offset,   \* timezone_offset, in seconds
          initialized   \* timezone_initialized

vars == <<now, zone, offset, initialized>>

\* What localtime_r and gmtime_r fill in, of a time in half hours.
Broken(t) ==
  [year |-> t \div (Day * DaysPerYear), yday |-> (t \div Day) % DaysPerYear,
   hour |-> (t % Day) \div 2, min |-> 30 * (t % 2)]

\* Mutant: the turn of the year is not looked at.
Offset_DaysOnly(local, gm) ==
  3600 * (local.hour - gm.hour) + 60 * (local.min - gm.min)
    + 24 * 3600 * (IF local.yday < gm.yday THEN -1
                   ELSE IF local.yday > gm.yday THEN 1 ELSE 0)

\* timezone_init: the year decides before the day.
Offset(local, gm) ==
  3600 * (local.hour - gm.hour) + 60 * (local.min - gm.min)
    + 24 * 3600 * (IF local.year < gm.year THEN -1
                   ELSE IF local.year > gm.year THEN 1
                   ELSE IF local.yday < gm.yday THEN -1
                   ELSE IF local.yday > gm.yday THEN 1 ELSE 0)

Init ==
  /\ now = Day    \* no local time is before the first year
  /\ zone \in Offsets \cup {-o : o \in Offsets} /\ offset = 0 /\ initialized = FALSE

Pass ==
  /\ now < Day * DaysPerYear * Years
  /\ now' = now + 1
  /\ UNCHANGED <<zone, offset, initialized>>

TimezoneInit ==
  /\ ~initialized
  /\ offset' = Offset(Broken(now + zone), Broken(now))
  /\ initialized' = TRUE
  /\ UNCHANGED <<now, zone>>

Next == Pass \/ TimezoneInit

Spec == Init /\ [][Next]_vars

-----------------------------------------------------------------------------
\* Whenever the program asks, on the last evening of a year and on the first
\* morning too, and wherever it runs, it finds the offset that the system uses.
OffsetIsTheZones == initialized => offset = 1800 * zone
=============================================================================
