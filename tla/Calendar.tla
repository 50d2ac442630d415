------------------------------- MODULE Calendar -------------------------------
(***************************************************************************)
(* chrono_now_iso8601 of src/src/undo.rs, which turns the clock into a     *)
(* date without a date library, and a reference to check it against.  The  *)
(* clock is a pair of a day since 1970-01-01 and a second of that day: its *)
(* quotient and remainder by 86400, with which the code begins.            *)
(***************************************************************************)
EXTENDS Integers, Sequences

SecondsOfDay == {s \in Nat : s < 86400}
Clock == [day : Nat, second : SecondsOfDay]

(* A plausible bug: centuries are forgotten. *)
is_leap_year_Julian(y) == y % 4 = 0

is_leap_year(y) == (y % 4 = 0 /\ y % 100 # 0) \/ y % 400 = 0

DaysInYear(y) == IF is_leap_year(y) THEN 366 ELSE 365

MonthDays(y) ==
  <<31, IF is_leap_year(y) THEN 29 ELSE 28, 31, 30, 31, 30, 31, 31, 30, 31, 30, 31>>

(* The loop over the years ... *)
YearStates == [y : Nat, remaining : Nat]
YearAndRest[at \in YearStates] ==
  IF at.remaining < DaysInYear(at.y) THEN at
  ELSE YearAndRest[[y |-> at.y + 1, remaining |-> at.remaining - DaysInYear(at.y)]]

(* ... then the loop over the months, which leaves m alone if it runs out. *)
MonthStates == [y : Nat, m : 1..13, remaining : Nat]
MonthAndRest[at \in MonthStates] ==
  IF at.m = 13 THEN [at EXCEPT !.m = 1]
  ELSE IF at.remaining < MonthDays(at.y)[at.m] THEN at
  ELSE MonthAndRest[[y |-> at.y, m |-> at.m + 1,
                     remaining |-> at.remaining - MonthDays(at.y)[at.m]]]

chrono_now_iso8601(clock) ==
  LET year == YearAndRest[[y |-> 1970, remaining |-> clock.day]]
      month == MonthAndRest[[y |-> year.y, m |-> 1, remaining |-> year.remaining]]
  IN  [y |-> year.y, m |-> month.m, d |-> month.remaining + 1,
       hours |-> clock.second \div 3600,
       minutes |-> (clock.second % 3600) \div 60,
       seconds |-> clock.second % 60]

-----------------------------------------------------------------------------
(* The reference: the day number of a date of the Gregorian calendar, by    *)
(* counting from March so that the leap day comes last.                     *)
DayNumber(y, m, d) ==
  LET a == IF m <= 2 THEN 1 ELSE 0
      Y == y - a
      M == m + 12 * a - 3
  IN  365 * Y + Y \div 4 - Y \div 100 + Y \div 400 + (153 * M + 2) \div 5 + d - 719469

IsDateOf(date, clock) ==
  /\ date.m \in 1..12 /\ date.d \in 1..31
  /\ date.hours \in 0..23 /\ date.minutes \in 0..59 /\ date.seconds \in 0..59
  /\ DayNumber(date.y, date.m, date.d) = clock.day
  /\ 3600 * date.hours + 60 * date.minutes + date.seconds = clock.second
  \* a day of the month that the month has
  /\ date.m < 12 => DayNumber(date.y, date.m + 1, 1) > clock.day
=============================================================================
