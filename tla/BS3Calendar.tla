------------------------------ MODULE BS3Calendar ------------------------------
(***************************************************************************)
(* What the clock device promises: the time of day, the date and the day   *)
(* of the week go on second by second through the years 00 to 99.  The     *)
(* host may set them to any valid time.                                    *)
(***************************************************************************)
EXTENDS Integers

VARIABLES second,            \* of the day
          day, month, year, weekday

calendarVars == <<second, day, month, year, weekday>>

Leap(y) == y % 4 = 0

DaysIn(m, y) ==
  CASE m = 2 -> IF Leap(y) THEN 29 ELSE 28
    [] m \in {4, 6, 9, 11} -> 30
    [] m \in {1, 3, 5, 7, 8, 10, 12} -> 31

Valid ==
  /\ second \in Nat /\ second < 86400
  /\ year \in 0 .. 99 /\ month \in 1 .. 12
  /\ day \in 1 .. DaysIn(month, year)
  /\ weekday \in 0 .. 6

SameDay == second < 86399 /\ second' = second + 1 /\ UNCHANGED <<day, month, year, weekday>>

Midnight == second = 86399 /\ second' = 0 /\ weekday' = (weekday + 1) % 7

LastOfMonth == day = DaysIn(month, year)

NextDay == Midnight /\ ~LastOfMonth /\ day' = day + 1 /\ UNCHANGED <<month, year>>

NextMonth ==
  Midnight /\ LastOfMonth /\ month < 12 /\ day' = 1 /\ month' = month + 1 /\ UNCHANGED year

NextYear ==
  Midnight /\ LastOfMonth /\ month = 12 /\ day' = 1 /\ month' = 1 /\ year' = (year + 1) % 100

Tick == SameDay \/ NextDay \/ NextMonth \/ NextYear
Set == Valid'

Spec == Valid /\ [][Tick \/ Set]_calendarVars
================================================================================
