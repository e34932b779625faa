------------------------------ MODULE BS3RtcDate ------------------------------
(***************************************************************************)
(* The date registers of the clock device (dev_rtc72421.c), one decimal    *)
(* digit each, and what the thread makes of them when a second is over.    *)
(* H10 is the whole byte: the ten hours in bits 0 and 1, AM_PM in bit 2.   *)
(***************************************************************************)
EXTENDS Integers

(* The registers from a struct tm (its month counted from 1).              *)
FromHost(tm) ==
  [S1 |-> tm.sec % 10, S10 |-> tm.sec \div 10, MI1 |-> tm.min % 10, MI10 |-> tm.min \div 10,
   H1 |-> tm.hour % 10, H10 |-> tm.hour \div 10, D1 |-> tm.mday % 10, D10 |-> tm.mday \div 10,
   MO1 |-> tm.mon % 10, MO10 |-> tm.mon \div 10, Y1 |-> tm.year % 10, Y10 |-> tm.year \div 10,
   W |-> tm.wday]

Month(r) == r.MO10 * 10 + r.MO1
Day(r) == r.D10 * 10 + r.D1
Year(r) == r.Y10 * 10 + r.Y1

-----------------------------------------------------------------------------
(* The carries of the cascade.                                             *)

TenSeconds(r) == r.S1 + 1 > 9
NewMinute(r) == TenSeconds(r) /\ r.S10 + 1 > 5
TenMinutes(r) == NewMinute(r) /\ r.MI1 + 1 > 9
NewHour(r) == TenMinutes(r) /\ r.MI10 + 1 > 5

AM_PM(h10) == (h10 \div 4) % 2

(* 24 hours: AM_PM is cleared, which leaves the ten hours.                 *)
Tens(r) == r.H10 % 4
Midnight24(r) == Tens(r) >= 2 /\ r.H1 + 1 > 3
HoursTo24(r) ==   \* seeded fault: 24 o'clock comes before midnight
  IF Tens(r) < 2
  THEN IF r.H1 + 1 > 9 THEN [H1 |-> 0, H10 |-> Tens(r) + 1]
                       ELSE [H1 |-> r.H1 + 1, H10 |-> Tens(r)]
  ELSE IF r.H1 + 1 > 4 THEN [H1 |-> 0, H10 |-> 0]
                       ELSE [H1 |-> r.H1 + 1, H10 |-> Tens(r)]
Hours24(r) ==
  IF Tens(r) < 2
  THEN IF r.H1 + 1 > 9 THEN [H1 |-> 0, H10 |-> Tens(r) + 1]
                       ELSE [H1 |-> r.H1 + 1, H10 |-> Tens(r)]
  ELSE IF r.H1 + 1 > 3 THEN [H1 |-> 0, H10 |-> 0]
                       ELSE [H1 |-> r.H1 + 1, H10 |-> Tens(r)]

(* 12 hours: the last assignment, to the byte H10, takes AM_PM away.       *)
Curr24h(r) == ((r.H10 * 10 + r.H1 + 12) % 12) + 12 * AM_PM(r.H10) + 1
Midnight12(r) == Curr24h(r) > 23
Hours12(r) ==
  LET h == Curr24h(r) % 24
      shown == IF h = 0 THEN 12 ELSE IF h > 12 THEN h - 12 ELSE h
  IN [H1 |-> shown % 10, H10 |-> shown \div 10]

Hours(r, h24) == IF h24 = 1 THEN Hours24(r) ELSE Hours12(r)
NewDay(r, h24) == NewHour(r) /\ IF h24 = 1 THEN Midnight24(r) ELSE Midnight12(r)

NoLeapYear(m, y) ==   \* seeded fault: February never has 29 days
  CASE m \in {1, 3, 5, 7, 8, 10, 12} -> 31 [] m = 2 -> 28 [] m \in {4, 6, 9, 11} -> 30

LastDay(m, y) ==
  CASE m \in {1, 3, 5, 7, 8, 10, 12} -> 31
    [] m = 2 -> IF y % 4 = 0 THEN 29 ELSE 28
    [] m \in {4, 6, 9, 11} -> 30

(* A month the switch does not know leaves the carry of midnight and the   *)
(* day as they are.                                                        *)
NewMonth(r, h24) ==
  NewDay(r, h24) /\ (Month(r) \in 1 .. 12 => Day(r) + 1 > LastDay(Month(r), Year(r)))
NewYear(r, h24) == NewMonth(r, h24) /\ Month(r) + 1 > 12

NextDayOf(r, h24) ==
  IF Month(r) \notin 1 .. 12 THEN Day(r) ELSE IF NewMonth(r, h24) THEN 1 ELSE Day(r) + 1
NextMonthOf(r, h24) == IF NewYear(r, h24) THEN 1 ELSE Month(r) + 1
NextYearOf(r) == IF Year(r) + 1 > 99 THEN 0 ELSE Year(r) + 1

(* The registers a second later.                                           *)
Advanced(r, h24) ==
  [S1   |-> IF TenSeconds(r) THEN 0 ELSE r.S1 + 1,
   S10  |-> IF NewMinute(r) THEN 0 ELSE IF TenSeconds(r) THEN r.S10 + 1 ELSE r.S10,
   MI1  |-> IF TenMinutes(r) THEN 0 ELSE IF NewMinute(r) THEN r.MI1 + 1 ELSE r.MI1,
   MI10 |-> IF NewHour(r) THEN 0 ELSE IF TenMinutes(r) THEN r.MI10 + 1 ELSE r.MI10,
   H1   |-> IF NewHour(r) THEN Hours(r, h24).H1 ELSE r.H1,
   H10  |-> IF NewHour(r) THEN Hours(r, h24).H10 ELSE r.H10,
   D1   |-> IF NewDay(r, h24) THEN NextDayOf(r, h24) % 10 ELSE r.D1,
   D10  |-> IF NewDay(r, h24) THEN NextDayOf(r, h24) \div 10 ELSE r.D10,
   MO1  |-> IF NewMonth(r, h24) THEN NextMonthOf(r, h24) % 10 ELSE r.MO1,
   MO10 |-> IF NewMonth(r, h24) THEN NextMonthOf(r, h24) \div 10 ELSE r.MO10,
   Y1   |-> IF NewYear(r, h24) THEN NextYearOf(r) % 10 ELSE r.Y1,
   Y10  |-> IF NewYear(r, h24) THEN NextYearOf(r) \div 10 ELSE r.Y10,
   W    |-> IF NewDay(r, h24) THEN (r.W + 1) % 7 ELSE r.W]

-----------------------------------------------------------------------------
(* What the digits mean, for the properties.                               *)

Hour(r) == Tens(r) * 10 + r.H1
SecondOfDay(r) == 3600 * Hour(r) + 60 * (10 * r.MI10 + r.MI1) + 10 * r.S10 + r.S1

AreDigits(r) ==
  /\ r.S1 \in 0 .. 9 /\ r.S10 \in 0 .. 5 /\ r.MI1 \in 0 .. 9 /\ r.MI10 \in 0 .. 5
  /\ r.H1 \in 0 .. 9 /\ r.H10 \in 0 .. 2 /\ Hour(r) <= 23
  /\ r.D1 \in 0 .. 9 /\ r.D10 \in 0 .. 3 /\ r.MO1 \in 0 .. 9 /\ r.MO10 \in 0 .. 1
  /\ r.Y1 \in 0 .. 9 /\ r.Y10 \in 0 .. 9 /\ r.W \in 0 .. 6
=============================================================================
