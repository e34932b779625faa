----------------------------- MODULE BS3RtcProofs -----------------------------
(***************************************************************************)
(* Proofs about the clock device: its registers always hold a date that    *)
(* exists, and in 24 hour mode they count as the calendar does.            *)
(***************************************************************************)
EXTENDS BS3Rtc, TLAPS

(* The constant level part of DateIsValid, for any registers r.            *)
ExistingDay(r) ==
  /\ Month(r) \in 1 .. 12 /\ Day(r) \in 1 .. Calendar!DaysIn(Month(r), Year(r))

(* Two decimal digits hold any number up to 99.                            *)
LEMMA TwoDigits ==
  ASSUME NEW n \in 0 .. 99
  PROVE  /\ n % 10 \in 0 .. 9 /\ n \div 10 \in 0 .. 9
         /\ ((n \div 10) * 10) + (n % 10) = n
  OBVIOUS

(* The two tables of month lengths, the switch of the code and the one of  *)
(* the calendar, agree.                                                    *)
LEMMA SameTables ==
  ASSUME NEW m \in 1 .. 12, NEW y \in 0 .. 99
  PROVE  LastDay(m, y) = Calendar!DaysIn(m, y) /\ LastDay(m, y) \in 28 .. 31
  BY DEF LastDay, Calendar!DaysIn, Calendar!Leap

(* With AM_PM clear the byte H10 is the ten hours.                         *)
LEMMA NoAmPm ==
  ASSUME NEW r, r.H10 \in 0 .. 2
  PROVE  Tens(r) = r.H10 /\ AM_PM(r.H10) = 0
  BY DEF Tens, AM_PM

(* 24 hours: the hour after 23 is 0 and a day is over, any other hour is   *)
(* followed by the next.                                                   *)
LEMMA NextHour24 ==
  ASSUME NEW r, AreDigits(r)
  PROVE  /\ Hours24(r).H1 \in 0 .. 9 /\ Hours24(r).H10 \in 0 .. 2
         /\ Midnight24(r) <=> Hour(r) = 23
         /\ Midnight24(r) => Hours24(r).H10 * 10 + Hours24(r).H1 = 0
         /\ ~Midnight24(r) => Hours24(r).H10 * 10 + Hours24(r).H1 = Hour(r) + 1
  BY NoAmPm DEF AreDigits, Hours24, Midnight24, Hour

(* 12 hours: the hour shown is one of 1 to 12 and no day is ever over.     *)
LEMMA NextHour12 ==
  ASSUME NEW r, AreDigits(r)
  PROVE  /\ Hours12(r).H1 \in 0 .. 9 /\ Hours12(r).H10 \in 0 .. 1
         /\ Hours12(r).H10 * 10 + Hours12(r).H1 \in 1 .. 12
         /\ ~Midnight12(r)
<1>1. r.H10 \in 0 .. 2 /\ r.H1 \in 0 .. 9 /\ AM_PM(r.H10) = 0
  BY NoAmPm DEF AreDigits
<1>2. Curr24h(r) \in 1 .. 12
  BY <1>1 DEF Curr24h
<1>3. Curr24h(r) % 24 = Curr24h(r)
  BY <1>2
<1>4. Hours12(r) = [H1 |-> Curr24h(r) % 10, H10 |-> Curr24h(r) \div 10]
  BY <1>2, <1>3 DEF Hours12
<1>5. Hours12(r).H1 = Curr24h(r) % 10 /\ Hours12(r).H10 = Curr24h(r) \div 10
  BY <1>4
<1> QED BY <1>2, <1>5 DEF Midnight12

(* The hours stay digits of an hour in either mode.                        *)
LEMMA HoursStayDigits ==
  ASSUME NEW r, AreDigits(r), NEW h24 \in {0, 1}
  PROVE  /\ Hours(r, h24).H1 \in 0 .. 9 /\ Hours(r, h24).H10 \in 0 .. 2
         /\ Hours(r, h24).H10 * 10 + Hours(r, h24).H1 <= 23
<1>1. Hour(r) \in 0 .. 23
  BY NoAmPm DEF AreDigits, Hour
<1>2. CASE h24 = 1
  BY <1>1, <1>2, NextHour24 DEF Hours
<1>3. CASE h24 = 0
  BY <1>3, NextHour12 DEF Hours
<1> QED BY <1>2, <1>3

-----------------------------------------------------------------------------
(* Midnight comes to a date that exists: the code turns the day, the month *)
(* and the year over where the calendar does.                              *)
LEMMA DaysGoOn ==
  ASSUME NEW r, AreDigits(r), ExistingDay(r), NEW h24 \in {0, 1}, NewDay(r, h24)
  PROVE  /\ Year(r) \in 0 .. 99
         /\ NewMonth(r, h24) <=> Day(r) = Calendar!DaysIn(Month(r), Year(r))
         /\ NewYear(r, h24) <=> NewMonth(r, h24) /\ Month(r) = 12
         /\ NextDayOf(r, h24) = IF NewMonth(r, h24) THEN 1 ELSE Day(r) + 1
         /\ NextDayOf(r, h24) \in 1 .. 31
         /\ NewMonth(r, h24) => NextMonthOf(r, h24) \in 1 .. 12
         /\ NextYearOf(r) = (Year(r) + 1) % 100 /\ NextYearOf(r) \in 0 .. 99
<1>1. Year(r) \in 0 .. 99
  BY DEF AreDigits, Year
<1>2. /\ LastDay(Month(r), Year(r)) = Calendar!DaysIn(Month(r), Year(r))
      /\ LastDay(Month(r), Year(r)) \in 28 .. 31
  BY <1>1, SameTables DEF ExistingDay
<1>3. Month(r) \in 1 .. 12 /\ Day(r) \in 1 .. LastDay(Month(r), Year(r))
  BY <1>2 DEF ExistingDay
<1>4. NewMonth(r, h24) <=> Day(r) = LastDay(Month(r), Year(r))
  BY <1>2, <1>3 DEF NewMonth
<1>5. NewYear(r, h24) <=> NewMonth(r, h24) /\ Month(r) = 12
  BY <1>3 DEF NewYear
<1>6. NextDayOf(r, h24) = IF NewMonth(r, h24) THEN 1 ELSE Day(r) + 1
  BY <1>3 DEF NextDayOf
<1>7. NextDayOf(r, h24) \in 1 .. 31
  BY <1>2, <1>3, <1>4, <1>6
<1>8. NewMonth(r, h24) => NextMonthOf(r, h24) \in 1 .. 12
  BY <1>3, <1>5 DEF NextMonthOf
<1>9. NextYearOf(r) = (Year(r) + 1) % 100 /\ NextYearOf(r) \in 0 .. 99
  BY <1>1 DEF NextYearOf
<1> QED BY <1>1, <1>2, <1>4, <1>5, <1>6, <1>7, <1>8, <1>9

-----------------------------------------------------------------------------
(* What a second does to the parts of the date.                            *)

SecondOfHour(r) == 60 * (10 * r.MI10 + r.MI1) + 10 * r.S10 + r.S1

LEMMA MinutesGoOn ==
  ASSUME NEW r, AreDigits(r), NEW h24
  PROVE  LET q == Advanced(r, h24) IN
         /\ q.S1 \in 0 .. 9 /\ q.S10 \in 0 .. 5 /\ q.MI1 \in 0 .. 9 /\ q.MI10 \in 0 .. 5
         /\ NewHour(r) <=> SecondOfHour(r) = 3599
         /\ SecondOfHour(q) = IF NewHour(r) THEN 0 ELSE SecondOfHour(r) + 1
<1> DEFINE q == Advanced(r, h24)
<1>1. PICK a \in 0 .. 9, b \in 0 .. 5, c \in 0 .. 9, d \in 0 .. 5 :
        r.S1 = a /\ r.S10 = b /\ r.MI1 = c /\ r.MI10 = d
  BY DEF AreDigits
<1>2. /\ TenSeconds(r) <=> a = 9
      /\ NewMinute(r) <=> a = 9 /\ b = 5
      /\ TenMinutes(r) <=> a = 9 /\ b = 5 /\ c = 9
      /\ NewHour(r) <=> a = 9 /\ b = 5 /\ c = 9 /\ d = 5
  BY <1>1 DEF TenSeconds, NewMinute, TenMinutes, NewHour
<1>3. /\ q.S1 = IF TenSeconds(r) THEN 0 ELSE a + 1
      /\ q.S10 = IF NewMinute(r) THEN 0 ELSE IF TenSeconds(r) THEN b + 1 ELSE b
      /\ q.MI1 = IF TenMinutes(r) THEN 0 ELSE IF NewMinute(r) THEN c + 1 ELSE c
      /\ q.MI10 = IF NewHour(r) THEN 0 ELSE IF TenMinutes(r) THEN d + 1 ELSE d
  BY <1>1 DEF Advanced
<1> HIDE DEF q
<1>4. q.S1 \in 0 .. 9 /\ q.S10 \in 0 .. 5 /\ q.MI1 \in 0 .. 9 /\ q.MI10 \in 0 .. 5
  BY <1>2, <1>3
<1> DEFINE s == 60 * (10 * d + c) + 10 * b + a
<1>s. /\ s \in Nat /\ s < 3600
      /\ s = 3599 <=> a = 9 /\ b = 5 /\ c = 9 /\ d = 5
      /\ 60 * (10 * d + c) + 10 * b + (a + 1) = s + 1
      /\ a = 9 => 60 * (10 * d + c) + 10 * (b + 1) + 0 = s + 1
      /\ a = 9 /\ b = 5 => 60 * (10 * d + (c + 1)) + 10 * 0 + 0 = s + 1
      /\ a = 9 /\ b = 5 /\ c = 9 => 60 * (10 * (d + 1) + 0) + 10 * 0 + 0 = s + 1
  OBVIOUS
<1>5. SecondOfHour(r) = s
  BY <1>1 DEF SecondOfHour
<1> HIDE DEF s
<1>6. NewHour(r) <=> SecondOfHour(r) = 3599
  BY <1>2, <1>5, <1>s
<1>7. SecondOfHour(q) = IF NewHour(r) THEN 0 ELSE SecondOfHour(r) + 1
  <2>1. CASE ~TenSeconds(r)
    <3>1. SecondOfHour(q) = 60 * (10 * d + c) + 10 * b + (a + 1)
      BY <1>2, <1>3, <2>1 DEF SecondOfHour
    <3> QED BY <1>2, <1>5, <2>1, <3>1, <1>s
  <2>2. CASE TenSeconds(r) /\ ~NewMinute(r)
    <3>1. SecondOfHour(q) = 60 * (10 * d + c) + 10 * (b + 1) + 0
      BY <1>2, <1>3, <2>2 DEF SecondOfHour
    <3> QED BY <1>2, <1>5, <2>2, <3>1, <1>s
  <2>3. CASE NewMinute(r) /\ ~TenMinutes(r)
    <3>1. SecondOfHour(q) = 60 * (10 * d + (c + 1)) + 10 * 0 + 0
      BY <1>2, <1>3, <2>3 DEF SecondOfHour
    <3> QED BY <1>2, <1>5, <2>3, <3>1, <1>s
  <2>4. CASE TenMinutes(r) /\ ~NewHour(r)
    <3>1. SecondOfHour(q) = 60 * (10 * (d + 1) + 0) + 10 * 0 + 0
      BY <1>2, <1>3, <2>4 DEF SecondOfHour
    <3> QED BY <1>2, <1>5, <2>4, <3>1, <1>s
  <2>5. CASE NewHour(r)
    BY <1>2, <1>3, <2>5 DEF SecondOfHour
  <2> QED BY <1>2, <2>1, <2>2, <2>3, <2>4, <2>5
<1> QED BY <1>4, <1>6, <1>7 DEF q

LEMMA HoursGoOn ==
  ASSUME NEW r, AreDigits(r), NEW h24 \in {0, 1}
  PROVE  /\ Advanced(r, h24).H1 \in 0 .. 9 /\ Advanced(r, h24).H10 \in 0 .. 2
         /\ Hour(Advanced(r, h24)) \in 0 .. 23
         /\ ~NewHour(r) => Hour(Advanced(r, h24)) = Hour(r) /\ ~NewDay(r, h24)
         /\ NewHour(r) /\ h24 = 1 =>
              /\ NewDay(r, h24) <=> Hour(r) = 23
              /\ Hour(Advanced(r, h24)) = IF NewDay(r, h24) THEN 0 ELSE Hour(r) + 1
<1>1. /\ Advanced(r, h24).H1 = IF NewHour(r) THEN Hours(r, h24).H1 ELSE r.H1
      /\ Advanced(r, h24).H10 = IF NewHour(r) THEN Hours(r, h24).H10 ELSE r.H10
  BY DEF Advanced
<1>2. /\ r.H1 \in 0 .. 9 /\ r.H10 \in 0 .. 2 /\ Tens(r) = r.H10 /\ Hour(r) <= 23
  BY NoAmPm DEF AreDigits
<1>3. Advanced(r, h24).H1 \in 0 .. 9 /\ Advanced(r, h24).H10 \in 0 .. 2
  BY <1>1, <1>2, HoursStayDigits
<1>4. Hour(Advanced(r, h24)) = Advanced(r, h24).H10 * 10 + Advanced(r, h24).H1
  BY <1>3, NoAmPm DEF Hour
<1>5. Hour(r) = r.H10 * 10 + r.H1
  BY <1>2 DEF Hour
<1>6. Hour(Advanced(r, h24)) \in 0 .. 23
  BY <1>1, <1>2, <1>3, <1>4, <1>5, HoursStayDigits
<1>7. ~NewHour(r) => Hour(Advanced(r, h24)) = Hour(r) /\ ~NewDay(r, h24)
  BY <1>1, <1>4, <1>5 DEF NewDay
<1>8. ASSUME NewHour(r), h24 = 1
      PROVE  /\ NewDay(r, h24) <=> Hour(r) = 23
             /\ Hour(Advanced(r, h24)) = IF NewDay(r, h24) THEN 0 ELSE Hour(r) + 1
  <2>1. NewDay(r, h24) <=> Midnight24(r)
    BY <1>8 DEF NewDay
  <2>2. Hour(Advanced(r, h24)) = Hours24(r).H10 * 10 + Hours24(r).H1
    BY <1>1, <1>4, <1>8 DEF Hours
  <2> QED BY <2>1, <2>2, NextHour24
<1> QED BY <1>3, <1>6, <1>7, <1>8

LEMMA DateGoesOn ==
  ASSUME NEW r, AreDigits(r), ExistingDay(r), NEW h24 \in {0, 1}
  PROVE  LET q == Advanced(r, h24) IN
         /\ q.D1 \in 0 .. 9 /\ q.D10 \in 0 .. 3 /\ q.MO1 \in 0 .. 9 /\ q.MO10 \in 0 .. 1
         /\ q.Y1 \in 0 .. 9 /\ q.Y10 \in 0 .. 9 /\ q.W \in 0 .. 6
         /\ Day(q) = IF NewDay(r, h24) THEN NextDayOf(r, h24) ELSE Day(r)
         /\ Month(q) = IF NewMonth(r, h24) THEN NextMonthOf(r, h24) ELSE Month(r)
         /\ Year(q) = IF NewYear(r, h24) THEN NextYearOf(r) ELSE Year(r)
         /\ q.W = IF NewDay(r, h24) THEN (r.W + 1) % 7 ELSE r.W
<1> DEFINE q == Advanced(r, h24)
<1>1. /\ q.D1 = IF NewDay(r, h24) THEN NextDayOf(r, h24) % 10 ELSE r.D1
      /\ q.D10 = IF NewDay(r, h24) THEN NextDayOf(r, h24) \div 10 ELSE r.D10
      /\ q.MO1 = IF NewMonth(r, h24) THEN NextMonthOf(r, h24) % 10 ELSE r.MO1
      /\ q.MO10 = IF NewMonth(r, h24) THEN NextMonthOf(r, h24) \div 10 ELSE r.MO10
      /\ q.Y1 = IF NewYear(r, h24) THEN NextYearOf(r) % 10 ELSE r.Y1
      /\ q.Y10 = IF NewYear(r, h24) THEN NextYearOf(r) \div 10 ELSE r.Y10
      /\ q.W = IF NewDay(r, h24) THEN (r.W + 1) % 7 ELSE r.W
  BY DEF Advanced
<1>2. /\ r.D1 \in 0 .. 9 /\ r.D10 \in 0 .. 3 /\ r.MO1 \in 0 .. 9 /\ r.MO10 \in 0 .. 1
      /\ r.Y1 \in 0 .. 9 /\ r.Y10 \in 0 .. 9 /\ r.W \in 0 .. 6
  BY DEF AreDigits
<1>3. (NewMonth(r, h24) => NewDay(r, h24)) /\ (NewYear(r, h24) => NewMonth(r, h24))
  BY DEF NewMonth, NewYear
<1> HIDE DEF q
<1>4. /\ q.D1 \in 0 .. 9 /\ q.D10 \in 0 .. 3
      /\ Day(q) = IF NewDay(r, h24) THEN NextDayOf(r, h24) ELSE Day(r)
  <2>1. CASE NewDay(r, h24)
    BY <1>1, <2>1, DaysGoOn, TwoDigits DEF Day
  <2>2. CASE ~NewDay(r, h24)
    BY <1>1, <1>2, <2>2 DEF Day
  <2> QED BY <2>1, <2>2
<1>5. /\ q.MO1 \in 0 .. 9 /\ q.MO10 \in 0 .. 1
      /\ Month(q) = IF NewMonth(r, h24) THEN NextMonthOf(r, h24) ELSE Month(r)
  <2>1. CASE NewMonth(r, h24)
    BY <1>1, <1>3, <2>1, DaysGoOn, TwoDigits DEF Month
  <2>2. CASE ~NewMonth(r, h24)
    BY <1>1, <1>2, <2>2 DEF Month
  <2> QED BY <2>1, <2>2
<1>6. /\ q.Y1 \in 0 .. 9 /\ q.Y10 \in 0 .. 9
      /\ Year(q) = IF NewYear(r, h24) THEN NextYearOf(r) ELSE Year(r)
  <2>1. CASE NewYear(r, h24)
    BY <1>1, <1>3, <2>1, DaysGoOn, TwoDigits DEF Year
  <2>2. CASE ~NewYear(r, h24)
    BY <1>1, <1>2, <2>2 DEF Year
  <2> QED BY <2>1, <2>2
<1>7. q.W \in 0 .. 6 /\ q.W = IF NewDay(r, h24) THEN (r.W + 1) % 7 ELSE r.W
  BY <1>1, <1>2
<1> QED BY <1>4, <1>5, <1>6, <1>7 DEF q

(* The digits of the second of the day, from its hour and the rest.        *)
LEMMA SecondOfDayParts ==
  ASSUME NEW r, AreDigits(r)
  PROVE  /\ Hour(r) \in 0 .. 23 /\ SecondOfHour(r) \in Nat /\ SecondOfHour(r) < 3600
         /\ SecondOfDay(r) = 3600 * Hour(r) + SecondOfHour(r)
<1>1. Hour(r) \in 0 .. 23
  BY NoAmPm DEF AreDigits, Hour
<1>2. PICK a \in 0 .. 9, b \in 0 .. 5, c \in 0 .. 9, d \in 0 .. 5, h \in 0 .. 23 :
        r.S1 = a /\ r.S10 = b /\ r.MI1 = c /\ r.MI10 = d /\ Hour(r) = h
  BY <1>1 DEF AreDigits
<1>3. /\ SecondOfDay(r) = 3600 * h + 60 * (10 * d + c) + 10 * b + a
      /\ SecondOfHour(r) = 60 * (10 * d + c) + 10 * b + a
  BY <1>2 DEF SecondOfDay, SecondOfHour
<1>4. /\ 3600 * h + 60 * (10 * d + c) + 10 * b + a = 3600 * h + (60 * (10 * d + c) + 10 * b + a)
      /\ 60 * (10 * d + c) + 10 * b + a \in Nat /\ 60 * (10 * d + c) + 10 * b + a < 3600
  OBVIOUS
<1> QED BY <1>1, <1>2, <1>3, <1>4

(* A second later the registers are still digits of a date that exists.    *)
LEMMA AdvancedExists ==
  ASSUME NEW r, AreDigits(r), ExistingDay(r), NEW h24 \in {0, 1}
  PROVE  AreDigits(Advanced(r, h24)) /\ ExistingDay(Advanced(r, h24))
<1> DEFINE q == Advanced(r, h24)
<1>1. AreDigits(q)
  BY MinutesGoOn, HoursGoOn, DateGoesOn DEF AreDigits
<1>2. /\ Day(q) = IF NewDay(r, h24) THEN NextDayOf(r, h24) ELSE Day(r)
      /\ Month(q) = IF NewMonth(r, h24) THEN NextMonthOf(r, h24) ELSE Month(r)
      /\ Year(q) = IF NewYear(r, h24) THEN NextYearOf(r) ELSE Year(r)
  BY DateGoesOn
<1>3. (NewMonth(r, h24) => NewDay(r, h24)) /\ (NewYear(r, h24) => NewMonth(r, h24))
  BY DEF NewMonth, NewYear
<1> HIDE DEF q
<1>4. CASE ~NewDay(r, h24)
  BY <1>1, <1>2, <1>3, <1>4 DEF ExistingDay, q
<1>5. CASE NewDay(r, h24) /\ ~NewMonth(r, h24)
  <2>1. Month(q) = Month(r) /\ Year(q) = Year(r) /\ Day(q) = Day(r) + 1
    BY <1>2, <1>3, <1>5, DaysGoOn
  <2>2. Day(r) # Calendar!DaysIn(Month(r), Year(r))
    BY <1>5, DaysGoOn
  <2>3. Calendar!DaysIn(Month(r), Year(r)) \in 28 .. 31
    BY <1>5, DaysGoOn, SameTables DEF ExistingDay
  <2>4. ExistingDay(q)
    BY <2>1, <2>2, <2>3 DEF ExistingDay
  <2> QED BY <1>1, <2>4 DEF q
<1>6. CASE NewMonth(r, h24)
  <2>1. Day(q) = 1 /\ Month(q) \in 1 .. 12 /\ Year(q) \in 0 .. 99
    BY <1>2, <1>3, <1>6, DaysGoOn
  <2>2. Calendar!DaysIn(Month(q), Year(q)) \in 28 .. 31
    BY <2>1, SameTables
  <2> QED BY <1>1, <2>1, <2>2 DEF ExistingDay, q
<1> QED BY <1>4, <1>5, <1>6

(* In 24 hour mode a second later is the next second of the calendar.      *)
LEMMA AdvancedTicks ==
  ASSUME AreDigits(date), ExistingDay(date), date' = Advanced(date, 1)
  PROVE  Calendar!Tick
<1> DEFINE q == Advanced(date, 1)
<1> USE DEF Calendar!Tick, Calendar!SameDay, Calendar!NextDay, Calendar!NextMonth,
            Calendar!NextYear, Calendar!Midnight, Calendar!LastOfMonth
<1>1. AreDigits(q)
  BY AdvancedExists
<1> DEFINE h == Hour(date)   s == SecondOfHour(date)   g == Hour(q)   t == SecondOfHour(q)
<1>2. h \in 0 .. 23 /\ s \in Nat /\ s < 3600 /\ SecondOfDay(date) = 3600 * h + s
  BY SecondOfDayParts
<1>3. g \in 0 .. 23 /\ t \in Nat /\ t < 3600 /\ SecondOfDay(q) = 3600 * g + t
  BY <1>1, SecondOfDayParts
<1>4. NewHour(date) <=> s = 3599
  BY <1>2, MinutesGoOn
<1>5. NewDay(date, 1) <=> s = 3599 /\ h = 23
  BY <1>2, <1>4, HoursGoOn
<1>6. t = IF s = 3599 THEN 0 ELSE s + 1
  BY <1>2, <1>3, <1>4, MinutesGoOn
<1>7. g = IF s # 3599 THEN h ELSE IF h = 23 THEN 0 ELSE h + 1
  BY <1>2, <1>3, <1>4, <1>5, HoursGoOn
<1> HIDE DEF h, s, g, t
<1>8. IF NewDay(date, 1) THEN SecondOfDay(date) = 86399 /\ SecondOfDay(q) = 0
                         ELSE SecondOfDay(date) < 86399 /\ SecondOfDay(q) = SecondOfDay(date) + 1
  BY <1>2, <1>3, <1>5, <1>6, <1>7
<1>9. /\ Day(q) = IF NewDay(date, 1) THEN NextDayOf(date, 1) ELSE Day(date)
      /\ Month(q) = IF NewMonth(date, 1) THEN NextMonthOf(date, 1) ELSE Month(date)
      /\ Year(q) = IF NewYear(date, 1) THEN NextYearOf(date) ELSE Year(date)
      /\ q.W = IF NewDay(date, 1) THEN (date.W + 1) % 7 ELSE date.W
  BY DateGoesOn
<1>10. (NewMonth(date, 1) => NewDay(date, 1)) /\ (NewYear(date, 1) => NewMonth(date, 1))
  BY DEF NewMonth, NewYear
<1>11. date' = q
  OBVIOUS
<1> HIDE DEF q
<1>12. CASE ~NewDay(date, 1)
  BY <1>8, <1>9, <1>10, <1>11, <1>12
<1>13. CASE NewDay(date, 1) /\ ~NewMonth(date, 1)
  BY <1>8, <1>9, <1>10, <1>11, <1>13, DaysGoOn
<1>14. CASE NewMonth(date, 1) /\ ~NewYear(date, 1)
  <2>1. Month(date) < 12 /\ Month(q) = Month(date) + 1
    BY <1>9, <1>14, DaysGoOn DEF NewYear, NextMonthOf, ExistingDay
  <2>2. Day(q) = 1 /\ Day(date) = Calendar!DaysIn(Month(date), Year(date))
    BY <1>9, <1>10, <1>14, DaysGoOn
  <2> QED BY <1>8, <1>9, <1>10, <1>11, <1>14, <2>1, <2>2
<1>15. CASE NewYear(date, 1)
  <2>1. Month(date) = 12 /\ Month(q) = 1 /\ Year(q) = (Year(date) + 1) % 100
    BY <1>9, <1>10, <1>15, DaysGoOn DEF NextMonthOf
  <2>2. Day(q) = 1 /\ Day(date) = Calendar!DaysIn(Month(date), Year(date))
    BY <1>9, <1>10, <1>15, DaysGoOn
  <2> QED BY <1>8, <1>9, <1>10, <1>11, <1>15, <2>1, <2>2
<1> QED BY <1>12, <1>13, <1>14, <1>15

-----------------------------------------------------------------------------
(* The inductive invariant: the device is BUSY whenever the program runs,  *)
(* which keeps the program from the date, and the half tick that counts a  *)
(* second is not one that may raise the 1/64 second interrupt.             *)
Unheld == HOLD = 0 /\ (cpupc = "start" \/ BUSY = 1)
SecondAlone == trig /\ pc # "none" => pc = "load" \/ (pc = "advance" /\ pulseCount = 0)
MayStart == cpupc \in {"start", "rejoin"} => starts < MaxStarts

ExistingDate(r) == AreDigits(r) /\ ExistingDay(r)

RtcInv == TypeOK /\ Unheld /\ SecondAlone /\ MayStart /\ (Running => ExistingDate(date))

LEMMA ExistingDateIsValid ==
  ASSUME AreDigits(date), ExistingDay(date)
  PROVE  AreDigits(date) /\ Calendar!Valid
<1>1. SecondOfDay(date) \in Nat /\ SecondOfDay(date) < 86400
  <2> DEFINE h == Hour(date)   s == SecondOfHour(date)
  <2>1. h \in 0 .. 23 /\ s \in Nat /\ s < 3600 /\ SecondOfDay(date) = 3600 * h + s
    BY SecondOfDayParts
  <2> HIDE DEF h, s
  <2> QED BY <2>1
<1>2. Year(date) \in 0 .. 99 /\ date.W \in 0 .. 6
  BY DEF Year, AreDigits
<1> QED BY <1>1, <1>2 DEF ExistingDay, Calendar!Valid

(* The host's time, when the thread starts, is a date that exists.         *)
LEMMA HostDateExists ==
  ASSUME NEW tm \in HostTimes
  PROVE  ExistingDate(FromHost(tm))
<1> DEFINE q == FromHost(tm)
<1>1. /\ tm.sec \in 0 .. 59 /\ tm.min \in 0 .. 59 /\ tm.hour \in 0 .. 23 /\ tm.mday \in 1 .. 31
      /\ tm.mon \in 1 .. 12 /\ tm.year \in 0 .. 99 /\ tm.wday \in 0 .. 6
      /\ tm.mday <= Calendar!DaysIn(tm.mon, tm.year)
  BY HostTimesAssumption
<1>2. /\ q.S1 = tm.sec % 10 /\ q.S10 = tm.sec \div 10
      /\ q.MI1 = tm.min % 10 /\ q.MI10 = tm.min \div 10
      /\ q.H1 = tm.hour % 10 /\ q.H10 = tm.hour \div 10
      /\ q.D1 = tm.mday % 10 /\ q.D10 = tm.mday \div 10
      /\ q.MO1 = tm.mon % 10 /\ q.MO10 = tm.mon \div 10
      /\ q.Y1 = tm.year % 10 /\ q.Y10 = tm.year \div 10 /\ q.W = tm.wday
  BY DEF FromHost
<1> HIDE DEF q
<1>3. q.S1 \in 0 .. 9 /\ q.S10 \in 0 .. 5 /\ q.MI1 \in 0 .. 9 /\ q.MI10 \in 0 .. 5
  BY <1>1, <1>2
<1>4. q.H1 \in 0 .. 9 /\ q.H10 \in 0 .. 2 /\ Hour(q) = tm.hour
  <2>1. q.H1 \in 0 .. 9 /\ q.H10 \in 0 .. 2 /\ q.H10 * 10 + q.H1 = tm.hour
    BY <1>1, <1>2, TwoDigits
  <2> QED BY <2>1, NoAmPm DEF Hour
<1>5. q.D1 \in 0 .. 9 /\ q.D10 \in 0 .. 3 /\ Day(q) = tm.mday
  BY <1>1, <1>2, TwoDigits DEF Day
<1>6. q.MO1 \in 0 .. 9 /\ q.MO10 \in 0 .. 1 /\ Month(q) = tm.mon
  BY <1>1, <1>2, TwoDigits DEF Month
<1>7. q.Y1 \in 0 .. 9 /\ q.Y10 \in 0 .. 9 /\ Year(q) = tm.year
  BY <1>1, <1>2, TwoDigits DEF Year
<1>8. AreDigits(q)
  BY <1>1, <1>2, <1>3, <1>4, <1>5, <1>6, <1>7 DEF AreDigits
<1>9. tm.mday \in 1 .. Calendar!DaysIn(tm.mon, tm.year)
  BY <1>1, SameTables
<1> QED BY <1>1, <1>5, <1>6, <1>7, <1>8, <1>9 DEF ExistingDate, ExistingDay, q

-----------------------------------------------------------------------------
LEMMA RtcInit == Init => RtcInv
<1> SUFFICES ASSUME Init PROVE RtcInv
  OBVIOUS
<1>1. TypeOK
  <2>1. 0 \in 0 .. HalfTicks - 1 /\ 0 \in 0 .. MaxSeconds /\ 0 \in 0 .. MaxStarts
    BY HalfTicksAssumption, BoundsAssumption
  <2>2. /\ CE \in [MASK : {0, 1}, ITRPT_STND : {0, 1}, t0_1 : 0 .. 3]
        /\ CF \in [h24 : {0, 1}, STOP : {0, 1}, RESET : {0, 1}]
    BY DEF Init
  <2> QED BY <2>1, <2>2 DEF Init, TypeOK
<1>2. Unheld /\ SecondAlone /\ MayStart /\ ~Running
  BY BoundsAssumption DEF Init, Unheld, SecondAlone, MayStart, Running
<1> QED BY <1>1, <1>2 DEF RtcInv

(* A half tick: the 1/64 second interrupt and the look at the host's       *)
(* clock never fall together, for HalfTicks is a multiple of 4.            *)
LEMMA HalfTickKeeps ==
  ASSUME RtcInv, HalfTick
  PROVE  RtcInv'
<1> USE DEF RtcInv, HalfTick, cpuVars, control
<1>1. count + 1 \in 1 .. HalfTicks /\ count' = CountAfter(count + 1)
  BY HalfTicksAssumption DEF TypeOK
<1>2. count' \in 0 .. HalfTicks - 1
  BY <1>1, HalfTicksAssumption DEF CountAfter
<1>3. FlagAfterPulse \in {0, 1} /\ PulseAfter = 0
  BY DEF TypeOK, FlagAfterPulse, PulseAfter
<1>4. IRQ_FLAG' \in {0, 1} /\ pulseCount' \in {0, 1} /\ fired' \in BOOLEAN
  BY <1>3 DEF FixedPeriod
<1>5. trig' => pulseCount' = 0
  <2>1. count + 1 # HalfTicks => ~trig'
    BY DEF SecondAlone, TypeOK
  <2>2. count + 1 = HalfTicks => ~Due64(count + 1)
    BY HalfTicksAssumption DEF Due64
  <2>3. ~Due64(count + 1) => pulseCount' = 0
    BY <1>3 DEF FixedPeriod
  <2> QED BY <2>1, <2>2, <2>3
<1>6. trig' \in BOOLEAN /\ elapsed' \in BOOLEAN
  BY DEF TypeOK
<1>7. TypeOK'
  BY <1>2, <1>4, <1>6 DEF TypeOK
<1>8. Unheld' /\ MayStart'
  BY DEF Unheld, MayStart
<1>9. SecondAlone'
  BY <1>5 DEF SecondAlone
<1>10. Running' => ExistingDate(date)'
  BY DEF Running
<1> QED BY <1>7, <1>8, <1>9, <1>10

LEMMA AdvanceKeeps ==
  ASSUME RtcInv, Advance
  PROVE  RtcInv'
<1> USE DEF RtcInv, Advance, cpuVars, control, hostVars
<1>1. ExistingDate(date)'
  <2>1. ExistingDate(date) /\ CF.h24 \in {0, 1}
    BY DEF Running, TypeOK
  <2>2. CASE date' = date
    BY <2>1, <2>2
  <2>3. CASE date' = Advanced(date, CF.h24)
    BY <2>1, <2>3, AdvancedExists DEF ExistingDate
  <2> QED BY <2>2, <2>3
<1>2. /\ IRQ_FLAG' \in {0, 1} /\ pulseCount' \in {0, 1} /\ fired' \in BOOLEAN
      /\ BUSY' \in {0, 1} /\ trig' \in BOOLEAN
  BY DEF FixedPeriod, TypeOK
<1>3. TypeOK'
  BY <1>2 DEF TypeOK
<1>4. Unheld' /\ MayStart'
  BY DEF Unheld, MayStart
<1>5. SecondAlone'
  BY DEF SecondAlone, Unheld, TypeOK
<1> QED BY <1>1, <1>3, <1>4, <1>5

LEMMA RtcNext == RtcInv /\ [Next]_vars => RtcInv'
<1> SUFFICES ASSUME RtcInv, [Next]_vars PROVE RtcInv'
  OBVIOUS
<1> USE DEF RtcInv
<1>1. CASE LoadHost
  <2>1. ExistingDate(date)'
    BY <1>1, HostDateExists DEF LoadHost
  <2>2. TypeOK'
    <3>1. count' \in 0 .. HalfTicks - 1
      BY <1>1, HalfTicksAssumption DEF LoadHost
    <3>2. trig' \in BOOLEAN /\ elapsed' \in BOOLEAN
      BY <1>1 DEF LoadHost
    <3> QED BY <1>1, <3>1, <3>2 DEF LoadHost, TypeOK, cpuVars, control
  <2> QED BY <1>1, <2>1, <2>2
           DEF LoadHost, Unheld, SecondAlone, MayStart, Running, cpuVars, control
<1>2. CASE HalfTick
  BY <1>2, HalfTickKeeps
<1>3. CASE Advance
  BY <1>3, AdvanceKeeps
<1>4. CASE HostSecond
  <2>1. seconds' \in 0 .. MaxSeconds
    BY <1>4, BoundsAssumption DEF HostSecond, TypeOK
  <2>2. TypeOK'
    BY <1>4, <2>1 DEF HostSecond, TypeOK, cpuVars, control
  <2> QED BY <1>4, <2>2
           DEF HostSecond, Unheld, SecondAlone, MayStart, Running, cpuVars, control
<1>5. CASE WriteDate
  <2>1. date' = date
    BY <1>5 DEF WriteDate, Run, Unheld
  <2>2. TypeOK'
    BY <1>5 DEF WriteDate, TypeOK, cpuVars, control, hostVars
  <2> QED BY <1>5, <2>1, <2>2
           DEF WriteDate, Unheld, SecondAlone, MayStart, Running, cpuVars, control, hostVars
<1>6. CASE WriteCD
  <2>1. TypeOK'
    <3>1. alive' \in BOOLEAN
      BY <1>6 DEF WriteCD
    <3> QED BY <1>6, <3>1 DEF WriteCD, TypeOK, control, hostVars
  <2> QED BY <1>6, <2>1
           DEF WriteCD, Unheld, SecondAlone, MayStart, Running, control, hostVars
<1>7. CASE WriteCE
  <2>1. CE' \in [MASK : {0, 1}, ITRPT_STND : {0, 1}, t0_1 : 0 .. 3]
    BY <1>7, RegistersAssumption DEF WriteCE
  <2>2. TypeOK'
    BY <1>7, <2>1 DEF WriteCE, TypeOK, cpuVars, hostVars
  <2> QED BY <1>7, <2>2
           DEF WriteCE, Unheld, SecondAlone, MayStart, Running, cpuVars, hostVars
<1>8. CASE WriteCF
  <2>1. CF' \in [h24 : {0, 1}, STOP : {0, 1}, RESET : {0, 1}]
    BY <1>8, RegistersAssumption DEF WriteCF
  <2>2. TypeOK'
    BY <1>8, <2>1 DEF WriteCF, TypeOK, cpuVars, hostVars
  <2> QED BY <1>8, <2>2
           DEF WriteCF, Unheld, SecondAlone, MayStart, Running, cpuVars, hostVars
<1>9. CASE Reset \/ Halt
  <2>1. TypeOK'
    BY <1>9 DEF Reset, Halt, CpuGoto, TypeOK, control, hostVars
  <2> QED BY <1>9, <2>1
           DEF Reset, Halt, CpuGoto, Unheld, SecondAlone, MayStart, Running, control, hostVars
<1>10. CASE StopJoin
  <2>1. TypeOK'
    BY <1>10 DEF StopJoin, CpuGoto, TypeOK, control, hostVars
  <2> QED BY <1>10, <2>1
           DEF StopJoin, CpuGoto, Unheld, SecondAlone, MayStart, Running, control, hostVars
<1>11. CASE Start
  <2>1. starts' \in 0 .. MaxStarts
    BY <1>11, BoundsAssumption DEF Start, CpuGoto, TypeOK, MayStart
  <2>2. TypeOK'
    BY <1>11, <2>1 DEF Start, CpuGoto, TypeOK, hostVars
  <2> QED BY <1>11, <2>2
           DEF Start, CpuGoto, Unheld, SecondAlone, MayStart, Running, hostVars
<1>12. CASE UNCHANGED vars
  BY <1>12 DEF vars, TypeOK, Unheld, SecondAlone, MayStart, Running
<1> QED BY <1>1, <1>2, <1>3, <1>4, <1>5, <1>6, <1>7, <1>8, <1>9, <1>10, <1>11, <1>12
        DEF Next, ThreadStep, CpuStep, Finished

(* The inductive invariant holds in every reachable state.                 *)
THEOREM RtcInvariant == Spec => []RtcInv
BY RtcInit, RtcNext, PTL DEF Spec

(* The registers and locals keep their widths.                             *)
THEOREM RtcTypeOK == Spec => []TypeOK
BY RtcInvariant, PTL DEF RtcInv

(* The registers of a running clock are always a date and a time that      *)
(* exist: neither the carries nor the program ever break them.             *)
THEOREM RtcDateIsValid == Spec => []DateIsValid
<1>1. RtcInv => DateIsValid
  BY ExistingDateIsValid DEF RtcInv, DateIsValid, ExistingDate
<1> QED BY <1>1, RtcInvariant, PTL

(* In 24 hour mode the clock goes on as the calendar does.                 *)
THEOREM RtcKeepsTime == Spec => KeepsTime
<1> DEFINE Keeps == date' # date => \/ pc = "load"
                                    \/ pc = "advance" /\ (CF.h24 = 1 => Calendar!Tick)
<1>1. ASSUME RtcInv, [Next]_vars PROVE [Keeps]_vars
  <2> SUFFICES ASSUME Next, date' # date PROVE Keeps
    BY <1>1
  <2>1. CASE LoadHost
    BY <2>1 DEF LoadHost
  <2>2. CASE Advance
    <3>1. pc = "advance" /\ date' = Advanced(date, CF.h24)
      BY <2>2 DEF Advance
    <3>2. ExistingDate(date)
      BY <1>1, <3>1 DEF RtcInv, Running
    <3>3. CF.h24 = 1 => Calendar!Tick
      BY <3>1, <3>2, AdvancedTicks DEF ExistingDate
    <3> QED BY <3>1, <3>3
  <2>3. CASE WriteDate
    BY <1>1, <2>3 DEF WriteDate, Run, RtcInv, Unheld
  <2> QED
    BY <2>1, <2>2, <2>3 DEF Next, ThreadStep, CpuStep, Finished, HalfTick, HostSecond, WriteCD,
       WriteCE, WriteCF, Reset, Halt, StopJoin, Start, vars
<1> QED BY <1>1, RtcInvariant, PTL DEF Spec, KeepsTime

(* In the period of a second no pulse swallows a second's interrupt.       *)
THEOREM RtcEverySecondIsSignalled == Spec => EverySecondIsSignalled
<1> DEFINE Signalled == pc = "advance" /\ pc' = "sleep" /\ trig /\ CE.t0_1 = 1 /\ CE.MASK = 0 =>
                          fired' \/ (IRQ_FLAG = 1 /\ pulseCount = 0)
<1>1. ASSUME RtcInv, [Next]_vars PROVE [Signalled]_vars
  <2> SUFFICES ASSUME Next, pc = "advance", pc' = "sleep", trig, CE.t0_1 = 1, CE.MASK = 0
               PROVE  fired' \/ (IRQ_FLAG = 1 /\ pulseCount = 0)
    BY <1>1
  <2>1. Advance
    BY DEF Next, ThreadStep, CpuStep, Finished, LoadHost, HalfTick, HostSecond, WriteDate,
       WriteCD, WriteCE, WriteCF, Reset, Halt, StopJoin, Start, vars
  <2>2. pulseCount = 0 /\ HOLD = 0 /\ IRQ_FLAG \in {0, 1}
    BY <1>1 DEF RtcInv, SecondAlone, Unheld, TypeOK
  <2> QED BY <2>1, <2>2 DEF Advance, FixedPeriod, DueSecond
<1> QED BY <1>1, RtcInvariant, PTL DEF Spec, EverySecondIsSignalled

(* Once the flag is latched the end of a period changes nothing.           *)
LEMMA LatchedFlag ==
  ASSUME NEW due, FixedPeriod(due, 1, 0)
  PROVE  IRQ_FLAG' = 1 /\ pulseCount' = 0 /\ ~fired'
<1>1. 1 # 0
  OBVIOUS
<1>2. fired' <=> due /\ 1 = 0 /\ CE.MASK = 0
  BY Zenon DEF FixedPeriod
<1>3. ~fired'
  BY <1>1, <1>2, Zenon
<1> QED BY <1>3 DEF FixedPeriod

(* An interrupt raised in ITRPT mode is the last one until a new start.    *)
THEOREM RtcLatchedFlagStays == Spec => LatchedFlagStays
<1> DEFINE Stays == IRQ_FLAG = 1 /\ pulseCount = 0 =>
             cpupc = "start" \/ (IRQ_FLAG' = 1 /\ pulseCount' = 0 /\ (fired' => fired))
<1>1. ASSUME [Next]_vars PROVE [Stays]_vars
  <2> SUFFICES ASSUME Next, IRQ_FLAG = 1, pulseCount = 0, cpupc # "start"
               PROVE  IRQ_FLAG' = 1 /\ pulseCount' = 0 /\ (fired' => fired)
    BY <1>1
  <2>1. CASE HalfTick
    <3>1. FixedPeriod(Due64(count + 1), 1, 0)
      BY <2>1 DEF HalfTick, FlagAfterPulse, PulseAfter
    <3> QED BY <3>1, LatchedFlag
  <2>2. CASE Advance
    <3>1. CASE HOLD = 0 /\ trig
      <4>1. FixedPeriod(DueSecond, 1, 0)
        BY <2>2, <3>1 DEF Advance
      <4> QED BY <4>1, LatchedFlag
    <3>2. CASE ~(HOLD = 0 /\ trig)
      BY <2>2, <3>2 DEF Advance
    <3> QED BY <3>1, <3>2
  <2> QED
    BY <2>1, <2>2 DEF Next, ThreadStep, CpuStep, Finished, LoadHost, HostSecond, WriteDate,
       WriteCD, WriteCE, WriteCF, Reset, Halt, StopJoin, Start, CpuGoto, vars
<1> QED BY <1>1, PTL DEF Spec, LatchedFlagStays
===============================================================================
