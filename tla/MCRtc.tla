-------------------------------- MODULE MCRtc --------------------------------
(* Host times at the last second of a minute, an hour, a day, a month and a *)
(* year, and register values that reach every mode of the clock.            *)
EXTENDS BS3Rtc

Tm(y, mo, d, h, mi) == [sec |-> 59, min |-> mi, hour |-> h, mday |-> d, mon |-> mo, year |-> y,
                        wday |-> 6]

MCHostTimes ==
  {Tm(21, 7, 9, 9, 39), Tm(21, 7, 19, 11, 59), Tm(21, 9, 30, 19, 59), Tm(22, 7, 31, 23, 59),
   Tm(23, 2, 28, 23, 59), Tm(24, 2, 28, 23, 59), Tm(24, 2, 29, 23, 59), Tm(99, 12, 31, 23, 59)}

MCCEs ==
  {[MASK |-> 1, ITRPT_STND |-> 0, t0_1 |-> 0], [MASK |-> 0, ITRPT_STND |-> 1, t0_1 |-> 0]}
  \cup [MASK : {0}, ITRPT_STND : {0}, t0_1 : 0 .. 3]

MCCFs ==
  {[h24 |-> 1, STOP |-> 0, RESET |-> 0], [h24 |-> 0, STOP |-> 0, RESET |-> 0],
   [h24 |-> 1, STOP |-> 1, RESET |-> 0]}
==============================================================================
