-------------------------------- MODULE BS3Rtc --------------------------------
(***************************************************************************)
(* The clock device (dev_rtc72421.c): a thread that counts half ticks,     *)
(* looks at the host's clock after every HalfTicks of them, advances the   *)
(* date registers by one second when the host's second has changed, and    *)
(* raises interrupt 8 in the period the program chose.                     *)
(*                                                                         *)
(* A write to CD calls pthread_kill with SIGUSR1, for which the program    *)
(* installs no handler: the process ends there, before the byte is stored. *)
(* So HOLD and ADJ30s are never set, and BUSY refuses every write to a     *)
(* date register; the adjustment to 30 seconds is left out.                *)
(*                                                                         *)
(* A half tick is cut where HOLD is tested; of the registers it reads only *)
(* CE and CF can be written meanwhile.                                     *)
(***************************************************************************)
EXTENDS BS3RtcDate

CONSTANTS HalfTicks,    \* 32 in the code
          HostTimes,    \* what localtime may return when the thread starts
          CEs, CFs,     \* what the program writes to CE and CF
          MaxSeconds,   \* bound: seconds that go by on the host
          MaxStarts     \* bound: calls of dev_rtc72421_start

ASSUME HalfTicksAssumption == HalfTicks \in Nat \ {0} /\ HalfTicks % 4 = 0
ASSUME RegistersAssumption ==
  /\ CEs \subseteq [MASK : {0, 1}, ITRPT_STND : {0, 1}, t0_1 : 0 .. 3]
  /\ CFs \subseteq [h24 : {0, 1}, STOP : {0, 1}, RESET : {0, 1}]
ASSUME BoundsAssumption == MaxSeconds \in Nat /\ MaxStarts \in Nat \ {0}

VARIABLES date,                 \* registers S1 to W
          HOLD, BUSY, IRQ_FLAG, \* register CD
          CE, CF,               \* the other control registers
          pulseCount,
          count, trig,          \* locals of the thread
          elapsed,              \* the host's second differs from prevSecond
          seconds, starts,      \* for the bounds
          fired,                \* history: this half tick raised the interrupt
          pc, cpupc,            \* where the thread and the CPU thread are
          alive                 \* the process has not been ended by a signal

vars == <<date, HOLD, BUSY, IRQ_FLAG, CE, CF, pulseCount, count, trig, elapsed, seconds,
          starts, fired, pc, cpupc, alive>>
control == <<HOLD, CE, CF>>
cpuVars == <<starts, cpupc, alive>>
hostVars == <<elapsed, seconds>>

Calendar == INSTANCE BS3Calendar WITH
  second <- SecondOfDay(date), day <- Day(date), month <- Month(date), year <- Year(date),
  weekday <- date.W

(* localtime returns a valid time of the years 00 to 99.                   *)
ASSUME HostTimesAssumption ==
  \A tm \in HostTimes :
     /\ tm \in [sec : 0 .. 59, min : 0 .. 59, hour : 0 .. 23, mday : 1 .. 31, mon : 1 .. 12,
                year : 0 .. 99, wday : 0 .. 6]
     /\ tm.mday <= Calendar!DaysIn(tm.mon, tm.year)

Zeros == [S1 |-> 0, S10 |-> 0, MI1 |-> 0, MI10 |-> 0, H1 |-> 0, H10 |-> 0, D1 |-> 0, D10 |-> 0,
          MO1 |-> 0, MO10 |-> 0, Y1 |-> 0, Y10 |-> 0, W |-> 0]

Init ==
  /\ date = Zeros
  /\ HOLD = 0 /\ BUSY = 0 /\ IRQ_FLAG = 0 /\ pulseCount = 0
  /\ CE = [MASK |-> 0, ITRPT_STND |-> 0, t0_1 |-> 0]
  /\ CF = [h24 |-> 0, STOP |-> 0, RESET |-> 0]
  /\ count = 0 /\ trig = FALSE /\ elapsed = FALSE /\ seconds = 0 /\ starts = 0
  /\ fired = FALSE /\ pc = "none" /\ cpupc = "start" /\ alive = TRUE

-----------------------------------------------------------------------------
(* The thread, dev_rtc72421_run.                                           *)

LoadHost ==
  /\ alive /\ pc = "load" /\ pc' = "sleep"
  /\ \E tm \in HostTimes : date' = FromHost(tm)
  /\ count' = 0 /\ trig' = FALSE /\ elapsed' = FALSE
  /\ UNCHANGED <<control, BUSY, IRQ_FLAG, pulseCount, seconds, fired, cpuVars>>

(* dev_rtc72421_fixedperiod, if the period is over (due); flag and pulse   *)
(* are IRQ_FLAG and pulseCount before.                                     *)
FixedPeriod(due, flag, pulse) ==
  /\ fired' = (due /\ flag = 0 /\ CE.MASK = 0)
  /\ IRQ_FLAG' = IF fired' THEN 1 ELSE flag
  /\ pulseCount' = IF fired' THEN (IF CE.ITRPT_STND = 1 THEN 0 ELSE 1) ELSE pulse

PulseUnended == IRQ_FLAG   \* seeded fault: the pulse does not clear IRQ_FLAG
FlagAfterPulse == IF pulseCount = 1 THEN 0 ELSE IRQ_FLAG
PulseAfter == IF pulseCount > 0 THEN pulseCount - 1 ELSE 0

Due64AtZero(c) == CE.t0_1 = 0 /\ c % 4 = 0   \* seeded fault: one half tick of four, not this one
Due64(c) == CE.t0_1 = 0 /\ c % 4 = 2

CountAfter(c) == IF c = HalfTicks THEN 0 ELSE c

(* A half tick up to the test of HOLD.                                     *)
HalfTick ==
  /\ alive /\ pc = "sleep" /\ pc' = "advance"
  /\ CF.STOP = 0 /\ CF.RESET = 0
  /\ FixedPeriod(Due64(count + 1), FlagAfterPulse, PulseAfter)
  /\ count' = CountAfter(count + 1)
  /\ IF count + 1 = HalfTicks
     THEN trig' = (trig \/ elapsed) /\ elapsed' = FALSE
     ELSE UNCHANGED <<trig, elapsed>>
  /\ UNCHANGED <<date, BUSY, control, seconds, cpuVars>>

DueSecond == \/ CE.t0_1 = 1
             \/ CE.t0_1 = 2 /\ NewMinute(date)
             \/ CE.t0_1 = 3 /\ NewHour(date)

(* The rest of it: the second is counted unless the program holds.         *)
Advance ==
  /\ alive /\ pc = "advance" /\ pc' = "sleep"
  /\ BUSY' = IF HOLD = 0 THEN 1 ELSE 0
  /\ IF HOLD = 0 /\ trig
     THEN /\ trig' = FALSE
          /\ FixedPeriod(DueSecond, IRQ_FLAG, pulseCount)
          /\ date' = Advanced(date, CF.h24)
     ELSE UNCHANGED <<trig, date, fired, IRQ_FLAG, pulseCount>>
  /\ UNCHANGED <<control, count, hostVars, cpuVars>>

ThreadStep == LoadHost \/ HalfTick \/ Advance

(* A second goes by on the host.                                           *)
HostSecond ==
  /\ alive /\ seconds < MaxSeconds
  /\ pc \in {"sleep", "advance"}
  /\ elapsed' = TRUE /\ seconds' = seconds + 1
  /\ UNCHANGED <<date, BUSY, control, IRQ_FLAG, pulseCount, count, trig, fired, pc, cpuVars>>

-----------------------------------------------------------------------------
(* The CPU thread: dev_rtc72421_write.                                     *)

Run == alive /\ cpupc = "run"

WriteDate ==
  /\ Run
  /\ \E f \in DOMAIN date, v \in 0 .. 15 :
        date' = IF BUSY = 1 THEN date ELSE [date EXCEPT ![f] = v]
  /\ UNCHANGED <<BUSY, IRQ_FLAG, control, pulseCount, count, trig, hostVars, fired, pc, cpuVars>>

(* SIGUSR1 ends the process.                                               *)
WriteCD ==
  /\ Run
  /\ alive' = FALSE
  /\ UNCHANGED <<date, BUSY, IRQ_FLAG, control, pulseCount, count, trig, hostVars, fired, pc,
                 starts, cpupc>>

WriteCE ==
  /\ Run
  /\ CE' \in CEs
  /\ UNCHANGED <<date, HOLD, BUSY, IRQ_FLAG, CF, pulseCount, count, trig, hostVars, fired, pc,
                 cpuVars>>

WriteCF ==
  /\ Run
  /\ CF' \in CFs
  /\ UNCHANGED <<date, HOLD, BUSY, IRQ_FLAG, CE, pulseCount, count, trig, hostVars, fired, pc,
                 cpuVars>>

-----------------------------------------------------------------------------
(* The CPU thread: dev_rtc72421_start for RESET, dev_rtc72421_stop for it  *)
(* and for the end of the hypervisor.  nanosleep is the thread's           *)
(* cancellation point.                                                     *)

CpuGoto(a, b) == alive /\ cpupc = a /\ cpupc' = b

Reset ==
  /\ CpuGoto("run", "rejoin") /\ starts < MaxStarts
  /\ UNCHANGED <<date, BUSY, IRQ_FLAG, control, pulseCount, count, trig, hostVars, fired, pc,
                 starts, alive>>

Halt ==
  /\ CpuGoto("run", "lastjoin")
  /\ UNCHANGED <<date, BUSY, IRQ_FLAG, control, pulseCount, count, trig, hostVars, fired, pc,
                 starts, alive>>

StopJoin ==
  /\ CpuGoto("rejoin", "start") \/ CpuGoto("lastjoin", "end")
  /\ pc = "sleep" /\ pc' = "none"
  /\ UNCHANGED <<date, BUSY, IRQ_FLAG, control, pulseCount, count, trig, hostVars, fired,
                 starts, alive>>

Start ==
  /\ CpuGoto("start", "run")
  /\ starts' = starts + 1
  /\ IRQ_FLAG' = 0 /\ BUSY' = 1 /\ HOLD' = 0
  /\ CE' = [MASK |-> 1, ITRPT_STND |-> 0, t0_1 |-> 0]
  /\ CF' = [h24 |-> 1, STOP |-> 0, RESET |-> 0]
  /\ pc' = "load"
  /\ UNCHANGED <<date, pulseCount, count, trig, hostVars, fired, alive>>

CpuStep ==
  \/ WriteDate \/ WriteCD \/ WriteCE \/ WriteCF \/ Reset \/ Halt \/ StopJoin \/ Start

-----------------------------------------------------------------------------
Finished == (~alive \/ cpupc = "end") /\ UNCHANGED vars

Next == ThreadStep \/ HostSecond \/ CpuStep \/ Finished

Spec == Init /\ [][Next]_vars

(* Both threads run.  The program, and the host's clock, need not go on.   *)
LiveSpec == Spec /\ WF_vars(ThreadStep) /\ WF_vars(StopJoin \/ Start)

-----------------------------------------------------------------------------
TypeOK ==
  /\ HOLD \in {0, 1} /\ BUSY \in {0, 1} /\ IRQ_FLAG \in {0, 1} /\ pulseCount \in {0, 1}
  /\ CE \in [MASK : {0, 1}, ITRPT_STND : {0, 1}, t0_1 : 0 .. 3]
  /\ CF \in [h24 : {0, 1}, STOP : {0, 1}, RESET : {0, 1}]
  /\ count \in 0 .. HalfTicks - 1
  /\ trig \in BOOLEAN /\ elapsed \in BOOLEAN /\ fired \in BOOLEAN /\ alive \in BOOLEAN
  /\ seconds \in 0 .. MaxSeconds /\ starts \in 0 .. MaxStarts
  /\ pc \in {"none", "load", "sleep", "advance"}
  /\ cpupc \in {"start", "run", "rejoin", "lastjoin", "end"}

Running == pc \in {"sleep", "advance"}

(* Whatever the program writes, and in either mode, the registers of a     *)
(* running clock are decimal digits of a date and a time that exist.       *)
DateIsValid == Running => AreDigits(date) /\ Calendar!Valid

(* The registers change only when the thread starts or counts a second;    *)
(* in 24 hour mode that second is the next one of the calendar.            *)
KeepsTime ==
  [][date' # date => \/ pc = "load"
                     \/ pc = "advance" /\ (CF.h24 = 1 => Calendar!Tick)]_vars

(* In the period of a second every second raises its interrupt, even when  *)
(* the period is changed in the middle of a half tick: a pulse that is     *)
(* still up cannot swallow it.  Only an interrupt raised in ITRPT mode can.*)
EverySecondIsSignalled ==
  [][pc = "advance" /\ pc' = "sleep" /\ trig /\ CE.t0_1 = 1 /\ CE.MASK = 0 =>
        fired' \/ (IRQ_FLAG = 1 /\ pulseCount = 0)]_vars

(* An interrupt raised in ITRPT mode is the last one until the device is   *)
(* started again: no pulse clears IRQ_FLAG, and the program cannot.        *)
LatchedFlagStays ==
  [][IRQ_FLAG = 1 /\ pulseCount = 0 =>
        cpupc = "start" \/ (IRQ_FLAG' = 1 /\ pulseCount' = 0 /\ (fired' => fired))]_vars

(* In STND mode the pulses of the shortest period keep coming.             *)
PulsesRepeat ==
  [](CE.ITRPT_STND = 0) /\ <>[](alive /\ cpupc = "run" /\ CF.STOP = 0 /\ CF.RESET = 0
                                /\ CE.MASK = 0 /\ CE.t0_1 = 0)
    => []<>fired
=============================================================================
