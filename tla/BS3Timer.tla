------------------------------- MODULE BS3Timer -------------------------------
(***************************************************************************)
(* The timer device (dev_bs3timer.c).  A thread waits for the delay to run *)
(* out, in pthread_cond_timedwait with lockTimer, and raises interrupt 3.  *)
(* The CPU writes the delay byte by byte into the registers; the write of  *)
(* the highest byte tells the thread, by timerChanged and condWakeUp, to   *)
(* take the new delay.                                                     *)
(*                                                                         *)
(* A delay is a pair: its three low bytes, written without a lock, and its *)
(* high byte.  Time is left out: any wait may run out at any moment.       *)
(***************************************************************************)
EXTENDS Integers

CONSTANTS Values,    \* what a byte of the delay can be
          Modes,     \* what the program writes to timerMode: 0 repeat, 1 once
          MaxStarts  \* bound: calls of dev_bs3timer_start

ASSUME ValuesAssumption == 0 \in Values /\ Modes \subseteq {0, 1}
ASSUME BoundsAssumption == MaxStarts \in Nat \ {0}

Delays == Values \X Values
ZERO == <<0, 0>>
FREE == "free"

VARIABLES reg, timerMode,       \* the registers
          lowWritten,           \* history: low bytes written since the high byte was
          timerChanged, endTimer, lockTimer,
          starts,               \* how often the device was started
          tpc, cpupc,           \* where the timer thread and the CPU thread are
          timer,                \* the thread's local delay
          timedOut,             \* the result of the last timedwait is ETIMEDOUT
          owed                  \* history: a delay ran out, its interrupt is to come

vars == <<reg, timerMode, lowWritten, timerChanged, endTimer, lockTimer, starts, tpc,
          cpupc, timer, timedOut, owed>>
registers == <<reg, timerMode, lowWritten>>
locals == <<timer, timedOut, owed>>
control == <<endTimer, starts>>

Init ==
  /\ reg = ZERO /\ timerMode = 0 /\ lowWritten = FALSE
  /\ timerChanged = FALSE /\ endTimer = FALSE /\ lockTimer = FREE /\ starts = 0
  /\ tpc = "exited" /\ cpupc = "start"
  /\ timer = ZERO /\ timedOut = FALSE /\ owed = FALSE

-----------------------------------------------------------------------------
(* The timer thread, dev_bs3timer_run.                                     *)

Goto(a, b) == tpc = a /\ tpc' = b

TimerBegin ==
  /\ Goto("begin", "load")
  /\ endTimer' = FALSE
  /\ UNCHANGED <<registers, timerChanged, lockTimer, starts, cpupc, locals>>

TimerLoad ==
  /\ Goto("load", "lock")
  /\ timer' = reg
  /\ UNCHANGED <<registers, timerChanged, lockTimer, control, cpupc, timedOut, owed>>

TimerLock ==
  /\ Goto("lock", "while")
  /\ lockTimer = FREE /\ lockTimer' = "timer"
  /\ UNCHANGED <<registers, timerChanged, control, cpupc, locals>>

TimerWhile ==
  /\ tpc = "while"
  /\ tpc' = IF endTimer THEN "unlock" ELSE "wait"
  /\ UNCHANGED <<registers, timerChanged, lockTimer, control, cpupc, locals>>

TimerWait ==
  /\ Goto("wait", "waiting")
  /\ lockTimer' = FREE
  /\ UNCHANGED <<registers, timerChanged, control, cpupc, locals>>

(* With no delay the wait lasts one second.                                *)
TimerTimeout ==
  /\ Goto("waiting", "awake")
  /\ timedOut' = TRUE
  /\ owed' = (timer # ZERO)
  /\ UNCHANGED <<registers, timerChanged, lockTimer, control, cpupc, timer>>

TimerSpurious ==
  /\ Goto("waiting", "awake")
  /\ timedOut' = FALSE
  /\ UNCHANGED <<registers, timerChanged, lockTimer, control, cpupc, timer, owed>>

TimerReacquire ==
  /\ Goto("awake", "returned")
  /\ lockTimer = FREE /\ lockTimer' = "timer"
  /\ UNCHANGED <<registers, timerChanged, control, cpupc, locals>>

DroppedInRepeat ==   \* seeded fault: the test of the mode is inverted
  /\ tpc = "returned"
  /\ timer' = IF timerMode = 0 THEN ZERO ELSE timer
  /\ tpc' = IF timer' # ZERO /\ timedOut THEN "interrupt" ELSE "changed"
  /\ UNCHANGED <<registers, timerChanged, lockTimer, control, cpupc, timedOut, owed>>

InterruptUntimed ==   \* seeded fault: the result of the wait is not looked at
  /\ tpc = "returned"
  /\ timer' = IF timerMode = 1 THEN ZERO ELSE timer
  /\ tpc' = IF timer' # ZERO THEN "interrupt" ELSE "changed"
  /\ UNCHANGED <<registers, timerChanged, lockTimer, control, cpupc, timedOut, owed>>

(* Lines 91 and 92: in mode once the delay is dropped first, and with it   *)
(* the condition for the interrupt.                                        *)
TimerReturned ==
  /\ tpc = "returned"
  /\ timer' = IF timerMode = 1 THEN ZERO ELSE timer
  /\ tpc' = IF timer' # ZERO /\ timedOut THEN "interrupt" ELSE "changed"
  /\ UNCHANGED <<registers, timerChanged, lockTimer, control, cpupc, timedOut, owed>>

(* bs3_bus_setinterrupt.                                                   *)
TimerInterrupt ==
  /\ Goto("interrupt", "changed")
  /\ owed' = FALSE
  /\ UNCHANGED <<registers, timerChanged, lockTimer, control, cpupc, timer, timedOut>>

TimerChanged ==
  /\ Goto("changed", "while")
  /\ IF timerChanged THEN timerChanged' = FALSE /\ timer' = reg
                     ELSE UNCHANGED <<timerChanged, timer>>
  /\ UNCHANGED <<registers, lockTimer, control, cpupc, timedOut, owed>>

TimerExit ==
  /\ Goto("unlock", "exited")
  /\ lockTimer' = FREE
  /\ UNCHANGED <<registers, timerChanged, control, cpupc, locals>>

TimerStep ==
  \/ TimerBegin \/ TimerLoad \/ TimerLock \/ TimerWhile \/ TimerWait \/ TimerTimeout
  \/ TimerSpurious \/ TimerReacquire \/ TimerReturned \/ TimerInterrupt
  \/ TimerChanged \/ TimerExit

-----------------------------------------------------------------------------
(* The CPU thread: dev_bs3timer_write.                                     *)

CpuGoto(a, b) == cpupc = a /\ cpupc' = b

WriteLow ==
  /\ cpupc = "run"
  /\ \E v \in Values : reg' = <<v, reg[2]>>
  /\ lowWritten' = TRUE
  /\ UNCHANGED <<timerMode, timerChanged, control, lockTimer, tpc, cpupc, locals>>

WriteMode ==
  /\ cpupc = "run"
  /\ timerMode' \in Modes
  /\ UNCHANGED <<reg, lowWritten, timerChanged, control, lockTimer, tpc, cpupc, locals>>

WriteHigh ==
  /\ CpuGoto("run", "lockTimer")
  /\ \E v \in Values : reg' = <<reg[1], v>>
  /\ lowWritten' = FALSE
  /\ UNCHANGED <<timerMode, timerChanged, control, lockTimer, tpc, locals>>

(* The CPU takes lockTimer; a thread in the wait is signalled.             *)
LockAndSignal ==
  /\ lockTimer = FREE /\ lockTimer' = "cpu"
  /\ IF tpc = "waiting" THEN tpc' = "awake" /\ timedOut' = FALSE
                        ELSE UNCHANGED <<tpc, timedOut>>

WakeOnly ==   \* seeded fault: timerChanged is not set
  /\ CpuGoto("lockTimer", "unlockTimer")
  /\ LockAndSignal
  /\ UNCHANGED <<registers, timerChanged, control, timer, owed>>

WriteSignal ==
  /\ CpuGoto("lockTimer", "unlockTimer")
  /\ LockAndSignal
  /\ timerChanged' = TRUE
  /\ UNCHANGED <<registers, control, timer, owed>>

WriteUnlock ==
  /\ CpuGoto("unlockTimer", "run")
  /\ lockTimer' = FREE
  /\ UNCHANGED <<registers, timerChanged, control, tpc, locals>>

-----------------------------------------------------------------------------
(* The CPU thread: dev_bs3timer_start for RESET, dev_bs3timer_stop for it  *)
(* and for the end of the hypervisor.                                      *)

Reset ==
  /\ CpuGoto("run", "restop")
  /\ starts < MaxStarts
  /\ UNCHANGED <<registers, timerChanged, control, lockTimer, tpc, locals>>

Halt ==
  /\ CpuGoto("run", "laststop")
  /\ UNCHANGED <<registers, timerChanged, control, lockTimer, tpc, locals>>

StopUntold ==   \* seeded fault: endTimer is not set
  /\ \/ CpuGoto("restop", "relock")
     \/ CpuGoto("laststop", "lastlock")
  /\ UNCHANGED <<registers, timerChanged, control, lockTimer, tpc, locals>>

StopEnd ==
  /\ \/ CpuGoto("restop", "relock")
     \/ CpuGoto("laststop", "lastlock")
  /\ endTimer' = TRUE
  /\ UNCHANGED <<registers, timerChanged, starts, lockTimer, tpc, locals>>

StopSignal ==
  /\ \/ CpuGoto("relock", "reunlock")
     \/ CpuGoto("lastlock", "lastunlock")
  /\ LockAndSignal
  /\ UNCHANGED <<registers, timerChanged, control, timer, owed>>

StopUnlock ==
  /\ \/ CpuGoto("reunlock", "rejoin")
     \/ CpuGoto("lastunlock", "lastjoin")
  /\ lockTimer' = FREE
  /\ UNCHANGED <<registers, timerChanged, control, tpc, locals>>

StopJoin ==
  /\ \/ CpuGoto("rejoin", "start")
     \/ CpuGoto("lastjoin", "end")
  /\ tpc = "exited"
  /\ UNCHANGED <<registers, timerChanged, control, lockTimer, tpc, locals>>

Start ==
  /\ CpuGoto("start", "run")
  /\ starts' = starts + 1
  /\ tpc' = "begin"
  /\ UNCHANGED <<registers, timerChanged, endTimer, lockTimer, locals>>

CpuStep ==
  \/ WriteLow \/ WriteMode \/ WriteHigh \/ WriteSignal \/ WriteUnlock \/ Reset \/ Halt
  \/ StopEnd \/ StopSignal \/ StopUnlock \/ StopJoin \/ Start

-----------------------------------------------------------------------------
Finished == cpupc = "end" /\ UNCHANGED vars

Next == TimerStep \/ CpuStep \/ Finished

Spec == Init /\ [][Next]_vars

(* Both threads run, a wait ends in a timeout unless it is signalled       *)
(* before, and a mutex goes to a thread that keeps asking for it.          *)
Fairness ==
  /\ WF_vars(TimerBegin \/ TimerLoad \/ TimerWhile \/ TimerWait \/ TimerTimeout
             \/ TimerReturned \/ TimerInterrupt \/ TimerChanged \/ TimerExit)
  /\ SF_vars(TimerTimeout)
  /\ SF_vars(TimerLock) /\ SF_vars(TimerReacquire)
  /\ WF_vars(WriteUnlock \/ StopEnd \/ StopUnlock \/ StopJoin \/ Start)
  /\ SF_vars(WriteSignal) /\ SF_vars(StopSignal)

LiveSpec == Spec /\ Fairness

-----------------------------------------------------------------------------
TypeOK ==
  /\ reg \in Delays /\ timer \in Delays /\ timerMode \in {0, 1}
  /\ lowWritten \in BOOLEAN /\ timerChanged \in BOOLEAN /\ endTimer \in BOOLEAN
  /\ timedOut \in BOOLEAN /\ owed \in BOOLEAN
  /\ lockTimer \in {FREE, "timer", "cpu"}
  /\ starts \in 0 .. MaxStarts
  /\ tpc \in {"begin", "load", "lock", "while", "wait", "waiting", "awake", "returned",
              "interrupt", "changed", "unlock", "exited"}
  /\ cpupc \in {"run", "lockTimer", "unlockTimer", "restop", "relock", "reunlock",
                "rejoin", "laststop", "lastlock", "lastunlock", "lastjoin", "start", "end"}

(* The delay the thread waits for is the one in the registers, whole, or   *)
(* the thread is about to be told; only mode once may have dropped it.     *)
DelayInForce ==
  tpc = "waiting" /\ cpupc = "run" /\ ~timerChanged /\ ~lowWritten =>
    timer = reg \/ (timer = ZERO /\ 1 \in Modes)

(* In repeat mode (BackSlashThree.txt:125 "0 = when timer is complete then *)
(* repreat the timer") a delay that has run out raises one interrupt       *)
(* before the next wait, whatever signal, store or stop comes between the  *)
(* timeout and the return from the wait, and nothing else raises one.      *)
InterruptWhenElapsed ==
  /\ tpc = "waiting" => ~owed
  /\ tpc = "interrupt" => owed

(* While the program leaves a non-zero delay alone in repeat mode, the     *)
(* interrupts keep coming.                                                 *)
InterruptsRepeat ==
  <>[](cpupc = "run" /\ timerMode = 0 /\ reg # ZERO /\ ~lowWritten)
    => []<>(tpc = "interrupt")

(* In mode once (BackSlashThree.txt:125 "1= when timer is complete the     *)
(* timer is not re-armed") a delay that is waited for ends in an interrupt *)
(* (dev_bs3timer.c:93 "if out of timedwait without signal then set         *)
(* interrupt"), unless the program writes to the timer or stops it first,  *)
(* or the wait ends without a timeout.                                     *)
OnceInterrupts ==
  (tpc = "waiting" /\ timerMode = 1 /\ timer # ZERO /\ cpupc = "run" /\ ~lowWritten)
    ~> (tpc = "interrupt" \/ cpupc # "run" \/ lowWritten \/ (tpc = "returned" /\ ~timedOut))

(* A stop that meets a thread past its first statement returns.            *)
StopOfRunningReturns ==
  (cpupc \in {"restop", "laststop"} /\ tpc # "begin") ~> (cpupc \in {"start", "end"})
=================================================================================
