----------------------------- MODULE BS3TimerProofs -----------------------------
(***************************************************************************)
(* Proofs about the timer, for any values of the registers and any number  *)
(* of restarts: no new delay is lost or taken half, and in repeat mode     *)
(* every delay that runs out raises one interrupt.                         *)
(***************************************************************************)
EXTENDS BS3Timer, TLAPS

LockInv ==
  /\ lockTimer = "timer" <=>
       tpc \in {"while", "wait", "returned", "interrupt", "changed", "unlock"}
  /\ lockTimer = "cpu" <=> cpupc \in {"unlockTimer", "reunlock", "lastunlock"}
  /\ cpupc \in {"start", "end"} => tpc = "exited"
  /\ timerMode \in Modes \cup {0}
  /\ timerChanged \in BOOLEAN /\ lowWritten \in BOOLEAN
  /\ owed \in BOOLEAN /\ timedOut \in BOOLEAN

(* The delay in force, at every place between the load and the end of the  *)
(* thread.                                                                 *)
DelayInv ==
  tpc \notin {"exited", "begin", "load"} /\ cpupc # "lockTimer"
  /\ ~timerChanged /\ ~lowWritten =>
    timer = reg \/ (timer = ZERO /\ 1 \in Modes)

(* An interrupt is owed from the timeout to the interrupt.                 *)
OwedInv ==
  Modes = {0} =>
    /\ owed => tpc \in {"awake", "returned", "interrupt"} /\ timedOut /\ timer # ZERO
    /\ tpc \in {"awake", "returned"} /\ timedOut /\ timer # ZERO => owed
    /\ tpc = "interrupt" => owed

Inv == LockInv /\ DelayInv /\ OwedInv

USE DEF FREE, registers, locals, control

LEMMA InitInv == Init => Inv
  BY ValuesAssumption DEF Init, Inv, LockInv, DelayInv, OwedInv

(* The steps of the timer thread.                                          *)
LEMMA TimerStepInv ==
  ASSUME Inv, TimerStep
  PROVE  Inv'
  <1> USE DEF Inv, LockInv, DelayInv, OwedInv, Goto
  <1>1. CASE TimerBegin \/ TimerLoad \/ TimerLock
    BY <1>1 DEF TimerBegin, TimerLoad, TimerLock
  <1>2. CASE TimerWhile \/ TimerWait
    BY <1>2 DEF TimerWhile, TimerWait
  <1>3. CASE TimerTimeout
    <2>1. LockInv'
      BY <1>3 DEF TimerTimeout
    <2>2. DelayInv'
      BY <1>3 DEF TimerTimeout
    <2>3. OwedInv'
      BY <1>3 DEF TimerTimeout
    <2> QED BY <2>1, <2>2, <2>3
  <1>4. CASE TimerSpurious
    <2>1. LockInv'
      BY <1>4 DEF TimerSpurious
    <2>2. DelayInv'
      BY <1>4 DEF TimerSpurious
    <2>3. OwedInv'
      BY <1>4 DEF TimerSpurious
    <2> QED BY <2>1, <2>2, <2>3
  <1>5. CASE TimerReacquire
    <2>1. LockInv'
      BY <1>5 DEF TimerReacquire
    <2>2. DelayInv'
      BY <1>5 DEF TimerReacquire
    <2>3. OwedInv'
      BY <1>5 DEF TimerReacquire
    <2> QED BY <2>1, <2>2, <2>3
  <1>6. CASE TimerReturned
    <2>1. LockInv'
      BY <1>6 DEF TimerReturned
    <2>2. DelayInv'
      BY <1>6 DEF TimerReturned
    <2>3. OwedInv'
      BY <1>6 DEF TimerReturned
    <2> QED BY <2>1, <2>2, <2>3
  <1>7. CASE TimerInterrupt
    <2>1. LockInv'
      BY <1>7 DEF TimerInterrupt
    <2>2. DelayInv'
      BY <1>7 DEF TimerInterrupt
    <2>3. OwedInv'
      BY <1>7 DEF TimerInterrupt
    <2> QED BY <2>1, <2>2, <2>3
  <1>8. CASE TimerExit
    <2>1. LockInv'
      BY <1>8 DEF TimerExit
    <2>2. DelayInv'
      BY <1>8 DEF TimerExit
    <2>3. OwedInv'
      BY <1>8 DEF TimerExit
    <2> QED BY <2>1, <2>2, <2>3
  <1>9. CASE TimerChanged
    BY <1>9 DEF TimerChanged
  <1> QED BY <1>1, <1>2, <1>3, <1>4, <1>5, <1>6, <1>7, <1>8, <1>9
         DEF TimerStep

(* The steps of the CPU thread.                                            *)
LEMMA CpuStepInv ==
  ASSUME Inv, CpuStep
  PROVE  Inv'
  <1> USE DEF Inv, LockInv, DelayInv, OwedInv, CpuGoto
  <1>1. CASE WriteLow
    BY <1>1 DEF WriteLow
  <1>2. CASE WriteMode
    BY <1>2 DEF WriteMode
  <1>3. CASE WriteHigh
    BY <1>3 DEF WriteHigh
  <1>4. CASE WriteSignal
    <2>1. LockInv'
      BY <1>4 DEF WriteSignal, LockAndSignal
    <2>2. DelayInv'
      BY <1>4 DEF WriteSignal, LockAndSignal
    <2>3. OwedInv'
      BY <1>4 DEF WriteSignal, LockAndSignal
    <2> QED BY <2>1, <2>2, <2>3
  <1>5. CASE StopSignal
    <2>1. LockInv'
      BY <1>5 DEF StopSignal, LockAndSignal
    <2>2. DelayInv'
      BY <1>5 DEF StopSignal, LockAndSignal
    <2>3. OwedInv'
      BY <1>5 DEF StopSignal, LockAndSignal
    <2> QED BY <2>1, <2>2, <2>3
  <1>6. CASE WriteUnlock \/ StopUnlock
    BY <1>6 DEF WriteUnlock, StopUnlock
  <1>7. CASE Reset \/ Halt \/ StopEnd \/ StopJoin \/ Start
    BY <1>7 DEF Reset, Halt, StopEnd, StopJoin, Start
  <1> QED BY <1>1, <1>2, <1>3, <1>4, <1>5, <1>6, <1>7 DEF CpuStep

THEOREM Invariance == Spec => []Inv
  <1>1. Inv /\ [Next]_vars => Inv'
    <2> SUFFICES ASSUME Inv, [Next]_vars PROVE Inv'
      OBVIOUS
    <2>1. CASE UNCHANGED vars
      BY <2>1 DEF vars, Inv, LockInv, DelayInv, OwedInv
    <2>2. CASE Finished
      BY <2>2 DEF Finished, vars, Inv, LockInv, DelayInv, OwedInv
    <2> QED BY <2>1, <2>2, TimerStepInv, CpuStepInv DEF Next
  <1> QED BY <1>1, InitInv, PTL DEF Spec

(* The thread waits for the delay the program wrote last.                  *)
THEOREM NoDelayIsLost == Spec => []DelayInForce
  <1>1. Inv => DelayInForce BY DEF Inv, DelayInv, DelayInForce
  <1> QED BY <1>1, Invariance, PTL

(* A program that only uses repeat mode gets its interrupts.               *)
THEOREM RepeatInterrupts == Modes = {0} /\ Spec => []InterruptWhenElapsed
  <1> SUFFICES ASSUME Modes = {0} PROVE Spec => []InterruptWhenElapsed
    OBVIOUS
  <1>1. Inv => InterruptWhenElapsed BY DEF Inv, LockInv, OwedInv, InterruptWhenElapsed
  <1> QED BY <1>1, Invariance, PTL

(* A delay written byte by byte is a pair of bytes at every moment.        *)
LEMMA DelayFacts ==
  /\ ZERO \in Delays
  /\ \A d \in Delays, v \in Values : <<v, d[2]>> \in Delays /\ <<d[1], v>> \in Delays
  BY ValuesAssumption DEF Delays, ZERO

(* The bound on the restarts is met because a RESET that asks for one has  *)
(* seen that there is room.                                                *)
Typed ==
  /\ TypeOK
  /\ cpupc \in {"start", "restop", "relock", "reunlock", "rejoin"} => starts < MaxStarts

LEMMA TimerTyped ==
  ASSUME Typed, TimerStep
  PROVE  Typed'
  <1> USE DEF Typed, TypeOK, Goto
  <1>1. CASE TimerBegin
    BY <1>1 DEF TimerBegin
  <1>2. CASE TimerLoad
    BY <1>2 DEF TimerLoad
  <1>3. CASE TimerLock
    BY <1>3 DEF TimerLock
  <1>4. CASE TimerWhile
    BY <1>4 DEF TimerWhile
  <1>5. CASE TimerWait
    BY <1>5 DEF TimerWait
  <1>6. CASE TimerTimeout
    BY <1>6 DEF TimerTimeout
  <1>7. CASE TimerSpurious
    BY <1>7 DEF TimerSpurious
  <1>8. CASE TimerReacquire
    BY <1>8 DEF TimerReacquire
  <1>9. CASE TimerReturned
    BY <1>9, DelayFacts DEF TimerReturned
  <1>10. CASE TimerInterrupt
    BY <1>10 DEF TimerInterrupt
  <1>11. CASE TimerChanged
    <2>1. timerChanged' \in BOOLEAN /\ timer' \in Delays
      BY <1>11 DEF TimerChanged
    <2>2. tpc' = "while" /\ UNCHANGED <<registers, lockTimer, control, cpupc, timedOut, owed>>
      BY <1>11 DEF TimerChanged
    <2> QED BY <2>1, <2>2
  <1>12. CASE TimerExit
    BY <1>12 DEF TimerExit
  <1> QED BY <1>1, <1>2, <1>3, <1>4, <1>5, <1>6, <1>7, <1>8, <1>9,
             <1>10, <1>11, <1>12 DEF TimerStep

LEMMA CpuTyped ==
  ASSUME Typed, CpuStep
  PROVE  Typed'
  <1> USE DEF Typed, TypeOK, CpuGoto
  <1>1. CASE WriteLow
    BY <1>1, DelayFacts DEF WriteLow
  <1>2. CASE WriteHigh
    BY <1>2, DelayFacts DEF WriteHigh
  <1>3. CASE WriteMode
    BY <1>3, ValuesAssumption DEF WriteMode
  <1>4. CASE WriteSignal \/ WriteUnlock
    BY <1>4 DEF WriteSignal, WriteUnlock, LockAndSignal
  <1>5. CASE Reset \/ Halt
    BY <1>5 DEF Reset, Halt
  <1>6. CASE StopEnd \/ StopUnlock
    BY <1>6 DEF StopEnd, StopUnlock
  <1>7. CASE StopSignal
    BY <1>7 DEF StopSignal, LockAndSignal
  <1>8. CASE StopJoin
    BY <1>8 DEF StopJoin
  <1>9. CASE Start
    BY <1>9, BoundsAssumption DEF Start
  <1> QED BY <1>1, <1>2, <1>3, <1>4, <1>5, <1>6, <1>7, <1>8, <1>9 DEF CpuStep

(* Every variable keeps its type: the delays of the registers and of the   *)
(* thread stay pairs of bytes, and each thread at a place of its code.     *)
THEOREM TypeCorrect == Spec => []TypeOK
  <1>1. Init => Typed
    <2> SUFFICES ASSUME Init PROVE Typed
      OBVIOUS
    <2>1. reg \in Delays /\ timer \in Delays
      BY DelayFacts DEF Init
    <2>2. starts \in 0 .. MaxStarts /\ starts < MaxStarts
      BY BoundsAssumption DEF Init
    <2> QED BY <2>1, <2>2 DEF Init, Typed, TypeOK
  <1>2. Typed /\ [Next]_vars => Typed'
    <2>1. ASSUME Typed, Finished \/ UNCHANGED vars PROVE Typed'
      BY <2>1 DEF Finished, vars, Typed, TypeOK
    <2> QED BY <2>1, TimerTyped, CpuTyped DEF Next
  <1>3. Typed => TypeOK BY DEF Typed
  <1> QED BY <1>1, <1>2, <1>3, PTL DEF Spec
===============================================================================
