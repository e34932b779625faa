---------------------------- MODULE BS3InOutProofs ----------------------------
(***************************************************************************)
(* Proofs about the in-out device, first its outputs, then its input, and  *)
(* at the end the device of both.                                          *)
(*                                                                         *)
(* Output, for any queue size, any number of bytes and of restarts, and    *)
(* for OUT as well as OUT2: no byte is lost or sent out of order, and no   *)
(* wakeup of the out thread is lost while it runs.                         *)
(*                                                                         *)
(* Input, for any number of bytes and of restarts: the opposite lock       *)
(* orders of the two threads are harmless, and no byte read since the last *)
(* start is overwritten, because INSTATUS tells whose turn it is.          *)
(***************************************************************************)
EXTENDS BS3InOut, SequenceTheorems, TLAPS

(* Who holds the two mutexes, and that the CPU and the thread do not send  *)
(* at the same time.                                                       *)
LockInv ==
  /\ lockOUT = "cpu" <=> cpupc = "unlockOUT"
  /\ lockOUT = "out" <=> outpc \in {"test", "wait", "unlockOUT"}
  /\ lockOUTSTATUS = "cpu" <=> cpupc \in {"enqueue", "lockOUT", "unlockOUT", "unlock"}
  /\ lockOUTSTATUS = "out" <=> outpc \in {"switch", "flush", "lockOUT", "unlock"}
  /\ cpupc \in {"reflush", "lastflush", "start", "end"} => outpc = "exited"

(* What each place in the two threads knows of OUTSTATUS.                  *)
StatusInv ==
  /\ OUTSTATUS \in {READY, PENDING, NOOUTPUT}
  /\ cpupc \in {"lockOUTSTATUS", "enqueue"} => OUTSTATUS = READY
  /\ cpupc \in {"lockOUT", "unlockOUT"} => OUTSTATUS = PENDING
  /\ outpc = "flush" => OUTSTATUS # READY
  /\ outpc = "lockOUT" => OUTSTATUS = READY
  /\ outpc \in {"test", "wait", "waiting"} /\ OUTSTATUS = PENDING => cpupc = "lockOUT"

(* The queue holds what was written and not yet sent.                      *)
QueueInv ==
  /\ queue \in Seq(Nat) /\ written \in Nat /\ sent \in Nat
  /\ NothingLost
  /\ OUTSTATUS = READY => Len(queue) < QueueSize
  /\ Len(queue) <= QueueSize
  /\ cpupc \in {"start", "end"} => queue = << >>

Inv == LockInv /\ StatusInv /\ QueueInv

USE BoundsAssumption, AfterFlushAssumption DEF FREE, READY, PENDING, NOOUTPUT

LEMMA InitInv == Init => Inv
  <1> SUFFICES ASSUME Init PROVE Inv OBVIOUS
  <1>1. LockInv /\ StatusInv
    BY DEF Init, LockInv, StatusInv
  <1>2. QueueInv
    BY EmptySeq DEF Init, QueueInv, NothingLost
  <1> QED BY <1>1, <1>2 DEF Inv

(* A write with room in the queue keeps NothingLost.                       *)
LEMMA EnqueueKeeps ==
  ASSUME QueueInv, EnqueueOUT, Len(queue) < QueueSize
  PROVE  /\ queue' \in Seq(Nat) /\ written' \in Nat /\ sent' \in Nat
         /\ NothingLost'
         /\ Len(queue') = Len(queue) + 1
  <1> USE DEF QueueInv, NothingLost
  <1>1. queue' = Append(queue, written') /\ written' = written + 1 /\ sent' = sent
    BY DEF EnqueueOUT
  <1>2. queue' \in Seq(Nat) /\ Len(queue') = Len(queue) + 1
    BY <1>1, AppendProperties
  <1>3. ASSUME NEW i \in 1 .. Len(queue') PROVE queue'[i] = sent' + i
    <2>1. CASE i \in 1 .. Len(queue)
      BY <1>1, <2>1, AppendProperties
    <2>2. CASE i = Len(queue) + 1
      BY <1>1, <2>2, AppendProperties
    <2> QED BY <1>2, <2>1, <2>2, LenProperties
  <1> QED BY <1>1, <1>2, <1>3, LenProperties

(* So does sending the first byte of the queue.                            *)
LEMMA SendKeeps ==
  ASSUME QueueInv, SendByte
  PROVE  /\ queue' \in Seq(Nat) /\ written' \in Nat /\ sent' \in Nat
         /\ NothingLost'
         /\ Len(queue') = Len(queue) - 1
  <1>0. /\ queue \in Seq(Nat) /\ written \in Nat /\ sent \in Nat
        /\ written = sent + Len(queue)
        /\ \A i \in 1 .. Len(queue) : queue[i] = sent + i
    BY DEF QueueInv, NothingLost
  <1>1. queue # << >> /\ queue' = Tail(queue) /\ sent' = Head(queue) /\ written' = written
    BY DEF SendByte
  <1>2. /\ queue' \in Seq(Nat)
        /\ Len(queue') = Len(queue) - 1
        /\ \A i \in 1 .. Len(queue') : queue'[i] = queue[i + 1]
    BY <1>0, <1>1, HeadTailProperties
  <1>3. Len(queue) \in Nat \ {0} /\ Head(queue) = queue[1]
    BY <1>0, <1>1, LenProperties, EmptySeq
  <1>4. sent' = sent + 1
    <2>1. 1 \in 1 .. Len(queue) BY <1>3
    <2>2. queue[1] = sent + 1 BY <1>0, <2>1
    <2> QED BY <1>1, <1>3, <2>2
  <1>5. \A i \in 1 .. Len(queue') : queue'[i] = sent' + i
    <2> SUFFICES ASSUME NEW i \in 1 .. Len(queue') PROVE queue'[i] = sent' + i
      OBVIOUS
    <2>1. i + 1 \in 1 .. Len(queue) BY <1>2, <1>3
    <2>2. queue'[i] = sent + (i + 1) BY <1>0, <1>2, <2>1
    <2> QED BY <1>0, <1>4, <2>2
  <1>6. written' = sent' + Len(queue')
    BY <1>0, <1>1, <1>2, <1>3, <1>4
  <1> QED BY <1>0, <1>1, <1>2, <1>4, <1>5, <1>6 DEF NothingLost

(* The steps of the out thread.                                            *)
LEMMA OutStepInv ==
  ASSUME Inv, OutStep
  PROVE  Inv'
  <1> USE DEF Inv, locks, stopVars, data, OutGoto
  <1>1. CASE OutSend
    <2>1. LockInv' /\ StatusInv'
      BY <1>1 DEF OutSend, SendByte, LockInv, StatusInv
    <2>2. QueueInv'
      BY <1>1, SendKeeps, LenProperties DEF OutSend, SendByte, QueueInv, LockInv, StatusInv
    <2> QED BY <2>1, <2>2
  <1>2. CASE OutFlushed
    <2>1. LockInv' /\ StatusInv'
      BY <1>2 DEF OutFlushed, LockInv, StatusInv
    <2>2. QueueInv'
      BY <1>2, EmptySeq DEF OutFlushed, QueueInv, NothingLost
    <2> QED BY <2>1, <2>2
  <1>3. CASE OutBegin \/ OutWhile \/ OutLockStatus \/ OutSwitch
    BY <1>3 DEF OutBegin, OutWhile, OutLockStatus, OutSwitch, LockInv, StatusInv, QueueInv,
                NothingLost
  <1>4. CASE OutLock \/ OutTest \/ OutWait \/ OutSpurious \/ OutReacquire
    BY <1>4 DEF OutLock, OutTest, OutWait, OutSpurious, OutReacquire, LockInv, StatusInv,
                QueueInv, NothingLost
  <1>5. CASE OutUnlock \/ OutRelockStatus \/ OutUnlockStatus
    BY <1>5 DEF OutUnlock, OutRelockStatus, OutUnlockStatus, LockInv, StatusInv, QueueInv,
                NothingLost
  <1> QED BY <1>1, <1>2, <1>3, <1>4, <1>5 DEF OutStep

(* The writes of the CPU.                                                  *)
LEMMA WriteInv ==
  ASSUME Inv, OutbStatus \/ StoreOUT \/ WriteStep
  PROVE  Inv'
  <1> USE DEF Inv, locks, stopVars, data, CpuGoto
  <1>1. CASE WriteEnqueue
    <2>1. LockInv' /\ StatusInv'
      BY <1>1 DEF WriteEnqueue, LockInv, StatusInv
    <2>2. OUTSTATUS = READY /\ Len(queue) < QueueSize
      BY <1>1 DEF WriteEnqueue, StatusInv, QueueInv
    <2>3. /\ queue' \in Seq(Nat) /\ written' \in Nat /\ sent' \in Nat
          /\ NothingLost' /\ Len(queue') = Len(queue) + 1
      BY <1>1, <2>2, EnqueueKeeps DEF WriteEnqueue
    <2>4. Len(queue) \in Nat /\ (OUTSTATUS' = READY => Len(queue') # QueueSize)
      BY <1>1, <2>2, LenProperties DEF WriteEnqueue, QueueInv
    <2>5. cpupc' \notin {"start", "end"}
      BY <1>1 DEF WriteEnqueue
    <2> QED BY <2>1, <2>2, <2>3, <2>4, <2>5 DEF QueueInv
  <1>2. CASE OutbStatus \/ StoreOUT \/ WriteIgnored \/ WriteTest \/ WriteLockStatus
    BY <1>2 DEF OutbStatus, StoreOUT, WriteIgnored, WriteTest, WriteLockStatus, LockInv,
                StatusInv, QueueInv, NothingLost
  <1>3. CASE WriteSignal \/ WriteUnlockOUT \/ WriteUnlock
    BY <1>3 DEF WriteSignal, WriteUnlockOUT, WriteUnlock, LockInv, StatusInv, QueueInv,
                NothingLost
  <1> QED BY <1>1, <1>2, <1>3 DEF WriteStep

(* Starting and stopping the device.                                       *)
LEMMA ControlInv ==
  ASSUME Inv, Reset \/ Halt \/ StopStep \/ Start \/ Finished
  PROVE  Inv'
  <1> USE DEF Inv, locks, stopVars, data, CpuGoto
  <1>1. CASE StopSend
    <2>1. LockInv' /\ StatusInv'
      BY <1>1 DEF StopSend, SendByte, LockInv, StatusInv
    <2>2. QueueInv'
      BY <1>1, SendKeeps, LenProperties DEF StopSend, SendByte, QueueInv
    <2> QED BY <2>1, <2>2
  <1>2. CASE Start
    <2>1. LockInv' /\ StatusInv'
      BY <1>2 DEF Start, LockInv, StatusInv
    <2>2. QueueInv'
      BY <1>2, EmptySeq DEF Start, QueueInv, NothingLost
    <2> QED BY <2>1, <2>2
  <1>3. CASE Reset \/ Halt \/ StopSignal \/ StopJoin \/ StopFlushed \/ Finished
    BY <1>3 DEF Reset, Halt, StopSignal, StopJoin, StopFlushed, Finished, vars, LockInv,
                StatusInv, QueueInv, NothingLost
  <1> QED BY <1>1, <1>2, <1>3 DEF StopStep

THEOREM Invariance == Spec => []Inv
  <1>1. Inv /\ [Next]_vars => Inv'
    <2> SUFFICES ASSUME Inv, [Next]_vars PROVE Inv'
      OBVIOUS
    <2>1. CASE UNCHANGED vars
      BY <2>1 DEF vars, Inv, LockInv, StatusInv, QueueInv, NothingLost
    <2> QED BY <2>1, OutStepInv, WriteInv, ControlInv DEF Next
  <1> QED BY <1>1, InitInv, PTL DEF Spec

(* Every byte written is sent or in the queue, in order.                   *)
THEOREM NoByteIsLost == Spec => []NothingLost
  <1>1. Inv => NothingLost BY DEF Inv, QueueInv
  <1> QED BY <1>1, Invariance, PTL

(* The unlocked test of OUTSTATUS still holds when the byte is queued.     *)
THEOREM ReadyHasRoom == Spec => []ReadyIsKept
  <1>1. Inv => ReadyIsKept BY DEF Inv, StatusInv, QueueInv, ReadyIsKept
  <1> QED BY <1>1, Invariance, PTL

(* The out thread does not sleep on a queue that is to be sent.            *)
THEOREM NoWakeupIsLost == Spec => []WakeupNotLost
  <1>1. Inv => WakeupNotLost BY DEF Inv, StatusInv, WakeupNotLost
  <1> QED BY <1>1, Invariance, PTL

(* A completed stop has sent everything.                                   *)
THEOREM StopIsComplete == Spec => []StopSendsAll
  <1>1. Inv => StopSendsAll
    BY EmptySeq DEF Inv, QueueInv, NothingLost, StopSendsAll
  <1> QED BY <1>1, Invariance, PTL

(* The types that Inv does not give, and the room that the CPU has seen    *)
(* before it writes a byte or resets the device.                           *)
Places ==
  /\ lockOUT \in {FREE, "cpu", "out"} /\ lockOUTSTATUS \in {FREE, "cpu", "out"}
  /\ endOUT \in BOOLEAN /\ starts \in 0 .. MaxStarts
  /\ outpc \in {"begin", "while", "lockOUTSTATUS", "switch", "flush", "lockOUT", "test",
                "wait", "waiting", "awake", "unlockOUT", "relockOUTSTATUS", "unlock",
                "exited"}
  /\ cpupc \in {"run", "test", "lockOUTSTATUS", "enqueue", "lockOUT", "unlockOUT",
                "unlock", "restop", "rejoin", "reflush", "laststop", "lastjoin",
                "lastflush", "start", "end"}
  /\ written \in 0 .. MaxBytes
  /\ cpupc \in {"test", "lockOUTSTATUS", "enqueue"} => written < MaxBytes
  /\ cpupc \in {"start", "restop", "rejoin", "reflush"} => starts < MaxStarts

LEMMA OutPlaces ==
  ASSUME Places, StatusInv, OutStep
  PROVE  Places'
  <1> USE DEF Places, StatusInv, OutGoto, locks, stopVars, data
  <1>1. CASE OutBegin
    BY <1>1 DEF OutBegin
  <1>2. CASE OutWhile
    BY <1>2 DEF OutWhile
  <1>3. CASE OutLockStatus
    BY <1>3 DEF OutLockStatus
  <1>4. CASE OutSwitch
    BY <1>4 DEF OutSwitch
  <1>5. CASE OutSend
    BY <1>5 DEF OutSend, SendByte
  <1>6. CASE OutFlushed
    BY <1>6 DEF OutFlushed
  <1>7. CASE OutLock
    BY <1>7 DEF OutLock
  <1>8. CASE OutTest
    BY <1>8 DEF OutTest
  <1>9. CASE OutWait
    BY <1>9 DEF OutWait
  <1>10. CASE OutSpurious
    BY <1>10 DEF OutSpurious
  <1>11. CASE OutReacquire
    BY <1>11 DEF OutReacquire
  <1>12. CASE OutUnlock
    BY <1>12 DEF OutUnlock
  <1>13. CASE OutRelockStatus
    BY <1>13 DEF OutRelockStatus
  <1>14. CASE OutUnlockStatus
    BY <1>14 DEF OutUnlockStatus
  <1> QED BY <1>1, <1>2, <1>3, <1>4, <1>5, <1>6, <1>7, <1>8, <1>9,
             <1>10, <1>11, <1>12, <1>13, <1>14 DEF OutStep

LEMMA CpuPlaces ==
  ASSUME Places,
         OutbStatus \/ StoreOUT \/ WriteStep \/ Reset \/ Halt \/ StopStep \/ Start
  PROVE  Places'
  <1> USE DEF Places, CpuGoto, locks, stopVars, data
  <1>1. CASE OutbStatus
    BY <1>1 DEF OutbStatus
  <1>2. CASE StoreOUT
    BY <1>2 DEF StoreOUT
  <1>3. CASE WriteIgnored
    BY <1>3 DEF WriteIgnored
  <1>4. CASE WriteTest
    BY <1>4 DEF WriteTest
  <1>5. CASE WriteLockStatus
    BY <1>5 DEF WriteLockStatus
  <1>6. CASE WriteEnqueue
    BY <1>6 DEF WriteEnqueue, EnqueueOUT
  <1>7. CASE WriteSignal
    BY <1>7 DEF WriteSignal
  <1>8. CASE WriteUnlockOUT
    BY <1>8 DEF WriteUnlockOUT
  <1>9. CASE WriteUnlock
    BY <1>9 DEF WriteUnlock
  <1>10. CASE Reset
    BY <1>10 DEF Reset
  <1>11. CASE Halt
    BY <1>11 DEF Halt
  <1>12. CASE StopSignal
    BY <1>12 DEF StopSignal
  <1>13. CASE StopJoin
    BY <1>13 DEF StopJoin
  <1>14. CASE StopSend
    BY <1>14 DEF StopSend, SendByte
  <1>15. CASE StopFlushed
    BY <1>15 DEF StopFlushed
  <1>16. CASE Start
    BY <1>16 DEF Start
  <1> QED BY <1>1, <1>2, <1>3, <1>4, <1>5, <1>6, <1>7, <1>8, <1>9,
             <1>10, <1>11, <1>12, <1>13, <1>14, <1>15, <1>16 DEF WriteStep, StopStep

(* The numbers in the queue are those of bytes that were written.          *)
LEMMA QueueTyped ==
  ASSUME QueueInv, written \in 0 .. MaxBytes
  PROVE  queue \in Seq(1 .. MaxBytes) /\ sent \in 0 .. MaxBytes
  <1>1. Len(queue) \in Nat /\ queue \in [1 .. Len(queue) -> Nat]
    BY LenProperties DEF QueueInv
  <1>2. sent \in 0 .. MaxBytes
    BY <1>1 DEF QueueInv, NothingLost
  <1>3. ASSUME NEW i \in 1 .. Len(queue) PROVE queue[i] \in 1 .. MaxBytes
    BY <1>1, <1>3 DEF QueueInv, NothingLost
  <1>4. queue \in [1 .. Len(queue) -> 1 .. MaxBytes]
    BY <1>1, <1>3
  <1> QED BY <1>1, <1>2, <1>4, SeqDef

(* Every variable keeps its type: the queue never holds more bytes than    *)
(* there are slots, and OUTSTATUS is always one of its three values.       *)
THEOREM TypeCorrect == Spec => []TypeOK
  <1>1. Init => Places
    <2> SUFFICES ASSUME Init PROVE Places
      OBVIOUS
    <2>1. starts \in 0 .. MaxStarts /\ starts < MaxStarts
      BY DEF Init
    <2>2. written \in 0 .. MaxBytes
      BY DEF Init
    <2> QED BY <2>1, <2>2 DEF Init, Places
  <1>2. Inv /\ Places /\ [Next]_vars => Places'
    <2>1. ASSUME Places, Finished \/ UNCHANGED vars PROVE Places'
      BY <2>1 DEF Finished, vars, Places
    <2> QED BY <2>1, OutPlaces, CpuPlaces DEF Next, Inv
  <1>3. Inv /\ Places => TypeOK
    BY QueueTyped DEF Inv, StatusInv, QueueInv, Places, TypeOK
  <1> QED BY <1>1, <1>2, <1>3, Invariance, PTL DEF Spec

-----------------------------------------------------------------------------
(* The input.                                                              *)
InHolds == {"while", "read", "lockINSTATUS", "raise", "wait", "sleep", "unlock"}
InCpuHolds == {"test", "lockIN", "take", "unlock"}

(* Who holds the two mutexes.  A cancelled thread keeps lockIN, so lockIN  *)
(* may name a thread that is gone, never one that is yet to come.          *)
InLockInv ==
  /\ thread \in Nat
  /\ lockIN \in {NOBODY, CPU} \cup 1 .. thread
  /\ lockINSTATUS \in {NOBODY, CPU} \cup 1 .. thread
  /\ inpc = "none" <=> thread = 0
  /\ thread = 0 => inputpc = "start"
  /\ inpc \in InHolds => lockIN = thread
  /\ inputpc = "take" <=> lockIN = CPU
  /\ inpc = "raise" <=> lockINSTATUS = thread /\ thread # 0
  /\ inputpc \in InCpuHolds <=> lockINSTATUS = CPU
  /\ inputpc = "start" => inpc \in {"none", "exited"}

(* INSTATUS is the turn: CONSUMED for the thread's read, READY for the     *)
(* CPU's.                                                                  *)
TurnInv ==
  /\ INSTATUS \in {INREADY, CONSUMED, NOINPUT}
  /\ inpc \in {"read", "lockINSTATUS"} => INSTATUS = CONSUMED
  /\ inputpc \in {"lockIN", "take"} => INSTATUS = INREADY

(* A READY byte is one the CPU has not had, and its interrupt is raised    *)
(* before the thread lets go of lockINSTATUS.  A CONSUMED one was had, was *)
(* there before the last start, or is not announced yet.                   *)
ByteInv ==
  /\ nextByte \in Nat \ {0} /\ consumed \in Nat /\ earlier \in Nat
  /\ INSTATUS = CONSUMED /\ thread # 0 /\ inpc # "lockINSTATUS" =>
       INBYTE = consumed \/ INBYTE <= earlier
  /\ INBYTE = nextByte - 1 /\ consumed <= INBYTE
  /\ inpc = "lockINSTATUS" => consumed < INBYTE
  /\ INSTATUS = INREADY /\ thread # 0 =>
       consumed < INBYTE /\ (raised = INBYTE \/ inpc = "raise")

InInv == InLockInv /\ TurnInv /\ ByteInv

USE DEF NOBODY, CPU, INREADY, CONSUMED, NOINPUT, InHolds, InCpuHolds

LEMMA InInitInv == InInit => InInv
  <1> SUFFICES ASSUME InInit PROVE InInv OBVIOUS
  <1>1. InLockInv
    BY DEF InInit, InLockInv
  <1>2. TurnInv
    BY DEF InInit, TurnInv
  <1>3. ByteInv
    BY DEF InInit, ByteInv
  <1> QED BY <1>1, <1>2, <1>3 DEF InInv

(* The steps of the in thread.                                             *)
LEMMA InStepInv ==
  ASSUME InInv, InStep
  PROVE  InInv'
  <1> USE DEF InInv, InLockInv, TurnInv, ByteInv, registers, inLocks, inStopVars,
              history, InGoto
  <1>1. CASE InBegin \/ InLock \/ InWhile
    BY <1>1 DEF InBegin, InLock, InWhile
  <1>2. CASE InReadByte \/ InReadFails \/ InReadInterrupted
    BY <1>2 DEF InReadByte, InReadFails, InReadInterrupted
  <1>3. CASE InAnnounce \/ InRaise
    BY <1>3 DEF InAnnounce, InRaise
  <1>4. CASE InWait \/ InSpurious \/ InReacquire
    BY <1>4 DEF InWait, InSpurious, InReacquire
  <1>5. CASE InSleep \/ InExit \/ InCancelled
    BY <1>5 DEF InSleep, InExit, InCancelled
  <1> QED BY <1>1, <1>2, <1>3, <1>4, <1>5 DEF InStep

(* The reads of the CPU.                                                   *)
LEMMA InReadInv ==
  ASSUME InInv, InbStatus \/ LoadIN \/ ReadStep
  PROVE  InInv'
  <1> USE DEF InInv, InLockInv, TurnInv, ByteInv, registers, inLocks, inStopVars,
              history, InCpuGoto
  <1>1. CASE InbStatus \/ LoadIN \/ ReadLockStatus
    BY <1>1 DEF InbStatus, LoadIN, ReadLockStatus
  <1>2. CASE ReadNotReady \/ ReadReady
    BY <1>2 DEF ReadNotReady, ReadReady
  <1>3. CASE ReadLock \/ ReadTake \/ ReadUnlock
    BY <1>3 DEF ReadLock, ReadTake, ReadUnlock
  <1> QED BY <1>1, <1>2, <1>3 DEF ReadStep

(* Starting and stopping the device.                                       *)
LEMMA InControlInv ==
  ASSUME InInv, InReset \/ InHalt \/ InStopStep \/ InStart \/ InFinished
  PROVE  InInv'
  <1> USE DEF InInv, InLockInv, TurnInv, ByteInv, registers, inLocks, inStopVars,
              history, InCpuGoto
  <1>1. CASE InReset \/ InHalt \/ InFinished
    BY <1>1 DEF InReset, InHalt, InFinished, inVars
  <1>2. CASE InStopStep
    BY <1>2 DEF InStopStep, InStopSignal, StopCancel, InStopJoin
  <1>3. CASE InStart
    BY <1>3 DEF InStart
  <1> QED BY <1>1, <1>2, <1>3

THEOREM InInvariance == InSpec => []InInv
  <1>1. InInv /\ [InNext]_inVars => InInv'
    <2> SUFFICES ASSUME InInv, [InNext]_inVars PROVE InInv'
      OBVIOUS
    <2>1. CASE UNCHANGED inVars
      BY <2>1 DEF inVars, InInv, InLockInv, TurnInv, ByteInv
    <2> QED BY <2>1, InStepInv, InReadInv, InControlInv DEF InNext
  <1> QED BY <1>1, InInitInv, PTL DEF InSpec

(* The CPU and the in thread never wait for each other.                    *)
THEOREM InDeadlockFree == InSpec => []NoDeadlyEmbrace
  <1>1. InInv => NoDeadlyEmbrace
    BY DEF InInv, InLockInv, TurnInv, ByteInv, NoDeadlyEmbrace
  <1> QED BY <1>1, InInvariance, PTL

(* The CPU takes the bytes of standard input in order, each at most once   *)
(* and only after its interrupt was raised.                                *)
THEOREM BytesAreTakenOnce == InSpec => []TakenOnceAfterInterrupt
  <1>1. InInv => TakenOnceAfterInterrupt
    BY DEF InInv, InLockInv, TurnInv, ByteInv, TakenOnceAfterInterrupt
  <1> QED BY <1>1, InInvariance, PTL

(* Between two starts of the device no byte is overwritten before the CPU  *)
(* has consumed it, whatever the two threads do.                           *)
THEOREM BytesAreKept == InSpec => NoByteOverwritten
  <1>1. InInv /\ [InNext]_inVars => [nextByte' # nextByte => INBYTE = consumed \/ INBYTE <= earlier]_inVars
    <2> SUFFICES ASSUME InInv, InNext, nextByte' # nextByte
                 PROVE  INBYTE = consumed \/ INBYTE <= earlier
      BY DEF inVars
    <2>1. InReadByte
      BY DEF InNext, InStep, InBegin, InLock, InWhile, InReadByte, InReadFails, InReadInterrupted,
             InAnnounce, InRaise, InWait, InSpurious, InReacquire, InSleep, InExit, InCancelled,
             InbStatus, LoadIN, ReadStep, ReadLockStatus, ReadNotReady, ReadReady, ReadLock, ReadTake,
             ReadUnlock, InReset, InHalt, InStopStep, InStopSignal, StopCancel, InStopJoin, InStart,
             InFinished, history, inVars
    <2> QED BY <2>1 DEF InReadByte, InGoto, InInv, InLockInv, TurnInv, ByteInv
  <1> QED BY <1>1, InInvariance, PTL DEF InSpec, NoByteOverwritten

(* The bound on the restarts is met because a RESET that asks for one has  *)
(* seen that there is room.                                                *)
InputTyped ==
  /\ InTypeOK
  /\ inputpc \in {"start", "restop", "recancel", "rejoin"} => thread < MaxInStarts

LEMMA InThreadTyped ==
  ASSUME InputTyped, InStep
  PROVE  InputTyped'
  <1> USE InBoundsAssumption DEF InputTyped, InTypeOK, InGoto, registers, inLocks, inStopVars, history
  <1>1. CASE InBegin
    BY <1>1 DEF InBegin
  <1>2. CASE InLock
    BY <1>2 DEF InLock
  <1>3. CASE InWhile
    BY <1>3 DEF InWhile
  <1>4. CASE InReadByte
    BY <1>4 DEF InReadByte
  <1>5. CASE InReadFails
    BY <1>5 DEF InReadFails
  <1>6. CASE InReadInterrupted
    BY <1>6 DEF InReadInterrupted
  <1>7. CASE InAnnounce
    BY <1>7 DEF InAnnounce
  <1>8. CASE InRaise
    BY <1>8 DEF InRaise
  <1>9. CASE InWait
    BY <1>9 DEF InWait
  <1>10. CASE InSpurious
    BY <1>10 DEF InSpurious
  <1>11. CASE InReacquire
    BY <1>11 DEF InReacquire
  <1>12. CASE InSleep
    BY <1>12 DEF InSleep
  <1>13. CASE InExit
    BY <1>13 DEF InExit
  <1>14. CASE InCancelled
    BY <1>14 DEF InCancelled
  <1> QED BY <1>1, <1>2, <1>3, <1>4, <1>5, <1>6, <1>7, <1>8, <1>9,
             <1>10, <1>11, <1>12, <1>13, <1>14 DEF InStep

LEMMA InCpuTyped ==
  ASSUME InputTyped,
         InbStatus \/ LoadIN \/ ReadStep \/ InReset \/ InHalt \/ InStopStep \/ InStart
  PROVE  InputTyped'
  <1> USE InBoundsAssumption DEF InputTyped, InTypeOK, InCpuGoto, registers, inLocks, inStopVars, history
  <1>1. CASE InbStatus
    BY <1>1 DEF InbStatus
  <1>2. CASE LoadIN
    BY <1>2 DEF LoadIN
  <1>3. CASE ReadLockStatus
    BY <1>3 DEF ReadLockStatus
  <1>4. CASE ReadNotReady
    BY <1>4 DEF ReadNotReady
  <1>5. CASE ReadReady
    BY <1>5 DEF ReadReady
  <1>6. CASE ReadLock
    BY <1>6 DEF ReadLock
  <1>7. CASE ReadTake
    BY <1>7 DEF ReadTake
  <1>8. CASE ReadUnlock
    BY <1>8 DEF ReadUnlock
  <1>9. CASE InReset
    BY <1>9 DEF InReset
  <1>10. CASE InHalt
    BY <1>10 DEF InHalt
  <1>11. CASE InStopSignal
    BY <1>11 DEF InStopSignal
  <1>12. CASE StopCancel
    BY <1>12 DEF StopCancel
  <1>13. CASE InStopJoin
    BY <1>13 DEF InStopJoin
  <1>14. CASE InStart
    <2>1. INSTATUS' = CONSUMED /\ inputpc' = "run" /\ inpc' = "begin" /\ cancel' = FALSE
      BY <1>14 DEF InStart
    <2>2. thread' \in 0 .. MaxInStarts
      BY <1>14 DEF InStart
    <2>3. UNCHANGED <<INBYTE, inLocks, endIN, nextByte, raised, consumed>> /\ earlier' \in 0 .. MaxInBytes
      BY <1>14 DEF InStart
    <2> QED BY <2>1, <2>2, <2>3
  <1> QED BY <1>1, <1>2, <1>3, <1>4, <1>5, <1>6, <1>7, <1>8, <1>9,
             <1>10, <1>11, <1>12, <1>13, <1>14 DEF ReadStep, InStopStep

(* Every variable keeps its type: INSTATUS is always one of its three      *)
(* values, a mutex is held by the CPU or by a thread that was started.     *)
THEOREM InTypeCorrect == InSpec => []InTypeOK
  <1>1. InInit => InputTyped
    <2> SUFFICES ASSUME InInit PROVE InputTyped
      OBVIOUS
    <2>1. thread \in 0 .. MaxInStarts /\ thread < MaxInStarts /\ nextByte \in 1 .. MaxInBytes + 1
      BY InBoundsAssumption DEF InInit
    <2>2. INBYTE \in 0 .. MaxInBytes /\ raised \in 0 .. MaxInBytes /\ consumed \in 0 .. MaxInBytes
         /\ earlier \in 0 .. MaxInBytes
      BY InBoundsAssumption DEF InInit
    <2> QED BY <2>1, <2>2 DEF InInit, InputTyped, InTypeOK
  <1>2. InputTyped /\ [InNext]_inVars => InputTyped'
    <2>1. ASSUME InputTyped, InFinished \/ UNCHANGED inVars PROVE InputTyped'
      BY <2>1 DEF InFinished, inVars, InputTyped, InTypeOK
    <2> QED BY <2>1, InThreadTyped, InCpuTyped DEF InNext
  <1>3. InputTyped => InTypeOK BY DEF InputTyped
  <1> QED BY <1>1, <1>2, <1>3, PTL DEF InSpec

-----------------------------------------------------------------------------
(* Together in one device, sharing the CPU and its stop, the input and the *)
(* output take only steps of their own or none: what is proved of each     *)
(* holds in the device.  First the input.                                  *)
THEOREM UsesInput == InOutSpec => InSpec
  <1>1. InOutInit => InInit
    BY DEF InOutInit
  <1>2. [InOutNext]_inOutVars => [InNext]_inVars
    <2> SUFFICES ASSUME [InOutNext]_inOutVars PROVE InNext \/ UNCHANGED inVars
      OBVIOUS
    <2>1. CASE OutThread \/ BeginWrite \/ StopOutput \/ UNCHANGED inOutVars
      BY <2>1 DEF OutThread, BeginWrite, StopOutput, inOutVars
    <2>2. CASE InThread \/ BeginRead \/ StopInput
      BY <2>2 DEF InThread, BeginRead, StopInput, InNext
    <2>3. CASE Access \/ StopBoth \/ StartBoth \/ BothFinished
      BY <2>3 DEF Access, StopBoth, StartBoth, BothFinished, InNext
    <2> QED BY <2>1, <2>2, <2>3 DEF InOutNext
  <1> QED BY <1>1, <1>2, PTL DEF InOutSpec, InSpec

(* The same of the output.                                                 *)
THEOREM UsesOutput == InOutSpec => Spec
  <1>1. InOutInit => Init
    BY DEF InOutInit
  <1>2. [InOutNext]_inOutVars => [Next]_vars
    <2> SUFFICES ASSUME [InOutNext]_inOutVars PROVE Next \/ UNCHANGED vars
      OBVIOUS
    <2>1. CASE InThread \/ BeginRead \/ StopInput \/ UNCHANGED inOutVars
      BY <2>1 DEF InThread, BeginRead, StopInput, inOutVars
    <2>2. CASE OutThread \/ BeginWrite \/ StopOutput
      BY <2>2 DEF OutThread, BeginWrite, StopOutput, Next
    <2>3. CASE Access \/ StopBoth \/ StartBoth \/ BothFinished
      BY <2>3 DEF Access, StopBoth, StartBoth, BothFinished, Next
    <2> QED BY <2>1, <2>2, <2>3 DEF InOutNext
  <1> QED BY <1>1, <1>2, PTL DEF InOutSpec, Spec

(* What the device keeps of both: no byte that was read since the last     *)
(* start is overwritten, and none that was written is lost, whatever the   *)
(* program does with the two and whenever it restarts the device.          *)
THEOREM DeviceKeepsBytes == InOutSpec => NoByteOverwritten /\ []NothingLost
  BY UsesInput, UsesOutput, BytesAreKept, NoByteIsLost

(* Nor do the three threads ever wait for each other, and the out thread   *)
(* never sleeps on a line unless the CPU is about to wake it.              *)
THEOREM DeviceDoesNotBlock == InOutSpec => []NoDeadlyEmbrace /\ []WakeupNotLost
  BY UsesInput, UsesOutput, InDeadlockFree, NoWakeupIsLost
===============================================================================
