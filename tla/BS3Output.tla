------------------------------- MODULE BS3Output -------------------------------
(***************************************************************************)
(* One output of the in-out device (dev_bs3inout.c).  The CPU queues bytes *)
(* until a newline or a full queue makes them PENDING; a thread then sends *)
(* the queue to the standard stream.  OUT and OUT2 are two copies of the   *)
(* same code which differ in AfterFlush, what the thread makes of          *)
(* OUTSTATUS once it has emptied the queue: READY for OUT, PENDING for     *)
(* OUT2.  The names are those of OUT.                                      *)
(*                                                                         *)
(* Bytes are numbered in the order the CPU writes them; whether one is a   *)
(* newline is chosen when it is written.  The ring queueOUT is the         *)
(* sequence of the bytes it holds.  A retry of fputc changes no state.     *)
(***************************************************************************)
EXTENDS Integers, Sequences

CONSTANTS QueueSize,   \* QUEUE_SIZE
          AfterFlush,  \* OUTSTATUS after a flush that met no error
          MaxBytes,    \* bound: bytes the CPU writes
          MaxStarts    \* bound: calls of dev_bs3inout_start

READY == 0        \* a byte can be written
PENDING == 1      \* the queue waits to be sent
NOOUTPUT == 255   \* output is not available any more

ASSUME BoundsAssumption ==
  QueueSize \in Nat \ {0} /\ MaxBytes \in Nat /\ MaxStarts \in Nat \ {0}
ASSUME AfterFlushAssumption == AfterFlush \in {READY, PENDING}

VARIABLES OUTSTATUS, queue,        \* register 0103 and queueOUT
          lockOUT, lockOUTSTATUS,  \* FREE, or the thread that holds the mutex
          endOUT, starts,          \* the flag, and how often the device was started
          outpc, cpupc,            \* where the out thread and the CPU thread are
          written, sent            \* history: bytes accepted, bytes given to fputc

vars == <<OUTSTATUS, queue, lockOUT, lockOUTSTATUS, endOUT, starts, outpc, cpupc,
          written, sent>>
locks == <<lockOUT, lockOUTSTATUS>>
stopVars == <<endOUT, starts>>
data == <<queue, written, sent>>

FREE == "free"

Init ==
  /\ OUTSTATUS = READY /\ queue = << >>
  /\ lockOUT = FREE /\ lockOUTSTATUS = FREE
  /\ endOUT = FALSE /\ starts = 0
  /\ outpc = "exited" /\ cpupc = "start"
  /\ written = 0 /\ sent = 0

-----------------------------------------------------------------------------
(* enqueueOUT forgets the byte when the ring is full; dequeueOUT and one   *)
(* fputc, which may fail for good.                                         *)

OneSlotSpare ==   \* seeded fault: the last slot of the ring is not used
  /\ written' = written + 1
  /\ queue' = IF Len(queue) >= QueueSize - 1 THEN queue ELSE Append(queue, written')
  /\ UNCHANGED sent

EnqueueOUT ==
  /\ written' = written + 1
  /\ queue' = IF Len(queue) >= QueueSize THEN queue ELSE Append(queue, written')
  /\ UNCHANGED sent

SendByte ==
  /\ queue # << >>
  /\ queue' = Tail(queue)
  /\ sent' = Head(queue)
  /\ OUTSTATUS' \in {OUTSTATUS, NOOUTPUT}
  /\ UNCHANGED written

-----------------------------------------------------------------------------
(* The out thread, dev_bs3out_run.                                         *)

OutGoto(a, b) == outpc = a /\ outpc' = b

OutBegin ==
  /\ OutGoto("begin", "while")
  /\ endOUT' = FALSE
  /\ UNCHANGED <<OUTSTATUS, locks, starts, cpupc, data>>

OutWhile ==
  /\ outpc = "while"
  /\ outpc' = IF endOUT THEN "exited" ELSE "lockOUTSTATUS"
  /\ UNCHANGED <<OUTSTATUS, locks, stopVars, cpupc, data>>

OutLockStatus ==
  /\ OutGoto("lockOUTSTATUS", "switch")
  /\ lockOUTSTATUS = FREE /\ lockOUTSTATUS' = "out"
  /\ UNCHANGED <<OUTSTATUS, lockOUT, stopVars, cpupc, data>>

OutSwitch ==
  /\ outpc = "switch"
  /\ outpc' = CASE OUTSTATUS = PENDING -> "flush"
                [] OUTSTATUS = READY -> "lockOUT"
                [] OUTSTATUS = NOOUTPUT -> "unlock"     \* after sleep(1)
  /\ UNCHANGED <<OUTSTATUS, locks, stopVars, cpupc, data>>

OutSend ==
  /\ OutGoto("flush", "flush")
  /\ SendByte
  /\ UNCHANGED <<locks, stopVars, cpupc>>

OutFlushed ==
  /\ OutGoto("flush", "unlock")
  /\ queue = << >>
  /\ OUTSTATUS' = IF OUTSTATUS = PENDING THEN AfterFlush ELSE OUTSTATUS
  /\ UNCHANGED <<locks, stopVars, cpupc, data>>

OutLock ==
  /\ OutGoto("lockOUT", "test")
  /\ lockOUT = FREE /\ lockOUT' = "out"
  /\ lockOUTSTATUS' = FREE
  /\ UNCHANGED <<OUTSTATUS, stopVars, cpupc, data>>

OutTest ==
  /\ outpc = "test"
  /\ outpc' = IF OUTSTATUS = READY THEN "wait" ELSE "unlockOUT"
  /\ UNCHANGED <<OUTSTATUS, locks, stopVars, cpupc, data>>

OutWait ==
  /\ OutGoto("wait", "waiting")
  /\ lockOUT' = FREE
  /\ UNCHANGED <<OUTSTATUS, lockOUTSTATUS, stopVars, cpupc, data>>

(* A condition variable may wake its waiter without a signal.              *)
OutSpurious ==
  /\ OutGoto("waiting", "awake")
  /\ UNCHANGED <<OUTSTATUS, locks, stopVars, cpupc, data>>

WaitsAgain ==   \* seeded fault: a loop around the wait looks at OUTSTATUS only
  /\ OutGoto("awake", "test")
  /\ lockOUT = FREE /\ lockOUT' = "out"
  /\ UNCHANGED <<OUTSTATUS, lockOUTSTATUS, stopVars, cpupc, data>>

OutReacquire ==
  /\ OutGoto("awake", "unlockOUT")
  /\ lockOUT = FREE /\ lockOUT' = "out"
  /\ UNCHANGED <<OUTSTATUS, lockOUTSTATUS, stopVars, cpupc, data>>

OutUnlock ==
  /\ OutGoto("unlockOUT", "relockOUTSTATUS")
  /\ lockOUT' = FREE
  /\ UNCHANGED <<OUTSTATUS, lockOUTSTATUS, stopVars, cpupc, data>>

OutRelockStatus ==
  /\ OutGoto("relockOUTSTATUS", "unlock")
  /\ lockOUTSTATUS = FREE /\ lockOUTSTATUS' = "out"
  /\ UNCHANGED <<OUTSTATUS, lockOUT, stopVars, cpupc, data>>

OutUnlockStatus ==
  /\ OutGoto("unlock", "while")
  /\ lockOUTSTATUS' = FREE
  /\ UNCHANGED <<OUTSTATUS, lockOUT, stopVars, cpupc, data>>

OutStep ==
  \/ OutBegin \/ OutWhile \/ OutLockStatus \/ OutSwitch \/ OutSend \/ OutFlushed
  \/ OutLock \/ OutTest \/ OutWait \/ OutSpurious \/ OutReacquire \/ OutUnlock
  \/ OutRelockStatus \/ OutUnlockStatus

-----------------------------------------------------------------------------
(* The CPU thread: the OUT instructions and writes to 0102.                *)

CpuGoto(a, b) == cpupc = a /\ cpupc' = b

(* OUTB reads 0103 and writes 0102 unless output is pending; a store to    *)
(* 0102 does not look at 0103 first.                                       *)
OutbStatus ==
  /\ CpuGoto("run", "test")
  /\ written < MaxBytes
  /\ OUTSTATUS # PENDING
  /\ UNCHANGED <<OUTSTATUS, locks, stopVars, outpc, data>>

StoreOUT ==
  /\ CpuGoto("run", "test")
  /\ written < MaxBytes
  /\ UNCHANGED <<OUTSTATUS, locks, stopVars, outpc, data>>

WriteIgnored ==
  /\ CpuGoto("test", "run")
  /\ OUTSTATUS # READY
  /\ UNCHANGED <<OUTSTATUS, locks, stopVars, outpc, data>>

WriteTest ==
  /\ CpuGoto("test", "lockOUTSTATUS")
  /\ OUTSTATUS = READY
  /\ UNCHANGED <<OUTSTATUS, locks, stopVars, outpc, data>>

WriteLockStatus ==
  /\ CpuGoto("lockOUTSTATUS", "enqueue")
  /\ lockOUTSTATUS = FREE /\ lockOUTSTATUS' = "cpu"
  /\ UNCHANGED <<OUTSTATUS, lockOUT, stopVars, outpc, data>>

WriteEnqueue ==
  /\ cpupc = "enqueue"
  /\ EnqueueOUT
  /\ \E newline \in BOOLEAN :
       IF newline \/ Len(queue') = QueueSize
       THEN OUTSTATUS' = PENDING /\ cpupc' = "lockOUT"
       ELSE UNCHANGED OUTSTATUS /\ cpupc' = "unlock"
  /\ UNCHANGED <<locks, stopVars, outpc>>

SignalUnlocked ==   \* seeded fault: condOUT is signalled without lockOUT
  /\ CpuGoto("lockOUT", "unlockOUT")
  /\ outpc' = IF outpc = "waiting" THEN "awake" ELSE outpc
  /\ UNCHANGED <<OUTSTATUS, locks, stopVars, data>>

(* pthread_mutex_lock(&lockOUT), then the signal.                          *)
WriteSignal ==
  /\ CpuGoto("lockOUT", "unlockOUT")
  /\ lockOUT = FREE /\ lockOUT' = "cpu"
  /\ outpc' = IF outpc = "waiting" THEN "awake" ELSE outpc
  /\ UNCHANGED <<OUTSTATUS, lockOUTSTATUS, stopVars, data>>

WriteUnlockOUT ==
  /\ CpuGoto("unlockOUT", "unlock")
  /\ lockOUT' = FREE
  /\ UNCHANGED <<OUTSTATUS, lockOUTSTATUS, stopVars, outpc, data>>

WriteUnlock ==
  /\ CpuGoto("unlock", "run")
  /\ lockOUTSTATUS' = FREE
  /\ UNCHANGED <<OUTSTATUS, lockOUT, stopVars, outpc, data>>

WriteStep ==
  \/ WriteIgnored \/ WriteTest \/ WriteLockStatus \/ WriteEnqueue \/ WriteSignal
  \/ WriteUnlockOUT \/ WriteUnlock

-----------------------------------------------------------------------------
(* The CPU thread: dev_bs3inout_start for RESET, dev_bs3inout_stop for it  *)
(* and for the end of the hypervisor.                                      *)

Reset ==
  /\ CpuGoto("run", "restop")
  /\ starts < MaxStarts
  /\ UNCHANGED <<OUTSTATUS, locks, stopVars, outpc, data>>

Halt ==
  /\ CpuGoto("run", "laststop")
  /\ UNCHANGED <<OUTSTATUS, locks, stopVars, outpc, data>>

StopSignal ==
  /\ \/ CpuGoto("restop", "rejoin")
     \/ CpuGoto("laststop", "lastjoin")
  /\ endOUT' = TRUE
  /\ outpc' = IF outpc = "waiting" THEN "awake" ELSE outpc
  /\ UNCHANGED <<OUTSTATUS, locks, starts, data>>

StopJoin ==
  /\ \/ CpuGoto("rejoin", "reflush")
     \/ CpuGoto("lastjoin", "lastflush")
  /\ outpc = "exited"
  /\ UNCHANGED <<OUTSTATUS, locks, stopVars, outpc, data>>

StopSend ==
  /\ cpupc \in {"reflush", "lastflush"}
  /\ SendByte
  /\ UNCHANGED <<locks, stopVars, outpc, cpupc>>

StopFlushed ==
  /\ \/ CpuGoto("reflush", "start")
     \/ CpuGoto("lastflush", "end")
  /\ queue = << >>
  /\ UNCHANGED <<OUTSTATUS, locks, stopVars, outpc, data>>

Start ==
  /\ CpuGoto("start", "run")
  /\ OUTSTATUS' = READY
  /\ starts' = starts + 1
  /\ outpc' = "begin"
  /\ UNCHANGED <<locks, endOUT, data>>

StopStep == StopSignal \/ StopJoin \/ StopSend \/ StopFlushed

-----------------------------------------------------------------------------
Finished == cpupc = "end" /\ UNCHANGED vars

Next ==
  \/ OutStep \/ OutbStatus \/ StoreOUT \/ WriteStep
  \/ Reset \/ Halt \/ StopStep \/ Start \/ Finished

Spec == Init /\ [][Next]_vars

(* The out thread runs; a mutex that is free again and again goes to it.   *)
OutThreadFairness ==
  /\ WF_vars(OutBegin \/ OutWhile \/ OutSwitch \/ OutSend \/ OutFlushed \/ OutTest
             \/ OutWait \/ OutUnlock \/ OutUnlockStatus)
  /\ SF_vars(OutLockStatus \/ OutLock \/ OutReacquire \/ OutRelockStatus)

-----------------------------------------------------------------------------
TypeOK ==
  /\ OUTSTATUS \in {READY, PENDING, NOOUTPUT}
  /\ queue \in Seq(1 .. MaxBytes) /\ Len(queue) <= QueueSize
  /\ lockOUT \in {FREE, "cpu", "out"} /\ lockOUTSTATUS \in {FREE, "cpu", "out"}
  /\ endOUT \in BOOLEAN /\ starts \in 0 .. MaxStarts
  /\ outpc \in {"begin", "while", "lockOUTSTATUS", "switch", "flush", "lockOUT", "test",
                "wait", "waiting", "awake", "unlockOUT", "relockOUTSTATUS", "unlock",
                "exited"}
  /\ cpupc \in {"run", "test", "lockOUTSTATUS", "enqueue", "lockOUT", "unlockOUT",
                "unlock", "restop", "rejoin", "reflush", "laststop", "lastjoin",
                "lastflush", "start", "end"}
  /\ written \in 0 .. MaxBytes /\ sent \in 0 .. MaxBytes

(* Every byte the CPU wrote is either sent or in the queue, in the order   *)
(* of the writes: the test of OUTSTATUS leaves no write to a full queue,   *)
(* and the two threads that send do it one after the other.                *)
NothingLost ==
  /\ written = sent + Len(queue)
  /\ \A i \in 1 .. Len(queue) : queue[i] = sent + i

(* OUTSTATUS READY is a promise of room: it is tested before the lock is   *)
(* taken and still holds when the byte is queued.                          *)
ReadyIsKept == cpupc = "enqueue" => OUTSTATUS = READY /\ Len(queue) < QueueSize

(* The out thread sleeps on a queue to be sent only while the CPU is about *)
(* to wake it.                                                             *)
WakeupNotLost == outpc = "waiting" /\ OUTSTATUS = PENDING => cpupc = "lockOUT"

(* A stop that has returned leaves no text behind, the last unfinished     *)
(* line included.                                                          *)
StopSendsAll == cpupc \in {"start", "end"} => sent = written

(* A line that is pending is sent.                                         *)
LineIsSent == (OUTSTATUS = PENDING) ~> (queue = << >>)

(* A stop whose signal meets the out thread asleep on condOUT returns,     *)
(* whatever was pending.  (A stop made before the thread has cleared       *)
(* endOUT, or between its test of endOUT and its wait, may be missed:      *)
(* condOUT is signalled without the mutex, and pthread_join waits on.)     *)
StopOfSleeperReturns ==
  (cpupc \in {"rejoin", "lastjoin"} /\ endOUT /\ outpc = "awake")
     ~> (cpupc \in {"start", "end"})
=================================================================================
