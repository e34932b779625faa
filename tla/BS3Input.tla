-------------------------------- MODULE BS3Input --------------------------------
(***************************************************************************)
(* The input half of the in-out device (dev_bs3inout.c).  A thread reads   *)
(* standard input one byte at a time into IN, announces it by INSTATUS and *)
(* interrupt 4, and waits on condIN until the CPU has read IN.  The CPU    *)
(* takes lockINSTATUS then lockIN; the thread holds lockIN and then takes  *)
(* lockINSTATUS.  Stopping the device cancels the thread and joins it;     *)
(* starting it twice stops it in between, which is what RESET does.        *)
(*                                                                         *)
(* Bytes are numbered in the order standard input supplies them.  A thread *)
(* is named by the start that created it, so that a mutex can still be     *)
(* held by a thread that is gone.  Names that BS3Output has as well begin  *)
(* with In here.                                                           *)
(***************************************************************************)
EXTENDS Integers

CONSTANTS MaxInBytes,   \* bound: bytes that standard input supplies
          MaxInStarts   \* bound: calls of dev_bs3inout_start

ASSUME InBoundsAssumption == MaxInBytes \in Nat /\ MaxInStarts \in Nat \ {0}

VARIABLES INBYTE, INSTATUS,      \* registers IN and INSTATUS
          lockIN, lockINSTATUS,  \* NOBODY, CPU, or the number of a thread
          endIN, cancel,         \* the flag, and a pthread_cancel not acted on yet
          thread,                \* the current in thread (0: none was started)
          inpc, inputpc,         \* where the in thread and the CPU thread are
          nextByte,              \* the next byte of standard input
          raised, consumed,      \* history: last byte announced, last byte read
          earlier                \* history: last byte stored before the last start

inVars == <<INBYTE, INSTATUS, lockIN, lockINSTATUS, endIN, cancel, thread, inpc, inputpc,
            nextByte, raised, consumed, earlier>>
registers == <<INBYTE, INSTATUS>>
inLocks == <<lockIN, lockINSTATUS>>
inStopVars == <<endIN, cancel, thread>>
history == <<nextByte, raised, consumed, earlier>>

NOBODY == -1
CPU == 0
INREADY == 0      \* INSTATUS: INBYTE waits for consumption
CONSUMED == 1     \* INSTATUS: the next byte is about to come
NOINPUT == 255    \* INSTATUS: no input available

(* bs3_hyper_main starts the devices before the first instruction.         *)
InInit ==
  /\ INBYTE = 0 /\ INSTATUS = 0
  /\ lockIN = NOBODY /\ lockINSTATUS = NOBODY
  /\ endIN = FALSE /\ cancel = FALSE /\ thread = 0
  /\ inpc = "none" /\ inputpc = "start"
  /\ nextByte = 1 /\ raised = 0 /\ consumed = 0 /\ earlier = 0

-----------------------------------------------------------------------------
(* The in thread, dev_bs3in_run.                                           *)

InGoto(a, b) == inpc = a /\ inpc' = b

InBegin ==
  /\ InGoto("begin", "lockIN")
  /\ endIN' = FALSE
  /\ UNCHANGED <<registers, inLocks, cancel, thread, inputpc, history>>

InLock ==
  /\ InGoto("lockIN", "while")
  /\ lockIN = NOBODY /\ lockIN' = thread
  /\ UNCHANGED <<registers, lockINSTATUS, inStopVars, inputpc, history>>

InWhile ==
  /\ inpc = "while"
  /\ inpc' = IF endIN THEN "unlock"
             ELSE CASE INSTATUS = CONSUMED -> "read"
                    [] INSTATUS = INREADY -> "wait"
                    [] INSTATUS = NOINPUT -> "sleep"
  /\ UNCHANGED <<registers, inLocks, inStopVars, inputpc, history>>

InReadByte ==
  /\ InGoto("read", "lockINSTATUS")
  /\ nextByte <= MaxInBytes
  /\ INBYTE' = nextByte
  /\ nextByte' = nextByte + 1
  /\ UNCHANGED <<INSTATUS, inLocks, inStopVars, inputpc, raised, consumed, earlier>>

(* End of file, or an error other than EINTR.                              *)
InReadFails ==
  /\ InGoto("read", "while")
  /\ INSTATUS' = NOINPUT
  /\ UNCHANGED <<INBYTE, inLocks, inStopVars, inputpc, history>>

InReadInterrupted ==
  /\ InGoto("read", "while")
  /\ UNCHANGED <<registers, inLocks, inStopVars, inputpc, history>>

InAnnounce ==
  /\ InGoto("lockINSTATUS", "raise")
  /\ lockINSTATUS = NOBODY /\ lockINSTATUS' = thread
  /\ INSTATUS' = INREADY
  /\ UNCHANGED <<INBYTE, lockIN, inStopVars, inputpc, history>>

(* bs3_bus_setinterrupt(4), then unlock.                                   *)
InRaise ==
  /\ InGoto("raise", "while")
  /\ raised' = INBYTE
  /\ lockINSTATUS' = NOBODY
  /\ UNCHANGED <<registers, lockIN, inStopVars, inputpc, nextByte, consumed, earlier>>

InWait ==
  /\ InGoto("wait", "waiting")
  /\ lockIN' = NOBODY
  /\ UNCHANGED <<registers, lockINSTATUS, inStopVars, inputpc, history>>

(* A condition variable may wake its waiter without a signal.              *)
InSpurious ==
  /\ InGoto("waiting", "awake")
  /\ UNCHANGED <<registers, inLocks, inStopVars, inputpc, history>>

WakesToRead ==   \* seeded fault: INSTATUS is not tested again after the wait
  /\ InGoto("awake", "read")
  /\ lockIN = NOBODY /\ lockIN' = thread
  /\ UNCHANGED <<registers, lockINSTATUS, inStopVars, inputpc, history>>

InReacquire ==
  /\ InGoto("awake", "while")
  /\ lockIN = NOBODY /\ lockIN' = thread
  /\ UNCHANGED <<registers, lockINSTATUS, inStopVars, inputpc, history>>

InSleep ==
  /\ InGoto("sleep", "while")
  /\ UNCHANGED <<registers, inLocks, inStopVars, inputpc, history>>

InExit ==
  /\ InGoto("unlock", "exited")
  /\ lockIN' = NOBODY
  /\ UNCHANGED <<registers, lockINSTATUS, inStopVars, inputpc, history>>

(* read, sleep and pthread_cond_wait are cancellation points.  No cleanup  *)
(* handler is pushed: the thread dies with lockIN, which a cancelled wait  *)
(* takes again first.                                                      *)
InCancelled ==
  /\ cancel
  /\ \/ inpc \in {"read", "sleep"}
     \/ inpc \in {"waiting", "awake"} /\ lockIN = NOBODY
  /\ lockIN' = thread
  /\ inpc' = "exited"
  /\ UNCHANGED <<registers, lockINSTATUS, inStopVars, inputpc, history>>

InStep ==
  \/ InBegin \/ InLock \/ InWhile \/ InReadByte \/ InReadFails \/ InReadInterrupted
  \/ InAnnounce \/ InRaise \/ InWait \/ InSpurious \/ InReacquire \/ InSleep
  \/ InExit \/ InCancelled

-----------------------------------------------------------------------------
(* The CPU thread: instruction INB and reads of 0100.                      *)

InCpuGoto(a, b) == inputpc = a /\ inputpc' = b

(* INB reads 0101 and, unless it is CONSUMED, goes on to read 0100.        *)
InbStatus ==
  /\ InCpuGoto("run", "lockINSTATUS")
  /\ INSTATUS # CONSUMED
  /\ UNCHANGED <<registers, inLocks, inStopVars, inpc, history>>

(* A load from 0100 does not look at 0101 first.                           *)
LoadIN ==
  /\ InCpuGoto("run", "lockINSTATUS")
  /\ UNCHANGED <<registers, inLocks, inStopVars, inpc, history>>

ReadLockStatus ==
  /\ InCpuGoto("lockINSTATUS", "test")
  /\ lockINSTATUS = NOBODY /\ lockINSTATUS' = CPU
  /\ UNCHANGED <<registers, lockIN, inStopVars, inpc, history>>

ReadNotReady ==
  /\ InCpuGoto("test", "run")
  /\ INSTATUS # INREADY
  /\ lockINSTATUS' = NOBODY
  /\ UNCHANGED <<registers, lockIN, inStopVars, inpc, history>>

ReadStored ==   \* seeded fault: IN is looked at, not INSTATUS
  /\ InCpuGoto("test", "lockIN")
  /\ INBYTE # 0
  /\ UNCHANGED <<registers, inLocks, inStopVars, inpc, history>>

ReadReady ==
  /\ InCpuGoto("test", "lockIN")
  /\ INSTATUS = INREADY
  /\ UNCHANGED <<registers, inLocks, inStopVars, inpc, history>>

ReadLock ==
  /\ InCpuGoto("lockIN", "take")
  /\ lockIN = NOBODY /\ lockIN' = CPU
  /\ UNCHANGED <<registers, lockINSTATUS, inStopVars, inpc, history>>

TakeUnsignalled ==   \* seeded fault: condIN is not signalled
  /\ InCpuGoto("take", "unlock")
  /\ consumed' = INBYTE
  /\ INSTATUS' = CONSUMED
  /\ lockIN' = NOBODY
  /\ UNCHANGED <<INBYTE, lockINSTATUS, inStopVars, inpc, nextByte, raised, earlier>>

TakeUnmarked ==   \* seeded fault: INSTATUS stays READY
  /\ InCpuGoto("take", "unlock")
  /\ consumed' = INBYTE
  /\ inpc' = IF inpc = "waiting" THEN "awake" ELSE inpc
  /\ lockIN' = NOBODY
  /\ UNCHANGED <<registers, lockINSTATUS, inStopVars, nextByte, raised, earlier>>

(* The byte is taken, condIN is signalled and lockIN released.             *)
ReadTake ==
  /\ InCpuGoto("take", "unlock")
  /\ consumed' = INBYTE
  /\ INSTATUS' = CONSUMED
  /\ inpc' = IF inpc = "waiting" THEN "awake" ELSE inpc
  /\ lockIN' = NOBODY
  /\ UNCHANGED <<INBYTE, lockINSTATUS, inStopVars, nextByte, raised, earlier>>

ReadUnlock ==
  /\ InCpuGoto("unlock", "run")
  /\ lockINSTATUS' = NOBODY
  /\ UNCHANGED <<registers, lockIN, inStopVars, inpc, history>>

ReadStep ==
  ReadLockStatus \/ ReadNotReady \/ ReadReady \/ ReadLock \/ ReadTake \/ ReadUnlock

-----------------------------------------------------------------------------
(* The CPU thread: dev_bs3inout_start for RESET, dev_bs3inout_stop for it  *)
(* and for the end of the hypervisor.                                      *)

InReset ==
  /\ InCpuGoto("run", "restop")
  /\ thread < MaxInStarts
  /\ UNCHANGED <<registers, inLocks, inStopVars, inpc, history>>

InHalt ==
  /\ InCpuGoto("run", "laststop")
  /\ UNCHANGED <<registers, inLocks, inStopVars, inpc, history>>

InStopSignal ==
  /\ \/ InCpuGoto("restop", "recancel")
     \/ InCpuGoto("laststop", "lastcancel")
  /\ endIN' = TRUE
  /\ inpc' = IF inpc = "waiting" THEN "awake" ELSE inpc
  /\ UNCHANGED <<registers, inLocks, cancel, thread, history>>

NotCancelled ==   \* seeded fault: only endIN ends the thread
  /\ \/ InCpuGoto("recancel", "rejoin")
     \/ InCpuGoto("lastcancel", "lastjoin")
  /\ UNCHANGED <<registers, inLocks, inStopVars, inpc, history>>

StopCancel ==
  /\ \/ InCpuGoto("recancel", "rejoin")
     \/ InCpuGoto("lastcancel", "lastjoin")
  /\ cancel' = TRUE
  /\ UNCHANGED <<registers, inLocks, endIN, thread, inpc, history>>

InStopJoin ==
  /\ \/ InCpuGoto("rejoin", "start")
     \/ InCpuGoto("lastjoin", "end")
  /\ inpc = "exited"
  /\ UNCHANGED <<registers, inLocks, inStopVars, inpc, history>>

InStart ==
  /\ InCpuGoto("start", "run")
  /\ INSTATUS' = CONSUMED
  /\ thread' = thread + 1
  /\ cancel' = FALSE
  /\ inpc' = "begin"
  /\ earlier' = nextByte - 1
  /\ UNCHANGED <<INBYTE, inLocks, endIN, nextByte, raised, consumed>>

InStopStep == InStopSignal \/ StopCancel \/ InStopJoin

-----------------------------------------------------------------------------
InFinished == inputpc = "end" /\ UNCHANGED inVars

InNext ==
  \/ InStep \/ InbStatus \/ LoadIN \/ ReadStep
  \/ InReset \/ InHalt \/ InStopStep \/ InStart \/ InFinished

InSpec == InInit /\ [][InNext]_inVars

(* The in thread runs and is cancelled when it can be; a mutex that is free*)
(* again and again goes to it.  Standard input supplies every byte up to   *)
(* the bound.                                                              *)
InThreadFairness ==
  /\ WF_inVars(InBegin \/ InWhile \/ InRaise \/ InWait \/ InSleep \/ InExit)
  /\ SF_inVars(InReadByte)
  /\ SF_inVars(InCancelled)
  /\ SF_inVars(InLock \/ InReacquire \/ InAnnounce)

(* And so does the CPU thread.                                             *)
InFairness ==
  /\ InThreadFairness
  /\ SF_inVars(ReadLockStatus \/ ReadLock)
  /\ WF_inVars(ReadNotReady \/ ReadReady \/ ReadTake \/ ReadUnlock)
  /\ WF_inVars(InStopStep) /\ WF_inVars(InStart)

InLiveSpec == InSpec /\ InFairness

-----------------------------------------------------------------------------
InTypeOK ==
  /\ INBYTE \in 0 .. MaxInBytes /\ INSTATUS \in {INREADY, CONSUMED, NOINPUT}
  /\ lockIN \in {NOBODY, CPU} \cup 1 .. MaxInStarts
  /\ lockINSTATUS \in {NOBODY, CPU} \cup 1 .. MaxInStarts
  /\ endIN \in BOOLEAN /\ cancel \in BOOLEAN
  /\ thread \in 0 .. MaxInStarts
  /\ inpc \in {"none", "begin", "lockIN", "while", "read", "lockINSTATUS", "raise",
               "wait", "waiting", "awake", "sleep", "unlock", "exited"}
  /\ inputpc \in {"run", "lockINSTATUS", "test", "lockIN", "take", "unlock", "restop",
                  "recancel", "rejoin", "laststop", "lastcancel", "lastjoin", "start", "end"}
  /\ nextByte \in 1 .. MaxInBytes + 1
  /\ raised \in 0 .. MaxInBytes /\ consumed \in 0 .. MaxInBytes
  /\ earlier \in 0 .. MaxInBytes

(* The two threads take lockIN and lockINSTATUS in opposite orders, and    *)
(* still never wait for each other: the CPU asks for its second lock only  *)
(* for a byte that is READY, the thread only for one that is not.          *)
NoDeadlyEmbrace ==
  ~ /\ inputpc = "lockIN" /\ lockINSTATUS = CPU
    /\ inpc = "lockINSTATUS" /\ lockIN = thread

(* The next byte is stored into IN only when the CPU has consumed the one  *)
(* there, or when that one is from before the last start, which marks IN   *)
(* as CONSUMED whatever is in it: between two starts no byte that was read *)
(* from standard input is lost.                                            *)
NoByteOverwritten ==
  [][nextByte' # nextByte => INBYTE = consumed \/ INBYTE <= earlier]_inVars

(* The byte the CPU takes is the last one read from standard input, was    *)
(* never taken before, and its interrupt was raised before it was taken.   *)
TakenOnceAfterInterrupt ==
  inputpc = "take" => /\ INBYTE = nextByte - 1
                      /\ INBYTE > consumed
                      /\ raised = INBYTE

(* While the device is not stopped, a consumed byte is followed by the     *)
(* next one, or by the news that there is none: the wakeup of the thread   *)
(* is never lost.                                                          *)
NextByteComes ==
  [](inputpc \notin {"restop", "laststop"}) =>
     (inputpc = "unlock" /\ nextByte <= MaxInBytes) ~> (INSTATUS \in {INREADY, NOINPUT})

(* The first stop returns wherever it meets the thread, which may clear    *)
(* endIN after the stop has set it: the cancellation still ends it.        *)
FirstStopReturns ==
  (inputpc \in {"restop", "laststop"} /\ thread = 1) ~> (inputpc \in {"start", "end"})

(* bs3.c:57 "if call twice without stop, then it is a restart ( like a     *)
(* hard reset)": the thread that a start creates gets to read standard     *)
(* input.                                                                  *)
RestartReadsInput == (inpc = "begin") ~> (inpc = "while")
=================================================================================
