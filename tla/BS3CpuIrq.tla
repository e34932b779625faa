------------------------------- MODULE BS3CpuIrq -------------------------------
(***************************************************************************)
(* The interrupt logic of the BackSlash Three CPU (bs3_cpu_exec and        *)
(* bs3_cpu_interrupt) inside the hypervisor loop (bs3_hyper_main, without  *)
(* a debugger), composed with the interrupt FIFO of the bus.  The CPU      *)
(* thread is the one consumer of the FIFO; every read of the FIFO is       *)
(* interleaved with the device threads.                                    *)
(*                                                                         *)
(* The BS3 program is the environment: at every instruction it may choose  *)
(* any of those that touch interrupts.  The program counter is not kept;   *)
(* of the stack only the (PC, FL) frames are: the saved interrupt flag and *)
(* the interrupt whose vector was jumped to when it was saved.             *)
(***************************************************************************)
EXTENDS BS3IrqFifo

CONSTANT MaxFrames   \* bound on the frames the program keeps on its stack

ASSUME MaxFramesAssumption == MaxFrames \in Nat \ {0}

VARIABLES status,    \* bs3_cpu_data.status
          I,         \* flag I of FL
          pending,   \* bs3_cpu_data.pending_interrupt
          frames,    \* the (PC, FL) pairs on the stack, oldest first
          step,      \* where the hypervisor loop is
          end        \* the flag a signal handler sets

cpuVars == <<status, I, pending, frames, step, end>>
vars == <<fifoVars, cpuVars>>

NOPENDING == 255   \* BS3_INT_NOPENDING
BADINSTR == 7      \* BS3_INT_BADINSTR
DIVZERO == 6       \* BS3_INT_DIVZERO
SOFTWARE == 256    \* a frame pushed by an INT instruction

Status == {"DEFAULT", "HALT", "WAIT", "HEVT", "RESET", "ESCHYP", "BADINSTR"}

Init ==
  /\ FifoInit
  /\ status = "DEFAULT"
  /\ I = 0
  /\ pending = NOPENDING
  /\ frames = << >>
  /\ step = "while"
  /\ end = FALSE

(* bs3_cpu_init: the FIFO of the bus is not touched.                       *)
CpuInit ==
  /\ status' = "DEFAULT"
  /\ I' = 0
  /\ pending' = NOPENDING
  /\ frames' = << >>

(* PUSH PC, PUSH FL, PC = vector[n]: for hardware interrupt n, or for an   *)
(* INT instruction (n = SOFTWARE).                                         *)
Enter(n) == frames' = Append(frames, [by |-> n, I |-> I])

FlagsSavedMasked(n, st) ==   \* seeded fault: I = 0 comes before PUSH FL
  /\ IF n = BADINSTR \/ I = 1
     THEN /\ frames' = Append(frames, [by |-> n, I |-> 0])
          /\ I' = 0 /\ pending' = NOPENDING
     ELSE pending' = n /\ UNCHANGED <<I, frames>>
  /\ status' = IF st = "WAIT" THEN "DEFAULT" ELSE st

WaitNotEnded(n, st) ==   \* seeded fault: the wait state is not left
  /\ IF n = BADINSTR \/ I = 1
     THEN Enter(n) /\ I' = 0 /\ pending' = NOPENDING
     ELSE pending' = n /\ UNCHANGED <<I, frames>>
  /\ status' = st

PendingKept(n, st) ==   \* seeded fault: the slot is not cleared
  /\ IF n = BADINSTR \/ I = 1
     THEN Enter(n) /\ I' = 0
     ELSE UNCHANGED <<I, frames>>
  /\ pending' = n
  /\ status' = IF st = "WAIT" THEN "DEFAULT" ELSE st

(* bs3_cpu_interrupt, called with status st.                               *)
Interrupt(n, st) ==
  /\ IF n = BADINSTR \/ I = 1
     THEN Enter(n) /\ I' = 0 /\ pending' = NOPENDING
     ELSE pending' = n /\ UNCHANGED <<I, frames>>
  /\ status' = IF st = "WAIT" THEN "DEFAULT" ELSE st

-----------------------------------------------------------------------------
(* bs3_cpu_exec up to the fetch: at most one interrupt is taken.           *)

LoopTest ==
  /\ step = "while"
  /\ step' = IF end THEN "stop" ELSE "exec"
  /\ UNCHANGED <<fifoVars, status, I, pending, frames, end>>

ExecReset ==
  /\ step = "exec" /\ status = "RESET"
  /\ CpuInit
  /\ step' = "switch"
  /\ UNCHANGED <<fifoVars, end>>

ExecPending ==
  /\ step = "exec" /\ status # "RESET"
  /\ I = 1 /\ pending # NOPENDING
  /\ Interrupt(pending, status)
  /\ step' = "fetch"
  /\ UNCHANGED <<fifoVars, end>>

ExecMasked ==
  /\ step = "exec" /\ status # "RESET"
  /\ I = 0
  /\ step' = "fetch"
  /\ UNCHANGED <<fifoVars, status, I, pending, frames, end>>

(* bs3_bus_getinterrupt tests the counter, then dequeue tests it again:    *)
(* only this thread lowers it, so the second test passes (TakeIsPossible). *)
ExecPoll ==
  /\ step = "exec" /\ status # "RESET"
  /\ I = 1 /\ pending = NOPENDING
  /\ step' = IF count = 0 THEN "fetch" ELSE "poll"
  /\ UNCHANGED <<fifoVars, status, I, pending, frames, end>>

Dequeue ==
  /\ step \in {"poll", "drain"}
  /\ DequeueSome /\ step' = step
  /\ UNCHANGED <<status, I, pending, frames, end>>

DequeueRest ==
  /\ DequeueLock \/ DequeueTake
  /\ UNCHANGED cpuVars

(* The dequeue made for bs3_bus_getinterrupt returns: the CPU is given the *)
(* interrupt.                                                              *)
TakePolled ==
  /\ step = "poll"
  /\ DequeueCount
  /\ Interrupt(item, status)
  /\ step' = "fetch"
  /\ UNCHANGED end

Fetch ==
  /\ step = "fetch"
  /\ step' = IF status = "WAIT" THEN "switch" ELSE "instr"
  /\ UNCHANGED <<fifoVars, status, I, pending, frames, end>>

-----------------------------------------------------------------------------
(* The instructions.  Their guards on frames bound the stack: the program  *)
(* keeps a frame free for the interrupt it may be given.                   *)

Instr == step = "instr" /\ step' = "switch" /\ UNCHANGED <<fifoVars, end>>

InstrOther == Instr /\ UNCHANGED <<status, I, pending, frames>>

InstrSTI ==
  /\ Instr /\ Len(frames) < MaxFrames
  /\ I' = 1
  /\ UNCHANGED <<status, pending, frames>>

InstrCLI == Instr /\ I' = 0 /\ UNCHANGED <<status, pending, frames>>

(* INT n keeps I: only hardware interrupts mask.  INT 1 calls the          *)
(* hypervisor instead.                                                     *)
InstrINT(n) ==
  /\ Instr
  /\ IF n = 1
     THEN status' = "ESCHYP" /\ UNCHANGED <<frames>>
     ELSE /\ Len(frames) < MaxFrames - 1
          /\ Enter(SOFTWARE)
          /\ UNCHANGED status
  /\ UNCHANGED <<I, pending>>

InstrIRET ==
  /\ Instr /\ frames # << >>
  /\ I' = frames[Len(frames)].I
  /\ frames' = SubSeq(frames, 1, Len(frames) - 1)
  /\ UNCHANGED <<status, pending>>

(* A status the hypervisor loop looks at.                                  *)
InstrStatus(s) ==
  /\ Instr
  /\ status' = s
  /\ UNCHANGED <<I, pending, frames>>

InstrDivZero == Instr /\ Interrupt(DIVZERO, "BADINSTR")

InstrBad ==
  /\ Instr /\ Len(frames) < MaxFrames - 1
  /\ Interrupt(BADINSTR, "BADINSTR")

(* A write to 010E calls bs3_bus_intctrl_writebyte.                        *)
InstrDrain ==
  /\ step = "instr"
  /\ step' = "drain"
  /\ UNCHANGED <<fifoVars, status, I, pending, frames, end>>

DrainNext ==
  /\ step = "drain"
  /\ DequeueCount
  /\ UNCHANGED cpuVars

DrainOnce ==   \* seeded fault: one dequeue instead of a loop of them
  /\ step = "drain" /\ deq = "idle"
  /\ step' = "switch"
  /\ UNCHANGED <<fifoVars, status, I, pending, frames, end>>

DrainDone ==
  /\ step = "drain"
  /\ DequeueEmpty
  /\ step' = "switch"
  /\ UNCHANGED <<status, I, pending, frames, end>>

Program ==
  \/ InstrOther \/ InstrSTI \/ InstrCLI \/ InstrIRET
  \/ \E n \in {0, 1} : InstrINT(n)
  \/ \E s \in {"WAIT", "HALT", "RESET", "HEVT"} : InstrStatus(s)
  \/ InstrDivZero \/ InstrBad \/ InstrDrain

-----------------------------------------------------------------------------

SwitchForgetsSignal ==   \* seeded fault: end is overwritten by the loop
  /\ step = "switch"
  /\ end' = (status = "HALT")
  /\ status' = IF status \in {"HEVT", "ESCHYP", "BADINSTR"} THEN "DEFAULT" ELSE status
  /\ step' = "while"
  /\ UNCHANGED <<fifoVars, I, pending, frames>>

(* The switch of bs3_hyper_main.  For RESET the devices are started again  *)
(* and the memory is loaded; the CPU itself is reset by its next exec.     *)
HyperSwitch ==
  /\ step = "switch"
  /\ end' = (end \/ status = "HALT")
  /\ status' = IF status \in {"HEVT", "ESCHYP", "BADINSTR"} THEN "DEFAULT" ELSE status
  /\ step' = "while"
  /\ UNCHANGED <<fifoVars, I, pending, frames>>

HyperStop ==
  /\ step = "stop"
  /\ step' = "stopped"
  /\ UNCHANGED <<fifoVars, status, I, pending, frames, end>>

Signal ==
  /\ ~end
  /\ end' = TRUE
  /\ UNCHANGED <<fifoVars, status, I, pending, frames, step>>

CpuStep ==
  \/ LoopTest \/ ExecReset \/ ExecPending \/ ExecMasked \/ ExecPoll
  \/ Dequeue \/ DequeueRest \/ TakePolled \/ DrainNext \/ DrainDone
  \/ Fetch \/ Program \/ HyperSwitch \/ HyperStop

DeviceThread(d) == (SetInterrupt(d) \/ DeviceStep(d)) /\ UNCHANGED cpuVars

Next == CpuStep \/ Signal \/ \E d \in Devices : DeviceThread(d)

Spec == Init /\ [][Next]_vars

(* The scheduler runs the CPU thread and every device thread that is       *)
(* inside enqueue, and grants lockirq to every thread that keeps asking.   *)
(* Nothing makes a device raise again, or a program choose an instruction. *)
Fairness ==
  /\ WF_vars(CpuStep)
  /\ SF_vars(DequeueLock /\ UNCHANGED cpuVars)
  /\ \A d \in Devices : /\ SF_vars(EnqueueLock(d) /\ UNCHANGED cpuVars)
                        /\ WF_vars(DeviceStep(d) /\ UNCHANGED cpuVars)

LiveSpec == Spec /\ Fairness

-----------------------------------------------------------------------------
CpuTypeOK ==
  /\ status \in Status
  /\ I \in {0, 1}
  /\ pending \in 0 .. 255
  /\ frames \in Seq([by : 0 .. SOFTWARE, I : {0, 1}])
  /\ Len(frames) <= MaxFrames
  /\ step \in {"while", "exec", "poll", "fetch", "instr", "drain", "switch",
               "stop", "stopped"}
  /\ end \in BOOLEAN

(* The CPU has one slot for an interrupt that comes while I = 0, and a     *)
(* second one would overwrite it.  No interrupt of a device ever lands in  *)
(* it: the bus is polled with I = 1 only, and nothing clears I between the *)
(* poll and bs3_cpu_interrupt.  What waits there is a division by zero.    *)
PendingIsDivZero == pending \in {NOPENDING, DIVZERO}

(* bs3_cpu_exec tests I, pending_interrupt and the status, then dequeues,  *)
(* then acts on what it tested: the tests still hold when the interrupt    *)
(* arrives, so an interrupt taken from the FIFO always enters its handler. *)
PolledIsDeliverable ==
  step = "poll" => I = 1 /\ pending = NOPENDING /\ status \notin {"HALT", "RESET"}

(* The frame of a device's interrupt saved I = 1: IRET from its handler    *)
(* opens the interrupts again, whatever the handler interrupted.           *)
DeviceHandlerReturnsEnabled ==
  \A k \in DOMAIN frames :
     frames[k].by \notin {SOFTWARE, BADINSTR} => frames[k].I = 1

(* A division by zero that waits for I = 1 leaves the slot into its own    *)
(* handler, or is lost in two ways only: a bad instruction entered its     *)
(* handler (bs3_cpu_interrupt clears the slot whatever it held), or reset. *)
DivZeroLeavesPending ==
  [][pending = DIVZERO /\ pending' # DIVZERO =>
        \/ \E n \in {DIVZERO, BADINSTR} : Enter(n)
        \/ status = "RESET"]_vars

(* WAIT with I = 0 is the end of the program: bs3_cpu_exec does not poll   *)
(* the bus, so no device can wake the CPU and only a signal ends the loop. *)
WaitMaskedIsForever ==
  [][status = "WAIT" /\ I = 0 => status' = "WAIT" /\ I' = 0]_vars

(* When a write to the IRQ controller returns, what is left in the FIFO    *)
(* was stored by a device that has not updated the counter yet.            *)
ClearLeavesOnlyFresh ==
  [][step = "drain" /\ step' # "drain" =>
        \A i \in Pending :
           \E d \in Devices : pc[d] = "count" /\ fifo[i] = InterruptNumber[d]]_vars

(* A CPU that waits with I = 1 is woken by any pending interrupt.          *)
WaitingCpuWakes ==
  (status = "WAIT" /\ I = 1 /\ Pending # {}) ~> (status # "WAIT" \/ step = "stopped")

(* If the program keeps coming back to a poll (interrupts enabled), every  *)
(* interrupt a device raises is taken after it was raised, also when       *)
(* enqueue merged it with one already pending.                             *)
RaiseIsServed ==
  []<>(step = "exec" /\ status # "RESET" /\ I = 1 /\ pending = NOPENDING) =>
     \A d \in Devices : (pc[d] = "scan") ~> (deq = "count" /\ item = InterruptNumber[d])

(* A signal ends the hypervisor loop, unless the CPU is caught in the loop *)
(* that clears the FIFO by devices that raise as fast as it clears.        *)
SignalStops == <>end => <>(step = "stopped") \/ <>[](step = "drain")
=============================================================================
