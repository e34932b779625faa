------------------------------ MODULE BS3IrqFifo ------------------------------
(***************************************************************************)
(* The interrupt FIFO of the BackSlash Three bus (bs3_bus.c): a ring of    *)
(* QueueSize slots filled by the device threads and emptied by the CPU     *)
(* thread.  Enqueue works under lockirq from its first to its last line;   *)
(* dequeue reads the counter BEFORE it takes the lock.                     *)
(*                                                                         *)
(* A thread's critical section is cut where another thread could see it    *)
(* half done if lockirq were not held: between the scan for a duplicate    *)
(* and the store, and between the store and the update of the counter.     *)
(***************************************************************************)
EXTENDS Integers, Sequences

CONSTANTS QueueSize,        \* INTERRUPT_QUEUE_SIZE
          Devices,          \* the device threads that call bs3_bus_setinterrupt
          Cpu,              \* the thread of the hypervisor loop, the one consumer
          NoThread,         \* lockirq is free
          InterruptNumber   \* the number each device raises

ASSUME QueueSizeAssumption == QueueSize \in Nat \ {0}

ASSUME ThreadsAssumption ==
  /\ Cpu \notin Devices
  /\ NoThread \notin Devices \cup {Cpu}

(* The devices raise 3 (timer), 4 (input) and 8 (clock); 0 is never raised.*)
ASSUME InterruptNumberAssumption == InterruptNumber \in [Devices -> 1..254]

VARIABLES fifo,     \* bs3_bus_interrupt_FIFO
          front,    \* bs3_bus_interrupt_FIFO_front
          rear,     \* bs3_bus_interrupt_FIFO_rear
          count,    \* bs3_bus_interrupt_FIFO_count
          lockirq,  \* the holder of the mutex
          pc,       \* where each device thread is in enqueue
          deq,      \* where the CPU thread is in dequeue
          item      \* what dequeue returned last (-1: nothing)

fifoVars == <<fifo, front, rear, count, lockirq, pc, deq, item>>

Slots == 0 .. QueueSize - 1
Interrupts == {InterruptNumber[d] : d \in Devices}
CLEAN == -1    \* dequeue writes -1 into the slot it empties
UNUSED == 0    \* the static array starts with zeros, not with CLEAN

FifoInit ==
  /\ fifo = [i \in Slots |-> UNUSED]
  /\ front = 0
  /\ rear = -1
  /\ count = 0
  /\ lockirq = NoThread
  /\ pc = [d \in Devices |-> "run"]
  /\ deq = "idle"
  /\ item = -1

-----------------------------------------------------------------------------
(* bs3_bus_interrupt_enqueue, called through bs3_bus_setinterrupt.         *)

SetInterrupt(d) ==
  /\ pc[d] = "run"
  /\ pc' = [pc EXCEPT ![d] = "lock"]
  /\ UNCHANGED <<fifo, front, rear, count, lockirq, deq, item>>

EnqueueLock(d) ==
  /\ pc[d] = "lock"
  /\ lockirq = NoThread
  /\ lockirq' = d
  /\ pc' = [pc EXCEPT ![d] = "scan"]
  /\ UNCHANGED <<fifo, front, rear, count, deq, item>>

AlreadyQueued(n) == \E i \in Slots : fifo[i] = n

FullTooLate == count > QueueSize   \* seeded fault: off by one
Full == count = QueueSize

(* A duplicate, or a full queue: unlock and return.                        *)
EnqueueGiveUp(d) ==
  /\ pc[d] = "scan"
  /\ AlreadyQueued(InterruptNumber[d]) \/ Full
  /\ lockirq' = NoThread
  /\ pc' = [pc EXCEPT ![d] = "run"]
  /\ UNCHANGED <<fifo, front, rear, count, deq, item>>

EnqueueStore(d) ==
  /\ pc[d] = "scan"
  /\ ~AlreadyQueued(InterruptNumber[d])
  /\ ~Full
  /\ rear' = (rear + 1) % QueueSize
  /\ fifo' = [fifo EXCEPT ![rear'] = InterruptNumber[d]]
  /\ pc' = [pc EXCEPT ![d] = "count"]
  /\ UNCHANGED <<front, count, lockirq, deq, item>>

EnqueueCount(d) ==
  /\ pc[d] = "count"
  /\ count' = count + 1
  /\ lockirq' = NoThread
  /\ pc' = [pc EXCEPT ![d] = "run"]
  /\ UNCHANGED <<fifo, front, rear, deq, item>>

DeviceStep(d) ==
  \/ EnqueueLock(d) \/ EnqueueGiveUp(d) \/ EnqueueStore(d) \/ EnqueueCount(d)

-----------------------------------------------------------------------------
(* bs3_bus_interrupt_dequeue.  The first test is made without the lock.    *)

DequeueEmpty ==
  /\ deq = "idle"
  /\ count = 0
  /\ item' = -1
  /\ UNCHANGED <<fifo, front, rear, count, lockirq, pc, deq>>

DequeueSome ==
  /\ deq = "idle"
  /\ count # 0
  /\ deq' = "lock"
  /\ UNCHANGED <<fifo, front, rear, count, lockirq, pc, item>>

DequeueLock ==
  /\ deq = "lock"
  /\ lockirq = NoThread
  /\ lockirq' = Cpu
  /\ deq' = "take"
  /\ UNCHANGED <<fifo, front, rear, count, pc, item>>

DequeueNotCleaned ==   \* seeded fault: the emptied slot keeps its number
  /\ deq = "take"
  /\ item' = fifo[front]
  /\ front' = (front + 1) % QueueSize
  /\ deq' = "count"
  /\ UNCHANGED <<fifo, rear, count, lockirq, pc>>

DequeueTake ==
  /\ deq = "take"
  /\ item' = fifo[front]
  /\ fifo' = [fifo EXCEPT ![front] = CLEAN]
  /\ front' = (front + 1) % QueueSize
  /\ deq' = "count"
  /\ UNCHANGED <<rear, count, lockirq, pc>>

DequeueCount ==
  /\ deq = "count"
  /\ count' = count - 1
  /\ lockirq' = NoThread
  /\ deq' = "idle"
  /\ UNCHANGED <<fifo, front, rear, pc, item>>

DequeueStep == DequeueLock \/ DequeueTake \/ DequeueCount

-----------------------------------------------------------------------------
FifoNext ==
  \/ \E d \in Devices : SetInterrupt(d) \/ DeviceStep(d)
  \/ DequeueEmpty \/ DequeueSome \/ DequeueStep

FifoSpec == FifoInit /\ [][FifoNext]_fifoVars

-----------------------------------------------------------------------------
(* Where the critical sections stand, and how many interrupts the ring     *)
(* holds between the two halves of a section.                              *)

Storing == \E d \in Devices : pc[d] = "count"
Taking == deq = "count"
Depth == count + (IF Storing THEN 1 ELSE 0) - (IF Taking THEN 1 ELSE 0)

Pending == {i \in Slots : fifo[i] \in Interrupts}

(* The slots from front on that hold the Depth pending interrupts.         *)
InRing(i) ==
  IF front + Depth <= QueueSize
  THEN front <= i /\ i < front + Depth
  ELSE front <= i \/ i < front + Depth - QueueSize

TypeOK ==
  /\ fifo \in [Slots -> Interrupts \cup {CLEAN, UNUSED}]
  /\ front \in Slots
  /\ rear \in -1 .. QueueSize - 1
  /\ count \in 0 .. QueueSize
  /\ lockirq \in Devices \cup {Cpu, NoThread}
  /\ pc \in [Devices -> {"run", "lock", "scan", "count"}]
  /\ deq \in {"idle", "lock", "take", "count"}
  /\ item \in Interrupts \cup {-1}

(* No interrupt number is pending in two slots: bs3_bus_interrupt_enqueue  *)
(* looks for the number in every slot before it stores it, and no other    *)
(* thread can store between its look and its store.                        *)
NoDuplicate ==
  \A i, j \in Slots : fifo[i] \in Interrupts /\ fifo[i] = fifo[j] => i = j

(* The pending interrupts are the Depth slots from front on, no slot       *)
(* outside them holds a raised number: what the dequeue takes is never a   *)
(* cleaned slot, and the store never overwrites a pending interrupt.       *)
RingIsContiguous == \A i \in Slots : fifo[i] \in Interrupts <=> InRing(i)

(* The unlocked test of dequeue is sound: between the test that found the  *)
(* counter above zero and the removal under the lock the ring never        *)
(* becomes empty, so dequeue never hands out a cleaned slot.               *)
TakeIsPossible == deq \in {"lock", "take"} => fifo[front] \in Interrupts

(* The ring queue implements the abstract queue without duplicates.        *)
PendingQueue == [k \in 1 .. Depth |-> fifo[(front + k - 1) % QueueSize]]
Abstract == INSTANCE BS3IrqQueue WITH queue <- PendingQueue, Capacity <- QueueSize
ImplementsQueue == Abstract!Spec
=============================================================================
