--------------------------- MODULE BS3CpuIrqProofs ---------------------------
(***************************************************************************)
(* Proofs about the interrupt FIFO and about the CPU's interrupt logic,    *)
(* for any devices and any queue size and without the bound on the         *)
(* program's stack being used.  Of the FIFO, Inv says who is inside the    *)
(* critical section, and which slots form the ring at every point of a     *)
(* section.  Of the CPU, CpuInv says what the tests made at the start of   *)
(* bs3_cpu_exec still guarantee at every later point of the hypervisor     *)
(* loop, whose steps are steps of the FIFO (UsesFifo).                     *)
(***************************************************************************)
EXTENDS BS3CpuIrq, SequenceTheorems, TLAPS

(* Exactly the holder of lockirq is between lock and unlock.               *)
LockInv ==
  /\ \A d \in Devices : pc[d] \in {"scan", "count"} <=> lockirq = d
  /\ deq \in {"take", "count"} <=> lockirq = Cpu

(* x + y on the ring, for a slot x and 0 <= y <= QueueSize.                *)
Wrap(x) == IF x < QueueSize THEN x ELSE x - QueueSize

(* rear is the slot before the first free one.                             *)
RearInv ==
  /\ Depth \in 0 .. QueueSize
  /\ Wrap(rear + 1) = Wrap(front + Depth)
  /\ deq \in {"lock", "take"} => count > 0

(* The slot taken held an interrupt.                                       *)
HasItem == deq = "count" => item \in Interrupts

Inv == TypeOK /\ LockInv /\ RearInv /\ RingIsContiguous /\ NoDuplicate /\ HasItem

-----------------------------------------------------------------------------
(* Arithmetic of the ring.                                                 *)
LEMMA ModIsWrap ==
  ASSUME NEW x \in 0 .. 2 * QueueSize - 1
  PROVE  x % QueueSize = Wrap(x)
  BY QueueSizeAssumption, SMT DEF Wrap

LEMMA NextIsSlot ==
  ASSUME NEW x \in -1 .. QueueSize - 1
  PROVE  (x + 1) % QueueSize = Wrap(x + 1) /\ (x + 1) % QueueSize \in Slots
  <1>1. x + 1 \in 0 .. 2 * QueueSize - 1
    BY QueueSizeAssumption
  <1> QED BY <1>1, ModIsWrap, QueueSizeAssumption DEF Wrap, Slots
-----------------------------------------------------------------------------
LEMMA InterruptsArePositive ==
  /\ Interrupts \subseteq 1 .. 254
  /\ CLEAN \notin Interrupts /\ UNUSED \notin Interrupts
  /\ \A d \in Devices : InterruptNumber[d] \in Interrupts
  BY InterruptNumberAssumption DEF Interrupts, CLEAN, UNUSED

(* The FIFO starts empty, and the zeros of the static array are not        *)
(* pending interrupts.                                                     *)
LEMMA InitInv == FifoInit => Inv
  <1> SUFFICES ASSUME FifoInit PROVE Inv
    OBVIOUS
  <1> USE QueueSizeAssumption, ThreadsAssumption, InterruptsArePositive DEF FifoInit
  <1>1. TypeOK
    BY DEF TypeOK, Slots
  <1>2. LockInv
    BY DEF LockInv
  <1>3. Depth = 0
    BY DEF Depth, Storing, Taking
  <1>4. RearInv
    BY <1>3 DEF RearInv, Wrap
  <1>5. RingIsContiguous /\ NoDuplicate
    BY <1>3 DEF RingIsContiguous, NoDuplicate, InRing, Slots
  <1> QED BY <1>1, <1>2, <1>4, <1>5 DEF Inv, HasItem

-----------------------------------------------------------------------------
(* The lock keeps the sections apart: when one thread is inside, no other  *)
(* is between its store (or its take) and its update of the counter.       *)
LEMMA OneInside ==
  ASSUME Inv
  PROVE  /\ \A d \in Devices : pc[d] = "scan" => ~Storing /\ ~Taking
         /\ \A d \in Devices : pc[d] = "count" =>
              /\ ~Taking
              /\ \A e \in Devices : pc[e] = "count" => e = d
         /\ deq = "take" => ~Storing
         /\ Taking => ~Storing
  BY ThreadsAssumption DEF Inv, LockInv, Storing, Taking

(* Steps that move no interrupt and leave the counter alone.               *)
LEMMA QuietStep ==
  ASSUME Inv,
         UNCHANGED <<fifo, front, rear>>,
         Depth' = Depth,
         deq' \in {"lock", "take"} => count' > 0
  PROVE  RearInv' /\ RingIsContiguous' /\ NoDuplicate'
  BY DEF Inv, RearInv, RingIsContiguous, NoDuplicate, InRing, Wrap

LEMMA SetInterruptInv ==
  ASSUME Inv, NEW d \in Devices, SetInterrupt(d)
  PROVE  Inv'
  <1> USE DEF SetInterrupt
  <1>1. TypeOK' BY DEF Inv, TypeOK
  <1>2. LockInv' BY DEF Inv, TypeOK, LockInv
  <1>3. Depth' = Depth BY DEF Inv, TypeOK, Depth, Storing, Taking
  <1>4. RearInv' /\ RingIsContiguous' /\ NoDuplicate'
    BY <1>3, QuietStep DEF Inv, RearInv
  <1> QED BY <1>1, <1>2, <1>4 DEF Inv, HasItem

LEMMA EnqueueLockInv ==
  ASSUME Inv, NEW d \in Devices, EnqueueLock(d)
  PROVE  Inv'
  <1> USE DEF EnqueueLock
  <1>1. TypeOK' BY DEF Inv, TypeOK
  <1>2. LockInv' BY ThreadsAssumption DEF Inv, TypeOK, LockInv
  <1>3. Depth' = Depth BY DEF Inv, TypeOK, Depth, Storing, Taking
  <1>4. RearInv' /\ RingIsContiguous' /\ NoDuplicate'
    BY <1>3, QuietStep DEF Inv, RearInv
  <1> QED BY <1>1, <1>2, <1>4 DEF Inv, HasItem

LEMMA EnqueueGiveUpInv ==
  ASSUME Inv, NEW d \in Devices, EnqueueGiveUp(d)
  PROVE  Inv'
  <1> USE DEF EnqueueGiveUp
  <1>1. TypeOK' BY DEF Inv, TypeOK
  <1>2. LockInv' BY ThreadsAssumption DEF Inv, TypeOK, LockInv
  <1>3. Depth' = Depth BY OneInside DEF Inv, TypeOK, Depth, Storing, Taking
  <1>4. RearInv' /\ RingIsContiguous' /\ NoDuplicate'
    BY <1>3, QuietStep DEF Inv, RearInv
  <1> QED BY <1>1, <1>2, <1>4 DEF Inv, HasItem

(* The store goes into the first free slot, and the number was in no slot. *)
LEMMA EnqueueStoreInv ==
  ASSUME Inv, NEW d \in Devices, EnqueueStore(d)
  PROVE  Inv'
  <1> DEFINE n == InterruptNumber[d]
  <1> USE DEF EnqueueStore
  <1>0. /\ n \in Interrupts
        /\ rear' = Wrap(front + Depth) /\ rear' \in Slots
        /\ fifo' = [fifo EXCEPT ![rear'] = n]
        /\ fifo \in [Slots -> Interrupts \cup {CLEAN, UNUSED}]
    BY NextIsSlot, InterruptsArePositive DEF Inv, TypeOK, RearInv
  <1>1. TypeOK' BY <1>0, QueueSizeAssumption DEF Inv, TypeOK, Slots
  <1>2. LockInv' BY ThreadsAssumption DEF Inv, TypeOK, LockInv
  <1>3. /\ ~Storing /\ ~Taking /\ Depth = count
        /\ Storing' /\ ~Taking' /\ Depth' = Depth + 1
    BY OneInside DEF Inv, TypeOK, Depth, Storing, Taking
  <1>4. Depth < QueueSize /\ Depth \in Nat /\ front \in Slots
    BY <1>3, QueueSizeAssumption DEF Inv, TypeOK, Full
  <1>5. RearInv'
    <2>1. Depth' \in 0 .. QueueSize
      BY <1>3, <1>4, QueueSizeAssumption
    <2>2. Wrap(rear' + 1) = Wrap(front' + Depth')
      BY <1>0, <1>3, <1>4, QueueSizeAssumption DEF Wrap, Slots
    <2> QED BY <2>1, <2>2 DEF Inv, RearInv, LockInv, Wrap
  <1>6. \A i \in Slots : InRing(i)' <=> InRing(i) \/ i = rear'
    BY <1>0, <1>3, <1>4, QueueSizeAssumption DEF InRing, Wrap, Slots
  <1>7. RingIsContiguous'
    BY <1>0, <1>6 DEF Inv, RingIsContiguous
  <1>8. NoDuplicate'
    <2>1. \A i \in Slots : fifo[i] # n
      BY DEF AlreadyQueued
    <2> QED BY <1>0, <2>1 DEF Inv, NoDuplicate
  <1> QED BY <1>1, <1>2, <1>5, <1>7, <1>8 DEF Inv, HasItem

LEMMA EnqueueCountInv ==
  ASSUME Inv, NEW d \in Devices, EnqueueCount(d)
  PROVE  Inv'
  <1> USE DEF EnqueueCount
  <1>1. Storing /\ ~Taking /\ ~Storing' /\ ~Taking'
    BY OneInside DEF Inv, TypeOK, Storing, Taking
  <1>2. Depth' = Depth /\ Depth = count + 1
    BY <1>1 DEF Inv, TypeOK, Depth
  <1>3. TypeOK' BY <1>2, QueueSizeAssumption DEF Inv, TypeOK, RearInv
  <1>4. LockInv' BY ThreadsAssumption DEF Inv, TypeOK, LockInv
  <1>5. RearInv' /\ RingIsContiguous' /\ NoDuplicate'
    BY <1>2, QuietStep DEF Inv, RearInv, TypeOK
  <1> QED BY <1>3, <1>4, <1>5 DEF Inv, HasItem

LEMMA DequeueQuietInv ==
  ASSUME Inv, DequeueEmpty \/ DequeueSome \/ DequeueLock
  PROVE  Inv'
  <1> USE DEF DequeueEmpty, DequeueSome, DequeueLock
  <1>1. TypeOK' BY DEF Inv, TypeOK
  <1>2. LockInv' BY ThreadsAssumption DEF Inv, TypeOK, LockInv
  <1>3. Depth' = Depth BY DEF Inv, TypeOK, Depth, Storing, Taking
  <1>4. RearInv' /\ RingIsContiguous' /\ NoDuplicate'
    BY <1>3, QuietStep DEF Inv, TypeOK, RearInv
  <1> QED BY <1>1, <1>2, <1>4 DEF Inv, HasItem

(* The unlocked test was made with count > 0 and only this thread lowers   *)
(* count: the slot at front holds an interrupt.                            *)
LEMMA FrontIsPending ==
  ASSUME Inv, deq \in {"lock", "take"}
  PROVE  Depth > 0 /\ fifo[front] \in Interrupts
  <1>1. Depth > 0 /\ Depth \in Int
    BY DEF Inv, TypeOK, RearInv, Depth, Taking
  <1>2. front \in Slots /\ InRing(front)
    BY <1>1, QueueSizeAssumption DEF Inv, TypeOK, InRing, Slots
  <1> QED BY <1>1, <1>2 DEF Inv, RingIsContiguous

LEMMA DequeueTakeInv ==
  ASSUME Inv, DequeueTake
  PROVE  Inv'
  <1> USE DEF DequeueTake
  <1>0. /\ Depth > 0 /\ fifo[front] \in Interrupts
        /\ front \in Slots /\ front' = Wrap(front + 1) /\ front' \in Slots
        /\ fifo \in [Slots -> Interrupts \cup {CLEAN, UNUSED}]
    <2>1. front \in -1 .. QueueSize - 1
      BY DEF Inv, TypeOK, Slots
    <2>2. front' = Wrap(front + 1) /\ front' \in Slots
      BY <2>1, NextIsSlot
    <2>3. Depth > 0 /\ fifo[front] \in Interrupts
      BY FrontIsPending
    <2> QED BY <2>2, <2>3 DEF Inv, TypeOK
  <1>1. TypeOK' BY <1>0 DEF Inv, TypeOK
  <1>2. LockInv' BY ThreadsAssumption DEF Inv, TypeOK, LockInv
  <1>3. ~Storing /\ ~Taking /\ ~Storing' /\ Taking' /\ Depth' = Depth - 1
    BY OneInside DEF Inv, TypeOK, Depth, Storing, Taking
  <1>4. Depth \in 0 .. QueueSize BY DEF Inv, RearInv
  <1>5. RearInv'
    <2>1. Wrap(front' + Depth') = Wrap(front + Depth)
      BY <1>0, <1>3, <1>4, QueueSizeAssumption DEF Wrap, Slots
    <2> QED BY <1>0, <1>3, <1>4, <2>1, QueueSizeAssumption DEF Inv, RearInv, Wrap
  <1>6. \A i \in Slots : InRing(i)' <=> InRing(i) /\ i # front
    BY <1>0, <1>3, <1>4, QueueSizeAssumption DEF InRing, Wrap, Slots
  <1>7. RingIsContiguous'
    BY <1>0, <1>6, InterruptsArePositive DEF Inv, RingIsContiguous
  <1>8. NoDuplicate'
    BY <1>0, InterruptsArePositive DEF Inv, NoDuplicate
  <1> QED BY <1>0, <1>1, <1>2, <1>5, <1>7, <1>8 DEF Inv, HasItem

LEMMA DequeueCountInv ==
  ASSUME Inv, DequeueCount
  PROVE  Inv'
  <1> USE DEF DequeueCount
  <1>1. ~Storing /\ Taking /\ ~Storing' /\ ~Taking'
    BY OneInside DEF Inv, TypeOK, Storing, Taking
  <1>2. Depth' = Depth /\ Depth = count - 1
    BY <1>1 DEF Inv, TypeOK, Depth
  <1>3. TypeOK' BY <1>2, QueueSizeAssumption DEF Inv, TypeOK, RearInv
  <1>4. LockInv' BY ThreadsAssumption DEF Inv, TypeOK, LockInv
  <1>5. RearInv' /\ RingIsContiguous' /\ NoDuplicate'
    BY <1>2, QuietStep DEF Inv, RearInv
  <1> QED BY <1>3, <1>4, <1>5 DEF Inv, HasItem

LEMMA NextInv == Inv /\ [FifoNext]_fifoVars => Inv'
  <1> SUFFICES ASSUME Inv, [FifoNext]_fifoVars PROVE Inv'
    OBVIOUS
  <1>1. ASSUME NEW d \in Devices, SetInterrupt(d) \/ DeviceStep(d) PROVE Inv'
    BY <1>1, SetInterruptInv, EnqueueLockInv, EnqueueGiveUpInv, EnqueueStoreInv,
       EnqueueCountInv DEF DeviceStep
  <1>2. CASE DequeueEmpty \/ DequeueSome \/ DequeueStep
    BY <1>2, DequeueQuietInv, DequeueTakeInv, DequeueCountInv DEF DequeueStep
  <1>3. CASE UNCHANGED fifoVars
    BY <1>3 DEF fifoVars, Inv, TypeOK, LockInv, RearInv, RingIsContiguous, NoDuplicate, HasItem,
                Depth, Storing, Taking, InRing, Wrap
  <1> QED BY <1>1, <1>2, <1>3 DEF FifoNext

THEOREM Invariance == FifoSpec => []Inv
  BY InitInv, NextInv, PTL DEF FifoSpec

(* The variables keep their types: the counter never leaves 0..QueueSize,  *)
(* although it is tested without the lock.                                 *)
THEOREM TypeCorrect == FifoSpec => []TypeOK
  <1>1. Inv => TypeOK BY DEF Inv
  <1> QED BY <1>1, Invariance, PTL

(* No interrupt number is ever pending twice.                              *)
THEOREM NeverDuplicated == FifoSpec => []NoDuplicate
  <1>1. Inv => NoDuplicate BY DEF Inv
  <1> QED BY <1>1, Invariance, PTL

(* The pending interrupts are the ring from front on.                      *)
THEOREM RingHoldsPending == FifoSpec => []RingIsContiguous
  <1>1. Inv => RingIsContiguous BY DEF Inv
  <1> QED BY <1>1, Invariance, PTL

(* The unlocked test of the counter in dequeue is sound.                   *)
THEOREM UnlockedTestIsSound == FifoSpec => []TakeIsPossible
  <1>1. Inv => TakeIsPossible BY FrontIsPending DEF TakeIsPossible
  <1> QED BY <1>1, Invariance, PTL

-----------------------------------------------------------------------------
(* Refinement: the ring read from front is the abstract queue.  The store  *)
(* of an enqueue is its Enqueue, the removal of a dequeue its Dequeue,     *)
(* every other step of a thread stutters.                                  *)

QueueShape ==
  /\ PendingQueue \in Seq(Interrupts)
  /\ Len(PendingQueue) = Depth
  /\ \A k \in 1 .. Depth : /\ Wrap(front + k - 1) \in Slots
                           /\ PendingQueue[k] = fifo[Wrap(front + k - 1)]

LEMMA PendingQueueShape == Inv => QueueShape
  <1> SUFFICES ASSUME Inv PROVE QueueShape
    OBVIOUS
  <1>1. front \in Slots /\ Depth \in 0 .. QueueSize /\ front \in Int /\ Depth \in Nat
    BY QueueSizeAssumption DEF Inv, TypeOK, RearInv, Slots
  <1>2. ASSUME NEW k \in 1 .. Depth
        PROVE  /\ Wrap(front + k - 1) \in Slots
               /\ PendingQueue[k] = fifo[Wrap(front + k - 1)]
               /\ PendingQueue[k] \in Interrupts
    <2>1. front + k - 1 \in 0 .. 2 * QueueSize - 1
      BY <1>1, QueueSizeAssumption DEF Slots
    <2>2. (front + k - 1) % QueueSize = Wrap(front + k - 1)
      BY <2>1, ModIsWrap
    <2>3. Wrap(front + k - 1) \in Slots /\ InRing(Wrap(front + k - 1))
      BY <1>1, QueueSizeAssumption DEF Slots, Wrap, InRing
    <2>4. PendingQueue[k] = fifo[Wrap(front + k - 1)]
      BY <2>2 DEF PendingQueue
    <2> QED BY <2>3, <2>4 DEF Inv, RingIsContiguous
  <1>3. PendingQueue = [k \in 1 .. Depth |-> PendingQueue[k]]
    BY DEF PendingQueue
  <1>4. PendingQueue \in [1 .. Depth -> Interrupts]
    BY <1>2, <1>3
  <1> QED BY <1>1, <1>2, <1>4 DEF QueueShape

LEMMA QuietStutters ==
  ASSUME Depth' = Depth, UNCHANGED <<fifo, front>>
  PROVE  UNCHANGED PendingQueue
  BY DEF PendingQueue

LEMMA StoreEnqueues ==
  ASSUME Inv, Inv', NEW d \in Devices, EnqueueStore(d)
  PROVE  Abstract!Enqueue(InterruptNumber[d])
  <1> DEFINE n == InterruptNumber[d]
  <1> USE DEF EnqueueStore
  <1>1. /\ rear' = Wrap(front + Depth) /\ rear' \in Slots /\ n \in Interrupts
        /\ fifo' = [fifo EXCEPT ![rear'] = n] /\ front' = front
        /\ fifo \in [Slots -> Interrupts \cup {CLEAN, UNUSED}]
    BY NextIsSlot, InterruptsArePositive DEF Inv, TypeOK, RearInv
  <1>2. Depth' = Depth + 1 /\ Depth = count
    BY OneInside DEF Inv, TypeOK, Depth, Storing, Taking
  <1>3. Depth < QueueSize /\ Depth \in Nat /\ front \in 0 .. QueueSize - 1
    BY <1>2, QueueSizeAssumption DEF Inv, TypeOK, Full, Slots
  <1>4. n \notin Abstract!Queued(PendingQueue)
    <2>1. \A k \in DOMAIN PendingQueue : PendingQueue[k] # n
      <3>1. DOMAIN PendingQueue = 1 .. Depth BY DEF PendingQueue
      <3> QED BY <3>1, PendingQueueShape DEF AlreadyQueued, QueueShape
    <2> QED BY <2>1 DEF Abstract!Queued
  <1>5. PendingQueue' = Append(PendingQueue, n)
    <2>1. /\ PendingQueue' \in Seq(Interrupts) /\ Len(PendingQueue') = Depth + 1
          /\ \A k \in 1 .. Depth + 1 : PendingQueue'[k] = fifo'[Wrap(front + k - 1)]
      <3>1. QueueShape' BY PendingQueueShape, PTL
      <3> QED BY <3>1, <1>1, <1>2 DEF QueueShape, Interrupts, Wrap
    <2>2. \A k \in 1 .. Depth : /\ Wrap(front + k - 1) # rear'
                                /\ Wrap(front + k - 1) \in Slots
                                /\ PendingQueue[k] = fifo[Wrap(front + k - 1)]
      <3>1. \A k \in 1 .. Depth : Wrap(front + k - 1) # rear'
        BY <1>1, <1>3, QueueSizeAssumption DEF Wrap
      <3> QED BY <3>1, PendingQueueShape DEF QueueShape
    <2>3. \A k \in 1 .. Depth : PendingQueue'[k] = PendingQueue[k]
      BY <1>1, <1>3, <2>1, <2>2
    <2>4. PendingQueue'[Depth + 1] = n
      <3>1. Wrap(front + (Depth + 1) - 1) = rear' BY <1>1, <1>3
      <3>2. Depth + 1 \in 1 .. Depth + 1 BY <1>3
      <3>3. PendingQueue'[Depth + 1] = fifo'[rear'] BY <2>1, <3>1, <3>2
      <3>4. fifo'[rear'] = n BY <1>1
      <3> QED BY <3>3, <3>4
    <2>5. PendingQueue \in Seq(Interrupts) /\ Len(PendingQueue) = Depth
      BY PendingQueueShape DEF QueueShape
    <2> QED BY <1>1, <1>3, <2>1, <2>3, <2>4, <2>5
  <1>6. Len(PendingQueue) < QueueSize
    BY <1>3, PendingQueueShape DEF QueueShape
  <1> QED BY <1>4, <1>5, <1>6 DEF Abstract!Enqueue

LEMMA TakeDequeues ==
  ASSUME Inv, Inv', DequeueTake
  PROVE  Abstract!Dequeue
  <1> USE DEF DequeueTake
  <1>1. /\ Depth > 0 /\ Depth \in 0 .. QueueSize /\ front \in 0 .. QueueSize - 1
        /\ front' = Wrap(front + 1)
    <2>1. front \in -1 .. QueueSize - 1
      BY DEF Inv, TypeOK, Slots
    <2> QED BY <2>1, NextIsSlot, FrontIsPending DEF Inv, TypeOK, RearInv, Slots
  <1>2. Depth' = Depth - 1
    BY OneInside DEF Inv, TypeOK, Depth, Storing, Taking
  <1>3. PendingQueue \in Seq(Interrupts) /\ Len(PendingQueue) = Depth
    BY PendingQueueShape DEF QueueShape
  <1>4. /\ PendingQueue' \in Seq(Interrupts) /\ Len(PendingQueue') = Depth - 1
        /\ \A k \in 1 .. Depth - 1 : PendingQueue'[k] = fifo'[Wrap(front' + k - 1)]
    <2>1. QueueShape' BY PendingQueueShape, PTL
    <2> QED BY <2>1, <1>2 DEF QueueShape, Interrupts, Wrap
  <1>5. ASSUME NEW k \in 1 .. Depth - 1
        PROVE  PendingQueue'[k] = PendingQueue[k + 1]
    <2>1. Wrap(front' + k - 1) = Wrap(front + (k + 1) - 1) /\ Wrap(front + (k + 1) - 1) # front
      BY <1>1, QueueSizeAssumption DEF Wrap
    <2>2. k + 1 \in 1 .. Depth
      BY <1>1
    <2>3. PendingQueue[k + 1] = fifo[Wrap(front + (k + 1) - 1)] /\ Wrap(front + (k + 1) - 1) \in Slots
      BY <2>2, PendingQueueShape DEF QueueShape
    <2>4. fifo'[Wrap(front + (k + 1) - 1)] = fifo[Wrap(front + (k + 1) - 1)]
      BY <2>1, <2>3 DEF Inv, TypeOK
    <2> QED BY <1>4, <2>1, <2>3, <2>4
  <1>6. PendingQueue' = Tail(PendingQueue)
    <2>1. PendingQueue # << >>
      BY <1>1, <1>3
    <2>2. /\ Tail(PendingQueue) \in Seq(Interrupts) /\ Len(Tail(PendingQueue)) = Depth - 1
          /\ \A k \in 1 .. Depth - 1 : Tail(PendingQueue)[k] = PendingQueue[k + 1]
      BY <1>3, <2>1, HeadTailProperties
    <2>3. /\ Len(PendingQueue') = Len(Tail(PendingQueue))
          /\ \A k \in 1 .. Len(PendingQueue') : PendingQueue'[k] = Tail(PendingQueue)[k]
      BY <1>4, <1>5, <2>2
    <2> QED BY <1>4, <2>2, <2>3, SeqEqual
  <1> QED BY <1>1, <1>3, <1>6 DEF Abstract!Dequeue

LEMMA StepImplements ==
  Inv /\ Inv' /\ [FifoNext]_fifoVars => [Abstract!Next]_PendingQueue
  <1> SUFFICES ASSUME Inv, Inv', [FifoNext]_fifoVars
               PROVE  Abstract!Next \/ UNCHANGED PendingQueue
    BY DEF Abstract!Next
  <1>1. ASSUME NEW d \in Devices, EnqueueStore(d) PROVE Abstract!Next
    BY <1>1, StoreEnqueues, InterruptsArePositive DEF Abstract!Next
  <1>2. CASE DequeueTake
    BY <1>2, TakeDequeues DEF Abstract!Next
  <1>3. ASSUME NEW d \in Devices,
               SetInterrupt(d) \/ EnqueueLock(d) \/ EnqueueGiveUp(d) \/ EnqueueCount(d)
        PROVE  UNCHANGED PendingQueue
    <2>1. Depth' = Depth
      <3>1. CASE SetInterrupt(d) \/ EnqueueLock(d) \/ EnqueueGiveUp(d)
        BY <3>1, OneInside DEF SetInterrupt, EnqueueLock, EnqueueGiveUp, Inv, TypeOK,
           Depth, Storing, Taking
      <3>2. CASE EnqueueCount(d)
        <4>1. Storing /\ ~Taking /\ ~Storing' /\ ~Taking'
          BY <3>2, OneInside DEF EnqueueCount, Inv, TypeOK, Storing, Taking
        <4> QED BY <3>2, <4>1 DEF EnqueueCount, Inv, TypeOK, Depth
      <3> QED BY <1>3, <3>1, <3>2
    <2> QED BY <1>3, <2>1, QuietStutters
        DEF SetInterrupt, EnqueueLock, EnqueueGiveUp, EnqueueCount
  <1>4. CASE DequeueEmpty \/ DequeueSome \/ DequeueLock \/ DequeueCount
    <2>1. Depth' = Depth
      <3>1. CASE DequeueEmpty \/ DequeueSome \/ DequeueLock
        BY <3>1 DEF DequeueEmpty, DequeueSome, DequeueLock, Inv, TypeOK, Depth, Storing, Taking
      <3>2. CASE DequeueCount
        <4>1. ~Storing /\ Taking /\ ~Storing' /\ ~Taking'
          BY <3>2, OneInside DEF DequeueCount, Inv, TypeOK, Storing, Taking
        <4> QED BY <3>2, <4>1 DEF DequeueCount, Inv, TypeOK, Depth
      <3> QED BY <1>4, <3>1, <3>2
    <2> QED BY <1>4, <2>1, QuietStutters DEF DequeueEmpty, DequeueSome, DequeueLock, DequeueCount
  <1>5. CASE UNCHANGED fifoVars
    BY <1>5, QuietStutters DEF fifoVars, Depth, Storing, Taking
  <1> QED BY <1>1, <1>2, <1>3, <1>4, <1>5 DEF FifoNext, DeviceStep, DequeueStep

(* The ring with its lock and its unlocked test is a bounded first-in      *)
(* first-out queue without duplicates.                                     *)
THEOREM Implements == FifoSpec => ImplementsQueue
  <1>1. FifoInit => Abstract!Init
    <2> SUFFICES ASSUME FifoInit PROVE PendingQueue = << >>
      BY DEF Abstract!Init
    <2>1. Depth = 0 BY DEF FifoInit, Depth, Storing, Taking
    <2> QED BY <2>1 DEF PendingQueue
  <1> QED BY <1>1, StepImplements, Invariance, PTL
      DEF FifoSpec, ImplementsQueue, Abstract!Spec
-----------------------------------------------------------------------------
(* The CPU and the hypervisor loop.                                        *)

Frame == [by : 0 .. SOFTWARE, I : {0, 1}]

(* Where the loop stands restricts the status, the flag and the slot.      *)
LoopInv ==
  /\ step = "while" /\ status = "HALT" => end
  /\ step \in {"exec", "fetch"} => status # "HALT"
  /\ step \in {"instr", "drain"} => status \notin {"HALT", "WAIT", "RESET"}
  /\ deq # "idle" => step \in {"poll", "drain"}
  /\ step = "fetch" => status # "RESET"

CpuInv ==
  /\ status \in Status
  /\ I \in {0, 1}
  /\ frames \in Seq(Frame)
  /\ LoopInv
  /\ PendingIsDivZero
  /\ PolledIsDeliverable
  /\ DeviceHandlerReturnsEnabled

-----------------------------------------------------------------------------
(* The composition only adds to the FIFO: every step of the CPU thread is  *)
(* a step of the FIFO or leaves it alone.                                  *)
LEMMA StepIsFifoStep == [Next]_vars => [FifoNext]_fifoVars
  <1> SUFFICES ASSUME [Next]_vars PROVE FifoNext \/ UNCHANGED fifoVars
    OBVIOUS
  <1>1. CASE CpuStep
    BY <1>1 DEF CpuStep, LoopTest, ExecReset, ExecPending, ExecMasked, ExecPoll, Dequeue,
       DequeueRest, TakePolled, DrainNext, DrainDone, Fetch, Program, HyperSwitch, HyperStop,
       InstrOther, InstrSTI, InstrCLI, InstrINT, InstrIRET, InstrStatus, InstrDivZero,
       InstrBad, InstrDrain, Instr, FifoNext, DequeueStep
  <1>2. CASE Signal \/ UNCHANGED vars
    BY <1>2 DEF Signal, vars
  <1>3. CASE \E d \in Devices : DeviceThread(d)
    BY <1>3 DEF DeviceThread, FifoNext
  <1> QED BY <1>1, <1>2, <1>3 DEF Next

(* The CPU and its program use the FIFO as its specification allows, so    *)
(* what is proved of the FIFO holds in the hypervisor.                     *)
THEOREM UsesFifo == Spec => FifoSpec
  <1>1. Init => FifoInit BY DEF Init
  <1> QED BY <1>1, StepIsFifoStep, PTL DEF Spec, FifoSpec

THEOREM FifoInvariance == Spec => []Inv
  BY UsesFifo, Invariance, PTL

-----------------------------------------------------------------------------
LEMMA CpuInitInv == Init => CpuInv
  BY DEF Init, CpuInv, LoopInv, PendingIsDivZero, PolledIsDeliverable, FifoInit,
     DeviceHandlerReturnsEnabled, Status, Frame, NOPENDING

(* An interrupt pushes a frame of its own and leaves the slot empty or     *)
(* holding what could not be delivered.                                    *)
LEMMA EnterFrames ==
  ASSUME CpuInv, NEW n \in 0 .. SOFTWARE, Enter(n),
         n \in {SOFTWARE, BADINSTR} \/ I = 1
  PROVE  frames' \in Seq(Frame) /\ DeviceHandlerReturnsEnabled'
  <1>1. [by |-> n, I |-> I] \in Frame
    BY DEF CpuInv, Frame
  <1>2. /\ frames' \in Seq(Frame) /\ Len(frames') = Len(frames) + 1
        /\ \A k \in 1 .. Len(frames) : frames'[k] = frames[k]
        /\ frames'[Len(frames) + 1] = [by |-> n, I |-> I]
    BY <1>1, AppendProperties DEF CpuInv, Enter
  <1>3. frames \in Seq(Frame) /\ Len(frames) \in Nat
        /\ DOMAIN frames = 1 .. Len(frames) /\ DOMAIN frames' = 1 .. Len(frames) + 1
    BY <1>2 DEF CpuInv
  <1>4. ASSUME NEW k \in DOMAIN frames', frames'[k].by \notin {SOFTWARE, BADINSTR}
        PROVE  frames'[k].I = 1
    <2>1. CASE k \in 1 .. Len(frames)
      BY <1>2, <1>3, <1>4, <2>1 DEF CpuInv, DeviceHandlerReturnsEnabled
    <2>2. CASE k = Len(frames) + 1
      BY <1>2, <1>4, <2>2
    <2> QED BY <1>3, <2>1, <2>2
  <1> QED BY <1>2, <1>4 DEF DeviceHandlerReturnsEnabled

LEMMA InterruptEffect ==
  ASSUME CpuInv, NEW n \in 0 .. 255, NEW st \in Status, Interrupt(n, st)
  PROVE  /\ I' \in {0, 1} /\ status' \in Status /\ frames' \in Seq(Frame)
         /\ status' = IF st = "WAIT" THEN "DEFAULT" ELSE st
         /\ n = DIVZERO \/ n = BADINSTR \/ I = 1 => PendingIsDivZero'
         /\ DeviceHandlerReturnsEnabled'
  <1>1. CASE n = BADINSTR \/ I = 1
    <2>1. Enter(n) /\ I' = 0 /\ pending' = NOPENDING
      BY <1>1 DEF Interrupt
    <2>2. n \in 0 .. SOFTWARE /\ (n \in {SOFTWARE, BADINSTR} \/ I = 1)
      BY <1>1 DEF SOFTWARE
    <2>3. frames' \in Seq(Frame) /\ DeviceHandlerReturnsEnabled'
      BY <2>1, <2>2, EnterFrames
    <2> QED BY <2>1, <2>3 DEF Interrupt, PendingIsDivZero, Status
  <1>2. CASE ~(n = BADINSTR \/ I = 1)
    BY <1>2 DEF Interrupt, PendingIsDivZero, Status, CpuInv, DeviceHandlerReturnsEnabled
  <1> QED BY <1>1, <1>2

LEMMA CpuNextInv == Inv /\ CpuInv /\ [Next]_vars => CpuInv'
  <1> SUFFICES ASSUME Inv, CpuInv, [Next]_vars PROVE CpuInv'
    OBVIOUS
  <1> USE DEF CpuInv, LoopInv, PolledIsDeliverable
  <1>1. CASE LoopTest \/ ExecMasked \/ ExecPoll \/ Fetch \/ HyperStop
    BY <1>1 DEF LoopTest, ExecMasked, ExecPoll, Fetch, HyperStop, fifoVars,
       PendingIsDivZero, DeviceHandlerReturnsEnabled
  <1>2. CASE ExecReset
    BY <1>2 DEF ExecReset, CpuInit, fifoVars, PendingIsDivZero,
       DeviceHandlerReturnsEnabled, Status
  <1>3. CASE ExecPending
    <2>1. pending = DIVZERO /\ DIVZERO \in 0 .. 255
      BY <1>3 DEF ExecPending, PendingIsDivZero, DIVZERO
    <2> QED BY <1>3, <2>1, InterruptEffect DEF ExecPending, fifoVars
  <1>4. CASE TakePolled
    <2>1. item \in Interrupts
      BY <1>4 DEF TakePolled, DequeueCount, Inv, TypeOK, HasItem
    <2>2. item \in 0 .. 255 BY <2>1, InterruptsArePositive
    <2> QED BY <1>4, <2>2, InterruptEffect DEF TakePolled, DequeueCount
  <1>5. CASE Dequeue \/ DequeueRest \/ DrainNext \/ DrainDone
    BY <1>5 DEF Dequeue, DequeueRest, DrainNext, DrainDone, DequeueSome, DequeueLock,
       DequeueTake, DequeueCount, DequeueEmpty, cpuVars, PendingIsDivZero,
       DeviceHandlerReturnsEnabled
  <1>6. CASE InstrOther \/ InstrSTI \/ InstrCLI \/ InstrDrain
             \/ \E s \in {"WAIT", "HALT", "RESET", "HEVT"} : InstrStatus(s)
    BY <1>6 DEF InstrOther, InstrSTI, InstrCLI, InstrDrain, InstrStatus, Instr, fifoVars,
       PendingIsDivZero, DeviceHandlerReturnsEnabled, Status
  <1>7. CASE \E n \in {0, 1} : InstrINT(n)
    <2>1. PICK n \in {0, 1} : InstrINT(n) BY <1>7
    <2>2. CASE n = 1
      BY <2>1, <2>2 DEF InstrINT, Instr, fifoVars, PendingIsDivZero,
         DeviceHandlerReturnsEnabled, Status
    <2>3. CASE n # 1
      BY <2>1, <2>3, EnterFrames DEF InstrINT, Instr, fifoVars, PendingIsDivZero, SOFTWARE
    <2> QED BY <2>2, <2>3
  <1>8. CASE InstrIRET
    <2>1. /\ Len(frames) \in Nat \ {0} /\ frames[Len(frames)].I \in {0, 1}
      <3>1. frames \in Seq(Frame) /\ frames # << >> BY <1>8 DEF InstrIRET
      <3>2. Len(frames) \in Nat \ {0} /\ frames[Len(frames)] \in Frame BY <3>1
      <3> QED BY <3>2 DEF Frame
    <2>2. /\ frames' \in Seq(Frame)
          /\ DOMAIN frames' = 1 .. Len(frames) - 1
          /\ \A k \in 1 .. Len(frames) - 1 : frames'[k] = frames[k]
      BY <1>8, <2>1 DEF InstrIRET
    <2>3. DeviceHandlerReturnsEnabled'
      BY <2>1, <2>2 DEF DeviceHandlerReturnsEnabled
    <2> QED BY <1>8, <2>1, <2>2, <2>3 DEF InstrIRET, Instr, fifoVars, PendingIsDivZero
  <1>9. CASE InstrDivZero \/ InstrBad
    <2>1. DIVZERO \in 0 .. 255 /\ BADINSTR \in 0 .. 255 /\ "BADINSTR" \in Status
      BY DEF DIVZERO, BADINSTR, Status
    <2> QED BY <1>9, <2>1, InterruptEffect DEF InstrDivZero, InstrBad, Instr, fifoVars
  <1>10. CASE HyperSwitch
    BY <1>10 DEF HyperSwitch, fifoVars, PendingIsDivZero, DeviceHandlerReturnsEnabled, Status
  <1>11. CASE Signal \/ UNCHANGED vars
    BY <1>11 DEF Signal, vars, fifoVars, cpuVars, PendingIsDivZero, DeviceHandlerReturnsEnabled
  <1>12. CASE \E d \in Devices : DeviceThread(d)
    BY <1>12 DEF DeviceThread, SetInterrupt, DeviceStep, EnqueueLock, EnqueueGiveUp,
       EnqueueStore, EnqueueCount, cpuVars, PendingIsDivZero, DeviceHandlerReturnsEnabled
  <1> QED BY <1>1, <1>2, <1>3, <1>4, <1>5, <1>6, <1>7, <1>8, <1>9, <1>10, <1>11, <1>12
      DEF Next, CpuStep, Program

THEOREM CpuInvariance == Spec => []CpuInv
  BY CpuInitInv, CpuNextInv, FifoInvariance, PTL DEF Spec

(* No interrupt of a device is ever left in, or overwritten in, the CPU's  *)
(* single pending slot.                                                    *)
THEOREM PendingHoldsDivZero == Spec => []PendingIsDivZero
  <1>1. CpuInv => PendingIsDivZero BY DEF CpuInv
  <1> QED BY <1>1, CpuInvariance, PTL

(* What bs3_cpu_exec tested before it polled the bus still holds when the  *)
(* poll returns.                                                           *)
THEOREM PolledIsDelivered == Spec => []PolledIsDeliverable
  <1>1. CpuInv => PolledIsDeliverable BY DEF CpuInv
  <1> QED BY <1>1, CpuInvariance, PTL

(* IRET from a device's handler enables interrupts again.                  *)
THEOREM HandlersReturnEnabled == Spec => []DeviceHandlerReturnsEnabled
  <1>1. CpuInv => DeviceHandlerReturnsEnabled BY DEF CpuInv
  <1> QED BY <1>1, CpuInvariance, PTL

(* A CPU that waits with interrupts disabled never wakes.                  *)
THEOREM MaskedWaitNeverEnds == Spec => WaitMaskedIsForever
  <1>1. CpuInv /\ [Next]_vars =>
          [status = "WAIT" /\ I = 0 => status' = "WAIT" /\ I' = 0]_vars
    <2> SUFFICES ASSUME CpuInv, Next, status = "WAIT", I = 0
                 PROVE  status' = "WAIT" /\ I' = 0
      OBVIOUS
    <2> USE DEF CpuInv, LoopInv, PolledIsDeliverable
    <2>1. CASE CpuStep
      <3>1. ~Program
        BY DEF Program, InstrOther, InstrSTI, InstrCLI, InstrINT, InstrIRET, InstrStatus,
           InstrDivZero, InstrBad, InstrDrain, Instr
      <3> QED BY <2>1, <3>1 DEF CpuStep, LoopTest, ExecReset, ExecPending, ExecMasked,
           ExecPoll, Dequeue, DequeueRest, TakePolled, DrainNext, DrainDone, Fetch,
           HyperSwitch, HyperStop, cpuVars
    <2>2. CASE Signal \/ \E d \in Devices : DeviceThread(d)
      BY <2>2 DEF Signal, DeviceThread, cpuVars
    <2> QED BY <2>1, <2>2 DEF Next
  <1> QED BY <1>1, CpuInvariance, PTL DEF Spec, WaitMaskedIsForever

(* A pending division by zero is delivered, or lost to a bad instruction   *)
(* or a reset, and to nothing else.                                        *)
THEOREM DivZeroLoss == Spec => DivZeroLeavesPending
  <1> DEFINE Leaves == pending = DIVZERO /\ pending' # DIVZERO =>
                         \/ \E n \in {DIVZERO, BADINSTR} : Enter(n)
                         \/ status = "RESET"
  <1>1. CpuInv /\ [Next]_vars => [Leaves]_vars
    <2> SUFFICES ASSUME CpuInv, Next, pending = DIVZERO, pending' # DIVZERO, status # "RESET"
                 PROVE  \E n \in {DIVZERO, BADINSTR} : Enter(n)
      OBVIOUS
    <2> USE DEF CpuInv, PolledIsDeliverable
    <2>1. CASE ExecPending \/ InstrDivZero \/ InstrBad
      BY <2>1 DEF ExecPending, InstrDivZero, InstrBad, Interrupt
    <2>2. CASE TakePolled
      BY <2>2 DEF TakePolled, NOPENDING, DIVZERO
    <2>3. CASE \/ LoopTest \/ ExecReset \/ ExecMasked \/ ExecPoll \/ Dequeue \/ DequeueRest
               \/ DrainNext \/ DrainDone \/ Fetch \/ HyperSwitch \/ HyperStop \/ Signal
               \/ \E d \in Devices : DeviceThread(d)
      BY <2>3 DEF LoopTest, ExecReset, ExecMasked, ExecPoll, Dequeue, DequeueRest, DrainNext,
         DrainDone, Fetch, HyperSwitch, HyperStop, Signal, DeviceThread, cpuVars
    <2>4. CASE \/ InstrOther \/ InstrSTI \/ InstrCLI \/ InstrIRET \/ InstrDrain
               \/ \E n \in {0, 1} : InstrINT(n)
               \/ \E s \in {"WAIT", "HALT", "RESET", "HEVT"} : InstrStatus(s)
      BY <2>4 DEF InstrOther, InstrSTI, InstrCLI, InstrIRET, InstrDrain, InstrINT, InstrStatus
    <2> QED BY <2>1, <2>2, <2>3, <2>4 DEF Next, CpuStep, Program
  <1> QED BY <1>1, CpuInvariance, PTL DEF Spec, DivZeroLeavesPending

-----------------------------------------------------------------------------
(* The places of the loop, and the room on the stack: with I = 1 there is  *)
(* always a frame free for the interrupt that may come.                    *)
Room ==
  /\ step \in {"while", "exec", "poll", "fetch", "instr", "drain", "switch",
               "stop", "stopped"}
  /\ end \in BOOLEAN
  /\ Len(frames) <= MaxFrames
  /\ I = 1 => Len(frames) < MaxFrames

(* An interrupt that enters its handler masks the next one.                *)
LEMMA InterruptRoom ==
  ASSUME CpuInv, Room, NEW n, NEW st, Interrupt(n, st),
         n = BADINSTR => Len(frames) < MaxFrames
  PROVE  Len(frames') <= MaxFrames /\ (I' = 1 => Len(frames') < MaxFrames)
  <1>0. frames \in Seq(Frame) /\ Len(frames) \in Nat BY DEF CpuInv
  <1>1. CASE n = BADINSTR \/ I = 1
    <2>1. frames' = Append(frames, [by |-> n, I |-> I]) /\ I' = 0
      BY <1>1 DEF Interrupt, Enter
    <2>2. Len(frames') = Len(frames) + 1 BY <1>0, <2>1
    <2> QED BY <1>0, <1>1, <2>1, <2>2, MaxFramesAssumption DEF Room
  <1>2. CASE ~(n = BADINSTR \/ I = 1)
    BY <1>2 DEF Interrupt, Room
  <1> QED BY <1>1, <1>2

LEMMA CpuNextRoom == Inv /\ CpuInv /\ Room /\ [Next]_vars => Room'
  <1> SUFFICES ASSUME Inv, CpuInv, Room, [Next]_vars PROVE Room'
    OBVIOUS
  <1> USE DEF Room
  <1>0. frames \in Seq(Frame) /\ Len(frames) \in Nat BY DEF CpuInv
  <1>1. CASE LoopTest \/ ExecMasked \/ ExecPoll \/ Fetch \/ HyperStop \/ HyperSwitch
    BY <1>1 DEF LoopTest, ExecMasked, ExecPoll, Fetch, HyperStop, HyperSwitch, fifoVars
  <1>2. CASE ExecReset
    BY <1>2, MaxFramesAssumption DEF ExecReset, CpuInit, fifoVars
  <1>3. CASE ExecPending
    <2>1. pending # BADINSTR
      BY <1>3 DEF ExecPending, CpuInv, PendingIsDivZero, NOPENDING, DIVZERO, BADINSTR
    <2> QED BY <1>3, <2>1, InterruptRoom DEF ExecPending
  <1>4. CASE TakePolled
    <2>1. I = 1 BY <1>4 DEF TakePolled, CpuInv, PolledIsDeliverable
    <2> QED BY <1>4, <2>1, InterruptRoom DEF TakePolled
  <1>5. CASE Dequeue \/ DequeueRest \/ DrainNext \/ DrainDone
    BY <1>5 DEF Dequeue, DequeueRest, DrainNext, DrainDone, cpuVars
  <1>6. CASE InstrOther \/ InstrSTI \/ InstrCLI \/ InstrDrain
             \/ \E s \in {"WAIT", "HALT", "RESET", "HEVT"} : InstrStatus(s)
    BY <1>6 DEF InstrOther, InstrSTI, InstrCLI, InstrDrain, InstrStatus, Instr, fifoVars
  <1>7. CASE \E n \in {0, 1} : InstrINT(n)
    <2>1. PICK n \in {0, 1} : InstrINT(n) BY <1>7
    <2>2. CASE n = 1
      BY <2>1, <2>2 DEF InstrINT, Instr, fifoVars
    <2>3. CASE n # 1
      <3>1. Len(frames) < MaxFrames - 1 /\ frames' = Append(frames, [by |-> SOFTWARE, I |-> I])
        BY <2>1, <2>3 DEF InstrINT, Enter
      <3>2. Len(frames') = Len(frames) + 1 BY <1>0, <3>1
      <3>3. step' = "switch" /\ end' = end BY <2>1 DEF InstrINT, Instr
      <3> QED BY <1>0, <3>1, <3>2, <3>3, MaxFramesAssumption
    <2> QED BY <2>2, <2>3
  <1>8. CASE InstrIRET
    <2>1. Len(frames') = Len(frames) - 1 /\ Len(frames) # 0
      <3>1. frames # << >> /\ frames' = SubSeq(frames, 1, Len(frames) - 1)
        BY <1>8 DEF InstrIRET
      <3>2. Len(frames) \in Nat \ {0} BY <1>0, <3>1, EmptySeq
      <3>3. \A i \in 1 .. Len(frames) - 1 : frames[i] \in Frame BY <1>0
      <3>4. Len(SubSeq(frames, 1, Len(frames) - 1)) =
              IF 1 <= Len(frames) - 1 THEN Len(frames) - 1 - 1 + 1 ELSE 0
        BY <3>2, <3>3, SubSeqProperties
      <3>5. \A n \in Nat \ {0} : (IF 1 <= n - 1 THEN n - 1 - 1 + 1 ELSE 0) = n - 1
        OBVIOUS
      <3>6. Len(SubSeq(frames, 1, Len(frames) - 1)) = Len(frames) - 1
        BY <3>2, <3>4, <3>5
      <3>7. Len(frames') = Len(SubSeq(frames, 1, Len(frames) - 1)) BY <3>1
      <3> QED BY <3>2, <3>6, <3>7
    <2>2. step' = "switch" /\ end' = end BY <1>8 DEF InstrIRET, Instr
    <2> QED BY <1>0, <2>1, <2>2, MaxFramesAssumption
  <1>9. CASE InstrDivZero \/ InstrBad
    <2>1. CASE InstrDivZero
      BY <2>1, InterruptRoom DEF InstrDivZero, Instr, DIVZERO, BADINSTR
    <2>2. CASE InstrBad
      <3>1. Len(frames) < MaxFrames
        BY <1>0, <2>2, MaxFramesAssumption DEF InstrBad
      <3> QED BY <2>2, <3>1, InterruptRoom DEF InstrBad, Instr
    <2> QED BY <1>9, <2>1, <2>2
  <1>10. CASE Signal \/ UNCHANGED vars
    BY <1>10 DEF Signal, vars, cpuVars
  <1>11. CASE \E d \in Devices : DeviceThread(d)
    BY <1>11 DEF DeviceThread, cpuVars
  <1> QED BY <1>1, <1>2, <1>3, <1>4, <1>5, <1>6, <1>7, <1>8, <1>9, <1>10, <1>11
      DEF Next, CpuStep, Program

(* Every variable of the CPU keeps its type, and a program that keeps one  *)
(* frame free while I = 1 never has more frames than its stack holds: an   *)
(* interrupt masks the next, so they do not pile up.                       *)
THEOREM CpuTypeCorrect == Spec => []CpuTypeOK
  <1>1. Init => Room
    <2> SUFFICES ASSUME Init PROVE Room
      OBVIOUS
    <2>1. Len(frames) = 0 BY DEF Init
    <2>2. step = "while" /\ end = FALSE /\ I = 0 BY DEF Init
    <2>3. Len(frames) <= MaxFrames /\ Len(frames) < MaxFrames
      BY <2>1, MaxFramesAssumption
    <2> QED BY <2>2, <2>3 DEF Room
  <1>2. CpuInv /\ Room => CpuTypeOK
    BY DEF CpuInv, Room, CpuTypeOK, Frame, PendingIsDivZero, NOPENDING, DIVZERO
  <1> QED BY <1>1, <1>2, CpuNextRoom, CpuInvariance, FifoInvariance, PTL DEF Spec
-----------------------------------------------------------------------------
(* The loop that clears the FIFO.                                          *)

(* A device that has stored its number and not counted it yet finds it in  *)
(* the slot rear points to: nothing is taken in between.                   *)
StoredInv ==
  \A d \in Devices : pc[d] = "count" => rear \in Slots /\ fifo[rear] = InterruptNumber[d]

LEMMA StoreIsStored ==
  ASSUME Inv, NEW d \in Devices, EnqueueStore(d)
  PROVE  rear' \in Slots /\ fifo'[rear'] = InterruptNumber[d]
  <1>1. rear' \in Slots
    BY NextIsSlot DEF EnqueueStore, Inv, TypeOK
  <1> QED BY <1>1 DEF EnqueueStore, Inv, TypeOK

LEMMA NextStored == Inv /\ StoredInv /\ [FifoNext]_fifoVars => StoredInv'
  <1> SUFFICES ASSUME Inv, StoredInv, [FifoNext]_fifoVars,
                      NEW d \in Devices, pc'[d] = "count"
               PROVE  rear' \in Slots /\ fifo'[rear'] = InterruptNumber[d]
    BY DEF StoredInv, Slots, Interrupts
  <1> USE DEF Inv, TypeOK
  <1>1. CASE \E e \in Devices : EnqueueStore(e)
    <2>1. PICK e \in Devices : EnqueueStore(e) BY <1>1
    <2>2. e = d
      BY <2>1, ThreadsAssumption DEF EnqueueStore, LockInv
    <2> QED BY <2>1, <2>2, StoreIsStored
  <1>2. CASE DequeueTake
    BY <1>2, ThreadsAssumption DEF DequeueTake, LockInv
  <1>3. CASE \/ \E e \in Devices : SetInterrupt(e) \/ EnqueueLock(e) \/ EnqueueGiveUp(e) \/ EnqueueCount(e)
             \/ DequeueEmpty \/ DequeueSome \/ DequeueLock \/ DequeueCount \/ UNCHANGED fifoVars
    BY <1>3 DEF SetInterrupt, EnqueueLock, EnqueueGiveUp, EnqueueCount, DequeueEmpty, DequeueSome,
       DequeueLock, DequeueCount, fifoVars, StoredInv
  <1> QED BY <1>1, <1>2, <1>3 DEF FifoNext, DeviceStep, DequeueStep

THEOREM StoredInvariance == FifoSpec => []StoredInv
  <1>1. FifoInit => StoredInv BY DEF FifoInit, StoredInv
  <1> QED BY <1>1, NextStored, Invariance, PTL DEF FifoSpec

(* With the counter at 0 and the CPU thread outside, an interrupt pending  *)
(* is the one slot between a device's store and its count.                 *)
LEMMA UncountedIsFresh ==
  ASSUME Inv, StoredInv, count = 0, deq = "idle", NEW i \in Pending
  PROVE  \E d \in Devices : pc[d] = "count" /\ fifo[i] = InterruptNumber[d]
  <1>1. i \in Slots /\ InRing(i) /\ front \in Slots
    BY DEF Pending, Inv, RingIsContiguous, TypeOK
  <1>2. ~Taking BY DEF Taking
  <1>3. Storing /\ Depth = 1
    <2>1. CASE ~Storing
      <3>1. Depth = 0 BY <1>2, <2>1 DEF Depth
      <3> QED BY <1>1, <3>1, QueueSizeAssumption DEF InRing, Slots
    <2>2. CASE Storing
      BY <1>2, <2>2 DEF Depth
    <2> QED BY <2>1, <2>2
  <1>4. PICK d \in Devices : pc[d] = "count" BY <1>3 DEF Storing
  <1>5. rear \in Slots /\ fifo[rear] = InterruptNumber[d] BY <1>4 DEF StoredInv
  <1>6. Wrap(rear + 1) = Wrap(front + 1) BY <1>3 DEF Inv, RearInv
  <1>7. i = front
    BY <1>1, <1>3, QueueSizeAssumption DEF InRing, Slots
  <1>8. rear = front
    BY <1>1, <1>5, <1>6, QueueSizeAssumption DEF Wrap, Slots
  <1> QED BY <1>4, <1>5, <1>7, <1>8

(* When a write to the IRQ controller returns, only what was stored behind *)
(* its back is left: whatever was counted has been cleared.                *)
THEOREM ClearIsComplete == Spec => ClearLeavesOnlyFresh
  <1>1. Inv /\ StoredInv /\ [Next]_vars =>
          [step = "drain" /\ step' # "drain" =>
             \A i \in Pending :
                \E d \in Devices : pc[d] = "count" /\ fifo[i] = InterruptNumber[d]]_vars
    <2> SUFFICES ASSUME Inv, StoredInv, Next, step = "drain", step' # "drain"
                 PROVE  \A i \in Pending :
                           \E d \in Devices : pc[d] = "count" /\ fifo[i] = InterruptNumber[d]
      OBVIOUS
    <2>1. DrainDone
      BY DEF Next, CpuStep, LoopTest, ExecReset, ExecPending, ExecMasked, ExecPoll, Dequeue,
         DequeueRest, TakePolled, DrainNext, Fetch, Program, HyperSwitch, HyperStop,
         InstrOther, InstrSTI, InstrCLI, InstrINT, InstrIRET, InstrStatus, InstrDivZero,
         InstrBad, InstrDrain, Instr, Signal, DeviceThread, cpuVars
    <2>2. count = 0 /\ deq = "idle" BY <2>1 DEF DrainDone, DequeueEmpty
    <2> QED BY <2>2, UncountedIsFresh
  <1>2. Spec => []StoredInv BY UsesFifo, StoredInvariance, PTL
  <1> QED BY <1>1, <1>2, FifoInvariance, PTL DEF Spec, ClearLeavesOnlyFresh
===============================================================================
