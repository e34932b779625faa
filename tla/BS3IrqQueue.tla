----------------------------- MODULE BS3IrqQueue -----------------------------
(***************************************************************************)
(* What the interrupt controller of the BackSlash Three bus promises,      *)
(* without its ring, its counters and its lock: a first-in first-out queue *)
(* of interrupt numbers that never holds a number twice.  BS3IrqFifo is    *)
(* shown to implement it.                                                  *)
(***************************************************************************)
EXTENDS Naturals, Sequences

CONSTANTS Interrupts,   \* the numbers the devices may raise
          Capacity      \* INTERRUPT_QUEUE_SIZE

VARIABLE queue          \* pending interrupts, oldest first

Queued(s) == {s[k] : k \in DOMAIN s}

Init == queue = << >>

(* A raise of a number that is pending already, or of any number when the  *)
(* queue is full, leaves the queue alone: it is a stuttering step.         *)
Enqueue(n) ==
  /\ n \notin Queued(queue)
  /\ Len(queue) < Capacity
  /\ queue' = Append(queue, n)

Dequeue ==
  /\ queue # << >>
  /\ queue' = Tail(queue)

Next == Dequeue \/ \E n \in Interrupts : Enqueue(n)

Spec == Init /\ [][Next]_queue
=============================================================================
