------------------------------ MODULE MCIrqFifo ------------------------------
(* Instances of the interrupt FIFO: the devices of the code and their      *)
(* interrupt numbers.                                                      *)
EXTENDS BS3IrqFifo

CONSTANTS timer, input, rtc

(* BS3_INT_TIMER, BS3_INT_INPUT and the interruptNumber of dev_rtc72421.   *)
MCInterruptNumber ==
  [d \in Devices |-> CASE d = timer -> 3 [] d = input -> 4 [] d = rtc -> 8]
==============================================================================
