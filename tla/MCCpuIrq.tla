------------------------------- MODULE MCCpuIrq -------------------------------
(* The CPU, the hypervisor loop and the devices that interrupt it.         *)
EXTENDS BS3CpuIrq

CONSTANTS timer, input

(* BS3_INT_TIMER and BS3_INT_INPUT.                                        *)
MCInterruptNumber == [d \in Devices |-> IF d = timer THEN 3 ELSE 4]
===============================================================================
