-------------------------------- MODULE BS3InOut --------------------------------
(***************************************************************************)
(* The in-out device (dev_bs3inout.c): its input and one of its outputs,   *)
(* two threads that share the CPU.  The program is in one access at a      *)
(* time; dev_bs3inout_stop ends the in thread before it turns to the out   *)
(* thread, so that one that hangs in the first never sends what the second *)
(* has queued.                                                             *)
(***************************************************************************)
EXTENDS BS3Input, BS3Output

ASSUME SameStartsAssumption == MaxInStarts = MaxStarts

inOutVars == <<inVars, vars>>

InOutInit == InInit /\ Init

InThread == InStep /\ UNCHANGED vars
OutThread == OutStep /\ UNCHANGED inVars

(* Reads of IN and writes of OUT, with the instructions made for them.     *)
BeginRead == cpupc = "run" /\ (InbStatus \/ LoadIN) /\ UNCHANGED vars
BeginWrite == inputpc = "run" /\ (OutbStatus \/ StoreOUT) /\ UNCHANGED inVars
Access == (ReadStep /\ UNCHANGED vars) \/ (WriteStep /\ UNCHANGED inVars)

(* RESET and the end of the hypervisor stop the whole device.              *)
StopBoth == (InReset /\ Reset) \/ (InHalt /\ Halt)
StopInput == InStopStep /\ UNCHANGED vars
StopOutput == inputpc \in {"start", "end"} /\ StopStep /\ UNCHANGED inVars
StartBoth == InStart /\ Start

BothFinished == InFinished /\ Finished

InOutNext ==
  \/ InThread \/ OutThread \/ BeginRead \/ BeginWrite \/ Access
  \/ StopBoth \/ StopInput \/ StopOutput \/ StartBoth \/ BothFinished

InOutSpec == InOutInit /\ [][InOutNext]_inOutVars

(* All three threads run; the program need not begin anything.             *)
InOutFairness ==
  /\ InThreadFairness /\ OutThreadFairness
  /\ SF_inOutVars(Access)
  /\ WF_inOutVars(StopInput \/ StopOutput \/ StartBoth)

InOutLiveSpec == InOutSpec /\ InOutFairness
=================================================================================
