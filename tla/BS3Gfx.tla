-------------------------------- MODULE BS3Gfx --------------------------------
(***************************************************************************)
(* The graphic device (dev_bs3gfx.c).  A thread waits on condWakeUp and    *)
(* executes one command, or stores one byte of an open transfer, each time *)
(* it wakes; the CPU writes registers while BUSY is 0.                     *)
(*                                                                         *)
(* The registers PB1, PW2 and PW4, that say where a transfer goes, are     *)
(* together one value, area.  Of the video RAM the model keeps the pixel   *)
(* a transfer stored last.  What the other commands draw and read, and the *)
(* status code, are left out.                                              *)
(***************************************************************************)
EXTENDS Integers

CONSTANTS Side,         \* pixels in a row: 256
          Colours,      \* the bytes the program sends
          Areas,        \* what PB1, PW2 and PW4 can say
          MaxStarts,    \* bound: calls of dev_bs3gfx_start
          MaxSpurious   \* bound: spurious wakeups since a start

ZeroArea == [surface |-> 0, base |-> 0, w |-> 0, h |-> 0]
Size == Side * Side

ASSUME SideAssumption == Side \in Nat \ {0}
ASSUME ColoursAssumption == 0 \in Colours
ASSUME AreasAssumption ==
  /\ ZeroArea \in Areas
  /\ Areas \subseteq [surface : {0, 1}, base : 0 .. Size - 1, w : 0 .. Side - 1,
                      h : 0 .. Side - 1]
ASSUME BoundsAssumption == MaxStarts \in Nat \ {0} /\ MaxSpurious \in Nat

FREE == "free"
Commands == {"RESET", "END", "TRANSFER", "OTHER"}

VARIABLES BUSY, WAITFORDATA, ENABLE,   \* bits of the status register
          cmd, area, pb3,              \* registers; area is PB1, PW2 and PW4
          pw1, pw5, pw6,               \* next row, next column, next address
          pixel,                       \* the last store into videoram by a transfer
          lockGfx, endGfx, starts,
          gpc, cpupc,                  \* where the gfx thread and the CPU thread are
          owed,                        \* history: requests signalled, not executed yet
          wake,                        \* history: what ended the wait under way
          spurious                     \* history: spurious wakeups since the start

vars == <<BUSY, WAITFORDATA, ENABLE, cmd, area, pb3, pw1, pw5, pw6, pixel, lockGfx,
          endGfx, starts, gpc, cpupc, owed, wake, spurious>>
progress == <<pw1, pw5, pw6, pixel>>
status == <<BUSY, WAITFORDATA, ENABLE>>
parameters == <<cmd, area, pb3>>
registers == <<status, parameters, progress>>
history == <<owed, wake, spurious>>

(* memset(&reg_bs3gfx, 0, ...); the pixel already stored is no register.   *)
Cleared ==
  /\ BUSY' = 0 /\ WAITFORDATA' = FALSE /\ ENABLE' = FALSE
  /\ cmd' = "RESET" /\ area' = ZeroArea /\ pb3' = 0
  /\ pw1' = 0 /\ pw5' = 0 /\ pw6' = 0

Init ==
  /\ BUSY = 0 /\ WAITFORDATA = FALSE /\ ENABLE = FALSE
  /\ cmd = "RESET" /\ area = ZeroArea /\ pb3 = 0
  /\ pw1 = 0 /\ pw5 = 0 /\ pw6 = 0
  /\ pixel = [surface |-> 0, at |-> 0, value |-> 0]
  /\ lockGfx = FREE /\ endGfx = FALSE /\ starts = 0
  /\ gpc = "exited" /\ cpupc = "start"
  /\ owed = 0 /\ wake = "nothing" /\ spurious = 0

-----------------------------------------------------------------------------
(* The gfx thread, dev_bs3gfx_run: from one wait to the next.              *)

Goto(a, b) == gpc = a /\ gpc' = b

GfxBegin ==
  /\ Goto("begin", "lock")
  /\ endGfx' = FALSE
  /\ UNCHANGED <<registers, lockGfx, starts, cpupc, history>>

GfxLock ==
  /\ Goto("lock", "while")
  /\ lockGfx = FREE /\ lockGfx' = "gfx"
  /\ UNCHANGED <<registers, endGfx, starts, cpupc, history>>

BusyKept ==   \* seeded fault: BUSY is not cleared
  /\ Goto("while", "sleep")
  /\ ~endGfx
  /\ UNCHANGED <<registers, lockGfx, endGfx, starts, cpupc, history>>

GfxWhile ==
  /\ Goto("while", "sleep")
  /\ ~endGfx
  /\ BUSY' = 0
  /\ UNCHANGED <<WAITFORDATA, ENABLE, parameters, progress, lockGfx, endGfx, starts, cpupc, history>>

GfxWait ==
  /\ Goto("sleep", "waiting")
  /\ lockGfx' = FREE
  /\ UNCHANGED <<registers, endGfx, starts, cpupc, history>>

(* pthread_cond_wait may return without a signal.                          *)
GfxSpurious ==
  /\ Goto("waiting", "awake")
  /\ spurious < MaxSpurious /\ spurious' = spurious + 1
  /\ wake' = "alone"
  /\ UNCHANGED <<registers, lockGfx, endGfx, starts, cpupc, owed>>

GfxReacquire ==
  /\ Goto("awake", "woken")
  /\ lockGfx = FREE /\ lockGfx' = "gfx"
  /\ UNCHANGED <<registers, endGfx, starts, cpupc, history>>

GfxWoken ==
  /\ Goto("woken", "exec")
  /\ ~endGfx
  /\ UNCHANGED <<registers, lockGfx, endGfx, starts, cpupc, history>>

(* The end of the loop or the break in it, then unlock.                    *)
GfxExit ==
  /\ gpc \in {"while", "woken"} /\ gpc' = "exited"
  /\ endGfx
  /\ lockGfx' = FREE
  /\ wake' = "nothing"
  /\ UNCHANGED <<registers, endGfx, starts, cpupc, owed, spurious>>

-----------------------------------------------------------------------------
(* The gfx thread: what it does when it wakes.                             *)

Exec(next) ==
  /\ Goto("exec", next)
  /\ owed' = IF owed = 0 THEN 0 ELSE owed - 1
  /\ wake' = "nothing"
  /\ UNCHANGED <<lockGfx, endGfx, starts, cpupc, spurious>>

IsData == WAITFORDATA /\ cmd \notin {"RESET", "END"}

(* WORD addition: no sum here reaches twice the size of a surface.         *)
Wrap(a) == IF a < Size THEN a ELSE a - Size
Length(n) == IF n = 0 THEN Side ELSE n

RowEndUnskipped ==   \* seeded fault: the address is not moved to the next row
  LET w == Length(area.w)  h == Length(area.h)  next == Wrap(pw6 + 1) IN
  \/ /\ pw5 + 1 < w
     /\ pw5' = pw5 + 1 /\ pw6' = next
     /\ UNCHANGED <<WAITFORDATA, pw1>>
  \/ /\ pw5 + 1 >= w /\ pw1 + 1 < h
     /\ pw5' = 0 /\ pw1' = pw1 + 1 /\ pw6' = next
     /\ UNCHANGED WAITFORDATA
  \/ /\ pw5 + 1 >= w /\ pw1 + 1 >= h
     /\ WAITFORDATA' = FALSE
     /\ UNCHANGED <<pw1, pw5, pw6>>

Advance ==
  LET w == Length(area.w)  h == Length(area.h)  next == Wrap(pw6 + 1) IN
  \/ /\ pw5 + 1 < w
     /\ pw5' = pw5 + 1 /\ pw6' = next
     /\ UNCHANGED <<WAITFORDATA, pw1>>
  \/ /\ pw5 + 1 >= w /\ pw1 + 1 < h
     /\ pw5' = 0 /\ pw1' = pw1 + 1 /\ pw6' = Wrap(next + (Side - w))
     /\ UNCHANGED WAITFORDATA
  \/ /\ pw5 + 1 >= w /\ pw1 + 1 >= h
     /\ WAITFORDATA' = FALSE
     /\ UNCHANGED <<pw1, pw5, pw6>>

(* With another command it breaks the transfer: "should never occur".      *)
ExecData ==
  /\ Exec("while")
  /\ IsData
  /\ IF cmd = "TRANSFER"
     THEN /\ pixel' = [surface |-> area.surface, at |-> pw6, value |-> pb3]
          /\ Advance
     ELSE WAITFORDATA' = FALSE /\ UNCHANGED progress
  /\ UNCHANGED <<BUSY, ENABLE, parameters>>

(* bs3_gfx_command_reset clears the whole structure, BUSY included, then   *)
(* works for up to two seconds with lockGfx held.                          *)
ExecReset ==
  /\ Exec("reset")
  /\ ~IsData /\ cmd = "RESET"
  /\ Cleared
  /\ UNCHANGED pixel

GfxEnable ==
  /\ Goto("reset", "while")
  /\ ENABLE' = TRUE
  /\ UNCHANGED <<BUSY, WAITFORDATA, parameters, progress, lockGfx, endGfx, starts, cpupc, history>>

ExecEnd ==
  /\ Exec("while")
  /\ ~IsData /\ ENABLE /\ cmd = "END"
  /\ ENABLE' = FALSE /\ WAITFORDATA' = FALSE
  /\ UNCHANGED <<BUSY, parameters, progress>>

(* bs3_gfx_command_surface_blit_transfer refuses the address 0xFFFF, which *)
(* here stands for the bad surfaces and banks it refuses, too.             *)
Accepted(a) == a.base # Size - 1

ExecTransfer ==
  /\ Exec("while")
  /\ ~IsData /\ ENABLE /\ cmd = "TRANSFER"
  /\ Accepted(area)
  /\ WAITFORDATA' = TRUE
  /\ pw6' = area.base /\ pw5' = 0 /\ pw1' = 0
  /\ UNCHANGED <<BUSY, ENABLE, parameters, pixel>>

ExecRefused ==
  /\ Exec("while")
  /\ ~IsData /\ cmd # "RESET"
  /\ ~ENABLE \/ (cmd = "TRANSFER" /\ ~Accepted(area))
  /\ UNCHANGED registers

(* Any other command may leave results in the registers.                   *)
ExecOther ==
  /\ Exec("while")
  /\ ~IsData /\ ENABLE /\ cmd = "OTHER"
  /\ area' \in Areas /\ pb3' \in Colours
  /\ UNCHANGED <<status, cmd, progress>>

GfxStep ==
  \/ GfxBegin \/ GfxLock \/ GfxWhile \/ GfxWait \/ GfxSpurious \/ GfxReacquire
  \/ GfxWoken \/ GfxExit \/ ExecData \/ ExecReset \/ GfxEnable
  \/ ExecEnd \/ ExecTransfer \/ ExecRefused \/ ExecOther

-----------------------------------------------------------------------------
(* The CPU thread: dev_bs3gfx_writeByte and dev_bs3gfx_writeWord.  BUSY is *)
(* tested without the lock; the section under lockGfx is one step.         *)

CpuGoto(a, b) == cpupc = a /\ cpupc' = b

BusyUntested ==   \* seeded fault: a busy device takes the write
  /\ CpuGoto("run", "lock")
  /\ UNCHANGED <<registers, lockGfx, endGfx, starts, gpc, history>>

WriteTest ==
  /\ CpuGoto("run", "lock")
  /\ BUSY = 0
  /\ UNCHANGED <<registers, lockGfx, endGfx, starts, gpc, history>>

Section ==
  /\ CpuGoto("lock", "run")
  /\ lockGfx = FREE
  /\ UNCHANGED <<lockGfx, endGfx, starts, progress, spurious>>

(* The signal finds the thread in its wait, or nobody.                     *)
SignalBy(who) ==
  /\ gpc' = IF gpc = "waiting" THEN "awake" ELSE gpc
  /\ wake' = IF gpc = "waiting" THEN who ELSE wake

(* BUSY and the signal.  Before its first wait nobody receives the signal  *)
(* and the thread then clears BUSY: that request is lost, and not counted. *)
Request ==
  /\ BUSY' = 1
  /\ SignalBy("request")
  /\ owed' = IF gpc \in {"begin", "lock"} THEN owed ELSE owed + 1

WriteCommand ==
  /\ Section /\ Request
  /\ \E c \in Commands : (WAITFORDATA => c \in {"RESET", "END"}) /\ cmd' = c
  /\ UNCHANGED <<WAITFORDATA, ENABLE, area, pb3>>

WriteData ==
  /\ Section /\ Request
  /\ WAITFORDATA
  /\ pb3' \in Colours
  /\ UNCHANGED <<WAITFORDATA, ENABLE, cmd, area>>

(* A write of PW3 breaks the transfer.                                     *)
WriteBreak ==
  /\ Section
  /\ WAITFORDATA /\ WAITFORDATA' = FALSE
  /\ UNCHANGED <<BUSY, ENABLE, parameters, gpc, owed, wake>>

(* Any other register; outside a transfer nothing reads PW1, PW5 and PW6.  *)
WriteRegister ==
  /\ Section
  /\ ~WAITFORDATA
  /\ \/ area' \in Areas /\ UNCHANGED pb3
     \/ pb3' \in Colours /\ UNCHANGED area
  /\ UNCHANGED <<status, cmd, gpc, owed, wake>>

WriteIgnored ==
  /\ Section
  /\ WAITFORDATA
  /\ UNCHANGED <<status, parameters, gpc, owed, wake>>

(* Line 308: a word written to the command register leaves by return, with *)
(* lockGfx locked.                                                         *)
WriteWordCommand ==
  /\ CpuGoto("lock", "run")
  /\ lockGfx = FREE /\ lockGfx' = "cpu"
  /\ UNCHANGED <<registers, endGfx, starts, gpc, history>>

-----------------------------------------------------------------------------
(* The CPU thread: dev_bs3gfx_start for RESET, dev_bs3gfx_stop for it and  *)
(* for the end of the hypervisor.  The signal is sent without lockGfx.     *)

Reset ==
  /\ CpuGoto("run", "restop")
  /\ starts < MaxStarts
  /\ UNCHANGED <<registers, lockGfx, endGfx, starts, gpc, history>>

Halt ==
  /\ CpuGoto("run", "laststop")
  /\ UNCHANGED <<registers, lockGfx, endGfx, starts, gpc, history>>

StopEnd ==
  /\ CpuGoto("restop", "resignal") \/ CpuGoto("laststop", "lastsignal")
  /\ endGfx' = TRUE
  /\ UNCHANGED <<registers, lockGfx, starts, gpc, history>>

StopSignal ==
  /\ CpuGoto("resignal", "rejoin") \/ CpuGoto("lastsignal", "lastjoin")
  /\ SignalBy("stop")
  /\ UNCHANGED <<registers, lockGfx, endGfx, starts, owed, spurious>>

StopJoin ==
  /\ CpuGoto("rejoin", "start") \/ CpuGoto("lastjoin", "end")
  /\ gpc = "exited"
  /\ UNCHANGED <<registers, lockGfx, endGfx, starts, gpc, history>>

Start ==
  /\ CpuGoto("start", "run")
  /\ starts' = starts + 1
  /\ Cleared
  /\ gpc' = "begin"
  /\ owed' = 0 /\ wake' = "nothing" /\ spurious' = 0
  /\ UNCHANGED <<pixel, lockGfx, endGfx>>

CpuStep ==
  \/ WriteTest \/ WriteCommand \/ WriteData \/ WriteBreak \/ WriteRegister
  \/ WriteIgnored \/ WriteWordCommand \/ Reset \/ Halt \/ StopEnd \/ StopSignal
  \/ StopJoin \/ Start

-----------------------------------------------------------------------------
Next == GfxStep \/ CpuStep

Spec == Init /\ [][Next]_vars

(* The gfx thread runs, a locked mutex goes to a thread that keeps asking  *)
(* for it, and the CPU finishes a write, a stop or a start it has begun.   *)
Fairness ==
  /\ WF_vars(GfxBegin \/ GfxWhile \/ GfxWait \/ GfxWoken \/ GfxExit \/ GfxEnable)
  /\ WF_vars(ExecData \/ ExecReset \/ ExecEnd \/ ExecTransfer \/ ExecRefused
             \/ ExecOther)
  /\ SF_vars(GfxLock) /\ SF_vars(GfxReacquire)
  /\ SF_vars(WriteCommand \/ WriteData \/ WriteBreak \/ WriteRegister \/ WriteIgnored
             \/ WriteWordCommand)
  /\ WF_vars(StopEnd \/ StopSignal \/ StopJoin \/ Start)

LiveSpec == Spec /\ Fairness

-----------------------------------------------------------------------------
TypeOK ==
  /\ BUSY \in {0, 1} /\ WAITFORDATA \in BOOLEAN /\ ENABLE \in BOOLEAN
  /\ cmd \in Commands /\ area \in Areas /\ pb3 \in Colours
  /\ pw1 \in 0 .. Side - 1 /\ pw5 \in 0 .. Side - 1 /\ pw6 \in 0 .. Size - 1
  /\ pixel \in [surface : {0, 1}, at : 0 .. Size - 1, value : Colours]
  /\ lockGfx \in {FREE, "gfx", "cpu"} /\ endGfx \in BOOLEAN /\ starts \in 0 .. MaxStarts
  /\ gpc \in {"begin", "lock", "while", "sleep", "waiting", "awake", "woken", "exec",
              "reset", "exited"}
  /\ cpupc \in {"run", "lock", "restop", "resignal", "rejoin", "laststop", "lastsignal",
                "lastjoin", "start", "end"}
  /\ owed \in Nat /\ wake \in {"nothing", "request", "alone", "stop"} /\ spurious \in 0 .. MaxSpurious

(* dev_bs3gfx.c:1978 "should never occur": the thread never finds an open  *)
(* transfer and the code of a command that is not a transfer.              *)
ShouldNeverOccur == gpc = "exec" => ~(IsData /\ cmd # "TRANSFER")

(* A command or byte that was signalled to a thread that has begun to wait *)
(* is executed once: at most one is owed, the thread does not go back to   *)
(* its wait owing it, and what a request woke it for is what it executes,  *)
(* whenever RESET clears BUSY.  Only a wait that ended by itself, or by a  *)
(* stop whose endGfx the new thread has cleared, may lead to an execution  *)
(* nobody asked for.                                                       *)
HandledOnce ==
  /\ owed <= 1
  /\ gpc = "waiting" => owed = 0
  /\ gpc = "exec" /\ owed = 0 =>
       \/ wake = "alone"
       \/ wake = "stop" /\ cpupc \in {"rejoin", "lastjoin"}

(* BackSlashThree_GFX.txt:80 "If BUSY == 1 then device is busy, therefore  *)
(* the device can't accept any command": it does not stay so.              *)
BusyEnds == (BUSY = 1) ~> (BUSY = 0 \/ cpupc = "end")

-----------------------------------------------------------------------------
Transfer == INSTANCE BS3Transfer WITH
  open <- WAITFORDATA,
  area <- IF WAITFORDATA THEN area ELSE ZeroArea,
  x <- IF WAITFORDATA THEN pw5 ELSE 0,
  y <- IF WAITFORDATA THEN pw1 ELSE 0

(* The bytes of a transfer fill its rectangle row by row, in the surface   *)
(* and place the registers named when it was opened, whatever the program  *)
(* writes to the registers meanwhile.                                      *)
ImplementsTransfer == Transfer!TransferSpec
=================================================================================
