------------------------------ MODULE BS3GfxProofs ------------------------------
(***************************************************************************)
(* Proofs about the graphic device, for surfaces of any size and any       *)
(* number of restarts and spurious wakeups: a transfer implements          *)
(* BS3Transfer, a request to the waiting thread is executed once, and the  *)
(* branch that "should never occur" does not.                              *)
(***************************************************************************)
EXTENDS BS3Gfx, TLAPS

HasLock == {"while", "sleep", "woken", "exec", "reset"}

ThreadInv ==
  /\ lockGfx = "gfx" <=> gpc \in HasLock
  /\ cpupc \in {"start", "end"} => gpc = "exited"
  /\ cpupc \in {"restop", "resignal", "rejoin", "start"} => starts < MaxStarts

(* The registers of an open transfer are at a pixel of its rectangle.      *)
TransferInv ==
  WAITFORDATA =>
    /\ ENABLE /\ cmd \in {"TRANSFER", "RESET", "END"}
    /\ pw5 < Length(area.w) /\ pw1 < Length(area.h)
    /\ pw6 = Wrap(area.base + pw1 * Side + pw5)

(* BUSY holds the program back from the signal to the execution.           *)
RequestInv ==
  /\ owed \in {0, 1}
  /\ owed = 1 => BUSY = 1 /\ gpc \in {"awake", "woken", "exec", "exited"}
  /\ cpupc = "lock" => BUSY = 0
  /\ gpc \in {"awake", "woken", "exec"} /\ owed = 0 =>
       \/ wake = "alone"
       \/ wake = "stop" /\ cpupc \in {"rejoin", "lastjoin"}

Inv == TypeOK /\ ThreadInv /\ TransferInv /\ RequestInv

-----------------------------------------------------------------------------
(* Surfaces.                                                               *)

LEMMA SizeFacts == Side \in Nat /\ Side > 0 /\ Size \in Nat /\ Size >= Side
  <1>1. Side \in Nat /\ Side > 0
    BY SideAssumption
  <1>2. \A n \in Nat : n > 0 => n * n \in Nat /\ n * n >= n
    OBVIOUS
  <1> QED BY <1>1, <1>2 DEF Size

LEMMA AreaFields ==
  ASSUME NEW a \in Areas
  PROVE  /\ a \in [surface : {0, 1}, base : 0 .. Size - 1, w : 0 .. Side - 1, h : 0 .. Side - 1]
         /\ a.surface \in {0, 1} /\ a.base \in Nat /\ a.base < Size
         /\ Length(a.w) \in Nat /\ Length(a.w) > 0 /\ Length(a.w) <= Side
         /\ Length(a.h) \in Nat /\ Length(a.h) > 0 /\ Length(a.h) <= Side
  BY AreasAssumption, SizeFacts DEF Length

(* The cells of a row of a surface.                                        *)
LEMMA RowBound ==
  ASSUME NEW x \in Nat, NEW y \in Nat, x < Side, y < Side
  PROVE  y * Side \in Nat /\ (y + 1) * Side = y * Side + Side /\ y * Side + x < Size
  <1>1. \A s, z \in Nat : z < s => z * s \in Nat /\ z * s + s <= s * s
    <2> SUFFICES ASSUME NEW s \in Nat, NEW z \in Nat, z < s
                 PROVE  z * s \in Nat /\ z * s + s <= s * s
      OBVIOUS
    <2>1. PICK d \in Nat : s = z + 1 + d
      <3>1. s - (z + 1) \in Nat /\ s = z + 1 + (s - (z + 1))
        OBVIOUS
      <3> QED BY <3>1
    <2>2. s * s = z * s + s + d * s
      BY <2>1
    <2>3. d * s \in Nat /\ z * s \in Nat
      OBVIOUS
    <2> QED BY <2>2, <2>3
  <1>2. y * Side \in Nat /\ y * Side + Side <= Size
    BY <1>1, SizeFacts DEF Size
  <1>3. (y + 1) * Side = y * Side + Side
    BY SizeFacts
  <1> QED BY <1>2, <1>3, SizeFacts

LEMMA WrapStep ==
  ASSUME NEW c \in Nat, NEW k \in Nat, k <= Side, c + k < 2 * Size, c < 2 * Size
  PROVE  Wrap(Wrap(c) + k) = Wrap(c + k) /\ Wrap(c) \in 0 .. Size - 1
  BY SizeFacts DEF Wrap

(* One byte moves an open transfer to the next pixel of its rectangle.     *)
LEMMA AdvanceKeeps ==
  ASSUME Inv, WAITFORDATA, Advance, UNCHANGED <<area, ENABLE, cmd>>
  PROVE  /\ pw1' \in 0 .. Side - 1 /\ pw5' \in 0 .. Side - 1 /\ pw6' \in 0 .. Size - 1
         /\ WAITFORDATA' \in BOOLEAN
         /\ TransferInv'
  <1> DEFINE b == area.base
             w == Length(area.w)
             h == Length(area.h)
             p == pw1 * Side
  <1>1. /\ b \in Nat /\ b < Size
        /\ w \in Nat /\ w > 0 /\ w <= Side
        /\ h \in Nat /\ h > 0 /\ h <= Side
    BY AreaFields DEF Inv, TypeOK
  <1>2. /\ pw1 \in Nat /\ pw1 < h /\ pw1 < Side /\ pw5 \in Nat /\ pw5 < w /\ pw5 < Side
        /\ pw6 = Wrap(b + p + pw5) /\ pw6 \in 0 .. Size - 1
    BY <1>1, SizeFacts DEF Inv, TypeOK, TransferInv
  <1>3. p \in Nat /\ (pw1 + 1) * Side = p + Side /\ p + pw5 < Size
    BY <1>2, RowBound
  <1> HIDE DEF b, w, h, p
  <1>4. b + p + pw5 \in Nat /\ b + p + pw5 + 1 < 2 * Size /\ 1 <= Side /\ 1 \in Nat
    BY <1>1, <1>3, <1>2, SizeFacts
  <1>5. Wrap(pw6 + 1) = Wrap(b + p + pw5 + 1)
    <2>1. b + p + pw5 < 2 * Size
      BY <1>4, SizeFacts
    <2>2. Wrap(Wrap(b + p + pw5) + 1) = Wrap(b + p + pw5 + 1)
      BY <2>1, <1>4, WrapStep
    <2> QED BY <2>2, <1>2
  <1>6. CASE pw5 + 1 < w /\ pw5' = pw5 + 1 /\ pw6' = Wrap(pw6 + 1) /\ UNCHANGED <<WAITFORDATA, pw1>>
    <2>1. pw5' \in Nat /\ pw5' < w /\ pw5' < Side
      BY <1>6, <1>2, <1>1, SizeFacts
    <2>2. pw6' = Wrap(b + p + pw5')
      <3>1. b + p + pw5 + 1 = b + p + (pw5 + 1)
        BY <1>1, <1>2, <1>3
      <3> QED BY <3>1, <1>5, <1>6
    <2>3. Wrap(b + p + pw5 + 1) \in 0 .. Size - 1
      BY <1>4, SizeFacts DEF Wrap
    <2>4. pw6' \in 0 .. Size - 1
      BY <2>3, <1>5, <1>6
    <2> QED BY <2>1, <2>2, <2>4, <1>6, <1>2, SizeFacts DEF Inv, TypeOK, TransferInv, b, w, h, p
  <1>7. CASE /\ pw5 + 1 >= w /\ pw1 + 1 < h
             /\ pw5' = 0 /\ pw1' = pw1 + 1 /\ pw6' = Wrap(Wrap(pw6 + 1) + (Side - w))
             /\ UNCHANGED WAITFORDATA
    <2>1. pw1' \in Nat /\ pw1' < h /\ pw1' < Side /\ pw5' \in Nat /\ pw5' < w /\ pw5' < Side
      BY <1>7, <1>2, <1>1, SizeFacts
    <2>2. pw1' * Side = p + Side /\ p + Side + 0 < Size
      <3>1. pw1' * Side + 0 < Size
        BY <2>1, RowBound, SizeFacts
      <3> QED BY <3>1, <1>3, <1>7, SizeFacts
    <2>3. Side - w \in Nat /\ Side - w <= Side /\ b + p + pw5 + 1 + (Side - w) = b + (p + Side) + 0
      BY <1>7, <1>2, <1>1, <1>3, SizeFacts
    <2>4. b + p + pw5 + 1 + (Side - w) < 2 * Size
      BY <2>2, <2>3, <1>1, <1>3, SizeFacts
    <2>5. Wrap(Wrap(b + p + pw5 + 1) + (Side - w)) = Wrap(b + p + pw5 + 1 + (Side - w))
      <3>1. b + p + pw5 + 1 \in Nat
        BY <1>4
      <3> QED BY <3>1, <1>4, <2>3, <2>4, WrapStep
    <2>6. pw6' = Wrap(b + pw1' * Side + pw5')
      BY <2>5, <2>3, <2>2, <1>5, <1>7
    <2>7. pw6' \in 0 .. Size - 1
      BY <2>6, <2>2, <1>1, <1>3, <1>7, SizeFacts DEF Wrap
    <2> QED BY <2>1, <2>6, <2>7, <1>7, <1>2, SizeFacts DEF Inv, TypeOK, TransferInv, b, w, h
  <1>8. CASE WAITFORDATA' = FALSE /\ UNCHANGED <<pw1, pw5, pw6>>
    BY <1>8 DEF Inv, TypeOK, TransferInv
  <1> QED BY <1>6, <1>7, <1>8 DEF Advance, b, w, h

-----------------------------------------------------------------------------
(* The steps.                                                              *)

(* TypeOK in two parts.                                                    *)
RegisterTypes ==
  /\ BUSY \in {0, 1} /\ WAITFORDATA \in BOOLEAN /\ ENABLE \in BOOLEAN
  /\ cmd \in Commands /\ area \in Areas /\ pb3 \in Colours
  /\ pw1 \in 0 .. Side - 1 /\ pw5 \in 0 .. Side - 1 /\ pw6 \in 0 .. Size - 1
  /\ pixel \in [surface : {0, 1}, at : 0 .. Size - 1, value : Colours]

ControlTypes ==
  /\ lockGfx \in {FREE, "gfx", "cpu"} /\ endGfx \in BOOLEAN /\ starts \in 0 .. MaxStarts
  /\ gpc \in {"begin", "lock", "while", "sleep", "waiting", "awake", "woken", "exec",
              "reset", "exited"}
  /\ cpupc \in {"run", "lock", "restop", "resignal", "rejoin", "laststop", "lastsignal",
                "lastjoin", "start", "end"}
  /\ owed \in Nat /\ wake \in {"nothing", "request", "alone", "stop"} /\ spurious \in 0 .. MaxSpurious

USE DEF FREE, registers, status, parameters, progress, history, HasLock, Commands

LEMMA InitInv == Init => Inv
  <1> SUFFICES ASSUME Init PROVE Inv
    OBVIOUS
  <1>1. TypeOK
    <2>1. RegisterTypes
      <3>1. WAITFORDATA \in BOOLEAN /\ ENABLE \in BOOLEAN
        BY Zenon DEF Init
      <3>2. 0 \in 0 .. Side - 1 /\ 0 \in 0 .. Size - 1
        BY SizeFacts
      <3>3. pixel \in [surface : {0, 1}, at : 0 .. Size - 1, value : Colours]
        BY <3>2, ColoursAssumption DEF Init
      <3>4. BUSY \in {0, 1} /\ cmd \in Commands /\ area \in Areas /\ pb3 \in Colours
        BY ColoursAssumption, AreasAssumption DEF Init
      <3>5. pw1 \in 0 .. Side - 1 /\ pw5 \in 0 .. Side - 1 /\ pw6 \in 0 .. Size - 1
        BY <3>2 DEF Init
      <3> QED BY <3>1, <3>3, <3>4, <3>5 DEF RegisterTypes
    <2>2. ControlTypes
      <3>1. endGfx \in BOOLEAN
        BY Zenon DEF Init
      <3>2. starts \in 0 .. MaxStarts /\ owed \in Nat /\ spurious \in 0 .. MaxSpurious
        BY BoundsAssumption DEF Init
      <3>3. lockGfx = FREE /\ gpc = "exited" /\ cpupc = "start" /\ wake = "nothing"
        BY DEF Init
      <3> QED BY <3>1, <3>2, <3>3 DEF ControlTypes
    <2> QED BY <2>1, <2>2 DEF TypeOK, RegisterTypes, ControlTypes
  <1>2. ThreadInv
    BY BoundsAssumption DEF Init, ThreadInv
  <1>3. TransferInv /\ RequestInv
    BY DEF Init, TransferInv, RequestInv
  <1> QED BY <1>1, <1>2, <1>3 DEF Inv

(* A step that leaves the registers of the transfer alone.                 *)
LEMMA TransferUntouched ==
  ASSUME Inv,
         UNCHANGED <<WAITFORDATA, ENABLE, area, pw1, pw5, pw6>>,
         cmd' = cmd \/ (WAITFORDATA => cmd' \in {"RESET", "END"})
  PROVE  TransferInv'
  BY DEF Inv, TransferInv

(* A step that leaves no transfer open.                                    *)
LEMMA TransferClosed ==
  ASSUME ~WAITFORDATA' PROVE TransferInv'
  BY DEF TransferInv

LEMMA WaitStepsInv ==
  ASSUME Inv,
         \/ GfxBegin \/ GfxLock \/ GfxWhile \/ GfxWait \/ GfxSpurious \/ GfxReacquire
         \/ GfxWoken \/ GfxExit
  PROVE  Inv'
  <1> USE DEF Goto, GfxBegin, GfxLock, GfxWhile, GfxWait, GfxSpurious, GfxReacquire,
              GfxWoken, GfxExit
  <1>1. TypeOK'
    <2>1. RegisterTypes'
      BY DEF Inv, TypeOK, RegisterTypes
    <2>2. ControlTypes'
      <3>1. spurious' \in 0 .. MaxSpurious
        BY BoundsAssumption DEF Inv, TypeOK
      <3>2. /\ endGfx' \in BOOLEAN /\ starts' = starts /\ cpupc' = cpupc /\ owed' = owed
            /\ wake' \in {wake, "nothing", "alone"}
        BY DEF Inv, TypeOK
      <3>3. lockGfx' \in {FREE, "gfx", "cpu"}
        BY DEF Inv, TypeOK
      <3> QED BY <3>1, <3>2, <3>3 DEF Inv, TypeOK, ControlTypes
    <2> QED BY <2>1, <2>2 DEF TypeOK, RegisterTypes, ControlTypes
  <1>2. ThreadInv'
    BY DEF Inv, ThreadInv, TypeOK
  <1>3. TransferInv'
    BY TransferUntouched
  <1>4. RequestInv'
    BY BoundsAssumption DEF Inv, RequestInv, TypeOK
  <1> QED BY <1>1, <1>2, <1>3, <1>4 DEF Inv

LEMMA ExecOwed ==
  ASSUME Inv, NEW next \in {"while", "reset"}, Exec(next), BUSY' = BUSY \/ BUSY' = 0
  PROVE  ThreadInv' /\ RequestInv'
  <1>1. ThreadInv'
    BY DEF Exec, Goto, Inv, ThreadInv
  <1>2. RequestInv'
    BY DEF Exec, Goto, Inv, RequestInv, TypeOK
  <1> QED BY <1>1, <1>2

(* The parts of TypeOK that no execution of a command touches.             *)
LEMMA ExecTypes ==
  ASSUME Inv, NEW next \in {"while", "reset"}, Exec(next),
         BUSY' \in {0, 1}, WAITFORDATA' \in BOOLEAN, ENABLE' \in BOOLEAN,
         cmd' \in Commands, area' \in Areas, pb3' \in Colours,
         pw1' \in 0 .. Side - 1, pw5' \in 0 .. Side - 1, pw6' \in 0 .. Size - 1,
         pixel' \in [surface : {0, 1}, at : 0 .. Size - 1, value : Colours]
  PROVE  TypeOK'
  BY DEF Exec, Goto, Inv, TypeOK, RequestInv

LEMMA ExecDataInv ==
  ASSUME Inv, ExecData
  PROVE  Inv'
  <1> USE DEF ExecData
  <1>1. cmd = "TRANSFER" /\ WAITFORDATA
    BY DEF IsData, Inv, TransferInv
  <1>2. /\ pw1' \in 0 .. Side - 1 /\ pw5' \in 0 .. Side - 1 /\ pw6' \in 0 .. Size - 1
        /\ WAITFORDATA' \in BOOLEAN
        /\ TransferInv'
    BY <1>1, AdvanceKeeps
  <1>3. pixel' \in [surface : {0, 1}, at : 0 .. Size - 1, value : Colours]
    BY <1>1, AreaFields DEF Inv, TypeOK
  <1>4. TypeOK'
    BY <1>2, <1>3, ExecTypes DEF Inv, TypeOK
  <1> QED BY <1>2, <1>4, ExecOwed DEF Inv

LEMMA ExecStepsInv ==
  ASSUME Inv, ExecReset \/ ExecEnd \/ ExecTransfer \/ ExecRefused \/ ExecOther
  PROVE  Inv'
  <1>1. CASE ExecReset
    <2> USE <1>1 DEF ExecReset, Cleared
    <2>1. TypeOK'
      <3>1. pw1' \in 0 .. Side - 1 /\ pw5' \in 0 .. Side - 1 /\ pw6' \in 0 .. Size - 1
        BY SizeFacts
      <3> QED BY <3>1, ExecTypes, ColoursAssumption, AreasAssumption DEF Inv, TypeOK
    <2> QED BY <2>1, ExecOwed, TransferClosed DEF Inv
  <1>2. CASE ExecEnd
    <2> USE <1>2 DEF ExecEnd
    <2>1. TypeOK'
      BY ExecTypes DEF Inv, TypeOK
    <2> QED BY <2>1, ExecOwed, TransferClosed DEF Inv
  <1>3. CASE ExecTransfer
    <2> USE <1>3 DEF ExecTransfer
    <2>1. TypeOK'
      BY ExecTypes, AreaFields, SizeFacts DEF Inv, TypeOK
    <2>2. TransferInv'
      <3>1. pw5' < Length(area.w)' /\ pw1' < Length(area.h)'
        BY AreaFields DEF Inv, TypeOK, Length
      <3>2. 0 * Side = 0 /\ area.base + 0 + 0 = area.base /\ Wrap(area.base) = area.base
        BY AreaFields, SizeFacts DEF Inv, TypeOK, Wrap
      <3>3. pw6' = Wrap(area.base + pw1 * Side + pw5)'
        BY <3>2 DEF Wrap
      <3> QED BY <3>1, <3>3 DEF TransferInv
    <2> QED BY <2>1, <2>2, ExecOwed DEF Inv
  <1>4. CASE ExecRefused
    <2> USE <1>4 DEF ExecRefused
    <2>1. TypeOK'
      BY ExecTypes DEF Inv, TypeOK
    <2> QED BY <2>1, ExecOwed, TransferUntouched DEF Inv
  <1>5. CASE ExecOther
    <2> USE <1>5 DEF ExecOther
    <2>1. TypeOK'
      BY ExecTypes DEF Inv, TypeOK
    <2>2. ~WAITFORDATA'
      BY DEF IsData, Inv, TransferInv
    <2> QED BY <2>1, <2>2, ExecOwed, TransferClosed DEF Inv
  <1> QED BY <1>1, <1>2, <1>3, <1>4, <1>5

LEMMA EnableInv ==
  ASSUME Inv, GfxEnable
  PROVE  Inv'
  <1> USE DEF GfxEnable, Goto
  <1>1. TypeOK'
    BY DEF Inv, TypeOK
  <1>2. ThreadInv' /\ RequestInv'
    BY DEF Inv, ThreadInv, RequestInv, TypeOK
  <1>3. TransferInv'
    BY DEF Inv, TransferInv
  <1> QED BY <1>1, <1>2, <1>3 DEF Inv

(* Requests of the program: BUSY was 0, so nothing is owed.                *)
LEMMA RequestsInv ==
  ASSUME Inv, WriteCommand \/ WriteData
  PROVE  Inv'
  <1> USE DEF WriteCommand, WriteData, Section, Request, SignalBy, CpuGoto
  <1>1. owed = 0 /\ gpc \notin HasLock
    BY DEF Inv, ThreadInv, RequestInv
  <1>2. TypeOK'
    BY <1>1 DEF Inv, TypeOK
  <1>3. ThreadInv'
    BY DEF Inv, ThreadInv
  <1>4. TransferInv'
    BY TransferUntouched
  <1>5. gpc # "exited" => gpc \in {"begin", "lock", "waiting", "awake"}
    BY <1>1 DEF Inv, TypeOK
  <1>6. RequestInv'
    BY <1>1, <1>5 DEF Inv, RequestInv, TypeOK
  <1> QED BY <1>2, <1>3, <1>4, <1>6 DEF Inv

LEMMA WritesInv ==
  ASSUME Inv,
         WriteTest \/ WriteBreak \/ WriteRegister \/ WriteIgnored \/ WriteWordCommand
  PROVE  Inv'
  <1> USE DEF WriteTest, WriteBreak, WriteRegister, WriteIgnored, WriteWordCommand,
              Section, CpuGoto
  <1>1. TypeOK'
    <2>1. RegisterTypes'
      BY DEF Inv, TypeOK, RegisterTypes
    <2>2. ControlTypes'
      BY DEF Inv, TypeOK, ControlTypes
    <2> QED BY <2>1, <2>2 DEF TypeOK, RegisterTypes, ControlTypes
  <1>2. ThreadInv'
    BY DEF Inv, ThreadInv
  <1>3. TransferInv'
    BY TransferUntouched, TransferClosed
  <1>4. RequestInv'
    BY DEF Inv, RequestInv
  <1> QED BY <1>1, <1>2, <1>3, <1>4 DEF Inv

LEMMA ControlInv ==
  ASSUME Inv, Reset \/ Halt \/ StopEnd \/ StopSignal \/ StopJoin \/ Start
  PROVE  Inv'
  <1>1. CASE Reset \/ Halt \/ StopEnd \/ StopSignal \/ StopJoin
    <2> USE <1>1 DEF Reset, Halt, StopEnd, StopSignal, SignalBy, StopJoin, CpuGoto
    <2>1. TypeOK'
      <3>1. RegisterTypes'
        BY DEF Inv, TypeOK, RegisterTypes
      <3>2. ControlTypes'
        BY DEF Inv, TypeOK, ControlTypes
      <3> QED BY <3>1, <3>2 DEF TypeOK, RegisterTypes, ControlTypes
    <2>2. ThreadInv'
      BY DEF Inv, ThreadInv
    <2>3. TransferInv'
      BY TransferUntouched
    <2>4. RequestInv'
      BY DEF Inv, RequestInv, TypeOK
    <2> QED BY <2>1, <2>2, <2>3, <2>4 DEF Inv
  <1>2. CASE Start
    <2> USE <1>2 DEF Start, Cleared, CpuGoto
    <2>1. TypeOK'
      <3>1. RegisterTypes'
        <4>1. WAITFORDATA' \in BOOLEAN /\ ENABLE' \in BOOLEAN
          BY Zenon
        <4>2. pw1' \in 0 .. Side - 1 /\ pw5' \in 0 .. Side - 1 /\ pw6' \in 0 .. Size - 1
          BY SizeFacts
        <4> QED BY <4>1, <4>2, ColoursAssumption, AreasAssumption DEF Inv, TypeOK, RegisterTypes
      <3>2. ControlTypes'
        BY BoundsAssumption DEF Inv, TypeOK, ThreadInv, ControlTypes
      <3> QED BY <3>1, <3>2 DEF TypeOK, RegisterTypes, ControlTypes
    <2>2. ThreadInv'
      BY DEF Inv, ThreadInv
    <2>3. RequestInv'
      BY DEF RequestInv
    <2> QED BY <2>1, <2>2, <2>3, TransferClosed DEF Inv
  <1> QED BY <1>1, <1>2

LEMMA NextInv ==
  ASSUME Inv, [Next]_vars
  PROVE  Inv'
  <1>1. CASE UNCHANGED vars
    BY <1>1 DEF vars, Inv, TypeOK, ThreadInv, TransferInv, RequestInv
  <1>2. CASE GfxStep
    BY <1>2, WaitStepsInv, ExecDataInv, ExecStepsInv, EnableInv DEF GfxStep
  <1>3. CASE CpuStep
    BY <1>3, RequestsInv, WritesInv, ControlInv DEF CpuStep
  <1> QED BY <1>1, <1>2, <1>3 DEF Next

LEMMA Invariance == Spec => []Inv
  BY InitInv, NextInv, PTL DEF Spec

(* The registers keep their widths: the address of a transfer stays inside *)
(* the surface for every rectangle.                                        *)
THEOREM TypeCorrect == Spec => []TypeOK
  <1>1. Inv => TypeOK
    BY DEF Inv
  <1> QED BY <1>1, Invariance, PTL

(* The default branch of the data transfer is never taken.                 *)
THEOREM NeverOccurs == Spec => []ShouldNeverOccur
  <1>1. Inv => ShouldNeverOccur
    BY DEF Inv, TransferInv, ShouldNeverOccur, IsData
  <1> QED BY <1>1, Invariance, PTL

(* What is signalled to a thread that has begun to wait is executed, and   *)
(* once, whatever the program writes and whenever RESET clears BUSY; only  *)
(* a wakeup without a signal or the signal of a stop may add an execution. *)
THEOREM RequestsHandledOnce == Spec => []HandledOnce
  <1>1. Inv => HandledOnce
    BY DEF Inv, RequestInv, HandledOnce
  <1> QED BY <1>1, Invariance, PTL

-----------------------------------------------------------------------------
(* A transfer implements BS3Transfer.                                      *)

LEMMA NoTransferStutters ==
  ASSUME Inv, Inv', ~WAITFORDATA, ~WAITFORDATA', UNCHANGED pixel
  PROVE  UNCHANGED Transfer!transferVars
  <1>1. WAITFORDATA \in BOOLEAN /\ WAITFORDATA' \in BOOLEAN
    BY DEF Inv, TypeOK
  <1>2. WAITFORDATA' = WAITFORDATA
    BY <1>1, Zenon
  <1> QED BY <1>2 DEF Transfer!transferVars

LEMMA QuietStutters ==
  ASSUME UNCHANGED <<WAITFORDATA, area, pw1, pw5, pixel>>
  PROVE  UNCHANGED Transfer!transferVars
  BY DEF Transfer!transferVars

LEMMA ClosingBreaks ==
  ASSUME WAITFORDATA, ~WAITFORDATA', UNCHANGED pixel
  PROVE  Transfer!Break
  BY DEF Transfer!Break, Transfer!Closed, Transfer!NoArea, ZeroArea

LEMMA ExecTransferOpens ==
  ASSUME Inv, ExecTransfer
  PROVE  \E a \in Transfer!AllAreas : Transfer!Open(a)
  <1>1. area \in Transfer!AllAreas
    BY AreaFields DEF Inv, TypeOK, Transfer!AllAreas, Transfer!Size, Size
  <1>2. ~WAITFORDATA /\ cmd = "TRANSFER"
    BY DEF ExecTransfer, IsData
  <1>3. Transfer!Open(area)
    BY <1>2 DEF ExecTransfer, Transfer!Open
  <1> QED BY <1>1, <1>3

LEMMA ExecDataStores ==
  ASSUME Inv, ExecData
  PROVE  \E v \in Colours : Transfer!Store(v)
  <1>1. cmd = "TRANSFER" /\ WAITFORDATA
    BY DEF ExecData, IsData, Inv, TransferInv
  <1>2. /\ pw5 \in Nat /\ pw5 < Length(area.w) /\ pw1 \in Nat /\ pw1 < Length(area.h)
        /\ Length(area.w) \in Nat /\ Length(area.h) \in Nat
    BY <1>1, AreaFields, SizeFacts DEF Inv, TypeOK, TransferInv
  <1>3. /\ Length(area.w) = Transfer!Length(area.w) /\ Length(area.h) = Transfer!Length(area.h)
        /\ Transfer!Cell(area, pw5, pw1) = pw6
    BY <1>1 DEF Inv, TransferInv, Length, Transfer!Length, Transfer!Cell, Wrap,
       Transfer!Wrap, Size, Transfer!Size
  <1>4. pixel' = [surface |-> area.surface, at |-> pw6, value |-> pb3] /\ Advance
        /\ UNCHANGED area
    BY <1>1 DEF ExecData
  <1>5. Transfer!Store(pb3)
    <2>1. CASE pw5 + 1 < Length(area.w)
      <3>1. pw5' = pw5 + 1 /\ pw1' = pw1
        BY <2>1, <1>2, <1>4 DEF Advance
      <3>2. WAITFORDATA' = WAITFORDATA
        BY <2>1, <1>2, <1>4 DEF Advance
      <3>3. WAITFORDATA'
        BY <3>2, <1>1, Zenon
      <3> QED BY <2>1, <3>1, <3>2, <3>3, <1>1, <1>3, <1>4 DEF Transfer!Store
    <2>2. CASE pw5 + 1 >= Length(area.w) /\ pw1 + 1 < Length(area.h)
      <3>1. pw5 + 1 = Length(area.w)
        BY <2>2, <1>2
      <3>2. pw5' = 0 /\ pw1' = pw1 + 1
        BY <2>2, <1>2, <1>4 DEF Advance
      <3>3. WAITFORDATA' = WAITFORDATA
        BY <2>2, <1>2, <1>4 DEF Advance
      <3>4. WAITFORDATA'
        BY <3>3, <1>1, Zenon
      <3> QED BY <2>2, <3>1, <3>2, <3>3, <3>4, <1>1, <1>3, <1>4 DEF Transfer!Store
    <2>3. CASE pw5 + 1 >= Length(area.w) /\ pw1 + 1 >= Length(area.h)
      <3>1. pw5 + 1 = Length(area.w) /\ pw1 + 1 = Length(area.h)
        BY <2>3, <1>2
      <3>2. WAITFORDATA' = FALSE
        BY <2>3, <1>2, <1>4 DEF Advance
      <3> QED BY <3>1, <3>2, <1>1, <1>2, <1>3, <1>4
          DEF Transfer!Store, Transfer!Closed, Transfer!NoArea, ZeroArea
    <2> QED BY <2>1, <2>2, <2>3, <1>2
  <1> QED BY <1>5 DEF Inv, TypeOK

LEMMA StepImplements ==
  ASSUME Inv, [Next]_vars
  PROVE  [Transfer!TransferNext]_(Transfer!transferVars)
  <1>0. Inv'
    BY NextInv
  <1>1. CASE ExecTransfer
    BY <1>1, ExecTransferOpens DEF Transfer!TransferNext
  <1>2. CASE ExecData
    BY <1>2, ExecDataStores DEF Transfer!TransferNext
  <1>3. CASE ExecReset \/ ExecEnd \/ WriteBreak \/ Start
    <2>1. ~WAITFORDATA' /\ UNCHANGED pixel
      BY <1>3 DEF ExecReset, ExecEnd, WriteBreak, Start, Cleared, Section
    <2> QED BY <1>0, <2>1, ClosingBreaks, NoTransferStutters DEF Transfer!TransferNext
  <1>4. CASE ExecOther \/ WriteRegister
    <2>1. ~WAITFORDATA /\ ~WAITFORDATA' /\ UNCHANGED pixel
      BY <1>4 DEF ExecOther, WriteRegister, Section, IsData, Inv, TransferInv
    <2> QED BY <1>0, <2>1, NoTransferStutters
  <1>5. CASE \/ GfxBegin \/ GfxLock \/ GfxWhile \/ GfxWait \/ GfxSpurious \/ GfxReacquire
             \/ GfxWoken \/ GfxExit \/ GfxEnable \/ ExecRefused
    BY <1>5, QuietStutters DEF GfxBegin, GfxLock, GfxWhile, GfxWait, GfxSpurious,
       GfxReacquire, GfxWoken, GfxExit, GfxEnable, ExecRefused
  <1>6. CASE \/ WriteTest \/ WriteCommand \/ WriteData \/ WriteIgnored \/ WriteWordCommand
             \/ Reset \/ Halt \/ StopEnd \/ StopSignal \/ StopJoin
    <2>1. UNCHANGED <<WAITFORDATA, pw1, pw5, pixel>>
      BY <1>6 DEF WriteTest, WriteCommand, WriteData, WriteIgnored, WriteWordCommand,
         Section, Reset, Halt, StopEnd, StopSignal, StopJoin
    <2>2. UNCHANGED area
      BY <1>6 DEF WriteTest, WriteCommand, WriteData, WriteIgnored, WriteWordCommand,
         Reset, Halt, StopEnd, StopSignal, StopJoin
    <2> QED BY <2>1, <2>2, QuietStutters
  <1>7. CASE UNCHANGED vars
    BY <1>7, QuietStutters DEF vars
  <1> QED BY <1>1, <1>2, <1>3, <1>4, <1>5, <1>6, <1>7 DEF Next, GfxStep, CpuStep

(* Whatever the program writes between them, the bytes of a transfer fill  *)
(* one rectangle row by row, on surfaces of every size.                    *)
THEOREM Implements == Spec => ImplementsTransfer
  <1>1. Init => Transfer!TransferInit
    BY DEF Init, Transfer!TransferInit, Transfer!NoArea, ZeroArea
  <1> QED BY <1>1, Invariance, StepImplements, PTL
      DEF Spec, ImplementsTransfer, Transfer!TransferSpec
================================================================================
