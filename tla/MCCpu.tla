---------------------------------- MODULE MCCpu ----------------------------------
(***************************************************************************)
(* Programs of one instruction over words at the boundaries, programs of a *)
(* comparison and a jump, and programs that use the stack and the banks.   *)
(***************************************************************************)
EXTENDS BS3Cpu, TLC

I(op, form, x, y, z, imm, m) ==
  [op |-> op, form |-> form, x |-> x, y |-> y, z |-> z, imm |-> imm, m |-> m]
Op(op) == I(op, "", 0, 0, 0, 0, 0)

(* In two different registers, and in one.                                 *)
Binary ==
  {I(op, "B", 0, y, 0, 0, 0) : op \in LogicOps \cup ArithOps \cup ShiftOps \cup MulDivOps, y \in {0, 2}}
  \cup {I(op, "W", 0, y, 0, 0, 0) : op \in LogicOps \cup ArithOps, y \in {0, 1}}
  \cup {I(op, "W", 0, 1, z, 0, 0) : op \in MulDivOps, z \in {0, 2}}
  \cup {I(op, "W", 0, 2, 0, 0, 0) : op \in ShiftOps}
  \cup {I(op, "BI", 1, 0, 0, v, 0) : op \in LogicOps \cup ArithOps \cup MulDivOps, v \in {0, 7, 128}}
  \cup {I(op, "WI", 1, 0, 0, v, 0) : op \in LogicOps \cup ArithOps \cup MulDivOps, v \in {0, 7, 32768}}
Unary ==
  {I(op, form, 1, 0, 0, 0, 0) : op \in UnaryOps \cup ShiftOps, form \in {"B1", "W1"}}
  \cup {I(op, form, 1, 0, 0, 0, 0) : op \in {"ROR", "ROL", "NOT"}, form \in {"B", "W"}}
Moves ==
  {I("MOV", "B", 0, 3, 0, 0, 0), I("MOV", "W", 0, 1, 0, 0, 0), I("SWP", "B", 0, 3, 0, 0, 0),
   I("SWP", "W", 0, 1, 0, 0, 0), I("MOV", "SW", 1, 0, 0, 0, 0), I("MOV", "WS", 1, 0, 0, 0, 0),
   I("MOV", "BI", 1, 0, 0, 9, 0), I("MOV", "WI", 1, 0, 0, 9, 0), I("LEA", "W", 1, 0, 0, 65534, 0),
   I("LEA", "B", 1, 0, 0, 254, 0)}
Ports ==
  {I(op, "B", 1, 0, 0, 65, 0) : op \in {"IN", "OUT", "OUT2"}}
  \cup {I(op, "BI", 0, 0, 0, 65, 0) : op \in {"OUT", "OUT2"}}
Jumps ==
  {I(op, "W", 1, 0, 0, 0, 0) : op \in {"J", "C"}} \cup {I(op, "A", 0, 0, 0, 8192, 0) : op \in {"J", "C"}}
  \cup {I(op, "R", 0, 0, 0, 128, 0) : op \in {"J", "C"}}
Conditional == {I(c, "R", 0, 0, 0, 250, 0) : c \in Conditions}
Controlling == {Op(op) : op \in SetFlagOps \cup {"NOP", "STI", "CLI", "HEVT", "WAIT", "RESET", "HLT", "BAD"}}

SetSP(a) == I("MOV", "SI", 0, 0, 0, a, 0)
SetWord(x, v) == I("MOV", "WI", x, 0, 0, v, 0)
PushOne(op, x) == I("PUSH", op, x, 0, 0, 0, 0)
PopOne(op, x) == I("POP", op, x, 0, 0, 0, 0)
IntInstr(n) == I("INT", "", n, 0, 0, 0, 0)
CallA == I("C", "A", 0, 0, 0, 8192, 0)
LoadAt(form, m, a) == I("LD", form, 0, 1, 2, a, m)
StoreAt(form, m, a) == I("SR", form, 0, 1, 2, a, m)
RamBank(n) == <<I("MOV", "BI", 0, 0, 0, n, 0), StoreAt("B", 0, 263)>>
RomBank(n) == <<I("MOV", "BI", 0, 0, 0, n, 0), StoreAt("B", 0, 262)>>

Framing ==
  {<<CallA, PushOne("W", 1), PopOne("W", 0), Op("RET")>>,
   <<PushOne("B", 1), Op("DUP"), PopOne("B", 2), Op("DROP")>>,
   <<Op("PUSHA"), Op("PUSHF"), Op("STC"), Op("POPF"), Op("POPA")>>,
   <<Op("STI"), IntInstr(2), Op("PUSHPC"), Op("POPPC"), Op("IRET")>>,
   <<Op("BAD"), Op("IRET"), IntInstr(1), Op("NOP")>>,
   <<I("DIV", "WI", 0, 1, 0, 0, 0), Op("STI"), Op("IRET")>>}
StackPrograms ==
  Framing \cup {<<SetSP(53312)>> \o p : p \in {q \in Framing : q[1].op \notin {"BAD", "DIV"}}}

Addresses == {255, 300, 8192, 53247, 53248, 57343, 57350, 65533}
MemoryPrograms ==
  {<<SetWord(0, 4660), StoreAt(form, 0, a), LoadAt(form, 0, a)>> : form \in {"B", "W"}, a \in Addresses}
  \cup {<<SetWord(1, a - 4), SetWord(2, 0), SetWord(0, 4660), StoreAt(form, m, 4), LoadAt(form, m, 4)>>
     : form \in {"B", "W"}, m \in {2, 7}, a \in Addresses}
  \cup {<<SetWord(1, 8192), SetWord(2, 256), SetWord(0, 4660), StoreAt(form, m, 4), LoadAt(form, m, 4)>>
     : form \in {"B", "W"}, m \in 1 .. 7}
  \cup {RamBank(n) \o <<StoreAt("W", 0, a), LoadAt("W", 0, a), LoadAt("B", 0, a)>> : n \in {1, 64}, a \in {53250, 57343}}
  \cup {RomBank(n) \o <<StoreAt("W", 0, a), LoadAt("W", 0, a), LoadAt("B", 0, a)>> : n \in {1, 32}, a \in {57350, 61439, 61446, 65534}}

FlagBits(c, z, v, n, i) == [C |-> c, Z |-> z, V |-> v, N |-> n, I |-> i, rest |-> 0]
Words(a, b) == [j \in 0 .. 3 |-> CASE j = 0 -> a [] j = 1 -> b [] OTHER -> 4386]
Boundary == {0, 1, 5, 263, 32767, 32768, 32769, 65535}
AllFlags == {FlagBits(c, z, v, n, 0) : c \in 0 .. 1, z \in 0 .. 1, v \in 0 .. 1, n \in 0 .. 1}

Start(p, words, f) == [program |-> p, W |-> words, SP |-> 1024, FL |-> f]
MCStarts ==
  {Start(<<i>>, Words(a, b), FlagBits(c, 0, 0, 0, 0))
     : i \in Binary \cup Unary, a \in Boundary, b \in Boundary, c \in 0 .. 1}
  \cup {Start(<<i>>, Words(513, 9), f) : i \in Conditional \cup Controlling, f \in AllFlags}
  \cup {Start(p, Words(a, 32769), FlagBits(c, 0, 0, 0, i))
     : p \in {<<i>> : i \in Moves \cup Ports \cup Jumps} \cup StackPrograms \cup MemoryPrograms,
       a \in {0, 65535}, c \in 0 .. 1, i \in 0 .. 1}

(* The vectors 0, 2, 6, 7 and 9, and code in the banks 1.                  *)
MCCodeMaps ==
  << [rombank |-> 0, rambank |-> 0, code |-> 1 :> 16 @@ 5 :> 32 @@ 13 :> 48 @@ 15 :> 64 @@ 19 :> 80],
     [rombank |-> 1, rambank |-> 1, code |-> 53250 :> 3 @@ 57350 :> 4 @@ 61440 :> 6 @@ 61447 :> 5] >>
===============================================================================
