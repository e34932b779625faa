-------------------------------- MODULE BS3Cpu --------------------------------
(***************************************************************************)
(* The instructions of the BackSlash Three CPU: the switch of bs3_cpu_exec *)
(* over the registers, the flags and the memory behind the bus.  The       *)
(* program is the environment: the instructions it executes, in the order  *)
(* they are executed; ope is the last one.  Interrupts of devices may come *)
(* at any moment while I = 1 (BS3CpuIrq has their queue and the order of   *)
(* the tests, and the loop of the hypervisor).                             *)
(*                                                                         *)
(* Programs are those the assembler makes: bit 2 of a parameter byte is 0  *)
(* where it names a word.  Data and stack stay in the memory and in the    *)
(* banks; the ports of IN and OUT give any status.                         *)
(***************************************************************************)
EXTENDS BS3Bus, BS3Instr, Sequences

CONSTANTS Starts,         \* programs, as sequences of instructions in the
                          \* order they are executed, with the contents of
                          \* the words, of SP and of the flags they start from
          Interrupts,     \* the interrupts devices raise
          CodeMaps,       \* what bs3_hyper_load_memory loads
          Stale,          \* words a variable that was not assigned may hold
          StackDepth      \* words above SP that the properties look at

Flags == [C : 0 .. 1, Z : 0 .. 1, V : 0 .. 1, N : 0 .. 1, I : 0 .. 1, rest : 0 .. 2^11 - 1]

ASSUME CpuAssumption ==
  /\ \A start \in Starts :
       /\ start.W \in [0 .. 3 -> Word] /\ start.SP \in Word /\ start.FL \in Flags
       /\ Len(start.program) \in Nat
       /\ \A k \in 1 .. Len(start.program) : WellFormed(start.program[k])
  /\ Interrupts \subseteq 0 .. 15
  /\ Stale \subseteq Word /\ Stale # {}
  /\ StackDepth \in Nat /\ StackDepth <= 32000   \* below a whole round of the addresses

(* A chain of maps, of bytes that are not at the select registers (loading *)
(* there would change the banks under the rest of the map).                *)
ASSUME CodeMapsAssumption ==
  /\ Len(CodeMaps) \in Nat
  /\ \A k \in 1 .. Len(CodeMaps) :
       /\ CodeMaps[k].rombank \in Byte /\ CodeMaps[k].rambank \in Byte
       /\ DOMAIN CodeMaps[k].code \subseteq Word \ {262, 263}
       /\ \A a \in DOMAIN CodeMaps[k].code : CodeMaps[k].code[a] \in Byte

VARIABLES program,   \* the program
          executed,  \* how many of its instructions were executed
          W,         \* the four words; byte j is a half of word j \div 2
          SP, PC, FL,
          status, pending,
          store,     \* what is behind the bus
          map, left, \* the map being loaded, the addresses of it to come
          ope        \* the instruction executed last

loading == <<map, left>>
vars == <<program, executed, W, SP, PC, FL, status, pending, store, loading, ope>>

NOPENDING == 255
BADINSTR == 7
DIVZERO == 6

None == [op |-> "NOP", form |-> "", x |-> 0, y |-> 0, z |-> 0, imm |-> 0, m |-> 0]
IRQ == [None EXCEPT !.op = "IRQ"]

(* union W[4], B[8] of bs3_registers.                                      *)
B(j) == IF j % 2 = 0 THEN Low(W[j \div 2]) ELSE High(W[j \div 2])
PutB(ws, j, v) ==
  [ws EXCEPT ![j \div 2] = IF j % 2 = 0 THEN 256 * High(@) + v ELSE 256 * v + Low(@)]

Wrap(a) == a % 65536

Loaded == map > Len(CodeMaps)
ClearedFlags == FlagsOf(0)

(* bs3_hyper_main has started the devices and begins to load.              *)
Init ==
  /\ program = << >> /\ executed = 0
  /\ W = [j \in 0 .. 3 |-> 0] /\ SP = 1024 /\ PC = 0 /\ FL = ClearedFlags
  /\ status = "DEFAULT"
  /\ pending = NOPENDING
  /\ store = Opened(Started)
  /\ map = 0 /\ left = {}
  /\ ope = None

(* The opcode was read; its operands follow it.  A pending interrupt that  *)
(* is not masked was taken before.                                         *)
Fetch(i) ==
  /\ Loaded /\ status = "DEFAULT"
  /\ FL.I = 0 \/ pending = NOPENDING
  /\ ope' = i
  /\ executed' = executed + 1
  /\ UNCHANGED <<program, loading>>

Skip(n) == PC' = Wrap(PC + n)

(* Devices whose bytes this module keeps, for the two bytes of a word.     *)
Kept == {"memory", "rambank", "rombank", "rambankselect", "rombankselect"}
Reaches(a) == Device(a) \in Kept /\ Device(Next16(a)) \in Kept /\ a # 65535

-------------------------------------------------------------------------------
(* bs3_cpu_interrupt pushes PC and FL into the memory itself, not through  *)
(* the bus, and jumps to the vector.                                       *)
FramedFlagsFirst(pc) ==   \* seeded fault: FL is pushed before PC
  MemoryWriteWord(MemoryWriteWord(store, Wrap(SP - 2), FlagWord(FL)), Wrap(SP - 4), pc)

Framed(pc) ==
  MemoryWriteWord(MemoryWriteWord(store, Wrap(SP - 2), pc), Wrap(SP - 4), FlagWord(FL))

Interrupt(n, pc) ==
  IF n = BADINSTR \/ FL.I = 1
  THEN /\ store' = Framed(pc)
       /\ SP' = Wrap(SP - 4)
       /\ PC' = MemoryReadWord(Framed(pc), 2 * n)
       /\ FL' = [FL EXCEPT !.I = 0]
       /\ pending' = NOPENDING
  ELSE /\ pending' = n
       /\ PC' = pc
       /\ UNCHANGED <<store, SP, FL>>

(* The head of bs3_cpu_exec, when an interrupt is pending or queued.       *)
TakeInterrupt(n) ==
  /\ Loaded /\ status \in {"DEFAULT", "WAIT"}
  /\ FL.I = 1
  /\ pending = n \/ (pending = NOPENDING /\ n \in Interrupts)
  /\ ope' = IRQ
  /\ Interrupt(n, PC)
  /\ status' = "DEFAULT"
  /\ UNCHANGED <<program, executed, W, loading>>

-------------------------------------------------------------------------------
(* NOP, and the transfers with the ports.  IN and OUT test a status s: 1   *)
(* says wait, 255 that there is none.  OUT2 from a register goes on with   *)
(* the code of OUT immediate and so takes the two bytes that follow.       *)
Nop(i) ==
  /\ i.op = "NOP"
  /\ Fetch(i) /\ Skip(1)
  /\ UNCHANGED <<W, SP, FL, status, pending, store>>

PortFlags(s) == [FL EXCEPT !.Z = Flag(s = 1), !.V = Flag(s = 255)]

In(i) ==
  /\ i.op = "IN"
  /\ Fetch(i) /\ Skip(2)
  /\ \E s \in {0, 1, 255} :
       /\ FL' = PortFlags(s)
       /\ W' = IF s = 1 THEN W ELSE PutB(W, i.x, i.imm)
  /\ UNCHANGED <<SP, status, pending, store>>

OutBytes(i) == IF i.op = "OUT2" /\ i.form = "B" THEN 4 ELSE 2

Out(i) ==
  /\ i.op \in {"OUT", "OUT2"}
  /\ Fetch(i) /\ Skip(OutBytes(i))
  /\ \E s \in {0, 1, 255} : FL' = PortFlags(s)
  /\ UNCHANGED <<W, SP, status, pending, store>>

(* The address of what follows, plus a distance of a word or of a byte.    *)
Lea(i) ==
  /\ i.op = "LEA"
  /\ Fetch(i)
  /\ \/ i.form = "W" /\ Skip(3) /\ W' = [W EXCEPT ![i.x] = Wrap(PC + 3 + Signed(16, i.imm))]
     \/ i.form = "B" /\ Skip(2) /\ W' = [W EXCEPT ![i.x] = Wrap(PC + 2 + Signed(8, i.imm))]
  /\ UNCHANGED <<SP, FL, status, pending, store>>

SetFlag(i) ==
  /\ i.op \in SetFlagOps
  /\ Fetch(i) /\ Skip(1)
  /\ FL' = CASE i.op = "CLC" -> [FL EXCEPT !.C = 0] [] i.op = "STC" -> [FL EXCEPT !.C = 1]
             [] i.op = "CLZ" -> [FL EXCEPT !.Z = 0] [] i.op = "STZ" -> [FL EXCEPT !.Z = 1]
             [] i.op = "CLV" -> [FL EXCEPT !.V = 0] [] i.op = "STV" -> [FL EXCEPT !.V = 1]
             [] i.op = "CLN" -> [FL EXCEPT !.N = 0] [] i.op = "STN" -> [FL EXCEPT !.N = 1]
  /\ UNCHANGED <<W, SP, status, pending, store>>

-------------------------------------------------------------------------------
(* The stack grows downwards, by words.                                    *)
Pushed(words) ==
  LET one == WriteWord(store, Wrap(SP - 2), words[1])
      two == WriteWord(one, Wrap(SP - 4), words[2])
      four == WriteWord(WriteWord(two, Wrap(SP - 6), words[3]), Wrap(SP - 8), words[4])
  IN  CASE Len(words) = 1 -> one [] Len(words) = 2 -> two [] Len(words) = 4 -> four
Push(words) ==
  /\ \A k \in 1 .. Len(words) : Reaches(Wrap(SP - 2 * k))
  /\ SP' = Wrap(SP - 2 * Len(words))
  /\ store' = Pushed(words)

OnStack(k) == ReadWord(store, Wrap(SP + 2 * k))
Pop(n) ==
  /\ \A k \in 0 .. n - 1 : Reaches(Wrap(SP + 2 * k))
  /\ SP' = Wrap(SP + 2 * n)

(* INT 1 asks the hypervisor.  INT n keeps I.                              *)
IntN(i) ==
  /\ i.op = "INT"
  /\ Fetch(i)
  /\ IF i.x = 1
     THEN Skip(1) /\ status' = "ESCHYP" /\ UNCHANGED <<SP, store>>
     ELSE /\ Push(<<Wrap(PC + 1), FlagWord(FL)>>)
          /\ PC' = MemoryReadWord(store', 2 * i.x)
          /\ UNCHANGED status
  /\ UNCHANGED <<W, FL, pending>>

(* Jumps and calls: to a word, to an address, to a distance.               *)
Target(i) ==
  CASE i.form = "W" -> W[i.x]
    [] i.form = "A" -> i.imm
    [] i.form = "R" -> Wrap(PC + 2 + Signed(8, i.imm))

Jump(i) ==
  /\ i.op = "J"
  /\ Fetch(i)
  /\ PC' = Target(i)
  /\ UNCHANGED <<W, SP, FL, status, pending, store>>

ReturnAddress(i) ==
  CASE i.form = "W" -> Wrap(PC + 1) [] i.form = "A" -> Wrap(PC + 3) [] i.form = "R" -> Wrap(PC + 2)

Call(i) ==
  /\ i.op = "C"
  /\ Fetch(i)
  /\ Push(<<ReturnAddress(i)>>)
  /\ PC' = Target(i)
  /\ UNCHANGED <<W, FL, status, pending>>

Ret(i) ==
  /\ i.op \in {"RET", "POPPC"}
  /\ Fetch(i)
  /\ Pop(1)
  /\ PC' = OnStack(0)
  /\ UNCHANGED <<W, FL, status, pending, store>>

Iret(i) ==
  /\ i.op = "IRET"
  /\ Fetch(i)
  /\ Pop(2)
  /\ FL' = FlagsOf(OnStack(0))
  /\ PC' = OnStack(1)
  /\ UNCHANGED <<W, status, pending, store>>

Taken(condition, f) ==
  CASE condition = "JZ"  -> f.Z = 1           [] condition = "JNZ" -> f.Z = 0
    [] condition = "JC"  -> f.C = 1           [] condition = "JNC" -> f.C = 0
    [] condition = "JN"  -> f.N = 1           [] condition = "JNN" -> f.N = 0
    [] condition = "JV"  -> f.V = 1           [] condition = "JNV" -> f.V = 0
    [] condition = "JA"  -> f.C = 1 /\ f.Z = 0
    [] condition = "JBE" -> f.C = 0 \/ f.Z = 1
    [] condition = "JGE" -> f.N = f.V
    [] condition = "JL"  -> f.N # f.V
    [] condition = "JG"  -> f.N = f.V /\ f.Z = 0
    [] condition = "JLE" -> f.N # f.V \/ f.Z = 1

JumpIf(i) ==
  /\ i.op \in Conditions
  /\ Fetch(i)
  /\ PC' = Wrap(PC + 2 + IF Taken(i.op, FL) THEN Signed(8, i.imm) ELSE 0)
  /\ UNCHANGED <<W, SP, FL, status, pending, store>>

-------------------------------------------------------------------------------
(* LD and SR: the eight ways m of an address, and the bytes they take.     *)
Address(i) ==
  Wrap(CASE i.m = 0 -> i.imm
         [] i.m = 1 -> W[i.y]
         [] i.m = 2 -> W[i.y] + i.imm
         [] i.m = 3 -> SP + W[i.y]
         [] i.m = 4 -> SP + i.imm
         [] i.m = 5 -> W[i.y] + W[i.z]
         [] i.m = 6 -> SP + W[i.y] + i.imm
         [] i.m = 7 -> W[i.y] + W[i.z] + i.imm)
ShortAddressBytes(m) ==   \* seeded fault: a whole address is skipped like a byte
  IF m \in {1, 3, 5} THEN 2 ELSE 3

AddressBytes(m) == CASE m = 0 -> 4 [] m \in {1, 3, 5} -> 2 [] m \in {2, 4, 6, 7} -> 3

LoadB(i) ==
  /\ i.op = "LD" /\ i.form = "B"
  /\ Fetch(i) /\ Skip(AddressBytes(i.m))
  /\ Device(Address(i)) \in Kept
  /\ W' = PutB(W, i.x, ReadByte(store, Address(i)))
  /\ UNCHANGED <<SP, FL, status, pending, store>>

LoadW(i) ==
  /\ i.op = "LD" /\ i.form = "W"
  /\ Fetch(i) /\ Skip(AddressBytes(i.m))
  /\ Reaches(Address(i))
  /\ W' = [W EXCEPT ![i.x] = ReadWord(store, Address(i))]
  /\ UNCHANGED <<SP, FL, status, pending, store>>

StoreB(i) ==
  /\ i.op = "SR" /\ i.form = "B"
  /\ Fetch(i) /\ Skip(AddressBytes(i.m))
  /\ Device(Address(i)) \in Kept
  /\ store' = WriteByte(store, Address(i), B(i.x))
  /\ UNCHANGED <<W, SP, FL, status, pending>>

StoreW(i) ==
  /\ i.op = "SR" /\ i.form = "W"
  /\ Fetch(i) /\ Skip(AddressBytes(i.m))
  /\ Reaches(Address(i))
  /\ store' = WriteWord(store, Address(i), W[i.x])
  /\ UNCHANGED <<W, SP, FL, status, pending>>

(* POP and PUSH.  A byte travels as a word; POPA takes W3 first.           *)
PopInto(i) ==
  /\ i.op \in {"POP", "POPA", "POPF", "DROP"}
  /\ Fetch(i) /\ Skip(1)
  /\ Pop(IF i.op = "POPA" THEN 4 ELSE 1)
  /\ W' = CASE i.op = "POP" /\ i.form = "B" -> PutB(W, i.x, Low(OnStack(0)))
            [] i.op = "POP" /\ i.form = "W" -> [W EXCEPT ![i.x] = OnStack(0)]
            [] i.op = "POPA" -> [j \in 0 .. 3 |-> OnStack(3 - j)]
            [] OTHER -> W
  /\ FL' = IF i.op = "POPF" THEN FlagsOf(OnStack(0)) ELSE FL
  /\ UNCHANGED <<status, pending, store>>

PushFrom(i) ==
  /\ i.op \in {"PUSH", "PUSHA", "PUSHF", "PUSHPC", "DUP"}
  /\ Fetch(i) /\ Skip(1)
  /\ i.op = "DUP" => Reaches(SP)
  /\ Push(CASE i.op = "PUSH" /\ i.form = "B" -> <<B(i.x)>>
            [] i.op = "PUSH" /\ i.form = "W" -> <<W[i.x]>>
            [] i.op = "PUSHA" -> <<W[0], W[1], W[2], W[3]>>
            [] i.op = "PUSHF" -> <<FlagWord(FL)>>
            [] i.op = "PUSHPC" -> <<PC>>
            [] i.op = "DUP" -> <<OnStack(0)>>)
  /\ UNCHANGED <<W, FL, status, pending>>

-------------------------------------------------------------------------------
(* The arithmetic.  Forms B and W work on two registers, BI and WI on a    *)
(* register and an immediate value, B1 and W1 shift by one.                *)
Bits(i) == IF i.form \in {"B", "BI", "B1"} THEN 8 ELSE 16
First(i) == IF Bits(i) = 8 THEN B(i.x) ELSE W[i.x]
Second(i) == CASE i.form = "B" -> B(i.y) [] i.form = "W" -> W[i.y] [] OTHER -> i.imm
Put(ws, i, j, v) == IF Bits(i) = 8 THEN PutB(ws, j, v) ELSE [ws EXCEPT ![j] = v]

Compute(i, result) ==
  /\ FL' = result.f
  /\ W' = IF i.op \in {"TST", "CMP"} THEN W ELSE Put(W, i, i.x, result.r)
  /\ UNCHANGED <<SP, status, pending, store>>

LogicStep(i, bytes) ==
  /\ i.op \in LogicOps
  /\ Fetch(i) /\ Skip(bytes)
  /\ Compute(i, Logic(i.op, Bits(i), First(i), Second(i), FL))

ArithStep(i, bytes, inverted) ==
  /\ i.op \in ArithOps
  /\ Fetch(i) /\ Skip(bytes)
  /\ Compute(i, Arith(i.op, Bits(i), First(i), Second(i), FL, inverted))

LogicB(i)  == i.form = "B"  /\ LogicStep(i, 2)
LogicW(i)  == i.form = "W"  /\ LogicStep(i, 2)
LogicBI(i) == i.form = "BI" /\ LogicStep(i, 3)
LogicWI(i) == i.form = "WI" /\ LogicStep(i, 4)
ArithB(i)  == i.form = "B"  /\ ArithStep(i, 2, TRUE)
ArithW(i)  == i.form = "W"  /\ ArithStep(i, 2, FALSE)
ArithBI(i) == i.form = "BI" /\ ArithStep(i, 3, TRUE)
ArithWI(i) == i.form = "WI" /\ ArithStep(i, 4, TRUE)

(* The count is a byte register; 32 and 64 are the bits of the types the   *)
(* code shifts.                                                            *)
ShiftB(i) ==
  /\ i.form = "B" /\ i.op \in ShiftOps \cup {"ROR", "ROL", "NOT"}
  /\ Fetch(i) /\ Skip(2)
  /\ \/ /\ i.op \in ShiftOps
        /\ \E k \in ShiftCounts(B(i.y), 32) : Compute(i, Shift(i.op, 8, B(i.x), k, FL, 0))
     \/ i.op \in {"ROR", "ROL"} /\ Compute(i, Rotate(i.op, 8, B(i.x), FL))
     \/ i.op = "NOT" /\ Compute(i, Complement(8, B(i.x), FL))

(* ROL takes N and Z from the byte that has the number of the word.        *)
RotateLeftW(i) ==
  LET turned == Rotate("ROL", 16, W[i.x], FL)
      byte == IF i.x % 2 = 0 THEN Low(W'[i.x \div 2]) ELSE High(W'[i.x \div 2])
  IN  /\ W' = [W EXCEPT ![i.x] = turned.r]
      /\ FL' = [turned.f EXCEPT !.N = 0, !.Z = Flag(byte = 0)]
      /\ UNCHANGED <<SP, status, pending, store>>

ShiftW(i) ==
  /\ i.form = "W" /\ i.op \in ShiftOps \cup {"ROR", "ROL", "NOT"}
  /\ Fetch(i) /\ Skip(2)
  /\ \/ /\ i.op \in ShiftOps
        /\ \E k \in ShiftCounts(B(i.y), 64), stale \in 0 .. 1 :
             Compute(i, Shift(i.op, 16, W[i.x], k, FL, stale))
     \/ i.op = "ROR" /\ Compute(i, Rotate("ROR", 16, W[i.x], FL))
     \/ i.op = "ROL" /\ RotateLeftW(i)
     \/ i.op = "NOT" /\ Compute(i, Complement(16, W[i.x], FL))

UnaryB(i) ==
  /\ i.form = "B1" /\ i.op \in ShiftOps \cup UnaryOps
  /\ Fetch(i) /\ Skip(2)
  /\ Compute(i, CASE i.op \in ShiftOps -> Shift(i.op, 8, B(i.x), 1, FL, 0)
                  [] i.op = "INC" -> Increment(8, B(i.x), FL)
                  [] i.op = "DEC" -> Decrement(8, B(i.x), Bit(B(i.x), 7), FL)
                  [] i.op = "NEG" -> Negate(8, B(i.x), FL))

(* SHR by one takes N from bit 7; SAR by one drops the four highest bits,  *)
(* takes Z from the byte that has the number of the word and C from a      *)
(* variable that was not assigned.                                         *)
ShiftRight1W(i) ==
  LET half == W[i.x] \div 2
  IN  Compute(i, [r |-> half, f |-> [NZ(16, half, FL) EXCEPT !.C = W[i.x] % 2, !.N = Bit(half, 7)]])

SarW1(i) ==
  LET byte == IF i.x % 2 = 0 THEN Low(W'[i.x \div 2]) ELSE High(W'[i.x \div 2])
  IN  /\ W' = [W EXCEPT ![i.x] = (@ \div 2) % 4096]
      /\ \E stale \in 0 .. 1 : FL' = [FL EXCEPT !.N = 0, !.Z = Flag(byte = 0), !.C = stale]
      /\ UNCHANGED <<SP, status, pending, store>>

UnaryW(i) ==
  /\ i.form = "W1" /\ i.op \in ShiftOps \cup UnaryOps
  /\ Fetch(i) /\ Skip(2)
  /\ \/ i.op = "SHL" /\ Compute(i, Shl(16, W[i.x], 1, FL))
     \/ i.op = "SHR" /\ ShiftRight1W(i)
     \/ i.op = "SAR" /\ SarW1(i)
     \/ i.op = "INC" /\ Compute(i, Increment(16, W[i.x], FL))
     \/ i.op = "DEC" /\ Compute(i, Decrement(16, W[i.x], Bit(B(i.x), 7), FL))
     \/ i.op = "NEG" /\ Compute(i, Negate(16, W[i.x], FL))

-------------------------------------------------------------------------------
(* Products and quotients have two results: high (or the remainder) goes   *)
(* to register j first, low (or the quotient) to register x.               *)
TwoResults(i, j, second, first) == Put(Put(W, i, j, second), i, i.x, first)

Multiply(i, j, p) ==
  LET after == TwoResults(i, j, p.high, p.low)
      top == IF Bits(i) = 16 THEN after[j]
             ELSE IF j % 2 = 0 THEN Low(after[j \div 2]) ELSE High(after[j \div 2])
  IN  /\ W' = after
      /\ FL' = [FL EXCEPT !.N = Bit(top, Bits(i) - 1), !.Z = Flag(p.high = 0 /\ p.low = 0)]
      /\ UNCHANGED <<SP, status, pending, store>>

(* The signed product of words is computed, and then the halves of another *)
(* variable are stored, one that was not assigned.                         *)
ProductOf(i, x, y) ==
  CASE i.op = "MUL" -> {Product(Bits(i), x, y)}
    [] i.op = "IMUL" /\ Bits(i) = 8 -> {SignedProduct8(x, y)}
    [] i.op = "IMUL" /\ Bits(i) = 16 -> [high : Stale, low : Stale]

MultiplyStep(i, j, bytes) ==
  /\ i.op \in {"MUL", "IMUL"}
  /\ Fetch(i) /\ Skip(bytes)
  /\ \E p \in ProductOf(i, First(i), Second(i)) : Multiply(i, j, p)

(* A division by zero interrupts, with I = 1, or leaves an interrupt       *)
(* pending; the registers stay.                                            *)
Quotient(i, j, d) ==
  /\ W' = TwoResults(i, j, d.remainder, d.quotient)
  /\ FL' = NZ(Bits(i), d.quotient, FL)

DivideStep(i, j, bytes) ==
  /\ i.op \in {"DIV", "IDIV"}
  /\ Fetch(i)
  /\ IF Second(i) # 0
     THEN /\ Skip(bytes)
          /\ Quotient(i, j, IF i.op = "DIV" THEN Division(Bits(i), First(i), Second(i))
                            ELSE SignedDivision(Bits(i), First(i), Second(i)))
          /\ UNCHANGED <<SP, status, pending, store>>
     ELSE /\ status' = "BADINSTR"
          /\ Interrupt(DIVZERO, Wrap(PC + bytes))
          /\ UNCHANGED W

MulDivStep(i, j, bytes) == MultiplyStep(i, j, bytes) \/ DivideStep(i, j, bytes)

MulDivB(i)  == i.form = "B"  /\ MulDivStep(i, i.y, 2)
MulDivW(i)  == i.form = "W"  /\ MulDivStep(i, i.z, 2)
MulDivBI(i) == i.form = "BI" /\ MulDivStep(i, i.y, 3)
MulDivWI(i) == i.form = "WI" /\ MulDivStep(i, i.y, 4)

(* Moves between registers, between a word and SP, and of an immediate.    *)
Move(i) ==
  /\ i.op = "MOV" /\ i.form \in {"B", "W"}
  /\ Fetch(i) /\ Skip(2)
  /\ W' = Put(W, i, i.x, Second(i))
  /\ UNCHANGED <<SP, FL, status, pending, store>>

Swap(i) ==
  /\ i.op = "SWP"
  /\ Fetch(i) /\ Skip(2)
  /\ W' = Put(Put(W, i, i.x, Second(i)), i, i.y, First(i))
  /\ UNCHANGED <<SP, FL, status, pending, store>>

MoveSP(i) ==
  /\ i.op = "MOV" /\ i.form \in {"SW", "WS"}
  /\ Fetch(i) /\ Skip(2)
  /\ IF i.form = "SW" THEN SP' = W[i.x] /\ UNCHANGED W
     ELSE W' = [W EXCEPT ![i.x] = SP] /\ UNCHANGED SP
  /\ UNCHANGED <<FL, status, pending, store>>

MoveImmediate(i) ==
  /\ i.op = "MOV"
  /\ \/ i.form = "BI" /\ Fetch(i) /\ Skip(3) /\ W' = PutB(W, i.x, i.imm) /\ UNCHANGED SP
     \/ i.form = "WI" /\ Fetch(i) /\ Skip(4) /\ W' = [W EXCEPT ![i.x] = i.imm] /\ UNCHANGED SP
     \/ i.form = "SI" /\ Fetch(i) /\ Skip(3) /\ SP' = i.imm /\ UNCHANGED W
  /\ UNCHANGED <<FL, status, pending, store>>

-------------------------------------------------------------------------------
(* The control of the processor.  RESET and HLT leave PC on themselves.    *)
Control(i) ==
  /\ i.op \in {"STI", "CLI", "HEVT", "WAIT", "RESET", "HLT"}
  /\ Fetch(i) /\ Skip(IF i.op \in {"RESET", "HLT"} THEN 0 ELSE 1)
  /\ FL' = CASE i.op = "STI" -> [FL EXCEPT !.I = 1] [] i.op = "CLI" -> [FL EXCEPT !.I = 0]
             [] OTHER -> FL
  /\ status' = CASE i.op = "HLT" -> "HALT" [] i.op \in {"HEVT", "WAIT", "RESET"} -> i.op
                 [] OTHER -> status
  /\ UNCHANGED <<W, SP, pending, store>>

(* An opcode without instruction interrupts whatever I is, and PC stays.   *)
BadInstruction(i) ==
  /\ i.op = "BAD"
  /\ Fetch(i)
  /\ status' = "BADINSTR"
  /\ Interrupt(BADINSTR, PC)
  /\ UNCHANGED W

(* bs3_hyper_main between two instructions.                                *)
Hypervisor ==
  /\ status \in {"HEVT", "ESCHYP", "BADINSTR"}
  /\ status' = "DEFAULT"
  /\ UNCHANGED <<program, executed, W, SP, PC, FL, pending, store, loading, ope>>

(* A reset starts the devices again and loads the memory.                  *)
Reset ==
  /\ Loaded /\ status = "RESET"
  /\ store' = Opened(Started)
  /\ map' = 0 /\ left' = {}
  /\ UNCHANGED <<program, executed, W, SP, PC, FL, status, pending, ope>>

(* bs3_hyper_load_memory: each map of a chain in turn, its banks selected, *)
(* its bytes in use written through the bus in the order of the addresses; *)
(* code is a function from the addresses in use.                           *)
LoadMap ==
  /\ map < Len(CodeMaps) /\ left = {}
  /\ map' = map + 1
  /\ left' = DOMAIN CodeMaps[map + 1].code
  /\ store' = SelectBanks(store, CodeMaps[map + 1])
  /\ UNCHANGED <<program, executed, W, SP, PC, FL, status, pending, ope>>

LoadByte ==
  /\ ~Loaded
  /\ \E a \in left :
       /\ \A b \in left : a <= b
       /\ store' = WriteByte(store, a, CodeMaps[map].code[a])
       /\ left' = left \ {a}
  /\ UNCHANGED <<program, executed, W, SP, PC, FL, status, pending, map, ope>>

(* The chain is at its end, and bs3_cpu_init follows.                      *)
CpuInit ==
  /\ map = Len(CodeMaps) /\ left = {}
  /\ map' = map + 1
  /\ store' = Closed(store)
  /\ PC' = MemoryReadWord(store', 0)
  /\ SP' = 1024
  /\ W' = [j \in 0 .. 3 |-> 0]
  /\ FL' = ClearedFlags
  /\ status' = "DEFAULT"
  /\ pending' = NOPENDING
  /\ UNCHANGED <<program, executed, left, ope>>

(* A program begins, with what the instructions before it have left.       *)
Begin ==
  /\ Loaded /\ program = << >> /\ ope = None
  /\ \E start \in Starts :
       program' = start.program /\ W' = start.W /\ SP' = start.SP /\ FL' = start.FL
  /\ UNCHANGED <<executed, PC, status, pending, store, loading, ope>>

Execute(i) ==
  \/ Nop(i) \/ In(i) \/ Out(i) \/ Lea(i) \/ SetFlag(i)
  \/ IntN(i) \/ Jump(i) \/ Call(i) \/ Ret(i) \/ Iret(i) \/ JumpIf(i)
  \/ LoadB(i) \/ LoadW(i) \/ StoreB(i) \/ StoreW(i) \/ PopInto(i) \/ PushFrom(i)
  \/ LogicB(i) \/ LogicW(i) \/ LogicBI(i) \/ LogicWI(i)
  \/ ArithB(i) \/ ArithW(i) \/ ArithBI(i) \/ ArithWI(i)
  \/ ShiftB(i) \/ ShiftW(i) \/ UnaryB(i) \/ UnaryW(i)
  \/ MulDivB(i) \/ MulDivW(i) \/ MulDivBI(i) \/ MulDivWI(i)
  \/ Move(i) \/ Swap(i) \/ MoveSP(i) \/ MoveImmediate(i)
  \/ Control(i) \/ BadInstruction(i)

ExecuteNext == executed < Len(program) /\ Execute(program[executed + 1])

Next ==
  \/ ExecuteNext
  \/ \E n \in Interrupts \cup {DIVZERO} : TakeInterrupt(n)
  \/ Hypervisor
  \/ Reset \/ LoadMap \/ LoadByte \/ CpuInit \/ Begin

Spec == Init /\ [][Next]_vars

-------------------------------------------------------------------------------
(* Properties.                                                             *)

StoreOK(s) ==
  /\ DOMAIN s = {"m", "ram", "ramnumber", "rom", "romnumber", "flash"}
  /\ \A k \in DOMAIN s.m : s.m[k] \in Byte
  /\ \A k \in DOMAIN s.ram : s.ram[k] \in Byte
  /\ \A k \in DOMAIN s.rom : s.rom[k] \in Byte
  /\ s.ramnumber \in Byte /\ s.romnumber \in Byte /\ s.flash \in BOOLEAN

TypeOK ==
  /\ W \in [0 .. 3 -> Word]
  /\ SP \in Word /\ PC \in Word
  /\ FL \in Flags
  /\ status \in {"DEFAULT", "HEVT", "WAIT", "ESCHYP", "RESET", "HALT", "BADINSTR"}
  /\ pending \in Interrupts \cup {NOPENDING, DIVZERO}
  /\ executed \in 0 .. Len(program)
  /\ \A k \in 1 .. Len(program) : WellFormed(program[k])
  /\ StoreOK(store)
  /\ map \in 0 .. Len(CodeMaps) + 1
  /\ left \subseteq IF map \in 1 .. Len(CodeMaps) THEN DOMAIN CodeMaps[map].code ELSE {}

(* Where a stack may be: the memory (below the ports, or above up to the   *)
(* banks) or a bank of RAM that exists.                                    *)
Places(sp) ==
  \/ Device(sp) = "memory"
  \/ Device(sp) = "rambank" /\ store.ramnumber < RamBanks

(* An interrupt pushes into the memory even where a bank is plugged, and   *)
(* IRET would take its words from the bank.                                *)
FrameInMemory == Device(SP') = "memory" /\ Device(Wrap(SP' + 2)) = "memory"

(* An instruction takes the bytes that the table of the assembler gives    *)
(* it: PC moves by them, or the address pushed by a call, by INT or by a   *)
(* division by zero is the one after them, and a jump starts from there.   *)
(* (Pushed where a stack may be.)  OUT2 from a register is left out: its   *)
(* code has no break (bs3.c:228) and takes two more bytes of the program.  *)
After(i) == Wrap(PC + Size(i))
PushedAt(k) == ReadWord(store', Wrap(SP' + 2 * k))
LengthAgrees(i) ==
  CASE i.op \in {"J", "RET", "POPPC", "IRET", "HLT", "RESET", "BAD"} -> TRUE
    [] i.op = "OUT2" /\ i.form = "B" -> TRUE
    [] i.op = "C" -> Places(SP) /\ Places(SP') => PushedAt(0) = After(i)
    [] i.op = "INT" /\ i.x # 1 -> Places(SP) /\ Places(SP') => PushedAt(1) = After(i)
    [] i.op \in Conditions -> PC' \in {After(i), Wrap(After(i) + Signed(8, i.imm))}
    [] i.op \in {"DIV", "IDIV"} /\ SP' # SP -> FrameInMemory => PushedAt(1) = After(i)
    [] OTHER -> PC' = After(i)

SizeIsTabled == [][executed' = executed + 1 => LengthAgrees(ope')]_vars

(* After CMP the conditional jumps decide as their names say: equality     *)
(* always; without sign when the second operand is not 0 (subtracting 0    *)
(* leaves no carry); with sign between word registers, when the second is  *)
(* not the least number, which is its own opposite.                        *)
SignedAgrees(w, x, y) ==
  /\ Taken("JL", FL) <=> Signed(w, x) < Signed(w, y)
  /\ Taken("JGE", FL) <=> Signed(w, x) >= Signed(w, y)
  /\ Taken("JG", FL) <=> Signed(w, x) > Signed(w, y)
  /\ Taken("JLE", FL) <=> Signed(w, x) <= Signed(w, y)

UnsignedAgrees(x, y) ==
  /\ Taken("JC", FL) <=> x >= y
  /\ Taken("JA", FL) <=> x > y
  /\ Taken("JBE", FL) <=> x <= y

ComparisonsDecide ==
  ope.op = "CMP" =>
    LET x == First(ope)
        y == Second(ope)
    IN  /\ Taken("JZ", FL) <=> x = y
        /\ y # 0 => UnsignedAgrees(x, y)
        /\ ope.form = "W" /\ y # 32768 => SignedAgrees(16, x, y)

(* The jumps with sign decide after the comparison of bytes and with       *)
(* immediate values too, for every second operand but the least number.    *)
SignedComparisonsDecide ==
  ope.op = "CMP" /\ Second(ope) # 2^(Bits(ope) - 1) => SignedAgrees(Bits(ope), First(ope), Second(ope))

(* What an instruction computes is what the numbers give: sums and         *)
(* differences with their carry, the two halves of a product, quotient and *)
(* remainder, shifts as multiplications and divisions by powers of two.    *)
(* Left out, because the code does not give what the numbers do: the       *)
(* signed product of words, stored from a stale variable (bs3.c:1178); the *)
(* signed shift of a negative word, whose sign the code does not see (986);*)
(* that of a word from 8192 up by one, which loses four bits (1508); and   *)
(* the carry after subtracting 0, which is none (881).  The carries of     *)
(* shifts to the right, stale ones for words by a count (980), shifts by   *)
(* the width or more, divisions by 0 and two results in one register are   *)
(* not looked at.                                                          *)
ResultOf(i, j) ==
  IF Bits(i) = 16 THEN W'[j] ELSE IF j % 2 = 0 THEN Low(W'[j \div 2]) ELSE High(W'[j \div 2])
OtherRegister(i) == IF i.form = "W" THEN i.z ELSE i.y
Magnitude(v) == IF v < 0 THEN -v ELSE v

SumIsExact(i, w, x, y, r) ==
  CASE i.op = "ADD" -> r + 2^w * FL'.C = x + y
    [] i.op = "ADC" -> r + 2^w * FL'.C = x + y + FL.C
    [] i.op = "SUB" -> r = (x - y) % 2^w /\ (y # 0 => (FL'.C = 1 <=> x >= y))
    [] i.op = "SBB" -> r - 2^w * (1 - FL'.C) = x - y - (1 - FL.C)
    [] i.op = "INC" -> r + 2^w * FL'.C = x + 1
    [] i.op = "DEC" -> r - 2^w * FL'.C = x - 1
    [] i.op = "NEG" -> (r + x) % 2^w = 0

(* high * 2^16 + low = x * y, said of the two bytes of x so that no number *)
(* is too large for the checker.                                           *)
HalvesOfProduct(high, low, x, y) ==
  LET rest == (x % 256) * y - low
  IN  rest % 256 = 0 /\ rest \div 256 = high * 256 - (x \div 256) * y

ProductIsExact(i, w, x, y, r) ==
  LET high == ResultOf(i, OtherRegister(i))
  IN  CASE i.op = "MUL" /\ w = 8 -> high * 256 + r = x * y
        [] i.op = "MUL" /\ w = 16 -> HalvesOfProduct(high, r, x, y)
        [] i.op = "IMUL" -> w = 8 => Signed(16, high * 256 + r) = Signed(8, x) * Signed(8, y)

QuotientIsExact(i, w, x, y, r) ==
  LET rest == ResultOf(i, OtherRegister(i))
      a == Signed(w, x)
      b == Signed(w, y)
  IN  CASE i.op = "DIV" -> rest < y /\ (x - rest) \div y = r /\ (x - rest) % y = 0
        [] i.op = "IDIV" -> /\ Magnitude(Signed(w, rest)) < Magnitude(b)
                            /\ Signed(w, rest) # 0 => (Signed(w, rest) < 0 <=> a < 0)
                            /\ (Signed(w, r) * b + Signed(w, rest) - a) % 2^w = 0

ShiftIsExact(i, w, x, r) ==
  LET k == IF i.form \in {"B1", "W1"} THEN 1 ELSE B(i.y)
  IN  k < w => CASE i.op = "SHL" -> r = (x * 2^k) % 2^w /\ (k > 0 => FL'.C = (x \div 2^(w - k)) % 2)
                 [] i.op = "SHR" -> r = x \div 2^k
                 [] i.op = "SAR" -> (w = 8 \/ x < IF i.form = "W1" THEN 8192 ELSE 32768)
                                      => Signed(w, r) = Signed(w, x) \div 2^k

ArithmeticIsExact ==
  [][executed' = executed + 1 =>
       LET i == ope'
           w == Bits(i)
           x == First(i)
           y == Second(i)
           r == ResultOf(i, i.x)
       IN  /\ i.op \in {"ADD", "ADC", "SUB", "SBB"} \cup UnaryOps => SumIsExact(i, w, x, y, r)
           /\ i.op \in {"MUL", "IMUL"} /\ OtherRegister(i) # i.x => ProductIsExact(i, w, x, y, r)
           /\ i.op \in {"DIV", "IDIV"} /\ y # 0 /\ OtherRegister(i) # i.x => QuotientIsExact(i, w, x, y, r)
           /\ i.op \in ShiftOps => ShiftIsExact(i, w, x, r)]_vars

(* What a push leaves on the stack is what its counterpart takes back:     *)
(* RET the address after the call, IRET the flags and PC that an INT or an *)
(* interrupt found, POPA, POPF and POP the registers.                      *)
FrameOf(i) ==
  CASE i.op = "C" -> PushedAt(0) = ReturnAddress(i)
    [] i.op = "INT" /\ i.x # 1 -> FlagsOf(PushedAt(0)) = FL /\ PushedAt(1) = Wrap(PC + 1)
    [] i.op \in {"IRQ", "BAD"} -> FrameInMemory /\ SP' # SP => FlagsOf(PushedAt(0)) = FL /\ PushedAt(1) = PC
    [] i.op = "PUSHA" -> [j \in 0 .. 3 |-> PushedAt(3 - j)] = W
    [] i.op = "PUSHF" -> FlagsOf(PushedAt(0)) = FL
    [] i.op = "PUSH" -> IF i.form = "B" THEN Low(PushedAt(0)) = B(i.x) ELSE PushedAt(0) = W[i.x]
    [] i.op = "DUP" -> PushedAt(0) = PushedAt(1)
    [] OTHER -> TRUE

(* A push or a pop, of an instruction or of an interrupt, leaves the words *)
(* above it on the stack as they are, so that frames nest; only an         *)
(* instruction that stores is free to change them.                         *)
KeepsAbove ==
  LET kept == IF SP' < SP THEN SP ELSE SP'
  IN  \A k \in 0 .. StackDepth - 1 :
        ReadWord(store', Wrap(kept + 2 * k)) = ReadWord(store, Wrap(kept + 2 * k))

(* Frames come back: what each of these pushes is there for the instruction*)
(* that takes it, and no push or pop in between touches it.                *)
FramesComeBack ==
  [][Places(SP) /\ Places(SP') =>
       /\ status \in {"DEFAULT", "WAIT"} => FrameOf(ope')
       /\ Loaded /\ status # "RESET" /\ (executed' = executed + 1 => ope'.op \notin {"SR", "MOV"})
            => KeepsAbove]_vars

(* A word is its two bytes, low first, whatever is behind its addresses:   *)
(* LD of a word gives what LD of the bytes would, and after SR the bytes   *)
(* in memory or in a bank of RAM are the halves of the word.               *)
(* Seams are the words whose bytes belong to two devices, so the last      *)
(* address of a bank, and those in the upper half of a bank of ROM, which  *)
(* are read from the lower half (dev_bs3rombank.c:37).                     *)
Seam(a) ==
  \/ Device(a) # Device(Next16(a))
  \/ Device(a) = "rombank" /\ a % 8192 >= 4096

WordIsTwoBytes ==
  [][executed' = executed + 1 /\ ope'.op \in {"LD", "SR"} /\ ope'.form = "W" =>
       LET a == Address(ope')
           bytes(s) == <<ReadByte(s, a), ReadByte(s, Next16(a))>>
           word == W'[ope'.x]
       IN  /\ ope'.op = "LD" /\ ~Seam(a) => bytes(store) = <<Low(word), High(word)>>
           /\ ope'.op = "SR" /\ ~Seam(a) /\ Places(a) => bytes(store') = <<Low(word), High(word)>>]_vars

(* Every byte of a program that was linked for a bank is found when the    *)
(* bank is selected, when the first instruction is about to run and after  *)
(* each RESET: loading selects the banks through the same registers as the *)
(* program.                                                                *)
InBank(cm, a) ==
  CASE Device(a) = "rambank" -> <<"ram", cm.rambank, a>>
    [] Device(a) = "rombank" -> <<"rom", cm.rombank, a>>
    [] OTHER -> <<"memory", 0, a>>
LastLoader(k, a) ==
  \A l \in k + 1 .. Len(CodeMaps) : \A b \in DOMAIN CodeMaps[l].code : InBank(CodeMaps[l], b) # InBank(CodeMaps[k], a)

(* Neither a port nor a bank that does not exist.                          *)
Storage(cm, a) ==
  \/ Device(a) = "memory"
  \/ Device(a) = "rambank" /\ cm.rambank < RamBanks
  \/ Device(a) = "rombank" /\ cm.rombank < RomBanks

JustLoaded ==
  /\ Loaded
  /\ \/ executed = 0 /\ ope = None
     \/ ope.op = "RESET" /\ status = "DEFAULT"

ProgramIsLoaded ==
  JustLoaded =>
    \A k \in 1 .. Len(CodeMaps) : \A a \in DOMAIN CodeMaps[k].code :
      Storage(CodeMaps[k], a) /\ LastLoader(k, a) =>
        ReadByte(RamSelect(RomSelect(store, CodeMaps[k].rombank), CodeMaps[k].rambank), a) = CodeMaps[k].code[a]
===============================================================================
