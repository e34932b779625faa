----------------------------- MODULE BS3CpuProofs -----------------------------
(***************************************************************************)
(* Proofs about the instructions of the CPU and the bus behind them, for   *)
(* any programs, any code to load, any interrupts and any stack.           *)
(***************************************************************************)
EXTENDS BS3Cpu, TLAPS

(* Bytes and words.                                                        *)
LEMMA ByteIsWord ==
  /\ 0 \in Byte /\ 0 \in Word
  /\ \A b \in Byte : b \in Word
  BY DEF Byte, Word

LEMMA WordOfBytes ==
  ASSUME NEW l \in Byte, NEW h \in Byte
  PROVE  l + 256 * h \in Word /\ Low(l + 256 * h) = l /\ High(l + 256 * h) = h
  BY DEF Byte, Word, Low, High

LEMMA BytesOfWord ==
  ASSUME NEW v \in Word
  PROVE  /\ Low(v) \in Byte /\ High(v) \in Byte
         /\ Low(v) + 256 * High(v) = v
  BY DEF Byte, Word, Low, High

LEMMA WrapIsWord ==
  ASSUME NEW a \in Int
  PROVE  Wrap(a) \in Word /\ Next16(a) \in Word
  BY DEF Word, Wrap, Next16

LEMMA BitIsBit ==
  ASSUME NEW x \in Int
  PROVE  \A i \in 0 .. 16 : Bit(x, i) \in {0, 1}
  BY DEF Bit

LEMMA PowerOfTwo ==
  ASSUME NEW k \in 0 .. 16
  PROVE  2^k \in Int /\ 1 <= 2^k
  <1>0. CASE k = 0
    BY <1>0
  <1>1. CASE k = 1
    BY <1>1
  <1>2. CASE k = 2
    BY <1>2
  <1>3. CASE k = 3
    BY <1>3
  <1>4. CASE k = 4
    BY <1>4
  <1>5. CASE k = 5
    BY <1>5
  <1>6. CASE k = 6
    BY <1>6
  <1>7. CASE k = 7
    BY <1>7
  <1>8. CASE k = 8
    BY <1>8
  <1>9. CASE k = 9
    BY <1>9
  <1>10. CASE k = 10
    BY <1>10
  <1>11. CASE k = 11
    BY <1>11
  <1>12. CASE k = 12
    BY <1>12
  <1>13. CASE k = 13
    BY <1>13
  <1>14. CASE k = 14
    BY <1>14
  <1>15. CASE k = 15
    BY <1>15
  <1>16. CASE k = 16
    BY <1>16
  <1> QED BY <1>0, <1>1, <1>2, <1>3, <1>4, <1>5, <1>6, <1>7, <1>8, <1>9, <1>10, <1>11, <1>12, <1>13, <1>14, <1>15, <1>16

LEMMA DivisionIsLess ==
  ASSUME NEW x \in Int, NEW d \in Int, 0 <= x, 1 <= d
  PROVE  x \div d \in Int /\ 0 <= x \div d /\ x \div d <= x
  OBVIOUS

(* The bits combined one by one give a number of as many bits.             *)
LEMMA AndInRange ==
  ASSUME NEW x \in Int, NEW y \in Int
  PROVE  And(8, x, y) \in Byte /\ And(16, x, y) \in Word
  <1> DEFINE c(i) == Bit(x, i) * Bit(y, i)
  <1>0. \A i \in 0 .. 15 : Bit(x, i) \in {0, 1} /\ Bit(y, i) \in {0, 1}
    BY BitIsBit
  <1>1. \A i \in 0 .. 15 : c(i) \in {0, 1}
    BY <1>0
  <1>2. And(8, x, y) = c(0) + 2 * c(1) + 4 * c(2) + 8 * c(3) + 16 * c(4) + 32 * c(5) + 64 * c(6) + 128 * c(7)
    BY <1>0 DEF And, Bitwise2
  <1>3. And(16, x, y) = And(8, x, y) + (256 * c(8) + 512 * c(9) + 1024 * c(10) + 2048 * c(11)
                                         + 4096 * c(12) + 8192 * c(13) + 16384 * c(14) + 32768 * c(15))
    BY <1>0 DEF And, Bitwise2
  <1> HIDE DEF c
  <1>4. And(8, x, y) \in Byte
    BY <1>1, <1>2 DEF Byte
  <1>5. And(16, x, y) \in Word
    BY <1>1, <1>3, <1>4 DEF Byte, Word
  <1> QED BY <1>4, <1>5

LEMMA OrInRange ==
  ASSUME NEW x \in Int, NEW y \in Int
  PROVE  Or(8, x, y) \in Byte /\ Or(16, x, y) \in Word
  <1> DEFINE c(i) == Bit(x, i) + Bit(y, i) - Bit(x, i) * Bit(y, i)
  <1>0. \A i \in 0 .. 15 : Bit(x, i) \in {0, 1} /\ Bit(y, i) \in {0, 1}
    BY BitIsBit
  <1>1. \A i \in 0 .. 15 : c(i) \in {0, 1}
    BY <1>0
  <1>2. Or(8, x, y) = c(0) + 2 * c(1) + 4 * c(2) + 8 * c(3) + 16 * c(4) + 32 * c(5) + 64 * c(6) + 128 * c(7)
    BY <1>0 DEF Or, Bitwise2
  <1>3. Or(16, x, y) = Or(8, x, y) + (256 * c(8) + 512 * c(9) + 1024 * c(10) + 2048 * c(11)
                                       + 4096 * c(12) + 8192 * c(13) + 16384 * c(14) + 32768 * c(15))
    BY <1>0 DEF Or, Bitwise2
  <1> HIDE DEF c
  <1>4. Or(8, x, y) \in Byte
    BY <1>1, <1>2 DEF Byte
  <1>5. Or(16, x, y) \in Word
    BY <1>1, <1>3, <1>4 DEF Byte, Word
  <1> QED BY <1>4, <1>5

LEMMA EorInRange ==
  ASSUME NEW x \in Int, NEW y \in Int
  PROVE  Eor(8, x, y) \in Byte /\ Eor(16, x, y) \in Word
  <1> DEFINE c(i) == (Bit(x, i) + Bit(y, i)) % 2
  <1>0. \A i \in 0 .. 15 : Bit(x, i) \in {0, 1} /\ Bit(y, i) \in {0, 1}
    BY BitIsBit
  <1>1. \A i \in 0 .. 15 : c(i) \in {0, 1}
    BY <1>0
  <1>2. Eor(8, x, y) = c(0) + 2 * c(1) + 4 * c(2) + 8 * c(3) + 16 * c(4) + 32 * c(5) + 64 * c(6) + 128 * c(7)
    BY <1>0 DEF Eor, Bitwise2
  <1>3. Eor(16, x, y) = Eor(8, x, y) + (256 * c(8) + 512 * c(9) + 1024 * c(10) + 2048 * c(11)
                                         + 4096 * c(12) + 8192 * c(13) + 16384 * c(14) + 32768 * c(15))
    BY <1>0 DEF Eor, Bitwise2
  <1> HIDE DEF c
  <1>4. Eor(8, x, y) \in Byte
    BY <1>1, <1>2 DEF Byte
  <1>5. Eor(16, x, y) \in Word
    BY <1>1, <1>3, <1>4 DEF Byte, Word
  <1> QED BY <1>4, <1>5

-------------------------------------------------------------------------------
(* The bus: which device has an address.                                   *)
LEMMA MemoryDevice ==
  ASSUME NEW a \in Int, 0 <= a, a <= 255 \/ (296 <= a /\ a <= 53247)
  PROVE  Device(a) = "memory"
  BY DEF Device, Plugged

LEMMA PortDevice ==
  ASSUME NEW a \in Int, 256 <= a, a <= 295, a # 262, a # 263
  PROVE  Device(a) \in {"inout", "timer", "rtc", "gfx", "irqctrl"}
  BY DEF Device, Plugged

LEMMA SelectDevices == Device(262) = "rombankselect" /\ Device(263) = "rambankselect"
  BY DEF Device, Plugged

LEMMA RamDevice ==
  ASSUME NEW a \in Int, 53248 <= a, a <= 57343
  PROVE  Device(a) = "rambank"
  BY DEF Device, Plugged

LEMMA RomDevice ==
  ASSUME NEW a \in Int, 57344 <= a, a <= 65535
  PROVE  Device(a) = "rombank"
  BY DEF Device, Plugged

LEMMA DeviceRanges ==
  ASSUME NEW a \in Word
  PROVE  /\ Device(a) = "memory" <=> a <= 255 \/ (296 <= a /\ a <= 53247)
         /\ Device(a) = "rambank" <=> 53248 <= a /\ a <= 57343
         /\ Device(a) = "rombank" <=> 57344 <= a
         /\ Device(a) = "rambankselect" <=> a = 263
         /\ Device(a) = "rombankselect" <=> a = 262
  <1>1. a \in Int /\ 0 <= a /\ a <= 65535
    BY DEF Word
  <1>2. CASE a <= 255 \/ (296 <= a /\ a <= 53247)
    BY <1>1, <1>2, MemoryDevice
  <1>3. CASE 256 <= a /\ a <= 295 /\ a # 262 /\ a # 263
    BY <1>1, <1>3, PortDevice
  <1>4. CASE a \in {262, 263}
    BY <1>4, SelectDevices
  <1>5. CASE 53248 <= a /\ a <= 57343
    BY <1>1, <1>5, RamDevice
  <1>6. CASE 57344 <= a
    BY <1>1, <1>6, RomDevice
  <1> QED BY <1>1, <1>2, <1>3, <1>4, <1>5, <1>6

-------------------------------------------------------------------------------
(* Its stores: every read is of bytes, every write keeps them.             *)
LEMMA CellOfSet ==
  ASSUME NEW f, NEW k, NEW v, NEW j
  PROVE  Cell(SetCell(f, k, v), j) = IF j = k THEN v ELSE Cell(f, j)
  BY DEF Cell, SetCell

LEMMA CellIsByte ==
  ASSUME NEW s, StoreOK(s)
  PROVE  \A k : Cell(s.m, k) \in Byte /\ Cell(s.ram, k) \in Byte /\ Cell(s.rom, k) \in Byte
  BY ByteIsWord DEF Cell, StoreOK

LEMMA SetCellKeepsBytes ==
  ASSUME NEW f, \A j \in DOMAIN f : f[j] \in Byte, NEW k, NEW v \in Byte
  PROVE  \A j \in DOMAIN SetCell(f, k, v) : SetCell(f, k, v)[j] \in Byte
  BY DEF SetCell

LEMMA ReadByteIsByte ==
  ASSUME NEW s, StoreOK(s), NEW a
  PROVE  ReadByte(s, a) \in Byte /\ RamReadByte(s, a) \in Byte /\ RomReadByte(s, a) \in Byte
  BY CellIsByte, ByteIsWord DEF ReadByte, RamReadByte, RomReadByte, StoreOK

LEMMA ReadWordIsWord ==
  ASSUME NEW s, StoreOK(s), NEW a
  PROVE  ReadWord(s, a) \in Word /\ MemoryReadWord(s, a) \in Word
  <1>1. \A b : ReadByte(s, b) \in Byte /\ RamReadByte(s, b) \in Byte /\ RomReadByte(s, b) \in Byte
    BY ReadByteIsByte
  <1>2. \A l, h \in Byte : l + 256 * h \in Word
    BY WordOfBytes
  <1>3. \A l, h \in Byte : Or(8, l, h) \in Byte
    BY OrInRange DEF Byte
  <1>4. RamReadWord(s, a) \in Word
    BY <1>1, <1>2, <1>3, ByteIsWord DEF RamReadWord
  <1>5. RomReadWord(s, a) \in Word
    BY <1>1, <1>2, <1>3, CellIsByte, ByteIsWord DEF RomReadWord
  <1>6. MemoryReadWord(s, a) \in Word
    BY <1>2, CellIsByte DEF MemoryReadWord
  <1> QED BY <1>1, <1>2, <1>4, <1>5, <1>6 DEF ReadWord

LEMMA WriteByteKeepsStore ==
  ASSUME NEW s, StoreOK(s), NEW a, NEW v \in Byte
  PROVE  StoreOK(WriteByte(s, a, v))
  <1>1. /\ \A k : \A j \in DOMAIN SetCell(s.m, k, v) : SetCell(s.m, k, v)[j] \in Byte
        /\ \A k : \A j \in DOMAIN SetCell(s.ram, k, v) : SetCell(s.ram, k, v)[j] \in Byte
        /\ \A k : \A j \in DOMAIN SetCell(s.rom, k, v) : SetCell(s.rom, k, v)[j] \in Byte
    BY SetCellKeepsBytes DEF StoreOK
  <1> QED BY <1>1 DEF WriteByte, RamWriteByte, RomWriteByte, RamSelect, RomSelect, StoreOK

LEMMA WriteWordKeepsStore ==
  ASSUME NEW s, StoreOK(s), NEW a, NEW w \in Word
  PROVE  StoreOK(WriteWord(s, a, w)) /\ StoreOK(MemoryWriteWord(s, a, w))
  <1>1. Low(w) \in Byte /\ High(w) \in Byte
    BY BytesOfWord
  <1>2. StoreOK(WriteTwoBytes(s, a, w))
    BY <1>1, WriteByteKeepsStore DEF WriteTwoBytes
  <1> DEFINE f == SetCell(SetCell(s.m, a, Low(w)), a + 1, High(w))
  <1>3. \A j \in DOMAIN f : f[j] \in Byte
    BY <1>1, SetCellKeepsBytes DEF StoreOK
  <1>4. StoreOK(MemoryWriteWord(s, a, w))
    BY <1>3 DEF MemoryWriteWord, StoreOK
  <1> QED BY <1>2, <1>4 DEF WriteWord, RamWriteWord, RomWriteWord

LEMMA StartedStore == StoreOK(Opened(Started))
  BY ByteIsWord DEF Opened, Started, StartedMemory, StartedRam, StartedRom, StoreOK

LEMMA LoaderKeepsStore ==
  ASSUME NEW s, StoreOK(s)
  PROVE  /\ StoreOK(Closed(s))
         /\ \A k \in 1 .. Len(CodeMaps) : StoreOK(SelectBanks(s, CodeMaps[k]))
  BY ByteIsWord, CodeMapsAssumption DEF Closed, SelectBanks, RamSelect, RomSelect, StoreOK

-------------------------------------------------------------------------------
(* The results of the arithmetic on operands of w bits.                    *)
Numbers(w) == IF w = 8 THEN Byte ELSE Word
ResultOK(w, result) == result.r \in Numbers(w) /\ result.f \in Flags

LEMMA NumbersAreIntegers ==
  ASSUME NEW w \in {8, 16}, NEW x \in Numbers(w)
  PROVE  x \in Int /\ 0 <= x /\ x < 2^w /\ x \in Word
  <1>1. CASE w = 8
    BY <1>1 DEF Numbers, Byte, Word
  <1>2. CASE w = 16
    BY <1>2 DEF Numbers, Word
  <1> QED BY <1>1, <1>2

LEMMA Modulo ==
  ASSUME NEW w \in {8, 16}, NEW x \in Int
  PROVE  x % 2^w \in Numbers(w) /\ Neg(w, x) \in Numbers(w)
  <1>1. CASE w = 8
    BY <1>1 DEF Numbers, Byte, Neg
  <1>2. CASE w = 16
    BY <1>2 DEF Numbers, Word, Neg
  <1> QED BY <1>1, <1>2

LEMMA FlagIsBit == \A b \in BOOLEAN : Flag(b) \in 0 .. 1
  BY DEF Flag

LEMMA SignIsBit ==
  ASSUME NEW w \in {8, 16}, NEW x \in Int
  PROVE  Bit(x, w - 1) \in 0 .. 1 /\ Bit(x, w) \in 0 .. 1
  BY BitIsBit

LEMMA NZKeepsFlags ==
  ASSUME NEW w \in {8, 16}, NEW r \in Int, NEW f \in Flags
  PROVE  NZ(w, r, f) \in Flags
  BY FlagIsBit, SignIsBit DEF NZ, Flags

LEMMA LogicType ==
  ASSUME NEW w \in {8, 16}, NEW op \in LogicOps, NEW x \in Numbers(w), NEW y \in Numbers(w), NEW f \in Flags
  PROVE  ResultOK(w, Logic(op, w, x, y, f))
  <1>1. x \in Int /\ y \in Int /\ Not(w, y) \in Int
    BY NumbersAreIntegers DEF Not
  <1>2. /\ And(w, x, y) \in Numbers(w) /\ Or(w, x, y) \in Numbers(w) /\ Eor(w, x, y) \in Numbers(w)
        /\ And(w, x, Not(w, y)) \in Numbers(w)
    BY <1>1, AndInRange, OrInRange, EorInRange DEF Numbers
  <1>3. Logic(op, w, x, y, f).r \in Numbers(w)
    BY <1>2 DEF Logic, LogicOps
  <1> QED BY <1>3, NumbersAreIntegers, NZKeepsFlags DEF Logic, ResultOK

LEMMA ArithType ==
  ASSUME NEW w \in {8, 16}, NEW op \in ArithOps, NEW x \in Numbers(w), NEW y \in Numbers(w), NEW f \in Flags,
         NEW inverted \in BOOLEAN
  PROVE  ResultOK(w, Arith(op, w, x, y, f, inverted))
  <1> DEFINE second == Addend(op, w, y)
             sum == x + second + IF op \in {"ADC", "SBB"} THEN f.C ELSE 0
             r == sum % 2^w
             v == Flag(Bit(x, w - 1) = (IF inverted /\ op \in {"SUB", "SBB", "CMP"}
                                        THEN 1 - Bit(second, w - 1) ELSE Bit(second, w - 1))
                       /\ Bit(r, w - 1) # Bit(x, w - 1))
  <1>1. second \in Int
    BY NumbersAreIntegers, Modulo DEF Addend, ArithOps, Not
  <1>2. sum \in Int
    BY <1>1, NumbersAreIntegers DEF Flags
  <1>3. r \in Numbers(w)
    BY <1>2, Modulo
  <1>4. NZ(w, r, f) \in Flags
    BY <1>3, NumbersAreIntegers, NZKeepsFlags
  <1>5. Bit(sum, w) \in 0 .. 1 /\ v \in 0 .. 1
    BY <1>2, SignIsBit DEF Flag
  <1>6. Arith(op, w, x, y, f, inverted) = [r |-> r, f |-> [NZ(w, r, f) EXCEPT !.C = Bit(sum, w), !.V = v]]
    BY DEF Arith
  <1> HIDE DEF sum, r, v
  <1>7. [NZ(w, r, f) EXCEPT !.C = Bit(sum, w), !.V = v] \in Flags
    BY <1>4, <1>5 DEF Flags
  <1> QED BY <1>3, <1>6, <1>7 DEF ResultOK

LEMMA LessIsNumber ==
  ASSUME NEW w \in {8, 16}, NEW x \in Numbers(w), NEW r \in Int, 0 <= r, r <= x
  PROVE  r \in Numbers(w)
  <1>1. CASE w = 8
    BY <1>1 DEF Numbers, Byte
  <1>2. CASE w = 16
    BY <1>2 DEF Numbers, Word
  <1> QED BY <1>1, <1>2

LEMMA ZeroIsNumber ==
  ASSUME NEW w \in {8, 16}
  PROVE  0 \in Numbers(w)
  BY ByteIsWord DEF Numbers

(* A result with N and Z, and with another C.                              *)
LEMMA CarryKeepsFlags ==
  ASSUME NEW w \in {8, 16}, NEW r \in Numbers(w), NEW f \in Flags, NEW c \in 0 .. 1
  PROVE  ResultOK(w, [r |-> r, f |-> [NZ(w, r, f) EXCEPT !.C = c]])
  <1>1. NZ(w, r, f) \in Flags
    BY NumbersAreIntegers, NZKeepsFlags
  <1>2. [NZ(w, r, f) EXCEPT !.C = c] \in Flags
    BY <1>1 DEF Flags
  <1> QED BY <1>2 DEF ResultOK

LEMMA CarryOverflowKeepFlags ==
  ASSUME NEW w \in {8, 16}, NEW r \in Numbers(w), NEW f \in Flags, NEW c \in 0 .. 1, NEW v \in 0 .. 1
  PROVE  ResultOK(w, [r |-> r, f |-> [NZ(w, r, f) EXCEPT !.C = c, !.V = v]])
  <1>1. NZ(w, r, f) \in Flags
    BY NumbersAreIntegers, NZKeepsFlags
  <1>2. [NZ(w, r, f) EXCEPT !.C = c, !.V = v] \in Flags
    BY <1>1 DEF Flags
  <1> QED BY <1>2 DEF ResultOK

LEMMA ShiftType ==
  ASSUME NEW w \in {8, 16}, NEW op \in ShiftOps, NEW x \in Numbers(w), NEW k \in Nat, NEW f \in Flags,
         NEW stale \in 0 .. 1
  PROVE  ResultOK(w, Shift(op, w, x, k, f, stale))
  <1>1. x \in Int /\ 0 <= x
    BY NumbersAreIntegers
  <1>2. k < w => 2^k \in Int /\ 1 <= 2^k
    <2>1. k < w => k \in 0 .. 16
      OBVIOUS
    <2> QED BY <2>1, PowerOfTwo
  <1>3. ResultOK(w, Shl(w, x, k, f))
    <2> DEFINE r == IF k < w THEN (x * 2^k) % 2^w ELSE 0
               c == IF k \in 1 .. w THEN Bit(x, w - k) ELSE 0
    <2>1. r \in Numbers(w)
      <3>1. k < w => x * 2^k \in Int
        BY <1>1, <1>2
      <3> QED BY <3>1, Modulo, ZeroIsNumber
    <2>2. c \in 0 .. 1
      BY <1>1, BitIsBit
    <2> HIDE DEF r, c
    <2>3. ResultOK(w, [r |-> r, f |-> [NZ(w, r, f) EXCEPT !.C = c]])
      BY <2>1, <2>2, CarryKeepsFlags
    <2> QED BY <2>3 DEF Shl, r, c
  <1>4. ResultOK(w, Shr(w, x, k, f, stale))
    <2> DEFINE r == IF k < w THEN x \div 2^k ELSE 0
               c == IF w = 16 THEN stale ELSE IF k \in 1 .. w THEN Bit(x, k - 1) ELSE 0
    <2>1. r \in Numbers(w)
      BY <1>1, <1>2, DivisionIsLess, LessIsNumber, ZeroIsNumber
    <2>2. c \in 0 .. 1
      BY <1>1, BitIsBit
    <2> HIDE DEF r, c
    <2>3. ResultOK(w, [r |-> r, f |-> [NZ(w, r, f) EXCEPT !.C = c]])
      BY <2>1, <2>2, CarryKeepsFlags
    <2> QED BY <2>3 DEF Shr, r, c
  <1>5. w = 8 => ResultOK(w, Sar(w, x, k, f, stale))
    <2> SUFFICES ASSUME w = 8 PROVE ResultOK(8, Sar(8, x, k, f, stale))
      OBVIOUS
    <2> DEFINE kept == IF k < 8 THEN k ELSE 8
               r == (Signed(8, x) \div 2^kept) % 2^8
               c == IF k = 0 THEN 0 ELSE Bit(x, IF k < 8 THEN k - 1 ELSE 8 - 1)
    <2>1. Signed(8, x) \div 2^kept \in Int
      <3>1. Signed(8, x) \in Int
        BY <1>1 DEF Signed
      <3>2. kept \in 0 .. 16
        OBVIOUS
      <3> HIDE DEF kept
      <3>3. 2^kept \in Int /\ 1 <= 2^kept
        BY <3>2, PowerOfTwo
      <3> QED BY <3>1, <3>3
    <2>2. r \in Numbers(8)
      BY <2>1, Modulo
    <2>3. c \in 0 .. 1
      BY <1>1, BitIsBit
    <2> HIDE DEF r, c
    <2>4. ResultOK(8, [r |-> r, f |-> [NZ(8, r, f) EXCEPT !.C = c]])
      BY <2>2, <2>3, CarryKeepsFlags
    <2> QED BY <2>4 DEF Sar, r, c
  <1>6. ResultOK(w, Sar(w, x, k, f, stale))
    BY <1>4, <1>5 DEF Sar
  <1> QED BY <1>3, <1>4, <1>6 DEF Shift, ShiftOps

LEMMA RotateType ==
  ASSUME NEW w \in {8, 16}, NEW op \in {"ROR", "ROL"}, NEW x \in Numbers(w), NEW f \in Flags
  PROVE  ResultOK(w, Rotate(op, w, x, f))
  <1> DEFINE c == IF op = "ROR" THEN Bit(x, 0) ELSE Bit(x, w - 1)
             r == IF op = "ROR" THEN x \div 2 + c * 2^(w - 1) ELSE ((2 * x) % 2^w) + c
  <1>1. c \in {0, 1} /\ c \in 0 .. 1
    BY NumbersAreIntegers, BitIsBit
  <1>2. r \in Numbers(w)
    <2> HIDE DEF c
    <2>1. CASE w = 8
      BY <1>1, <2>1 DEF Numbers, Byte
    <2>2. CASE w = 16
      BY <1>1, <2>2 DEF Numbers, Word
    <2> QED BY <2>1, <2>2
  <1> HIDE DEF r, c
  <1>3. ResultOK(w, [r |-> r, f |-> [NZ(w, r, f) EXCEPT !.C = c]])
    BY <1>1, <1>2, CarryKeepsFlags
  <1> QED BY <1>3 DEF Rotate, r, c

LEMMA UnaryType ==
  ASSUME NEW w \in {8, 16}, NEW x \in Numbers(w), NEW f \in Flags, NEW s1 \in 0 .. 1
  PROVE  /\ ResultOK(w, Complement(w, x, f)) /\ ResultOK(w, Negate(w, x, f))
         /\ ResultOK(w, Increment(w, x, f)) /\ ResultOK(w, Decrement(w, x, s1, f))
  <1>1. Not(w, x) \in Numbers(w)
    <2>1. CASE w = 8
      BY <2>1 DEF Numbers, Byte, Not
    <2>2. CASE w = 16
      BY <2>2 DEF Numbers, Word, Not
    <2> QED BY <2>1, <2>2
  <1>2. Neg(w, x) \in Numbers(w) /\ (x + 1) % 2^w \in Numbers(w) /\ (x - 1) % 2^w \in Numbers(w)
    <2>1. x \in Int /\ x + 1 \in Int /\ x - 1 \in Int
      BY NumbersAreIntegers
    <2> QED BY <2>1, Modulo
  <1>3. ResultOK(w, Complement(w, x, f))
    BY <1>1, NumbersAreIntegers, NZKeepsFlags DEF Complement, ResultOK
  <1>4. ResultOK(w, Negate(w, x, f))
    BY <1>2, NumbersAreIntegers, NZKeepsFlags DEF Negate, ResultOK
  <1>5. ResultOK(w, Increment(w, x, f))
    BY <1>2, FlagIsBit, CarryOverflowKeepFlags DEF Increment
  <1>6. ResultOK(w, Decrement(w, x, s1, f))
    BY <1>2, FlagIsBit, CarryOverflowKeepFlags DEF Decrement
  <1> QED BY <1>3, <1>4, <1>5, <1>6

(* The halves of a product: x times each half of y, and the carry between. *)
LEMMA DivisionAlgorithm ==
  ASSUME NEW v \in Int
  PROVE  /\ v = 16 * (v \div 16) + (v % 16) /\ 0 <= v % 16 /\ v % 16 <= 15 /\ v \div 16 \in Int
         /\ v = 256 * (v \div 256) + (v % 256) /\ 0 <= v % 256 /\ v % 256 <= 255 /\ v \div 256 \in Int
  <1>1. v = 16 * (v \div 16) + (v % 16)
    OBVIOUS
  <1>2. v = 256 * (v \div 256) + (v % 256)
    OBVIOUS
  <1> QED BY <1>1, <1>2

Carried(d, x, y) == x * (y \div d) + (x * (y % d)) \div d
LowHalf(d, x, y) == (Carried(d, x, y) % d) * d + ((x * (y % d)) % d)

HalvesAgree(d, x, y) ==
  /\ Carried(d, x, y) \in Int /\ LowHalf(d, x, y) \in Int
  /\ 0 <= Carried(d, x, y) \div d /\ Carried(d, x, y) \div d <= x
  /\ 0 <= LowHalf(d, x, y) /\ LowHalf(d, x, y) < d * d
  /\ (Carried(d, x, y) \div d) * (d * d) + LowHalf(d, x, y) = x * y

LEMMA ProductHalves ==
  ASSUME NEW d \in {16, 256}, NEW x \in Int, NEW y \in Int, 0 <= x, 0 <= y, y < d * d
  PROVE  HalvesAgree(d, x, y)
  <1> DEFINE a == y \div d
             b == y % d
             m == x * b
             carried == Carried(d, x, y)
  <1>1. a \in Int /\ b \in Int /\ y = d * a + b /\ 0 <= a /\ a <= d - 1 /\ 0 <= b /\ b <= d - 1
    <2>1. CASE d = 16
      BY <2>1, DivisionAlgorithm
    <2>2. CASE d = 256
      BY <2>2, DivisionAlgorithm
    <2> QED BY <2>1, <2>2
  <1> HIDE DEF a, b
  <1>2. x * a \in Int /\ m \in Int /\ 0 <= x * a /\ x * a <= x * (d - 1) /\ 0 <= m /\ m <= x * (d - 1)
    BY <1>1
  <1>3. x * y = d * (x * a) + m
    BY <1>1, <1>2
  <1> DEFINE p == x * a
  <1> HIDE DEF m, p, carried
  <1>4. carried = p + m \div d
    BY DEF a, b, m, p, carried, Carried
  <1>5. CASE d = 16
    <2>1. m = 16 * (m \div 16) + (m % 16) /\ 0 <= m % 16 /\ m % 16 <= 15 /\ m \div 16 \in Int
      BY <1>2, DivisionAlgorithm
    <2>2. carried \in Int
      BY <1>2, <1>4, <1>5, <2>1 DEF p
    <2>3. carried = 16 * (carried \div 16) + (carried % 16) /\ 0 <= carried % 16 /\ carried % 16 <= 15 /\ carried \div 16 \in Int
      BY <2>2, DivisionAlgorithm
    <2>4. carried <= 16 * x /\ 0 <= carried
      BY <1>2, <1>4, <1>5, <2>1 DEF p
    <2>5. x * y = 16 * p + m
      BY <1>3, <1>5 DEF p
    <2> DEFINE q == carried \div 16
               r == carried % 16
               n == m % 16
    <2> HIDE DEF q, r, n
    <2>6. 0 <= q /\ q <= x /\ 0 <= r * 16 + n /\ r * 16 + n < 16 * 16
      <3>1. q \in Int /\ r \in Int /\ n \in Int /\ carried = 16 * q + r
        BY <1>2, <2>1, <2>2, <2>3 DEF q, r, n
      <3>2. 0 <= r /\ r <= 15 /\ 0 <= n /\ n <= 15
        BY <2>1, <2>3 DEF q, r, n
      <3> QED BY <2>4, <3>1, <3>2
    <2>7. q * (16 * 16) + (r * 16 + n) = x * y
      <3>1. m = 16 * (m \div 16) + n
        BY <2>1 DEF n
      <3>2. carried = 16 * q + r /\ q \in Int /\ r \in Int /\ n \in Int
        BY <1>2, <2>1, <2>2, <2>3 DEF q, r, n
      <3>3. p + m \div 16 = 16 * q + r /\ p \in Int /\ m \div 16 \in Int
        BY <1>2, <1>4, <1>5, <2>1, <3>2 DEF p
      <3> QED BY <2>5, <3>1, <3>2, <3>3
    <2>8. LowHalf(d, x, y) = r * d + n
      BY <1>5 DEF LowHalf, carried, q, r, n, m, b
    <2>9. r * d + n \in Int
      BY <1>2, <1>5, <2>2 DEF r, n
    <2> QED BY <1>5, <2>2, <2>6, <2>7, <2>8, <2>9 DEF q, carried, HalvesAgree
  <1>6. CASE d = 256
    <2>1. m = 256 * (m \div 256) + (m % 256) /\ 0 <= m % 256 /\ m % 256 <= 255 /\ m \div 256 \in Int
      BY <1>2, DivisionAlgorithm
    <2>2. carried \in Int
      BY <1>2, <1>4, <1>6, <2>1 DEF p
    <2>3. carried = 256 * (carried \div 256) + (carried % 256) /\ 0 <= carried % 256 /\ carried % 256 <= 255 /\ carried \div 256 \in Int
      BY <2>2, DivisionAlgorithm
    <2>4. carried <= 256 * x /\ 0 <= carried
      BY <1>2, <1>4, <1>6, <2>1 DEF p
    <2>5. x * y = 256 * p + m
      BY <1>3, <1>6 DEF p
    <2> DEFINE q == carried \div 256
               r == carried % 256
               n == m % 256
    <2> HIDE DEF q, r, n
    <2>6. 0 <= q /\ q <= x /\ 0 <= r * 256 + n /\ r * 256 + n < 256 * 256
      <3>1. q \in Int /\ r \in Int /\ n \in Int /\ carried = 256 * q + r
        BY <1>2, <2>1, <2>2, <2>3 DEF q, r, n
      <3>2. 0 <= r /\ r <= 255 /\ 0 <= n /\ n <= 255
        BY <2>1, <2>3 DEF q, r, n
      <3> QED BY <2>4, <3>1, <3>2
    <2>7. q * (256 * 256) + (r * 256 + n) = x * y
      <3>1. m = 256 * (m \div 256) + n
        BY <2>1 DEF n
      <3>2. carried = 256 * q + r /\ q \in Int /\ r \in Int /\ n \in Int
        BY <1>2, <2>1, <2>2, <2>3 DEF q, r, n
      <3>3. p + m \div 256 = 256 * q + r /\ p \in Int /\ m \div 256 \in Int
        BY <1>2, <1>4, <1>6, <2>1, <3>2 DEF p
      <3> QED BY <2>5, <3>1, <3>2, <3>3
    <2>8. LowHalf(d, x, y) = r * d + n
      BY <1>6 DEF LowHalf, carried, q, r, n, m, b
    <2>9. r * d + n \in Int
      BY <1>2, <1>6, <2>2 DEF r, n
    <2> QED BY <1>6, <2>2, <2>6, <2>7, <2>8, <2>9 DEF q, carried, HalvesAgree
  <1> QED BY <1>5, <1>6

LEMMA ProductType ==
  ASSUME NEW w \in {8, 16}, NEW x \in Numbers(w), NEW y \in Numbers(w)
  PROVE  LET p == Product(w, x, y)
         IN  p.high \in Numbers(w) /\ p.low \in Numbers(w) /\ p.high * 2^w + p.low = x * y
  <1> DEFINE d == IF w = 8 THEN 16 ELSE 256
  <1>1. d \in {16, 256} /\ 2^(w \div 2) = d /\ 2^w = d * d
    <2>1. CASE w = 8
      BY <2>1
    <2>2. CASE w = 16
      BY <2>2
    <2> QED BY <2>1, <2>2
  <1>2. Product(w, x, y) = [high |-> Carried(d, x, y) \div d, low |-> LowHalf(d, x, y)]
    BY <1>1 DEF Product, Carried, LowHalf
  <1>3. x \in Int /\ y \in Int /\ 0 <= x /\ 0 <= y /\ y < d * d
    BY <1>1, NumbersAreIntegers
  <1> HIDE DEF d
  <1> DEFINE carried == Carried(d, x, y)
             low == LowHalf(d, x, y)
  <1> HIDE DEF carried, low
  <1>4. /\ carried \in Int /\ low \in Int
        /\ 0 <= carried \div d /\ carried \div d <= x
        /\ 0 <= low /\ low < d * d
        /\ (carried \div d) * (d * d) + low = x * y
    <2>1. HalvesAgree(d, x, y)
      BY <1>1, <1>3, ProductHalves
    <2> QED BY <2>1, Zenon DEF carried, low, HalvesAgree
  <1>5. carried \div d \in Numbers(w)
    BY <1>1, <1>4, LessIsNumber
  <1>6. low \in Numbers(w)
    <2>1. CASE w = 8
      BY <1>1, <1>4, <2>1 DEF Numbers, Byte
    <2>2. CASE w = 16
      BY <1>1, <1>4, <2>2 DEF Numbers, Word
    <2> QED BY <2>1, <2>2
  <1> QED BY <1>1, <1>2, <1>4, <1>5, <1>6 DEF carried, low

LEMMA SignedIsInteger ==
  ASSUME NEW w \in {8, 16}, NEW x \in Numbers(w)
  PROVE  /\ Signed(w, x) \in Int /\ (x # 0 => Signed(w, x) # 0)
         /\ -(2^(w - 1)) <= Signed(w, x) /\ Signed(w, x) < 2^(w - 1)
  <1>1. x \in Int /\ 0 <= x /\ x < 2^w
    BY NumbersAreIntegers
  <1>2. CASE w = 8
    BY <1>1, <1>2 DEF Signed
  <1>3. CASE w = 16
    BY <1>1, <1>3 DEF Signed
  <1> QED BY <1>2, <1>3

LEMMA SignedProductType ==
  ASSUME NEW x \in Byte, NEW y \in Byte
  PROVE  SignedProduct8(x, y).high \in Byte /\ SignedProduct8(x, y).low \in Byte
  <1> DEFINE q == Signed(8, x) * Signed(8, y)
             p == q % 65536
  <1>1. q \in Int
    BY SignedIsInteger DEF Numbers
  <1> HIDE DEF q
  <1>2. p \in Int /\ 0 <= p /\ p <= 65535
    BY <1>1
  <1> HIDE DEF p
  <1>3. p \div 256 \in Byte /\ p % 256 \in Byte
    BY <1>2 DEF Byte
  <1> QED BY <1>3 DEF SignedProduct8, p, q

LEMMA DivisionType ==
  ASSUME NEW w \in {8, 16}, NEW x \in Numbers(w), NEW y \in Numbers(w), y # 0
  PROVE  /\ Division(w, x, y).quotient \in Numbers(w) /\ Division(w, x, y).remainder \in Numbers(w)
         /\ SignedDivision(w, x, y).quotient \in Numbers(w) /\ SignedDivision(w, x, y).remainder \in Numbers(w)
  <1>1. x \in Int /\ y \in Int /\ 0 <= x /\ 1 <= y
    BY NumbersAreIntegers
  <1>2. x \div y \in Numbers(w)
    BY <1>1, DivisionIsLess, LessIsNumber
  <1>3. x % y \in Int /\ 0 <= x % y /\ x % y <= y
    BY <1>1
  <1>4. x % y \in Numbers(w)
    BY <1>3, LessIsNumber
  <1> DEFINE a == Signed(w, x)
             b == Signed(w, y)
             size(v) == IF v < 0 THEN -v ELSE v
             q == IF (a < 0) = (b < 0) THEN size(a) \div size(b) ELSE -(size(a) \div size(b))
  <1>5. a \in Int /\ b \in Int /\ b # 0
    BY SignedIsInteger
  <1> HIDE DEF a, b
  <1>6. size(a) \in Int /\ size(b) \in Int /\ size(b) >= 1
    BY <1>5
  <1>7. size(a) \div size(b) \in Int
    <2> HIDE DEF size
    <2> QED BY <1>6
  <1>8. q \in Int
    <2> HIDE DEF size
    <2> QED BY <1>7
  <1>9. SignedDivision(w, x, y) = [quotient |-> q % 2^w, remainder |-> (a - q * b) % 2^w]
    BY DEF SignedDivision, a, b
  <1> HIDE DEF q
  <1>10. a - q * b \in Int
    BY <1>5, <1>8
  <1>11. q % 2^w \in Numbers(w) /\ (a - q * b) % 2^w \in Numbers(w)
    BY <1>8, <1>10, Modulo
  <1> QED BY <1>2, <1>4, <1>9, <1>11 DEF Division

-------------------------------------------------------------------------------
(* The union of words and bytes, and the word that holds the flags.        *)
LEMMA ByteRegister ==
  ASSUME W \in [0 .. 3 -> Word], NEW j \in 0 .. 7
  PROVE  B(j) \in Byte
  <1>1. j \div 2 \in 0 .. 3
    OBVIOUS
  <1> QED BY <1>1, BytesOfWord DEF B

LEMMA PutByteType ==
  ASSUME NEW ws \in [0 .. 3 -> Word], NEW j \in 0 .. 7, NEW v \in Byte
  PROVE  PutB(ws, j, v) \in [0 .. 3 -> Word]
  <1>1. j \div 2 \in 0 .. 3
    OBVIOUS
  <1>2. High(ws[j \div 2]) \in Byte /\ Low(ws[j \div 2]) \in Byte
    BY <1>1, BytesOfWord
  <1>3. 256 * High(ws[j \div 2]) + v \in Word /\ 256 * v + Low(ws[j \div 2]) \in Word
    <2>1. ASSUME NEW l \in Byte, NEW h \in Byte
          PROVE  256 * h + l \in Word
      <3>1. l + 256 * h \in Word
        BY WordOfBytes
      <3>2. l + 256 * h = 256 * h + l
        BY DEF Byte
      <3> QED BY <3>1, <3>2
    <2> QED BY <1>2, <2>1
  <1> QED BY <1>1, <1>3 DEF PutB

LEMMA FlagsOfWord ==
  ASSUME NEW v \in Word
  PROVE  FlagsOf(v) \in Flags
  <1>1. v \in Int /\ 0 <= v /\ v <= 65535
    BY DEF Word
  <1>2. Bit(v, 0) \in 0 .. 1 /\ Bit(v, 1) \in 0 .. 1 /\ Bit(v, 2) \in 0 .. 1 /\ Bit(v, 3) \in 0 .. 1 /\ Bit(v, 4) \in 0 .. 1
    BY <1>1, BitIsBit
  <1>3. v \div 32 \in 0 .. 2^11 - 1
    BY <1>1
  <1> QED BY <1>2, <1>3 DEF FlagsOf, Flags

LEMMA WordOfFlags ==
  ASSUME NEW f \in Flags
  PROVE  FlagWord(f) \in Word /\ FlagsOf(FlagWord(f)) = f
  <1> DEFINE v == FlagWord(f)
  <1>1. /\ f.C \in 0 .. 1 /\ f.Z \in 0 .. 1 /\ f.V \in 0 .. 1 /\ f.N \in 0 .. 1 /\ f.I \in 0 .. 1
        /\ f.rest \in Int /\ 0 <= f.rest /\ f.rest <= 2047
    <2>1. f.C \in 0 .. 1 /\ f.Z \in 0 .. 1 /\ f.V \in 0 .. 1 /\ f.N \in 0 .. 1 /\ f.I \in 0 .. 1 /\ f.rest \in 0 .. 2^11 - 1
      BY DEF Flags
    <2> QED BY <2>1
  <1>2. f = [C |-> f.C, Z |-> f.Z, V |-> f.V, N |-> f.N, I |-> f.I, rest |-> f.rest]
    BY DEF Flags
  <1>3. v = f.C + 2 * f.Z + 4 * f.V + 8 * f.N + 16 * f.I + 32 * f.rest
    BY DEF FlagWord
  <1> HIDE DEF v
  <1>4. v \in Word
    BY <1>1, <1>3 DEF Word
  <1> DEFINE c == f.C
             z == f.Z
             o == f.V
             n == f.N
             e == f.I
             t == f.rest
  <1>5. c \in 0 .. 1 /\ z \in 0 .. 1 /\ o \in 0 .. 1 /\ n \in 0 .. 1 /\ e \in 0 .. 1 /\ t \in Int
    BY <1>1
  <1>6. v = c + 2 * z + 4 * o + 8 * n + 16 * e + 32 * t
    BY <1>3
  <1> HIDE DEF c, z, o, n, e, t
  <1>7. v \div 2^1 = z + 2 * o + 4 * n + 8 * e + 16 * t
    BY <1>5, <1>6
  <1>8. v \div 2^2 = o + 2 * n + 4 * e + 8 * t
    BY <1>5, <1>6
  <1>9. v \div 2^3 = n + 2 * e + 4 * t
    BY <1>5, <1>6
  <1>10. v \div 2^4 = e + 2 * t
    BY <1>5, <1>6
  <1>11. v \div 32 = t
    BY <1>5, <1>6
  <1>12. Bit(v, 0) = c /\ Bit(v, 1) = z /\ Bit(v, 2) = o /\ Bit(v, 3) = n /\ Bit(v, 4) = e
    <2>1. Bit(v, 0) = c
      BY <1>5, <1>6 DEF Bit
    <2>2. Bit(v, 1) = z
      BY <1>5, <1>7 DEF Bit
    <2>3. Bit(v, 2) = o
      BY <1>5, <1>8 DEF Bit
    <2>4. Bit(v, 3) = n
      BY <1>5, <1>9 DEF Bit
    <2>5. Bit(v, 4) = e
      BY <1>5, <1>10 DEF Bit
    <2> QED BY <2>1, <2>2, <2>3, <2>4, <2>5
  <1>13. FlagsOf(v) = f
    BY <1>2, <1>12, <1>11 DEF FlagsOf, c, z, o, n, e, t
  <1> QED BY <1>4, <1>13 DEF v

-------------------------------------------------------------------------------
(* Operands of a well formed instruction.                                  *)
LEMMA Operands ==
  ASSUME NEW i, WellFormed(i)
  PROVE  /\ i.op = "INT" => i.x \in 0 .. 15
         /\ i.op # "INT" /\ OnBytes(i) => i.x \in 0 .. 7
         /\ i.op # "INT" /\ ~OnBytes(i) => i.x \in 0 .. 3
         /\ OnBytes(i) /\ i.op \notin {"LD", "SR"} => i.y \in 0 .. 7
         /\ ~OnBytes(i) \/ i.op \in {"LD", "SR"} => i.y \in 0 .. 3
         /\ i.z \in 0 .. 3 /\ i.m \in 0 .. 7
         /\ i.imm \in Word /\ (~LongImmediate(i) => i.imm \in Byte)
  <1>1. i.imm \in IF LongImmediate(i) THEN Word ELSE Byte
    BY DEF WellFormed, Word, Byte
  <1>2. i.imm \in Word /\ (~LongImmediate(i) => i.imm \in Byte)
    BY <1>1, ByteIsWord
  <1>3. i.x \in IF i.op = "INT" THEN 0 .. 15 ELSE IF OnBytes(i) THEN 0 .. 7 ELSE 0 .. 3
    BY DEF WellFormed
  <1>4. i.y \in IF OnBytes(i) /\ i.op \notin {"LD", "SR"} THEN 0 .. 7 ELSE 0 .. 3
    BY DEF WellFormed
  <1>5. i.z \in 0 .. 3 /\ i.m \in 0 .. 7
    BY DEF WellFormed
  <1> QED BY <1>2, <1>3, <1>4, <1>5

Binaries == LogicOps \cup ArithOps \cup MulDivOps
Operations == Binaries \cup ShiftOps \cup UnaryOps \cup {"ROR", "ROL", "NOT", "MOV", "SWP", "POP", "PUSH"}

LEMMA WidthIsOfBytes ==
  ASSUME NEW i, i.op \in Operations
  PROVE  /\ Bits(i) = 8 <=> OnBytes(i)
         /\ Bits(i) \in {8, 16}
         /\ i.op \notin {"INT", "LEA", "LD", "SR"}
  BY DEF Operations, Binaries, LogicOps, ArithOps, MulDivOps, ShiftOps, UnaryOps, Bits, OnBytes

(* A register of the width of the instruction.                             *)
Register(i, j) == j \in IF Bits(i) = 8 THEN 0 .. 7 ELSE 0 .. 3

LEMMA OperandRegisters ==
  ASSUME NEW i, WellFormed(i), i.op \in Operations
  PROVE  Register(i, i.x) /\ Register(i, i.y) /\ (Bits(i) = 16 => Register(i, i.z))
  BY Operands, WidthIsOfBytes DEF Register

LEMMA OperandsAreNumbers ==
  ASSUME W \in [0 .. 3 -> Word], NEW i, WellFormed(i), i.op \in Operations
  PROVE  /\ First(i) \in Numbers(Bits(i))
         /\ i.op \in Binaries => Second(i) \in Numbers(Bits(i))
  <1>1. Register(i, i.x) /\ Register(i, i.y) /\ Bits(i) \in {8, 16}
    BY OperandRegisters, WidthIsOfBytes
  <1>2. First(i) \in Numbers(Bits(i))
    BY <1>1, ByteRegister DEF First, Register, Numbers
  <1>3. ASSUME i.op \in Binaries PROVE Second(i) \in Numbers(Bits(i))
    <2>1. i.form \in {"B", "W", "BI", "WI"}
      <3>1. i.form \in Forms(i.op)
        BY DEF WellFormed
      <3>2. Forms(i.op) = {"B", "W", "BI", "WI"}
        BY <1>3 DEF Forms, Binaries, LogicOps, ArithOps, MulDivOps, ShiftOps, UnaryOps, Conditions
      <3> QED BY <3>1, <3>2
    <2>2. CASE i.form = "B"
      BY <1>1, <2>2, ByteRegister DEF Second, Bits, Register, Numbers
    <2>3. CASE i.form = "W"
      BY <1>1, <2>3 DEF Second, Bits, Register, Numbers
    <2>4. CASE i.form = "BI"
      <3>1. ~LongImmediate(i)
        BY <2>4, WidthIsOfBytes DEF LongImmediate
      <3> QED BY <2>4, <3>1, Operands DEF Second, Bits, Numbers
    <2>5. CASE i.form = "WI"
      BY <2>5, Operands DEF Second, Bits, Numbers
    <2> QED BY <2>1, <2>2, <2>3, <2>4, <2>5
  <1> QED BY <1>2, <1>3

LEMMA PutType ==
  ASSUME NEW ws \in [0 .. 3 -> Word], NEW i, Bits(i) \in {8, 16}, NEW j, Register(i, j), NEW v \in Numbers(Bits(i))
  PROVE  Put(ws, i, j, v) \in [0 .. 3 -> Word]
  <1>1. CASE Bits(i) = 8
    BY <1>1, PutByteType DEF Put, Register, Numbers
  <1>2. CASE Bits(i) = 16
    BY <1>2 DEF Put, Register, Numbers
  <1> QED BY <1>1, <1>2

-------------------------------------------------------------------------------
(* The machine: registers, status and store.                               *)
MachineOK ==
  /\ W \in [0 .. 3 -> Word]
  /\ SP \in Word /\ PC \in Word
  /\ FL \in Flags
  /\ status \in {"DEFAULT", "HEVT", "WAIT", "ESCHYP", "RESET", "HALT", "BADINSTR"}
  /\ pending \in Interrupts \cup {NOPENDING, DIVZERO}
  /\ StoreOK(store)

LEMMA WordIsInteger == \A a \in Word : a \in Int /\ 0 <= a /\ a <= 65535
  BY DEF Word

LEMMA SkipType ==
  ASSUME MachineOK, NEW n \in Nat, Skip(n)
  PROVE  PC' \in Word
  BY WordIsInteger, WrapIsWord DEF MachineOK, Skip

LEMMA FramedType ==
  ASSUME MachineOK, NEW pc \in Word
  PROVE  StoreOK(Framed(pc))
  <1>1. FlagWord(FL) \in Word
    BY WordOfFlags DEF MachineOK
  <1> DEFINE one == MemoryWriteWord(store, Wrap(SP - 2), pc)
  <1>2. StoreOK(one)
    BY WriteWordKeepsStore DEF MachineOK
  <1> HIDE DEF one
  <1>3. StoreOK(MemoryWriteWord(one, Wrap(SP - 4), FlagWord(FL)))
    BY <1>1, <1>2, WriteWordKeepsStore
  <1> QED BY <1>3 DEF Framed, one

LEMMA InterruptType ==
  ASSUME MachineOK, NEW n \in Interrupts \cup {DIVZERO, BADINSTR}, NEW pc \in Word, Interrupt(n, pc)
  PROVE  /\ StoreOK(store') /\ SP' \in Word /\ PC' \in Word /\ FL' \in Flags
         /\ pending' \in Interrupts \cup {NOPENDING, DIVZERO}
  <1>1. CASE n = BADINSTR \/ FL.I = 1
    <2>1. StoreOK(store') /\ PC' \in Word
      BY <1>1, FramedType, ReadWordIsWord DEF Interrupt
    <2>2. SP - 4 \in Int
      BY WordIsInteger DEF MachineOK
    <2>3. FL' \in Flags
      BY <1>1 DEF Interrupt, MachineOK, Flags
    <2> QED BY <1>1, <2>1, <2>2, <2>3, WrapIsWord DEF Interrupt
  <1>2. CASE ~(n = BADINSTR \/ FL.I = 1)
    BY <1>2 DEF Interrupt, MachineOK
  <1> QED BY <1>1, <1>2

LEMMA PushOneType ==
  ASSUME MachineOK, NEW a \in Word, Push(<<a>>)
  PROVE  StoreOK(store') /\ SP' \in Word /\ SP' = Wrap(SP - 2) /\ store' = WriteWord(store, Wrap(SP - 2), a)
  <1>1. store' = WriteWord(store, Wrap(SP - 2), a) /\ SP' = Wrap(SP - 2)
    BY DEF Push, Pushed
  <1>2. SP - 2 \in Int
    BY WordIsInteger DEF MachineOK
  <1> QED BY <1>1, <1>2, WrapIsWord, WriteWordKeepsStore DEF MachineOK

LEMMA PushTwoType ==
  ASSUME MachineOK, NEW a \in Word, NEW b \in Word, Push(<<a, b>>)
  PROVE  /\ StoreOK(store') /\ SP' \in Word /\ SP' = Wrap(SP - 4)
         /\ store' = WriteWord(WriteWord(store, Wrap(SP - 2), a), Wrap(SP - 4), b)
  <1>1. store' = WriteWord(WriteWord(store, Wrap(SP - 2), a), Wrap(SP - 4), b) /\ SP' = Wrap(SP - 4)
    BY DEF Push, Pushed
  <1>2. SP - 4 \in Int
    BY WordIsInteger DEF MachineOK
  <1>3. StoreOK(WriteWord(store, Wrap(SP - 2), a))
    BY WriteWordKeepsStore DEF MachineOK
  <1> QED BY <1>1, <1>2, <1>3, WrapIsWord, WriteWordKeepsStore

LEMMA PushFourType ==
  ASSUME MachineOK, NEW a \in Word, NEW b \in Word, NEW c \in Word, NEW d \in Word, Push(<<a, b, c, d>>)
  PROVE  /\ StoreOK(store') /\ SP' \in Word /\ SP' = Wrap(SP - 8)
         /\ store' = WriteWord(WriteWord(WriteWord(WriteWord(store, Wrap(SP - 2), a), Wrap(SP - 4), b),
                                         Wrap(SP - 6), c), Wrap(SP - 8), d)
  <1> DEFINE two == WriteWord(WriteWord(store, Wrap(SP - 2), a), Wrap(SP - 4), b)
  <1>1. store' = WriteWord(WriteWord(two, Wrap(SP - 6), c), Wrap(SP - 8), d) /\ SP' = Wrap(SP - 8)
    BY DEF Push, Pushed
  <1>2. SP - 8 \in Int
    BY WordIsInteger DEF MachineOK
  <1>3. StoreOK(two)
    <2>1. StoreOK(WriteWord(store, Wrap(SP - 2), a))
      BY WriteWordKeepsStore DEF MachineOK
    <2> QED BY <2>1, WriteWordKeepsStore
  <1>4. StoreOK(store')
    <2> HIDE DEF two
    <2>1. StoreOK(WriteWord(two, Wrap(SP - 6), c))
      BY <1>3, WriteWordKeepsStore
    <2> QED BY <1>1, <2>1, WriteWordKeepsStore
  <1> QED BY <1>1, <1>2, <1>4, WrapIsWord

LEMMA PopType ==
  ASSUME MachineOK, NEW n \in Nat, Pop(n)
  PROVE  SP' \in Word /\ SP' = Wrap(SP + 2 * n)
  <1>1. SP + 2 * n \in Int
    BY WordIsInteger DEF MachineOK
  <1> QED BY <1>1, WrapIsWord DEF Pop

LEMMA OnStackType ==
  ASSUME MachineOK
  PROVE  \A k : OnStack(k) \in Word
  BY ReadWordIsWord DEF OnStack, MachineOK

LEMMA ComputeType ==
  ASSUME MachineOK, NEW i, WellFormed(i), i.op \in Operations, NEW result, ResultOK(Bits(i), result),
         Compute(i, result), PC' \in Word
  PROVE  MachineOK'
  <1>1. Put(W, i, i.x, result.r) \in [0 .. 3 -> Word]
    BY PutType, OperandRegisters, WidthIsOfBytes DEF ResultOK, MachineOK
  <1> QED BY <1>1 DEF Compute, ResultOK, MachineOK

LEMMA FlagsWithBit ==
  ASSUME NEW f \in Flags, NEW v \in 0 .. 1
  PROVE  /\ [f EXCEPT !.C = v] \in Flags /\ [f EXCEPT !.Z = v] \in Flags /\ [f EXCEPT !.V = v] \in Flags
         /\ [f EXCEPT !.N = v] \in Flags /\ [f EXCEPT !.I = v] \in Flags
  BY DEF Flags

LEMMA FlagsWithTwoBits ==
  ASSUME NEW f \in Flags, NEW v \in 0 .. 1, NEW u \in 0 .. 1
  PROVE  [f EXCEPT !.Z = v, !.V = u] \in Flags /\ [f EXCEPT !.N = v, !.Z = u] \in Flags
  BY DEF Flags

LEMMA PortFlagsType ==
  ASSUME MachineOK, NEW s
  PROVE  PortFlags(s) \in Flags
  BY FlagIsBit, FlagsWithTwoBits DEF PortFlags, MachineOK

(* Every instruction keeps the machine.                                    *)
LEMMA TransfersKeepMachine ==
  ASSUME MachineOK, NEW i, WellFormed(i), Nop(i) \/ In(i) \/ Out(i) \/ Lea(i) \/ SetFlag(i)
  PROVE  MachineOK'
  <1>1. CASE Nop(i)
    BY <1>1, SkipType DEF Nop, MachineOK
  <1>2. CASE In(i)
    <2>1. i.x \in 0 .. 7 /\ i.imm \in Byte
      <3>1. i.form \in {"B", "BI"}
        <4>1. Forms(i.op) = {"B", "BI"}
          BY <1>2 DEF In, Forms, LogicOps, ArithOps, MulDivOps, ShiftOps, UnaryOps, Conditions
        <4> QED BY <4>1 DEF WellFormed
      <3> QED BY <1>2, <3>1, Operands DEF In, OnBytes, LongImmediate
    <2>2. PutB(W, i.x, i.imm) \in [0 .. 3 -> Word] /\ W \in [0 .. 3 -> Word]
      BY <2>1, PutByteType DEF MachineOK
    <2>3. FL' \in Flags /\ W' \in [0 .. 3 -> Word]
      BY <1>2, <2>2, PortFlagsType DEF In
    <2> QED BY <1>2, <2>2, <2>3, SkipType DEF In, MachineOK
  <1>3. CASE Out(i)
    <2>1. FL' \in Flags
      BY <1>3, PortFlagsType DEF Out
    <2>2. OutBytes(i) \in Nat
      BY DEF OutBytes
    <2> QED BY <1>3, <2>1, <2>2, SkipType DEF Out, MachineOK
  <1>4. CASE Lea(i)
    <2>1. \A n \in Nat : PC + n \in Int
      BY WordIsInteger DEF MachineOK
    <2>2. CASE i.form = "W"
      <3>1. Signed(16, i.imm) \in Int
        BY Operands, SignedIsInteger DEF Numbers
      <3>2. Wrap(PC + 3 + Signed(16, i.imm)) \in Word
        BY <2>1, <3>1, WrapIsWord
      <3>3. i.x \in 0 .. 3
        BY <1>4, <2>2, Operands DEF Lea, OnBytes
      <3> QED BY <1>4, <2>2, <3>2, <3>3, SkipType DEF Lea, MachineOK
    <2>3. CASE i.form = "B"
      <3>1. Signed(8, i.imm) \in Int
        <4>1. i.imm \in Byte
          BY <1>4, <2>3, Operands DEF Lea, LongImmediate
        <4> QED BY <4>1, SignedIsInteger DEF Numbers
      <3>2. Wrap(PC + 2 + Signed(8, i.imm)) \in Word
        BY <2>1, <3>1, WrapIsWord
      <3>3. i.x \in 0 .. 3
        BY <1>4, Operands DEF Lea, OnBytes
      <3> QED BY <1>4, <2>3, <3>2, <3>3, SkipType DEF Lea, MachineOK
    <2> QED BY <1>4, <2>2, <2>3 DEF Lea
  <1>5. CASE SetFlag(i)
    <2>1. \A v \in 0 .. 1 : /\ [FL EXCEPT !.C = v] \in Flags /\ [FL EXCEPT !.Z = v] \in Flags
                           /\ [FL EXCEPT !.V = v] \in Flags /\ [FL EXCEPT !.N = v] \in Flags
      BY FlagsWithBit DEF MachineOK
    <2>2. FL' \in Flags
      BY <1>5, <2>1 DEF SetFlag, SetFlagOps
    <2> QED BY <1>5, <2>2, SkipType DEF SetFlag, MachineOK
  <1> QED BY <1>1, <1>2, <1>3, <1>4, <1>5

LEMMA TargetType ==
  ASSUME MachineOK, NEW i, WellFormed(i), i.op \in {"J", "C"}
  PROVE  Target(i) \in Word /\ ReturnAddress(i) \in Word /\ i.form \in {"W", "A", "R"}
  <1>1. i.form \in {"W", "A", "R"}
    <2>1. Forms(i.op) = {"W", "A", "R"}
      BY DEF Forms, LogicOps, ArithOps, MulDivOps, ShiftOps, UnaryOps, Conditions
    <2> QED BY <2>1 DEF WellFormed
  <1>2. \A n \in Nat : PC + n \in Int /\ Wrap(PC + n) \in Word
    BY WordIsInteger, WrapIsWord DEF MachineOK
  <1>3. ReturnAddress(i) \in Word
    BY <1>1, <1>2 DEF ReturnAddress
  <1>4. CASE i.form = "W"
    <2>1. i.x \in 0 .. 3
      BY <1>4, Operands DEF OnBytes
    <2>2. Target(i) = W[i.x]
      BY <1>4 DEF Target
    <2> QED BY <1>1, <1>3, <2>1, <2>2 DEF MachineOK
  <1>5. CASE i.form = "A"
    <2>1. Target(i) = i.imm
      BY <1>5 DEF Target
    <2> QED BY <1>1, <1>3, <2>1, Operands
  <1>6. CASE i.form = "R"
    <2>1. i.imm \in Byte
      BY <1>6, Operands DEF LongImmediate
    <2>2. Signed(8, i.imm) \in Int
      BY <2>1, SignedIsInteger DEF Numbers
    <2>3. Target(i) = Wrap(PC + 2 + Signed(8, i.imm))
      BY <1>6 DEF Target
    <2>4. PC + 2 + Signed(8, i.imm) \in Int
      BY <1>2, <2>2
    <2> QED BY <1>1, <1>3, <2>3, <2>4, WrapIsWord
  <1> QED BY <1>1, <1>3, <1>4, <1>5, <1>6

LEMMA JumpsKeepMachine ==
  ASSUME MachineOK, NEW i, WellFormed(i),
         IntN(i) \/ Jump(i) \/ Call(i) \/ Ret(i) \/ Iret(i) \/ JumpIf(i)
  PROVE  MachineOK'
  <1>0. \A n \in Nat : PC + n \in Int /\ Wrap(PC + n) \in Word
    BY WordIsInteger, WrapIsWord DEF MachineOK
  <1>1. CASE IntN(i)
    <2>1. CASE i.x = 1
      BY <1>1, <2>1, SkipType DEF IntN, MachineOK
    <2>2. CASE i.x # 1
      <3>1. FlagWord(FL) \in Word /\ Wrap(PC + 1) \in Word
        BY <1>0, WordOfFlags DEF MachineOK
      <3>2. StoreOK(store') /\ SP' \in Word
        BY <1>1, <2>2, <3>1, PushTwoType DEF IntN
      <3>3. PC' \in Word
        BY <1>1, <2>2, <3>2, ReadWordIsWord DEF IntN
      <3> QED BY <1>1, <2>2, <3>2, <3>3 DEF IntN, MachineOK
    <2> QED BY <2>1, <2>2
  <1>2. CASE Jump(i)
    BY <1>2, TargetType DEF Jump, MachineOK
  <1>3. CASE Call(i)
    <2>1. ReturnAddress(i) \in Word /\ Target(i) \in Word
      BY <1>3, TargetType DEF Call
    <2>2. StoreOK(store') /\ SP' \in Word
      BY <1>3, <2>1, PushOneType DEF Call
    <2> QED BY <1>3, <2>1, <2>2 DEF Call, MachineOK
  <1>4. CASE Ret(i)
    BY <1>4, PopType, OnStackType DEF Ret, MachineOK
  <1>5. CASE Iret(i)
    <2>1. FL' \in Flags
      BY <1>5, OnStackType, FlagsOfWord DEF Iret
    <2> QED BY <1>5, <2>1, PopType, OnStackType DEF Iret, MachineOK
  <1>6. CASE JumpIf(i)
    <2>1. i.imm \in Byte
      <3>1. i.op \notin {"LEA", "LD", "SR"}
        BY <1>6 DEF JumpIf, Conditions
      <3>2. Forms(i.op) = {"R"}
        BY <1>6 DEF JumpIf, Forms, LogicOps, ArithOps, MulDivOps, ShiftOps, UnaryOps, Conditions
      <3> QED BY <3>1, <3>2, Operands DEF LongImmediate, WellFormed
    <2>2. PC + 2 + (IF Taken(i.op, FL) THEN Signed(8, i.imm) ELSE 0) \in Int
      BY <1>0, <2>1, SignedIsInteger DEF Numbers
    <2>3. PC' \in Word
      BY <1>6, <2>2, WrapIsWord DEF JumpIf
    <2> QED BY <1>6, <2>3 DEF JumpIf, MachineOK
  <1> QED BY <1>1, <1>2, <1>3, <1>4, <1>5, <1>6

LEMMA FormsBW ==
  ASSUME NEW i, WellFormed(i), i.op \in {"ROR", "ROL", "NOT", "SWP", "LD", "SR", "PUSH", "POP", "LEA"}
  PROVE  i.form \in {"B", "W"}
  <1>1. Forms(i.op) = {"B", "W"}
    BY DEF Forms, LogicOps, ArithOps, MulDivOps, ShiftOps, UnaryOps, Conditions
  <1> QED BY <1>1 DEF WellFormed

LEMMA AddressType ==
  ASSUME MachineOK, NEW i, WellFormed(i), i.op \in {"LD", "SR"}
  PROVE  /\ Address(i) \in Word /\ AddressBytes(i.m) \in Nat
         /\ i.form = "B" => i.x \in 0 .. 7
         /\ i.form = "W" => i.x \in 0 .. 3
  <1>1. /\ i.imm \in Int /\ W[i.y] \in Int /\ W[i.z] \in Int /\ SP \in Int /\ i.m \in 0 .. 7
    BY Operands, WordIsInteger DEF MachineOK
  <1>2. Address(i) \in Word
    BY <1>1, WrapIsWord DEF Address
  <1>3. AddressBytes(i.m) \in Nat
    BY <1>1 DEF AddressBytes
  <1> QED BY <1>2, <1>3, Operands DEF OnBytes

LEMMA MemoryKeepsMachine ==
  ASSUME MachineOK, NEW i, WellFormed(i), LoadB(i) \/ LoadW(i) \/ StoreB(i) \/ StoreW(i)
  PROVE  MachineOK'
  <1>1. CASE LoadB(i)
    <2>1. W' \in [0 .. 3 -> Word]
      BY <1>1, AddressType, ReadByteIsByte, PutByteType DEF LoadB, MachineOK
    <2> QED BY <1>1, <2>1, AddressType, SkipType DEF LoadB, MachineOK
  <1>2. CASE LoadW(i)
    <2>1. W' \in [0 .. 3 -> Word]
      BY <1>2, AddressType, ReadWordIsWord DEF LoadW, MachineOK
    <2> QED BY <1>2, <2>1, AddressType, SkipType DEF LoadW, MachineOK
  <1>3. CASE StoreB(i)
    <2>1. StoreOK(store')
      BY <1>3, AddressType, ByteRegister, WriteByteKeepsStore DEF StoreB, MachineOK
    <2> QED BY <1>3, <2>1, AddressType, SkipType DEF StoreB, MachineOK
  <1>4. CASE StoreW(i)
    <2>1. StoreOK(store')
      BY <1>4, AddressType, WriteWordKeepsStore DEF StoreW, MachineOK
    <2> QED BY <1>4, <2>1, AddressType, SkipType DEF StoreW, MachineOK
  <1> QED BY <1>1, <1>2, <1>3, <1>4

LEMMA PopIntoType ==
  ASSUME MachineOK, NEW i, WellFormed(i), PopInto(i)
  PROVE  W' \in [0 .. 3 -> Word] /\ FL' \in Flags
  <1>1. \A k : OnStack(k) \in Word /\ Low(OnStack(k)) \in Byte
    BY OnStackType, BytesOfWord
  <1>2. CASE i.op = "POP" /\ i.form = "B"
    <2>1. PutB(W, i.x, Low(OnStack(0))) \in [0 .. 3 -> Word]
      BY <1>1, <1>2, Operands, PutByteType DEF OnBytes, MachineOK
    <2> QED BY <1>2, <2>1 DEF PopInto, MachineOK
  <1>3. CASE i.op = "POP" /\ i.form = "W"
    <2>1. [W EXCEPT ![i.x] = OnStack(0)] \in [0 .. 3 -> Word]
      BY <1>1 DEF MachineOK
    <2> QED BY <1>3, <2>1 DEF PopInto, MachineOK
  <1>4. CASE i.op = "POPA"
    <2>1. [j \in 0 .. 3 |-> OnStack(3 - j)] \in [0 .. 3 -> Word]
      BY <1>1
    <2> QED BY <1>4, <2>1 DEF PopInto, MachineOK
  <1>5. CASE i.op \in {"POPF", "DROP"}
    <2>1. FlagsOf(OnStack(0)) \in Flags
      BY <1>1, FlagsOfWord
    <2> QED BY <1>5, <2>1 DEF PopInto, MachineOK
  <1>6. i.op = "POP" => i.form \in {"B", "W"}
    BY FormsBW
  <1> QED BY <1>2, <1>3, <1>4, <1>5, <1>6 DEF PopInto

LEMMA StackKeepsMachine ==
  ASSUME MachineOK, NEW i, WellFormed(i), PopInto(i) \/ PushFrom(i)
  PROVE  MachineOK'
  <1>1. CASE PopInto(i)
    <2>1. SP' \in Word
      BY <1>1, PopType DEF PopInto
    <2> QED BY <1>1, <2>1, PopIntoType, SkipType DEF PopInto, MachineOK
  <1>2. CASE PushFrom(i)
    <2>1. StoreOK(store') /\ SP' \in Word
      <3>1. CASE i.op = "PUSH" /\ i.form = "B"
        <4>1. B(i.x) \in Word
          BY <3>1, Operands, ByteRegister, ByteIsWord DEF OnBytes, MachineOK
        <4> QED BY <1>2, <3>1, <4>1, PushOneType DEF PushFrom
      <3>2. CASE i.op = "PUSH" /\ i.form = "W"
        <4>1. W[i.x] \in Word
          BY <3>2, Operands DEF OnBytes, MachineOK
        <4> QED BY <1>2, <3>2, <4>1, PushOneType DEF PushFrom
      <3>3. CASE i.op = "PUSHA"
        <4>1. W[0] \in Word /\ W[1] \in Word /\ W[2] \in Word /\ W[3] \in Word
          BY DEF MachineOK
        <4> QED BY <1>2, <3>3, <4>1, PushFourType DEF PushFrom
      <3>4. CASE i.op = "PUSHF"
        <4>1. FlagWord(FL) \in Word
          BY WordOfFlags DEF MachineOK
        <4> QED BY <1>2, <3>4, <4>1, PushOneType DEF PushFrom
      <3>5. CASE i.op = "PUSHPC"
        BY <1>2, <3>5, PushOneType DEF PushFrom, MachineOK
      <3>6. CASE i.op = "DUP"
        BY <1>2, <3>6, PushOneType, OnStackType DEF PushFrom
      <3>7. i.op = "PUSH" => i.form \in {"B", "W"}
        BY FormsBW
      <3> QED BY <1>2, <3>1, <3>2, <3>3, <3>4, <3>5, <3>6, <3>7 DEF PushFrom
    <2> QED BY <1>2, <2>1, SkipType DEF PushFrom, MachineOK
  <1> QED BY <1>1, <1>2

LEMMA LogicArithKeepMachine ==
  ASSUME MachineOK, NEW i, WellFormed(i), NEW bytes \in Nat, NEW inverted \in BOOLEAN,
         LogicStep(i, bytes) \/ ArithStep(i, bytes, inverted)
  PROVE  MachineOK'
  <1>1. i.op \in Binaries /\ i.op \in Operations
    BY DEF LogicStep, ArithStep, Binaries, Operations
  <1>2. Bits(i) \in {8, 16} /\ First(i) \in Numbers(Bits(i)) /\ Second(i) \in Numbers(Bits(i)) /\ FL \in Flags
    BY <1>1, WidthIsOfBytes, OperandsAreNumbers DEF MachineOK
  <1>3. PC' \in Word
    BY SkipType DEF LogicStep, ArithStep
  <1>4. CASE LogicStep(i, bytes)
    <2>1. ResultOK(Bits(i), Logic(i.op, Bits(i), First(i), Second(i), FL))
      BY <1>2, <1>4, LogicType DEF LogicStep
    <2> QED BY <1>1, <1>3, <1>4, <2>1, ComputeType DEF LogicStep
  <1>5. CASE ArithStep(i, bytes, inverted)
    <2>1. ResultOK(Bits(i), Arith(i.op, Bits(i), First(i), Second(i), FL, inverted))
      BY <1>2, <1>5, ArithType DEF ArithStep
    <2> QED BY <1>1, <1>3, <1>5, <2>1, ComputeType DEF ArithStep
  <1> QED BY <1>4, <1>5

(* The byte that has the number of a word.                                 *)
LEMMA SarWordType ==
  ASSUME MachineOK, NEW x \in 0 .. 3
  PROVE  /\ W[x] \div 2 \in Word /\ (W[x] \div 2) % 4096 \in Word
         /\ W[x] % 2 \in 0 .. 1
  <1>1. W[x] \in Int /\ 0 <= W[x] /\ W[x] <= 65535
    BY WordIsInteger DEF MachineOK
  <1> QED BY <1>1 DEF Word

LEMMA ShiftsKeepMachine ==
  ASSUME MachineOK, NEW i, WellFormed(i), ShiftB(i) \/ ShiftW(i)
  PROVE  MachineOK'
  <1>1. i.op \in Operations /\ PC' \in Word /\ FL \in Flags
    BY SkipType DEF ShiftB, ShiftW, Operations, MachineOK
  <1>2. Bits(i) \in {8, 16} /\ First(i) \in Numbers(Bits(i))
    BY <1>1, WidthIsOfBytes, OperandsAreNumbers DEF MachineOK
  <1>3. CASE ShiftB(i)
    <2>1. Bits(i) = 8 /\ First(i) = B(i.x)
      BY <1>3 DEF ShiftB, Bits, First
    <2>2. B(i.y) \in Byte
      BY <1>1, <2>1, OperandRegisters, ByteRegister DEF Register, MachineOK
    <2>3. ShiftCounts(B(i.y), 32) \subseteq Nat
      BY <2>2 DEF ShiftCounts, Byte
    <2>4. ASSUME i.op \in ShiftOps, NEW k \in ShiftCounts(B(i.y), 32)
          PROVE  ResultOK(8, Shift(i.op, 8, B(i.x), k, FL, 0))
      BY <1>1, <1>2, <2>1, <2>3, <2>4, ShiftType
    <2>5. ASSUME i.op \in {"ROR", "ROL"} PROVE ResultOK(8, Rotate(i.op, 8, B(i.x), FL))
      BY <1>1, <1>2, <2>1, <2>5, RotateType
    <2>6. ResultOK(8, Complement(8, B(i.x), FL))
      BY <1>1, <1>2, <2>1, UnaryType
    <2> QED BY <1>1, <1>3, <2>1, <2>4, <2>5, <2>6, ComputeType DEF ShiftB
  <1>4. CASE ShiftW(i)
    <2>1. Bits(i) = 16 /\ First(i) = W[i.x]
      BY <1>4 DEF ShiftW, Bits, First
    <2>2. B(i.y) \in Byte /\ i.x \in 0 .. 3
      BY <1>1, <2>1, OperandRegisters, ByteRegister DEF Register, MachineOK
    <2>3. ShiftCounts(B(i.y), 64) \subseteq Nat
      BY <2>2 DEF ShiftCounts, Byte
    <2>4. ASSUME i.op \in ShiftOps, NEW k \in ShiftCounts(B(i.y), 64), NEW stale \in 0 .. 1
          PROVE  ResultOK(16, Shift(i.op, 16, W[i.x], k, FL, stale))
      BY <1>1, <1>2, <2>1, <2>3, <2>4, ShiftType
    <2>5. \A op \in {"ROR", "ROL"} : ResultOK(16, Rotate(op, 16, W[i.x], FL))
      BY <1>1, <1>2, <2>1, RotateType
    <2>6. ResultOK(16, Complement(16, W[i.x], FL))
      BY <1>1, <1>2, <2>1, UnaryType
    <2>7. ASSUME RotateLeftW(i) PROVE MachineOK'
      <3> DEFINE turned == Rotate("ROL", 16, W[i.x], FL)
      <3>1. turned.r \in Word /\ turned.f \in Flags
        BY <2>5 DEF ResultOK, Numbers
      <3> HIDE DEF turned
      <3>2. W' = [W EXCEPT ![i.x] = turned.r]
        BY <2>7 DEF RotateLeftW, turned
      <3>3. \E b \in BOOLEAN : FL' = [turned.f EXCEPT !.N = 0, !.Z = Flag(b)]
        BY <2>7 DEF RotateLeftW, turned
      <3>4. FL' \in Flags
        <4>1. PICK b \in BOOLEAN : FL' = [turned.f EXCEPT !.N = 0, !.Z = Flag(b)]
          BY <3>3
        <4>2. Flag(b) \in 0 .. 1 /\ 0 \in 0 .. 1
          BY FlagIsBit
        <4> QED BY <3>1, <4>1, <4>2, FlagsWithTwoBits
      <3> QED BY <1>1, <2>2, <2>7, <3>1, <3>2, <3>4 DEF RotateLeftW, MachineOK
    <2> QED BY <1>1, <1>4, <2>1, <2>4, <2>5, <2>6, <2>7, ComputeType DEF ShiftW
  <1> QED BY <1>3, <1>4

LEMMA UnaryKeepsMachine ==
  ASSUME MachineOK, NEW i, WellFormed(i), UnaryB(i) \/ UnaryW(i)
  PROVE  MachineOK'
  <1>1. i.op \in Operations /\ PC' \in Word /\ FL \in Flags
    BY SkipType DEF UnaryB, UnaryW, Operations, MachineOK
  <1>2. Bits(i) \in {8, 16} /\ First(i) \in Numbers(Bits(i))
    BY <1>1, WidthIsOfBytes, OperandsAreNumbers DEF MachineOK
  <1>3. i.x \in 0 .. 7 /\ Bit(B(i.x), 7) \in 0 .. 1
    <2>1. i.x \in 0 .. 7
      BY <1>1, OperandRegisters DEF Register
    <2>2. B(i.x) \in Int
      BY <2>1, ByteRegister, NumbersAreIntegers DEF MachineOK, Byte
    <2> QED BY <2>1, <2>2, BitIsBit
  <1>4. CASE UnaryB(i)
    <2>1. Bits(i) = 8 /\ First(i) = B(i.x)
      BY <1>4 DEF UnaryB, Bits, First
    <2>2. CASE i.op \in ShiftOps
      <3>1. ResultOK(8, Shift(i.op, 8, B(i.x), 1, FL, 0))
        BY <1>1, <1>2, <2>1, <2>2, ShiftType
      <3>2. Compute(i, Shift(i.op, 8, B(i.x), 1, FL, 0))
        BY <1>4, <2>2 DEF UnaryB, ShiftOps
      <3> QED BY <1>1, <2>1, <3>1, <3>2, ComputeType
    <2>3. CASE i.op \in UnaryOps
      <3>1. /\ ResultOK(8, Increment(8, B(i.x), FL)) /\ ResultOK(8, Negate(8, B(i.x), FL))
            /\ ResultOK(8, Decrement(8, B(i.x), Bit(B(i.x), 7), FL))
        BY <1>1, <1>2, <1>3, <2>1, UnaryType
      <3>2. i.op \notin ShiftOps
        BY <2>3 DEF UnaryOps, ShiftOps
      <3> QED BY <1>1, <1>4, <2>1, <2>3, <3>1, <3>2, ComputeType DEF UnaryB, UnaryOps
    <2> QED BY <1>4, <2>2, <2>3 DEF UnaryB
  <1>5. CASE UnaryW(i)
    <2>1. Bits(i) = 16 /\ First(i) = W[i.x]
      BY <1>5 DEF UnaryW, Bits, First
    <2>2. i.x \in 0 .. 3
      BY <1>1, <2>1, OperandRegisters DEF Register
    <2>3. /\ ResultOK(16, Shl(16, W[i.x], 1, FL))
          /\ ResultOK(16, Increment(16, W[i.x], FL)) /\ ResultOK(16, Negate(16, W[i.x], FL))
          /\ ResultOK(16, Decrement(16, W[i.x], Bit(B(i.x), 7), FL))
      <3>1. ResultOK(16, Shift("SHL", 16, W[i.x], 1, FL, 0))
        BY <1>1, <1>2, <2>1, ShiftType DEF ShiftOps
      <3>2. ResultOK(16, Shl(16, W[i.x], 1, FL))
        BY <3>1 DEF Shift
      <3> QED BY <1>1, <1>2, <1>3, <2>1, <3>2, UnaryType
    <2>4. ASSUME ShiftRight1W(i) PROVE MachineOK'
      <3> DEFINE half == W[i.x] \div 2
                 f == [NZ(16, half, FL) EXCEPT !.C = W[i.x] % 2, !.N = Bit(half, 7)]
      <3>1. half \in Word /\ W[i.x] % 2 \in 0 .. 1
        BY <2>2, SarWordType
      <3>2. Bit(half, 7) \in 0 .. 1 /\ NZ(16, half, FL) \in Flags
        BY <1>1, <3>1, WordIsInteger, BitIsBit, NZKeepsFlags
      <3>3. f \in Flags
        <4> DEFINE g == NZ(16, half, FL)
        <4> HIDE DEF g
        <4>1. [g EXCEPT !.C = W[i.x] % 2, !.N = Bit(half, 7)] \in Flags
          BY <3>1, <3>2 DEF Flags, g
        <4> QED BY <4>1 DEF g
      <3>4. ResultOK(16, [r |-> half, f |-> f])
        BY <3>1, <3>3 DEF ResultOK, Numbers
      <3> QED BY <1>1, <2>1, <2>4, <3>4, ComputeType DEF ShiftRight1W
    <2>5. ASSUME SarW1(i) PROVE MachineOK'
      <3>1. W' \in [0 .. 3 -> Word]
        BY <2>2, <2>5, SarWordType DEF SarW1, MachineOK
      <3>2. PICK b \in BOOLEAN, stale \in 0 .. 1 : FL' = [FL EXCEPT !.N = 0, !.Z = Flag(b), !.C = stale]
        BY <2>5 DEF SarW1
      <3>3. FL' \in Flags
        <4>1. Flag(b) \in 0 .. 1 /\ 0 \in 0 .. 1
          BY FlagIsBit
        <4> QED BY <1>1, <3>2, <4>1 DEF Flags
      <3> QED BY <1>1, <2>5, <3>1, <3>3 DEF SarW1, MachineOK
    <2> QED BY <1>1, <1>5, <2>1, <2>3, <2>4, <2>5, ComputeType DEF UnaryW
  <1> QED BY <1>4, <1>5

LEMMA TwoResultsType ==
  ASSUME MachineOK, NEW i, WellFormed(i), i.op \in Operations, NEW j, Register(i, j),
         NEW high \in Numbers(Bits(i)), NEW low \in Numbers(Bits(i))
  PROVE  TwoResults(i, j, high, low) \in [0 .. 3 -> Word]
  <1>1. Bits(i) \in {8, 16} /\ Register(i, i.x)
    BY WidthIsOfBytes, OperandRegisters
  <1>2. Put(W, i, j, high) \in [0 .. 3 -> Word]
    BY <1>1, PutType DEF MachineOK
  <1> QED BY <1>1, <1>2, PutType DEF TwoResults

LEMMA ProductOfType ==
  ASSUME NEW i, Bits(i) \in {8, 16}, i.op \in {"MUL", "IMUL"},
         NEW x \in Numbers(Bits(i)), NEW y \in Numbers(Bits(i)), NEW p \in ProductOf(i, x, y)
  PROVE  p.high \in Numbers(Bits(i)) /\ p.low \in Numbers(Bits(i))
  <1>1. CASE i.op = "MUL"
    BY <1>1, ProductType DEF ProductOf
  <1>2. CASE i.op = "IMUL" /\ Bits(i) = 8
    BY <1>2, SignedProductType DEF ProductOf, Numbers
  <1>3. CASE i.op = "IMUL" /\ Bits(i) = 16
    BY <1>3, CpuAssumption DEF ProductOf, Numbers
  <1> QED BY <1>1, <1>2, <1>3

LEMMA MulDivKeepsMachine ==
  ASSUME MachineOK, NEW i, WellFormed(i), NEW j, Register(i, j), NEW bytes \in Nat, i.op \in MulDivOps,
         MulDivStep(i, j, bytes)
  PROVE  MachineOK'
  <1>1. i.op \in Operations /\ i.op \in Binaries /\ FL \in Flags
    BY DEF Operations, Binaries, MachineOK
  <1>2. Bits(i) \in {8, 16} /\ First(i) \in Numbers(Bits(i)) /\ Second(i) \in Numbers(Bits(i))
    BY <1>1, WidthIsOfBytes, OperandsAreNumbers DEF MachineOK
  <1>3. CASE MultiplyStep(i, j, bytes)
    <2>1. PICK p \in ProductOf(i, First(i), Second(i)) : Multiply(i, j, p)
      BY <1>3 DEF MultiplyStep
    <2>2. p.high \in Numbers(Bits(i)) /\ p.low \in Numbers(Bits(i))
      BY <1>2, <1>3, ProductOfType DEF MultiplyStep
    <2> DEFINE after == TwoResults(i, j, p.high, p.low)
    <2>3. after \in [0 .. 3 -> Word]
      BY <1>1, <2>2, TwoResultsType
    <2> HIDE DEF after
    <2> DEFINE top == IF Bits(i) = 16 THEN after[j] ELSE IF j % 2 = 0 THEN Low(after[j \div 2]) ELSE High(after[j \div 2])
    <2>4. top \in Int
      <3>1. CASE Bits(i) = 16
        BY <2>3, <3>1, WordIsInteger DEF Register
      <3>2. CASE Bits(i) = 8
        <4>1. j \div 2 \in 0 .. 3
          BY <3>2 DEF Register
        <4>2. Low(after[j \div 2]) \in Byte /\ High(after[j \div 2]) \in Byte
          BY <2>3, <4>1, BytesOfWord
        <4> QED BY <3>2, <4>2, ByteIsWord, WordIsInteger
      <3> QED BY <1>2, <3>1, <3>2
    <2>5. W' = after /\ FL' = [FL EXCEPT !.N = Bit(top, Bits(i) - 1), !.Z = Flag(p.high = 0 /\ p.low = 0)]
      BY <2>1 DEF Multiply, after
    <2>6. FL' \in Flags
      <3> HIDE DEF top
      <3>1. Bit(top, Bits(i) - 1) \in 0 .. 1 /\ Flag(p.high = 0 /\ p.low = 0) \in 0 .. 1
        BY <1>2, <2>4, SignIsBit, FlagIsBit
      <3> QED BY <1>1, <2>5, <3>1, FlagsWithTwoBits
    <2>7. PC' \in Word
      BY <1>3, SkipType DEF MultiplyStep
    <2> QED BY <2>1, <2>3, <2>5, <2>6, <2>7 DEF Multiply, MachineOK
  <1>4. CASE DivideStep(i, j, bytes)
    <2>1. CASE Second(i) # 0
      <3>1. PICK d \in {Division(Bits(i), First(i), Second(i)), SignedDivision(Bits(i), First(i), Second(i))} :
              Quotient(i, j, d)
        BY <1>4, <2>1 DEF DivideStep
      <3>2. d.quotient \in Numbers(Bits(i)) /\ d.remainder \in Numbers(Bits(i))
        BY <1>2, <2>1, DivisionType
      <3>3. W' \in [0 .. 3 -> Word]
        BY <1>1, <3>1, <3>2, TwoResultsType DEF Quotient
      <3>4. FL' \in Flags
        BY <1>1, <1>2, <3>1, <3>2, NumbersAreIntegers, NZKeepsFlags DEF Quotient
      <3> QED BY <1>4, <2>1, <3>3, <3>4, SkipType DEF DivideStep, MachineOK
    <2>2. CASE Second(i) = 0
      <3>1. Wrap(PC + bytes) \in Word
        BY WordIsInteger, WrapIsWord DEF MachineOK
      <3>2. Interrupt(DIVZERO, Wrap(PC + bytes)) /\ status' = "BADINSTR" /\ UNCHANGED W
        BY <1>4, <2>2 DEF DivideStep
      <3>3. /\ StoreOK(store') /\ SP' \in Word /\ PC' \in Word /\ FL' \in Flags
            /\ pending' \in Interrupts \cup {NOPENDING, DIVZERO}
        BY <3>1, <3>2, InterruptType
      <3> QED BY <3>2, <3>3 DEF MachineOK
    <2> QED BY <2>1, <2>2
  <1> QED BY <1>3, <1>4 DEF MulDivStep

LEMMA MulDivFormsKeepMachine ==
  ASSUME MachineOK, NEW i, WellFormed(i), MulDivB(i) \/ MulDivW(i) \/ MulDivBI(i) \/ MulDivWI(i)
  PROVE  MachineOK'
  <1>1. i.op \in MulDivOps /\ i.op \in Operations
    BY DEF MulDivB, MulDivW, MulDivBI, MulDivWI, MulDivStep, MultiplyStep, DivideStep, MulDivOps, Operations, Binaries
  <1>2. Register(i, i.y) /\ (i.form = "W" => Register(i, i.z))
    BY <1>1, OperandRegisters DEF Bits
  <1> QED BY <1>1, <1>2, MulDivKeepsMachine DEF MulDivB, MulDivW, MulDivBI, MulDivWI

LEMMA MovesKeepMachine ==
  ASSUME MachineOK, NEW i, WellFormed(i), Move(i) \/ Swap(i) \/ MoveSP(i) \/ MoveImmediate(i)
  PROVE  MachineOK'
  <1>1. i.op \in Operations
    BY DEF Move, Swap, MoveSP, MoveImmediate, Operations
  <1>2. Bits(i) \in {8, 16} /\ First(i) \in Numbers(Bits(i)) /\ Register(i, i.x) /\ Register(i, i.y)
    BY <1>1, WidthIsOfBytes, OperandsAreNumbers, OperandRegisters DEF MachineOK
  <1>3. ASSUME i.form \in {"B", "W"} PROVE Second(i) \in Numbers(Bits(i))
    <2>1. CASE i.form = "B"
      BY <1>2, <2>1, ByteRegister DEF Second, Bits, Register, Numbers, MachineOK
    <2>2. CASE i.form = "W"
      BY <1>2, <2>2 DEF Second, Bits, Register, Numbers, MachineOK
    <2> QED BY <1>3, <2>1, <2>2
  <1>4. CASE Move(i)
    <2>1. W' \in [0 .. 3 -> Word]
      BY <1>2, <1>3, <1>4, PutType DEF Move, MachineOK
    <2> QED BY <1>4, <2>1, SkipType DEF Move, MachineOK
  <1>5. CASE Swap(i)
    <2>1. Second(i) \in Numbers(Bits(i))
      BY <1>3, <1>5, FormsBW DEF Swap
    <2>2. Put(W, i, i.x, Second(i)) \in [0 .. 3 -> Word]
      BY <1>2, <2>1, PutType DEF MachineOK
    <2>3. W' \in [0 .. 3 -> Word]
      BY <1>2, <1>5, <2>2, PutType DEF Swap
    <2> QED BY <1>5, <2>3, SkipType DEF Swap, MachineOK
  <1>6. CASE MoveSP(i)
    <2>1. Bits(i) = 16 /\ i.x \in 0 .. 3
      BY <1>2, <1>6 DEF MoveSP, Bits, Register
    <2> QED BY <1>6, <2>1, SkipType DEF MoveSP, MachineOK
  <1>7. CASE MoveImmediate(i)
    <2>1. CASE i.form = "BI"
      <3>1. i.x \in 0 .. 7
        BY <1>2, <2>1 DEF Register, Bits
      <3>2. i.imm \in Byte
        BY <1>7, <2>1, Operands DEF MoveImmediate, LongImmediate
      <3>3. PutB(W, i.x, i.imm) \in [0 .. 3 -> Word]
        BY <3>1, <3>2, PutByteType DEF MachineOK
      <3> QED BY <1>7, <2>1, <3>3, SkipType DEF MoveImmediate, MachineOK
    <2>2. CASE i.form = "WI"
      BY <1>7, <2>2, Operands, SkipType DEF MoveImmediate, MachineOK
    <2>3. CASE i.form = "SI"
      BY <1>7, <2>3, Operands, SkipType DEF MoveImmediate, MachineOK
    <2> QED BY <1>7, <2>1, <2>2, <2>3 DEF MoveImmediate
  <1> QED BY <1>4, <1>5, <1>6, <1>7

LEMMA ControlKeepsMachine ==
  ASSUME MachineOK, NEW i, WellFormed(i), Control(i) \/ BadInstruction(i)
  PROVE  MachineOK'
  <1>1. CASE Control(i)
    <2>1. FL' \in Flags
      <3>1. [FL EXCEPT !.I = 0] \in Flags /\ [FL EXCEPT !.I = 1] \in Flags
        BY DEF MachineOK, Flags
      <3> QED BY <1>1, <3>1 DEF Control, MachineOK
    <2>2. PC' \in Word
      <3>1. (IF i.op \in {"RESET", "HLT"} THEN 0 ELSE 1) \in Nat
        OBVIOUS
      <3> QED BY <1>1, <3>1, SkipType DEF Control
    <2> QED BY <1>1, <2>1, <2>2 DEF Control, MachineOK
  <1>2. CASE BadInstruction(i)
    <2>1. /\ StoreOK(store') /\ SP' \in Word /\ PC' \in Word /\ FL' \in Flags
          /\ pending' \in Interrupts \cup {NOPENDING, DIVZERO}
      BY <1>2, InterruptType DEF BadInstruction, MachineOK
    <2> QED BY <1>2, <2>1 DEF BadInstruction, MachineOK
  <1> QED BY <1>1, <1>2

LEMMA ExecuteKeepsMachine ==
  ASSUME MachineOK, NEW i, WellFormed(i), Execute(i)
  PROVE  MachineOK'
  <1>1. CASE Nop(i) \/ In(i) \/ Out(i) \/ Lea(i) \/ SetFlag(i)
    BY <1>1, TransfersKeepMachine
  <1>2. CASE IntN(i) \/ Jump(i) \/ Call(i) \/ Ret(i) \/ Iret(i) \/ JumpIf(i)
    BY <1>2, JumpsKeepMachine
  <1>3. CASE LoadB(i) \/ LoadW(i) \/ StoreB(i) \/ StoreW(i)
    BY <1>3, MemoryKeepsMachine
  <1>4. CASE PopInto(i) \/ PushFrom(i)
    BY <1>4, StackKeepsMachine
  <1>5. CASE LogicB(i) \/ LogicW(i) \/ LogicBI(i) \/ LogicWI(i) \/ ArithB(i) \/ ArithW(i) \/ ArithBI(i) \/ ArithWI(i)
    BY <1>5, LogicArithKeepMachine DEF LogicB, LogicW, LogicBI, LogicWI, ArithB, ArithW, ArithBI, ArithWI
  <1>6. CASE ShiftB(i) \/ ShiftW(i)
    BY <1>6, ShiftsKeepMachine
  <1>7. CASE UnaryB(i) \/ UnaryW(i)
    BY <1>7, UnaryKeepsMachine
  <1>8. CASE MulDivB(i) \/ MulDivW(i) \/ MulDivBI(i) \/ MulDivWI(i)
    BY <1>8, MulDivFormsKeepMachine
  <1>9. CASE Move(i) \/ Swap(i) \/ MoveSP(i) \/ MoveImmediate(i)
    BY <1>9, MovesKeepMachine
  <1>10. CASE Control(i) \/ BadInstruction(i)
    BY <1>10, ControlKeepsMachine
  <1> QED BY <1>1, <1>2, <1>3, <1>4, <1>5, <1>6, <1>7, <1>8, <1>9, <1>10 DEF Execute

(* Every instruction begins with Fetch.                                    *)
LEMMA ExecuteFetches ==
  ASSUME NEW i, Execute(i)
  PROVE  Fetch(i)
  <1>1. CASE Nop(i) \/ In(i) \/ Out(i) \/ Lea(i) \/ SetFlag(i)
    BY <1>1 DEF Nop, In, Out, Lea, SetFlag
  <1>2. CASE IntN(i) \/ Jump(i) \/ Call(i) \/ Ret(i) \/ Iret(i) \/ JumpIf(i)
    BY <1>2 DEF IntN, Jump, Call, Ret, Iret, JumpIf
  <1>3. CASE LoadB(i) \/ LoadW(i) \/ StoreB(i) \/ StoreW(i)
    BY <1>3 DEF LoadB, LoadW, StoreB, StoreW
  <1>4. CASE PopInto(i) \/ PushFrom(i)
    BY <1>4 DEF PopInto, PushFrom
  <1>5. CASE LogicB(i) \/ LogicW(i) \/ LogicBI(i) \/ LogicWI(i) \/ ArithB(i) \/ ArithW(i) \/ ArithBI(i) \/ ArithWI(i)
    BY <1>5 DEF LogicB, LogicW, LogicBI, LogicWI, ArithB, ArithW, ArithBI, ArithWI, LogicStep, ArithStep
  <1>6. CASE ShiftB(i) \/ ShiftW(i) \/ UnaryB(i) \/ UnaryW(i)
    BY <1>6 DEF ShiftB, ShiftW, UnaryB, UnaryW
  <1>7. CASE MulDivB(i) \/ MulDivW(i) \/ MulDivBI(i) \/ MulDivWI(i)
    BY <1>7 DEF MulDivB, MulDivW, MulDivBI, MulDivWI, MulDivStep, MultiplyStep, DivideStep
  <1>8. CASE Move(i) \/ Swap(i) \/ MoveSP(i) \/ MoveImmediate(i)
    BY <1>8 DEF Move, Swap, MoveSP, MoveImmediate
  <1>9. CASE Control(i) \/ BadInstruction(i)
    BY <1>9 DEF Control, BadInstruction
  <1> QED BY <1>1, <1>2, <1>3, <1>4, <1>5, <1>6, <1>7, <1>8, <1>9 DEF Execute

(* The program and the loader.                                             *)
ProgramOK ==
  /\ executed \in 0 .. Len(program)
  /\ \A k \in 1 .. Len(program) : WellFormed(program[k])

LoaderOK ==
  /\ map \in 0 .. Len(CodeMaps) + 1
  /\ left \subseteq IF map \in 1 .. Len(CodeMaps) THEN DOMAIN CodeMaps[map].code ELSE {}

LEMMA TypeOKParts == TypeOK <=> MachineOK /\ ProgramOK /\ LoaderOK
  BY DEF TypeOK, MachineOK, ProgramOK, LoaderOK

LEMMA InitTypeOK == Init => TypeOK
  <1> SUFFICES ASSUME Init PROVE TypeOK
    OBVIOUS
  <1>1. StoreOK(store)
    BY StartedStore DEF Init
  <1>2. FL \in Flags
    BY ByteIsWord, FlagsOfWord DEF Init, ClearedFlags
  <1>3. W \in [0 .. 3 -> Word] /\ SP \in Word /\ PC \in Word
    BY ByteIsWord DEF Init, Word
  <1>4. MachineOK
    BY <1>1, <1>2, <1>3 DEF Init, MachineOK
  <1>5. ProgramOK
    BY DEF Init, ProgramOK
  <1>6. LoaderOK
    BY CodeMapsAssumption DEF Init, LoaderOK
  <1> QED BY <1>4, <1>5, <1>6, TypeOKParts

LEMMA NextTypeOK == TypeOK /\ [Next]_vars => TypeOK'
  <1> SUFFICES ASSUME MachineOK, ProgramOK, LoaderOK, [Next]_vars
               PROVE  MachineOK' /\ ProgramOK' /\ LoaderOK'
    BY DEF TypeOK, MachineOK, ProgramOK, LoaderOK
  <1>1. CASE ExecuteNext
    <2> DEFINE i == program[executed + 1]
    <2>1. executed + 1 \in 1 .. Len(program) /\ WellFormed(i) /\ Execute(i)
      BY <1>1 DEF ExecuteNext, ProgramOK
    <2>2. Fetch(i)
      BY <2>1, ExecuteFetches
    <2>3. MachineOK'
      BY <2>1, ExecuteKeepsMachine
    <2>4. ProgramOK'
      BY <2>1, <2>2 DEF Fetch, ProgramOK
    <2>5. LoaderOK'
      BY <2>2 DEF Fetch, loading, LoaderOK
    <2> QED BY <2>3, <2>4, <2>5
  <1>2. ASSUME NEW n \in Interrupts \cup {DIVZERO}, TakeInterrupt(n)
        PROVE  MachineOK' /\ ProgramOK' /\ LoaderOK'
    <2>1. /\ StoreOK(store') /\ SP' \in Word /\ PC' \in Word /\ FL' \in Flags
          /\ pending' \in Interrupts \cup {NOPENDING, DIVZERO}
      BY <1>2, InterruptType DEF TakeInterrupt, MachineOK
    <2> QED BY <1>2, <2>1 DEF TakeInterrupt, MachineOK, ProgramOK, LoaderOK, loading
  <1>3. CASE Hypervisor
    BY <1>3 DEF Hypervisor, MachineOK, ProgramOK, LoaderOK, loading
  <1>4. CASE Reset
    <2>1. StoreOK(store')
      BY <1>4, StartedStore DEF Reset
    <2> QED BY <1>4, <2>1, CodeMapsAssumption DEF Reset, MachineOK, ProgramOK, LoaderOK
  <1>5. CASE LoadMap
    <2>1. map + 1 \in 1 .. Len(CodeMaps)
      BY <1>5, CodeMapsAssumption DEF LoadMap, LoaderOK
    <2>2. StoreOK(store')
      BY <1>5, <2>1, LoaderKeepsStore DEF LoadMap, MachineOK
    <2>3. LoaderOK'
      BY <1>5, <2>1, CodeMapsAssumption DEF LoadMap, LoaderOK
    <2> QED BY <1>5, <2>2, <2>3 DEF LoadMap, MachineOK, ProgramOK
  <1>6. CASE LoadByte
    <2>1. PICK a \in left : store' = WriteByte(store, a, CodeMaps[map].code[a]) /\ left' = left \ {a}
      BY <1>6 DEF LoadByte
    <2>2. CodeMaps[map].code[a] \in Byte
      BY <2>1, CodeMapsAssumption DEF LoaderOK
    <2>3. StoreOK(store')
      BY <2>1, <2>2, WriteByteKeepsStore DEF MachineOK
    <2> QED BY <1>6, <2>1, <2>3 DEF LoadByte, MachineOK, ProgramOK, LoaderOK
  <1>7. CASE CpuInit
    <2>1. StoreOK(store')
      BY <1>7, LoaderKeepsStore DEF CpuInit, MachineOK
    <2>2. PC' \in Word
      BY <1>7, <2>1, ReadWordIsWord DEF CpuInit
    <2>3. FL' \in Flags
      BY <1>7, ByteIsWord, FlagsOfWord DEF CpuInit, ClearedFlags
    <2>4. SP' \in Word /\ W' \in [0 .. 3 -> Word]
      BY <1>7, ByteIsWord DEF CpuInit, Word
    <2>5. LoaderOK'
      BY <1>7, CodeMapsAssumption DEF CpuInit, LoaderOK
    <2> QED BY <1>7, <2>1, <2>2, <2>3, <2>4, <2>5 DEF CpuInit, MachineOK, ProgramOK
  <1>8. CASE Begin
    <2>1. PICK start \in Starts : program' = start.program /\ W' = start.W /\ SP' = start.SP /\ FL' = start.FL
      BY <1>8 DEF Begin
    <2>2. W' \in [0 .. 3 -> Word] /\ SP' \in Word /\ FL' \in Flags /\ \A k \in 1 .. Len(program') : WellFormed(program'[k])
      BY <2>1, CpuAssumption
    <2> QED BY <1>8, <2>2 DEF Begin, MachineOK, ProgramOK, LoaderOK, loading
  <1>9. CASE UNCHANGED vars
    BY <1>9 DEF vars, loading, MachineOK, ProgramOK, LoaderOK
  <1> QED BY <1>1, <1>2, <1>3, <1>4, <1>5, <1>6, <1>7, <1>8, <1>9 DEF Next

(* Registers keep their widths, the store its bytes, the flags their bits, *)
(* whatever the program, the code and the interrupts.                      *)
THEOREM TypeCorrect == Spec => []TypeOK
  BY InitTypeOK, NextTypeOK, PTL DEF Spec

-------------------------------------------------------------------------------
(* What a comparison leaves in the flags: x and the opposite of y added.   *)
LEMMA SignBit ==
  ASSUME NEW w \in {8, 16}, NEW x \in Numbers(w)
  PROVE  Bit(x, w - 1) = (IF x < 2^(w - 1) THEN 0 ELSE 1)
  <1>1. x \in Int /\ 0 <= x /\ x < 2^w
    BY NumbersAreIntegers
  <1>2. CASE w = 8
    BY <1>1, <1>2 DEF Bit
  <1>3. CASE w = 16
    BY <1>1, <1>3 DEF Bit
  <1> QED BY <1>2, <1>3

LEMMA Difference ==
  ASSUME NEW w \in {8, 16}, NEW x \in Numbers(w), NEW y \in Numbers(w)
  PROVE  /\ (x + Neg(w, y)) % 2^w = (IF x >= y THEN x - y ELSE x - y + 2^w)
         /\ y # 0 => Bit(x + Neg(w, y), w) = (IF x >= y THEN 1 ELSE 0)
         /\ Neg(w, y) = (IF y = 0 THEN 0 ELSE 2^w - y)
  <1>1. x \in Int /\ 0 <= x /\ x < 2^w /\ y \in Int /\ 0 <= y /\ y < 2^w
    BY NumbersAreIntegers
  <1>2. CASE w = 8
    <2>1. Neg(8, y) = (IF y = 0 THEN 0 ELSE 256 - y)
      BY <1>1, <1>2 DEF Neg
    <2>2. (x + Neg(8, y)) % 256 = (IF x >= y THEN x - y ELSE x - y + 256)
      BY <1>1, <1>2, <2>1
    <2>3. y # 0 => Bit(x + Neg(8, y), 8) = (IF x >= y THEN 1 ELSE 0)
      BY <1>1, <1>2, <2>1 DEF Bit
    <2> QED BY <1>2, <2>1, <2>2, <2>3
  <1>3. CASE w = 16
    <2>1. Neg(16, y) = (IF y = 0 THEN 0 ELSE 65536 - y)
      BY <1>1, <1>3 DEF Neg
    <2>2. (x + Neg(16, y)) % 65536 = (IF x >= y THEN x - y ELSE x - y + 65536)
      BY <1>1, <1>3, <2>1
    <2>3. y # 0 => Bit(x + Neg(16, y), 16) = (IF x >= y THEN 1 ELSE 0)
      BY <1>1, <1>3, <2>1 DEF Bit
    <2> QED BY <1>3, <2>1, <2>2, <2>3
  <1> QED BY <1>2, <1>3

(* What CMP of x with y leaves in the flags g.                             *)
FlagsDecide(g, w, x, y, inverted) ==
  /\ g.Z \in {0, 1} /\ (g.Z = 1 <=> x = y)
  /\ g.C \in {0, 1} /\ (y # 0 => (g.C = 1 <=> x >= y))
  /\ ~inverted /\ y # 2^(w - 1) => (g.N # g.V <=> Signed(w, x) < Signed(w, y))

LEMMA CompareFlags ==
  ASSUME NEW w \in {8, 16}, NEW x \in Numbers(w), NEW y \in Numbers(w), NEW f \in Flags, NEW inverted \in BOOLEAN,
         NEW g, g = Arith("CMP", w, x, y, f, inverted).f
  PROVE  FlagsDecide(g, w, x, y, inverted)
  <1> DEFINE second == Neg(w, y)
             r == (x + second) % 2^w
             s1 == Bit(x, w - 1)
             s2 == IF inverted THEN 1 - Bit(second, w - 1) ELSE Bit(second, w - 1)
             s3 == Bit(r, w - 1)
  <1>1. x \in Int /\ 0 <= x /\ x < 2^w /\ y \in Int /\ 0 <= y /\ y < 2^w
    BY NumbersAreIntegers
  <1>2. second \in Numbers(w) /\ second \in Int
    BY <1>1, Modulo, NumbersAreIntegers
  <1>3. x + second + 0 = x + second
    BY <1>1, <1>2
  <1>4. g.Z = Flag(r = 0) /\ g.C = Bit(x + second, w) /\ g.N = s3 /\ g.V = Flag(s1 = s2 /\ s3 # s1)
    <2>1. NZ(w, r, f) \in Flags /\ NZ(w, r, f).Z = Flag(r = 0) /\ NZ(w, r, f).N = s3
      <3>1. r \in Int
        BY <1>1, <1>2, Modulo, NumbersAreIntegers
      <3> HIDE DEF r
      <3>2. NZ(w, r, f) \in Flags
        BY <3>1, NZKeepsFlags
      <3> QED BY <3>2 DEF NZ, Flags
    <2>2. g = [NZ(w, r, f) EXCEPT !.C = Bit(x + second, w), !.V = Flag(s1 = s2 /\ s3 # s1)]
      BY <1>3 DEF Arith, Addend
    <2> HIDE DEF r, second, s1, s2, s3
    <2> QED BY <2>1, <2>2 DEF Flags
  <1>5. r = (IF x >= y THEN x - y ELSE x - y + 2^w) /\ (y # 0 => Bit(x + second, w) = (IF x >= y THEN 1 ELSE 0))
        /\ second = (IF y = 0 THEN 0 ELSE 2^w - y)
    BY Difference
  <1>6. g.Z \in {0, 1} /\ (g.Z = 1 <=> x = y)
    <2>1. r = 0 <=> x = y
      BY <1>1, <1>5
    <2> HIDE DEF r
    <2> QED BY <1>4, <2>1 DEF Flag
  <1>7. g.C \in {0, 1} /\ (y # 0 => (g.C = 1 <=> x >= y))
    <2>1. Bit(x + second, w) \in {0, 1}
      <3>1. x + second \in Int /\ w \in 0 .. 16
        BY <1>1, <1>2
      <3> QED BY <3>1, BitIsBit
    <2> HIDE DEF second
    <2> QED BY <1>4, <1>5, <2>1
  <1>8. ASSUME ~inverted, y # 2^(w - 1)
        PROVE  g.N # g.V <=> Signed(w, x) < Signed(w, y)
    <2>1. r \in Numbers(w)
      <3>1. x + second \in Int
        BY <1>1, <1>2
      <3> QED BY <3>1, Modulo
    <2>2. /\ s1 = (IF x < 2^(w - 1) THEN 0 ELSE 1) /\ s3 = (IF r < 2^(w - 1) THEN 0 ELSE 1)
          /\ s2 = (IF second < 2^(w - 1) THEN 0 ELSE 1)
      BY <1>2, <1>8, <2>1, SignBit
    <2>3. g.N = s3 /\ g.V = (IF s1 = s2 /\ s3 # s1 THEN 1 ELSE 0)
      BY <1>4 DEF Flag
    <2> DEFINE n == g.N
               v == g.V
    <2> HIDE DEF r, second, s1, s2, s3, n, v
    <2>4. CASE w = 8
      BY <1>1, <1>5, <1>8, <2>2, <2>3, <2>4 DEF Signed, n, v
    <2>5. CASE w = 16
      BY <1>1, <1>5, <1>8, <2>2, <2>3, <2>5 DEF Signed, n, v
    <2> QED BY <2>4, <2>5
  <1> QED BY <1>6, <1>7, <1>8 DEF FlagsDecide

(* An instruction of ArithOps is executed by one of the four forms.        *)
LEMMA ArithIsExecuted ==
  ASSUME NEW i, Execute(i), i.op \in ArithOps
  PROVE  ArithB(i) \/ ArithW(i) \/ ArithBI(i) \/ ArithWI(i)
  <1>1. ~(Nop(i) \/ In(i) \/ Out(i) \/ Lea(i) \/ SetFlag(i))
    BY DEF Nop, In, Out, Lea, SetFlag, ArithOps, SetFlagOps
  <1>2. ~(IntN(i) \/ Jump(i) \/ Call(i) \/ Ret(i) \/ Iret(i) \/ JumpIf(i))
    BY DEF IntN, Jump, Call, Ret, Iret, JumpIf, ArithOps, Conditions
  <1>3. ~(LoadB(i) \/ LoadW(i) \/ StoreB(i) \/ StoreW(i) \/ PopInto(i) \/ PushFrom(i))
    BY DEF LoadB, LoadW, StoreB, StoreW, PopInto, PushFrom, ArithOps
  <1>4. ~(LogicB(i) \/ LogicW(i) \/ LogicBI(i) \/ LogicWI(i))
    BY DEF LogicB, LogicW, LogicBI, LogicWI, LogicStep, LogicOps, ArithOps
  <1>5. ~(ShiftB(i) \/ ShiftW(i) \/ UnaryB(i) \/ UnaryW(i))
    BY DEF ShiftB, ShiftW, UnaryB, UnaryW, ShiftOps, UnaryOps, ArithOps
  <1>6. ~(MulDivB(i) \/ MulDivW(i) \/ MulDivBI(i) \/ MulDivWI(i))
    BY DEF MulDivB, MulDivW, MulDivBI, MulDivWI, MulDivStep, MultiplyStep, DivideStep, ArithOps
  <1>7. ~(Move(i) \/ Swap(i) \/ MoveSP(i) \/ MoveImmediate(i) \/ Control(i) \/ BadInstruction(i))
    BY DEF Move, Swap, MoveSP, MoveImmediate, Control, BadInstruction, ArithOps
  <1> QED BY <1>1, <1>2, <1>3, <1>4, <1>5, <1>6, <1>7 DEF Execute

LEMMA CompareDecides ==
  ASSUME MachineOK, NEW i, WellFormed(i), Execute(i), i.op = "CMP", ope' = i
  PROVE  ComparisonsDecide'
  <1> DEFINE x == First(i)
             y == Second(i)
             g == FL'
  <1>1. i.op \in Binaries /\ i.op \in Operations /\ i.op \in ArithOps
    BY DEF Binaries, Operations, ArithOps
  <1>2. Bits(i) \in {8, 16} /\ x \in Numbers(Bits(i)) /\ y \in Numbers(Bits(i)) /\ FL \in Flags
    BY <1>1, WidthIsOfBytes, OperandsAreNumbers DEF MachineOK
  <1>3. PICK inverted \in BOOLEAN, bytes \in {2, 3, 4} :
          ArithStep(i, bytes, inverted) /\ (i.form = "W" => ~inverted)
    <2>1. CASE ArithB(i)
      BY <2>1 DEF ArithB
    <2>2. CASE ArithW(i)
      BY <2>2 DEF ArithW
    <2>3. CASE ArithBI(i)
      BY <2>3 DEF ArithBI
    <2>4. CASE ArithWI(i)
      BY <2>4 DEF ArithWI
    <2> QED BY <1>1, <2>1, <2>2, <2>3, <2>4, ArithIsExecuted
  <1>4. g = Arith("CMP", Bits(i), x, y, FL, inverted).f /\ W' = W
    BY <1>3 DEF ArithStep, Compute
  <1>5. First(ope)' = x /\ Second(ope)' = y
    BY <1>4 DEF First, Second, B
  <1>6. /\ g.Z \in {0, 1} /\ (g.Z = 1 <=> x = y)
        /\ g.C \in {0, 1} /\ (y # 0 => (g.C = 1 <=> x >= y))
        /\ ~inverted /\ y # 2^(Bits(i) - 1) => (g.N # g.V <=> Signed(Bits(i), x) < Signed(Bits(i), y))
    <2> HIDE DEF x, y, g
    <2>1. FlagsDecide(g, Bits(i), x, y, inverted)
      BY <1>2, <1>3, <1>4, CompareFlags
    <2> QED BY <2>1 DEF FlagsDecide
  <1>7. Signed(Bits(i), x) \in Int /\ Signed(Bits(i), y) \in Int /\ x \in Int /\ y \in Int
        /\ (x = y <=> Signed(Bits(i), x) = Signed(Bits(i), y))
    <2>1. x \in Int /\ 0 <= x /\ x < 2^Bits(i) /\ y \in Int /\ 0 <= y /\ y < 2^Bits(i)
      BY <1>2, NumbersAreIntegers
    <2> HIDE DEF x, y
    <2>2. CASE Bits(i) = 8
      BY <2>1, <2>2 DEF Signed
    <2>3. CASE Bits(i) = 16
      BY <2>1, <2>3 DEF Signed
    <2> QED BY <1>2, <2>2, <2>3
  <1> HIDE DEF x, y, g
  <1>8. Taken("JZ", g) <=> x = y
    BY <1>6 DEF Taken
  <1>9. y # 0 => /\ Taken("JC", g) <=> x >= y
                 /\ Taken("JA", g) <=> x > y
                 /\ Taken("JBE", g) <=> x <= y
    BY <1>6, <1>7 DEF Taken
  <1>10. i.form = "W" /\ y # 32768
           => /\ Taken("JL", g) <=> Signed(16, x) < Signed(16, y)
              /\ Taken("JGE", g) <=> Signed(16, x) >= Signed(16, y)
              /\ Taken("JG", g) <=> Signed(16, x) > Signed(16, y)
              /\ Taken("JLE", g) <=> Signed(16, x) <= Signed(16, y)
    <2> SUFFICES ASSUME i.form = "W", y # 32768
                 PROVE  /\ Taken("JL", g) <=> Signed(16, x) < Signed(16, y)
                        /\ Taken("JGE", g) <=> Signed(16, x) >= Signed(16, y)
                        /\ Taken("JG", g) <=> Signed(16, x) > Signed(16, y)
                        /\ Taken("JLE", g) <=> Signed(16, x) <= Signed(16, y)
      OBVIOUS
    <2>1. Bits(i) = 16 /\ ~inverted
      BY <1>3 DEF Bits
    <2>2. g.N # g.V <=> Signed(16, x) < Signed(16, y)
      BY <1>6, <2>1
    <2>3. x = y <=> Signed(16, x) = Signed(16, y)
      BY <1>7, <2>1
    <2>4. Signed(16, x) \in Int /\ Signed(16, y) \in Int
      BY <1>7, <2>1
    <2> QED BY <1>6, <2>2, <2>3, <2>4 DEF Taken
  <1> QED BY <1>5, <1>8, <1>9, <1>10 DEF ComparisonsDecide, UnsignedAgrees, SignedAgrees, g

(* While a RESET is under way the last instruction is the RESET; while the *)
(* machine starts there is none.                                           *)
LoadingInv == ~Loaded \/ status = "RESET" => ope = None \/ ope.op = "RESET"

LEMMA InitLoadingInv == Init => LoadingInv /\ ComparisonsDecide
  <1> SUFFICES ASSUME Init
               PROVE  LoadingInv /\ ComparisonsDecide
    OBVIOUS
  <1>1. ope = None /\ ope.op # "CMP"
    BY DEF Init, None
  <1> QED BY <1>1 DEF LoadingInv, ComparisonsDecide

LEMMA NextLoadingInv == TypeOK /\ LoadingInv /\ [Next]_vars => LoadingInv'
  <1> SUFFICES ASSUME TypeOK, LoadingInv, [Next]_vars
               PROVE  LoadingInv'
    OBVIOUS
  <1> map \in Int /\ Len(CodeMaps) \in Int
    BY CodeMapsAssumption DEF TypeOK
  <1>1. ASSUME NEW i, Execute(i) PROVE LoadingInv'
    <2>1. Fetch(i)
      BY <1>1, ExecuteFetches
    <2>2. CASE Control(i)
      BY <2>1, <2>2 DEF Control, Fetch, Loaded, loading, LoadingInv
    <2>3. CASE ~Control(i)
      <3>1. status' # "RESET"
        <4>1. CASE Nop(i) \/ In(i) \/ Out(i) \/ Lea(i) \/ SetFlag(i)
          BY <2>1, <4>1 DEF Fetch, Nop, In, Out, Lea, SetFlag
        <4>2. CASE IntN(i) \/ Jump(i) \/ Call(i) \/ Ret(i) \/ Iret(i) \/ JumpIf(i)
          BY <2>1, <4>2 DEF Fetch, IntN, Jump, Call, Ret, Iret, JumpIf
        <4>3. CASE LoadB(i) \/ LoadW(i) \/ StoreB(i) \/ StoreW(i) \/ PopInto(i) \/ PushFrom(i)
          BY <2>1, <4>3 DEF Fetch, LoadB, LoadW, StoreB, StoreW, PopInto, PushFrom
        <4>4. CASE LogicB(i) \/ LogicW(i) \/ LogicBI(i) \/ LogicWI(i) \/ ArithB(i) \/ ArithW(i) \/ ArithBI(i) \/ ArithWI(i)
          BY <2>1, <4>4 DEF Fetch, LogicB, LogicW, LogicBI, LogicWI, ArithB, ArithW, ArithBI, ArithWI, LogicStep, ArithStep, Compute
        <4>5. CASE ShiftB(i) \/ ShiftW(i) \/ UnaryB(i) \/ UnaryW(i)
          BY <2>1, <4>5 DEF Fetch, ShiftB, ShiftW, UnaryB, UnaryW, RotateLeftW, ShiftRight1W, SarW1, Compute
        <4>6. CASE MulDivB(i) \/ MulDivW(i) \/ MulDivBI(i) \/ MulDivWI(i)
          BY <2>1, <4>6 DEF Fetch, MulDivB, MulDivW, MulDivBI, MulDivWI, MulDivStep, MultiplyStep, DivideStep, Multiply
        <4>7. CASE Move(i) \/ Swap(i) \/ MoveSP(i) \/ MoveImmediate(i) \/ BadInstruction(i)
          BY <2>1, <4>7 DEF Fetch, Move, Swap, MoveSP, MoveImmediate, BadInstruction
        <4> QED BY <1>1, <2>3, <4>1, <4>2, <4>3, <4>4, <4>5, <4>6, <4>7 DEF Execute
      <3> QED BY <2>1, <3>1 DEF Fetch, Loaded, loading, LoadingInv
    <2> QED BY <2>2, <2>3
  <1>2. CASE ExecuteNext
    BY <1>1, <1>2 DEF ExecuteNext
  <1>3. ASSUME NEW n \in Interrupts \cup {DIVZERO}, TakeInterrupt(n) PROVE LoadingInv'
    BY <1>3 DEF TakeInterrupt, LoadingInv, Loaded, loading
  <1>4. CASE Hypervisor
    BY <1>4 DEF Hypervisor, LoadingInv, Loaded, loading
  <1>5. CASE Reset \/ LoadMap \/ LoadByte
    <2>1. ope' = ope /\ (~Loaded \/ status = "RESET")
      BY <1>5 DEF Reset, LoadMap, LoadByte, Loaded
    <2> QED BY <2>1 DEF LoadingInv
  <1>6. CASE CpuInit
    BY <1>6 DEF CpuInit, LoadingInv, Loaded
  <1>7. CASE Begin
    BY <1>7 DEF Begin, LoadingInv, Loaded, loading
  <1>8. CASE UNCHANGED vars
    BY <1>8 DEF vars, loading, LoadingInv, Loaded
  <1> QED BY <1>2, <1>3, <1>4, <1>5, <1>6, <1>7, <1>8 DEF Next

LEMMA NextComparisons ==
  TypeOK /\ LoadingInv /\ ComparisonsDecide /\ [Next]_vars => ComparisonsDecide'
  <1> SUFFICES ASSUME TypeOK, LoadingInv, ComparisonsDecide, [Next]_vars
               PROVE  ComparisonsDecide'
    OBVIOUS
  <1>0. ASSUME W' = W, FL' = FL, ope' = ope
        PROVE  ComparisonsDecide'
    BY <1>0 DEF ComparisonsDecide, SignedAgrees, UnsignedAgrees, First, Second, B
  <1>1. CASE ExecuteNext
    <2> DEFINE i == program[executed + 1]
    <2>1. Execute(i) /\ WellFormed(i)
      <3>1. executed + 1 \in 1 .. Len(program)
        BY <1>1 DEF ExecuteNext, TypeOK
      <3> QED BY <1>1, <3>1 DEF ExecuteNext, TypeOK
    <2> HIDE DEF i
    <2>2. ope' = i
      BY <2>1, ExecuteFetches DEF Fetch
    <2>3. CASE i.op = "CMP"
      BY <2>1, <2>2, <2>3, CompareDecides, TypeOKParts
    <2>4. CASE i.op # "CMP"
      BY <2>2, <2>4 DEF ComparisonsDecide
    <2> QED BY <2>3, <2>4
  <1>2. ASSUME NEW n \in Interrupts \cup {DIVZERO}, TakeInterrupt(n)
        PROVE  ComparisonsDecide'
    <2>1. ope'.op # "CMP"
      BY <1>2 DEF TakeInterrupt, IRQ, None
    <2> QED BY <2>1 DEF ComparisonsDecide
  <1>3. CASE Hypervisor \/ Reset \/ LoadMap \/ LoadByte
    BY <1>0, <1>3 DEF Hypervisor, Reset, LoadMap, LoadByte
  <1>4. CASE CpuInit \/ Begin
    <2>1. ope' = ope /\ (ope = None \/ ope.op = "RESET")
      <3>1. CASE CpuInit
        <4>1. ~Loaded
          BY <3>1, CodeMapsAssumption DEF CpuInit, Loaded
        <4> QED BY <3>1, <4>1 DEF CpuInit, LoadingInv
      <3>2. CASE Begin
        BY <3>2 DEF Begin
      <3> QED BY <1>4, <3>1, <3>2
    <2>2. None.op = "NOP"
      BY DEF None
    <2>3. ope'.op # "CMP"
      BY <2>1, <2>2
    <2> QED BY <2>3 DEF ComparisonsDecide
  <1>5. CASE UNCHANGED vars
    BY <1>0, <1>5 DEF vars
  <1> QED BY <1>1, <1>2, <1>3, <1>4, <1>5 DEF Next

(* While CMP is the last thing the processor did, the conditional jumps    *)
(* decide as their names say, for all operands, of bytes and of words; the *)
(* loader and the hypervisor leave the flags and the operands alone.       *)
THEOREM ComparisonsDecideAlways == Spec => []ComparisonsDecide
  <1> DEFINE Inv == TypeOK /\ LoadingInv /\ ComparisonsDecide
  <1>1. Init => Inv
    BY InitTypeOK, InitLoadingInv
  <1>2. Inv /\ [Next]_vars => Inv'
    BY NextTypeOK, NextLoadingInv, NextComparisons
  <1> QED BY <1>1, <1>2, PTL DEF Spec
-------------------------------------------------------------------------------
(* The loader.                                                             *)

(* What a program linked for the banks of cm finds at a.                   *)
Found(s, cm, a) == ReadByte(RamSelect(RomSelect(s, cm.rombank), cm.rambank), a)

LEMMA FoundInStorage ==
  ASSUME NEW s, StoreOK(s), NEW cm, cm.rambank \in Byte, cm.rombank \in Byte, NEW a, Storage(cm, a)
  PROVE  /\ Device(a) = "memory" => Found(s, cm, a) = Cell(s.m, a)
         /\ Device(a) = "rambank" => Found(s, cm, a) = Cell(s.ram, <<cm.rambank, a % 4096>>)
         /\ Device(a) = "rombank" => Found(s, cm, a) = Cell(s.rom, <<cm.rombank, a % 8192>>)
  <1> DEFINE t == RamSelect(RomSelect(s, cm.rombank), cm.rambank)
  <1>1. /\ t.m = s.m /\ t.ram = s.ram /\ t.rom = s.rom
        /\ t.ramnumber = cm.rambank /\ t.romnumber = cm.rombank
    BY DEF RamSelect, RomSelect, StoreOK
  <1> HIDE DEF t
  <1>2. Found(s, cm, a) = ReadByte(t, a)
    BY DEF Found, t
  <1>3. CASE Device(a) = "memory"
    BY <1>1, <1>2, <1>3 DEF ReadByte
  <1>4. CASE Device(a) = "rambank"
    <2>1. ~(cm.rambank >= RamBanks)
      BY <1>4 DEF Storage, RamBanks, Byte
    <2> QED BY <1>1, <1>2, <1>4, <2>1 DEF ReadByte, RamReadByte, RamCell
  <1>5. CASE Device(a) = "rombank"
    <2>1. ~(cm.rombank >= RomBanks)
      BY <1>5 DEF Storage, RomBanks, Byte
    <2> QED BY <1>1, <1>2, <1>5, <2>1 DEF ReadByte, RomReadByte, RomCell
  <1> QED BY <1>3, <1>4, <1>5

(* Two addresses of a bank are two cells of it.                            *)
LEMMA BankCells ==
  ASSUME NEW a \in Word, NEW b \in Word, a # b
  PROVE  /\ Device(a) = "rambank" /\ Device(b) = "rambank" => a % 4096 # b % 4096
         /\ Device(a) = "rombank" /\ Device(b) = "rombank" => a % 8192 # b % 8192
  <1>1. a \in Int /\ 0 <= a /\ a <= 65535 /\ b \in Int /\ 0 <= b /\ b <= 65535
    BY DEF Word
  <1>2. ASSUME 53248 <= a, a <= 57343, 53248 <= b, b <= 57343
        PROVE  a % 4096 # b % 4096
    BY <1>1, <1>2
  <1>3. ASSUME 57344 <= a, 57344 <= b
        PROVE  a % 8192 # b % 8192
    BY <1>1, <1>3
  <1> QED BY <1>2, <1>3, DeviceRanges

LEMMA SameBank ==
  ASSUME NEW own, NEW b, NEW cm, NEW a
  PROVE  InBank(own, b) = InBank(cm, a) <=> /\ a = b
                                            /\ Device(a) = "rambank" => own.rambank = cm.rambank
                                            /\ Device(a) = "rombank" => own.rombank = cm.rombank
  <1>1. InBank(cm, a) = <<IF Device(a) = "rambank" THEN "ram" ELSE IF Device(a) = "rombank" THEN "rom" ELSE "memory",
                          IF Device(a) = "rambank" THEN cm.rambank ELSE IF Device(a) = "rombank" THEN cm.rombank ELSE 0, a>>
    BY DEF InBank
  <1>2. InBank(own, b) = <<IF Device(b) = "rambank" THEN "ram" ELSE IF Device(b) = "rombank" THEN "rom" ELSE "memory",
                           IF Device(b) = "rambank" THEN own.rambank ELSE IF Device(b) = "rombank" THEN own.rombank ELSE 0, b>>
    BY DEF InBank
  <1> QED BY <1>1, <1>2

(* A byte of a map is written where its program finds it, and leaves what  *)
(* the programs of other places find.                                      *)
LEMMA WriteIsFound ==
  ASSUME NEW s, StoreOK(s), s.flash,
         NEW own, s.ramnumber = own.rambank, s.romnumber = own.rombank,
         NEW b \in Word \ {262, 263}, NEW v \in Byte,
         NEW cm, cm.rambank \in Byte, cm.rombank \in Byte, NEW a \in Word, Storage(cm, a)
  PROVE  Found(WriteByte(s, b, v), cm, a) = IF InBank(own, b) = InBank(cm, a) THEN v ELSE Found(s, cm, a)
  <1> DEFINE t == WriteByte(s, b, v)
  <1>1. StoreOK(t)
    BY WriteByteKeepsStore
  <1>2. Device(a) \in {"memory", "rambank", "rombank"}
    BY DEF Storage
  <1>3. InBank(own, b) = InBank(cm, a) <=> /\ a = b
                                           /\ Device(a) = "rambank" => own.rambank = cm.rambank
                                           /\ Device(a) = "rombank" => own.rombank = cm.rombank
    BY SameBank
  <1>8. /\ Device(a) = "memory" => Found(s, cm, a) = Cell(s.m, a)
        /\ Device(a) = "rambank" => Found(s, cm, a) = Cell(s.ram, <<cm.rambank, a % 4096>>)
        /\ Device(a) = "rombank" => Found(s, cm, a) = Cell(s.rom, <<cm.rombank, a % 8192>>)
    BY FoundInStorage
  <1>9. /\ Device(a) = "memory" => Found(t, cm, a) = Cell(t.m, a)
        /\ Device(a) = "rambank" => Found(t, cm, a) = Cell(t.ram, <<cm.rambank, a % 4096>>)
        /\ Device(a) = "rombank" => Found(t, cm, a) = Cell(t.rom, <<cm.rombank, a % 8192>>)
    <2> HIDE DEF t
    <2> QED BY <1>1, FoundInStorage
  <1>4. CASE Device(b) = "memory"
    <2>1. t.m = SetCell(s.m, b, v) /\ t.ram = s.ram /\ t.rom = s.rom
      BY <1>4 DEF WriteByte, StoreOK
    <2>2. Cell(t.m, a) = IF a = b THEN v ELSE Cell(s.m, a)
      BY <2>1, CellOfSet
    <2> QED BY <1>2, <1>3, <1>4, <1>8, <1>9, <2>1, <2>2
  <1>5. CASE Device(b) = "rambank"
    <2>1. CASE s.ramnumber >= RamBanks
      <3>1. t = s
        BY <1>5, <2>1 DEF WriteByte, RamWriteByte
      <3>2. Device(a) = "rambank" => own.rambank # cm.rambank
        BY <2>1 DEF Storage, RamBanks, Byte
      <3> QED BY <1>3, <1>5, <3>1, <3>2
    <2>2. CASE ~(s.ramnumber >= RamBanks)
      <3>1. t.m = s.m /\ t.ram = SetCell(s.ram, <<own.rambank, b % 4096>>, v) /\ t.rom = s.rom
        BY <1>5, <2>2 DEF WriteByte, RamWriteByte, RamCell, StoreOK
      <3>2. Cell(t.ram, <<cm.rambank, a % 4096>>)
              = IF <<cm.rambank, a % 4096>> = <<own.rambank, b % 4096>> THEN v ELSE Cell(s.ram, <<cm.rambank, a % 4096>>)
        BY <3>1, CellOfSet
      <3>3. Device(a) = "rambank" => (<<cm.rambank, a % 4096>> = <<own.rambank, b % 4096>> <=> InBank(own, b) = InBank(cm, a))
        BY <1>3, <1>5, BankCells
      <3> QED BY <1>2, <1>3, <1>5, <1>8, <1>9, <3>1, <3>2, <3>3
    <2> QED BY <2>1, <2>2
  <1>6. CASE Device(b) = "rombank"
    <2>1. CASE s.romnumber >= RomBanks
      <3>1. t = s
        BY <1>6, <2>1 DEF WriteByte, RomWriteByte
      <3>2. Device(a) = "rombank" => own.rombank # cm.rombank
        BY <2>1 DEF Storage, RomBanks, Byte
      <3> QED BY <1>3, <1>6, <3>1, <3>2
    <2>2. CASE ~(s.romnumber >= RomBanks)
      <3>1. t.m = s.m /\ t.ram = s.ram /\ t.rom = SetCell(s.rom, <<own.rombank, b % 8192>>, v)
        BY <1>6, <2>2 DEF WriteByte, RomWriteByte, RomCell, StoreOK
      <3>2. Cell(t.rom, <<cm.rombank, a % 8192>>)
              = IF <<cm.rombank, a % 8192>> = <<own.rombank, b % 8192>> THEN v ELSE Cell(s.rom, <<cm.rombank, a % 8192>>)
        BY <3>1, CellOfSet
      <3>3. Device(a) = "rombank" => (<<cm.rombank, a % 8192>> = <<own.rombank, b % 8192>> <=> InBank(own, b) = InBank(cm, a))
        BY <1>3, <1>6, BankCells
      <3> QED BY <1>2, <1>3, <1>6, <1>8, <1>9, <3>1, <3>2, <3>3
    <2> QED BY <2>1, <2>2
  <1>7. CASE Device(b) \notin {"memory", "rambank", "rombank"}
    <2>1. Device(b) \notin {"rambankselect", "rombankselect"}
      BY DeviceRanges
    <2>2. t = s
      BY <1>7, <2>1 DEF WriteByte
    <2> QED BY <1>2, <1>3, <1>7, <2>2
  <1> QED BY <1>4, <1>5, <1>6, <1>7

(* What was loaded so far is where its program finds it, and is kept until *)
(* the first instruction, of the start or of a RESET, changes something.   *)
Written(k, a) == k < map \/ (k = map /\ a \notin left)

Present ==
  \A k \in 1 .. Len(CodeMaps) : \A a \in DOMAIN CodeMaps[k].code :
    Storage(CodeMaps[k], a) /\ LastLoader(k, a) /\ Written(k, a)
      => Found(store, CodeMaps[k], a) = CodeMaps[k].code[a]

BanksSelected ==
  /\ store.flash
  /\ map > 0 => store.ramnumber = CodeMaps[map].rambank /\ store.romnumber = CodeMaps[map].rombank

PresentInv ==
  /\ ~Loaded => BanksSelected
  /\ ~Loaded \/ JustLoaded => Present
  /\ Loaded /\ ope.op = "RESET" => status \in {"RESET", "DEFAULT"}

LEMMA CodeMapTypes ==
  ASSUME NEW k \in 1 .. Len(CodeMaps)
  PROVE  /\ CodeMaps[k].rombank \in Byte /\ CodeMaps[k].rambank \in Byte
         /\ \A a \in DOMAIN CodeMaps[k].code : a \in Word \ {262, 263} /\ CodeMaps[k].code[a] \in Byte
  BY CodeMapsAssumption

LEMMA SelectingKeepsFound ==
  ASSUME NEW s, StoreOK(s), NEW other, NEW cm, NEW a
  PROVE  Found(SelectBanks(s, other), cm, a) = Found(s, cm, a) /\ Found(Closed(s), cm, a) = Found(s, cm, a)
  <1>1. ASSUME NEW t, DOMAIN t = DOMAIN s, t.m = s.m, t.ram = s.ram, t.rom = s.rom
        PROVE  Found(t, cm, a) = Found(s, cm, a)
    <2> DEFINE t1 == RamSelect(RomSelect(t, cm.rombank), cm.rambank)
               s1 == RamSelect(RomSelect(s, cm.rombank), cm.rambank)
    <2>1. /\ t1.m = s.m /\ t1.ram = s.ram /\ t1.rom = s.rom
          /\ t1.ramnumber = cm.rambank /\ t1.romnumber = cm.rombank
      BY <1>1 DEF RamSelect, RomSelect, StoreOK
    <2>2. /\ s1.m = s.m /\ s1.ram = s.ram /\ s1.rom = s.rom
          /\ s1.ramnumber = cm.rambank /\ s1.romnumber = cm.rombank
      BY DEF RamSelect, RomSelect, StoreOK
    <2> HIDE DEF t1, s1
    <2>3. ReadByte(t1, a) = ReadByte(s1, a)
      BY <2>1, <2>2 DEF ReadByte, RamReadByte, RomReadByte, RamCell, RomCell
    <2> QED BY <2>3 DEF Found, t1, s1
  <1>2. LET t == SelectBanks(s, other)
        IN  DOMAIN t = DOMAIN s /\ t.m = s.m /\ t.ram = s.ram /\ t.rom = s.rom
    BY DEF SelectBanks, RamSelect, RomSelect, StoreOK
  <1>3. LET t == Closed(s)
        IN  DOMAIN t = DOMAIN s /\ t.m = s.m /\ t.ram = s.ram /\ t.rom = s.rom
    BY DEF Closed, RamSelect, RomSelect, StoreOK
  <1> QED BY <1>1, <1>2, <1>3

LEMMA InitPresentInv == Init => PresentInv
  <1> SUFFICES ASSUME Init PROVE PresentInv
    OBVIOUS
  <1>1. map = 0 /\ ope.op = "NOP" /\ store.flash
    BY DEF Init, None, Opened, Started
  <1>2. ~Loaded /\ Len(CodeMaps) \in Nat
    BY <1>1, CodeMapsAssumption DEF Loaded
  <1>3. \A k \in 1 .. Len(CodeMaps) : ~(k < map) /\ k # map
    BY <1>1, <1>2
  <1> QED BY <1>1, <1>2, <1>3 DEF PresentInv, Present, BanksSelected, Written

LEMMA ResetIsControl ==
  ASSUME NEW i, Execute(i), i.op = "RESET"
  PROVE  status' = "RESET"
  <1>1. ~(Nop(i) \/ In(i) \/ Out(i) \/ Lea(i) \/ SetFlag(i))
    BY DEF Nop, In, Out, Lea, SetFlag, SetFlagOps
  <1>2. ~(IntN(i) \/ Jump(i) \/ Call(i) \/ Ret(i) \/ Iret(i) \/ JumpIf(i))
    BY DEF IntN, Jump, Call, Ret, Iret, JumpIf, Conditions
  <1>3. ~(LoadB(i) \/ LoadW(i) \/ StoreB(i) \/ StoreW(i) \/ PopInto(i) \/ PushFrom(i))
    BY DEF LoadB, LoadW, StoreB, StoreW, PopInto, PushFrom
  <1>4. ~(LogicB(i) \/ LogicW(i) \/ LogicBI(i) \/ LogicWI(i))
    BY DEF LogicB, LogicW, LogicBI, LogicWI, LogicStep, LogicOps
  <1>5. ~(ArithB(i) \/ ArithW(i) \/ ArithBI(i) \/ ArithWI(i))
    BY DEF ArithB, ArithW, ArithBI, ArithWI, ArithStep, ArithOps
  <1>6. ~(ShiftB(i) \/ ShiftW(i) \/ UnaryB(i) \/ UnaryW(i))
    BY DEF ShiftB, ShiftW, UnaryB, UnaryW, ShiftOps, UnaryOps
  <1>7. ~(MulDivB(i) \/ MulDivW(i) \/ MulDivBI(i) \/ MulDivWI(i))
    BY DEF MulDivB, MulDivW, MulDivBI, MulDivWI, MulDivStep, MultiplyStep, DivideStep
  <1>8. ~(Move(i) \/ Swap(i) \/ MoveSP(i) \/ MoveImmediate(i) \/ BadInstruction(i))
    BY DEF Move, Swap, MoveSP, MoveImmediate, BadInstruction
  <1> QED BY <1>1, <1>2, <1>3, <1>4, <1>5, <1>6, <1>7, <1>8 DEF Execute, Control

LEMMA LoadMapKeepsPresent ==
  ASSUME TypeOK, PresentInv, LoadMap
  PROVE  BanksSelected' /\ Present'
  <1> map \in Nat /\ Len(CodeMaps) \in Nat /\ StoreOK(store)
    BY CodeMapsAssumption DEF TypeOK
  <1> DEFINE cm == CodeMaps[map + 1]
  <1>1. ~Loaded /\ map' = map + 1 /\ left = {} /\ left' = DOMAIN cm.code /\ store' = SelectBanks(store, cm)
    BY DEF LoadMap, Loaded
  <1>2. BanksSelected /\ Present
    BY <1>1 DEF PresentInv
  <1>3. store'.flash /\ store'.ramnumber = cm.rambank /\ store'.romnumber = cm.rombank
    BY <1>1, <1>2 DEF SelectBanks, RamSelect, RomSelect, StoreOK, BanksSelected
  <1>4. ASSUME NEW k \in 1 .. Len(CodeMaps), NEW a \in DOMAIN CodeMaps[k].code,
               Storage(CodeMaps[k], a), LastLoader(k, a), Written(k, a)'
        PROVE  Found(store', CodeMaps[k], a) = CodeMaps[k].code[a]
    <2>1. k < map \/ k = map
      BY <1>1, <1>4 DEF Written
    <2>2. Written(k, a)
      BY <1>1, <2>1 DEF Written
    <2>3. Found(store, CodeMaps[k], a) = CodeMaps[k].code[a]
      BY <1>2, <1>4, <2>2 DEF Present
    <2> QED BY <1>1, <2>3, SelectingKeepsFound
  <1>5. Present'
    BY <1>4 DEF Present, Storage
  <1> QED BY <1>1, <1>3, <1>5 DEF BanksSelected

LEMMA LoadByteKeepsPresent ==
  ASSUME TypeOK, PresentInv, LoadByte
  PROVE  BanksSelected' /\ Present'
  <1> map \in Nat /\ Len(CodeMaps) \in Nat /\ StoreOK(store)
    BY CodeMapsAssumption DEF TypeOK
  <1>1. PICK b \in left : store' = WriteByte(store, b, CodeMaps[map].code[b]) /\ left' = left \ {b}
    BY DEF LoadByte
  <1>2. ~Loaded /\ map' = map /\ BanksSelected /\ Present
    BY DEF LoadByte, PresentInv
  <1> DEFINE own == CodeMaps[map]
             v == own.code[b]
  <1>3. map \in 1 .. Len(CodeMaps) /\ b \in DOMAIN own.code /\ map > 0
    BY DEF TypeOK
  <1>4. b \in Word \ {262, 263} /\ v \in Byte
    BY <1>3, CodeMapTypes
  <1>5. store.flash /\ store.ramnumber = own.rambank /\ store.romnumber = own.rombank
    BY <1>2, <1>3 DEF BanksSelected
  <1>6. store'.flash /\ store'.ramnumber = store.ramnumber /\ store'.romnumber = store.romnumber
    <2>1. Device(b) # "rambankselect" /\ Device(b) # "rombankselect"
      BY <1>4, DeviceRanges
    <2> QED BY <1>1, <1>5, <2>1 DEF WriteByte, RamWriteByte, RomWriteByte, StoreOK
  <1>7. ASSUME NEW k \in 1 .. Len(CodeMaps), NEW a \in DOMAIN CodeMaps[k].code,
               Storage(CodeMaps[k], a), LastLoader(k, a), Written(k, a)'
        PROVE  Found(store', CodeMaps[k], a) = CodeMaps[k].code[a]
    <2> DEFINE cm == CodeMaps[k]
    <2>1. cm.rambank \in Byte /\ cm.rombank \in Byte /\ a \in Word
      BY CodeMapTypes
    <2>2. Found(store', cm, a) = IF InBank(own, b) = InBank(cm, a) THEN v ELSE Found(store, cm, a)
      <3> HIDE DEF cm, own, v
      <3> QED BY <1>1, <1>4, <1>5, <1>7, <2>1, WriteIsFound DEF cm, own, v
    <2>3. CASE k = map /\ a = b
      BY <2>2, <2>3
    <2>4. CASE ~(k = map /\ a = b)
      <3>1. Written(k, a)
        BY <1>1, <1>2, <1>7, <2>4 DEF Written
      <3>2. Found(store, cm, a) = cm.code[a]
        BY <1>2, <1>7, <3>1 DEF Present
      <3>3. InBank(own, b) # InBank(cm, a)
        <4>1. CASE k < map
          <5>1. map \in k + 1 .. Len(CodeMaps)
            BY <1>3, <4>1
          <5> QED BY <1>3, <1>7, <5>1 DEF LastLoader
        <4>2. CASE k = map
          BY <2>4, <4>2, SameBank
        <4> QED BY <3>1, <4>1, <4>2 DEF Written
      <3> QED BY <2>2, <3>2, <3>3
    <2> QED BY <2>3, <2>4
  <1>8. Present'
    BY <1>7 DEF Present, Storage
  <1> QED BY <1>2, <1>5, <1>6, <1>8 DEF BanksSelected

LEMMA NextPresentInv == TypeOK /\ PresentInv /\ [Next]_vars => PresentInv'
  <1> SUFFICES ASSUME TypeOK, PresentInv, [Next]_vars
               PROVE  PresentInv'
    OBVIOUS
  <1> map \in Nat /\ Len(CodeMaps) \in Nat /\ StoreOK(store) /\ executed \in Nat
    BY CodeMapsAssumption DEF TypeOK
  <1>0. ASSUME Loaded, map' = map, left' = left, store' = store, executed' = executed, ope' = ope, status' = status
        PROVE  PresentInv'
    BY <1>0 DEF PresentInv, Loaded, JustLoaded, Present, BanksSelected, Written
  <1>1. CASE ExecuteNext
    <2> DEFINE i == program[executed + 1]
    <2> HIDE DEF i
    <2>1. Execute(i)
      BY <1>1 DEF ExecuteNext, i
    <2>2. ope' = i /\ Loaded /\ map' = map /\ executed' = executed + 1
      BY <2>1, ExecuteFetches DEF Fetch, loading
    <2>3. ope'.op = "RESET" => status' = "RESET"
      BY <2>1, <2>2, ResetIsControl
    <2>4. executed' # 0
      BY <2>2
    <2>5. Loaded' /\ ~JustLoaded'
      BY <2>2, <2>3, <2>4 DEF JustLoaded, Loaded
    <2> QED BY <2>3, <2>5 DEF PresentInv
  <1>2. ASSUME NEW n \in Interrupts \cup {DIVZERO}, TakeInterrupt(n)
        PROVE  PresentInv'
    <2>1. ope' = IRQ /\ Loaded'
      BY <1>2 DEF TakeInterrupt, loading, Loaded
    <2>2. IRQ.op = "IRQ" /\ None.op = "NOP"
      BY DEF IRQ, None
    <2>3. ope'.op = "IRQ" /\ ope' # None
      BY <2>1, <2>2
    <2>4. ~JustLoaded'
      BY <2>3 DEF JustLoaded
    <2> QED BY <2>1, <2>3, <2>4 DEF PresentInv
  <1>3. CASE Hypervisor
    <2>1. map' = map /\ left' = left /\ store' = store /\ executed' = executed /\ ope' = ope
      BY <1>3 DEF Hypervisor, loading
    <2>2. status' = "DEFAULT" /\ status \notin {"RESET", "DEFAULT"}
      BY <1>3 DEF Hypervisor
    <2>3. Loaded' = Loaded /\ Present' = Present /\ BanksSelected' = BanksSelected
      BY <2>1 DEF Loaded, Present, BanksSelected, Written
    <2>4. Loaded => ope.op # "RESET"
      BY <2>2 DEF PresentInv
    <2>5. JustLoaded' => JustLoaded
      BY <2>1, <2>3, <2>4 DEF JustLoaded
    <2> QED BY <2>1, <2>2, <2>3, <2>4, <2>5 DEF PresentInv
  <1>4. CASE Reset
    <2>1. map' = 0 /\ store'.flash
      BY <1>4 DEF Reset, Opened, Started
    <2>2. ~Loaded' /\ ~(map' > 0)
      BY <2>1 DEF Loaded
    <2>3. \A k \in 1 .. Len(CodeMaps) : ~(k < map') /\ k # map'
      BY <2>1
    <2>4. Present'
      BY <2>3 DEF Present, Written
    <2> QED BY <2>1, <2>2, <2>4 DEF PresentInv, BanksSelected
  <1>5. CASE LoadMap
    <2>1. ~Loaded'
      BY <1>5 DEF LoadMap, Loaded
    <2> QED BY <1>5, <2>1, LoadMapKeepsPresent DEF PresentInv
  <1>6. CASE LoadByte
    <2>1. ~Loaded'
      BY <1>6 DEF LoadByte, Loaded
    <2> QED BY <1>6, <2>1, LoadByteKeepsPresent DEF PresentInv
  <1>7. CASE CpuInit
    <2>1. ~Loaded /\ Loaded' /\ status' = "DEFAULT" /\ store' = Closed(store) /\ left = {} /\ left' = {} /\ map' = map + 1
      BY <1>7 DEF CpuInit, Loaded
    <2>2. ASSUME NEW k \in 1 .. Len(CodeMaps), NEW a \in DOMAIN CodeMaps[k].code,
                 Storage(CodeMaps[k], a), LastLoader(k, a)
          PROVE  Found(store', CodeMaps[k], a) = CodeMaps[k].code[a]
      <3>1. Written(k, a)
        BY <1>7 DEF CpuInit, Written
      <3>2. Found(store, CodeMaps[k], a) = CodeMaps[k].code[a]
        BY <2>1, <2>2, <3>1 DEF PresentInv, Present
      <3> QED BY <2>1, <3>2, SelectingKeepsFound
    <2>3. Present'
      BY <2>2 DEF Present, Storage
    <2> QED BY <2>1, <2>3 DEF PresentInv
  <1>8. CASE Begin
    BY <1>0, <1>8 DEF Begin, loading
  <1>9. CASE UNCHANGED vars
    <2>1. map' = map /\ left' = left /\ store' = store /\ executed' = executed /\ ope' = ope /\ status' = status
      BY <1>9 DEF vars, loading
    <2> QED BY <2>1 DEF PresentInv, Loaded, JustLoaded, Present, BanksSelected, Written
  <1> QED BY <1>1, <1>2, <1>3, <1>4, <1>5, <1>6, <1>7, <1>8, <1>9 DEF Next

LEMMA PresentIsLoaded == TypeOK /\ PresentInv => ProgramIsLoaded
  <1> SUFFICES ASSUME TypeOK, PresentInv, JustLoaded,
                      NEW k \in 1 .. Len(CodeMaps), NEW a \in DOMAIN CodeMaps[k].code,
                      Storage(CodeMaps[k], a), LastLoader(k, a)
               PROVE  Found(store, CodeMaps[k], a) = CodeMaps[k].code[a]
    BY DEF ProgramIsLoaded, Found
  <1>1. Written(k, a)
    BY CodeMapsAssumption DEF TypeOK, JustLoaded, Loaded, Written
  <1> QED BY <1>1 DEF PresentInv, Present

(* When the first instruction is about to run, and after each RESET, every *)
(* byte of every map, whatever the chain, is found where its program looks *)
(* for it, unless a later map of the chain was loaded over it.             *)
THEOREM ProgramIsAlwaysLoaded == Spec => []ProgramIsLoaded
  <1> DEFINE Inv == TypeOK /\ PresentInv
  <1>1. Init => Inv
    BY InitTypeOK, InitPresentInv
  <1>2. Inv /\ [Next]_vars => Inv'
    BY NextTypeOK, NextPresentInv
  <1>3. Inv => ProgramIsLoaded
    BY PresentIsLoaded
  <1> QED BY <1>1, <1>2, <1>3, PTL DEF Spec
-------------------------------------------------------------------------------
(* Words of the store.                                                     *)
LEMMA Successor ==
  ASSUME NEW a \in Word
  PROVE  Next16(a) = (IF a = 65535 THEN 0 ELSE a + 1) /\ Next16(a) \in Word
  BY DEF Word, Next16

(* A word where no device, bank or half of a bank ends is its two bytes.   *)
LEMMA WordSplits ==
  ASSUME NEW s, StoreOK(s), NEW a \in Word, ~Seam(a)
  PROVE  ReadByte(s, a) = Low(ReadWord(s, a)) /\ ReadByte(s, Next16(a)) = High(ReadWord(s, a))
  <1> DEFINE l == ReadByte(s, a)
             h == ReadByte(s, Next16(a))
  <1>1. a \in Int /\ 0 <= a /\ a <= 65535
    BY WordIsInteger
  <1>2. l \in Byte /\ h \in Byte
    BY ReadByteIsByte
  <1>3. Device(Next16(a)) = Device(a)
    BY DEF Seam
  <1>4. ReadWord(s, a) = l + 256 * h
    <2>1. CASE Device(a) = "memory"
      <3>1. a # 65535
        BY <1>1, <2>1, DeviceRanges
      <3>2. Next16(a) = a + 1
        BY <3>1, Successor
      <3> QED BY <1>3, <2>1, <3>2 DEF ReadWord, MemoryReadWord, ReadByte
    <2>2. CASE Device(a) = "rambank"
      <3>1. 53248 <= a /\ a <= 57343 /\ a # 65535
        BY <1>1, <2>2, DeviceRanges
      <3>2. Next16(a) = a + 1 /\ Next16(a) <= 57343
        BY <1>3, <2>2, <3>1, Successor, DeviceRanges
      <3>3. a % 4096 # 4095
        BY <1>1, <3>1, <3>2
      <3>4. l = RamReadByte(s, a) /\ h = RamReadByte(s, a + 1)
        BY <1>3, <2>2, <3>2 DEF ReadByte
      <3>5. CASE s.ramnumber >= RamBanks
        BY <2>2, <3>4, <3>5 DEF ReadWord, RamReadWord, RamReadByte
      <3>6. CASE ~(s.ramnumber >= RamBanks)
        BY <2>2, <3>3, <3>4, <3>6 DEF ReadWord, RamReadWord
      <3> QED BY <3>5, <3>6
    <2>3. CASE Device(a) = "rombank"
      <3>1. 57344 <= a /\ a % 8192 <= 4095
        BY <1>1, <2>3, DeviceRanges DEF Seam
      <3>2. a # 65535
        BY <3>1
      <3>3. Next16(a) = a + 1
        BY <3>2, Successor
      <3>4. a % 8192 # 8191 /\ a % 4096 = a % 8192 /\ (a + 1) % 8192 = (a % 8192) + 1
        BY <1>1, <3>1
      <3>5. l = RomReadByte(s, a) /\ h = RomReadByte(s, a + 1)
        BY <1>3, <2>3, <3>3 DEF ReadByte
      <3>6. CASE s.romnumber >= RomBanks
        BY <2>3, <3>5, <3>6 DEF ReadWord, RomReadWord, RomReadByte
      <3>7. CASE ~(s.romnumber >= RomBanks)
        <4>1. ReadWord(s, a) = Cell(s.rom, <<s.romnumber, a % 8192>>) + 256 * Cell(s.rom, <<s.romnumber, (a % 8192) + 1>>)
          BY <2>3, <3>4, <3>7 DEF ReadWord, RomReadWord
        <4> QED BY <3>4, <3>5, <3>7, <4>1 DEF RomReadByte, RomCell
      <3> QED BY <3>6, <3>7
    <2>4. CASE Device(a) \notin {"memory", "rambank", "rombank"}
      BY <2>4 DEF ReadWord
    <2> QED BY <2>1, <2>2, <2>3, <2>4
  <1> HIDE DEF l, h
  <1>5. Low(l + 256 * h) = l /\ High(l + 256 * h) = h
    BY <1>2, WordOfBytes
  <1> QED BY <1>4, <1>5 DEF l, h

(* Where a word can be written as one: in the memory, or in a bank of RAM  *)
(* but for its last address.                                               *)
WordPlace(s, a) ==
  \/ Device(a) = "memory"
  \/ Device(a) = "rambank" /\ s.ramnumber < RamBanks /\ a # 57343

LEMMA MemoryWriteEffect ==
  ASSUME NEW s, StoreOK(s), NEW a, NEW w
  PROVE  LET t == MemoryWriteWord(s, a, w)
         IN  /\ \A c : Cell(t.m, c) = IF c = a + 1 THEN High(w) ELSE IF c = a THEN Low(w) ELSE Cell(s.m, c)
             /\ t.ram = s.ram /\ t.rom = s.rom
             /\ t.ramnumber = s.ramnumber /\ t.romnumber = s.romnumber /\ t.flash = s.flash
  <1> DEFINE t == MemoryWriteWord(s, a, w)
  <1>1. t.m = SetCell(SetCell(s.m, a, Low(w)), a + 1, High(w))
    BY DEF MemoryWriteWord, StoreOK
  <1>2. /\ t.ram = s.ram /\ t.rom = s.rom
        /\ t.ramnumber = s.ramnumber /\ t.romnumber = s.romnumber /\ t.flash = s.flash
    BY DEF MemoryWriteWord, StoreOK
  <1> HIDE DEF t
  <1>3. ASSUME NEW c
        PROVE  Cell(t.m, c) = IF c = a + 1 THEN High(w) ELSE IF c = a THEN Low(w) ELSE Cell(s.m, c)
    BY <1>1, CellOfSet
  <1> QED BY <1>2, <1>3 DEF t

LEMMA RamWriteEffect ==
  ASSUME NEW s, StoreOK(s), NEW a \in Word, NEW w \in Word,
         Device(a) = "rambank", s.ramnumber < RamBanks, a # 57343
  PROVE  LET t == WriteWord(s, a, w)
         IN  /\ \A c \in Word : Device(c) = "rambank" =>
                  Cell(t.ram, <<s.ramnumber, c % 4096>>)
                    = IF c = a + 1 THEN High(w) ELSE IF c = a THEN Low(w) ELSE Cell(s.ram, <<s.ramnumber, c % 4096>>)
             /\ t.m = s.m /\ t.rom = s.rom
             /\ t.ramnumber = s.ramnumber /\ t.romnumber = s.romnumber /\ t.flash = s.flash
  <1> DEFINE n == s.ramnumber
             s1 == WriteByte(s, a, Low(w))
             t == WriteWord(s, a, w)
  <1>1. 53248 <= a /\ a <= 57342 /\ a \in Int /\ Next16(a) = a + 1 /\ a + 1 \in Word
    BY WordIsInteger, DeviceRanges, Successor
  <1>2. Device(a + 1) = "rambank"
    BY <1>1, DeviceRanges
  <1>3. ~(n >= RamBanks)
    BY DEF StoreOK, Byte, RamBanks
  <1>4. t = WriteByte(s1, a + 1, High(w))
    BY <1>1, <1>3 DEF WriteWord, RamWriteWord, WriteTwoBytes
  <1>5. /\ s1.ram = SetCell(s.ram, <<n, a % 4096>>, Low(w)) /\ s1.m = s.m /\ s1.rom = s.rom
        /\ s1.ramnumber = n /\ s1.romnumber = s.romnumber /\ s1.flash = s.flash
    BY <1>3 DEF WriteByte, RamWriteByte, RamCell, StoreOK
  <1>6. StoreOK(s1)
    BY BytesOfWord, WriteByteKeepsStore
  <1> HIDE DEF s1
  <1>7. /\ t.ram = SetCell(s1.ram, <<n, (a + 1) % 4096>>, High(w)) /\ t.m = s1.m /\ t.rom = s1.rom
        /\ t.ramnumber = n /\ t.romnumber = s1.romnumber /\ t.flash = s1.flash
    BY <1>2, <1>3, <1>4, <1>5, <1>6 DEF WriteByte, RamWriteByte, RamCell, StoreOK
  <1> HIDE DEF t, n
  <1>8. ASSUME NEW c \in Word, Device(c) = "rambank"
        PROVE  Cell(t.ram, <<n, c % 4096>>)
                 = IF c = a + 1 THEN High(w) ELSE IF c = a THEN Low(w) ELSE Cell(s.ram, <<n, c % 4096>>)
    <2>1. (c # a => c % 4096 # a % 4096) /\ (c # a + 1 => c % 4096 # (a + 1) % 4096)
      BY <1>1, <1>2, <1>8, BankCells
    <2>2. Cell(t.ram, <<n, c % 4096>>) = IF <<n, c % 4096>> = <<n, (a + 1) % 4096>> THEN High(w) ELSE Cell(s1.ram, <<n, c % 4096>>)
      BY <1>7, CellOfSet
    <2>3. Cell(s1.ram, <<n, c % 4096>>) = IF <<n, c % 4096>> = <<n, a % 4096>> THEN Low(w) ELSE Cell(s.ram, <<n, c % 4096>>)
      BY <1>5, CellOfSet
    <2> QED BY <2>1, <2>2, <2>3
  <1> QED BY <1>5, <1>7, <1>8 DEF t, n

(* The word that was written is read back.                                 *)
LEMMA ReadBack ==
  ASSUME NEW s, StoreOK(s), NEW a \in Word, NEW w \in Word, WordPlace(s, a)
  PROVE  ReadWord(WriteWord(s, a, w), a) = w
  <1> DEFINE t == WriteWord(s, a, w)
  <1>0. Low(w) + 256 * High(w) = w /\ a \in Int
    BY BytesOfWord, WordIsInteger
  <1>1. CASE Device(a) = "memory"
    <2>1. Cell(t.m, a) = Low(w) /\ Cell(t.m, a + 1) = High(w)
      <3>1. a # a + 1 /\ t = MemoryWriteWord(s, a, w)
        BY <1>0, <1>1 DEF WriteWord
      <3> QED BY <3>1, MemoryWriteEffect
    <2> QED BY <1>0, <1>1, <2>1 DEF ReadWord, MemoryReadWord
  <1>2. CASE Device(a) = "rambank" /\ s.ramnumber < RamBanks /\ a # 57343
    <2>1. 53248 <= a /\ a <= 57342 /\ a + 1 \in Word
      <3>1. 53248 <= a /\ a <= 57342
        BY <1>0, <1>2, DeviceRanges
      <3>2. Next16(a) = a + 1
        BY <3>1, Successor
      <3> QED BY <3>1, <3>2, Successor
    <2>2. Device(a + 1) = "rambank" /\ a # a + 1
      BY <1>0, <2>1, DeviceRanges
    <2>3. /\ t.ramnumber = s.ramnumber
          /\ Cell(t.ram, <<s.ramnumber, a % 4096>>) = Low(w)
          /\ Cell(t.ram, <<s.ramnumber, (a + 1) % 4096>>) = High(w)
      BY <1>2, <2>1, <2>2, RamWriteEffect
    <2>4. ~(t.ramnumber >= RamBanks) /\ a % 4096 # 4095
      BY <1>0, <1>2, <2>1, <2>3 DEF StoreOK, Byte, RamBanks
    <2> HIDE DEF t
    <2>5. RamReadByte(t, a) = Low(w) /\ RamReadByte(t, a + 1) = High(w)
      BY <2>3, <2>4 DEF RamReadByte, RamCell
    <2>6. ReadWord(t, a) = Low(w) + 256 * High(w)
      BY <1>2, <2>4, <2>5 DEF ReadWord, RamReadWord
    <2> QED BY <1>0, <2>6 DEF t
  <1> QED BY <1>1, <1>2 DEF WordPlace

(* A word apart from the one written stays, wherever it is.                *)
Apart(a, b) == b # a /\ b # Next16(a) /\ Next16(b) # a

LEMMA MemoryWriteLeaves ==
  ASSUME NEW s, StoreOK(s), NEW a \in Word, NEW b \in Word, NEW w, a # 65535, Apart(a, b)
  PROVE  ReadWord(MemoryWriteWord(s, a, w), b) = ReadWord(s, b)
  <1> DEFINE t == MemoryWriteWord(s, a, w)
  <1>1. /\ \A c : Cell(t.m, c) = IF c = a + 1 THEN High(w) ELSE IF c = a THEN Low(w) ELSE Cell(s.m, c)
        /\ t.ram = s.ram /\ t.rom = s.rom
        /\ t.ramnumber = s.ramnumber /\ t.romnumber = s.romnumber
    BY MemoryWriteEffect
  <1> HIDE DEF t
  <1>2. /\ a \in Int /\ b \in Int /\ Next16(a) = a + 1 /\ Next16(b) = (IF b = 65535 THEN 0 ELSE b + 1)
        /\ b # a /\ b # a + 1 /\ Next16(b) # a /\ Next16(b) # a + 1 /\ 0 <= a
    BY WordIsInteger, Successor DEF Apart
  <1>3. ASSUME NEW c, c # a, c # a + 1
        PROVE  ReadByte(t, c) = ReadByte(s, c) /\ RamReadByte(t, c) = RamReadByte(s, c) /\ RomReadByte(t, c) = RomReadByte(s, c)
    BY <1>1, <1>3 DEF ReadByte, RamReadByte, RomReadByte, RamCell, RomCell
  <1>4. ReadByte(t, b) = ReadByte(s, b) /\ ReadByte(t, Next16(b)) = ReadByte(s, Next16(b))
    BY <1>2, <1>3
  <1>5. \A c : RamReadByte(t, c) = RamReadByte(s, c) /\ RomReadByte(t, c) = RomReadByte(s, c)
    BY <1>1 DEF RamReadByte, RomReadByte, RamCell, RomCell
  <1>6. CASE Device(b) = "memory"
    <2>1. b # 65535
      BY <1>6, DeviceRanges
    <2>2. Cell(t.m, b) = Cell(s.m, b) /\ Cell(t.m, b + 1) = Cell(s.m, b + 1)
      BY <1>1, <1>2, <2>1
    <2> QED BY <1>6, <2>2 DEF ReadWord, MemoryReadWord, t
  <1>7. CASE Device(b) = "rambank"
    <2>1. RamReadWord(t, b) = RamReadWord(s, b)
      BY <1>1, <1>4, <1>5 DEF RamReadWord
    <2> QED BY <1>7, <2>1 DEF ReadWord, t
  <1>8. CASE Device(b) = "rombank"
    <2>1. RomReadWord(t, b) = RomReadWord(s, b)
      BY <1>1, <1>4, <1>5 DEF RomReadWord
    <2> QED BY <1>8, <2>1 DEF ReadWord, t
  <1>9. CASE Device(b) \notin {"memory", "rambank", "rombank"}
    BY <1>4, <1>9 DEF ReadWord, t
  <1> QED BY <1>6, <1>7, <1>8, <1>9

LEMMA RamWriteLeaves ==
  ASSUME NEW s, StoreOK(s), NEW a \in Word, NEW b \in Word, NEW w \in Word,
         Device(a) = "rambank", s.ramnumber < RamBanks, a # 57343, Apart(a, b)
  PROVE  ReadWord(WriteWord(s, a, w), b) = ReadWord(s, b)
  <1> DEFINE t == WriteWord(s, a, w)
  <1>1. /\ \A c \in Word : Device(c) = "rambank" =>
              Cell(t.ram, <<s.ramnumber, c % 4096>>)
                = IF c = a + 1 THEN High(w) ELSE IF c = a THEN Low(w) ELSE Cell(s.ram, <<s.ramnumber, c % 4096>>)
        /\ t.m = s.m /\ t.rom = s.rom
        /\ t.ramnumber = s.ramnumber /\ t.romnumber = s.romnumber
    BY RamWriteEffect
  <1> HIDE DEF t
  <1>2. /\ a \in Int /\ b \in Int /\ Next16(a) = a + 1 /\ Next16(b) = (IF b = 65535 THEN 0 ELSE b + 1)
        /\ b # a /\ b # a + 1 /\ Next16(b) # a /\ Next16(b) # a + 1 /\ Next16(b) \in Word /\ 53248 <= a
    BY WordIsInteger, Successor, DeviceRanges DEF Apart
  <1>3. ASSUME NEW c \in Word, c # a, c # a + 1
        PROVE  ReadByte(t, c) = ReadByte(s, c) /\ RomReadByte(t, c) = RomReadByte(s, c)
    BY <1>1, <1>3 DEF ReadByte, RamReadByte, RomReadByte, RamCell, RomCell
  <1>4. ReadByte(t, b) = ReadByte(s, b) /\ ReadByte(t, Next16(b)) = ReadByte(s, Next16(b))
    BY <1>2, <1>3
  <1>6. CASE Device(b) = "memory"
    BY <1>1, <1>6 DEF ReadWord, MemoryReadWord, t
  <1>7. CASE Device(b) = "rambank"
    <2>1. 53248 <= b /\ b <= 57343 /\ Next16(b) = b + 1
      BY <1>2, <1>7, DeviceRanges
    <2>2. RamReadByte(t, b) = RamReadByte(s, b)
      BY <1>4, <1>7 DEF ReadByte
    <2>3. b % 4096 # 4095 => RamReadByte(t, b + 1) = RamReadByte(s, b + 1)
      <3> SUFFICES ASSUME b % 4096 # 4095 PROVE RamReadByte(t, b + 1) = RamReadByte(s, b + 1)
        OBVIOUS
      <3>1. Device(b + 1) = "rambank"
        <4>1. b # 57343
          OBVIOUS
        <4> QED BY <1>2, <2>1, <4>1, DeviceRanges
      <3> QED BY <1>4, <2>1, <3>1 DEF ReadByte
    <2>4. RamReadWord(t, b) = RamReadWord(s, b)
      BY <1>1, <1>4, <2>2, <2>3 DEF RamReadWord
    <2> QED BY <1>7, <2>4 DEF ReadWord, t
  <1>8. CASE Device(b) = "rombank"
    <2>1. RomReadWord(t, b) = RomReadWord(s, b)
      <3>1. RomReadByte(t, b) = RomReadByte(s, b)
        BY <1>2, <1>3
      <3> QED BY <1>1, <1>4, <3>1 DEF RomReadWord
    <2> QED BY <1>8, <2>1 DEF ReadWord, t
  <1>9. CASE Device(b) \notin {"memory", "rambank", "rombank"}
    BY <1>4, <1>9 DEF ReadWord, t
  <1> QED BY <1>6, <1>7, <1>8, <1>9

LEMMA WriteLeavesWord ==
  ASSUME NEW s, StoreOK(s), NEW a \in Word, NEW b \in Word, NEW w \in Word, WordPlace(s, a), Apart(a, b)
  PROVE  ReadWord(WriteWord(s, a, w), b) = ReadWord(s, b)
  <1>1. CASE Device(a) = "memory"
    <2>1. a # 65535
      BY <1>1, DeviceRanges
    <2> QED BY <1>1, <2>1, MemoryWriteLeaves DEF WriteWord
  <1>2. CASE Device(a) = "rambank" /\ s.ramnumber < RamBanks /\ a # 57343
    BY <1>2, RamWriteLeaves
  <1> QED BY <1>1, <1>2 DEF WordPlace

(* A step that counts an instruction executes a well formed one.           *)
LEMMA StepExecutes ==
  ASSUME TypeOK, [Next]_vars, executed' = executed + 1
  PROVE  WellFormed(ope') /\ Execute(ope') /\ Fetch(ope')
  <1>1. executed \in Int /\ executed' # executed
    BY DEF TypeOK
  <1>2. ExecuteNext
    BY <1>1 DEF Next, vars, TakeInterrupt, Hypervisor, Reset, LoadMap, LoadByte, CpuInit, Begin
  <1> DEFINE i == program[executed + 1]
  <1>3. WellFormed(i)
    <2>1. executed + 1 \in 1 .. Len(program)
      BY <1>2 DEF ExecuteNext, TypeOK
    <2> QED BY <2>1 DEF TypeOK
  <1>4. Execute(i)
    BY <1>2 DEF ExecuteNext
  <1> HIDE DEF i
  <1>5. Fetch(i)
    BY <1>4, ExecuteFetches
  <1>6. ope' = i
    BY <1>5 DEF Fetch
  <1> QED BY <1>3, <1>4, <1>5, <1>6

LEMMA WordTransferIsExecuted ==
  ASSUME NEW i, Execute(i), i.op \in {"LD", "SR"}, i.form = "W"
  PROVE  LoadW(i) \/ StoreW(i)
  <1>1. ~(Nop(i) \/ In(i) \/ Out(i) \/ Lea(i) \/ SetFlag(i))
    BY DEF Nop, In, Out, Lea, SetFlag, SetFlagOps
  <1>2. ~(IntN(i) \/ Jump(i) \/ Call(i) \/ Ret(i) \/ Iret(i) \/ JumpIf(i))
    BY DEF IntN, Jump, Call, Ret, Iret, JumpIf, Conditions
  <1>3. ~(LoadB(i) \/ StoreB(i) \/ PopInto(i) \/ PushFrom(i))
    BY DEF LoadB, StoreB, PopInto, PushFrom
  <1>4. ~(LogicB(i) \/ LogicW(i) \/ LogicBI(i) \/ LogicWI(i))
    BY DEF LogicB, LogicW, LogicBI, LogicWI, LogicStep, LogicOps
  <1>5. ~(ArithB(i) \/ ArithW(i) \/ ArithBI(i) \/ ArithWI(i))
    BY DEF ArithB, ArithW, ArithBI, ArithWI, ArithStep, ArithOps
  <1>6. ~(ShiftB(i) \/ ShiftW(i) \/ UnaryB(i) \/ UnaryW(i))
    BY DEF ShiftB, ShiftW, UnaryB, UnaryW, ShiftOps, UnaryOps
  <1>7. ~(MulDivB(i) \/ MulDivW(i) \/ MulDivBI(i) \/ MulDivWI(i))
    BY DEF MulDivB, MulDivW, MulDivBI, MulDivWI, MulDivStep, MultiplyStep, DivideStep
  <1>8. ~(Move(i) \/ Swap(i) \/ MoveSP(i) \/ MoveImmediate(i) \/ Control(i) \/ BadInstruction(i))
    BY DEF Move, Swap, MoveSP, MoveImmediate, Control, BadInstruction
  <1> QED BY <1>1, <1>2, <1>3, <1>4, <1>5, <1>6, <1>7, <1>8 DEF Execute

LEMMA WordTransfer ==
  ASSUME TypeOK, TypeOK', NEW i, WellFormed(i), Execute(i), i.op \in {"LD", "SR"}, i.form = "W", ~Seam(Address(i))
  PROVE  LET a == Address(i)
             word == W'[i.x]
         IN  /\ i.op = "LD" => ReadByte(store, a) = Low(word) /\ ReadByte(store, Next16(a)) = High(word)
             /\ i.op = "SR" /\ Places(a) => ReadByte(store', a) = Low(word) /\ ReadByte(store', Next16(a)) = High(word)
  <1> DEFINE a == Address(i)
  <1>1. a \in Word /\ i.x \in 0 .. 3 /\ MachineOK /\ StoreOK(store) /\ StoreOK(store')
    BY AddressType, TypeOKParts DEF TypeOK
  <1>2. CASE LoadW(i)
    <2>1. W'[i.x] = ReadWord(store, a) /\ i.op = "LD"
      BY <1>1, <1>2 DEF LoadW, MachineOK
    <2> HIDE DEF a
    <2> QED BY <1>1, <2>1, WordSplits DEF a
  <1>3. CASE StoreW(i)
    <2>1. store' = WriteWord(store, a, W[i.x]) /\ W' = W /\ i.op = "SR" /\ W[i.x] \in Word
      BY <1>1, <1>3 DEF StoreW, MachineOK
    <2> SUFFICES ASSUME Places(a)
                 PROVE  ReadByte(store', a) = Low(W[i.x]) /\ ReadByte(store', Next16(a)) = High(W[i.x])
      BY <2>1
    <2>2. a # 57343
      <3> SUFFICES ASSUME a = 57343 PROVE FALSE
        OBVIOUS
      <3>1. 57343 \in Word /\ 57344 \in Word
        BY DEF Word
      <3>2. Next16(57343) = 57344
        BY <3>1, Successor
      <3>3. Device(57343) = "rambank" /\ Device(57344) = "rombank"
        BY <3>1, DeviceRanges
      <3> QED BY <3>2, <3>3 DEF Seam
    <2>3. WordPlace(store, a)
      BY <2>2 DEF Places, WordPlace
    <2> HIDE DEF a
    <2>4. ReadWord(store', a) = W[i.x]
      BY <1>1, <2>1, <2>3, ReadBack
    <2> QED BY <1>1, <2>4, WordSplits DEF a
  <1> QED BY <1>2, <1>3, WordTransferIsExecuted

(* A word moved by LD or SR is its two bytes, low first, for every store,  *)
(* bank and address where no device, bank or half of a bank of ROM ends.   *)
THEOREM WordIsAlwaysTwoBytes == Spec => WordIsTwoBytes
  <1>1. ASSUME TypeOK, TypeOK', [Next]_vars
        PROVE  executed' = executed + 1 /\ ope'.op \in {"LD", "SR"} /\ ope'.form = "W" =>
                 LET a == Address(ope')
                     bytes(s) == <<ReadByte(s, a), ReadByte(s, Next16(a))>>
                     word == W'[ope'.x]
                 IN  /\ ope'.op = "LD" /\ ~Seam(a) => bytes(store) = <<Low(word), High(word)>>
                     /\ ope'.op = "SR" /\ ~Seam(a) /\ Places(a) => bytes(store') = <<Low(word), High(word)>>
    <2> SUFFICES ASSUME executed' = executed + 1, ope'.op \in {"LD", "SR"}, ope'.form = "W", ~Seam(Address(ope'))
                 PROVE  LET a == Address(ope')
                            word == W'[ope'.x]
                        IN  /\ ope'.op = "LD" => ReadByte(store, a) = Low(word) /\ ReadByte(store, Next16(a)) = High(word)
                            /\ ope'.op = "SR" /\ Places(a) => ReadByte(store', a) = Low(word) /\ ReadByte(store', Next16(a)) = High(word)
      OBVIOUS
    <2> QED BY <1>1, StepExecutes, WordTransfer
  <1>2. TypeOK /\ [Next]_vars => TypeOK'
    BY NextTypeOK
  <1> QED BY <1>1, <1>2, TypeCorrect, PTL DEF Spec, WordIsTwoBytes

-------------------------------------------------------------------------------
(* The stack.                                                              *)

(* Between a stack and what was pushed on it there is no port and no end.  *)
LEMMA StackBelow ==
  ASSUME MachineOK, NEW n \in {2, 4, 8}, Places(SP), Places(Wrap(SP - n)), NEW k \in {2, 4, 6, 8}, k <= n
  PROVE  Wrap(SP - k) = SP - k /\ SP - k \in Word /\ WordPlace(store, SP - k)
  <1>1. SP \in Int /\ 0 <= SP /\ SP <= 65535 /\ SP \in Word
    BY WordIsInteger DEF MachineOK
  <1>2. SP <= 255 \/ (296 <= SP /\ SP <= 53247) \/ (53248 <= SP /\ SP <= 57343 /\ store.ramnumber < RamBanks)
    BY <1>1, DeviceRanges DEF Places
  <1>3. n <= SP
    <2> SUFFICES ASSUME SP < n PROVE FALSE
      BY <1>1
    <2>1. Wrap(SP - n) = SP - n + 65536
      BY <1>1 DEF Wrap
    <2>2. Wrap(SP - n) \in Word /\ 57344 <= Wrap(SP - n)
      BY <1>1, <2>1, WrapIsWord
    <2>3. Device(Wrap(SP - n)) = "rombank"
      BY <2>2, DeviceRanges
    <2> QED BY <2>3 DEF Places
  <1>4. Wrap(SP - n) = SP - n /\ Wrap(SP - k) = SP - k
    BY <1>1, <1>3 DEF Wrap
  <1>5. SP - n \in Word /\ SP - k \in Word
    BY <1>1, <1>4, WrapIsWord
  <1>6. SP - n <= 255 \/ 296 <= SP - n
    BY <1>1, <1>4, <1>5, DeviceRanges DEF Places
  <1>7. SP - k <= 255 \/ (296 <= SP - k /\ SP - k <= 53247) \/ (53248 <= SP - k /\ SP - k < 57343 /\ store.ramnumber < RamBanks)
    <2> DEFINE exists == store.ramnumber < RamBanks
    <2>1. SP <= 255 \/ (296 <= SP /\ SP <= 53247) \/ (53248 <= SP /\ SP <= 57343 /\ exists)
      BY <1>2
    <2> HIDE DEF exists
    <2>2. k \in Int /\ n \in Int /\ 2 <= k /\ n <= 8
      OBVIOUS
    <2>3. SP - k <= 255 \/ (296 <= SP - k /\ SP - k <= 53247) \/ (53248 <= SP - k /\ SP - k < 57343 /\ exists)
      BY <1>1, <1>3, <1>6, <2>1, <2>2
    <2> QED BY <2>3 DEF exists
  <1>8. WordPlace(store, SP - k)
    <2> DEFINE a == SP - k
    <2>1. a <= 255 \/ (296 <= a /\ a <= 53247) \/ (53248 <= a /\ a < 57343 /\ store.ramnumber < RamBanks)
      BY <1>7
    <2>2. a \in Word /\ a \in Int
      BY <1>5, WordIsInteger
    <2> HIDE DEF a
    <2>3. Device(a) = "memory" \/ (Device(a) = "rambank" /\ store.ramnumber < RamBanks /\ a # 57343)
      <3>1. CASE a <= 255 \/ (296 <= a /\ a <= 53247)
        BY <2>2, <3>1, DeviceRanges
      <3>2. CASE 53248 <= a /\ a < 57343 /\ store.ramnumber < RamBanks
        BY <2>2, <3>2, DeviceRanges
      <3> QED BY <2>1, <3>1, <3>2
    <2> QED BY <2>3 DEF WordPlace, a
  <1> QED BY <1>4, <1>5, <1>8

LEMMA AboveIsApart ==
  ASSUME MachineOK, NEW j \in Nat, j < 32000, NEW k \in {2, 4, 6, 8}, k <= SP
  PROVE  Wrap(SP + 2 * j) \in Word /\ Apart(SP - k, Wrap(SP + 2 * j))
  <1> DEFINE b == Wrap(SP + 2 * j)
             a == SP - k
  <1>1. SP \in Int /\ 0 <= SP /\ SP <= 65535
    BY WordIsInteger DEF MachineOK
  <1>2. b = SP + 2 * j \/ b = SP + 2 * j - 65536
    BY <1>1 DEF Wrap
  <1>3. b \in Word /\ b \in Int /\ 0 <= b /\ b <= 65535
    BY <1>1, WrapIsWord, WordIsInteger
  <1>4. a \in Word
    BY <1>1 DEF Word
  <1>5. Next16(a) = a + 1 /\ Next16(b) = (IF b = 65535 THEN 0 ELSE b + 1)
    BY <1>1, <1>3, <1>4, Successor
  <1> HIDE DEF b
  <1>6. b # a /\ b # a + 1 /\ (IF b = 65535 THEN 0 ELSE b + 1) # a
    BY <1>1, <1>2, <1>3
  <1> QED BY <1>3, <1>5, <1>6 DEF Apart, b

LEMMA WriteKeepsBank ==
  ASSUME NEW s, StoreOK(s), NEW a \in Word, NEW w \in Word, WordPlace(s, a)
  PROVE  StoreOK(WriteWord(s, a, w)) /\ \A b : WordPlace(WriteWord(s, a, w), b) <=> WordPlace(s, b)
  <1>1. StoreOK(WriteWord(s, a, w))
    BY WriteWordKeepsStore
  <1>2. WriteWord(s, a, w).ramnumber = s.ramnumber
    BY MemoryWriteEffect, RamWriteEffect DEF WordPlace, WriteWord
  <1> QED BY <1>1, <1>2 DEF WordPlace

LEMMA WordsApart ==
  ASSUME NEW a \in Word, NEW b \in Word, a + 2 <= b, b # 65535
  PROVE  Apart(a, b)
  <1>1. a \in Int /\ b \in Int /\ 0 <= a
    BY WordIsInteger
  <1>2. a # 65535
    BY <1>1, WordIsInteger
  <1>3. Next16(a) = a + 1 /\ Next16(b) = b + 1
    BY <1>2, Successor
  <1> QED BY <1>1, <1>3 DEF Apart

(* Words written one below the other.                                      *)
LEMMA WriteOne ==
  ASSUME NEW s, StoreOK(s), NEW p \in Word, WordPlace(s, p), NEW a \in Word
  PROVE  LET s1 == WriteWord(s, p, a)
         IN  /\ StoreOK(s1) /\ (\A r : WordPlace(s1, r) <=> WordPlace(s, r))
             /\ ReadWord(s1, p) = a
             /\ \A r \in Word : Apart(p, r) => ReadWord(s1, r) = ReadWord(s, r)
  BY WriteKeepsBank, ReadBack, WriteLeavesWord

HoldsTwo(s, s2, p, q, a, b) ==
  /\ StoreOK(s2) /\ (\A k : WordPlace(s2, k) <=> WordPlace(s, k))
  /\ ReadWord(s2, p) = a /\ ReadWord(s2, q) = b
  /\ \A k \in Word : Apart(p, k) /\ Apart(q, k) => ReadWord(s2, k) = ReadWord(s, k)

LEMMA WriteTwo ==
  ASSUME NEW s, StoreOK(s), NEW p \in Word, NEW q \in Word, WordPlace(s, p), WordPlace(s, q), Apart(q, p),
         NEW a \in Word, NEW b \in Word
  PROVE  HoldsTwo(s, WriteWord(WriteWord(s, p, a), q, b), p, q, a, b)
  <1> DEFINE s1 == WriteWord(s, p, a)
             s2 == WriteWord(s1, q, b)
  <1>1. /\ StoreOK(s1) /\ (\A r : WordPlace(s1, r) <=> WordPlace(s, r))
        /\ ReadWord(s1, p) = a
        /\ \A r \in Word : Apart(p, r) => ReadWord(s1, r) = ReadWord(s, r)
    BY WriteOne
  <1> HIDE DEF s1
  <1>2. /\ StoreOK(s2) /\ (\A r : WordPlace(s2, r) <=> WordPlace(s1, r))
        /\ ReadWord(s2, q) = b
        /\ \A r \in Word : Apart(q, r) => ReadWord(s2, r) = ReadWord(s1, r)
    BY <1>1, WriteOne
  <1> HIDE DEF s2
  <1>3. ReadWord(s2, p) = a
    BY <1>1, <1>2
  <1> QED BY <1>1, <1>2, <1>3 DEF s1, s2, HoldsTwo

(* The addresses a push writes to.                                         *)
LEMMA PushAddresses ==
  ASSUME MachineOK, NEW n \in {2, 4, 8}, Places(SP), SP' = Wrap(SP - n), Places(SP')
  PROVE  /\ n <= SP /\ SP' = SP - n
         /\ \A k \in {2, 4, 6, 8} : k <= n =>
              /\ Wrap(SP - k) \in Word /\ WordPlace(store, Wrap(SP - k)) /\ Wrap(SP - k) # 65535
              /\ Wrap(SP - k) = Wrap(SP' + (n - k))
              /\ \A j \in Nat : j < 32000 => Wrap(SP + 2 * j) \in Word /\ Apart(Wrap(SP - k), Wrap(SP + 2 * j))
              /\ \A l \in {2, 4, 6, 8} : l < k => Apart(Wrap(SP - k), Wrap(SP - l))
  <1>1. SP \in Int /\ 0 <= SP /\ SP <= 65535
    BY WordIsInteger DEF MachineOK
  <1>2. Places(Wrap(SP - n))
    BY DEF Places
  <1>3. n <= SP /\ SP' = SP - n
    <2>1. n \in {2, 4, 6, 8} /\ n <= n
      OBVIOUS
    <2>2. Wrap(SP - n) = SP - n /\ SP - n \in Word
      BY <1>2, <2>1, StackBelow
    <2> QED BY <1>1, <2>2, WordIsInteger
  <1>4. ASSUME NEW k \in {2, 4, 6, 8}, k <= n
        PROVE  /\ Wrap(SP - k) \in Word /\ WordPlace(store, Wrap(SP - k)) /\ Wrap(SP - k) # 65535
               /\ Wrap(SP - k) = Wrap(SP' + (n - k))
               /\ \A j \in Nat : j < 32000 => Wrap(SP + 2 * j) \in Word /\ Apart(Wrap(SP - k), Wrap(SP + 2 * j))
               /\ \A l \in {2, 4, 6, 8} : l < k => Apart(Wrap(SP - k), Wrap(SP - l))
    <2>1. Wrap(SP - k) = SP - k /\ SP - k \in Word /\ WordPlace(store, SP - k)
      BY <1>2, <1>4, StackBelow
    <2>2. k \in Int /\ n \in Int /\ 2 <= k /\ k <= SP /\ SP - k # 65535
      BY <1>1, <1>3, <1>4
    <2>3. Wrap(SP - k) = Wrap(SP' + (n - k))
      BY <1>1, <1>3, <2>1, <2>2
    <2>4. \A j \in Nat : j < 32000 => Wrap(SP + 2 * j) \in Word /\ Apart(Wrap(SP - k), Wrap(SP + 2 * j))
      BY <2>1, <2>2, AboveIsApart
    <2>5. ASSUME NEW l \in {2, 4, 6, 8}, l < k
          PROVE  Apart(Wrap(SP - k), Wrap(SP - l))
      <3>1. l <= n /\ 2 <= l /\ l \in Int /\ l + 2 <= k
        BY <1>4, <2>2, <2>5
      <3>2. Wrap(SP - l) = SP - l /\ SP - l \in Word
        BY <1>2, <3>1, StackBelow
      <3>3. (SP - k) + 2 <= SP - l /\ SP - l # 65535
        BY <1>1, <2>2, <3>1
      <3> QED BY <2>1, <3>2, <3>3, WordsApart
    <2> QED BY <2>1, <2>2, <2>3, <2>4, <2>5
  <1> QED BY <1>3, <1>4

LEMMA AboveFromApart ==
  ASSUME MachineOK, SP' < SP,
         \A j \in Nat : j < 32000 => ReadWord(store', Wrap(SP + 2 * j)) = ReadWord(store, Wrap(SP + 2 * j))
  PROVE  KeepsAbove
  <1>1. \A j \in 0 .. StackDepth - 1 : j \in Nat /\ j < 32000
    BY CpuAssumption
  <1> QED BY <1>1 DEF KeepsAbove

LEMMA PushedOne ==
  ASSUME MachineOK, NEW a \in Word, Push(<<a>>), Places(SP), Places(SP')
  PROVE  PushedAt(0) = a /\ PushedAt(1) = OnStack(0) /\ KeepsAbove
  <1>1. SP' = Wrap(SP - 2) /\ store' = WriteWord(store, Wrap(SP - 2), a) /\ SP \in Int /\ StoreOK(store)
    BY PushOneType, WordIsInteger DEF MachineOK
  <1> DEFINE p == Wrap(SP - 2)
  <1>2. /\ p \in Word /\ WordPlace(store, p) /\ SP' < SP
        /\ p = Wrap(SP' + 2 * 0) /\ Wrap(SP' + 2 * 1) = Wrap(SP + 2 * 0)
        /\ \A j \in Nat : j < 32000 => Wrap(SP + 2 * j) \in Word /\ Apart(p, Wrap(SP + 2 * j))
    <2>1. /\ 2 <= SP /\ SP' = SP - 2
          /\ p \in Word /\ WordPlace(store, p) /\ p = Wrap(SP' + (2 - 2))
          /\ \A j \in Nat : j < 32000 => Wrap(SP + 2 * j) \in Word /\ Apart(p, Wrap(SP + 2 * j))
      BY <1>1, PushAddresses
    <2>2. SP' + (2 - 2) = SP' + 2 * 0 /\ SP' + 2 * 1 = SP + 2 * 0 /\ SP' < SP
      BY <1>1, <2>1
    <2> HIDE DEF p
    <2> QED BY <2>1, <2>2
  <1>3. store' = WriteWord(store, p, a)
    BY <1>1
  <1> HIDE DEF p
  <1>4. ReadWord(store', p) = a /\ \A r \in Word : Apart(p, r) => ReadWord(store', r) = ReadWord(store, r)
    BY <1>1, <1>2, <1>3, WriteOne
  <1>5. \A j \in Nat : j < 32000 => ReadWord(store', Wrap(SP + 2 * j)) = ReadWord(store, Wrap(SP + 2 * j))
    BY <1>2, <1>4
  <1>6. PushedAt(1) = OnStack(0)
    BY <1>2, <1>5 DEF PushedAt, OnStack
  <1> QED BY <1>2, <1>4, <1>5, <1>6, AboveFromApart DEF PushedAt

LEMMA PushedTwo ==
  ASSUME MachineOK, NEW a \in Word, NEW b \in Word, Push(<<a, b>>), Places(SP), Places(SP')
  PROVE  PushedAt(0) = b /\ PushedAt(1) = a /\ KeepsAbove
  <1>1. /\ SP' = Wrap(SP - 4) /\ store' = WriteWord(WriteWord(store, Wrap(SP - 2), a), Wrap(SP - 4), b)
        /\ SP \in Int /\ StoreOK(store)
    BY PushTwoType, WordIsInteger DEF MachineOK
  <1> DEFINE p == Wrap(SP - 2)
             q == Wrap(SP - 4)
  <1>2. /\ p \in Word /\ WordPlace(store, p) /\ q \in Word /\ WordPlace(store, q) /\ SP' < SP
        /\ q = Wrap(SP' + 2 * 0) /\ p = Wrap(SP' + 2 * 1) /\ Apart(q, p)
        /\ \A j \in Nat : j < 32000 => Wrap(SP + 2 * j) \in Word /\ Apart(p, Wrap(SP + 2 * j)) /\ Apart(q, Wrap(SP + 2 * j))
    <2>1. /\ 4 <= SP /\ SP' = SP - 4
          /\ p \in Word /\ WordPlace(store, p) /\ p = Wrap(SP' + (4 - 2))
          /\ \A j \in Nat : j < 32000 => Wrap(SP + 2 * j) \in Word /\ Apart(p, Wrap(SP + 2 * j))
      BY <1>1, PushAddresses
    <2>2. /\ q \in Word /\ WordPlace(store, q) /\ q = Wrap(SP' + (4 - 4)) /\ Apart(q, p)
          /\ \A j \in Nat : j < 32000 => Wrap(SP + 2 * j) \in Word /\ Apart(q, Wrap(SP + 2 * j))
      BY <1>1, PushAddresses
    <2>3. SP' + (4 - 4) = SP' + 2 * 0 /\ SP' + (4 - 2) = SP' + 2 * 1 /\ SP' < SP
      BY <1>1, <2>1
    <2> HIDE DEF p, q
    <2> QED BY <2>1, <2>2, <2>3
  <1>3. store' = WriteWord(WriteWord(store, p, a), q, b)
    BY <1>1
  <1> HIDE DEF p, q
  <1>4. /\ ReadWord(store', p) = a /\ ReadWord(store', q) = b
        /\ \A r \in Word : Apart(p, r) /\ Apart(q, r) => ReadWord(store', r) = ReadWord(store, r)
    BY <1>1, <1>2, <1>3, WriteTwo DEF HoldsTwo
  <1>5. \A j \in Nat : j < 32000 => ReadWord(store', Wrap(SP + 2 * j)) = ReadWord(store, Wrap(SP + 2 * j))
    BY <1>2, <1>4
  <1> QED BY <1>2, <1>4, <1>5, AboveFromApart DEF PushedAt

LEMMA PushedFour ==
  ASSUME MachineOK, NEW a \in Word, NEW b \in Word, NEW c \in Word, NEW d \in Word,
         Push(<<a, b, c, d>>), Places(SP), Places(SP')
  PROVE  PushedAt(0) = d /\ PushedAt(1) = c /\ PushedAt(2) = b /\ PushedAt(3) = a /\ KeepsAbove
  <1>1. /\ SP' = Wrap(SP - 8) /\ SP \in Int /\ StoreOK(store)
        /\ store' = WriteWord(WriteWord(WriteWord(WriteWord(store, Wrap(SP - 2), a), Wrap(SP - 4), b), Wrap(SP - 6), c), Wrap(SP - 8), d)
    BY PushFourType, WordIsInteger DEF MachineOK
  <1> DEFINE p == Wrap(SP - 2)
             q == Wrap(SP - 4)
             r == Wrap(SP - 6)
             t == Wrap(SP - 8)
  <1>2. /\ \A k \in {p, q, r, t} : k \in Word /\ WordPlace(store, k)
        /\ t = Wrap(SP' + 2 * 0) /\ r = Wrap(SP' + 2 * 1) /\ q = Wrap(SP' + 2 * 2) /\ p = Wrap(SP' + 2 * 3)
        /\ Apart(q, p) /\ Apart(r, p) /\ Apart(r, q) /\ Apart(t, p) /\ Apart(t, q) /\ Apart(t, r)
        /\ SP' < SP
        /\ \A j \in Nat : j < 32000 => /\ Wrap(SP + 2 * j) \in Word
                                       /\ \A k \in {p, q, r, t} : Apart(k, Wrap(SP + 2 * j))
    <2>1. /\ 8 <= SP /\ SP' = SP - 8
          /\ p \in Word /\ WordPlace(store, p) /\ p = Wrap(SP' + (8 - 2))
          /\ \A j \in Nat : j < 32000 => Wrap(SP + 2 * j) \in Word /\ Apart(p, Wrap(SP + 2 * j))
      BY <1>1, PushAddresses
    <2>2. /\ q \in Word /\ WordPlace(store, q) /\ q = Wrap(SP' + (8 - 4)) /\ Apart(q, p)
          /\ \A j \in Nat : j < 32000 => Wrap(SP + 2 * j) \in Word /\ Apart(q, Wrap(SP + 2 * j))
      BY <1>1, PushAddresses
    <2>3. /\ r \in Word /\ WordPlace(store, r) /\ r = Wrap(SP' + (8 - 6)) /\ Apart(r, p) /\ Apart(r, q)
          /\ \A j \in Nat : j < 32000 => Wrap(SP + 2 * j) \in Word /\ Apart(r, Wrap(SP + 2 * j))
      BY <1>1, PushAddresses
    <2>4. /\ t \in Word /\ WordPlace(store, t) /\ t = Wrap(SP' + (8 - 8)) /\ Apart(t, p) /\ Apart(t, q) /\ Apart(t, r)
          /\ \A j \in Nat : j < 32000 => Wrap(SP + 2 * j) \in Word /\ Apart(t, Wrap(SP + 2 * j))
      BY <1>1, PushAddresses
    <2>5. /\ SP' + (8 - 8) = SP' + 2 * 0 /\ SP' + (8 - 6) = SP' + 2 * 1
          /\ SP' + (8 - 4) = SP' + 2 * 2 /\ SP' + (8 - 2) = SP' + 2 * 3 /\ SP' < SP
      BY <1>1, <2>1
    <2> HIDE DEF p, q, r, t
    <2> QED BY <2>1, <2>2, <2>3, <2>4, <2>5
  <1> DEFINE s2 == WriteWord(WriteWord(store, p, a), q, b)
  <1>3. store' = WriteWord(WriteWord(s2, r, c), t, d)
    BY <1>1
  <1> HIDE DEF p, q, r, t
  <1>8. /\ p \in Word /\ WordPlace(store, p) /\ q \in Word /\ WordPlace(store, q) /\ Apart(q, p)
        /\ r \in Word /\ WordPlace(store, r) /\ t \in Word /\ WordPlace(store, t) /\ Apart(t, r)
    BY <1>2
  <1>9. s2 = WriteWord(WriteWord(store, p, a), q, b)
    OBVIOUS
  <1> HIDE DEF s2
  <1>4. HoldsTwo(store, s2, p, q, a, b)
    BY <1>1, <1>8, <1>9, WriteTwo
  <1>5. HoldsTwo(s2, store', r, t, c, d)
    <2>1. StoreOK(s2) /\ WordPlace(s2, r) /\ WordPlace(s2, t)
      BY <1>4, <1>8 DEF HoldsTwo
    <2> QED BY <1>3, <1>8, <2>1, WriteTwo
  <1>6. ReadWord(store', p) = a /\ ReadWord(store', q) = b
    BY <1>2, <1>4, <1>5 DEF HoldsTwo
  <1>7. \A j \in Nat : j < 32000 => ReadWord(store', Wrap(SP + 2 * j)) = ReadWord(store, Wrap(SP + 2 * j))
    BY <1>2, <1>4, <1>5 DEF HoldsTwo
  <1> QED BY <1>2, <1>5, <1>6, <1>7, AboveFromApart DEF PushedAt, HoldsTwo

(* The frame of an interrupt, pushed into the memory even where a bank is. *)
LEMMA FramePushed ==
  ASSUME MachineOK, NEW pc \in Word, store' = Framed(pc), SP' = Wrap(SP - 4), FrameInMemory
  PROVE  PushedAt(0) = FlagWord(FL) /\ PushedAt(1) = pc
  <1> DEFINE q == Wrap(SP - 4)
             p == Wrap(SP - 2)
             v == FlagWord(FL)
  <1>1. SP \in Int /\ 0 <= SP /\ SP <= 65535 /\ StoreOK(store) /\ v \in Word
    BY WordIsInteger, WordOfFlags DEF MachineOK
  <1>2. p \in Word /\ q \in Word /\ q \in Int /\ 0 <= q /\ Device(q) = "memory" /\ Device(Wrap(q + 2)) = "memory"
    BY <1>1, WrapIsWord, WordIsInteger DEF FrameInMemory
  <1>3. q <= 53247
    BY <1>2, DeviceRanges
  <1>4. p = q + 2 /\ Wrap(q + 2) = q + 2
    BY <1>1, <1>3 DEF Wrap
  <1>5. Wrap(SP' + 2 * 0) = q /\ Wrap(SP' + 2 * 1) = p /\ p # 65535
    BY <1>1, <1>2, <1>3, <1>4 DEF Wrap
  <1>6. store' = WriteWord(WriteWord(store, p, pc), q, v)
    BY <1>2, <1>4 DEF Framed, WriteWord
  <1>7. WordPlace(store, q) /\ WordPlace(store, p)
    BY <1>2, <1>4 DEF WordPlace
  <1> HIDE DEF p, q, v
  <1>8. p \in Word /\ q \in Word /\ Apart(q, p)
    BY <1>2, <1>4, <1>5, WordsApart
  <1>9. ReadWord(store', p) = pc /\ ReadWord(store', q) = v
    BY <1>1, <1>6, <1>7, <1>8, WriteTwo DEF HoldsTwo
  <1> QED BY <1>5, <1>9 DEF PushedAt, v

LEMMA FrameKeepsAbove ==
  ASSUME MachineOK, NEW pc \in Word, store' = Framed(pc), SP' = Wrap(SP - 4), Places(SP), Places(SP')
  PROVE  KeepsAbove
  <1> DEFINE p == Wrap(SP - 2)
             q == Wrap(SP - 4)
             s1 == MemoryWriteWord(store, p, pc)
  <1>1. SP \in Int /\ StoreOK(store)
    BY WordIsInteger DEF MachineOK
  <1>2. /\ p \in Word /\ p # 65535
        /\ \A j \in Nat : j < 32000 => Wrap(SP + 2 * j) \in Word /\ Apart(p, Wrap(SP + 2 * j))
    BY PushAddresses
  <1>3. /\ 4 <= SP /\ SP' = SP - 4 /\ q \in Word /\ q # 65535
        /\ \A j \in Nat : j < 32000 => Wrap(SP + 2 * j) \in Word /\ Apart(q, Wrap(SP + 2 * j))
    BY PushAddresses
  <1>4. store' = MemoryWriteWord(s1, q, FlagWord(FL)) /\ SP' < SP
    BY <1>1, <1>3 DEF Framed
  <1> HIDE DEF p, q
  <1>5. StoreOK(s1)
    BY <1>1, <1>2, WriteWordKeepsStore
  <1>6. \A k \in Word : Apart(p, k) => ReadWord(s1, k) = ReadWord(store, k)
    BY <1>1, <1>2, MemoryWriteLeaves
  <1> HIDE DEF s1
  <1>7. \A k \in Word : Apart(q, k) => ReadWord(store', k) = ReadWord(s1, k)
    BY <1>3, <1>4, <1>5, MemoryWriteLeaves
  <1>8. \A j \in Nat : j < 32000 => ReadWord(store', Wrap(SP + 2 * j)) = ReadWord(store, Wrap(SP + 2 * j))
    BY <1>2, <1>3, <1>6, <1>7
  <1> QED BY <1>4, <1>8, AboveFromApart

FrameOps == {"C", "INT", "IRQ", "BAD", "PUSHA", "PUSHF", "PUSH", "DUP"}

LEMMA NoFrame ==
  ASSUME NEW i, i.op \notin FrameOps \/ (i.op = "INT" /\ i.x = 1)
  PROVE  FrameOf(i)
  BY DEF FrameOf, FrameOps

LEMMA SameStoreKeepsAbove ==
  ASSUME store' = store
  PROVE  KeepsAbove
  BY DEF KeepsAbove

LEMMA PushFromFrames ==
  ASSUME MachineOK, NEW i, WellFormed(i), PushFrom(i), Places(SP), Places(SP')
  PROVE  FrameOf(i) /\ KeepsAbove
  <1>1. CASE i.op = "PUSH" /\ i.form = "B"
    <2>1. B(i.x) \in Word /\ Low(B(i.x)) = B(i.x)
      <3>1. B(i.x) \in Byte
        BY <1>1, Operands, ByteRegister DEF OnBytes, MachineOK
      <3>2. \A b \in Byte : Low(b) = b
        BY DEF Byte, Low
      <3> QED BY <3>1, <3>2, ByteIsWord
    <2>2. Push(<<B(i.x)>>)
      BY <1>1 DEF PushFrom
    <2>3. PushedAt(0) = B(i.x) /\ KeepsAbove
      BY <2>1, <2>2, PushedOne
    <2> QED BY <1>1, <2>1, <2>3 DEF FrameOf
  <1>2. CASE i.op = "PUSH" /\ i.form = "W"
    <2>1. W[i.x] \in Word
      BY <1>2, Operands DEF OnBytes, MachineOK
    <2>2. Push(<<W[i.x]>>)
      BY <1>2 DEF PushFrom
    <2>3. PushedAt(0) = W[i.x] /\ KeepsAbove
      BY <2>1, <2>2, PushedOne
    <2> QED BY <1>2, <2>3 DEF FrameOf
  <1>3. CASE i.op = "PUSHA"
    <2>1. W[0] \in Word /\ W[1] \in Word /\ W[2] \in Word /\ W[3] \in Word /\ W = [j \in 0 .. 3 |-> W[j]]
      BY DEF MachineOK
    <2>2. Push(<<W[0], W[1], W[2], W[3]>>)
      BY <1>3 DEF PushFrom
    <2>3. PushedAt(0) = W[3] /\ PushedAt(1) = W[2] /\ PushedAt(2) = W[1] /\ PushedAt(3) = W[0] /\ KeepsAbove
      BY <2>1, <2>2, PushedFour
    <2>4. \A j \in 0 .. 3 : PushedAt(3 - j) = W[j]
      BY <2>3
    <2>5. [j \in 0 .. 3 |-> PushedAt(3 - j)] = W
      BY <2>1, <2>4
    <2> QED BY <1>3, <2>3, <2>5 DEF FrameOf
  <1>4. CASE i.op = "PUSHF"
    <2>1. FlagWord(FL) \in Word /\ FlagsOf(FlagWord(FL)) = FL
      BY WordOfFlags DEF MachineOK
    <2>2. Push(<<FlagWord(FL)>>)
      BY <1>4 DEF PushFrom
    <2>3. PushedAt(0) = FlagWord(FL) /\ KeepsAbove
      BY <2>1, <2>2, PushedOne
    <2> QED BY <1>4, <2>1, <2>3 DEF FrameOf
  <1>5. CASE i.op = "PUSHPC"
    <2>1. Push(<<PC>>) /\ PC \in Word
      BY <1>5 DEF PushFrom, MachineOK
    <2> QED BY <1>5, <2>1, PushedOne, NoFrame DEF FrameOps
  <1>6. CASE i.op = "DUP"
    <2>1. Push(<<OnStack(0)>>) /\ OnStack(0) \in Word
      BY <1>6, OnStackType DEF PushFrom
    <2> QED BY <1>6, <2>1, PushedOne DEF FrameOf
  <1>7. i.op = "PUSH" => i.form \in {"B", "W"}
    BY FormsBW
  <1> QED BY <1>1, <1>2, <1>3, <1>4, <1>5, <1>6, <1>7 DEF PushFrom

LEMMA CallFrames ==
  ASSUME MachineOK, NEW i, WellFormed(i), IntN(i) \/ Call(i), Places(SP), Places(SP')
  PROVE  FrameOf(i) /\ KeepsAbove
  <1>1. CASE IntN(i) /\ i.x = 1
    BY <1>1, NoFrame, SameStoreKeepsAbove DEF IntN
  <1>2. CASE IntN(i) /\ i.x # 1
    <2>1. FlagWord(FL) \in Word /\ FlagsOf(FlagWord(FL)) = FL
      BY WordOfFlags DEF MachineOK
    <2>2. Wrap(PC + 1) \in Word
      BY WordIsInteger, WrapIsWord DEF MachineOK
    <2>3. Push(<<Wrap(PC + 1), FlagWord(FL)>>) /\ i.op = "INT"
      BY <1>2 DEF IntN
    <2>4. PushedAt(0) = FlagWord(FL) /\ PushedAt(1) = Wrap(PC + 1) /\ KeepsAbove
      BY <2>1, <2>2, <2>3, PushedTwo
    <2> QED BY <1>2, <2>1, <2>3, <2>4 DEF FrameOf
  <1>3. CASE Call(i)
    <2>1. ReturnAddress(i) \in Word /\ i.op = "C" /\ Push(<<ReturnAddress(i)>>)
      BY <1>3, TargetType DEF Call
    <2>2. PushedAt(0) = ReturnAddress(i) /\ KeepsAbove
      BY <2>1, PushedOne
    <2> QED BY <2>1, <2>2 DEF FrameOf
  <1> QED BY <1>1, <1>2, <1>3

LEMMA InterruptFrames ==
  ASSUME MachineOK, NEW n, NEW pc \in Word, Interrupt(n, pc)
  PROVE  /\ Places(SP) /\ Places(SP') => KeepsAbove
         /\ FrameInMemory /\ SP' # SP => FlagsOf(PushedAt(0)) = FL /\ PushedAt(1) = pc
  <1>1. CASE n = BADINSTR \/ FL.I = 1
    <2>1. store' = Framed(pc) /\ SP' = Wrap(SP - 4)
      BY <1>1 DEF Interrupt
    <2>2. FlagsOf(FlagWord(FL)) = FL
      BY WordOfFlags DEF MachineOK
    <2> QED BY <2>1, <2>2, FramePushed, FrameKeepsAbove
  <1>2. CASE ~(n = BADINSTR \/ FL.I = 1)
    BY <1>2, SameStoreKeepsAbove DEF Interrupt
  <1> QED BY <1>1, <1>2

LEMMA DivideFrames ==
  ASSUME MachineOK, NEW i, WellFormed(i), MulDivB(i) \/ MulDivW(i) \/ MulDivBI(i) \/ MulDivWI(i), Places(SP), Places(SP')
  PROVE  FrameOf(i) /\ KeepsAbove
  <1>1. i.op \in MulDivOps
    BY DEF MulDivB, MulDivW, MulDivBI, MulDivWI, MulDivStep, MultiplyStep, DivideStep, MulDivOps
  <1>2. FrameOf(i)
    BY <1>1, NoFrame DEF FrameOps, MulDivOps
  <1>3. PICK j \in {i.y, i.z}, bytes \in {2, 3, 4} : MulDivStep(i, j, bytes)
    <2>1. CASE MulDivB(i)
      BY <2>1 DEF MulDivB
    <2>2. CASE MulDivW(i)
      BY <2>2 DEF MulDivW
    <2>3. CASE MulDivBI(i)
      BY <2>3 DEF MulDivBI
    <2>4. CASE MulDivWI(i)
      BY <2>4 DEF MulDivWI
    <2> QED BY <2>1, <2>2, <2>3, <2>4
  <1>4. CASE MultiplyStep(i, j, bytes)
    BY <1>2, <1>4, SameStoreKeepsAbove DEF MultiplyStep, Multiply
  <1>5. CASE DivideStep(i, j, bytes) /\ Second(i) # 0
    BY <1>2, <1>5, SameStoreKeepsAbove DEF DivideStep
  <1>6. CASE DivideStep(i, j, bytes) /\ Second(i) = 0
    <2>1. Wrap(PC + bytes) \in Word
      BY WordIsInteger, WrapIsWord DEF MachineOK
    <2>2. Interrupt(DIVZERO, Wrap(PC + bytes))
      BY <1>6 DEF DivideStep
    <2> QED BY <1>2, <2>1, <2>2, InterruptFrames
  <1> QED BY <1>3, <1>4, <1>5, <1>6 DEF MulDivStep

LEMMA ExecuteFrames ==
  ASSUME MachineOK, NEW i, WellFormed(i), Execute(i), Places(SP), Places(SP')
  PROVE  FrameOf(i) /\ (i.op # "SR" => KeepsAbove)
  <1>1. ASSUME i.op \notin FrameOps, store' = store
        PROVE  FrameOf(i) /\ KeepsAbove
    BY <1>1, NoFrame, SameStoreKeepsAbove
  <1>2. CASE Nop(i) \/ In(i) \/ Out(i) \/ Lea(i) \/ SetFlag(i)
    BY <1>1, <1>2 DEF Nop, In, Out, Lea, SetFlag, SetFlagOps, FrameOps
  <1>3. CASE IntN(i) \/ Call(i)
    BY <1>3, CallFrames
  <1>4. CASE Jump(i) \/ Ret(i) \/ Iret(i) \/ JumpIf(i)
    BY <1>1, <1>4 DEF Jump, Ret, Iret, JumpIf, Conditions, FrameOps
  <1>5. CASE LoadB(i) \/ LoadW(i) \/ PopInto(i)
    BY <1>1, <1>5 DEF LoadB, LoadW, PopInto, FrameOps
  <1>6. CASE StoreB(i) \/ StoreW(i)
    BY <1>6, NoFrame DEF StoreB, StoreW, FrameOps
  <1>7. CASE PushFrom(i)
    BY <1>7, PushFromFrames
  <1>8. CASE LogicB(i) \/ LogicW(i) \/ LogicBI(i) \/ LogicWI(i)
    BY <1>1, <1>8 DEF LogicB, LogicW, LogicBI, LogicWI, LogicStep, Compute, LogicOps, FrameOps
  <1>9. CASE ArithB(i) \/ ArithW(i) \/ ArithBI(i) \/ ArithWI(i)
    BY <1>1, <1>9 DEF ArithB, ArithW, ArithBI, ArithWI, ArithStep, Compute, ArithOps, FrameOps
  <1>10. CASE ShiftB(i) \/ ShiftW(i)
    BY <1>1, <1>10 DEF ShiftB, ShiftW, RotateLeftW, Compute, ShiftOps, FrameOps
  <1>11. CASE UnaryB(i) \/ UnaryW(i)
    BY <1>1, <1>11 DEF UnaryB, UnaryW, ShiftRight1W, SarW1, Compute, ShiftOps, UnaryOps, FrameOps
  <1>12. CASE MulDivB(i) \/ MulDivW(i) \/ MulDivBI(i) \/ MulDivWI(i)
    BY <1>12, DivideFrames
  <1>13. CASE Move(i) \/ Swap(i) \/ MoveSP(i) \/ MoveImmediate(i)
    BY <1>1, <1>13 DEF Move, Swap, MoveSP, MoveImmediate, FrameOps
  <1>14. CASE Control(i)
    BY <1>1, <1>14 DEF Control, FrameOps
  <1>15. CASE BadInstruction(i)
    <2>1. Interrupt(BADINSTR, PC) /\ PC \in Word /\ i.op = "BAD"
      BY <1>15 DEF BadInstruction, MachineOK
    <2> QED BY <2>1, InterruptFrames DEF FrameOf
  <1> QED BY <1>2, <1>3, <1>4, <1>5, <1>6, <1>7, <1>8, <1>9, <1>10, <1>11, <1>12, <1>13, <1>14, <1>15 DEF Execute

LEMMA NextFrames ==
  ASSUME TypeOK, LoadingInv, Next, Places(SP), Places(SP')
  PROVE  /\ status \in {"DEFAULT", "WAIT"} => FrameOf(ope')
         /\ Loaded /\ status # "RESET" /\ (executed' = executed + 1 => ope'.op \notin {"SR", "MOV"})
              => KeepsAbove
  <1> MachineOK /\ map \in Int /\ Len(CodeMaps) \in Int
    BY TypeOKParts, CodeMapsAssumption DEF TypeOK
  <1>1. None.op = "NOP" /\ IRQ.op = "IRQ"
    BY DEF None, IRQ
  <1>2. CASE ExecuteNext
    <2> DEFINE i == program[executed + 1]
    <2>1. WellFormed(i) /\ Execute(i)
      <3>1. executed + 1 \in 1 .. Len(program)
        BY <1>2 DEF ExecuteNext, TypeOK
      <3> QED BY <1>2, <3>1 DEF ExecuteNext, TypeOK
    <2> HIDE DEF i
    <2>2. ope' = i /\ executed' = executed + 1
      BY <2>1, ExecuteFetches DEF Fetch
    <2>3. FrameOf(i) /\ (i.op # "SR" => KeepsAbove)
      BY <2>1, ExecuteFrames
    <2> QED BY <2>2, <2>3
  <1>3. ASSUME NEW n \in Interrupts \cup {DIVZERO}, TakeInterrupt(n)
        PROVE  FrameOf(ope') /\ KeepsAbove
    <2>1. Interrupt(n, PC) /\ ope' = IRQ /\ PC \in Word
      BY <1>3 DEF TakeInterrupt, MachineOK
    <2>2. KeepsAbove /\ (FrameInMemory /\ SP' # SP => FlagsOf(PushedAt(0)) = FL /\ PushedAt(1) = PC)
      BY <2>1, InterruptFrames
    <2>3. FrameOf(IRQ)
      BY <1>1, <2>2 DEF FrameOf
    <2> QED BY <2>1, <2>2, <2>3
  <1>4. CASE Hypervisor
    <2>1. store' = store /\ status \notin {"DEFAULT", "WAIT"}
      BY <1>4 DEF Hypervisor
    <2> QED BY <2>1, SameStoreKeepsAbove
  <1>5. CASE Reset
    BY <1>5 DEF Reset
  <1>6. CASE LoadMap \/ LoadByte \/ CpuInit
    <2>1. ~Loaded /\ ope' = ope
      BY <1>6 DEF LoadMap, LoadByte, CpuInit, Loaded
    <2>2. ope'.op \notin FrameOps
      BY <1>1, <2>1 DEF LoadingInv, FrameOps
    <2> QED BY <2>1, <2>2, NoFrame
  <1>7. CASE Begin
    <2>1. ope' = None /\ store' = store
      BY <1>7 DEF Begin
    <2>2. ope'.op \notin FrameOps
      BY <1>1, <2>1 DEF FrameOps
    <2> QED BY <2>1, <2>2, NoFrame, SameStoreKeepsAbove
  <1> QED BY <1>2, <1>3, <1>4, <1>5, <1>6, <1>7 DEF Next

(* What any push leaves, of an instruction or of an interrupt, is there    *)
(* for the instruction that takes it, and no push or pop disturbs the      *)
(* StackDepth words above it: frames nest, wherever the stack is, for any  *)
(* contents and banks.                                                     *)
THEOREM FramesAlwaysComeBack == Spec => FramesComeBack
  <1> DEFINE Inv == TypeOK /\ LoadingInv
  <1>1. Init => Inv
    BY InitTypeOK, InitLoadingInv
  <1>2. Inv /\ [Next]_vars => Inv'
    BY NextTypeOK, NextLoadingInv
  <1>3. ASSUME Inv, [Next]_vars
        PROVE  [Places(SP) /\ Places(SP') =>
                  /\ status \in {"DEFAULT", "WAIT"} => FrameOf(ope')
                  /\ Loaded /\ status # "RESET" /\ (executed' = executed + 1 => ope'.op \notin {"SR", "MOV"})
                       => KeepsAbove]_vars
    BY <1>3, NextFrames
  <1> QED BY <1>1, <1>2, <1>3, PTL DEF Spec, FramesComeBack

-------------------------------------------------------------------------------
(* The lengths of the instructions.                                        *)
OneByteOps == {"NOP", "INT", "POP", "POPA", "POPF", "DROP", "PUSH", "PUSHA", "PUSHF", "PUSHPC", "DUP",
               "STI", "CLI", "HEVT", "WAIT"} \cup SetFlagOps
RegisterOps == LogicOps \cup ArithOps \cup ShiftOps \cup UnaryOps \cup MulDivOps \cup {"ROR", "ROL", "NOT", "MOV", "SWP"}

LEMMA ControlSizes ==
  ASSUME NEW i
  PROVE  /\ i.op \in OneByteOps => Size(i) = 1
         /\ i.op \in {"IN", "OUT", "OUT2"} => Size(i) = 2
         /\ i.op = "LEA" => Size(i) = (IF i.form = "W" THEN 3 ELSE 2)
         /\ i.op \in Conditions => Size(i) = 2
         /\ i.op \in {"J", "C"} => /\ i.form = "W" => Size(i) = 1
                                   /\ i.form = "A" => Size(i) = 3
                                   /\ i.form = "R" => Size(i) = 2
  <1> DEFINE control == OneByteOps \cup {"IN", "OUT", "OUT2", "LEA", "J", "C"} \cup Conditions
  <1>1. i.op \in control => Pattern(i) = PatternControl(i)
    BY DEF Pattern, OneByteOps, RegisterOps, SetFlagOps, Conditions, LogicOps, ArithOps, ShiftOps, UnaryOps, MulDivOps
  <1>2. i.op \in OneByteOps => PatternControl(i) = "o"
    BY DEF PatternControl, OneByteOps, SetFlagOps, Conditions
  <1>3. i.op \in {"IN", "OUT", "OUT2"} => PatternControl(i) \in {"op", "ob"}
    BY DEF PatternControl, Conditions
  <1>4. i.op = "LEA" => PatternControl(i) = (IF i.form = "W" THEN "oR" ELSE "or")
    BY DEF PatternControl, Conditions
  <1>5. i.op \in Conditions => PatternControl(i) = "or"
    BY DEF PatternControl, Conditions
  <1>6. i.op \in {"J", "C"} => /\ i.form = "W" => PatternControl(i) = "o"
                               /\ i.form = "A" => PatternControl(i) = "ow"
                               /\ i.form = "R" => PatternControl(i) = "or"
    BY DEF PatternControl, Conditions
  <1>7. /\ SizeOf["o"] = 1 /\ SizeOf["op"] = 2 /\ SizeOf["ob"] = 2 /\ SizeOf["or"] = 2
        /\ SizeOf["oR"] = 3 /\ SizeOf["ow"] = 3
    BY DEF SizeOf
  <1> QED BY <1>1, <1>2, <1>3, <1>4, <1>5, <1>6, <1>7 DEF Size

LEMMA MemorySizes ==
  ASSUME NEW i, i.op \in {"LD", "SR"}, i.m \in 0 .. 7
  PROVE  Size(i) = AddressBytes(i.m)
  <1>1. Pattern(i) = PatternMemory(i)
    BY DEF Pattern, LogicOps, ArithOps, ShiftOps, UnaryOps, MulDivOps
  <1>2. SizeOf["op"] = 2 /\ SizeOf["opb"] = 3 /\ SizeOf["opw"] = 4
    BY DEF SizeOf
  <1> QED BY <1>1, <1>2 DEF Size, PatternMemory, AddressBytes

LEMMA RegisterSizes ==
  ASSUME NEW i, i.op \in RegisterOps
  PROVE  /\ i.form \in {"B", "W", "SW", "WS", "B1", "W1"} => Size(i) = 2
         /\ i.form = "BI" => Size(i) = 3
         /\ i.form = "WI" => Size(i) = 4
         /\ i.form = "SI" => Size(i) = 3
  <1>1. Pattern(i) = PatternRegister(i)
    BY DEF Pattern, RegisterOps, LogicOps, ArithOps, ShiftOps, UnaryOps, MulDivOps
  <1>2. SizeOf["op"] = 2 /\ SizeOf["opb"] = 3 /\ SizeOf["opw"] = 4 /\ SizeOf["ow"] = 3
    BY DEF SizeOf
  <1> QED BY <1>1, <1>2 DEF Size, PatternRegister

LongOps == Conditions \cup {"C", "INT", "OUT2", "DIV", "IDIV"}

LEMMA PlainLength ==
  ASSUME NEW i, i.op \notin LongOps, NEW n, Skip(n), Size(i) = n
  PROVE  LengthAgrees(i)
  <1>1. PC' = After(i)
    BY DEF Skip, After
  <1> QED BY <1>1 DEF LengthAgrees, LongOps

LEMMA WrapTwice ==
  ASSUME NEW a \in Int, NEW b \in Int
  PROVE  Wrap(Wrap(a) + b) = Wrap(a + b)
  BY DEF Wrap

LEMMA ControlLength ==
  ASSUME MachineOK, NEW i, WellFormed(i),
         Nop(i) \/ In(i) \/ Out(i) \/ Lea(i) \/ SetFlag(i) \/ PopInto(i) \/ PushFrom(i) \/ Control(i)
  PROVE  LengthAgrees(i)
  <1>1. CASE Nop(i)
    <2>1. i.op \notin LongOps /\ i.op \in OneByteOps
      BY <1>1 DEF Nop, LongOps, Conditions, OneByteOps
    <2> QED BY <1>1, <2>1, ControlSizes, PlainLength DEF Nop
  <1>2. CASE In(i)
    <2>1. i.op \notin LongOps /\ i.op \in {"IN", "OUT", "OUT2"}
      BY <1>2 DEF In, LongOps, Conditions
    <2> QED BY <1>2, <2>1, ControlSizes, PlainLength DEF In
  <1>3. CASE Out(i)
    <2>1. Size(i) = 2
      BY <1>3, ControlSizes DEF Out
    <2>2. CASE i.op = "OUT2" /\ i.form = "B"
      <3>1. PC' = Wrap(PC + 4) /\ PC + 2 \in Int /\ (PC + 2) + 2 = PC + 4
        BY <1>3, <2>2, WordIsInteger DEF Out, OutBytes, Skip, MachineOK
      <3>2. PC' = Wrap(After(i) + 2)
        BY <2>1, <3>1, WrapTwice DEF After
      <3>3. i.op \notin Conditions
        BY <2>2 DEF Conditions
      <3> QED BY <2>2, <3>2, <3>3 DEF LengthAgrees
    <2>3. CASE ~(i.op = "OUT2" /\ i.form = "B")
      <3>1. PC' = After(i)
        BY <1>3, <2>1, <2>3 DEF Out, OutBytes, Skip, After
      <3>2. i.op \notin Conditions
        BY <1>3 DEF Out, Conditions
      <3> QED BY <1>3, <2>3, <3>1, <3>2 DEF LengthAgrees, Out
    <2> QED BY <2>2, <2>3
  <1>4. CASE Lea(i)
    <2>1. i.op \notin LongOps /\ i.op = "LEA"
      BY <1>4 DEF Lea, LongOps, Conditions
    <2> QED BY <1>4, <2>1, ControlSizes, PlainLength DEF Lea
  <1>5. CASE SetFlag(i)
    <2>1. i.op \notin LongOps /\ i.op \in OneByteOps
      BY <1>5 DEF SetFlag, SetFlagOps, LongOps, Conditions, OneByteOps
    <2> QED BY <1>5, <2>1, ControlSizes, PlainLength DEF SetFlag
  <1>6. CASE PopInto(i)
    <2>1. i.op \notin LongOps /\ i.op \in OneByteOps
      BY <1>6 DEF PopInto, LongOps, Conditions, OneByteOps
    <2> QED BY <1>6, <2>1, ControlSizes, PlainLength DEF PopInto
  <1>7. CASE PushFrom(i)
    <2>1. i.op \notin LongOps /\ i.op \in OneByteOps
      BY <1>7 DEF PushFrom, LongOps, Conditions, OneByteOps
    <2> QED BY <1>7, <2>1, ControlSizes, PlainLength DEF PushFrom
  <1>8. CASE Control(i)
    <2>1. CASE i.op \in {"RESET", "HLT"}
      BY <2>1 DEF LengthAgrees, Conditions
    <2>2. CASE i.op \notin {"RESET", "HLT"}
      <3>1. i.op \notin LongOps /\ i.op \in OneByteOps
        BY <1>8, <2>2 DEF Control, LongOps, Conditions, OneByteOps
      <3> QED BY <1>8, <2>2, <3>1, ControlSizes, PlainLength DEF Control
    <2> QED BY <2>1, <2>2
  <1> QED BY <1>1, <1>2, <1>3, <1>4, <1>5, <1>6, <1>7, <1>8

LEMMA JumpLength ==
  ASSUME MachineOK, NEW i, WellFormed(i),
         IntN(i) \/ Jump(i) \/ Call(i) \/ Ret(i) \/ Iret(i) \/ JumpIf(i) \/ BadInstruction(i)
  PROVE  LengthAgrees(i)
  <1>1. CASE Jump(i) \/ Ret(i) \/ Iret(i) \/ BadInstruction(i)
    BY <1>1 DEF Jump, Ret, Iret, BadInstruction, LengthAgrees, Conditions
  <1>2. CASE IntN(i) /\ i.x = 1
    <2>1. i.op = "INT" /\ i.op \notin Conditions /\ Size(i) = 1 /\ PC' = Wrap(PC + 1)
      BY <1>2, ControlSizes DEF IntN, Skip, OneByteOps, Conditions
    <2> QED BY <1>2, <2>1 DEF LengthAgrees, After
  <1>3. CASE IntN(i) /\ i.x # 1
    <2>1. i.op = "INT" /\ Size(i) = 1
      BY <1>3, ControlSizes DEF IntN, OneByteOps
    <2>2. ASSUME Places(SP), Places(SP') PROVE PushedAt(1) = Wrap(PC + 1)
      BY <1>3, <2>1, <2>2, CallFrames DEF FrameOf
    <2> QED BY <1>3, <2>1, <2>2 DEF LengthAgrees, After, Conditions
  <1>4. CASE Call(i)
    <2>1. i.op = "C" /\ i.form \in {"W", "A", "R"}
      <3>1. i.op = "C"
        BY <1>4 DEF Call
      <3>2. Forms(i.op) = {"W", "A", "R"}
        BY <3>1 DEF Forms, LogicOps, ArithOps, MulDivOps, ShiftOps, UnaryOps, Conditions
      <3> QED BY <3>1, <3>2 DEF WellFormed
    <2>2. ReturnAddress(i) = After(i)
      BY <2>1, ControlSizes DEF ReturnAddress, After
    <2>3. ASSUME Places(SP), Places(SP') PROVE PushedAt(0) = ReturnAddress(i)
      BY <1>4, <2>1, <2>3, CallFrames DEF FrameOf
    <2> QED BY <2>1, <2>2, <2>3 DEF LengthAgrees, Conditions
  <1>5. CASE JumpIf(i)
    <2>1. i.op \in Conditions /\ Size(i) = 2
      BY <1>5, ControlSizes DEF JumpIf
    <2>2. i.imm \in Byte
      <3>1. i.op \notin {"LEA", "LD", "SR"}
        BY <2>1 DEF Conditions
      <3>2. Forms(i.op) = {"R"}
        BY <2>1 DEF Forms, LogicOps, ArithOps, MulDivOps, ShiftOps, UnaryOps, Conditions
      <3> QED BY <3>1, <3>2, Operands DEF LongImmediate, WellFormed
    <2>3. Signed(8, i.imm) \in Int /\ PC + 2 \in Int
      BY <2>2, SignedIsInteger, WordIsInteger DEF MachineOK, Numbers
    <2>4. PC' = Wrap((PC + 2) + IF Taken(i.op, FL) THEN Signed(8, i.imm) ELSE 0)
      BY <1>5 DEF JumpIf
    <2>5. PC' = Wrap(PC + 2) \/ PC' = Wrap((PC + 2) + Signed(8, i.imm))
      BY <2>3, <2>4
    <2>6. PC' \in {After(i), Wrap(After(i) + Signed(8, i.imm))}
      BY <2>1, <2>3, <2>5, WrapTwice DEF After
    <2>7. i.op \notin {"J", "RET", "POPPC", "IRET", "HLT", "RESET", "BAD", "C", "INT", "OUT2", "DIV", "IDIV"}
      BY <2>1 DEF Conditions
    <2> QED BY <2>1, <2>6, <2>7 DEF LengthAgrees
  <1> QED BY <1>1, <1>2, <1>3, <1>4, <1>5

LEMMA MemoryLength ==
  ASSUME MachineOK, NEW i, WellFormed(i), LoadB(i) \/ LoadW(i) \/ StoreB(i) \/ StoreW(i)
  PROVE  LengthAgrees(i)
  <1>1. i.op \in {"LD", "SR"} /\ Skip(AddressBytes(i.m))
    BY DEF LoadB, LoadW, StoreB, StoreW
  <1>2. i.op \notin LongOps /\ i.m \in 0 .. 7
    BY <1>1, Operands DEF LongOps, Conditions
  <1> QED BY <1>1, <1>2, MemorySizes, PlainLength

(* The forms with registers, of which only a division may be interrupted.  *)
LEMMA RegisterLength ==
  ASSUME MachineOK, NEW i, WellFormed(i),
         \/ LogicB(i) \/ LogicW(i) \/ LogicBI(i) \/ LogicWI(i) \/ ArithB(i) \/ ArithW(i) \/ ArithBI(i) \/ ArithWI(i)
         \/ ShiftB(i) \/ ShiftW(i) \/ UnaryB(i) \/ UnaryW(i) \/ Move(i) \/ Swap(i) \/ MoveSP(i) \/ MoveImmediate(i)
  PROVE  LengthAgrees(i)
  <1>1. ASSUME NEW n, Skip(n), Size(i) = n, i.op \in RegisterOps \ {"DIV", "IDIV"}
        PROVE  LengthAgrees(i)
    <2>1. i.op \notin LongOps
      BY <1>1 DEF LongOps, Conditions, RegisterOps, LogicOps, ArithOps, ShiftOps, UnaryOps, MulDivOps
    <2> QED BY <1>1, <2>1, PlainLength
  <1>2. CASE LogicB(i) \/ LogicW(i) \/ LogicBI(i) \/ LogicWI(i)
    <2>1. i.op \in RegisterOps \ {"DIV", "IDIV"}
      BY <1>2 DEF LogicB, LogicW, LogicBI, LogicWI, LogicStep, LogicOps, RegisterOps
    <2>2. Skip(Size(i))
      BY <1>2, <2>1, RegisterSizes DEF LogicB, LogicW, LogicBI, LogicWI, LogicStep
    <2> QED BY <1>1, <2>1, <2>2
  <1>3. CASE ArithB(i) \/ ArithW(i) \/ ArithBI(i) \/ ArithWI(i)
    <2>1. i.op \in RegisterOps \ {"DIV", "IDIV"}
      BY <1>3 DEF ArithB, ArithW, ArithBI, ArithWI, ArithStep, ArithOps, RegisterOps
    <2>2. Skip(Size(i))
      BY <1>3, <2>1, RegisterSizes DEF ArithB, ArithW, ArithBI, ArithWI, ArithStep
    <2> QED BY <1>1, <2>1, <2>2
  <1>4. CASE ShiftB(i) \/ ShiftW(i) \/ UnaryB(i) \/ UnaryW(i)
    <2>1. i.op \in RegisterOps \ {"DIV", "IDIV"}
      BY <1>4 DEF ShiftB, ShiftW, UnaryB, UnaryW, ShiftOps, UnaryOps, RegisterOps
    <2>2. Skip(2) /\ i.form \in {"B", "W", "B1", "W1"}
      BY <1>4 DEF ShiftB, ShiftW, UnaryB, UnaryW
    <2> QED BY <1>1, <2>1, <2>2, RegisterSizes
  <1>5. CASE Move(i) \/ Swap(i) \/ MoveSP(i)
    <2>1. i.op \in {"MOV", "SWP"} /\ Skip(2)
      BY <1>5 DEF Move, Swap, MoveSP
    <2>2. i.form \in {"B", "W", "SW", "WS"}
      BY <1>5, FormsBW DEF Move, Swap, MoveSP
    <2>3. i.op \in RegisterOps \ {"DIV", "IDIV"}
      BY <2>1 DEF RegisterOps
    <2> QED BY <1>1, <2>1, <2>2, <2>3, RegisterSizes
  <1>6. CASE MoveImmediate(i)
    <2>1. i.op = "MOV" /\ ((i.form \in {"BI", "SI"} /\ Skip(3)) \/ (i.form = "WI" /\ Skip(4)))
      BY <1>6 DEF MoveImmediate
    <2>2. i.op \in RegisterOps \ {"DIV", "IDIV"}
      BY <2>1 DEF RegisterOps
    <2> QED BY <1>1, <2>1, <2>2, RegisterSizes
  <1> QED BY <1>2, <1>3, <1>4, <1>5, <1>6

LEMMA MulDivLength ==
  ASSUME MachineOK, NEW i, WellFormed(i), MulDivB(i) \/ MulDivW(i) \/ MulDivBI(i) \/ MulDivWI(i)
  PROVE  LengthAgrees(i)
  <1>1. i.op \in MulDivOps /\ i.op \in RegisterOps
    BY DEF MulDivB, MulDivW, MulDivBI, MulDivWI, MulDivStep, MultiplyStep, DivideStep, MulDivOps, RegisterOps
  <1>2. PICK j \in {i.y, i.z} : MulDivStep(i, j, Size(i))
    <2>1. CASE MulDivB(i)
      BY <1>1, <2>1, RegisterSizes DEF MulDivB
    <2>2. CASE MulDivW(i)
      BY <1>1, <2>2, RegisterSizes DEF MulDivW
    <2>3. CASE MulDivBI(i)
      BY <1>1, <2>3, RegisterSizes DEF MulDivBI
    <2>4. CASE MulDivWI(i)
      BY <1>1, <2>4, RegisterSizes DEF MulDivWI
    <2> QED BY <2>1, <2>2, <2>3, <2>4
  <1>3. i.op \notin {"J", "RET", "POPPC", "IRET", "HLT", "RESET", "BAD", "C", "INT", "OUT2"} /\ i.op \notin Conditions
    BY <1>1 DEF MulDivOps, Conditions
  <1>4. CASE MultiplyStep(i, j, Size(i))
    <2>1. PC' = After(i) /\ i.op \notin {"DIV", "IDIV"}
      BY <1>4 DEF MultiplyStep, Skip, After
    <2> QED BY <1>3, <2>1 DEF LengthAgrees
  <1>5. CASE DivideStep(i, j, Size(i)) /\ Second(i) # 0
    <2>1. PC' = After(i) /\ SP' = SP
      BY <1>5 DEF DivideStep, Skip, After
    <2> QED BY <1>3, <2>1 DEF LengthAgrees
  <1>6. CASE DivideStep(i, j, Size(i)) /\ Second(i) = 0
    <2>1. Interrupt(DIVZERO, After(i)) /\ i.op \in {"DIV", "IDIV"}
      BY <1>6 DEF DivideStep, After
    <2>2. After(i) \in Word
      <3>1. i.form \in {"B", "W", "BI", "WI"}
        BY <1>6 DEF DivideStep, MulDivStep, WellFormed, Forms, LogicOps, ArithOps, MulDivOps, ShiftOps, UnaryOps, Conditions
      <3>2. Size(i) \in Int
        BY <1>1, <3>1, RegisterSizes
      <3> QED BY <3>2, WordIsInteger, WrapIsWord DEF MachineOK, After
    <2>3. CASE SP' # SP
      <3>1. FrameInMemory => PushedAt(1) = After(i)
        BY <2>1, <2>2, <2>3, InterruptFrames
      <3> QED BY <1>3, <2>1, <2>3, <3>1 DEF LengthAgrees
    <2>4. CASE SP' = SP
      <3>1. ~(DIVZERO = BADINSTR \/ FL.I = 1)
        <4> SUFFICES ASSUME DIVZERO = BADINSTR \/ FL.I = 1 PROVE FALSE
          OBVIOUS
        <4>1. SP' = Wrap(SP - 4)
          BY <2>1 DEF Interrupt
        <4>2. SP \in Int /\ 0 <= SP /\ SP <= 65535
          BY WordIsInteger DEF MachineOK
        <4> QED BY <2>4, <4>1, <4>2 DEF Wrap
      <3>2. PC' = After(i)
        BY <2>1, <3>1 DEF Interrupt
      <3> QED BY <1>3, <2>4, <3>2 DEF LengthAgrees
    <2> QED BY <2>3, <2>4
  <1> QED BY <1>2, <1>4, <1>5, <1>6 DEF MulDivStep

LEMMA ExecuteLength ==
  ASSUME MachineOK, NEW i, WellFormed(i), Execute(i)
  PROVE  LengthAgrees(i)
  <1>1. CASE Nop(i) \/ In(i) \/ Out(i) \/ Lea(i) \/ SetFlag(i) \/ PopInto(i) \/ PushFrom(i) \/ Control(i)
    BY <1>1, ControlLength
  <1>2. CASE IntN(i) \/ Jump(i) \/ Call(i) \/ Ret(i) \/ Iret(i) \/ JumpIf(i) \/ BadInstruction(i)
    BY <1>2, JumpLength
  <1>3. CASE LoadB(i) \/ LoadW(i) \/ StoreB(i) \/ StoreW(i)
    BY <1>3, MemoryLength
  <1>4. CASE \/ LogicB(i) \/ LogicW(i) \/ LogicBI(i) \/ LogicWI(i)
             \/ ArithB(i) \/ ArithW(i) \/ ArithBI(i) \/ ArithWI(i)
             \/ ShiftB(i) \/ ShiftW(i) \/ UnaryB(i) \/ UnaryW(i)
             \/ Move(i) \/ Swap(i) \/ MoveSP(i) \/ MoveImmediate(i)
    BY <1>4, RegisterLength
  <1>5. CASE MulDivB(i) \/ MulDivW(i) \/ MulDivBI(i) \/ MulDivWI(i)
    BY <1>5, MulDivLength
  <1> QED BY <1>1, <1>2, <1>3, <1>4, <1>5 DEF Execute

(* Every instruction but the jumps and OUT2 of a register takes the bytes  *)
(* the table of the assembler gives it, for all operands and flags, in all *)
(* states of the stack (a return where a stack may be).                    *)
THEOREM SizeIsAlwaysTabled == Spec => SizeIsTabled
  <1>1. ASSUME TypeOK, [Next]_vars
        PROVE  executed' = executed + 1 => LengthAgrees(ope')
    <2> SUFFICES ASSUME executed' = executed + 1 PROVE LengthAgrees(ope')
      OBVIOUS
    <2>1. WellFormed(ope') /\ Execute(ope') /\ MachineOK
      BY <1>1, StepExecutes, TypeOKParts
    <2> QED BY <2>1, ExecuteLength
  <1> QED BY <1>1, TypeCorrect, PTL DEF Spec, SizeIsTabled

-------------------------------------------------------------------------------
(* Results are what the numbers give.  A register of w bits, as ResultOf   *)
(* reads it.                                                               *)
Held(w, ws, j) == IF w = 16 THEN ws[j] ELSE IF j % 2 = 0 THEN Low(ws[j \div 2]) ELSE High(ws[j \div 2])

LEMMA PutByteIsHeld ==
  ASSUME NEW ws \in [0 .. 3 -> Word], NEW j \in 0 .. 7, NEW v \in Byte
  PROVE  /\ Held(8, PutB(ws, j, v), j) = v
         /\ \A k \in 0 .. 7 : k # j => Held(8, PutB(ws, j, v), k) = Held(8, ws, k)
  <1> DEFINE m == j \div 2
             l == Low(ws[m])
             h == High(ws[m])
             new == PutB(ws, j, v)
  <1>1. m \in 0 .. 3
    OBVIOUS
  <1>2. l \in Byte /\ h \in Byte
    BY <1>1, BytesOfWord
  <1>3. /\ new[m] = IF j % 2 = 0 THEN 256 * h + v ELSE 256 * v + l
        /\ \A n \in 0 .. 3 : n # m => new[n] = ws[n]
    BY <1>1 DEF PutB
  <1> HIDE DEF l, h, new
  <1>4. /\ Low(256 * h + v) = v /\ High(256 * h + v) = h
        /\ Low(256 * v + l) = l /\ High(256 * v + l) = v
    <2>1. \A a, b \in Byte : a + 256 * b = 256 * b + a
      BY DEF Byte
    <2> QED BY <1>2, <2>1, WordOfBytes
  <1>5. Held(8, new, j) = v
    <2>1. CASE j % 2 = 0
      BY <1>3, <1>4, <2>1 DEF Held
    <2>2. CASE j % 2 # 0
      BY <1>3, <1>4, <2>2 DEF Held
    <2> QED BY <2>1, <2>2
  <1>6. ASSUME NEW k \in 0 .. 7, k # j PROVE Held(8, new, k) = Held(8, ws, k)
    <2>1. CASE k \div 2 = m
      <3>1. k % 2 = 0 <=> j % 2 # 0
        BY <1>6, <2>1
      <3>2. CASE k % 2 = 0
        <4>1. new[k \div 2] = 256 * v + l
          BY <1>3, <2>1, <3>1, <3>2
        <4> HIDE DEF m
        <4> QED BY <1>4, <2>1, <3>2, <4>1 DEF Held, l
      <3>3. CASE k % 2 # 0
        <4>1. new[k \div 2] = 256 * h + v
          BY <1>3, <2>1, <3>1, <3>3
        <4> HIDE DEF m
        <4> QED BY <1>4, <2>1, <3>3, <4>1 DEF Held, h
      <3> QED BY <3>2, <3>3
    <2>2. CASE k \div 2 # m
      <3>1. k \div 2 \in 0 .. 3
        OBVIOUS
      <3> HIDE DEF m
      <3> QED BY <1>3, <2>2, <3>1 DEF Held
    <2> QED BY <2>1, <2>2
  <1> QED BY <1>5, <1>6 DEF new

LEMMA PutIsHeld ==
  ASSUME NEW ws \in [0 .. 3 -> Word], NEW i, Bits(i) \in {8, 16}, NEW j, Register(i, j), NEW v \in Numbers(Bits(i))
  PROVE  /\ Held(Bits(i), Put(ws, i, j, v), j) = v
         /\ \A k : Register(i, k) /\ k # j => Held(Bits(i), Put(ws, i, j, v), k) = Held(Bits(i), ws, k)
  <1>1. CASE Bits(i) = 8
    <2>1. j \in 0 .. 7 /\ v \in Byte /\ Put(ws, i, j, v) = PutB(ws, j, v)
      BY <1>1 DEF Register, Put, Numbers
    <2>2. \A k : Register(i, k) => k \in 0 .. 7
      BY <1>1 DEF Register
    <2> QED BY <1>1, <2>1, <2>2, PutByteIsHeld
  <1>2. CASE Bits(i) = 16
    BY <1>2 DEF Register, Put, Held
  <1> QED BY <1>1, <1>2

LEMMA ResultIsHeld ==
  ASSUME NEW i, NEW j
  PROVE  ResultOf(i, j) = Held(Bits(i), W', j)
  BY DEF ResultOf, Held

LEMMA ComputeIsHeld ==
  ASSUME MachineOK, NEW i, WellFormed(i), i.op \in Operations, i.op \notin {"TST", "CMP"},
         NEW result, ResultOK(Bits(i), result), Compute(i, result)
  PROVE  ResultOf(i, i.x) = result.r /\ FL' = result.f
  <1>1. Register(i, i.x) /\ Bits(i) \in {8, 16}
    BY OperandRegisters, WidthIsOfBytes
  <1>2. W' = Put(W, i, i.x, result.r) /\ FL' = result.f
    BY DEF Compute
  <1>3. result.r \in Numbers(Bits(i)) /\ W \in [0 .. 3 -> Word]
    BY DEF ResultOK, MachineOK
  <1> QED BY <1>1, <1>2, <1>3, PutIsHeld, ResultIsHeld

LEMMA TwoAreHeld ==
  ASSUME MachineOK, NEW i, WellFormed(i), i.op \in Operations, NEW j, Register(i, j), j # i.x,
         NEW high \in Numbers(Bits(i)), NEW low \in Numbers(Bits(i)), W' = TwoResults(i, j, high, low)
  PROVE  ResultOf(i, i.x) = low /\ ResultOf(i, j) = high
  <1> DEFINE one == Put(W, i, j, high)
  <1>1. Register(i, i.x) /\ Bits(i) \in {8, 16}
    BY OperandRegisters, WidthIsOfBytes
  <1>2. one \in [0 .. 3 -> Word] /\ Held(Bits(i), one, j) = high
    BY <1>1, PutType, PutIsHeld DEF MachineOK
  <1> HIDE DEF one
  <1>3. W' = Put(one, i, i.x, low)
    BY DEF TwoResults, one
  <1> QED BY <1>1, <1>2, <1>3, PutIsHeld, ResultIsHeld

LEMMA WidthPower ==
  ASSUME NEW w \in {8, 16}
  PROVE  2^w \in Int /\ 1 <= 2^w
  <1>1. w \in 0 .. 16
    OBVIOUS
  <1> QED BY <1>1, PowerOfTwo

LEMMA NotIsNumber ==
  ASSUME NEW w \in {8, 16}, NEW x \in Numbers(w)
  PROVE  Not(w, x) \in Numbers(w)
  <1>1. CASE w = 8
    BY <1>1 DEF Numbers, Byte, Not
  <1>2. CASE w = 16
    BY <1>2 DEF Numbers, Word, Not
  <1> QED BY <1>1, <1>2

(* Sums and differences of numbers of w bits, with the carry c and the     *)
(* carry f before.                                                         *)
SumAgrees(op, w, x, y, r, c, f) ==
  CASE op = "ADD" -> r + 2^w * c = x + y
    [] op = "ADC" -> r + 2^w * c = x + y + f
    [] op = "SUB" -> r = (x - y) % 2^w /\ (y # 0 => (c = 1 <=> x >= y))
    [] op = "SBB" -> r - 2^w * (1 - c) = x - y - (1 - f)

LEMMA CarryOfSum ==
  ASSUME NEW w \in {8, 16}, NEW s \in Int, 0 <= s, s < 2 * 2^w
  PROVE  (s % 2^w) + 2^w * Bit(s, w) = s
  <1>1. CASE w = 8
    BY <1>1 DEF Bit
  <1>2. CASE w = 16
    BY <1>2 DEF Bit
  <1> QED BY <1>1, <1>2

LEMMA ArithIsExact ==
  ASSUME NEW w \in {8, 16}, NEW op \in {"ADD", "ADC", "SUB", "SBB"}, NEW x \in Numbers(w), NEW y \in Numbers(w),
         NEW f \in Flags, NEW inverted \in BOOLEAN
  PROVE  LET a == Arith(op, w, x, y, f, inverted)
         IN  SumAgrees(op, w, x, y, a.r, a.f.C, f.C)
  <1> DEFINE second == Addend(op, w, y)
             sum == x + second + IF op \in {"ADC", "SBB"} THEN f.C ELSE 0
             r == sum % 2^w
             v == Flag(Bit(x, w - 1) = (IF inverted /\ op \in {"SUB", "SBB", "CMP"}
                                        THEN 1 - Bit(second, w - 1) ELSE Bit(second, w - 1))
                       /\ Bit(r, w - 1) # Bit(x, w - 1))
             a == Arith(op, w, x, y, f, inverted)
  <1>1. x \in Int /\ 0 <= x /\ x < 2^w /\ y \in Int /\ 0 <= y /\ y < 2^w /\ 2^w \in Int
    BY NumbersAreIntegers, WidthPower
  <1>2. f.C \in Int /\ 0 <= f.C /\ f.C <= 1
    BY DEF Flags
  <1>3. second \in Numbers(w)
    <2>1. CASE op \in {"ADD", "ADC"}
      BY <2>1 DEF Addend
    <2>2. CASE op = "SUB"
      BY <1>1, <2>2, Modulo DEF Addend
    <2>3. CASE op = "SBB"
      <3>1. Not(w, y) \in Numbers(w)
        BY NotIsNumber
      <3> QED BY <2>3, <3>1 DEF Addend
    <2> QED BY <2>1, <2>2, <2>3
  <1>4. second \in Int /\ 0 <= second /\ second < 2^w
    BY <1>3, NumbersAreIntegers
  <1>5. a.r = r /\ a.f.C = Bit(sum, w)
    <2>1. sum \in Int
      BY <1>1, <1>2, <1>4
    <2>2. NZ(w, r, f) \in Flags
      <3>1. r \in Int
        BY <2>1, Modulo, NumbersAreIntegers
      <3> QED BY <3>1, NZKeepsFlags
    <2>3. a = [r |-> r, f |-> [NZ(w, r, f) EXCEPT !.C = Bit(sum, w), !.V = v]]
      BY DEF Arith
    <2> HIDE DEF r, sum, v, a
    <2> QED BY <2>2, <2>3 DEF Flags
  <1>6. sum \in Int /\ 0 <= sum /\ sum < 2 * 2^w
    <2>1. 1 <= 2^w
      BY WidthPower
    <2> DEFINE p == 2^w
    <2> HIDE DEF second, p
    <2>2. x < p /\ second < p /\ p \in Int /\ p >= 1 /\ x <= p - 1 /\ second <= p - 1
      BY <1>1, <1>4, <2>1 DEF p
    <2>3. sum \in Int /\ 0 <= sum /\ sum < 2 * p
      BY <1>1, <1>2, <1>4, <2>2
    <2> QED BY <2>3 DEF p
  <1> HIDE DEF a
  <1>7. r + 2^w * Bit(sum, w) = sum
    <2> HIDE DEF sum
    <2> QED BY <1>6, CarryOfSum
  <1>8. a.r + 2^w * a.f.C = sum
    BY <1>5, <1>7
  <1>9. CASE op = "ADD"
    <2>1. sum = x + y
      BY <1>1, <1>4, <1>9 DEF Addend
    <2>2. SumAgrees("ADD", w, x, y, a.r, a.f.C, f.C) <=> a.r + 2^w * a.f.C = x + y
      BY DEF SumAgrees
    <2> HIDE DEF sum
    <2> QED BY <1>8, <1>9, <2>1, <2>2 DEF a
  <1>10. CASE op = "ADC"
    <2>1. sum = x + y + f.C
      BY <1>1, <1>4, <1>10 DEF Addend
    <2>2. SumAgrees("ADC", w, x, y, a.r, a.f.C, f.C) <=> a.r + 2^w * a.f.C = x + y + f.C
      BY DEF SumAgrees
    <2> HIDE DEF sum
    <2> QED BY <1>8, <1>10, <2>1, <2>2 DEF a
  <1>11. CASE op = "SUB"
    <2>1. sum = x + Neg(w, y)
      <3>1. sum = x + second
        BY <1>1, <1>4, <1>11
      <3>2. second = Neg(w, y)
        BY <1>11 DEF Addend
      <3> HIDE DEF sum, second
      <3> QED BY <3>1, <3>2
    <2>2. r = (IF x >= y THEN x - y ELSE x - y + 2^w) /\ (y # 0 => Bit(sum, w) = (IF x >= y THEN 1 ELSE 0))
      <3> HIDE DEF sum
      <3> QED BY <2>1, Difference
    <2> HIDE DEF r, sum
    <2>3. r = (x - y) % 2^w
      <3>1. CASE w = 8
        BY <1>1, <2>2, <3>1
      <3>2. CASE w = 16
        BY <1>1, <2>2, <3>2
      <3> QED BY <3>1, <3>2
    <2>4. SumAgrees("SUB", w, x, y, a.r, a.f.C, f.C) <=> a.r = (x - y) % 2^w /\ (y # 0 => (a.f.C = 1 <=> x >= y))
      BY DEF SumAgrees
    <2>5. y # 0 => (a.f.C = 1 <=> x >= y)
      BY <1>5, <2>2
    <2>6. SumAgrees("SUB", w, x, y, a.r, a.f.C, f.C)
      BY <1>5, <2>3, <2>4, <2>5
    <2> QED BY <1>11, <2>6 DEF a
  <1>12. CASE op = "SBB"
    <2>1. sum = x + (2^w - 1 - y) + f.C
      BY <1>12 DEF Addend, Not
    <2> HIDE DEF r, sum
    <2> DEFINE c == a.f.C
               p == 2^w
               n == a.r
    <2>2. c \in Int /\ n \in Int /\ p \in Int
      BY <1>1, <1>5, <1>6, SignIsBit, Modulo, NumbersAreIntegers DEF r
    <2>3. SumAgrees("SBB", w, x, y, a.r, a.f.C, f.C) <=> n - p * (1 - c) = x - y - (1 - f.C)
      BY DEF SumAgrees
    <2>4. n + p * c = x + (p - 1 - y) + f.C
      BY <1>8, <2>1
    <2> HIDE DEF c, p, n
    <2>5. p * (1 - c) = p - p * c
      BY <2>2
    <2>6. p * c \in Int
      BY <2>2
    <2>7. n - p * (1 - c) = x - y - (1 - f.C)
      BY <1>1, <1>2, <2>2, <2>4, <2>5, <2>6
    <2> QED BY <1>12, <2>3, <2>7 DEF a
  <1> QED BY <1>9, <1>10, <1>11, <1>12 DEF a

(* A field of [NZ(w, r, f) EXCEPT ...].                                    *)
LEMMA CarryOfResult ==
  ASSUME NEW w \in {8, 16}, NEW r \in Numbers(w), NEW f \in Flags, NEW c
  PROVE  [NZ(w, r, f) EXCEPT !.C = c].C = c
  <1>1. NZ(w, r, f) \in Flags
    BY NumbersAreIntegers, NZKeepsFlags
  <1> DEFINE g == NZ(w, r, f)
  <1> HIDE DEF g
  <1>2. [g EXCEPT !.C = c].C = c
    BY <1>1 DEF Flags, g
  <1> QED BY <1>2 DEF g

LEMMA CarryWithOverflow ==
  ASSUME NEW w \in {8, 16}, NEW r \in Numbers(w), NEW f \in Flags, NEW c, NEW v
  PROVE  [NZ(w, r, f) EXCEPT !.C = c, !.V = v].C = c
  <1>1. NZ(w, r, f) \in Flags
    BY NumbersAreIntegers, NZKeepsFlags
  <1> DEFINE g == NZ(w, r, f)
  <1> HIDE DEF g
  <1>2. [g EXCEPT !.C = c, !.V = v].C = c
    BY <1>1 DEF Flags, g
  <1> QED BY <1>2 DEF g

LEMMA UnaryIsExact ==
  ASSUME NEW w \in {8, 16}, NEW x \in Numbers(w), NEW f \in Flags, NEW s1
  PROVE  /\ Increment(w, x, f).r + 2^w * Increment(w, x, f).f.C = x + 1
         /\ Decrement(w, x, s1, f).r - 2^w * Decrement(w, x, s1, f).f.C = x - 1
         /\ (Negate(w, x, f).r + x) % 2^w = 0
  <1>1. x \in Int /\ 0 <= x /\ x < 2^w
    BY NumbersAreIntegers
  <1>2. Increment(w, x, f).r + 2^w * Increment(w, x, f).f.C = x + 1
    <2> DEFINE r == (x + 1) % 2^w
               c == Flag(x = 2^w - 1)
               v == Flag(Bit(r, w - 1) = 1 /\ Bit(x, w - 1) = 0)
    <2>1. r \in Numbers(w)
      <3>1. x + 1 \in Int
        BY <1>1
      <3> QED BY <3>1, Modulo
    <2>2. Increment(w, x, f) = [r |-> r, f |-> [NZ(w, r, f) EXCEPT !.C = c, !.V = v]]
      BY DEF Increment
    <2> HIDE DEF r, c, v
    <2> DEFINE g == [NZ(w, r, f) EXCEPT !.C = c, !.V = v]
    <2>3. g.C = c
      BY <2>1, CarryWithOverflow
    <2> HIDE DEF g
    <2>4. Increment(w, x, f) = [r |-> r, f |-> g]
      BY <2>2 DEF g
    <2>5. r + 2^w * c = x + 1
      <3>1. CASE w = 8
        BY <1>1, <3>1 DEF r, c, Flag
      <3>2. CASE w = 16
        BY <1>1, <3>2 DEF r, c, Flag
      <3> QED BY <3>1, <3>2
    <2> QED BY <2>3, <2>4, <2>5
  <1>3. Decrement(w, x, s1, f).r - 2^w * Decrement(w, x, s1, f).f.C = x - 1
    <2> DEFINE r == (x - 1) % 2^w
               c == Flag(x = 0)
               v == Flag(Bit(r, w - 1) = 0 /\ s1 = 0)
    <2>1. r \in Numbers(w)
      <3>1. x - 1 \in Int
        BY <1>1
      <3> QED BY <3>1, Modulo
    <2>2. Decrement(w, x, s1, f) = [r |-> r, f |-> [NZ(w, r, f) EXCEPT !.C = c, !.V = v]]
      BY DEF Decrement
    <2> HIDE DEF r, c, v
    <2> DEFINE g == [NZ(w, r, f) EXCEPT !.C = c, !.V = v]
    <2>3. g.C = c
      BY <2>1, CarryWithOverflow
    <2> HIDE DEF g
    <2>4. Decrement(w, x, s1, f) = [r |-> r, f |-> g]
      BY <2>2 DEF g
    <2>5. r - 2^w * c = x - 1
      <3>1. CASE w = 8
        BY <1>1, <3>1 DEF r, c, Flag
      <3>2. CASE w = 16
        BY <1>1, <3>2 DEF r, c, Flag
      <3> QED BY <3>1, <3>2
    <2> QED BY <2>3, <2>4, <2>5
  <1>4. (Negate(w, x, f).r + x) % 2^w = 0
    <2>1. Negate(w, x, f).r = (2^w - x) % 2^w
      BY DEF Negate, Neg
    <2>2. (((2^w - x) % 2^w) + x) % 2^w = 0
      <3>1. CASE w = 8
        BY <1>1, <3>1
      <3>2. CASE w = 16
        BY <1>1, <3>2
      <3> QED BY <3>1, <3>2
    <2> QED BY <2>1, <2>2
  <1> QED BY <1>2, <1>3, <1>4

(* Shifts by less than w bits.                                             *)
LEMMA ShiftLeftIsExact ==
  ASSUME NEW w \in {8, 16}, NEW x \in Numbers(w), NEW k \in Nat, k < w, NEW f \in Flags
  PROVE  /\ Shl(w, x, k, f).r = (x * 2^k) % 2^w
         /\ k > 0 => Shl(w, x, k, f).f.C = (x \div 2^(w - k)) % 2
  <1> DEFINE r == (x * 2^k) % 2^w
             c == IF k \in 1 .. w THEN Bit(x, w - k) ELSE 0
  <1>1. x \in Int /\ k \in 0 .. 16
    BY NumbersAreIntegers
  <1>2. r \in Numbers(w)
    <2>1. x * 2^k \in Int
      BY <1>1, PowerOfTwo
    <2> QED BY <2>1, Modulo
  <1>3. Shl(w, x, k, f) = [r |-> r, f |-> [NZ(w, r, f) EXCEPT !.C = c]]
    BY DEF Shl
  <1>4. k > 0 => c = (x \div 2^(w - k)) % 2
    BY DEF Bit
  <1> HIDE DEF r, c
  <1> DEFINE g == [NZ(w, r, f) EXCEPT !.C = c]
  <1>5. g.C = c
    BY <1>2, CarryOfResult
  <1> HIDE DEF g
  <1>6. Shl(w, x, k, f) = [r |-> r, f |-> g]
    BY <1>3 DEF g
  <1> QED BY <1>4, <1>5, <1>6 DEF r

LEMMA SignedNumber ==
  ASSUME NEW w \in {8, 16}, NEW a \in Int, -(2^(w - 1)) <= a, a < 2^(w - 1)
  PROVE  Signed(w, a % 2^w) = a
  <1>1. CASE w = 8
    BY <1>1 DEF Signed
  <1>2. CASE w = 16
    BY <1>2 DEF Signed
  <1> QED BY <1>1, <1>2

LEMMA HalvesOfByte ==
  ASSUME NEW k \in 0 .. 7, NEW a \in Int, -128 <= a, a < 128
  PROVE  a \div 2^k \in Int /\ -128 <= a \div 2^k /\ a \div 2^k < 128
  <1>0. CASE k = 0
    BY <1>0
  <1>1. CASE k = 1
    BY <1>1
  <1>2. CASE k = 2
    BY <1>2
  <1>3. CASE k = 3
    BY <1>3
  <1>4. CASE k = 4
    BY <1>4
  <1>5. CASE k = 5
    BY <1>5
  <1>6. CASE k = 6
    BY <1>6
  <1>7. CASE k = 7
    BY <1>7
  <1> QED BY <1>0, <1>1, <1>2, <1>3, <1>4, <1>5, <1>6, <1>7

LEMMA ShiftRightIsExact ==
  ASSUME NEW w \in {8, 16}, NEW x \in Numbers(w), NEW k \in Nat, k < w, NEW f \in Flags, NEW stale
  PROVE  Shr(w, x, k, f, stale).r = x \div 2^k
  BY DEF Shr

HalvesSigned(w, x, k, r) == w = 8 \/ x < 2^(w - 1) => Signed(w, r) = Signed(w, x) \div 2^k

LEMMA SignedShiftIsExact ==
  ASSUME NEW w \in {8, 16}, NEW x \in Numbers(w), NEW k \in Nat, k < w, NEW f \in Flags, NEW stale
  PROVE  HalvesSigned(w, x, k, Sar(w, x, k, f, stale).r)
  <1>1. x \in Int /\ 0 <= x /\ x < 2^w /\ k \in 0 .. 16
    <2>1. k \in 0 .. 16
      OBVIOUS
    <2> QED BY <2>1, NumbersAreIntegers
  <1>2. Shr(w, x, k, f, stale).r = x \div 2^k
    BY ShiftRightIsExact
  <1>3. ASSUME w = 8 PROVE Signed(w, Sar(w, x, k, f, stale).r) = Signed(w, x) \div 2^k
    <2> DEFINE a == Signed(8, x)
    <2>1. Sar(8, x, k, f, stale).r = (a \div 2^k) % 2^8
      BY <1>3 DEF Sar
    <2>2. a \in Int /\ -128 <= a /\ a < 128
      BY <1>1, <1>3 DEF Signed
    <2> HIDE DEF a
    <2> DEFINE b == a \div 2^k
    <2>3. b \in Int /\ -128 <= b /\ b < 128
      <3>1. k \in 0 .. 7
        BY <1>3
      <3> QED BY <2>2, <3>1, HalvesOfByte
    <2> HIDE DEF b
    <2>4. Signed(8, b % 2^8) = b
      BY <2>3, SignedNumber
    <2> QED BY <1>3, <2>1, <2>4 DEF a, b
  <1>4. ASSUME w = 16, x < 2^(w - 1) PROVE Signed(w, Sar(w, x, k, f, stale).r) = Signed(w, x) \div 2^k
    <2>1. Sar(16, x, k, f, stale).r = x \div 2^k
      BY <1>2, <1>4 DEF Sar
    <2>2. 2^k \in Int /\ 1 <= 2^k
      BY <1>1, PowerOfTwo
    <2>3. x \div 2^k \in Int /\ x \div 2^k <= x
      BY <1>1, <2>2, DivisionIsLess
    <2>4. x < 32768
      BY <1>4
    <2> DEFINE q == x \div 2^k
    <2> HIDE DEF q
    <2>5. q < 2^15
      BY <1>1, <2>3, <2>4 DEF q
    <2>6. Signed(16, q) = q
      BY <2>5 DEF Signed
    <2>7. Signed(16, x) = x
      BY <2>4 DEF Signed
    <2> QED BY <1>4, <2>1, <2>6, <2>7 DEF q
  <1> QED BY <1>3, <1>4 DEF HalvesSigned

(* Products and quotients.                                                 *)
LEMMA SignedProductIsExact ==
  ASSUME NEW x \in Byte, NEW y \in Byte
  PROVE  Signed(16, SignedProduct8(x, y).high * 256 + SignedProduct8(x, y).low) = Signed(8, x) * Signed(8, y)
  <1> DEFINE a == Signed(8, x)
             b == Signed(8, y)
             q == a * b
             p == q % 65536
  <1>1. a \in Int /\ -128 <= a /\ a <= 127 /\ b \in Int /\ -128 <= b /\ b <= 127
    BY DEF Byte, Signed
  <1> HIDE DEF a, b
  <1>2. q \in Int /\ -32768 <= q /\ q < 32768
    BY <1>1
  <1> HIDE DEF q
  <1>3. Signed(16, p) = q
    <2>1. -(2^(16 - 1)) <= q /\ q < 2^(16 - 1)
      BY <1>2
    <2>2. Signed(16, q % 2^16) = q
      BY <1>2, <2>1, SignedNumber
    <2> QED BY <2>2
  <1>4. p \in Int
    BY <1>2
  <1>5. SignedProduct8(x, y) = [high |-> p \div 256, low |-> p % 256]
    BY DEF SignedProduct8, p, q, a, b
  <1> HIDE DEF p
  <1>6. (p \div 256) * 256 + (p % 256) = p
    BY <1>4
  <1> QED BY <1>3, <1>5, <1>6 DEF q, a, b

LEMMA DivisionBy ==
  ASSUME NEW a \in Int, NEW d \in Int, 1 <= d
  PROVE  /\ a \div d \in Int /\ a % d \in Int /\ 0 <= a % d /\ a % d < d
         /\ a = d * (a \div d) + (a % d)
  OBVIOUS

LEMMA MultipleIsExact ==
  ASSUME NEW q \in Int, NEW d \in Int, 1 <= d
  PROVE  (d * q) \div d = q /\ (d * q) % d = 0
  <1> DEFINE m == d * q
             n == m \div d
             r == m % d
  <1>1. m \in Int
    OBVIOUS
  <1>2. n \in Int /\ r \in Int /\ 0 <= r /\ r < d /\ m = d * n + r
    <2> HIDE DEF m
    <2> QED BY <1>1, DivisionBy
  <1> HIDE DEF n, r
  <1>3. d * (q - n) = r
    BY <1>2
  <1>4. q - n = 0
    <2> DEFINE e == q - n
    <2>1. e \in Int /\ d * e = r
      BY <1>2, <1>3
    <2> HIDE DEF e
    <2>2. ~(e >= 1)
      BY <1>2, <2>1
    <2>3. ~(e <= -1)
      BY <1>2, <2>1
    <2>4. e = 0
      BY <2>1, <2>2, <2>3
    <2> QED BY <2>4 DEF e
  <1>5. n = q /\ r = 0
    BY <1>2, <1>3, <1>4
  <1> QED BY <1>5 DEF n, r

LEMMA DivisionIsExact ==
  ASSUME NEW w \in {8, 16}, NEW x \in Numbers(w), NEW y \in Numbers(w), y # 0
  PROVE  LET d == Division(w, x, y)
         IN  d.remainder < y /\ (x - d.remainder) \div y = d.quotient /\ (x - d.remainder) % y = 0
  <1>1. x \in Int /\ y \in Int /\ 1 <= y
    BY NumbersAreIntegers
  <1> DEFINE q == x \div y
             r == x % y
  <1>2. q \in Int /\ r \in Int /\ r < y /\ x = y * q + r
    BY <1>1, DivisionBy
  <1>3. Division(w, x, y) = [quotient |-> q, remainder |-> r]
    BY DEF Division
  <1> HIDE DEF q, r
  <1>4. x - r = y * q
    BY <1>1, <1>2
  <1>5. (x - r) \div y = q /\ (x - r) % y = 0
    BY <1>1, <1>2, <1>4, MultipleIsExact
  <1> QED BY <1>2, <1>3, <1>5

(* Division rounds towards 0: the rest has the sign of the dividend.       *)
LEMMA RoundedDivision ==
  ASSUME NEW a \in Int, NEW b \in Int, b # 0,
         NEW n \in Int, NEW m \in Int, 0 <= m, m < Magnitude(b), Magnitude(a) = Magnitude(b) * n + m, 0 <= n,
         NEW q, q = IF (a < 0) = (b < 0) THEN n ELSE -n
  PROVE  a - q * b = IF a < 0 THEN -m ELSE m
  <1>1. CASE a < 0 /\ b < 0
    BY <1>1 DEF Magnitude
  <1>2. CASE a < 0 /\ ~(b < 0)
    BY <1>2 DEF Magnitude
  <1>3. CASE ~(a < 0) /\ b < 0
    BY <1>3 DEF Magnitude
  <1>4. CASE ~(a < 0) /\ ~(b < 0)
    BY <1>4 DEF Magnitude
  <1> QED BY <1>1, <1>2, <1>3, <1>4

LEMMA SignedOfQuotient ==
  ASSUME NEW w \in {8, 16}, NEW q \in Int, -(2^(w - 1)) <= q, q <= 2^(w - 1)
  PROVE  \E t \in {0, -1} : Signed(w, q % 2^w) = q + 2^w * t
  <1>1. CASE q < 2^(w - 1)
    <2>1. Signed(w, q % 2^w) = q
      BY <1>1, SignedNumber
    <2>2. q = q + 2^w * 0
      BY WidthPower
    <2> QED BY <2>1, <2>2
  <1>2. CASE q = 2^(w - 1)
    <2>1. Signed(w, q % 2^w) = q + 2^w * (-1)
      <3>1. CASE w = 8
        BY <1>2, <3>1 DEF Signed
      <3>2. CASE w = 16
        BY <1>2, <3>2 DEF Signed
      <3> QED BY <3>1, <3>2
    <2> QED BY <2>1
  <1>3. q < 2^(w - 1) \/ q = 2^(w - 1)
    <2>1. CASE w = 8
      BY <2>1
    <2>2. CASE w = 16
      BY <2>2
    <2> QED BY <2>1, <2>2
  <1> QED BY <1>1, <1>2, <1>3

SignedQuotient(w, a, b, quotient, rest) ==
  /\ Magnitude(Signed(w, rest)) < Magnitude(b)
  /\ Signed(w, rest) # 0 => (Signed(w, rest) < 0 <=> a < 0)
  /\ (Signed(w, quotient) * b + Signed(w, rest) - a) % 2^w = 0

LEMMA SignedDivisionIsExact ==
  ASSUME NEW w \in {8, 16}, NEW x \in Numbers(w), NEW y \in Numbers(w), y # 0
  PROVE  LET d == SignedDivision(w, x, y)
         IN  SignedQuotient(w, Signed(w, x), Signed(w, y), d.quotient, d.remainder)
  <1> DEFINE a == Signed(w, x)
             b == Signed(w, y)
             half == 2^(w - 1)
             n == Magnitude(a) \div Magnitude(b)
             m == Magnitude(a) % Magnitude(b)
             q == IF (a < 0) = (b < 0) THEN n ELSE -n
             r == a - q * b
  <1>1. /\ a \in Int /\ b \in Int /\ b # 0 /\ half \in Int
        /\ -half <= a /\ a < half /\ -half <= b /\ b < half
    <2>1. half \in Int
      <3>1. w - 1 \in 0 .. 16
        OBVIOUS
      <3> QED BY <3>1, PowerOfTwo
    <2> HIDE DEF half
    <2> QED BY <2>1, SignedIsInteger DEF half
  <1>2. SignedDivision(w, x, y) = [quotient |-> q % 2^w, remainder |-> r % 2^w]
    BY DEF SignedDivision, Magnitude
  <1> HIDE DEF a, b
  <1>3. /\ Magnitude(a) \in Int /\ 0 <= Magnitude(a) /\ Magnitude(a) <= half
        /\ Magnitude(b) \in Int /\ 1 <= Magnitude(b) /\ Magnitude(b) <= half
    <2> HIDE DEF half
    <2> QED BY <1>1 DEF Magnitude
  <1>4. /\ n \in Int /\ m \in Int /\ 0 <= m /\ m < Magnitude(b)
        /\ Magnitude(a) = Magnitude(b) * n + m /\ 0 <= n /\ n <= Magnitude(a)
    <2> DEFINE c == Magnitude(a)
               d == Magnitude(b)
    <2> HIDE DEF c, d
    <2>1. c \in Int /\ d \in Int /\ 0 <= c /\ 1 <= d
      BY <1>3 DEF c, d
    <2>2. c \div d \in Int /\ c % d \in Int /\ 0 <= c % d /\ c % d < d /\ c = d * (c \div d) + (c % d)
      BY <2>1, DivisionBy
    <2>3. 0 <= c \div d /\ c \div d <= c
      BY <2>1, DivisionIsLess
    <2> QED BY <2>2, <2>3 DEF c, d
  <1> HIDE DEF n, m
  <1>5. q \in Int /\ -half <= q /\ q <= half
    <2> HIDE DEF half
    <2> QED BY <1>1, <1>3, <1>4
  <1>6. r = IF a < 0 THEN -m ELSE m
    <2> HIDE DEF half, q, r
    <2>1. a - q * b = IF a < 0 THEN -m ELSE m
      BY <1>1, <1>4, RoundedDivision DEF q
    <2> QED BY <2>1 DEF r
  <1> HIDE DEF q, r
  <1>7. r \in Int /\ -half <= r /\ r < half
    <2> HIDE DEF half
    <2> QED BY <1>1, <1>3, <1>4, <1>6
  <1>8. Signed(w, r % 2^w) = r
    BY <1>7, SignedNumber
  <1>9. PICK t \in {0, -1} : Signed(w, q % 2^w) = q + 2^w * t
    BY <1>5, SignedOfQuotient
  <1>10. Magnitude(r) < Magnitude(b) /\ (r # 0 => (r < 0 <=> a < 0))
    <2>1. Magnitude(r) = m
      BY <1>1, <1>4, <1>6 DEF Magnitude
    <2>2. r # 0 => (r < 0 <=> a < 0)
      BY <1>1, <1>4, <1>6
    <2> QED BY <1>4, <2>1, <2>2
  <1>11. (Signed(w, q % 2^w) * b + Signed(w, r % 2^w) - a) % 2^w = 0
    <2> DEFINE p == 2^w
    <2>1. p \in Int /\ 1 <= p
      BY WidthPower
    <2> HIDE DEF p
    <2>2. r = a - q * b
      BY DEF r
    <2>3. (q + p * t) * b + r - a = p * (t * b)
      BY <1>1, <1>5, <1>7, <2>1, <2>2
    <2>4. (p * (t * b)) % p = 0
      <3> DEFINE e == t * b
      <3>1. e \in Int
        BY <1>1
      <3> HIDE DEF e
      <3>2. (p * e) % p = 0
        BY <2>1, <3>1, MultipleIsExact
      <3> QED BY <3>2 DEF e
    <2> QED BY <1>8, <1>9, <2>3, <2>4 DEF p
  <1> QED BY <1>2, <1>8, <1>10, <1>11 DEF SignedQuotient, a, b

(* The instructions that compute.                                          *)
LEMMA SumsAreExact ==
  ASSUME MachineOK, NEW i, WellFormed(i), i.op \in {"ADD", "ADC", "SUB", "SBB"},
         ArithB(i) \/ ArithW(i) \/ ArithBI(i) \/ ArithWI(i)
  PROVE  SumIsExact(i, Bits(i), First(i), Second(i), ResultOf(i, i.x))
  <1>1. i.op \in Binaries /\ i.op \in Operations /\ i.op \in ArithOps /\ i.op \notin {"TST", "CMP"}
    BY DEF Binaries, Operations, ArithOps
  <1>2. Bits(i) \in {8, 16} /\ First(i) \in Numbers(Bits(i)) /\ Second(i) \in Numbers(Bits(i)) /\ FL \in Flags
    BY <1>1, WidthIsOfBytes, OperandsAreNumbers DEF MachineOK
  <1>3. PICK inverted \in BOOLEAN : Compute(i, Arith(i.op, Bits(i), First(i), Second(i), FL, inverted))
    BY DEF ArithB, ArithW, ArithBI, ArithWI, ArithStep
  <1> DEFINE a == Arith(i.op, Bits(i), First(i), Second(i), FL, inverted)
  <1>4. ResultOK(Bits(i), a)
    BY <1>1, <1>2, ArithType
  <1>5. SumAgrees(i.op, Bits(i), First(i), Second(i), a.r, a.f.C, FL.C)
    BY <1>2, ArithIsExact
  <1> HIDE DEF a
  <1>6. ResultOf(i, i.x) = a.r /\ FL' = a.f
    BY <1>1, <1>3, <1>4, ComputeIsHeld DEF a
  <1>7. SumAgrees(i.op, Bits(i), First(i), Second(i), ResultOf(i, i.x), FL'.C, FL.C)
    BY <1>5, <1>6
  <1>8. CASE i.op = "ADD"
    BY <1>7, <1>8 DEF SumAgrees, SumIsExact
  <1>9. CASE i.op = "ADC"
    BY <1>7, <1>9 DEF SumAgrees, SumIsExact
  <1>10. CASE i.op = "SUB"
    BY <1>7, <1>10 DEF SumAgrees, SumIsExact
  <1>11. CASE i.op = "SBB"
    BY <1>7, <1>11 DEF SumAgrees, SumIsExact
  <1> QED BY <1>8, <1>9, <1>10, <1>11

LEMMA UnariesAreExact ==
  ASSUME MachineOK, NEW i, WellFormed(i), i.op \in UnaryOps, UnaryB(i) \/ UnaryW(i)
  PROVE  SumIsExact(i, Bits(i), First(i), Second(i), ResultOf(i, i.x))
  <1> DEFINE w == Bits(i)
             x == First(i)
             s1 == Bit(B(i.x), 7)
  <1>1. i.op \in Operations /\ i.op \notin {"TST", "CMP"} /\ i.op \notin ShiftOps /\ FL \in Flags
    BY DEF Operations, UnaryOps, ShiftOps, MachineOK
  <1>2. w \in {8, 16} /\ x \in Numbers(w)
    BY <1>1, WidthIsOfBytes, OperandsAreNumbers DEF MachineOK
  <1>3. s1 \in 0 .. 1
    <2>1. i.x \in 0 .. 7
      BY <1>1, OperandRegisters DEF Register
    <2>2. B(i.x) \in Int
      BY <2>1, ByteRegister DEF MachineOK, Byte
    <2> QED BY <2>2, BitIsBit
  <1>4. /\ i.op = "INC" => Compute(i, Increment(w, x, FL))
        /\ i.op = "DEC" => Compute(i, Decrement(w, x, s1, FL))
        /\ i.op = "NEG" => Compute(i, Negate(w, x, FL))
    <2>1. CASE UnaryB(i)
      <3>1. w = 8 /\ x = B(i.x)
        BY <2>1 DEF UnaryB, Bits, First
      <3> QED BY <1>1, <2>1, <3>1 DEF UnaryB
    <2>2. CASE UnaryW(i)
      <3>1. w = 16 /\ x = W[i.x]
        BY <2>2 DEF UnaryW, Bits, First
      <3> QED BY <1>1, <2>2, <3>1 DEF UnaryW
    <2> QED BY <2>1, <2>2
  <1>5. /\ ResultOK(w, Negate(w, x, FL)) /\ ResultOK(w, Increment(w, x, FL)) /\ ResultOK(w, Decrement(w, x, s1, FL))
    BY <1>1, <1>2, <1>3, UnaryType
  <1>6. /\ Increment(w, x, FL).r + 2^w * Increment(w, x, FL).f.C = x + 1
        /\ Decrement(w, x, s1, FL).r - 2^w * Decrement(w, x, s1, FL).f.C = x - 1
        /\ (Negate(w, x, FL).r + x) % 2^w = 0
    BY <1>1, <1>2, UnaryIsExact
  <1> HIDE DEF w, x, s1
  <1>7. CASE i.op = "INC"
    <2>1. ResultOf(i, i.x) = Increment(w, x, FL).r /\ FL' = Increment(w, x, FL).f
      BY <1>1, <1>4, <1>5, <1>7, ComputeIsHeld DEF w
    <2> QED BY <1>6, <1>7, <2>1 DEF SumIsExact, w, x
  <1>8. CASE i.op = "DEC"
    <2>1. ResultOf(i, i.x) = Decrement(w, x, s1, FL).r /\ FL' = Decrement(w, x, s1, FL).f
      BY <1>1, <1>4, <1>5, <1>8, ComputeIsHeld DEF w
    <2> QED BY <1>6, <1>8, <2>1 DEF SumIsExact, w, x
  <1>9. CASE i.op = "NEG"
    <2>1. ResultOf(i, i.x) = Negate(w, x, FL).r
      BY <1>1, <1>4, <1>5, <1>9, ComputeIsHeld DEF w
    <2> QED BY <1>6, <1>9, <2>1 DEF SumIsExact, w, x
  <1> QED BY <1>7, <1>8, <1>9 DEF UnaryOps

(* What ShiftIsExact asks for a count k.                                   *)
ShiftAgrees(op, w, x, k, r, c) ==
  /\ op = "SHL" => r = (x * 2^k) % 2^w /\ (k > 0 => c = (x \div 2^(w - k)) % 2)
  /\ op = "SHR" => r = x \div 2^k
  /\ op = "SAR" => HalvesSigned(w, x, k, r)

LEMMA ShiftAgreesWith ==
  ASSUME NEW w \in {8, 16}, NEW op \in ShiftOps, NEW x \in Numbers(w), NEW k \in Nat, k < w, NEW f \in Flags, NEW stale
  PROVE  ShiftAgrees(op, w, x, k, Shift(op, w, x, k, f, stale).r, Shift(op, w, x, k, f, stale).f.C)
  <1>1. CASE op = "SHL"
    <2>1. Shift(op, w, x, k, f, stale) = Shl(w, x, k, f)
      BY <1>1 DEF Shift
    <2> QED BY <1>1, <2>1, ShiftLeftIsExact DEF ShiftAgrees
  <1>2. CASE op = "SHR"
    <2>1. Shift(op, w, x, k, f, stale) = Shr(w, x, k, f, stale)
      BY <1>2 DEF Shift
    <2> QED BY <1>2, <2>1, ShiftRightIsExact DEF ShiftAgrees
  <1>3. CASE op = "SAR"
    <2>1. Shift(op, w, x, k, f, stale) = Sar(w, x, k, f, stale)
      BY <1>3 DEF Shift
    <2> QED BY <1>3, <2>1, SignedShiftIsExact DEF ShiftAgrees
  <1> QED BY <1>1, <1>2, <1>3 DEF ShiftOps

LEMMA ShiftByCount ==
  ASSUME MachineOK, NEW i, WellFormed(i), i.op \in ShiftOps, NEW k \in Nat, k < Bits(i), NEW stale \in 0 .. 1,
         k = (IF i.form \in {"B1", "W1"} THEN 1 ELSE B(i.y)),
         Compute(i, Shift(i.op, Bits(i), First(i), k, FL, stale))
  PROVE  ShiftIsExact(i, Bits(i), First(i), ResultOf(i, i.x))
  <1> DEFINE w == Bits(i)
             x == First(i)
             s == Shift(i.op, w, x, k, FL, stale)
  <1>1. i.op \in Operations /\ i.op \notin {"TST", "CMP"} /\ FL \in Flags
    BY DEF Operations, ShiftOps, MachineOK
  <1>2. w \in {8, 16} /\ x \in Numbers(w)
    BY <1>1, WidthIsOfBytes, OperandsAreNumbers DEF MachineOK
  <1>3. ResultOK(w, s)
    BY <1>1, <1>2, ShiftType
  <1>4. ShiftAgrees(i.op, w, x, k, s.r, s.f.C)
    BY <1>1, <1>2, ShiftAgreesWith
  <1> HIDE DEF w, x, s
  <1>5. ResultOf(i, i.x) = s.r /\ FL' = s.f
    BY <1>1, <1>3, ComputeIsHeld DEF s, w, x
  <1> DEFINE r == ResultOf(i, i.x)
             c == FL'.C
  <1>6. ShiftAgrees(i.op, w, x, k, r, c)
    BY <1>4, <1>5
  <1> HIDE DEF r, c
  <1>7. CASE i.op = "SHL"
    <2>1. r = (x * 2^k) % 2^w /\ (k > 0 => c = (x \div 2^(w - k)) % 2)
      BY <1>6, <1>7 DEF ShiftAgrees
    <2> QED BY <1>7, <2>1 DEF ShiftIsExact, w, x, r, c
  <1>8. CASE i.op = "SHR"
    <2>1. r = x \div 2^k
      BY <1>6, <1>8 DEF ShiftAgrees
    <2> QED BY <1>8, <2>1 DEF ShiftIsExact, w, x, r
  <1>9. CASE i.op = "SAR"
    <2>1. w = 8 \/ x < 2^(w - 1) => Signed(w, r) = Signed(w, x) \div 2^k
      BY <1>6, <1>9 DEF ShiftAgrees, HalvesSigned
    <2> DEFINE bound == IF i.form = "W1" THEN 8192 ELSE 32768
    <2>2. w = 16 => 2^(w - 1) = 32768
      OBVIOUS
    <2>3. x \in Int
      BY <1>2 DEF Numbers, Byte, Word
    <2>4. w = 8 \/ x < bound => w = 8 \/ x < 2^(w - 1)
      BY <1>2, <2>2, <2>3
    <2>5. w = 8 \/ x < bound => Signed(w, r) = Signed(w, x) \div 2^k
      BY <2>1, <2>4
    <2> QED BY <1>9, <2>5 DEF ShiftIsExact, w, x, r
  <1> QED BY <1>7, <1>8, <1>9 DEF ShiftOps

LEMMA ShiftsAreExact ==
  ASSUME MachineOK, NEW i, WellFormed(i), i.op \in ShiftOps, ShiftB(i) \/ ShiftW(i) \/ UnaryB(i) \/ UnaryW(i)
  PROVE  ShiftIsExact(i, Bits(i), First(i), ResultOf(i, i.x))
  <1>1. i.op \in Operations /\ i.op \notin {"ROR", "ROL", "NOT", "INC", "DEC", "NEG"}
    BY DEF Operations, ShiftOps
  <1>2. i.y \in 0 .. 7 /\ B(i.y) \in Byte /\ Bits(i) \in {8, 16}
    <2>1. i.y \in 0 .. 7
      BY <1>1, OperandRegisters DEF Register
    <2> QED BY <1>1, <2>1, ByteRegister, WidthIsOfBytes DEF MachineOK
  <1>3. B(i.y) \in Nat
    BY <1>2 DEF Byte
  <1>4. First(i) \in Numbers(Bits(i)) /\ FL \in Flags /\ 0 \in 0 .. 1 /\ 1 \in Nat
    BY <1>1, OperandsAreNumbers DEF MachineOK
  <1>5. CASE ShiftB(i) \/ ShiftW(i)
    <2>1. i.form \notin {"B1", "W1"}
      BY <1>5 DEF ShiftB, ShiftW
    <2>2. CASE ~(B(i.y) < Bits(i))
      BY <2>1, <2>2 DEF ShiftIsExact
    <2>3. CASE B(i.y) < Bits(i)
      <3>1. ShiftCounts(B(i.y), 32) = {B(i.y)} /\ ShiftCounts(B(i.y), 64) = {B(i.y)}
        BY <1>2, <1>3, <2>3 DEF ShiftCounts
      <3>2. PICK stale \in 0 .. 1 : Compute(i, Shift(i.op, Bits(i), First(i), B(i.y), FL, stale))
        <4>1. CASE ShiftB(i)
          <5>1. Bits(i) = 8 /\ First(i) = B(i.x)
            BY <4>1 DEF ShiftB, Bits, First
          <5>2. Compute(i, Shift(i.op, 8, B(i.x), B(i.y), FL, 0))
            BY <1>1, <3>1, <4>1 DEF ShiftB
          <5> QED BY <1>4, <5>1, <5>2
        <4>2. CASE ShiftW(i)
          <5>1. Bits(i) = 16 /\ First(i) = W[i.x]
            BY <4>2 DEF ShiftW, Bits, First
          <5>2. \E stale \in 0 .. 1 : Compute(i, Shift(i.op, 16, W[i.x], B(i.y), FL, stale))
            BY <1>1, <3>1, <4>2 DEF ShiftW
          <5> QED BY <5>1, <5>2
        <4> QED BY <1>5, <4>1, <4>2
      <3> DEFINE k == B(i.y)
      <3>3. k = (IF i.form \in {"B1", "W1"} THEN 1 ELSE B(i.y))
        BY <2>1
      <3> HIDE DEF k
      <3> QED BY <1>3, <2>3, <3>2, <3>3, ShiftByCount DEF k
    <2> QED BY <2>2, <2>3
  <1>6. CASE UnaryB(i)
    <2>1. Bits(i) = 8 /\ First(i) = B(i.x) /\ i.form = "B1"
      BY <1>6 DEF UnaryB, Bits, First
    <2>2. Compute(i, Shift(i.op, 8, B(i.x), 1, FL, 0))
      BY <1>1, <1>6 DEF UnaryB, ShiftOps
    <2>3. 1 < Bits(i)
      BY <2>1
    <2> QED BY <1>4, <2>1, <2>2, <2>3, ShiftByCount
  <1>7. CASE UnaryW(i)
    <2>1. Bits(i) = 16 /\ First(i) = W[i.x] /\ i.form = "W1" /\ 1 < Bits(i)
      BY <1>7 DEF UnaryW, Bits, First
    <2>2. i.x \in 0 .. 3 /\ W[i.x] \in Word
      BY <1>1, <2>1, OperandRegisters DEF Register, MachineOK
    <2>3. CASE i.op = "SHL"
      <3>1. Compute(i, Shl(16, W[i.x], 1, FL))
        BY <1>7, <2>3 DEF UnaryW
      <3>2. Compute(i, Shift(i.op, 16, W[i.x], 1, FL, 0))
        BY <2>3, <3>1 DEF Shift
      <3> QED BY <1>4, <2>1, <3>2, ShiftByCount
    <2>4. CASE i.op = "SHR"
      <3> DEFINE half == W[i.x] \div 2
                 f == [NZ(16, half, FL) EXCEPT !.C = W[i.x] % 2, !.N = Bit(half, 7)]
      <3>1. half \in Word
        BY <2>2, SarWordType
      <3>2. W' = [W EXCEPT ![i.x] = half]
        BY <1>7, <2>1, <2>4 DEF UnaryW, ShiftRight1W, Compute, Put
      <3> HIDE DEF half
      <3>3. ResultOf(i, i.x) = half
        BY <2>1, <2>2, <3>2 DEF ResultOf, MachineOK
      <3>4. 2^1 = 2
        OBVIOUS
      <3>5. ResultOf(i, i.x) = First(i) \div 2^1
        BY <2>1, <3>3, <3>4 DEF half
      <3> QED BY <2>1, <2>4, <3>5 DEF ShiftIsExact
    <2>5. CASE i.op = "SAR"
      <3> DEFINE x == W[i.x]
                 r == (x \div 2) % 4096
      <3>1. W' = [W EXCEPT ![i.x] = r]
        BY <1>7, <2>5 DEF UnaryW, SarW1
      <3>2. ResultOf(i, i.x) = r
        BY <2>1, <2>2, <3>1 DEF ResultOf, MachineOK
      <3>3. x \in Int /\ 0 <= x /\ x <= 65535
        BY <2>2, WordIsInteger
      <3> HIDE DEF x
      <3>4. x < 8192 => Signed(16, r) = Signed(16, x) \div 2^1
        <4> SUFFICES ASSUME x < 8192 PROVE Signed(16, r) = Signed(16, x) \div 2^1
          OBVIOUS
        <4>1. r = x \div 2 /\ r < 32768
          BY <3>3
        <4> QED BY <3>3, <4>1 DEF Signed
      <3> HIDE DEF r
      <3>5. ~(x >= 8192) => x < 8192
        BY <3>3
      <3> QED BY <2>1, <2>5, <3>2, <3>4, <3>5 DEF ShiftIsExact, x
    <2> QED BY <2>3, <2>4, <2>5 DEF ShiftOps
  <1> QED BY <1>5, <1>6, <1>7

LEMMA OtherIsSecond ==
  ASSUME NEW i, MulDivB(i) \/ MulDivW(i) \/ MulDivBI(i) \/ MulDivWI(i)
  PROVE  \E bytes \in {2, 3, 4} : MulDivStep(i, OtherRegister(i), bytes)
  <1>1. CASE MulDivB(i)
    BY <1>1 DEF MulDivB, OtherRegister
  <1>2. CASE MulDivW(i)
    BY <1>2 DEF MulDivW, OtherRegister
  <1>3. CASE MulDivBI(i)
    BY <1>3 DEF MulDivBI, OtherRegister
  <1>4. CASE MulDivWI(i)
    BY <1>4 DEF MulDivWI, OtherRegister
  <1> QED BY <1>1, <1>2, <1>3, <1>4

(* A product of words in two halves, without a number beyond 2^31 - 1.     *)
LEMMA ProductHasHalves ==
  ASSUME NEW high \in Word, NEW low \in Word, NEW x \in Word, NEW y \in Word, high * 65536 + low = x * y
  PROVE  HalvesOfProduct(high, low, x, y)
  <1> DEFINE q == x \div 256
             l == x % 256
             t == high * 256 - q * y
             rest == l * y - low
  <1>1. x = 256 * q + l /\ q \in Int /\ l \in Int
    BY DEF Word
  <1>2. high \in Int /\ low \in Int /\ y \in Int /\ q * y \in Int /\ l * y \in Int
    BY <1>1 DEF Word
  <1>3. x * y = 256 * (q * y) + l * y
    BY <1>1, <1>2
  <1>4. t \in Int /\ rest = 256 * t
    BY <1>2, <1>3
  <1> HIDE DEF t
  <1>5. (256 * t) % 256 = 0 /\ (256 * t) \div 256 = t
    BY <1>4
  <1> QED BY <1>4, <1>5 DEF HalvesOfProduct, t

LEMMA ProductsAreExact ==
  ASSUME MachineOK, NEW i, WellFormed(i), i.op \in {"MUL", "IMUL"}, OtherRegister(i) # i.x,
         MulDivB(i) \/ MulDivW(i) \/ MulDivBI(i) \/ MulDivWI(i)
  PROVE  ProductIsExact(i, Bits(i), First(i), Second(i), ResultOf(i, i.x))
  <1> DEFINE w == Bits(i)
             x == First(i)
             y == Second(i)
             j == OtherRegister(i)
  <1>1. i.op \in Operations /\ i.op \in Binaries /\ i.op \notin {"DIV", "IDIV"}
    BY DEF Operations, Binaries, MulDivOps
  <1>2. w \in {8, 16} /\ x \in Numbers(w) /\ y \in Numbers(w)
    BY <1>1, WidthIsOfBytes, OperandsAreNumbers DEF MachineOK
  <1>3. Register(i, j)
    BY <1>1, OperandRegisters DEF OtherRegister, Bits
  <1>4. PICK p \in ProductOf(i, x, y) : W' = TwoResults(i, j, p.high, p.low)
    BY <1>1, OtherIsSecond DEF MulDivStep, MultiplyStep, DivideStep, Multiply
  <1>5. p.high \in Numbers(w) /\ p.low \in Numbers(w)
    BY <1>2, ProductOfType
  <1>6. ResultOf(i, i.x) = p.low /\ ResultOf(i, j) = p.high
    BY <1>1, <1>3, <1>4, <1>5, TwoAreHeld
  <1> HIDE DEF w, x, y, j
  <1>7. CASE i.op = "MUL"
    <2>1. p = Product(w, x, y)
      BY <1>4, <1>7 DEF ProductOf, w
    <2>2. p.high * 2^w + p.low = x * y
      BY <1>2, <2>1, ProductType
    <2>3. CASE w = 8
      <3>1. p.high * 256 + p.low = x * y
        BY <2>2, <2>3
      <3> QED BY <1>6, <1>7, <2>3, <3>1 DEF ProductIsExact, w, x, y, j
    <2>4. CASE w = 16
      <3>1. x \in Word /\ y \in Word /\ p.high \in Word /\ p.low \in Word
        BY <1>2, <1>5, <2>4 DEF Numbers
      <3>2. p.high * 65536 + p.low = x * y
        BY <2>2, <2>4
      <3>3. HalvesOfProduct(p.high, p.low, x, y)
        BY <3>1, <3>2, ProductHasHalves
      <3> QED BY <1>6, <1>7, <2>4, <3>3 DEF ProductIsExact, w, x, y, j
    <2> QED BY <1>2, <2>3, <2>4
  <1>8. CASE i.op = "IMUL"
    <2> SUFFICES ASSUME w = 8 PROVE Signed(16, p.high * 256 + p.low) = Signed(8, x) * Signed(8, y)
      BY <1>6, <1>8 DEF ProductIsExact, w, x, y, j
    <2>1. p = SignedProduct8(x, y)
      BY <1>4, <1>8 DEF ProductOf, w
    <2>2. x \in Byte /\ y \in Byte
      BY <1>2 DEF Numbers
    <2> QED BY <2>1, <2>2, SignedProductIsExact
  <1> QED BY <1>7, <1>8

LEMMA QuotientsAreExact ==
  ASSUME MachineOK, NEW i, WellFormed(i), i.op \in {"DIV", "IDIV"}, OtherRegister(i) # i.x, Second(i) # 0,
         MulDivB(i) \/ MulDivW(i) \/ MulDivBI(i) \/ MulDivWI(i)
  PROVE  QuotientIsExact(i, Bits(i), First(i), Second(i), ResultOf(i, i.x))
  <1> DEFINE w == Bits(i)
             x == First(i)
             y == Second(i)
             j == OtherRegister(i)
             d == IF i.op = "DIV" THEN Division(w, x, y) ELSE SignedDivision(w, x, y)
  <1>1. i.op \in Operations /\ i.op \in Binaries /\ i.op \notin {"MUL", "IMUL"}
    BY DEF Operations, Binaries, MulDivOps
  <1>2. w \in {8, 16} /\ x \in Numbers(w) /\ y \in Numbers(w)
    BY <1>1, WidthIsOfBytes, OperandsAreNumbers DEF MachineOK
  <1>3. Register(i, j)
    BY <1>1, OperandRegisters DEF OtherRegister, Bits
  <1>4. W' = TwoResults(i, j, d.remainder, d.quotient)
    BY <1>1, OtherIsSecond DEF MulDivStep, MultiplyStep, DivideStep, Quotient
  <1>5. d.quotient \in Numbers(w) /\ d.remainder \in Numbers(w)
    BY <1>2, DivisionType
  <1> HIDE DEF d
  <1>6. ResultOf(i, i.x) = d.quotient /\ ResultOf(i, j) = d.remainder
    BY <1>1, <1>3, <1>4, <1>5, TwoAreHeld
  <1>7. y # 0
    OBVIOUS
  <1> HIDE DEF w, x, y, j
  <1>8. CASE i.op = "DIV"
    <2>1. d = Division(w, x, y)
      BY <1>8 DEF d
    <2>2. d.remainder < y /\ (x - d.remainder) \div y = d.quotient /\ (x - d.remainder) % y = 0
      BY <1>2, <1>7, <2>1, DivisionIsExact
    <2> QED BY <1>6, <1>8, <2>2 DEF QuotientIsExact, w, x, y, j
  <1>9. CASE i.op = "IDIV"
    <2>1. d = SignedDivision(w, x, y)
      BY <1>9 DEF d
    <2>2. SignedQuotient(w, Signed(w, x), Signed(w, y), d.quotient, d.remainder)
      BY <1>2, <1>7, <2>1, SignedDivisionIsExact
    <2> QED BY <1>6, <1>9, <2>2 DEF QuotientIsExact, SignedQuotient, w, x, y, j
  <1> QED BY <1>8, <1>9

(* They are executed by these actions and no other.                        *)
Computing == ArithOps \cup UnaryOps \cup ShiftOps \cup MulDivOps

LEMMA ComputingIsExecuted ==
  ASSUME NEW i, Execute(i), i.op \in Computing
  PROVE  \/ ArithB(i) \/ ArithW(i) \/ ArithBI(i) \/ ArithWI(i)
         \/ ShiftB(i) \/ ShiftW(i) \/ UnaryB(i) \/ UnaryW(i)
         \/ MulDivB(i) \/ MulDivW(i) \/ MulDivBI(i) \/ MulDivWI(i)
  <1> USE DEF Computing, ArithOps, UnaryOps, ShiftOps, MulDivOps
  <1>1. ~(Nop(i) \/ In(i) \/ Out(i) \/ Lea(i) \/ SetFlag(i))
    BY DEF Nop, In, Out, Lea, SetFlag, SetFlagOps
  <1>2. ~(IntN(i) \/ Jump(i) \/ Call(i) \/ Ret(i) \/ Iret(i) \/ JumpIf(i))
    BY DEF IntN, Jump, Call, Ret, Iret, JumpIf, Conditions
  <1>3. ~(LoadB(i) \/ LoadW(i) \/ StoreB(i) \/ StoreW(i) \/ PopInto(i) \/ PushFrom(i))
    BY DEF LoadB, LoadW, StoreB, StoreW, PopInto, PushFrom
  <1>4. ~(LogicB(i) \/ LogicW(i) \/ LogicBI(i) \/ LogicWI(i))
    BY DEF LogicB, LogicW, LogicBI, LogicWI, LogicStep, LogicOps
  <1>5. ~(Move(i) \/ Swap(i) \/ MoveSP(i) \/ MoveImmediate(i) \/ Control(i) \/ BadInstruction(i))
    BY DEF Move, Swap, MoveSP, MoveImmediate, Control, BadInstruction
  <1> QED BY <1>1, <1>2, <1>3, <1>4, <1>5 DEF Execute

LEMMA OperationsApart ==
  ASSUME NEW i
  PROVE  /\ ArithB(i) \/ ArithW(i) \/ ArithBI(i) \/ ArithWI(i) => i.op \in ArithOps
         /\ ShiftB(i) \/ ShiftW(i) => i.op \in ShiftOps \cup {"ROR", "ROL", "NOT"}
         /\ UnaryB(i) \/ UnaryW(i) => i.op \in ShiftOps \cup UnaryOps
         /\ MulDivB(i) \/ MulDivW(i) \/ MulDivBI(i) \/ MulDivWI(i) => i.op \in MulDivOps
  BY DEF ArithB, ArithW, ArithBI, ArithWI, ArithStep, ShiftB, ShiftW, UnaryB, UnaryW,
         MulDivB, MulDivW, MulDivBI, MulDivWI, MulDivStep, MultiplyStep, DivideStep, MulDivOps

ArithmeticAgrees(i) ==
  LET w == Bits(i)
      x == First(i)
      y == Second(i)
      r == ResultOf(i, i.x)
  IN  /\ i.op \in {"ADD", "ADC", "SUB", "SBB"} \cup UnaryOps => SumIsExact(i, w, x, y, r)
      /\ i.op \in {"MUL", "IMUL"} /\ OtherRegister(i) # i.x => ProductIsExact(i, w, x, y, r)
      /\ i.op \in {"DIV", "IDIV"} /\ y # 0 /\ OtherRegister(i) # i.x => QuotientIsExact(i, w, x, y, r)
      /\ i.op \in ShiftOps => ShiftIsExact(i, w, x, r)

LEMMA ExecuteIsExact ==
  ASSUME MachineOK, NEW i, WellFormed(i), Execute(i)
  PROVE  ArithmeticAgrees(i)
  <1>1. ASSUME i.op \in {"ADD", "ADC", "SUB", "SBB"}
        PROVE  SumIsExact(i, Bits(i), First(i), Second(i), ResultOf(i, i.x))
    <2>1. i.op \in Computing /\ i.op \notin ShiftOps \cup {"ROR", "ROL", "NOT"} \cup UnaryOps \cup MulDivOps
      BY <1>1 DEF Computing, ArithOps, ShiftOps, UnaryOps, MulDivOps
    <2>2. ArithB(i) \/ ArithW(i) \/ ArithBI(i) \/ ArithWI(i)
      BY <2>1, ComputingIsExecuted, OperationsApart
    <2> QED BY <1>1, <2>2, SumsAreExact
  <1>2. ASSUME i.op \in UnaryOps
        PROVE  SumIsExact(i, Bits(i), First(i), Second(i), ResultOf(i, i.x))
    <2>1. i.op \in Computing /\ i.op \notin ShiftOps \cup {"ROR", "ROL", "NOT"} \cup ArithOps \cup MulDivOps
      BY <1>2 DEF Computing, ArithOps, ShiftOps, UnaryOps, MulDivOps
    <2>2. UnaryB(i) \/ UnaryW(i)
      BY <2>1, ComputingIsExecuted, OperationsApart
    <2> QED BY <1>2, <2>2, UnariesAreExact
  <1>3. ASSUME i.op \in ShiftOps
        PROVE  ShiftIsExact(i, Bits(i), First(i), ResultOf(i, i.x))
    <2>1. i.op \in Computing /\ i.op \notin ArithOps \cup MulDivOps
      BY <1>3 DEF Computing, ArithOps, ShiftOps, UnaryOps, MulDivOps
    <2>2. ShiftB(i) \/ ShiftW(i) \/ UnaryB(i) \/ UnaryW(i)
      BY <2>1, ComputingIsExecuted, OperationsApart
    <2> QED BY <1>3, <2>2, ShiftsAreExact
  <1>4. ASSUME i.op \in MulDivOps
        PROVE  MulDivB(i) \/ MulDivW(i) \/ MulDivBI(i) \/ MulDivWI(i)
    <2>1. i.op \in Computing /\ i.op \notin ArithOps \cup ShiftOps \cup {"ROR", "ROL", "NOT"} \cup UnaryOps
      BY <1>4 DEF Computing, ArithOps, ShiftOps, UnaryOps, MulDivOps
    <2> QED BY <2>1, ComputingIsExecuted, OperationsApart
  <1>5. ASSUME i.op \in {"MUL", "IMUL"}, OtherRegister(i) # i.x
        PROVE  ProductIsExact(i, Bits(i), First(i), Second(i), ResultOf(i, i.x))
    <2>1. i.op \in MulDivOps
      BY <1>5 DEF MulDivOps
    <2> QED BY <1>4, <1>5, <2>1, ProductsAreExact
  <1>6. ASSUME i.op \in {"DIV", "IDIV"}, Second(i) # 0, OtherRegister(i) # i.x
        PROVE  QuotientIsExact(i, Bits(i), First(i), Second(i), ResultOf(i, i.x))
    <2>1. i.op \in MulDivOps
      BY <1>6 DEF MulDivOps
    <2> QED BY <1>4, <1>6, <2>1, QuotientsAreExact
  <1> QED BY <1>1, <1>2, <1>3, <1>5, <1>6 DEF ArithmeticAgrees

(* Sums and differences are what the numbers give, with their carry (but   *)
(* for the carry after subtracting 0), and so are unsigned products, signed*)
(* ones of bytes, quotients by anything but 0, SHL and SHR by less than the*)
(* width, and SAR of bytes, of words below 8192 by one and of words below  *)
(* 32768 by a count: for all such operands and all flags, in all registers *)
(* but the same one twice.  Left out, since the code does otherwise: signed*)
(* products of words and SAR of the other words.  The carries of SHR and   *)
(* SAR are left out too.                                                   *)
THEOREM ArithmeticIsAlwaysExact == Spec => ArithmeticIsExact
  <1>1. ASSUME TypeOK, [Next]_vars
        PROVE  executed' = executed + 1 => ArithmeticAgrees(ope')
    <2> SUFFICES ASSUME executed' = executed + 1 PROVE ArithmeticAgrees(ope')
      OBVIOUS
    <2>1. WellFormed(ope') /\ Execute(ope') /\ MachineOK
      BY <1>1, StepExecutes, TypeOKParts
    <2> QED BY <2>1, ExecuteIsExact
  <1>2. [executed' = executed + 1 => ArithmeticAgrees(ope')]_vars
          <=> [executed' = executed + 1 =>
                 LET i == ope'
                     w == Bits(i)
                     x == First(i)
                     y == Second(i)
                     r == ResultOf(i, i.x)
                 IN  /\ i.op \in {"ADD", "ADC", "SUB", "SBB"} \cup UnaryOps => SumIsExact(i, w, x, y, r)
                     /\ i.op \in {"MUL", "IMUL"} /\ OtherRegister(i) # i.x => ProductIsExact(i, w, x, y, r)
                     /\ i.op \in {"DIV", "IDIV"} /\ y # 0 /\ OtherRegister(i) # i.x => QuotientIsExact(i, w, x, y, r)
                     /\ i.op \in ShiftOps => ShiftIsExact(i, w, x, r)]_vars
    BY DEF ArithmeticAgrees
  <1> QED BY <1>1, <1>2, TypeCorrect, PTL DEF Spec, ArithmeticIsExact
===============================================================================
