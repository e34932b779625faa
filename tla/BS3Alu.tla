-------------------------------- MODULE BS3Alu --------------------------------
(***************************************************************************)
(* The arithmetic of bs3_cpu_exec on operands of w bits: 8 for the forms   *)
(* B and BI of an instruction, 16 for W and WI.  Flags are a record of     *)
(* bits.  An operation gives the result r and the flags f, as the code     *)
(* computes them: some flags are not what their names say.                 *)
(***************************************************************************)
EXTENDS Integers

Byte == 0 .. 2^8 - 1
Word == 0 .. 2^16 - 1

Low(v) == v % 256
High(v) == (v \div 256) % 256

Flag(b) == IF b THEN 1 ELSE 0
Bit(x, i) == (x \div 2^i) % 2
Neg(w, x) == (2^w - x) % 2^w
Not(w, x) == 2^w - 1 - x
Signed(w, x) == IF x < 2^(w - 1) THEN x ELSE x - 2^w

(* The union of the words and their bits: FL as PUSHF stores it.           *)
FlagWord(f) == f.C + 2 * f.Z + 4 * f.V + 8 * f.N + 16 * f.I + 32 * f.rest
FlagsOf(v) ==
  [C |-> Bit(v, 0), Z |-> Bit(v, 1), V |-> Bit(v, 2), N |-> Bit(v, 3),
   I |-> Bit(v, 4), rest |-> v \div 32]

(* The w bits of x and y combined one by one.                              *)
Bitwise2(w, Op(_, _), x, y) ==
  LET b(i) == 2^i * Op(Bit(x, i), Bit(y, i))
      low == b(0) + b(1) + b(2) + b(3) + b(4) + b(5) + b(6) + b(7)
      high == b(8) + b(9) + b(10) + b(11) + b(12) + b(13) + b(14) + b(15)
  IN  IF w = 8 THEN low ELSE low + high
And(w, x, y) == Bitwise2(w, LAMBDA a, b : a * b, x, y)
Or(w, x, y) == Bitwise2(w, LAMBDA a, b : a + b - a * b, x, y)
Eor(w, x, y) == Bitwise2(w, LAMBDA a, b : (a + b) % 2, x, y)

(* N and Z of a result.                                                    *)
NZ(w, r, f) == [f EXCEPT !.N = Bit(r, w - 1), !.Z = Flag(r = 0)]

Logic(op, w, x, y, f) ==
  LET r == CASE op \in {"AND", "TST"} -> And(w, x, y)
             [] op = "OR"             -> Or(w, x, y)
             [] op = "EOR"            -> Eor(w, x, y)
             [] op = "BIC"            -> And(w, x, Not(w, y))
  IN  [r |-> r, f |-> NZ(w, r, f)]

(* Sums: a difference adds the opposite, so that subtracting 0 leaves no   *)
(* carry.  V compares the signs of the operands added; except in SUBW,     *)
(* SBBW and CMPW the sign s2 of the second is kept inverted.               *)
Addend(op, w, y) ==
  CASE op \in {"ADD", "ADC"} -> y
    [] op \in {"SUB", "CMP"} -> Neg(w, y)
    [] op = "SBB"            -> Not(w, y)

SignNotInverted(op, w, x, y, f, inverted) ==   \* seeded fault: s2 the other way in the word forms
  LET second == Addend(op, w, y)
      sum == x + second + IF op \in {"ADC", "SBB"} THEN f.C ELSE 0
      r == sum % 2^w
  IN  [r |-> r,
       f |-> [NZ(w, r, f) EXCEPT !.C = Bit(sum, w),
                                 !.V = Flag(Bit(x, w - 1) # Bit(second, w - 1) /\ Bit(r, w - 1) # Bit(x, w - 1))]]

Arith(op, w, x, y, f, inverted) ==
  LET second == Addend(op, w, y)
      sum == x + second + IF op \in {"ADC", "SBB"} THEN f.C ELSE 0
      r == sum % 2^w
      s1 == Bit(x, w - 1)
      s2 == IF inverted /\ op \in {"SUB", "SBB", "CMP"}
            THEN 1 - Bit(second, w - 1) ELSE Bit(second, w - 1)
      s3 == Bit(r, w - 1)
  IN  [r |-> r,
       f |-> [NZ(w, r, f) EXCEPT !.C = Bit(sum, w), !.V = Flag(s1 = s2 /\ s3 # s1)]]

(* Shifts by k.  The carry of SHR and SAR on words is a bit of a variable  *)
(* that was not assigned: stale.  SAR on words shifts a positive 64 bit    *)
(* number, so it brings in zeros.                                          *)
Shl(w, x, k, f) ==
  LET r == IF k < w THEN (x * 2^k) % 2^w ELSE 0
  IN  [r |-> r, f |-> [NZ(w, r, f) EXCEPT !.C = IF k \in 1 .. w THEN Bit(x, w - k) ELSE 0]]

Shr(w, x, k, f, stale) ==
  LET r == IF k < w THEN x \div 2^k ELSE 0
      out == IF k \in 1 .. w THEN Bit(x, k - 1) ELSE 0
  IN  [r |-> r, f |-> [NZ(w, r, f) EXCEPT !.C = IF w = 16 THEN stale ELSE out]]

Sar(w, x, k, f, stale) ==
  IF w = 16 THEN Shr(w, x, k, f, stale)
  ELSE LET kept == IF k < w THEN k ELSE w
           r == (Signed(w, x) \div 2^kept) % 2^w
           out == IF k = 0 THEN 0 ELSE Bit(x, IF k < w THEN k - 1 ELSE w - 1)
       IN  [r |-> r, f |-> [NZ(w, r, f) EXCEPT !.C = out]]

Shift(op, w, x, k, f, stale) ==
  CASE op = "SHL" -> Shl(w, x, k, f)
    [] op = "SHR" -> Shr(w, x, k, f, stale)
    [] op = "SAR" -> Sar(w, x, k, f, stale)

(* A shift of at least n bits is not defined in C, n the bits of the type  *)
(* that is shifted: the processor takes the count modulo n, or gives what  *)
(* a long shift gives.                                                     *)
ShiftCounts(k, n) == IF k < n THEN {k} ELSE {k % n, k}

Rotate(op, w, x, f) ==
  LET out == IF op = "ROR" THEN Bit(x, 0) ELSE Bit(x, w - 1)
      r == IF op = "ROR" THEN x \div 2 + out * 2^(w - 1) ELSE ((2 * x) % 2^w) + out
  IN  [r |-> r, f |-> [NZ(w, r, f) EXCEPT !.C = out]]

Complement(w, x, f) == [r |-> Not(w, x), f |-> NZ(w, Not(w, x), f)]
Negate(w, x, f) == [r |-> Neg(w, x), f |-> NZ(w, Neg(w, x), f)]

Increment(w, x, f) ==
  LET r == (x + 1) % 2^w
  IN  [r |-> r, f |-> [NZ(w, r, f) EXCEPT !.C = Flag(x = 2^w - 1),
                                          !.V = Flag(Bit(r, w - 1) = 1 /\ Bit(x, w - 1) = 0)]]

(* s1 is the sign of the operand, for a word that of the byte of the same  *)
(* number.                                                                 *)
Decrement(w, x, s1, f) ==
  LET r == (x - 1) % 2^w
  IN  [r |-> r, f |-> [NZ(w, r, f) EXCEPT !.C = Flag(x = 0),
                                          !.V = Flag(Bit(r, w - 1) = 0 /\ s1 = 0)]]

(* The two halves of a product.                                            *)
Product(w, x, y) ==
  LET d == 2^(w \div 2)
      carried == x * (y \div d) + (x * (y % d)) \div d
  IN  [high |-> carried \div d, low |-> (carried % d) * d + ((x * (y % d)) % d)]

SignedProduct8(x, y) ==
  LET p == (Signed(8, x) * Signed(8, y)) % 65536 IN [high |-> p \div 256, low |-> p % 256]

(* / and % of C on unsigned and on signed operands.                        *)
Division(w, x, y) == [quotient |-> x \div y, remainder |-> x % y]

FlooredDivision(w, x, y) ==   \* seeded fault: rounds towards the lesser number
  LET a == Signed(w, x)
      b == Signed(w, y)
      q == IF b > 0 THEN a \div b ELSE (-a) \div (-b)
  IN  [quotient |-> q % 2^w, remainder |-> (a - q * b) % 2^w]

SignedDivision(w, x, y) ==
  LET a == Signed(w, x)
      b == Signed(w, y)
      size(v) == IF v < 0 THEN -v ELSE v
      q == IF (a < 0) = (b < 0) THEN size(a) \div size(b) ELSE -(size(a) \div size(b))
  IN  [quotient |-> q % 2^w, remainder |-> (a - q * b) % 2^w]
===============================================================================
