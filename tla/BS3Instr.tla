------------------------------- MODULE BS3Instr -------------------------------
(***************************************************************************)
(* The instructions as the table of the assembler and of the disassembler  *)
(* (bs3Instr) describes them.  An instruction is a record: op and form     *)
(* name its opcode (ADDB is op "ADD", form "B"; ADDWI form "WI"; LDBm2     *)
(* form "B", m = 2), x, y and z the registers of its parameter byte, imm   *)
(* its immediate value.  One number of a group of opcodes (POPW0 to POPW3) *)
(* is x.                                                                   *)
(***************************************************************************)
EXTENDS Integers

LogicOps == {"AND", "OR", "EOR", "BIC", "TST"}
ArithOps == {"ADD", "ADC", "SUB", "SBB", "CMP"}
ShiftOps == {"SHL", "SHR", "SAR"}
UnaryOps == {"INC", "DEC", "NEG"}
MulDivOps == {"MUL", "IMUL", "DIV", "IDIV"}
SetFlagOps == {"CLC", "CLZ", "CLV", "CLN", "STC", "STZ", "STV", "STN"}
Conditions == {"JZ", "JNZ", "JC", "JNC", "JN", "JNN", "JV", "JNV",
               "JA", "JBE", "JGE", "JL", "JG", "JLE"}

(* The opcodes there are, and the numbers the parameter byte and what      *)
(* follows it can hold: x3, y3 of a byte register, x2, y2, z2 of a word,   *)
(* the number of an INT in its opcode.                                     *)
Forms(op) ==
  CASE op \in LogicOps \cup ArithOps \cup MulDivOps -> {"B", "W", "BI", "WI"}
    [] op \in ShiftOps -> {"B", "W", "B1", "W1"}
    [] op \in UnaryOps -> {"B1", "W1"}
    [] op \in {"ROR", "ROL", "NOT", "SWP", "LD", "SR", "PUSH", "POP", "LEA"} -> {"B", "W"}
    [] op = "MOV" -> {"B", "W", "BI", "WI", "SW", "WS", "SI"}
    [] op \in {"J", "C"} -> {"W", "A", "R"}
    [] op \in Conditions -> {"R"}
    [] op \in {"IN", "OUT", "OUT2"} -> {"B", "BI"}
    [] OTHER -> {""}

OnBytes(i) == i.form \in {"B", "BI", "B1"} /\ i.op # "LEA"
LongImmediate(i) ==
  i.form \in {"WI", "SI", "A"} \/ (i.op = "LEA" /\ i.form = "W") \/ (i.op \in {"LD", "SR"} /\ i.m = 0)

WellFormed(i) ==
  /\ i.form \in Forms(i.op)
  /\ i.x \in IF i.op = "INT" THEN 0 .. 15 ELSE IF OnBytes(i) THEN 0 .. 7 ELSE 0 .. 3
  /\ i.y \in IF OnBytes(i) /\ i.op \notin {"LD", "SR"} THEN 0 .. 7 ELSE 0 .. 3
  /\ i.z \in 0 .. 3
  /\ i.imm \in IF LongImmediate(i) THEN 0 .. 2^16 - 1 ELSE 0 .. 2^8 - 1
  /\ i.m \in 0 .. 7

(* .asmpattern: o the opcode, p the parameter, b and w an immediate byte   *)
(* and word, r and R a distance in a byte and in a word.                   *)
PatternControl(i) ==
  CASE i.op \in {"IN", "OUT", "OUT2"} -> IF i.form = "B" THEN "op" ELSE "ob"
    [] i.op = "LEA" -> IF i.form = "W" THEN "oR" ELSE "or"
    [] i.op \in Conditions -> "or"
    [] i.op \in {"J", "C"} /\ i.form = "A" -> "ow"
    [] i.op \in {"J", "C"} /\ i.form = "R" -> "or"
    [] OTHER -> "o"

PatternMemory(i) ==
  CASE i.m = 0 -> "opw" [] i.m \in {1, 3, 5} -> "op" [] OTHER -> "opb"

PatternRegister(i) ==
  CASE i.form \in {"B", "W", "SW", "WS", "B1", "W1"} -> "op"
    [] i.form = "BI" -> "opb"
    [] i.form = "WI" -> "opw"
    [] i.form = "SI" -> "ow"

Pattern(i) ==
  CASE i.op \in {"LD", "SR"} -> PatternMemory(i)
    [] i.op \in LogicOps \cup ArithOps \cup ShiftOps \cup UnaryOps \cup MulDivOps
                  \cup {"ROR", "ROL", "NOT", "MOV", "SWP"} -> PatternRegister(i)
    [] OTHER -> PatternControl(i)

(* .size *)
SizeOf == [o |-> 1, op |-> 2, ob |-> 2, or |-> 2, oR |-> 3, ow |-> 3, opb |-> 3, opw |-> 4]
Size(i) == SizeOf[Pattern(i)]
===============================================================================
