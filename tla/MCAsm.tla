-------------------------------- MODULE MCAsm --------------------------------
(* Five sources, each with the lines one hazard needs: local labels of one  *)
(* file; of included files; of expanded macros; code placed by ORG, ALIGN   *)
(* and SPACE, far and near; embedded files, one with an embedded file of    *)
(* its own.                                                                 *)
EXTENDS BS3Asm

Local(x) == [type |-> "label", global |-> NoLabel, local |-> x]
Global(g) == [type |-> "label", global |-> g, local |-> NoLabel]
Of(g, x) == [type |-> "label", global |-> g, local |-> x]
Value(n) == [type |-> "value", value |-> n]
Arg(n) == [type |-> "arg", number |-> n]

JZ == [op |-> "JZ"]
JA == [op |-> "J", form |-> "A"]
LEAW == [op |-> "LEA", form |-> "W"]
LDBm0 == [op |-> "LD", form |-> "B", m |-> 0]

Cpu(label, instr, ope, p) ==
  [label |-> label, kind |-> "cpu", instr |-> instr, ope |-> ope, reg |-> 0, params |-> <<p>>]
Plain(label, kind, params) == [label |-> label, kind |-> kind, params |-> params]
Valued(label, kind, n) == [label |-> label, kind |-> kind, params |-> <<>>, value |-> n]
Titled(label, kind, name, params) == [label |-> label, kind |-> kind, params |-> params, name |-> name]
EmbedLine(name, rom, ram) ==
  [label |-> NoLabel, kind |-> "embed", params |-> <<>>, name |-> name, rombank |-> rom, rambank |-> ram]

ScopeLines ==
  {Plain("A", "label", <<>>), Plain("B", "db", <<Value(1)>>), Plain(".x", "db", <<Value(2)>>),
   Cpu(".x", JZ, 73, Local(".x")), Plain(NoLabel, "dw", <<Value(515), Of("A", ".x")>>),
   Cpu(NoLabel, JA, 72, Global("B"))}

IncludeLines ==
  {Plain(".x", "db", <<Value(2)>>), Cpu(NoLabel, JA, 72, Local(".x")),
   Plain("A", "equ", <<Value(3)>>), Plain("B", "label", <<>>), Titled(NoLabel, "include", "f", <<>>)}

MacroLines ==
  {Titled("M", "macro", "M", <<>>), Plain(NoLabel, "endm", <<>>), Plain("A", "label", <<>>),
   Cpu(".x", JZ, 73, Local(".x")), Cpu(NoLabel, JA, 72, Arg(1)),
   Titled(NoLabel, "call", "M", <<Global("A")>>), Titled(NoLabel, "call", "M", <<Local(".x")>>)}

PlaceLines ==
  {Valued("A", "org", 4), Valued("A", "org", 65532), Valued("B", "align", 4), Valued(NoLabel, "space", 130),
   Cpu(NoLabel, JZ, 73, Global("B")), Cpu(NoLabel, JZ, 73, Value(200)),
   Cpu(NoLabel, LDBm0, 80, Global("A")), Cpu(NoLabel, LEAW, 17, Global("A"))}

EmbedLines ==
  {EmbedLine("lib", 3, 0), EmbedLine("deep", 1, 2), EmbedLine("text", 1, 1),
   Plain(NoLabel, "db", <<Value(1), Value(2)>>), Valued("A", "space", 2)}

MCSources == {ScopeLines, IncludeLines, MacroLines, PlaceLines, EmbedLines}

Lib == <<[code |-> 57344 :> 7, rombank |-> 0, rambank |-> 0]>>
Deep == Lib \o <<[code |-> (49152 :> 8) @@ (49153 :> 9) @@ (57344 :> 6), rombank |-> 4, rambank |-> 5]>>
MCEmbeddable == ("lib" :> Lib) @@ ("deep" :> Deep) @@ ("text" :> <<>>)
===============================================================================
