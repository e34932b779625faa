-------------------------------- MODULE BS3Asm --------------------------------
(***************************************************************************)
(* The assembler (bs3_asm.c): pass 1 reads the lines of the source, of the *)
(* files it includes and of the macros it expands, gives each an address   *)
(* and bytes, and commits them to the table of lines and to the code map   *)
(* (bs3_asm_pass1.c, bs3_asm_line.c); pass 2 writes the addresses of the   *)
(* labels into the bytes (bs3_asm_pass2.c); then the map is saved with the *)
(* embedded files, and a loader reads the file, which may have been cut    *)
(* short.                                                                  *)
(*                                                                         *)
(* A source line is what bs3_asm_pass1_oneline makes of its text: its      *)
(* label, its kind and its parameters, of which a label reference keeps    *)
(* the global and the local part.  The text of a file is not fixed: the    *)
(* next line is any line of the source in use.  The bodies of macros are   *)
(* the lines recorded.  An error ends the assembler, so what the failing   *)
(* line had committed before it is not kept.                               *)
(***************************************************************************)
EXTENDS BS3CodeMap, BS3Instr

CONSTANTS Sources,      \* the sets of lines a source may be written with
          Locals,       \* the labels that begin with a point
          Embeddable,   \* the files EMBED finds: a chain of maps, or <<>> if it is none
          MaxEmbed,     \* BS3_MAX_EMBEDFILE
          MaxLines,     \* bound on the lines read from files
          MaxFiles      \* bound on the files open at a time

NoLabel == ""
FILELABEL == "_file"   \* the label of a file; the code makes each a name of its own

(* What bs3_asm_pass1_oneline finds in a line: a value, the number of a    *)
(* parameter of a macro, a label.                                          *)
ValueOperand == [type: {"value"}, value: Int]
ArgumentOperand == [type: {"arg"}, number: Nat]
LabelOperand ==
  {p \in [type: {"label"}, global: STRING, local: Locals \cup {NoLabel}] :
     /\ p.global \notin Locals \cup {FILELABEL}
     /\ p.global = NoLabel => p.local # NoLabel}
Operand == ValueOperand \cup LabelOperand

(* The immediate a pattern of an instruction ends with, if any.            *)
Immediate == [o |-> "none", op |-> "none", ob |-> "b", opb |-> "b",
              or |-> "r", oR |-> "R", ow |-> "w", opw |-> "w"]
ImmOf(src) == Immediate[Pattern(src.instr)]

(* What a line of a kind has besides its label and its parameters.         *)
Fields ==
  [label |-> {}, equ |-> {}, cpu |-> {"instr", "ope", "reg"}, db |-> {}, dw |-> {},
   align |-> {"value"}, org |-> {"value"}, space |-> {"value"}, macro |-> {}, endm |-> {},
   include |-> {}, call |-> {"name"}, embed |-> {"name", "rombank", "rambank"}]

IsSource(src) ==
  /\ src.kind \in DOMAIN Fields
  /\ {"label", "kind", "params"} \cup Fields[src.kind] \subseteq DOMAIN src
  /\ src.label \in STRING \ {FILELABEL}
  /\ src.params \in Seq(Operand \cup ArgumentOperand)
  /\ src.kind = "cpu" =>
       /\ Pattern(src.instr) \in DOMAIN Immediate
       /\ src.ope \in Byte /\ src.reg \in Byte
       /\ Len(src.params) = IF ImmOf(src) = "none" THEN 0 ELSE 1
  /\ src.kind \in {"align", "org", "space"} => src.value \in Int
  /\ src.kind = "embed" => src.rombank \in Byte /\ src.rambank \in Byte

ASSUME BoundsAssumption ==
  MaxEmbed \in Nat \ {0} /\ MaxLines \in Nat \ {0} /\ MaxFiles \in Nat \ {0}
ASSUME SourcesAssumption ==
  /\ Locals \subseteq STRING \ {NoLabel, FILELABEL}
  /\ \A S \in Sources : \A src \in S : IsSource(src)
ASSUME EmbeddableAssumption ==
  \A name \in DOMAIN Embeddable : IsChain(Embeddable[name])

VARIABLES source,   \* the lines the files are written with
          left,     \* how many more lines may be read from files
          stack,    \* the files and macros being read, the current one last
          macros,   \* the recorded macros, by name
          address,  \* the address of the next line
          lines,    \* bs3_asm[], as far as bs3_asm_nbline
          map,      \* bs3_asm_map
          embedlist,\* bs3_asm_embedlist
          at,       \* the line pass 2 has reached
          err,      \* the error that ended the assembler
          phase,    \* "pass1", "pass2", "save", "load"
          cut,      \* the file was cut short
          load      \* the loader

vars == <<source, left, stack, macros, address, lines, map, embedlist, at, err, phase, cut, load>>

OK == "OK"
Top == Last(stack)
IsLabel(p) == p.type = "label"
Word(v) == <<v % 256, (v \div 256) % 256>>

-------------------------------------------------------------------------------
(* The lines that are committed.                                           *)
Bytes(l) == [a \in l.address..(l.address + Len(l.code) - 1) |-> l.code[a - l.address + 1]]

(* A line without bytes: a label, a directive, an alias.                   *)
Line(label, file) ==
  [label |-> label, alias |-> FALSE, file |-> file, address |-> address, code |-> <<>>,
   params |-> <<>>, imm |-> "none"]

(* The global label that stands for a file: its index tells its lines from *)
(* those of other files and of other expansions of a macro.                *)
FileLine(index) == Line(FILELABEL, index)

(* seeded fault: bytes are written over those of another line              *)
NeverOverlaps(l) == FALSE

(* bs3_asm_line_commit of a new line: its bytes must be free.              *)
Overlaps(l) == DOMAIN Bytes(l) \cap DOMAIN map # {}
Commit(l) ==
  IF Overlaps(l)
  THEN err' = "ASMOVERLAP" /\ UNCHANGED <<lines, map>>
  ELSE lines' = Append(lines, l) /\ map' = Over(Bytes(l), map) /\ err' = OK

-------------------------------------------------------------------------------
(* bs3_asm_line_atlabel: the index of the line of a label, 0 if not found. *)
FirstOf(S) == IF S = {} THEN 0 ELSE CHOOSE k \in S : \A j \in S : k <= j
LastOf(S) == IF S = {} THEN 0 ELSE CHOOSE k \in S : \A j \in S : k >= j
Named(k, name) == lines[k].label = name /\ ~lines[k].alias
IsGlobal(k) == lines[k].label \notin Locals \cup {NoLabel} /\ ~lines[k].alias

AtGlobal(name) == FirstOf({k \in DOMAIN lines : IsGlobal(k) /\ Named(k, name)})

(* seeded fault: the files of the lines are not compared                   *)
AtLocalAnywhere(name, i) ==
  LET above == {j \in 1..i : IsGlobal(j)}
      below == {k \in DOMAIN lines : Named(k, name) /\ k > LastOf(above)}
  IN FirstOf(below)

(* .x: from the line upward, the first global label of its file below      *)
(* which, however far, the file has a label .x.                            *)
FirstBelow(j, name, file) ==
  FirstOf({k \in DOMAIN lines : k > j /\ Named(k, name) /\ lines[k].file = file})
AtLocal(name, i) ==
  LET file == lines[i].file
      above == {j \in 1..i : IsGlobal(j) /\ lines[j].file = file /\ FirstBelow(j, name, file) # 0}
  IN IF above = {} THEN 0 ELSE FirstBelow(LastOf(above), name, file)

(* g.x: below the label g, unless a global label of the file of the        *)
(* referring line comes first.                                             *)
AtQualified(global, name, i) ==
  LET g == AtGlobal(global)
      k == FirstOf({k \in DOMAIN lines : /\ k > g /\ lines[k].file = lines[i].file
                                         /\ IsGlobal(k) \/ Named(k, name)})
  IN IF g = 0 \/ k = 0 \/ IsGlobal(k) THEN 0 ELSE k

AtLabel(p, i) ==
  CASE p.global = NoLabel -> AtLocal(p.local, i)
    [] p.local = NoLabel -> AtGlobal(p.global)
    [] OTHER -> AtQualified(p.global, p.local, i)
-------------------------------------------------------------------------------
(* bs3_asm_pass1_assemble: the bytes of a value in an immediate; a distance*)
(* counts from the next instruction.                                       *)
Width == [none |-> 0, b |-> 1, r |-> 1, w |-> 2, R |-> 2]
Encode(imm, value, next) ==
  CASE imm = "b" -> <<value % 256>>
    [] imm = "r" -> <<(value - next) % 256>>
    [] imm = "R" -> Word(value - next)
    [] imm = "w" -> Word(value)
TooFar(imm, value, next) ==
  \/ imm = "r" /\ value - next \notin -128..127
  \/ imm = "R" /\ value - next \notin -32768..32767

(* An instruction: opcode, registers, then the immediate, which is zero    *)
(* until pass 2 when it is a label.                                        *)
Coded(src) ==
  LET size == Size(src.instr)
      imm == ImmOf(src)
  IN SubSeq(<<src.ope, src.reg>>, 1, size - Width[imm])
       \o (IF imm = "none" THEN <<>>
           ELSE IF IsLabel(src.params[1]) THEN [k \in 1..Width[imm] |-> 0]
           ELSE Encode(imm, src.params[1].value, address + size))

(* DB and DW: each parameter is a byte or a word.                          *)
DataOf(src) ==
  FlattenSeq([k \in DOMAIN src.params |->
    IF src.kind = "db" THEN <<src.params[k].value % 256>>
    ELSE IF IsLabel(src.params[k]) THEN <<0, 0>> ELSE Word(src.params[k].value)])

CodeOf(src) == IF src.kind = "cpu" THEN Coded(src) ELSE DataOf(src)

Emitted(src) ==
  [Line(src.label, Top.file) EXCEPT
     !.code = CodeOf(src), !.params = src.params,
     !.imm = IF src.kind = "cpu" THEN ImmOf(src) ELSE src.kind]

-------------------------------------------------------------------------------
(* The line read next: any line of the source in a file, the next recorded *)
(* one in a macro, where the parameters of the call replace each {n}.      *)
Argument(p) == IF p.type = "arg" /\ p.number \in DOMAIN Top.args THEN Top.args[p.number] ELSE p
Expanded(src) == [src EXCEPT !.params = [k \in DOMAIN @ |-> Argument(@[k])]]
NextLines ==
  IF Top.inMacro
  THEN IF Top.body = <<>> THEN {} ELSE {Head(Top.body)}
  ELSE IF left = 0 THEN {} ELSE source

Reading == phase = "pass1" /\ err = OK
Recording == Top.recording # NoLabel
ParsedLines ==
  IF ~Reading \/ Recording THEN {}
  ELSE IF Top.inMacro THEN {Expanded(src) : src \in NextLines} ELSE NextLines
RecordedLines == IF Reading /\ Recording THEN NextLines ELSE {}

(* The current file goes to its next line.                                 *)
Advanced == IF Top.inMacro THEN [Top EXCEPT !.body = Tail(@)] ELSE Top
Counted == left' = IF Top.inMacro THEN left ELSE left - 1
Above == SubSeq(stack, 1, Len(stack) - 1)
NextLine == stack' = Append(Above, Advanced) /\ Counted

File(body, args, inMacro) ==
  [file |-> Len(lines) + 2, body |-> body, args |-> args, inMacro |-> inMacro, recording |-> NoLabel]

(* bs3_asm_line_checkLabel: no line before, not even an alias, has a label *)
(* of the same name; local labels are not compared.                        *)
Duplicate(src) ==
  /\ src.label \notin Locals \cup {NoLabel}
  /\ \E k \in DOMAIN lines : lines[k].label = src.label

(* bs3_asm_embed_addfile *)
EmbedError(src) ==
  IF src.name \notin DOMAIN Embeddable THEN "EMBEDNOTFOUND"
  ELSE IF \E k \in DOMAIN embedlist : embedlist[k].name = src.name THEN "ALREADY_EMBEDDED"
  ELSE IF Embeddable[src.name] = <<>> THEN "INVALIDEMBEDFILE"
  ELSE IF Len(embedlist) = MaxEmbed THEN "TOOMANYEMBED"
  ELSE OK

Alignments ==
  {1, 2, 4, 8, 16, 32, 64, 128, 256, 512, 1024, 2048, 4096, 8192, 16384, 32768}
Alignment(src) == src.value % 65536

(* What refuses a line before anything is committed.                       *)
CpuError(src) ==
  LET imm == ImmOf(src)
  IN IF imm = "b" /\ IsLabel(src.params[1]) THEN "BADBYTE"
     ELSE IF imm = "b" /\ src.params[1].value \notin -128..255 THEN "BADOPESYNTAX"
     ELSE IF /\ imm \in {"r", "R"} /\ ~IsLabel(src.params[1])
             /\ TooFar(imm, src.params[1].value, address + Size(src.instr))
     THEN IF imm = "r" THEN "BADBYTE" ELSE "BADNUMBER"
     ELSE OK

(* The addresses are words: code that would end at 65536 is refused too.   *)
Beyond(src) == address + Len(CodeOf(src)) > 65535

LineError(src) ==
  IF \E k \in DOMAIN src.params : src.params[k].type = "arg"
  THEN IF Top.inMacro THEN "MACROREFPARAM" ELSE "BADPARAM"
  ELSE IF Duplicate(src) THEN "DUPLABEL"
  ELSE IF src.kind = "cpu" /\ CpuError(src) # OK THEN CpuError(src)
  ELSE IF src.kind = "db" /\ \E k \in DOMAIN src.params : IsLabel(src.params[k]) THEN "BADPARAM"
  ELSE IF src.kind = "db" /\ \E k \in DOMAIN src.params : src.params[k].value \notin -128..255
  THEN "BADBYTE"
  ELSE IF src.kind \in {"cpu", "db", "dw"} /\ Beyond(src) THEN "BEYOND"
  ELSE IF src.kind = "align" /\ Alignment(src) \notin Alignments THEN "BADALIGN"
  ELSE IF src.kind = "space" /\ (src.value <= 0 \/ src.value + address >= 65536) THEN "TOOBIGSPACE"
  ELSE IF src.kind = "equ" /\ src.label = NoLabel THEN "NOLABEL"
  ELSE IF src.kind = "endm" THEN "ENDMBUTNOMACRO"
  ELSE IF src.kind = "call" /\ src.name \notin DOMAIN macros THEN "EXPMACRO"
  ELSE IF src.kind = "embed" THEN EmbedError(src)
  ELSE OK
-------------------------------------------------------------------------------
(* Pass 1 (bs3_asm_pass1_file), one action per kind of line.               *)
Init ==
  /\ source \in Sources
  /\ left = MaxLines
  /\ address = 0
  /\ lines = <<[label |-> FILELABEL, alias |-> FALSE, file |-> 1, address |-> 0, code |-> <<>>,
               params |-> <<>>, imm |-> "none"]>>
  /\ stack = <<[file |-> 1, body |-> <<>>, args |-> <<>>, inMacro |-> FALSE, recording |-> NoLabel]>>
  /\ macros = <<>> /\ map = <<>> /\ embedlist = <<>>
  /\ at = 1 /\ err = OK /\ phase = "pass1" /\ cut = FALSE
  /\ load = Open(<<>>, "BINARY")

After1 == <<source, at, phase, cut, load>>   \* what pass 1 leaves alone

Accepted(src, kinds) == src.kind \in kinds /\ LineError(src) = OK

Refuse(src) ==
  /\ LineError(src) # OK
  /\ err' = LineError(src)
  /\ UNCHANGED <<left, stack, macros, address, lines, map, embedlist, After1>>

(* A label on a line of its own, and an alias (EQU).                       *)
Lone(src) ==
  /\ Accepted(src, {"label", "equ"})
  /\ Commit([Line(src.label, Top.file) EXCEPT !.alias = src.kind = "equ"])
  /\ NextLine
  /\ UNCHANGED <<macros, address, embedlist, After1>>

Emit(src) ==
  /\ Accepted(src, {"cpu", "db", "dw"})
  /\ Commit(Emitted(src))
  /\ address' = address + Len(CodeOf(src))
  /\ NextLine
  /\ UNCHANGED <<macros, embedlist, After1>>

(* Nothing is committed, not even the label, when the address is aligned.  *)
Align(src) ==
  /\ Accepted(src, {"align"})
  /\ IF address % Alignment(src) = 0
     THEN UNCHANGED <<address, lines, map, err>>
     ELSE /\ address' = (address - (address % Alignment(src)) + Alignment(src)) % 65536
          /\ Commit([Line(src.label, Top.file) EXCEPT !.address = address'])
  /\ NextLine
  /\ UNCHANGED <<macros, embedlist, After1>>

Org(src) ==
  /\ Accepted(src, {"org"})
  /\ address' = src.value % 65536
  /\ Commit([Line(src.label, Top.file) EXCEPT !.address = address'])
  /\ NextLine
  /\ UNCHANGED <<macros, embedlist, After1>>

Space(src) ==
  /\ Accepted(src, {"space"})
  /\ address' = address + src.value
  /\ Commit(Line(src.label, Top.file))
  /\ NextLine
  /\ UNCHANGED <<macros, embedlist, After1>>

(* MACRO opens the file of the macro anew; neither it nor ENDM is committed.*)
StartMacro(src) ==
  /\ Accepted(src, {"macro"})
  /\ macros' = Over([name \in {src.label} |-> <<>>], macros)
  /\ stack' = Append(Above, [Advanced EXCEPT !.recording = src.label])
  /\ Counted
  /\ UNCHANGED <<address, lines, map, embedlist, err, After1>>

Record(src) ==
  /\ IF src.kind = "endm"
     THEN stack' = Append(Above, [Advanced EXCEPT !.recording = NoLabel]) /\ UNCHANGED macros
     ELSE /\ macros' = [macros EXCEPT ![Top.recording] = Append(@, src)]
          /\ stack' = Append(Above, Advanced)
  /\ Counted
  /\ UNCHANGED <<address, lines, map, embedlist, err, After1>>

(* INCLUDE and the call of a macro commit their line, then the label of    *)
(* the file that is read from there on.                                    *)
Enter(src) ==
  /\ Accepted(src, {"include", "call"})
  /\ Len(stack) < MaxFiles
  /\ lines' = lines \o <<Line(src.label, Top.file), FileLine(Len(lines) + 2)>>
  /\ stack' = Above \o <<Advanced, IF src.kind = "call" THEN File(macros[src.name], src.params, TRUE)
                                   ELSE File(<<>>, <<>>, FALSE)>>
  /\ Counted
  /\ UNCHANGED <<macros, address, map, embedlist, err, After1>>

EmbedFile(src) ==
  /\ Accepted(src, {"embed"})
  /\ Commit(Line(src.label, Top.file))
  /\ embedlist' = Append(embedlist, [name |-> src.name, rombank |-> src.rombank, rambank |-> src.rambank])
  /\ NextLine
  /\ UNCHANGED <<macros, address, After1>>

(* The end of a file; of the first one, the end of pass 1.                 *)
EndOfFile ==
  /\ Reading
  /\ Top.inMacro => Top.body = <<>>
  /\ stack' = Above
  /\ err' = IF Recording THEN "ENDMNOTFOUND" ELSE OK
  /\ phase' = IF Len(stack) = 1 THEN "pass2" ELSE phase
  /\ UNCHANGED <<source, left, macros, address, lines, map, embedlist, at, cut, load>>

-------------------------------------------------------------------------------
(* bs3_asm_pass2: the addresses of the labels of a line into its bytes.    *)
Labels(i) == {k \in DOMAIN lines[i].params : lines[i].code # <<>> /\ IsLabel(lines[i].params[k])}
Target(i, k) == lines[AtLabel(lines[i].params[k], i)].address
Next_(i) == lines[i].address + Len(lines[i].code)

LinkError(i) ==
  IF \E k \in Labels(i) : AtLabel(lines[i].params[k], i) = 0 THEN "LABELNOTFOUND"
  ELSE IF \E k \in Labels(i) : TooFar(lines[i].imm, Target(i, k), Next_(i)) THEN "LABEL2FAR"
  ELSE OK

(* The bytes of an operand end the line; those of a word of DW are its own.*)
Linked(i) ==
  LET l == lines[i]
      start == Len(l.code) - Width[l.imm]
  IN IF Labels(i) = {} THEN l.code
     ELSE IF l.imm = "dw"
     THEN [b \in DOMAIN l.code |->
             LET k == (b + 1) \div 2 IN
             IF k \in Labels(i) THEN Word(Target(i, k))[IF b % 2 = 1 THEN 1 ELSE 2] ELSE l.code[b]]
     ELSE SubSeq(l.code, 1, start) \o Encode(l.imm, Target(i, 1), Next_(i))

(* bs3_asm_line_commit of a line that is there: its bytes in the map again.*)
Link ==
  /\ phase = "pass2" /\ err = OK /\ at <= Len(lines)
  /\ err' = LinkError(at)
  /\ IF err' # OK THEN UNCHANGED <<lines, map, at>>
     ELSE /\ lines' = [lines EXCEPT ![at].code = Linked(at)]
          /\ map' = Over(Bytes(lines'[at]), map)
          /\ at' = at + 1
  /\ UNCHANGED <<source, left, stack, macros, address, embedlist, phase, cut, load>>

(* bs3_asm_file saves the map, then appends each file to embed.            *)
Saved ==
  Save(map) \o FlattenSeq([k \in DOMAIN embedlist |->
    Embed(FileOf(Embeddable[embedlist[k].name]), embedlist[k].rombank, embedlist[k].rambank)])

SaveFile ==
  /\ phase = "pass2" /\ err = OK /\ at > Len(lines)
  /\ \E format \in {"BINARY", "HEXA"} : load' = Open(Saved, format)
  /\ phase' = "load"
  /\ UNCHANGED <<source, left, stack, macros, address, lines, map, embedlist, at, err, cut>>

(* Something outside cuts the file short before it is loaded.              *)
CutFile ==
  /\ phase = "load" /\ load.at = 1 /\ Loading(load) /\ ~cut
  /\ \E n \in 0..(Len(load.file) - 1) : load' = [load EXCEPT !.file = SubSeq(@, 1, n)]
  /\ cut' = TRUE
  /\ UNCHANGED <<source, left, stack, macros, address, lines, map, embedlist, at, err, phase>>

Load ==
  /\ phase = "load" /\ Loading(load)
  /\ load' = LoadStep(load)
  /\ UNCHANGED <<source, left, stack, macros, address, lines, map, embedlist, at, err, phase, cut>>

Next ==
  \/ \E src \in ParsedLines :
       \/ Refuse(src) \/ Lone(src) \/ Emit(src) \/ Align(src) \/ Org(src) \/ Space(src)
       \/ StartMacro(src) \/ Enter(src) \/ EmbedFile(src)
  \/ \E src \in RecordedLines : Record(src)
  \/ EndOfFile \/ Link \/ SaveFile \/ CutFile \/ Load

Spec == Init /\ [][Next]_vars
-------------------------------------------------------------------------------
(* Properties.                                                             *)

(* The maps a program is: the bytes of its lines at their addresses, then  *)
(* those of each embedded file, the first with the banks of the EMBED line.*)
OneLine(a) == CHOOSE k \in DOMAIN lines : a \in DOMAIN Bytes(lines[k])
Own ==
  [code |-> [a \in UNION {DOMAIN Bytes(lines[k]) : k \in DOMAIN lines} |-> Bytes(lines[OneLine(a)])[a]],
   rombank |-> UNSET, rambank |-> UNSET]
Rebanked(e) ==
  [Embeddable[e.name] EXCEPT ![1].rombank = e.rombank, ![1].rambank = e.rambank]
Images == <<Own>> \o FlattenSeq([k \in DOMAIN embedlist |-> Rebanked(embedlist[k])])

(* No line may be read twice into the map or be lost on the way: a program *)
(* that assembles is, in the file and after loading it, the bytes of its   *)
(* lines at their addresses and nothing else, no two lines sharing one;    *)
(* each embedded file follows as it was.  Of a file cut short nothing else *)
(* is loaded, and the hexadecimal format tells when a map is cut in two.   *)
PartOf(loaded, image) ==
  \A a \in DOMAIN loaded.code : a \in DOMAIN image.code /\ loaded.code[a] = image.code[a]

LoadedAsWritten ==
  phase = "load" =>
    /\ \A k, j \in DOMAIN lines : k # j => DOMAIN Bytes(lines[k]) \cap DOMAIN Bytes(lines[j]) = {}
    /\ Len(load.maps) <= Len(Images)
    /\ \A m \in DOMAIN load.maps : PartOf(load.maps[m], Images[m])
    /\ load.state = "OK" /\ load.format = "HEXA" =>
         \A m \in DOMAIN load.maps : load.maps[m].code \in {<<>>, Images[m].code}
    /\ ~Loading(load) /\ ~cut => load.state = "OK" /\ load.maps = Images

(* What a jump, an LEA or a DW of a label holds once the program is loaded *)
(* is the address of the label that was meant, whatever files and macros   *)
(* lie between: the only global label of that name; the first .x of the    *)
(* part of the same file that the last global label before the line        *)
(* begins, or, when that part has none, another .x of the same file.       *)
InSameFile(k, i) == lines[k].file = lines[i].file
Part(g, file) ==
  {k \in DOMAIN lines : /\ k > g /\ lines[k].file = file
                        /\ \A j \in (g + 1)..k : lines[j].file = file => ~IsGlobal(j)}
OwnPart(i) ==
  Part(CHOOSE g \in 1..i : /\ IsGlobal(g) /\ InSameFile(g, i)
                           /\ \A j \in (g + 1)..i : InSameFile(j, i) => ~IsGlobal(j),
       lines[i].file)

Meant(p, i) ==
  LET own == {k \in OwnPart(i) : Named(k, p.local)}
  IN IF p.local = NoLabel THEN {k \in DOMAIN lines : Named(k, p.global)}
     ELSE IF p.global # NoLabel
     THEN {k \in DOMAIN lines : Named(k, p.local) /\ InSameFile(k, i)
                                 /\ \E g \in 1..k : Named(g, p.global)}
     ELSE IF own # {} THEN {CHOOSE k \in own : \A j \in own : k <= j}
     ELSE {k \in DOMAIN lines : Named(k, p.local) /\ InSameFile(k, i)}

(* What the CPU takes from the bytes of the k-th parameter of line i.      *)
Reached(i, k) ==
  LET l == lines[i]
      memory == load.maps[1].code
      Held(a) == memory[a]
      last == l.address + Len(l.code)
      word == Held(last - 2) + 256 * Held(last - 1)
  IN CASE l.imm = "dw" -> Held(l.address + 2 * k - 2) + 256 * Held(l.address + 2 * k - 1)
       [] l.imm = "w" -> word
       [] l.imm = "R" -> (last + word) % 65536
       [] l.imm = "r" -> (last + Held(last - 1) - (IF Held(last - 1) > 127 THEN 256 ELSE 0)) % 65536

ReferencesReachLabels ==
  phase = "load" /\ ~cut /\ load.state = "OK" =>
    \A i \in DOMAIN lines : \A k \in Labels(i) :
      LET meant == Meant(lines[i].params[k], i)
      IN /\ \E j \in meant : lines[j].address = Reached(i, k)
         /\ lines[i].params[k].global # NoLabel /\ lines[i].params[k].local = NoLabel => Cardinality(meant) = 1
===============================================================================
