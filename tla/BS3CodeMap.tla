------------------------------ MODULE BS3CodeMap ------------------------------
(***************************************************************************)
(* The file in which the assembler leaves a program and from which the     *)
(* loader takes it (bs3_asm_code_map.c).  A file is a sequence of items: a *)
(* signature, the word of an address or of a length, a byte.  The binary   *)
(* and the hexadecimal format write the same items and differ where the    *)
(* file ends too early.  Code is a function from the addresses in use to   *)
(* bytes.                                                                  *)
(***************************************************************************)
EXTENDS Integers, Sequences, SequencesExt, FiniteSets

SIGNATURE == -1    \* "BS3BIN01" or "BS3HEX01"
UNSET == -2        \* what an uninitialised variable of the stack holds
META == 65535      \* the address of a block that announces banks

Byte == 0 .. 2^8 - 1

(* What a map holds; the address META is never in use, the loader would    *)
(* take a block there for an announcement.                                 *)
IsImage(m) ==
  /\ DOMAIN m.code \subseteq 0..(META - 1)
  /\ m \in [code: [DOMAIN m.code -> Byte], rombank: Byte, rambank: Byte]
IsChain(chain) ==
  LET maps == {chain[k] : k \in DOMAIN chain}
  IN chain \in Seq(maps) /\ \A m \in maps : IsImage(m)

(* Bytes written over those of a code.                                     *)
Over(bytes, code) ==
  [a \in DOMAIN bytes \cup DOMAIN code |-> IF a \in DOMAIN bytes THEN bytes[a] ELSE code[a]]

(* bs3_asm_code_map_new_: an unused map.                                   *)
NewMap == [code |-> <<>>, rombank |-> 0, rambank |-> 0]

(* The maximal runs of addresses in use: where they start (SEARCHSTART),   *)
(* and the first address after each (SEARCHEND).                           *)
Starts(code) == {a \in DOMAIN code : a - 1 \notin DOMAIN code}
End(code, a) ==
  CHOOSE e \in {b + 1 : b \in DOMAIN code} :
    e > a /\ e \notin DOMAIN code /\ \A b \in a..(e - 1) : b \in DOMAIN code

(* TRANSFER: the address and the length, which is a word, then the bytes.  *)
Block(code, a) ==
  <<a, (End(code, a) - a) % 65536>> \o [k \in 1..(End(code, a) - a) |-> code[a + k - 1]]

(* bs3_asm_code_map_save: the runs from the lowest address up, and an empty*)
(* block.                                                                  *)
Ascending(S) ==
  CHOOSE s \in [1..Cardinality(S) -> S] : \A i, j \in 1..Cardinality(S) : i < j => s[i] < s[j]
Blocks(code) ==
  LET starts == Ascending(Starts(code))
  IN [k \in 1..Cardinality(Starts(code)) |-> Block(code, starts[k])]
Save(code) == <<SIGNATURE>> \o FlattenSeq(Blocks(code)) \o <<0, 0>>

(* bs3_asm_code_map_embed appends the announcement of the banks, then the  *)
(* other file as it is.                                                    *)
Embed(other, rombank, rambank) ==
  <<SIGNATURE, META, 3, 0, rombank, rambank, 0, 0>> \o other

(* The file of a map and of the maps chained to it.                        *)
Chained(image) == Embed(Save(image.code), image.rombank, image.rambank)
FileOf(chain) ==
  Save(chain[1].code) \o FlattenSeq([k \in 1..(Len(chain) - 1) |-> Chained(chain[k + 1])])

(* The loader (bs3_asm_code_map_load_): the file and the place reached in  *)
(* it, the chain of maps and the map being filled, the banks last read, if *)
(* a signature was found.                                                  *)
Open(file, format) ==
  [file |-> file, format |-> format, at |-> 1, maps |-> <<NewMap>>, current |-> 1,
   rombank |-> UNSET, rambank |-> UNSET, found |-> FALSE, state |-> "SEARCH"]

AtEnd(ld) == ld.at > Len(ld.file)
Stop(ld, code) == [ld EXCEPT !.state = code]

(* The signature is searched until the end of the file.                    *)
SearchSignature(ld) ==
  LET marks == {k \in ld.at..Len(ld.file) : ld.file[k] = SIGNATURE}
  IN IF marks = {}
     THEN Stop(ld, IF ld.found THEN "OK" ELSE "LOADBADFILE")
     ELSE [ld EXCEPT !.at = (CHOOSE k \in marks : \A j \in marks : k <= j) + 1,
                     !.found = TRUE, !.state = "BLOCK"]

(* The map being filled has the banks last read.                           *)
Banked(ld) ==
  [ld EXCEPT !.maps[ld.current] =
     [code |-> @.code, rombank |-> ld.rombank, rambank |-> ld.rambank]]

(* The file ends where a block would begin: the binary format takes it     *)
(* for the end of the stream, the hexadecimal one does not.                *)
NoBlock(ld) == Stop(ld, IF ld.format = "HEXA" THEN "UNEXPECTEDEOF" ELSE "SEARCH")

(* An announcement: a map of its own is chained to the one being filled.   *)
Announce(ld) ==
  LET bad == ld.file[ld.at + 1] # 3 \/ (ld.at + 2 <= Len(ld.file) /\ ld.file[ld.at + 2] # 0)
  IN IF bad THEN Stop(ld, "BADMETABLOCK")
     ELSE IF ld.at + 4 > Len(ld.file) THEN Stop(ld, "UNEXPECTEDEOF")
     ELSE [ld EXCEPT !.at = @ + 5, !.rombank = ld.file[ld.at + 3],
                     !.rambank = ld.file[ld.at + 4], !.current = @ + 1,
                     !.maps = Append(SubSeq(@, 1, ld.current), NewMap)]

(* The bytes of a block, as many as the file and the free addresses allow. *)
Data(ld) ==
  LET address == ld.file[ld.at]
      length == ld.file[ld.at + 1]
      Loadable(k) == /\ ld.at + 1 + k <= Len(ld.file)
                     /\ address + k - 1 \notin DOMAIN ld.maps[ld.current].code
      stuck == {k \in 1..length : ~Loadable(k)}
      taken == IF stuck = {} THEN length ELSE (CHOOSE k \in stuck : \A j \in stuck : k <= j) - 1
      bytes == [a \in address..(address + taken - 1) |-> ld.file[ld.at + 2 + a - address]]
      filled == [ld EXCEPT !.at = @ + 2 + taken, !.maps[ld.current].code = Over(bytes, @)]
  IN IF taken = length
     THEN filled
     ELSE Stop(filled, IF AtEnd(filled) THEN "UNEXPECTEDEOF" ELSE "LOADOVERLAP")

LoadBlock(ld) ==
  LET banked == Banked(ld)
  IN IF AtEnd(ld) THEN NoBlock(banked)
     ELSE IF ld.at = Len(ld.file) THEN Stop(banked, "UNEXPECTEDEOF")
     ELSE IF ld.file[ld.at + 1] = 0 THEN [banked EXCEPT !.at = @ + 2, !.state = "SEARCH"]
     ELSE IF ld.file[ld.at] = META /\ ld.file[ld.at + 1] > 1 THEN Announce(banked)
     ELSE Data(banked)

LoadStep(ld) == IF ld.state = "SEARCH" THEN SearchSignature(ld) ELSE LoadBlock(ld)
Loading(ld) == ld.state \in {"SEARCH", "BLOCK"}
===============================================================================
