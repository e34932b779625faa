-------------------------------- MODULE BS3Bus --------------------------------
(***************************************************************************)
(* What the CPU and the loader see of the bus: the devices plugged on the  *)
(* 64 KiB of addresses, the main memory, the banks of RAM and of ROM with  *)
(* their select registers, and the access by byte and by word.             *)
(*                                                                         *)
(* The contents are a record s: m, ram and rom hold the bytes that differ  *)
(* from 0 (everything is cleared when the devices start), ramnumber and    *)
(* romnumber the banks selected, flash the signal that opens the ROM.      *)
(* The ports of the other devices belong to modules of their own: they     *)
(* read as 0 here and writing to them changes nothing.                     *)
(***************************************************************************)
EXTENDS BS3Alu

Next16(a) == (a + 1) % 65536

-------------------------------------------------------------------------------
(* bs3_hyper_device_prepare: the devices in the order they are plugged,    *)
(* with the addresses that their address and mask select.                  *)
Plugged ==
  << [device |-> "memory",        first |-> 0,     last |-> 65535],
     [device |-> "inout",         first |-> 256,   last |-> 263],
     [device |-> "timer",         first |-> 264,   last |-> 271],
     [device |-> "rtc",           first |-> 272,   last |-> 287],
     [device |-> "rambank",       first |-> 53248, last |-> 57343],
     [device |-> "rambankselect", first |-> 263,   last |-> 263],
     [device |-> "rombank",       first |-> 57344, last |-> 65535],
     [device |-> "rombankselect", first |-> 262,   last |-> 262],
     [device |-> "gfx",           first |-> 288,   last |-> 295],
     [device |-> "irqctrl",       first |-> 270,   last |-> 270] >>

(* bs3_bus_plugdevice: a device takes its addresses from those before it.  *)
Device(a) ==
  LET at == {i \in DOMAIN Plugged : a \in Plugged[i].first .. Plugged[i].last}
  IN  Plugged[CHOOSE i \in at : \A j \in at : j <= i].device

(* A cell of a store of bytes that are 0 unless they were written.         *)
Cell(f, k) == IF k \in DOMAIN f THEN f[k] ELSE 0
SetCell(f, k, v) ==
  [j \in (DOMAIN f \ {k}) \cup {i \in {k} : v # 0} |-> IF j = k THEN v ELSE f[j]]

RamBanks == 64
RomBanks == 32
RamCell(s, a) == <<s.ramnumber, a % 4096>>
RomCell(s, a) == <<s.romnumber, a % 8192>>

(* The devices started: bs3_memory_start, dev_bs3_rambank_start and        *)
(* dev_bs3_rombank_start clear everything.                                 *)
StartedMemory == << >>
StartedRam == [number |-> 0, bytes |-> << >>]
StartedRom == [number |-> 0, bytes |-> << >>]
Started ==
  [m |-> StartedMemory,
   ram |-> StartedRam.bytes, ramnumber |-> StartedRam.number,
   rom |-> StartedRom.bytes, romnumber |-> StartedRom.number,
   flash |-> FALSE]

-------------------------------------------------------------------------------
RamReadByte(s, a) == IF s.ramnumber >= RamBanks THEN 0 ELSE Cell(s.ram, RamCell(s, a))
RamWriteByte(s, a, v) ==
  IF s.ramnumber >= RamBanks THEN s
  ELSE [s EXCEPT !.ram = SetCell(@, RamCell(s, a), v)]

RomReadByte(s, a) == IF s.romnumber >= RomBanks THEN 0 ELSE Cell(s.rom, RomCell(s, a))
RomWriteByte(s, a, v) ==
  IF ~s.flash \/ s.romnumber >= RomBanks THEN s
  ELSE [s EXCEPT !.rom = SetCell(@, RomCell(s, a), v)]

(* The select registers keep any byte; a bank that does not exist reads 0. *)
RamSelect(s, v) == [s EXCEPT !.ramnumber = v]
RomSelect(s, v) == [s EXCEPT !.romnumber = v]

(* bs3_bus_readByte_ and bs3_bus_writeByte_.                               *)
ReadByte(s, a) ==
  CASE Device(a) = "memory"        -> Cell(s.m, a)
    [] Device(a) = "rambank"       -> RamReadByte(s, a)
    [] Device(a) = "rombank"       -> RomReadByte(s, a)
    [] Device(a) = "rambankselect" -> s.ramnumber
    [] Device(a) = "rombankselect" -> s.romnumber
    [] OTHER                       -> 0

WriteByte(s, a, v) ==
  CASE Device(a) = "memory"        -> [s EXCEPT !.m = SetCell(@, a, v)]
    [] Device(a) = "rambank"       -> RamWriteByte(s, a, v)
    [] Device(a) = "rombank"       -> RomWriteByte(s, a, v)
    [] Device(a) = "rambankselect" -> RamSelect(s, v)
    [] Device(a) = "rombankselect" -> RomSelect(s, v)
    [] OTHER                       -> s

WriteTwoBytes(s, a, w) == WriteByte(WriteByte(s, a, Low(w)), Next16(a), High(w))

-------------------------------------------------------------------------------
(* The memory as the CPU holds it, whatever is plugged at the address.     *)
MemoryByte(s, a) == Cell(s.m, a)
MemoryReadWord(s, a) == Cell(s.m, a) + 256 * Cell(s.m, a + 1)
MemoryWriteWord(s, a, w) ==
  [s EXCEPT !.m = SetCell(SetCell(@, a, Low(w)), a + 1, High(w))]

(* At the last address of a bank the second byte comes from the bus, and   *)
(* is not shifted.                                                         *)
RamReadWordSwapped(s, a) ==   \* seeded fault: the high byte first
  IF s.ramnumber >= RamBanks THEN 0 ELSE 256 * RamReadByte(s, a) + RamReadByte(s, a + 1)

RamReadWord(s, a) ==
  IF s.ramnumber >= RamBanks THEN 0
  ELSE IF a % 4096 = 4095 THEN Or(8, RamReadByte(s, a), ReadByte(s, Next16(a)))
  ELSE RamReadByte(s, a) + 256 * RamReadByte(s, a + 1)
RamWriteWord(s, a, w) ==
  IF s.ramnumber >= RamBanks THEN s ELSE WriteTwoBytes(s, a, w)

(* The address is masked as if the bank had 4 KiB.                         *)
RomReadWord(s, a) ==
  IF s.romnumber >= RomBanks THEN 0
  ELSE IF a % 8192 = 8191 THEN Or(8, RomReadByte(s, a), ReadByte(s, Next16(a)))
  ELSE LET o == a % 4096
       IN  Cell(s.rom, <<s.romnumber, o>>) + 256 * Cell(s.rom, <<s.romnumber, o + 1>>)
RomWriteWord(s, a, w) ==
  IF ~s.flash \/ s.romnumber >= RomBanks THEN s ELSE WriteTwoBytes(s, a, w)

(* bs3_bus_readWord and bs3_bus_writeWord: a device without a handler of   *)
(* words is accessed as two bytes, the second by its own address.          *)
ReadWord(s, a) ==
  CASE Device(a) = "memory"  -> MemoryReadWord(s, a)
    [] Device(a) = "rambank" -> RamReadWord(s, a)
    [] Device(a) = "rombank" -> RomReadWord(s, a)
    [] OTHER                 -> ReadByte(s, a) + 256 * ReadByte(s, Next16(a))

WriteWord(s, a, w) ==
  CASE Device(a) = "memory"  -> MemoryWriteWord(s, a, w)
    [] Device(a) = "rambank" -> RamWriteWord(s, a, w)
    [] Device(a) = "rombank" -> RomWriteWord(s, a, w)
    [] OTHER                 -> WriteTwoBytes(s, a, w)

-------------------------------------------------------------------------------
(* bs3_hyper_load_memory selects the banks of a map through the bus, with  *)
(* the signal that opens the ROM; when all is loaded it closes the ROM and *)
(* selects the banks 0.                                                    *)
Opened(s) == [s EXCEPT !.flash = TRUE]

SelectRomOnly(s, map) == RomSelect(s, map.rombank)   \* seeded fault: the bank of RAM is not selected

SelectBanks(s, map) == RamSelect(RomSelect(s, map.rombank), map.rambank)

Closed(s) == RamSelect(RomSelect([s EXCEPT !.flash = FALSE], 0), 0)
===============================================================================
