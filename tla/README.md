# BackSlash: verification project

The repository holds drafts of instruction sets called BackSlash and tools for
three of them. The part with a behaviour worth model checking is
`src/BackSlashThree`: an emulator in C, with one thread for the CPU and one
thread per device, mutexes and condition variables between them, an interrupt
queue, and a hypervisor loop that resets and stops the whole machine. This
directory holds TLA+ modules of that program, the TLC runs that check them on
small instances and the TLAPS proofs of their main safety properties.

## Inventory

### BackSlash Three, the emulator

| component | state | operations | correct when |
|---|---|---|---|
| interrupt queue (`bs3_bus.c` 18-80, 223-250) | ring of 16 slots, front, rear, counter, `lockirq` | `setinterrupt`/`enqueue` by device threads; `dequeue`, `getinterrupt`, clear by the CPU thread | FIFO without duplicates; nothing is lost but a duplicate or what finds the ring full; the unlocked test in `dequeue` is sound |
| CPU interrupt logic and hypervisor loop (`bs3.c` 90-111, 172-200, 1845-1930) | status, flag I, one pending slot, stack frames, `end` | the prologue of `bs3_cpu_exec`, `bs3_cpu_interrupt`, STI CLI INT IRET WAIT HALT RESET, division by zero, bad instruction, write to 010E, signal handler | no device interrupt is lost between the queue and its handler; a waiting CPU wakes; a signal ends the loop |
| input (`dev_bs3inout.c` 106-125, 205-256, 389-452) | IN, INSTATUS, lockIN, lockINSTATUS, condIN, endIN | reader thread; reads of 0100; start, stop (cancel and join) | each byte of standard input is announced once and taken once; no deadlock; stop returns and restart works |
| outputs OUT, OUT2 (`dev_bs3inout.c` 44-104, 149-200, 258-390, 410-463) | OUTSTATUS, queueOUT, lockOUT, lockOUTSTATUS, condOUT, endOUT | writer thread, writes of 0102/0104, start, stop | all bytes are sent in order; no wakeup is lost; stop returns and has sent everything |
| timer (`dev_bs3timer.c`) | delay, mode, `timerChanged`, `endTimer`, lockTimer | timer thread, register writes, start, stop | the delay waited for is the one written; one interrupt per delay that runs out; stop returns |
| graphic device (`dev_bs3gfx.c`) | command, status, parameter registers, surfaces, lockGfx | command thread, register access, transfers, some thirty drawing, tile and sprite commands | a command accepted is executed once; a transfer fills its rectangle; BUSY ends; CPU accesses return |
| clock (`dev_rtc72421.c`) | calendar digits, control registers | tick thread, register writes, start, stop | the calendar goes on as a calendar in both modes; each period has its interrupt |
| memory banks (`dev_bs3rambank.c`, `dev_bs3rombank.c`, `bs3.c` 116-155) | bank numbers, banks, main memory | bank select, byte and word access | a word is two bytes; banks do not alias |
| bus (`bs3_bus.c` 118-221) | device list | plug, byte and word access, clock thread | every address has the device of the memory map |
| CPU instructions (`bs3.c` 200-1800) | registers, flags, memory | about 200 instructions | results and flags as the numbers give them; each takes the bytes of the table of instructions; frames come back |
| loader (`bs3.c` 1806-1826, `bs3_asm_code_map.c` 285-599) | chain of code maps | read a saved file, write it through the bus | what was assembled is in memory, each bank in its place |
| debugger (`bs3_debug.c`) | run state, breakpoint, count, connection | step, run, breakpoint, reset, halt, set PC; accept, read and write a socket | stops where asked and nowhere else; the client is heard; ends only when asked |
| assembler, code map (`bs3_asm*.c`, `bs3_instr.c`) | table of lines, image in memory, list of embedded files | pass 1 over files, included files and macros; pass 2; save | no code is overwritten; a reference holds the address of the label meant; the file loads as it was written |
| disassembler (`bs3_disasm.c`) | - | listing | the image disassembles to the source |
| tinyc (`bs3meta/tinyc`, Java) | - | compiler on a generated parser | semantics preserved |

How they interact: `bs3_hyper_main` starts the devices, runs `bs3_cpu_exec` in a
loop and stops the devices. The CPU reads and writes device registers through
the bus, in its own thread; the device threads see the registers as shared
memory, sometimes under a mutex. Devices reach the CPU only through
`bs3_bus_setinterrupt`. RESET restarts every device while the interrupt queue
stays as it is.

What is hard: five kinds of thread on shared registers, of which some are read
without their mutex; condition variables; stop and restart of a thread at any
moment, one of them by cancellation; lock order between CPU and device; one slot
for a masked interrupt; a full queue; a debugger whose client, program and
signal handler all want to start and stop the same loop; a file format in which
the length of a file is not written down.

### BackSlash Five and Nine, text drafts

BackSlash Five has an assembler in Java (`BS5program.java`) and a CPU with bus
controllers in Verilog for a BASYS3 board. BackSlash Nine has an assembler, a
small compiler and a disassembler in C. The other files are descriptions of
instruction sets without a program.

## Plan

| order | module | of | state |
|---|---|---|---|
| 1 | `BS3IrqQueue`, `BS3IrqFifo` | abstract queue; the ring that implements it | done, proved |
| 2 | `BS3CpuIrq` | CPU and hypervisor loop, composed with `BS3IrqFifo` | done, proved |
| 3 | `BS3Input` | input | done, proved |
| 4 | `BS3Output`, `BS3InOut` | OUT, OUT2; input and output in one device | done, proved |
| 5 | `BS3Timer` | timer | done, proved |
| 6 | `BS3Calendar`, `BS3RtcDate`, `BS3Rtc` | abstract calendar; the clock that implements it | done, proved |
| 7 | `BS3Transfer`, `BS3Gfx` | abstract transfer; the command protocol of the graphic device | done, proved |
| 8 | `BS3Alu`, `BS3Instr`, `BS3Bus`, `BS3Cpu` | arithmetic, table of instructions, bus and banks; the CPU that uses them | done, proved |
| 9 | `BS3Debug` | debugger in the loop of the CPU | done, proved |
| 10 | `BS3CodeMap`, `BS3Asm` | saved file and loader; the assembler that writes it | done, proved |
| 11 | `BS3Draw` | addresses of the drawing, tile and sprite commands | later |

Theorems worth proving: the type invariant and each safety property of 1 to 9
(done), the refinements of the abstract queue, calendar and transfer (done); for
10, that a program whose lines do not overlap loads as written and that its
references reach their labels (done). Every invariant and action property of a
passing run is a theorem; what is left to TLC is said under "Proofs".

## Modules

Every model of a thread keeps a program counter, one action per statement or
per group of statements that no other thread can observe half done. A mutex is
a variable holding its owner; locking is an action with the guard that it is
free. `pthread_cond_wait` is three steps: release and wait, be woken (by a
signal or spuriously), take the mutex again. The CPU thread is the program: at
every instruction it may choose any access.

**`BS3IrqQueue`**: the promise of the queue: a sequence without duplicates, at
most `Capacity` long; enqueue at the end, dequeue at the front.

**`BS3IrqFifo`** (`bs3_bus.c`): ring, `front`, `rear`, `count`, `lockirq`; each
device thread `d` runs `EnqueueLock`, then `EnqueueGiveUp` or `EnqueueStore` and
`EnqueueCount`; the CPU thread runs `DequeueEmpty`, or `DequeueSome`,
`DequeueLock`, `DequeueTake`, `DequeueCount`. The test of the counter is made
without the lock, as in line 70. `PendingQueue` maps the ring to the sequence of
`BS3IrqQueue`.

**`BS3CpuIrq`** (`bs3.c`) extends `BS3IrqFifo`: every poll of the bus is the
interleaved dequeue. `step` is the place in `bs3_hyper_main` and
`bs3_cpu_exec`. The program may choose any of the instructions that concern
interrupts or the status; the others are `InstrOther`. Of memory only the
frames (who pushed them, and the saved I) are kept. With a debugger attached
the loop differs; that is left to `BS3Debug`.

**`BS3Input`** (`dev_bs3inout.c`): the reader thread and the CPU thread with
`lockIN`, `lockINSTATUS` and `condIN`. Threads are numbered by the start that
made them, so that `lockIN` can belong to a thread that was cancelled. `raised`,
`consumed` and `earlier` are history variables: the last byte announced, the last
one taken, the last one read before the last start. The names that `BS3Output` has too begin with `In` here, so
that the two halves of the device can be reasoned about in one module.

**`BS3Output`**: one output. `AfterFlush` is the status the thread leaves after
a flush: 0 for OUT (line 333), 1 for OUT2 (line 368); all else is the same code
twice. The ring buffer `queueOUT` is a sequence.

**`BS3InOut`** (`dev_bs3inout.c`, `bs3.c` 1872-1914): the input and one output in one
device, with the CPU thread that both share: the program is in one access at a time,
and `dev_bs3inout_stop` ends the in thread before it turns to the out thread. A stop
that hangs in the first never flushes the queue of the second. The fairness of the
device is that of its three threads.

**`BS3Timer`** (`dev_bs3timer.c`): the delay is a pair (three low bytes, high
byte) because only the write of the high byte tells the thread. Time is left
out: a wait may time out at any moment. `owed` is a history variable: a
non-zero delay ran out and its interrupt has not been raised yet.

**`BS3Calendar`**: the promise of the clock: a date of the years 00 to 99 and a
second of its day; one step is one second.

**`BS3RtcDate`** (`dev_rtc72421.c` 138-330): the digits of the calendar as a
record, and the cascade of carries as functions of it, one per carry.
**`BS3Rtc`** is the thread around it: it counts half ticks of 1/64
second, ends the pulse of the period, looks at the second of the host every
`HalfTicks` of them (32 in the code, a multiple of 4), and when it has changed
advances the digits and raises the interrupt of the period; the program writes
CE and CF at any moment. A write to CD sends a signal nobody handles and ends
the process, so no program gets past it. `KeepsTime` maps the digits to `BS3Calendar`.

**`BS3Transfer`**: the promise of SURFACE_BLIT_TRANSFER: the bytes written while
a transfer is open fill one rectangle, row by row.

**`BS3Gfx`** (`dev_bs3gfx.c` 256-326, 526-585, 1314-1392, 1962-2117): the thread
and the writes of the program. The CPU tests BUSY without `lockGfx` and then
does the rest of `writeByte` or `writeWord` in one section under it. Each wake
executes the command register, or stores the byte of an open transfer. RESET
is two steps, because its `memset` clears BUSY first. `area` stands for PB1,
PW2 and PW4 together; `ExecOther` stands for all commands but RESET, END and
TRANSFER; the status code is left out. `owed` counts the requests signalled
and not executed yet, `wake` is what ended the wait of the thread: a request, the
signal of a stop, or nothing at all.

**`BS3Alu`** (`bs3.c`): results and flags of the operations on 8 and 16 bits, as
the code computes them. **`BS3Instr`** (`bs3_instr.c`): the pattern of the bytes
of each instruction. **`BS3Bus`** (`bs3_bus.c`, `dev_bs3rambank.c`,
`dev_bs3rombank.c`): which device has an address, and what a byte or a word at it
reads and writes. **`BS3Cpu`** is the switch of `bs3_cpu_exec` over them, an
operator per group of instructions, and the loader before it: `LoadMap` selects
the banks of a code map, `LoadByte` writes one of its bytes through the bus,
`CpuInit` is `bs3_cpu_init`; RESET loads again through the same actions. `Begin`
gives a program the registers that the instructions before it have left. The program is the sequence of instructions
executed; interrupts come at any moment with I = 1, and one that is pending and
not masked is taken before the next instruction. The module is sequential where
`BS3CpuIrq` is concurrent, and complete where that one has a single action for
all other instructions. A variable of the C code that may be read before it was
assigned has any value of `Stale`.

**`BS3Debug`** (`bs3_debug.c`, `bs3.c` 1860-1908): `at` is the place of the thread
in the loop; `While`, `Exec`, `Halted` and `Loop` are the code between two polls,
`Comm` one poll of the socket, with its accept that itself polls. `Obey` is
`bs3_debug_comm_cmd`: the commands that change how the CPU runs are modelled one by
one, those that show or write registers and memory are `OTHERLINE`. The stream of
the client is read in parts of any size. `sending` is where `bs3_debug_comm_send`
is: it tries again while the connection is full (`SendPart`, until the client reads,
`Drain`), and meanwhile the thread, which is that of the CPU, does nothing else.
`asked` and `ran` are history variables.

**`BS3CodeMap`** (`bs3_asm_code_map.c`): a file is a sequence of a signature,
words and bytes; `Save` and `Embed` write it, `LoadStep` is one round of the
loader. The binary and the hexadecimal format have the same items and differ in
what the loader says of a file that ends early. **`BS3Asm`** (`bs3_asm*.c`): the
stack of files and macros being read, the table of lines, the image. A source
line is what the parser of a line gives: label, kind and parameters. The text is
the environment: the next line of a file is any line of the source in use, so a
run checks every program of `MaxLines` lines of it. `IsSource` says what the parser
may give for a line of each kind. `Link` is pass 2 for one line; `SaveFile`,
`CutFile` and `Load` are the file, its accident and the loader.

The modules named `...Proofs` hold theorems; the modules named `MC...` give TLC
its instances. Operators marked "seeded fault" are plausible bugs of a named
definition: each property is shown to fail when one of them takes the place of
the definition.

## Runs

| run | bounds | shows |
|---|---|---|
| `MCIrqFifo` | 3 devices, 2 slots | refinement of `BS3IrqQueue` (no duplicates, no cleaned slot handed out); with fewer slots than numbers the ring is full, wraps, and refuses |
| `MCCpuIrq` | 1 device, 2 slots, 2 frames | for every program: only a division by zero waits in the slot; handlers return with interrupts open; a waiting CPU wakes, a raised interrupt is served, a signal ends the loop |
| `MCInOut` | 2 bytes in; 2 bytes to OUT with a queue of 2; 2 starts | lock order, no byte of input overwritten between two starts, taken once after its interrupt, the next byte comes; nothing written is lost or reordered, no lost wakeup, a line is sent; the first stop gets past the in thread, and the stop of a sleeping out thread returns |
| `MCInputRestart` | 1 byte, 2 starts | **violation**: after RESET the new thread waits for the mutex of the cancelled one |
| `MCTimer` | 9 delays, repeat mode, 2 starts | the delay in force is the one written; one interrupt per delay; interrupts repeat; the stop of a running timer returns |
| `MCTimerOnce` | 2 delays, mode once | **violation**: a delay of mode once elapses and raises no interrupt |
| `MCRtc` | 8 dates at the end of a period, 2 seconds from each, 4 half ticks, 2 starts | the digits are a date and follow the calendar; no second lacks its interrupt; the pulses repeat |
| `MCGfx` | 2 by 2 pixels, 3 areas, 2 starts, 1 spurious wakeup | a transfer fills its rectangle, requests are executed once and nothing else is but after a spurious wakeup or a stop, BUSY ends |
| `MCCpu` | every instruction over 8 words at the boundaries and all flags; stack and memory programs of 4 to 5 instructions, in memory and in a bank | results are those of the numbers; comparisons decide; an instruction takes the bytes of the table; frames come back; a word is two bytes; a loaded program is where it belongs |
| `MCCpuCompare` | the same programs | **violation**: signed jumps after a comparison of bytes or with an immediate value |
| `MCDebug` | 1 breakpoint, count 2, 2 addresses, 3 items unread, 1 poll of greeting | counts are kept, breakpoints hold, no stop nobody asked for, HLT under a client ends nothing; a client that reads what it is sent is heard |
| `MCAsm` | 5 sources of 5 to 8 lines, programs of up to 5 lines, 2 files deep, 2 embedded files | what assembles loads as written and references reach their labels, in both formats; of a cut file only true parts are loaded |

Why the bounds are enough: the ring is explored in all its states, full and
wrapped, with more numbers than slots; a third frame of the stack repeats the
second (the handlers' frames are compared one by one); a second byte of input is
the first that arrives after one complete cycle of the threads, and a second byte of
output fills the queue or is the first after a line; two starts are one RESET, and
the theorems, which bound neither bytes nor restarts, cover for the safety properties
what a third would add. The eight dates are those where
a carry runs furthest: midnight, ends of 28, 29, 30 and 31 day months, of the
year and of the century, in both modes. On a surface of two by two pixels a
rectangle of width one has an offset to the next row, and both rectangles wrap
or end at the last pixel. What a bound could hide in these modules is covered
by the proofs, which have none. The words of `MCCpu` (0, 1, 5, 263, 32767 to 32769,
65535) are those at which a carry, a sign or a half changes; its addresses lie on
the seams of the memory map. A count of two turns is the first that is neither the
first nor the last turn at once. Five lines are a macro of two lines, its end and
one call, an include whose lines
surround those of its includer, or code placed before and behind other code.

### Fairness

Weak fairness for the steps of each thread: the scheduler runs every thread.
Strong fairness for taking a mutex: a thread that keeps asking gets it in the
end, which a fair scheduler with short critical sections gives; without it no
liveness of a program with mutexes holds. Never assumed: that a program chooses
an instruction, that a device raises again, that a condition variable wakes
spuriously. `BS3Input` assumes that standard input delivers its bytes,
`BS3Timer` that a timed wait ends (strongly: the program may not signal each
wait before it ends), `BS3Debug` that a read that finds bytes again and again
returns some in the end, and that the client reads what it is sent, so that a
write to it ends (`ClientReads`). `RaiseIsServed` is conditional on a program
that keeps returning to a poll with I = 1. `SignalStops` excepts a CPU that
clears the queue for ever against devices that raise for ever.

Deadlock is checked where the system cannot stop. `MCInOut` and `MCGfx` switch
it off: a cancelled reader and a word written to the command register leave a
mutex locked, and the machine then really hangs. `MCCpu`, `MCDebug` and `MCAsm`
end: with the program, with the hypervisor, with the file.

### Disagreements found

`PROJECT.json` lists under "findings", with the line and what it contradicts:

* the mutex lost with the cancelled reader (`MCInputRestart`);
* the timer of mode once, which drops its delay (line 91) before it tests it (line
  92) and never interrupts (`MCTimerOnce`);
* the sign of the second operand of comparisons (`MCCpuCompare`).

The models also contain what the code does beside its documents or without any, and
no property forbids: each is one line, and a property against it would only say this
line the other way round. Where a property would meet one of them it leaves the case
out, by name:

* after its first line the status of OUT2 stays 1 (`dev_bs3inout.c` 368 leaves
  what line 333 clears for OUT): OUT2 refuses every later byte. `BS3Output`
  with `AfterFlush = 1` is OUT2.
* a start of the input device marks IN as consumed (`dev_bs3inout.c` 444): a byte
  that was announced before a RESET and not taken is overwritten by the next one.
  `NoByteOverwritten` is about the time between two starts.
* OUT2 of a register has no break (`bs3.c` 228) and goes on as OUT of an immediate byte:
  it sends the byte that follows and leaves PC two bytes further than the table of
  instructions and `BackSlashThree.txt` 386 say. `SizeIsTabled` leaves it out.
* IMUL of words stores the halves of a variable it has not set (`bs3.c` 1178, 1179).
  SAR of a word by one has the mask `0xFFF0000` where line 986 has `0xFFFF0000` (1508)
  and loses four bits of every word from 8192 up: 32767 becomes 4095. SAR of a negative
  word shifts inside 64 bits, where its sign is not the upper bit (986, `bs3_type.h` 10;
  a build whose `long` has 32 bits would keep it). Subtracting 0 leaves no carry (881).
  `ArithmeticIsExact` leaves these out.
* words in the upper half of a bank of ROM are read with the mask of the smaller banks
  of RAM, from the lower half (`dev_bs3rombank.c` 37). `WordIsTwoBytes` leaves them out
  (`Seam`).
* the graphic thread clears the end flag that a stop has set before it ran, waits, and
  takes the signal of the stop (`dev_bs3gfx.c` 2101) for a request: it executes the command
  register, which nobody wrote. `HandledOnce` names this wait (`wake = "stop"`).
* the carry of SHR and SAR of words is a bit of a variable that an earlier
  instruction left or nobody set (`bs3.c` 980, 990, 1511); no document says what it
  should be.
* a word at the last address of the RAM bank or of the ROM bank gets its high byte unshifted into its low
  one, and a word that ends at another device is not passed on to it (`Seam`).
* the debugger writes to its client from the thread of the CPU and tries again while
  the connection is full (`bs3_debug.c` 134): a client that does not read stops the
  machine.
* in 12 hour mode noon becomes midnight and the date never advances: the digit
  of the tens of hours overwrites AM_PM (`dev_rtc72421.c` 268). `KeepsTime` is
  about 24 hour mode.
* a word written to the command register of the graphic device leaves its mutex
  locked (`dev_bs3gfx.c` 308).
* an interrupt pushes into the array of the main memory, IRET reads through the
  bus: with SP in a bank the frame does not come back.
* a file in binary format cut between two blocks loads as complete; a
  hexadecimal one is refused.
* the label of an ALIGN is lost when the address is aligned already
  (`bs3_asm_pass1.c` 2214), and a local label is found in a part of its file
  above, if its own part has none.
* every stop may hang. OUT and the graphic device signal without the mutex, so
  that the signal may fall between the test of the end flag and the wait; all
  threads clear their own end flag as their first statement and so may undo a
  stop made just after the start. `StopOfSleeperReturns`, `FirstStopReturns` and
  `StopOfRunningReturns` say which stops do return.
* the second stop of the input device hangs in `pthread_join` once a cancelled
  reader has kept `lockIN`.
* a command written before the graphic thread first waits is lost, and a
  spurious wakeup executes the command register again.
* during RESET the graphic device reports BUSY = 0; the next write then waits on
  `lockGfx` instead.
* WAIT with I = 0 is never left (`WaitMaskedIsForever`).

## Proofs

All proofs are for every value of the constants that meets the named
assumptions (`QueueSizeAssumption`, `ThreadsAssumption`, `SideAssumption`, ...:
non-empty queues, distinct threads, byte sized interrupt numbers, a surface
with a pixel, well formed instructions and code maps). Each proves an inductive invariant `Inv` from `Init` and from
every action, and the properties from `Inv`.

* `BS3CpuIrqProofs`, the FIFO: `Inv` adds to the properties the ownership of `lockirq`
  (who is inside which section), the relation `rear = front + Depth - 1` modulo
  the size, and that the counter differs from the number of pending slots only
  inside a section. `NoDuplicate` is not inductive without the contiguity of the
  ring (`RingIsContiguous`, also a theorem). `Implements` proves the
  refinement: `EnqueueStore` is the abstract enqueue, `DequeueTake` the abstract
  dequeue, everything else stutters.
  `ClearLeavesOnlyFresh` adds `StoredInv`: a device between its store and its count
  has its number in the last slot.
* `BS3CpuIrqProofs`, the CPU: every behaviour of the composition is one of the FIFO
  (`UsesFifo`), so the FIFO's invariant holds in it; `CpuInv` then gives
  `PendingIsDivZero`, `PolledIsDeliverable`, `DeviceHandlerReturnsEnabled`, and
  the action properties `WaitMaskedIsForever` and `DivZeroLeavesPending`. `Room`
  adds that a frame is free whenever I = 1, which bounds the stack (`CpuTypeOK`).
* `BS3InOutProofs`, the outputs: the queue is the interval of the bytes written and
  not yet sent; OUTSTATUS READY implies room (`ReadyIsKept`); the thread between its
  test of OUTSTATUS and its wait holds lockOUT.
* `BS3InOutProofs`, the input: `InInv` says who owns which mutex at which line, and
  that INSTATUS says whose turn it is. It gives the absence of the deadly embrace and
  the single use of each byte; `BytesAreKept` says that a byte is stored over one the
  CPU has taken or over one read before the last start.
* `BS3InOutProofs`, the device: every step of `InOutSpec` is a step or a stutter of the
  input (`UsesInput`) and of the output (`UsesOutput`), so that all of the above holds
  in the device (`DeviceKeepsBytes`, `DeviceDoesNotBlock`).
* `BS3TimerProofs`: the local delay equals the register or a change is
  announced; a delay that ran out is owed one interrupt.
* `BS3RtcProofs`: the digits, one by one, are bounded by their place in the date;
  from that each function of the cascade is the carry of `BS3Calendar`, so that
  a second of the clock is a second of the calendar from every date. The
  counter of half ticks and the flag say when an interrupt may be refused.
* `BS3DebugProofs`: `IInv` says for each command obeyed last what is left of it
  at each place of the loop: after t n the count and the turns add up to n, one
  more between the test and the turn (`CountLeft`); after z, g, s and Z which states
  the debugger can be in (`ResetWay`, `OtherWays`); at the place of an instruction that
  its breakpoint was tested (`Tested`). The four safety properties follow, for any
  depth of accepts within accepts.
* `BS3GfxProofs`: the address of an open transfer is that of the pixel (PW5,
  PW1) of its rectangle, which is what makes the incremental address right after
  wrapping twice; BUSY = 1 keeps the program away from the signal to the
  execution, so nothing is owed when a write takes the lock, even though RESET
  clears BUSY early. `RequestsHandledOnce` needs `wake` besides: what a request woke the
  thread for is still owed at the execution. `Implements` maps `ExecTransfer` to `Open`, `ExecData` to
  `Store`, and END, RESET, PW3 and a restart to `Break`.

* `BS3CpuProofs`: every instruction of the CPU. `TypeOK` is inductive by one lemma
  per group of instructions (`...KeepsMachine`). From it follow, for all operands
  and flags, `ArithmeticIsExact`, `SizeIsTabled`, `WordIsTwoBytes` and
  `FramesComeBack`. The first leaves out what the code does wrong: signed products of words,
  and signed shifts to the right of negative words and, by one, of words from 8192
  up; the second leaves out OUT2 of a register, the third the words of `Seam`
  (see "Disagreements found"). The arithmetic rests on lemmas about `BS3Alu`: the carry of a
  sum (`CarryOfSum`), the flags after CMP (`CompareFlags`), the product put
  together from two partial products (`ProductHalves`, `ProductHasHalves`), quotients rounded towards 0
  (`RoundedDivision`), and a result read back from the register that holds it
  (`PutIsHeld`: a byte register shares its word with another). Frames rest on the
  apartness of words on a stack: a word pushed is not at the address of one above,
  for as many words as `StackDepth` up to 32000, at which a stack would come round to
  itself (`AboveIsApart`), so what a push writes is read back (`ReadBack`) and the
  words above stay (`WriteLeavesWord`), in the memory and in a bank of RAM.
  `ComparisonsDecide` needs `LoadingInv`
  (no comparison is the last instruction while the program is loaded again), and
  `ProgramIsLoaded` needs `PresentInv`: the bytes written so far are found in their
  banks, and the banks selected are those of the map in work. Without the second
  part the next byte could go anywhere.

* `BS3AsmProofs`: any sources, any number of lines, include files, macros and
  embedded files, each a chain of any maps. `AsmInv` is the inductive invariant, with
  one part per stage:

  1. Pass 1 keeps a table of lines (`Table`): the image holds at every address the byte
     of exactly one line (`Filled`), no global label is given twice, and the lines of a file
     belong to a file that has been opened (`Scoped`). Each action adds lines by one
     lemma (`LineStep`); `Overlaps` is what keeps `Filled`.
  2. Pass 2 has bound the lines before `at` (`Bound`): their bytes end with, or are, the
     operands of their labels, each within reach. To write the bytes of a line again
     changes no address, scope or label (`RecodedScopes`), so the lines before it stay bound.
  3. The file of the image and the embedded files is the file of one chain of maps
     (`SavedFile`), and is laid out as segments (`Laid`): per map an announcement
     (the first has none), a signature, the runs of addresses in use from the lowest
     up, an empty block.
  4. The loader (`LoaderInv`) is at a signature, before a run of the map in work, or at
     the empty block, and has in its maps just what lies before this place, also when
     the file was cut (`LoaderStep`, one lemma per place, `FromFile` to `FromLast`).

  Invariant 4 cannot do without the order of the runs: the loader refuses a block over
  bytes it already has, and only a run that starts above the last one is new
  (`Upto`). The empty block is needed too: without it the signature of the next
  map is taken for an address. When the loader ends with OK on a whole file it is behind the last
  segment, so its maps are those of the program (`AsmLoadedAsWritten`); the first of
  them is the image, whose bytes at a bound line decode to the address of a line the
  label may mean (`AsmReferencesReachLabels`).

  The saved file is a concatenation of concatenations (`FlattenSeq`, a recursive
  function) and the order of the runs a sorted sequence that must be shown to exist.
  Both are inductions over data. They are made over sets of numbers
  (`SetInduction`: a set with 0 and every successor is `Nat`, from the well-founded order of
  `Nat`), since the library's theorems of induction take a predicate as parameter.

Only model checked: the liveness properties (fairness is about ENABLED, which
the prover does not handle) and the violations. Every invariant and every action
property of a passing run has a theorem, and so have the three refinements.
The type invariants of the ring, of the CPU's interrupt logic and of every device
and the debugger, `NoDuplicate`, `TakeIsPossible`, `RingIsContiguous`,
`PolledIsDeliverable`, `WaitMaskedIsForever`, `DivZeroLeavesPending`, `ReadyIsKept`,
`StopSendsAll`, `ShouldNeverOccur`, `LatchedFlagStays` and the type invariant of
`BS3Cpu` are proved and in no run.

The proofs corrected the model of the CPU. A frame whose words lie where nothing
can be stored does not come back, so `FramesComeBack` and the addresses pushed in
`SizeIsTabled` are about stacks in a place that exists (`Places`); an interrupt
always pushes into the memory (`FrameInMemory`); a word across the last address of
the banks of RAM goes partly to ROM (`Seam`); a code map with bytes at the select
registers would change the banks under its own rest (`CodeMapsAssumption`).

They also corrected the assembler: ALIGN takes its value modulo 65536
(`Alignment`; the code casts it to a word), and `SourcesAssumption` says what each
kind of line carries (`Fields`), which the operators had taken for granted.

## Not modelled

* The drawing, tile and sprite commands of the graphic device (one action stands
  for them): computations on surfaces between the request and the end of BUSY.
* The adjustment to 30 seconds of the clock: only a write to CD asks for it, which
  ends the process.
* The bus clock: its one effect is the speed of the CPU; its stop has the race of
  the timer.
* Of the assembler the reading of the text of a line, the choice of the instruction
  that fits its parameters, and the report; the disassembler; of the debugger what it
  shows and the commands that write registers and memory; the command line. They are
  text handling, input and output.
* Recursion without end: a file that includes itself and a macro that calls itself
  are limited by `MaxFiles` in the model and by the stack of the process in the code.
* tinyc is a translation on a generated parser; the assembler of BackSlash Five, the
  Verilog of its board and the tools of BackSlash Nine are drafts of other machines
  and share nothing with the emulator.
