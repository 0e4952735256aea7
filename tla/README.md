# A specification of the DME simulators

This repository holds the tools of a home-made 16-bit computer: a functional
simulator (`src/fsim/main.c`), a simulator of its microcode (`src/main2.c` with
`src/micro/micro.mx`), an older one (`src/main.c`), an assembler
(`src/asm/asm.rb`), a microcode assembler (`src/micro/micro-asm.rb`) and test
programs. The TLA+ modules here model what those programs do, TLC checks them
on small instances, and TLAPS proves the main results for every instance.

Line numbers after a property are those of the code it is about; `main.c` alone
is the older microcode simulator, `src/main.c`, and `fsim/main.c` the functional
one.

## Inventory

| part | state | operations | what is hard |
|---|---|---|---|
| functional simulator, loop (`fsim/main.c`) | two register banks, two control registers, `trapnr`, `ivec`, last instruction | loop test, prompt, `traps()`, 45 opcodes, SIGINT | two causes at one `traps()`, priorities, nested traps, what a bank switch does to the carry |
| SD card of that simulator | `disk_irq` countdown, FIFO and its pointer, data register | `bread`, `diskirq`, `readsd`, `writesd` | status free before the interrupt, merged or lost interrupts, read while busy ends the simulator |
| paging of that simulator | RAM, `pagetable[512]`, `ptb`, PE and SM bits | `readram`, `writeram`, `pageaddr`, `wpte`, `lpte`, `wptb`, `wcr(.u)`, `reti` | a fault that goes on, 16-bit frame arithmetic, unchecked indexes, changes of tables between processes |
| instruction semantics, both simulators | registers, RAM, carry | the opcodes | aliasing of operands and targets, order of latches, conditions on overflow and on a stale carry |
| microcode machine (`main2.c`, `micro.mx`) | state, clock phase, MAR, MDR, IR, signals, registers | rising and falling edge | signals are computed from the old registers and latched in a fixed order; skipped states; signals cleared before they are read |
| UART of that simulator | `tick`, `tx_delay` | `readuart`, character output | finding it free is what makes it busy, for whoever polls next |
| prompt and loaders | `sflag`, files | `getinput`, `loadbios`, `parseopts` | examining memory reads the devices |
| assembler (`asm.rb`) | instruction, label and data lists, addresses | parse, pseudo instructions, symbol table, encode, write | label guard, branch ranges, placement of data, two's complement fields |
| microcode assembler (`micro-asm.rb`) | table of rows | parse, three passes of encode | a row's address is the place of its line, in the simulators it is computed; fields at fixed bit positions |
| old simulator (`main.c`) | cycle, clock phase, rounds of signals, the rest as `main2.c` | settling loop, latches, skipped cycles, prompt of `brk` | signals that must settle within 15 rounds, a flag decided on the last round's result, state left from one cycle to another |
| bit-string helpers (`common.c`) | none | `dec2bin`, `bin2dec`, `sbin2dec`, `binN_to_dec` | signs and widths; the same conversion written out for five lengths |
| programs (`asm/*.s`, `validation/*.s`) | machine state | boot, trap handlers, SD drivers | save and restore of a context, polling against interrupts |

How the parts interact. The assembler's image is loaded into the RAM of a
simulator; the microcode table is loaded into `main2.c` and `main.c`. Within the functional
simulator everything is one thread: the loop calls `traps()` before each
instruction, `traps()` calls `diskirq()`, loads and stores at 0xff90 and above
go to the UART and the card instead of the page table, and the card reports
back through a bit of `trapnr`. The one asynchronous piece is the SIGINT
handler. The simulators share no code but the bit-string helpers: that they
agree on what a word means and on what an instruction does are claims, and the
modules `InstrWord`, `MicroCpu` and `OldMicroCpu` state them.

## Modules

| module | models | with |
|---|---|---|
| `SdCard` | the card: countdown, FIFO pointer, data register, status, refusals | part of `FsimCpu` |
| `FsimCpu` | the loop of `fsim/main.c`: traps, banks, control registers, an action per instruction class, SIGINT, the prompt | extends `SdCard` |
| `InterruptUnit` | abstract: what an interrupt mechanism promises | implemented by `FsimCpu` |
| `Paging` | loads, stores, translation, the paging instructions | |
| `ProcessMemory` | abstract: a private memory for each process | implemented by `Paging` |
| `CondCodes` | words, their sums and differences, and the skip decision of both simulators | |
| `SkipCond` | skip.c with the life of the carry flag | extends `CondCodes` |
| `WordOps` | shifts, bytes, RAM words, decoded instructions | extends `CondCodes` |
| `Isa` | abstract: the instructions as `fsim/main.c` executes them, one step each | extends `WordOps` |
| `Microcode` | the rows of `micro.mx` that the simulators carry out | extends `WordOps` |
| `MicroCpu` | states, signals and latches of `main2.c` | extends `Microcode`, implements `Isa` |
| `OldMicroCpu` | cycles, rounds of signals and latches of `main.c` | extends `Microcode`, implements `Isa` |
| `BitStrings` | the conversions of `common.c` | |
| `MicroStore` | `micro.mx` as a whole, `micro-asm.rb`, and how the simulators find and cut a microword | extends `Microcode`, `BitStrings` |
| `InstrWord` | an instruction word from the assembler's line to the operands that `fsim`, `main2.c` and `main.c` read | extends `MicroStore` |
| `Uart` | line status register and its clock | |
| `Drivers` | a polling program on card and UART, the loop, and a user at the prompt | extends `SdCard`, `Uart` |
| `AsmSource` | the lines of an assembler program, and the `fsim` instructions that take an address or a constant | |
| `Layout` | abstract: which programs are accepted, and where each line is in memory | extends `AsmSource` |
| `Assembler` | the parser and the passes of `asm.rb` | implements `Layout` |
| `MC*` | instances for TLC; `MCPrograms` has the programs of both microcode simulators | |
| `Instruction_proofs` | theorems about `InstrWord` with `MicroStore`, and about `SkipCond` | extends them |
| the other `*_proofs` | theorems about the module they are named after | |

Correspondence in short. In `FsimCpu` an iteration of the loop is two steps:
`TakeTrap`, `NoTrap` or `Stop` (the loop test, the single-step prompt, and all
of `traps()` with `diskirq()`), and then one instruction (fetch, `decode()`,
its `case`, and the carry reset behind the `switch`). The variables have the
names of the C globals. `upc`, `spc`, `sr1` and `sr2` are the PC of each bank
and the registers 1 and 2 of the system bank, in which a trap is reported.
Control registers and `trapnr` are sets of the names of their bits. What an
address holds is left open: any instruction of the classes the running bank is
allowed. `Brk` is also a store to 0xb05a, which opens the same prompt
(`fsim/main.c:498-501`). So a run, and more so a theorem, is about every program that keeps to
those classes (`KernelOps`, `UserOps`).

In `Paging` an address is a pair of page and offset, RAM a function of pages
to bytes; `Load` and `Store` are `readram()` and `writeram()` of one byte or one
word, which first ask `Pageaddr`. The device range is an address set of which
loads return anything and stores go nowhere in RAM. An index behind the end of
`pagetable[]` reads an arbitrary entry. User programs load, store and trap: the
simulator would let them change page tables as well (no instruction is
privileged in `fsim/main.c`), and nothing could then be said about isolation.

In `MicroCpu` a tick is four steps, as in the loop of `main2.c:88-157`: in each
phase `ClearSig`, which forgets what the row of the last phase has raised, and then
`Posedge` or `Negedge`. Of the signals only `breek` is a variable, since `Fsm` tests it
before the row of its own phase is looked up; `cleared` says which of the two steps is next. A microcode row is a record of the raised signals and mux
settings; what a row of `micro.mx` leaves out has the value its bits 0 select.
The signals are taken as settled: the loop of `main2.c:112-125` repeats until
they are. An M state finds the operand selections of the state before it, so
that no skip is decided on values that are still changing. The word at MAR is
decoded into any instruction; immediates are part of it.

In `OldMicroCpu` a step is one round (`Vcycle`) of the loop `main.c:108-123` as
long as a signal still changes, then the edge (`RisingEdge`, `FallingEdge`), or a
cycle that is skipped. Of the signals the buses and the skip flag are variables,
since each round reads what the last one left; selections and the other signals
follow from the row and are the same in every round. `MDRout` is a copy of MDR
and `RAMout` is set anew in every round, so neither is kept. `Means` lists where
this simulator differs from `fsim`; everywhere else `Isa` is implemented.

In `InstrWord` a line is a command with its arguments, a word a number, and
`instr_b` the sequence of its digits. An argument is a name or a number; a line of
`SourceLines` is any command, known or not, with any list of arguments, and `part`
says whether it stands in the program or is one of the two that the parser makes of
an `ld16` or a `la16`. The encoder knows only the halves of an `ld16` by a flag and cuts
every other `lda` and `addhi` as the parts of an address (`Argument`). `Valid` and `Encodable` are the ways in which
`asm.rb` ends before it has digits, and 16 digits are what `build` wants. A line becomes a word (`Assemble`) and a
word is decoded (`Decode`), by the shifts and masks of `fsim` and by the strings
of the microcode simulators side by side. `MicroStore` is evaluated once: a pass of
`micro-asm.rb` (`Pass`) writes one word after the other as it goes through the lines
(`Written`), and fills up to 64; `Micro` numbers the words of the three passes as
`loadmicrocode()` does, and `Fsm2Rows` and `OldRows` are what the simulators cut out of them.

In `Drivers` an iteration of the loop is `Loop` (`tick++` and `traps()`) and one
instruction of the program; `LookAtFifo` and `LookAtLsr` are `x` commands at the
prompt, between any two steps. The program reads blocks as `asm/sd_card_sim.s` does,
its loop over longwords written out, and then sends a character and waits for the UART
in `check_tx_free` of `asm/uart_test2.s`, instruction by instruction, since the UART
counts their ticks. `Addskp` adds 0x60 to the status as the code does, where a
comparison is meant: the label `returned`, behind it, is never reached (theorem
`PollNeverReturns`). Interrupts are masked, so the interrupt of a
read stays pending. A word read from the FIFO is the block and the place it comes
from, so that nothing can be mistaken for something else.

In `Assembler` a step is a line of the parser or one of the passes that the
last lines of `asm.rb` call. An item of the tables is a record of what placing
and encoding look at: the operation, its symbol and number, the flags of the
Ruby hash, its instruction number, address and code. Registers, and with them
most of the instruction set, are one operation `plain`; the fields are numbers,
since `bitsfromint` writes a number of so many bits. A name with a number is an
expression (`Calculated`): outside an `la16` it ends the assembler in `idsymbols`, or in
a `defw`, whose arguments that pass does not see, as a symbol that cannot be resolved. The
image is written without addresses of its own, and `loadbios()` puts its first word at
0 (`Ram`, `LoadedAt`), wherever `.code` has moved the labels. `Layout` computes the
address of a line from the source alone, without numbers, guard or pairs, and
`Assembler` implements it: programs are accepted exactly when `Layout` says so.

## Runs

| run | instance | shows |
|---|---|---|
| `cpu_any` | `MCFsimCpu.cfg`: all classes in both banks, two addresses, latency 3 | syscalls are precise, no user instruction runs over a pending trap, a free status is good for a read, the interrupt unit is implemented |
| `cpu_live` | `MCFsimLive.cfg`: handler and application classes, a kernel without `wcr` that awaits each read's interrupt, prompt used, one block beyond the image | one interrupt per read; no handler is interrupted; reads run out, the disk interrupt gets through |
| `skip_cond` | `MCSkipCond.cfg`: all operands of 3-bit words in 2 registers, every aliasing | decisions of both simulators against the meaning of the conditions; they part only where `fsim` skips an unsigned condition behind an instruction that left a carry |
| `paging` | `MCPaging.cfg`: 3 pages of one word, the last a device, 2 tables, 6 frame numbers | isolation, stores stay inside, private memories |
| `micro` | `MCMicroCpu.cfg`: 4-bit words, 5 registers, 8 RAM words, every operand combination | the microcode carries out the instructions; fetches are from the new PC; `brk` never stops the machine |
| `old_micro` | `MCOldMicroCpu.cfg`: the same programs, R0 and the word 0 among them | signals settle within three rounds on what the circuit computes; the instructions are carried out but for `Means`; `brk` prompts once, at its own end |
| `decode` | `MCInstrWord.cfg`: all 65536 words; 32008 lines of every command with arguments at, below and above the limits of its fields, or the wrong ones, of which 23612 are accepted | the simulators read alike, and as the line says, what the assembler wrote, but for the number of a written `lda` or `addhi`; they look up the rows of `micro.mx` |
| `drivers` | `MCDrivers.cfg`: four reads of three blocks, one of them twice, three longwords of each; three looks at the FIFO and any number at the UART | data arrive complete and in order, the pointer leaves the sector only with looks, all blocks are read; only a look makes the program find the UART busy, and it finds it free again |
| `assembler` | `MCAssembler.cfg`: all programs of up to 5 lines of 16 kinds, 5 million states | the passes implement the layout; branches, constants and data are right when `fsim` executes the image where it loads it |
| `cause_in_r1` | any program with a syscall and a read | violated: R1 holds both causes (`conventions.md:3`) |
| `carry_trap` | an application with additions, a kernel that returns | violated: `reti` clears the user's carry (`fsim/main.c:368-369`) |
| `data_ignored` | code, a label and data as in `validation/a_002.s` | violated: `.data` has no effect (`asm.rb:168`) |

Bounds and why they are enough.

- `SdDelay` 3 in place of 99999 `traps()` calls: the values that matter are 0
  (no operation), 1 (about to fire), 2 (status still busy) and one above.
  The proofs have any delay above 1.
- `PcSpace` 2 or 3 addresses: the PC only matters as "the vector", "behind the
  instruction" and, in `cpu_live`, "at or above the limit" of the loop test.
- `FifoBytes` 0 where no property looks at the FIFO (a model without FIFO
  reads); 4 with 4 of slack in `cpu_live`, so the pointer passes the end.
  `FifoSlack` bounds the pointer; the code has no bound.
- Three-bit words in `skip_cond` contain every relation of signs, borrow and
  overflow; `Half` is free in the proofs.
- Two processes and a page of the kernel in `paging`, six frame numbers on
  three pages: one of the entries names a page beyond RAM, as the truncation
  of `ptetmp` permits. One entry is taken away again while processes run.
- `SdDelay` 5 and 12 bytes of FIFO in `drivers`: the program gets to poll before
  the card is done, and three longwords are its sector. A look moves the pointer
  by four bytes; three of them, in any distribution, and `FifoSlack` to match. Looks at
  the UART change no counter and have no bound.
  `since` keeps the difference of `tick` and `tx_delay` up to 2, all that the
  comparison tells apart. The proofs have any delay, sector and number of looks.
- `MaxVcycles` is the 15 of the code; `Stabilizes` says that 3 are reached.
- `decode` has no bound on words. Machine words are 4 bits there, as in `micro`,
  but no field of `InstrWord` depends on them: the widths are those of the code.
- `MaxInstrs` 1 in `micro` and `old_micro`: one instruction from each of six register
  contents, both carries and two values of MDR, then `hlt`. An instruction
  finds nothing else of its predecessor, since IR and MAR are overwritten by
  its fetch. Immediates are 1, -8 and -2; shift counts go to 15. The target
  of a result is never R0 in `micro`: `fsim` writes R0, `main2.c:829-831` does
  not; in `old_micro` it may be, `main.c:784-788` ends.
- `MaxLines` 5 in `assembler`: enough for a row of two labels with data or code
  on both sides, and for a string between two other kinds of data. Code starts
  at 0 or at 510, so that addresses need one part or two; `BrSpan` 8 (three
  bits for 13) lets a branch be out of range within five lines. The other
  widths are those of the code.

`micro`, `old_micro`, `decode`, `drivers`, `assembler` and `data_ignored` do not
check for deadlock: the program ends. In `FsimCpu` the end of the process is the step `Ended`.

## Fairness

`FairSpec` is weak fairness of `Step`: the loop goes on. One thread runs it
and no instruction waits, except at a prompt, where a user is taken to answer;
SIGINT has no fairness. `DiskTrapDelivered` assumes that the program keeps
coming back to an interruptible user program, since a kernel that never
returns is a program the code permits. Nothing is assumed about which
instructions are executed. The kernel of that run has `wcr.u` (it is in `HandlerOps`)
but no `wcr`: it never unmasks the interrupt in its own bank. It may mask it in the user
bank for ever, and such a run is outside the premise, since it does not come back to an
interruptible user program.

`Drivers` has weak fairness of the loop and the program together: nobody stays at the
prompt for ever, and nobody has to use it. Its looks at the UART are without a bound, and
who looks at the line status register in every other iteration finds it free each time
and leaves it busy for the program, in the code as in the model. So `FoundFreeAgain`
has as its premise that those looks end at some time, and `BusyByLooksOnly` says that
nothing but such a look makes the program find it busy.

## Proofs

`FsimCpu_proofs`. `TypeCorrect` is by one step per action. The invariants need
a strengthening: `IInv` adds that a syscall which has just been executed is
pending (for `SyscallIsPrecise`), and that without `wcr` in the kernel's
classes the IR bit of `scr` stays off (for `KernelNotReentered`; `Reti`'s carry
reset and `wcr.u` are the steps that could break it). `OneTrapPerRead` and
`PollGrantsRead` are inductive with `TypeOK`. `Refinement` maps `TakeTrap` to
`Deliver`, `NoTrap` and `Syscall` to `Arrive`, `Rsi` to `Clear`, `Reti` to
`Return`, `Wcr` and `WcrUser` to `Admit`, and the rest to stutters.

`Instruction_proofs`, first part: `InstrWord`, for every set of lines that
`SourceLinesAssumption` admits (commands and arguments of any number and value) and
every set of words (`WordsAssumption`: 16 bits). The invariant `WordInv` says where the
word comes from: from a line it is the value of the line's 16 digits, and what is
decoded is this word. The rest is about what the operators compute.

- *Strings of digits.* The widths are those of the code, so their powers of two are
  needed as numbers (`Powers`, by `PowerStep`, which counts the subsets of a set).
  A sum over digits is a `CHOOSE`; that a function with its equations exists and is
  the only one comes from the well-founded naturals (`Recursion`, `Unique`, `Climb`), as
  in `Assembler_proofs`. `WeighedIs` says what a sum of weights is, `BinValue` that
  bin2dec is the number that the beginnings of a string double and add to, `Dec2binValue`
  and `DigitsBack` that dec2bin and bin2dec undo each other, `FieldValue` that a field
  cut out of the digits is a quotient's remainder. From these `ConversionsTheorem`.
- *The control store.* A microword is read back field by field (`RowArrives`): where
  each part stands, that a selection's number fits its digits and leads back to its
  name (`Number`), and that the signals at their positions have the names the
  microcode assembler gave them. A pass builds its words as a sequence (`BuiltExists`,
  `PassIs`), so the k-th line has the word k, and the lines of `micro.mx` have the
  places that the simulators compute (`MicroIs`, `RowFound`). From these `RowsTheorem`;
  it would be false if a number alone in `micro.mx` wrote nothing.
- *Taking a word apart.* Every string that a microcode simulator cuts is a quotient's
  remainder (`PartNumber`), and so are fsim's masks and shifts; a shift to the upper
  end of 16 bits and back extends the sign as sbin2dec does (`SbinIs`,
  `ImmediatesAgree`), and the immediate that the row of an operation selects is the
  one of fsim's case (`MicroImmediates`). From these `SimulatorsTheorem`, for all words
  but those with the opcodes 64 to 66 (`Reserved`), for which it is false.
- *From a line to its operands.* The digits of an argument have the length of its
  field and read back as the argument (`EncodedValue`); the opcode and the fields of a
  line with 16 digits stand one after the other (`LineArrives`, `ArgumentArrives`); the
  template of a command puts each argument where the operation looks for the operand
  that the line means (one lemma for each kind of command, joined in
  `OperandsArrive`); the opcode selects the command's operation in every simulator that has it
  (`OperationArrives`). From these `LinesTheorem`, which says nothing of the number of a written `lda` or
  `addhi` (`TakenForParts`), since the encoder cuts it. That the line had 16 digits is
  what rules out `nop`, whose opcode has nine.

`Instruction_proofs`, second part: `SkipCond`. Most of it is about the state left by one
`skip.c`: the lemmas `MicroRight`, `FsimAgrees` and `FsimSkipsToo` are arithmetic on
two words, and the invariant says that `last` is what such an instruction leaves.
`PartByNeighbourOnly` relates two states: the invariant says of which operands the carry
is unless a result has replaced one of them (`CarryIsOfLast`), so a carry that no borrow
of the skip's own explains was left by the instruction before.

`Paging_proofs`. The invariant is that every entry of the table is empty or one
of `MayMap` (`Installed`): the table is changed by `wpte` only. With
`Disciplined` (the kernel grants no physical page twice, counted modulo the
pages there are) different entries of different tables denote different pages
(`FramesApart`), from which a store that is granted leaves the views of the
other tables alone. `Refinement` shows that a store or load of the machine is
one of the running process's memory, a fault a fault, and that everything the
kernel does is `Kernel`. `Disciplined` is a hypothesis of the theorems: it is a
promise of the kernel, not of the simulator.

`Assembler_proofs`. The recursive functions of the model (`Role`, `Totals`,
`Those`) are `CHOOSE`s of which nothing is known before a function with the
equations has been found. `Recursion` finds it, `Unique` gives its values, and
`Totalled`, `ThoseAre`, `RoleIs` and `PlacementIs` say what follows for each of them;
they rest on `Climb`, induction up to a bound with a set in the place of the
property, from the library's fact that the naturals are well-founded.
`LabelsCorrect` is about the label guard. The invariant adds
what the guard counts: the labels whose numbers are the last `guard` ones
(`Row`) are exactly those that point to the next number to be given. A label
extends the row and moves its members on; a line that stands for at least one
item ends it, so `ItemsType` has to establish that every line stands for a
sequence of items; a `defs 1` stands for none and must leave the guard alone.
`TypeCorrect` needs two facts that no type says: data are without address and code
until `Placemem` (`Fresh`), so that a pair of bytes is merged once and fits a word,
and when the image is written every item that is put out has a code.

The rest of the module follows a line of the source through the passes, and `AInv`
says what holds before each of them. The parser has every line in the table of its
kind, its items one behind the other and in the order of the source (`Parsed`, by
`Listed`). Placing joins the tables to one (`Laid`), with what `Role` and `Placement`
say of it in one place (`Placing`); `ItemsPlaced` is the heart of the refinement: the
address of every item is the one that `Layout` computes for its line. For code it
counts words; for data it goes line by line (`LinePlaced`), where what `Layout` has
reached and the assembler's pointer may differ by the byte that stays alone (`Gap`,
`Meets`); for what is reserved it starts where the data have ended, evened. A symbol
leads to the number behind its label (`Pointed`), this number to the first item that
has it, and so to the address of `Layout` (`Resolved`). Behind `idsymbols` no expression is left but in an `la16` (`Passed`). The encoder then accepts exactly
the lines that fit (`LineBuilt`, from `Entry` and one lemma per operation), so the passes
and `Layout` reject the same programs, and the image has the code of each item at
its address (`AtIs`). What `fsim` decodes from a field is what was encoded for every
width of the fields (`BranchesDone`, `ConstantsDone`), and a pair of bytes is taken apart
again (`DataDone`). `BranchesCorrect`, `ConstantsCorrect`, `DataCorrect` and
`Refinement` combine these; all of them for any set of lines and any number of lines.
Their only assumptions are those of `AsmSource` on the widths of the fields and on
the lines.

`Drivers_proofs`. Most of the invariant is about where the program is:
the card is busy only between the command and the poll that finds it free
(`CardFree`, from which `NeverRefused`), the FIFO holds the block asked for
(`InBlock`), its pointer is four times the longwords taken plus four for each look
(`Pointer`), and the high word in the register is that of the next longword (`InHand`).
`TakenAsRead` extends by one longword at `Low`, with `InHand`; a look falsifies its
premise and never its conclusion. For `BusyByLooksOnly`, `Waited` counts the ticks
since the program has read the line status register: the three other instructions of the
poll are what it takes. `PollNeverReturns` is arithmetic on the two values that register
has.

`Microcode_proofs` has what the next two modules share, and `Instruction_proofs` of it
what a row may name: sums, shifts, bytes and
RAM words are words (`SumType`, `ShiftType`, `ByteTypes`, `ReadRamType` and so
on), and what the row of each kind of instruction raises and selects in each state
(`DirectRow`, `ReadRows`, `MemoryExecRow`, `ImmExecRow`), so that no proof about
a latch has to look at the table. That a power of two is a positive number would be
an induction; it is the number of subsets of a finite set instead
(`PowerOfTwo`).

`MicroCpu_proofs`. Types need `Flow`, the way of an instruction through the
states: which classes of `ir.op` each state can find, since a row that is
missing in a state would latch nonsense. One lemma per state says what its
falling edge does (`LeavesFetch` to `LeavesExecm`), and everything later rests on
these. `BreakIsLost` follows from `Clean`: behind `ClearSig` no BREEK is left, and the step that
tests it comes only then. `FetchesAtPc` follows, with the `Leaves` lemmas, from
`Flow`, which has MAR equal to the PC in FETCH. For `Refinement` the invariant is `Progress`: how far the
instruction has come in each state, against the registers and memory `snap`
has kept of its beginning. `RegsSoFar` are those registers, with the PC raised from
DECODE on, with SP moved from READM or EXECM on, and in the last phase the
outcome `RegsAfter`; `RamSoFar` is the memory then, changed in the last phase of
a store only; `Transfers` is what MAR, MDR and the carry hold for the states to come.
Each falling edge takes `Progress` to that of the next state, `RaisedWrites` covers
the rising ones, and `Executes` says that the outcome is what `Isa` prescribes;
`StepImplements` then maps the step into FETCH to `Isa`'s step and the others to
stutters or its fetch. The hypothesis `NoResultToR0` says that
no instruction of the program has R0 as target of a result: `fsim` writes R0,
`main2.c` does not, so the theorem without it is false. The run's
`Program(Regs \ {0})` satisfies it.

`OldMicroCpu_proofs`. Beside `Flow`, which also says which cycles are skipped
(`SkipsLeft`), types need `Shifted`: `addhi` shifts by some bits, and neither its
immediate nor what is on the bus before it has so many that the result leaves a word.
`Settling` is the invariant about rounds: after one the operands on the buses are those
of the row, after two the ALU's result is that of the operands, after three the
skip flag is that of the result, whatever the last cycle left on the buses. From it
come `StabilizesHolds`, if the limit on rounds permits three (the code has 15), and
`SignalsSettleHolds`, for every limit. `Broken` ties the prompt to the latch of
`brk` for `BreakIsPromptHolds`. `Refinement` has the plan of the one above, with one `Falls`
lemma per cycle and `Progress` in terms of `Meant`, the instruction that `Means`
makes of the one in IR. It needs no hypothesis on R0, since such a result ends
`main.c`. It needs `LongShiftsAssumption`, which says that N is a power of two:
the count of a shift in `Isa` is a word, N is none, and N shifts are as good
as N - 1 only when both leave nothing of a word.

The assumptions on constants are the named `ASSUME`s of the modules; TLC
evaluates them in the runs.

Model-checked only: liveness (`ReadRunsOut`, `DiskTrapDelivered`, `FoundFreeAgain`), which
needs fairness and ENABLED, out of the prover's reach. Every invariant and every
other action or refinement property of the passing runs is a theorem.

## Observations

Defects of single statements that the models showed and no run is about:

- `main2.c:92` clears `csig[BREEK]` in every phase before `fsm_function()`
  tests it, so a `brk` never leads to the state BREAK of `main2.c:197-198`;
  `BreakIsLost` says so, and would not hold if `ClearSig` kept the signal.
- `lpte` (`fsim/main.c:308`) takes the number of its operand register as the
  index, where `wpte` takes the register's value.
- A byte without another one to share its word with is encoded as that word
  (`asm.rb:408`), so `ldb` from its label reads 0 and not the byte.
  `DataReadsBack` excepts it; the strings end in a zero, and the tests define
  bytes in even numbers.
- A label with nothing behind it is reported as an undefined symbol, since
  `find_instr_nr` dumps the table before its own message (`asm.rb:440`).

- `skip.c` of `fsim` sets the carry on a borrow and does not clear it before it
  looks (`fsim/main.c:178`, `192`): `skip.ult` after an `add` with carry skips
  although the first operand is not below the second. `PartByNeighbourOnly`
  is the half that holds. An `add` or `sub` into one of its own operands computes
  the carry from the result (`fsim/main.c:136`, `145`).
- `pageaddr()` keeps the physical address in 16 bits (`fsim/main.c:674`), so of
  the 256 physical pages of `conventions.md:17` those that differ by 32 are one.
- `decode()` takes the opcodes 64 to 66 of seven bits for the short opcode 4
  (`fsim/main.c:412`), a load; `main2.c` takes them for 0 to 2. The assembler
  writes none of them (`LinesKeepTheirMeaning`).
- `main.c` differs from the other two: shifts are by one more than the count
  (`main.c:646-649`), `sext` is a move (an `add` of R0), since bit 45 of the row is not read, a
  skip is lost when the sum goes to the PC (`main.c:583-589`), a result for R0
  and the instruction word 0, `ldi r0, 0`, end it.
- An `addhi` or `lda` that is written in a program loses a part of its number: `encode`
  takes the upper seven bits of the one and the lower nine of the other
  (`asm.rb:591-599`) unless it comes from an `ld16`, as if they were the parts of an
  address. `validation/a_001.s:52` writes `addhi r1, 0x7f` and says "together should make
  0xffff"; what is encoded is `addhi r1, 0`. `asm_old.rb:66-67,452` still had a flag
  (`:adjust`) for the parts of an address. `asm/array.s:26,51` and `asm/test.asm:44` use
  `lda` of a label alone. `Argument` has it as the code does, `OperandsOf` as the line
  says, and `LinesKeepTheirMeaning` has to except the number (`TakenForParts`).
- `ld16 r1, -600` is refused: every number below 512 becomes an `ldi`, whose field holds
  no less than -511, although the comment at `asm.rb:271` promises "an arbitrary
  length (up to 16b) imm". `Layout.Fits` has it as the code does.
- A program with `.code` is loaded at 0 by `fsim` (`fsim/main.c:877-919`): branches are
  relative and arrive (`BranchesReachLabels`), the addresses of `la16` are off by what
  `.code` says unless the program moves itself there first.
- `stw` and `stb` of r0 with a number are taken for `stw0` and `stb0` whatever the
  base is (`asm.rb:94-99`), and `stw 4(r1), r0` is then refused, since that form has BP
  only; `stw 4(r1), r2` is refused as well, but as the indexed form.
- In both microcode simulators the second port with `arg2` selects for the first
  (`main.c:523`, `main2.c:497`); no row of `micro.mx` has it.
- `bin13_to_dec` counts a leading 1 as 4196; nothing calls it.
- `nop` is encoded with 18 digits and refused by `build`; `ldw` with an offset
  and the base written `r5` is taken for the indexed form and refused.
- `micro.hex` has five of the six bytes of each microword (`micro-asm.rb:252`);
  the simulators read `micro.hexish`.
- None of the programs for the UART gets through on `fsim`: the poll of
  `uart_test2.s:35-40` and `string_write_test.s:54` adds where it means to compare, so that its
  `br.r` is never reached (`PollNeverReturns`), `uart_test.s` waits for 0x61 and
  `uart_rd.s` for a bit that `readuart()` never sets.

## Not modelled, and why

- Page faults end in a prompt, where the user may quit; the model goes on, as
  the code does when the user answers.
- SIGINT is handled between two steps, not between two C statements.
- Contents of sectors, of the FIFO and of instructions in RAM.
- Undefined behaviour outside the table (`pagetable[ptb + i]`) is an arbitrary
  entry; an index of `wpte` outside it is excluded by `MayMap`, a shift count
  of 32 or more by the word size of the instance.
- `main2.c` has 4096 words of RAM and checks no address; `MicroCpu` has all of
  the address space. Control registers, paging and the user bank exist in the
  microcode but `main2.c` ignores those bits.
- In `OldMicroCpu` `lcr` and `wcr`, which reach FLAGS as a register; the effect of
  the rows for the hardware alone, whose signals no simulator looks at.
- The assembler's text processing, listing and file formats;
  exit statuses. An item of the program that Ruby would raise an exception for
  (a symbol in `defb` or `ld16`) is not among the lines.
- Loaders, dumps, wording of output; `micro.hex`. The digits in the files are
  taken to be those that were written.
- `asm_old.rb`, the scratch programs, the validation programs and their runner:
  nothing calls them, or they only print what they find.

## Plan

Done: `SdCard`, `FsimCpu` with `InterruptUnit`, `CondCodes` and `SkipCond`,
`Paging` with `ProcessMemory`, `Isa` with `MicroCpu` and `OldMicroCpu`,
`Assembler` with `Layout`, `BitStrings`, `MicroStore` and `InstrWord`, `Uart` and
`Drivers`; proofs for `FsimCpu`, `SkipCond`, `Paging`, `Drivers`, `MicroCpu`,
`OldMicroCpu`, `Assembler`, its refinement of `Layout` included, and `InstrWord`.

Next: nothing of the safety properties is left to prove. `Assembler` has numbers for
fields and `InstrWord` digits; a refinement between the two would join what is proved
about labels and placement to what is proved about words.
