---------------------------- MODULE OldMicroCpu ----------------------------
(***************************************************************************)
(* The older microcode simulator, main.c. It loads the microcode of         *)
(* main2.c but has no state machine: an instruction is a loop over eight    *)
(* cycles, of which DECODEM may have the next ones skipped, and each of the *)
(* two clock phases of a cycle first repeats decodesigs(), ALU() and        *)
(* resolvemux() until no signal changes any more ("vcycles"). An iteration  *)
(* of that loop is a step here; the signals in between are part of the      *)
(* state. The instructions are those of Isa with the differences that       *)
(* Means() lists.                                                           *)
(***************************************************************************)
EXTENDS Microcode

CONSTANTS
    InitRegs,   \* register contents a program may have left
    InitRam,    \* and RAM contents
    InitMdr,    \* and values of the last transfer
    MaxInstrs,  \* bound: a program ends with hlt after so many instructions
    MaxVcycles  \* a signal that has not settled by then ends the simulator: 15

ASSUME OldInitAssumption ==
    /\ InitRegs \subseteq {r \in [Regs -> Word] : r[0] = 0}
    /\ InitRam \subseteq [0 .. Half - 1 -> Word]
    /\ InitMdr \subseteq Word
    /\ MaxInstrs \in Nat /\ MaxVcycles \in Nat

\* N is a power of two: a shift by N - 1 or more leaves no bit of a word.
ASSUME LongShiftsAssumption ==
    \A x \in Word, n \in {N - 1, N} : Shl(x, n) = 0 /\ Shr(x, n) = 0

VARIABLES
    icycle, phase,  \* clk
    vcycle,     \* the vcycles of this phase that changed a bus or the skip; the
                \* other signals and the selections are those of the row
    bus,        \* bsig without MDRout, which is always MDR, and RAMout, which
                \* readram() sets anew in every vcycle
    skip,       \* csig[SKIP]
    csbs,       \* carry_should_be_set
    skipcycle,
    breakp,
    regs,       \* regfile, FLAGS apart
    carry,      \* the carry bit of FLAGS
    mar, mdr, ir,
    ram,
    ended,      \* "" while the simulator runs, then what ended it
    snap,       \* history: registers and RAM when this instruction was fetched,
                \* and the registers when its predecessor was
    count       \* history: instructions fetched

clkvars == <<icycle, phase, vcycle, skipcycle>>
sigvars == <<bus, skip, csbs, breakp>>
machine == <<regs, carry, mar, mdr, ir, ram>>
vars    == <<clkvars, sigvars, machine, ended, snap, count>>

Cycles == <<"FETCH", "FETCHM", "DECODE", "DECODEM", "READ", "READM", "EXECUTE", "EXECUTEM">>
Cycle == {Cycles[n] : n \in 1 .. 8}

NextCycle(c) == IF c = "EXECUTEM" THEN "FETCH"
                ELSE Cycles[(CHOOSE n \in 1 .. 7 : Cycles[n] = c) + 1]

Odd == {"FETCH", "DECODE", "READ", "EXECUTE"}  \* loadpos; the others loadneg

Bus == [regr0 : Word, regr1 : Word, irimm : Word, aluout : Word,
        op0 : Word, op1 : Word, mdrin : Word]

TypeOK ==
    /\ icycle \in Cycle /\ phase \in {"RE", "FE"}
    /\ vcycle \in 0 .. MaxVcycles + 1
    /\ bus \in Bus
    /\ skip \in BOOLEAN /\ csbs \in BOOLEAN /\ breakp \in BOOLEAN /\ carry \in BOOLEAN
    /\ skipcycle \in 0 .. 4
    /\ regs \in [Regs -> Word] /\ regs[0] = 0
    /\ mar \in Word /\ mdr \in Word
    /\ ir \in Instr \cup {None}
    /\ ram \in [0 .. Half - 1 -> Word]
    /\ ended \in {"", "halt", "no instruction", "write to R0", "unstable"}
    /\ snap \in [regs : [Regs -> Word], ram : [0 .. Half - 1 -> Word],
                 before : [Regs -> Word]]
    /\ count \in 0 .. MaxInstrs + 1

NotRe == (ByteSize - 2) * (ByteSize + 1)  \* 0xfefe, RAMout without RE

\* The buses are as an instruction leaves them that ends in a row without
\* settings; the immediate is some.
Init ==
    /\ icycle = "FETCH" /\ phase = "RE" /\ vcycle = 0 /\ skipcycle = 0
    /\ regs \in InitRegs /\ ram \in InitRam /\ mdr \in InitMdr
    /\ mar = 0 /\ ir = None
    /\ bus = [regr0 |-> 0, regr1 |-> 0, irimm |-> mdr, aluout |-> 0,
              op0 |-> 0, op1 |-> 0, mdrin |-> mdr]
    /\ skip = FALSE /\ csbs = FALSE /\ breakp = FALSE
    /\ carry \in BOOLEAN
    /\ ended = ""
    /\ snap = [regs |-> regs, ram |-> ram, before |-> regs]
    /\ count = 0

-----------------------------------------------------------------------------
\* decodesigs(): the row of this cycle and the signals it raises.

Row ==
    CASE icycle \in {"FETCH", "FETCHM"}     -> FetchRow
      [] icycle \in {"DECODE", "DECODEM"}   -> DecodeRow(ir.op)
      [] icycle \in {"READ", "READM"}       -> ReadRow(ir.op)
      [] icycle \in {"EXECUTE", "EXECUTEM"} -> ExecRow(ir.op)

LoadNeg == {"ir_load", "reg_load", "ram_load", "incr_pc", "decr_sp", "incr_sp"}
LoadPos == {"mar_load", "mdr_load"}

\* sext is a bit that main.c does not look at.
Raised == Row.sig \ (IF icycle \in Odd THEN LoadNeg ELSE LoadPos)

Selected(r) ==
    CASE r = "reg0" -> 0
      [] r = "bp"   -> BP
      [] r = "sp"   -> SP
      [] r = "pc"   -> PC
      [] r = "arg0" -> ir.arg0
      [] r = "arg1" -> ir.arg1
      [] r = "arg2" -> ir.arg2
      [] r = "tgt"  -> ir.tgt
      [] r = "tgt2" -> ir.tgt2

\* The instruction word 0, ldi r0, 0, is taken for no instruction.
NoInstruction ==
    /\ icycle \notin {"FETCH", "FETCHM"}
    /\ ir.op = "ldi" /\ ir.tgt = 0 /\ ir.imm = 0

NextState(row) == CASE row.skipstate = "READ" -> 0
                    [] row.skipstate = "EXEC" -> 1
                    [] row.skipstate = "FETCH" -> 2

\* chkskip(), on what the ALU has put out so far.
Chkskip(aluout) ==
    LET c == Row.skipc
    IN  MicroDecides(IF c = "zr" THEN "EQ" ELSE IF c = "nzr" THEN "NEQ" ELSE ir.cond,
                     aluout, carry)

-----------------------------------------------------------------------------
\* One vcycle. decodesigs() checks the skip on the last vcycle's ALUout, ALU()
\* reads its operands, and resolvemux() sees ALU()'s result.

SkipAfter ==
    IF Row.skipc = "none" THEN skip
    ELSE Chkskip(bus.aluout) /\ (icycle \notin Odd \/ skip)

ALUKeepsCarryOut(f, x, y) ==
    CASE f = "add"   -> x + y
      [] f = "sub"   -> Diff(x, y)
      [] f = "and"   -> BitAnd(x, y)
      [] f = "or"    -> BitOr(x, y)
      [] f = "shl"   -> Shl(x, y + 1)
      [] f = "shr"   -> Shr(x, y + 1)
      [] f = "addhi" -> AddHi(x, y)

ALU(f, x, y) ==
    CASE f = "add"   -> Sum(x, y)
      [] f = "sub"   -> Diff(x, y)
      [] f = "and"   -> BitAnd(x, y)
      [] f = "or"    -> BitOr(x, y)
      [] f = "shl"   -> Shl(x, y + 1)
      [] f = "shr"   -> Shr(x, y + 1)
      [] f = "addhi" -> AddHi(x, y)

CarryAfter ==
    CASE Row.alu = "add" -> bus.op0 + bus.op1 >= N
      [] Row.alu = "sub" -> Borrow(bus.op0, bus.op1)
      [] OTHER           -> csbs

RAMout == IF "re" \in Row.sig THEN ReadRam(ram, mar, "be" \in Row.sig) ELSE NotRe

BusAfterOperandsOffByThree ==
    LET out == ALU(Row.alu, bus.op0, bus.op1)
        r0  == regs[Selected(Row.r0)]
        r1  == regs[Selected(Row.r1)]
        imm == IF ir = None THEN bus.irimm ELSE ir.imm
        Operand(sel) == CASE sel = "regr0" -> r0 [] sel = "regr1" -> r1 [] sel = "mdr" -> out
    IN  [regr0 |-> r0, regr1 |-> r1, irimm |-> imm, aluout |-> out,
         op0 |-> Operand(Row.op0), op1 |-> Operand(Row.op1),
         mdrin |-> CASE Row.mdrs = "imm" -> imm
                     [] Row.mdrs = "ram" -> RAMout
                     [] Row.mdrs = "alu" -> out]

BusAfter ==
    LET out == ALU(Row.alu, bus.op0, bus.op1)
        r0  == regs[Selected(Row.r0)]
        r1  == regs[Selected(Row.r1)]
        imm == IF ir = None THEN bus.irimm ELSE ir.imm
        Operand(sel) == CASE sel = "regr0" -> r0 [] sel = "regr1" -> r1 [] sel = "mdr" -> mdr
    IN  [regr0 |-> r0, regr1 |-> r1, irimm |-> imm, aluout |-> out,
         op0 |-> Operand(Row.op0), op1 |-> Operand(Row.op1),
         mdrin |-> CASE Row.mdrs = "imm" -> imm
                     [] Row.mdrs = "ram" -> RAMout
                     [] Row.mdrs = "alu" -> out]

SettledButForSkip == BusAfter = bus

\* sigupd is still 0 at the end of the vcycle.
Settled == BusAfter = bus /\ SkipAfter = skip

Running == ended = "" /\ skipcycle = 0

Vcycle ==
    /\ Running /\ ~NoInstruction /\ ~Settled
    /\ vcycle =< MaxVcycles
    /\ vcycle' = vcycle + 1
    /\ bus' = BusAfter /\ skip' = SkipAfter /\ csbs' = CarryAfter
    /\ breakp' = (breakp \/ "brk" \in Row.sig)
    /\ UNCHANGED <<icycle, phase, skipcycle, machine, ended, snap, count>>

\* "HALT: no instruction in IR" or "ERROR: signal does not stabilize!"
GiveUp ==
    /\ Running /\ (NoInstruction \/ vcycle > MaxVcycles)
    /\ ended' = IF NoInstruction THEN "no instruction" ELSE "unstable"
    /\ UNCHANGED <<clkvars, sigvars, machine, snap, count>>

-----------------------------------------------------------------------------
\* latch() and the rest of the loop's body, once the signals are stable.

Latching(p) ==
    /\ Running /\ ~NoInstruction /\ Settled /\ vcycle =< MaxVcycles /\ phase = p
    /\ vcycle' = 0
    /\ csbs' = CarryAfter

\* The rising edge: RAM is written, and the carry in EXECUTE.
Writeram == IF "ram_load" \in Raised THEN WriteRam(ram, mar, mdr, "be" \in Row.sig) ELSE ram

WriteCR == IF icycle = "EXECUTE" THEN CarryAfter ELSE carry

RisingEdge ==
    /\ Latching("RE") /\ phase' = "FE"
    /\ ram' = Writeram /\ carry' = WriteCR
    /\ breakp' = (breakp \/ "brk" \in Row.sig)
    /\ UNCHANGED <<icycle, skipcycle, bus, skip, regs, mar, mdr, ir, ended, snap, count>>

\* The registers: a skip increments the PC before the write port is served,
\* all other counting comes after it.
LatchedRegs ==
    LET Add(r, k, d, b) == IF b THEN [r EXCEPT ![k] = Sum(@, d)] ELSE r
        skipped == Add(regs, PC, 2, skip)
        written == IF "reg_load" \in Raised
                   THEN [skipped EXCEPT ![Selected(Row.ws)] = bus.aluout] ELSE skipped
        up == Add(written, PC, 2, "incr_pc" \in Raised)
        down == Add(up, SP, N - 2, "decr_sp" \in Raised)
    IN  Add(down, SP, 2, "incr_sp" \in Raised)

WritesR0 == "reg_load" \in Raised /\ Selected(Row.ws) = 0

AdvanceSkipsRest ==
    /\ icycle' = NextCycle(icycle)
    /\ breakp' = ((breakp \/ "brk" \in Row.sig) /\ icycle # "EXECUTEM")
    /\ skip' = FALSE
    /\ skipcycle' = IF icycle = "DECODEM" /\ NextState(Row) > 0 THEN 4 ELSE 0
    /\ snap' = IF icycle = "EXECUTEM"
               THEN [regs |-> regs', ram |-> ram, before |-> snap.regs] ELSE snap

AdvanceKeepsBreak ==
    /\ icycle' = NextCycle(icycle)
    /\ breakp' = (breakp \/ "brk" \in Row.sig)
    /\ skip' = FALSE
    /\ skipcycle' = IF icycle = "DECODEM" THEN 2 * NextState(Row) ELSE 0
    /\ snap' = IF icycle = "EXECUTEM"
               THEN [regs |-> regs', ram |-> ram, before |-> snap.regs] ELSE snap

\* The next cycle starts with cleared signals; the prompt for brk comes first.
Advance ==
    /\ icycle' = NextCycle(icycle)
    /\ breakp' = ((breakp \/ "brk" \in Row.sig) /\ icycle # "EXECUTEM")
    /\ skip' = FALSE
    /\ skipcycle' = IF icycle = "DECODEM" THEN 2 * NextState(Row) ELSE 0
    /\ snap' = IF icycle = "EXECUTEM"
               THEN [regs |-> regs', ram |-> ram, before |-> snap.regs] ELSE snap

FallingEdge ==
    /\ Latching("FE") /\ ~WritesR0 /\ phase' = "RE"
    /\ regs' = LatchedRegs
    /\ ir' \in IF "ir_load" \notin Raised THEN {ir}
              ELSE IF count < MaxInstrs THEN Instrs ELSE {Plain("hlt")}
    /\ mar' = IF "mar_load" \in Raised THEN bus.aluout ELSE mar
    /\ mdr' = IF "mdr_load" \in Raised THEN bus.mdrin ELSE mdr
    /\ count' = IF "ir_load" \in Raised THEN count + 1 ELSE count
    /\ ended' = IF ir' # None /\ ir'.op = "hlt" THEN "halt" ELSE ""
    /\ Advance
    /\ UNCHANGED <<bus, carry, ram>>

\* writeregfile() does not write R0 but ends the simulator.
RefusesR0 == Latching("FE") /\ WritesR0 /\ phase' = phase /\ ended' = "write to R0"
             /\ UNCHANGED <<icycle, skipcycle, bus, skip, breakp, machine, snap, count>>

\* A cycle that is skipped.
SkipCycle ==
    /\ ended = "" /\ skipcycle > 0
    /\ skipcycle' = IF icycle = "EXECUTEM" THEN 0 ELSE skipcycle - 1
    /\ icycle' = NextCycle(icycle)
    /\ snap' = IF icycle = "EXECUTEM"
               THEN [regs |-> regs, ram |-> ram, before |-> snap.regs] ELSE snap
    /\ UNCHANGED <<phase, vcycle, sigvars, machine, ended, count>>

Next == Vcycle \/ GiveUp \/ RisingEdge \/ FallingEdge \/ RefusesR0 \/ SkipCycle

Spec == Init /\ [][Next]_vars

-----------------------------------------------------------------------------
\* What settles is what the circuit computes: each latch finds on the buses the
\* values that follow from the registers, the RAM and the row of this cycle
\* alone, whatever the buses carried before, and the skip is decided on the
\* ALU's final result. (main.c:105-124, 483-567, 672-706)
Wired(sel) == CASE sel = "mdr"   -> mdr
                [] sel = "regr0" -> regs[Selected(Row.r0)]
                [] sel = "regr1" -> regs[Selected(Row.r1)]

SignalsSettle ==
    [][ phase' # phase =>
          /\ bus.aluout = ALU(Row.alu, Wired(Row.op0), Wired(Row.op1))
          /\ skip = (Row.skipc # "none" /\ icycle \notin Odd /\ Chkskip(bus.aluout)) ]_vars

\* The limit of 15 vcycles is never met: the longest way a change takes is from
\* a register over an operand and the ALU to the skip. (main.c:107-112)
Stabilizes == ended # "unstable" /\ vcycle =< 3

\* brk opens the prompt once, at its own end: the flag that a brk raises in
\* DECODE waits there for EXECUTEM and is not left to the next instruction.
\* (main.c:155-159, 422-426)
BreakIsPrompt ==
    /\ breakp => ir # None /\ ir.op = "brk" /\ icycle \notin {"FETCH", "FETCHM"}
    /\ ended = "" /\ icycle = "EXECUTEM" /\ ir.op = "brk" => breakp

-----------------------------------------------------------------------------
Longer(n) == IF n = N - 1 THEN n ELSE n + 1  \* N - 1 shifts out all bits

\* The instruction of fsim that main.c's execution of i amounts to, r being the
\* registers before the fetch: shifts are by one more than the count, sext is a
\* move (R0 added), and a skip is lost when the sum goes to the PC.
Means(i, r) ==
    LET by == IF i.arg1 = PC THEN Sum(r[PC], 2) ELSE r[i.arg1]
    IN  CASE i.op = "sext" -> [i EXCEPT !.op = "add", !.arg1 = 0]
          [] i.op \in {"shl", "shr"} -> [i EXCEPT !.imm = Longer(@)]
          [] i.op \in {"shl.r", "shr.r"} ->
               [Plain(IF i.op = "shl.r" THEN "shl" ELSE "shr") EXCEPT
                   !.arg2 = i.arg0, !.tgt2 = i.tgt, !.imm = Longer(by)]
          [] i.op \in Addskp /\ i.tgt = PC  -> [i EXCEPT !.op = "add"]
          [] i.op \in Addskpi /\ i.tgt = PC -> [i EXCEPT !.op = "addi"]
          [] OTHER -> i

\* With those differences main.c carries out the instruction set of fsim, each
\* instruction at once and completely, or stops. (main.c:86-162, 569-621,
\* micro.mx:1-150 against fsim/main.c:74-372)
I == INSTANCE Isa WITH regs <- snap.regs, ram <- snap.ram,
                       last <- IF icycle = "FETCH" /\ ir # None
                               THEN Means(ir, snap.before) ELSE None

ImplementsIsa == I!ISpec
=============================================================================
