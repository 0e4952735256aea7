------------------------------ MODULE MicroCpu ------------------------------
(***************************************************************************)
(* The microcode simulator, main2.c: the state machine, the signals that  *)
(* the row of the microcode raises, and the latches of the two clock       *)
(* phases. It carries out the instructions of Isa in five *)
(* to eight ticks each.                                                    *)
(*                                                                         *)
(* Which instruction a RAM word holds is left open: any of Instrs. RAM is  *)
(* as large as the address space; main2.c has 4096 words of it and checks  *)
(* no index. Control registers, the page table and the user bank, whose    *)
(* signals main2.c does not look at, are left out.                         *)
(***************************************************************************)
EXTENDS Microcode

CONSTANTS
    InitRegs,  \* register contents a program may have left
    InitRam,   \* and RAM contents
    InitMdr,   \* and values of the last transfer
    MaxInstrs  \* bound: a program ends with hlt after so many instructions

ASSUME InitAssumption ==
    /\ InitRegs \subseteq {r \in [Regs -> Word] : r[0] = 0}
    /\ InitRam \subseteq [0 .. Half - 1 -> Word]
    /\ InitMdr \subseteq Word
    /\ MaxInstrs \in Nat

VARIABLES
    clk,    \* the phase about to be simulated
    state,  \* of the state machine
    regs,   \* regfile, FLAGS apart
    carry,  \* the carry bit of FLAGS
    mar, mdr, ir,
    ram,
    breek,  \* csig[BREEK]
    cleared,  \* clearsig() has run in this phase
    snap,   \* history: registers and RAM as the instruction before this one left them
    count   \* history: instructions fetched

vars == <<clk, state, regs, carry, mar, mdr, ir, ram, breek, cleared, snap, count>>

Base == {"FETCH", "DECODE", "READ", "EXEC"}       \* odd in arch2.h: loadpos
Second == {"FETCHM", "DECODEM", "READM", "EXECM"}  \* even: loadneg

TypeOK ==
    /\ clk \in {"POSEDGE", "NEGEDGE"}
    /\ state \in Base \cup Second \cup {"BREAK", "ZERO_STATE"}
    /\ regs \in [Regs -> Word] /\ regs[0] = 0
    /\ carry \in BOOLEAN /\ breek \in BOOLEAN /\ cleared \in BOOLEAN
    /\ mar \in Word /\ mdr \in Word
    /\ ir \in Instr \cup {None}
    /\ ram \in [0 .. Half - 1 -> Word]
    /\ snap \in [regs : [Regs -> Word], ram : [0 .. Half - 1 -> Word]]
    /\ count \in 0 .. MaxInstrs + 1

Init ==
    /\ clk = "POSEDGE" /\ state = "FETCH"
    /\ regs \in InitRegs /\ ram \in InitRam /\ mdr \in InitMdr
    /\ carry \in BOOLEAN
    /\ mar = regs[PC] /\ ir = None
    /\ breek = FALSE /\ cleared = FALSE
    /\ snap = [regs |-> regs, ram |-> ram]
    /\ count = 0

-----------------------------------------------------------------------------
\* The row of state s, and the signals once they are stable.

Row(s) ==
    CASE s \in {"FETCH", "FETCHM"}   -> FetchRow
      [] s \in {"DECODE", "DECODEM"} -> DecodeRow(ir.op)
      [] s \in {"READ", "READM"}     -> ReadRow(ir.op)
      [] s \in {"EXEC", "EXECM"}     -> ExecRow(ir.op)
      [] OTHER                       -> Blank

Loadneg == {"ir_load", "reg_load", "ram_load", "incr_pc", "decr_sp", "incr_sp"}
Loadpos == {"mar_load", "mdr_load"}

Raised(s) == IF s \in Base THEN Row(s).sig \ Loadneg ELSE Row(s).sig \ Loadpos

Selected(r) ==
    CASE r = "reg0" -> 0
      [] r = "bp"   -> BP
      [] r = "sp"   -> SP
      [] r = "pc"   -> PC
      [] r = "arg0" -> ir.arg0
      [] r = "arg1" -> ir.arg1
      [] r = "arg2" -> ir.arg2
      [] r = "tgt"  -> ir.tgt
      [] r = "tgt2" -> ir.tgt2

Operand(s, bus) ==
    CASE bus = "regr0" -> regs[Selected(Row(s).r0)]
      [] bus = "regr1" -> regs[Selected(Row(s).r1)]
      [] bus = "mdr"   -> mdr

Op0(s) == Operand(s, Row(s).op0)
Op1(s) == Operand(s, Row(s).op1)

ALUout(s) ==
    LET f == Row(s).alu
    IN  CASE f = "add" /\ "sext" \in Row(s).sig    -> Sext(Op0(s))
          [] f = "add" /\ "sext" \notin Row(s).sig -> Sum(Op0(s), Op1(s))
          [] f = "sub"   -> Diff(Op0(s), Op1(s))
          [] f = "and"   -> BitAnd(Op0(s), Op1(s))
          [] f = "or"    -> BitOr(Op0(s), Op1(s))
          [] f = "shl"   -> Shl(Op0(s), Op1(s))
          [] f = "shr"   -> Shr(Op0(s), Op1(s))
          [] f = "addhi" -> AddHi(Op0(s), Op1(s))

\* carry_should_be_set in EXEC. The functions without a carry leave the value
\* of the last addition, which was R0 + R0.
CarryShouldBeSet(s) ==
    CASE Row(s).alu = "add" -> Op0(s) + Op1(s) >= N
      [] Row(s).alu = "sub" -> Borrow(Op0(s), Op1(s))
      [] OTHER              -> FALSE

RAMout(s) ==
    IF "re" \in Row(s).sig THEN ReadRam(ram, mar, "be" \in Row(s).sig)
    ELSE (ByteSize - 2) * (ByteSize + 1)  \* 0xfefe

MDRin(s) == CASE Row(s).mdrs = "imm" -> ir.imm
              [] Row(s).mdrs = "ram" -> RAMout(s)
              [] Row(s).mdrs = "alu" -> ALUout(s)

\* The condition is checked on stable signals: an M state finds the selections
\* of the state before it.
Skips(s) ==
    LET c == Row(s).skipc
    IN  \/ c = "zr"   /\ MicroDecides("EQ", ALUout(s), carry)
        \/ c = "nzr"  /\ MicroDecides("NEQ", ALUout(s), carry)
        \/ c = "cond" /\ MicroDecides(ir.cond, ALUout(s), carry)

-----------------------------------------------------------------------------
ClearSigKeepsBreek ==
    /\ ~cleared /\ cleared' = TRUE
    /\ UNCHANGED <<clk, state, regs, carry, mar, mdr, ir, ram, breek, snap, count>>

\* clearsig(), with which each phase begins.
ClearSig ==
    /\ ~cleared /\ cleared' = TRUE
    /\ breek' = FALSE
    /\ UNCHANGED <<clk, state, regs, carry, mar, mdr, ir, ram, snap, count>>

\* The rising edge: RAM is written, and the carry in EXEC.
Posedge ==
    /\ clk = "POSEDGE" /\ clk' = "NEGEDGE" /\ cleared /\ cleared' = FALSE
    /\ ram' = IF "ram_load" \in Raised(state)
              THEN WriteRam(ram, mar, mdr, "be" \in Raised(state)) ELSE ram
    /\ carry' = IF state = "EXEC" THEN CarryShouldBeSet(state) ELSE carry
    /\ breek' = ("brk" \in Raised(state))
    /\ UNCHANGED <<state, regs, mar, mdr, ir, snap, count>>

FsmOverlapsFetch(s) ==
    CASE s = "FETCH"   -> "FETCHM"
      [] s = "FETCHM"  -> "DECODE"
      [] s = "DECODE"  -> "DECODEM"
      [] s = "DECODEM" -> IF Row(s).skipstate = "FETCH" THEN "FETCHM" ELSE Row(s).skipstate
      [] s = "READ"    -> "READM"
      [] s = "READM"   -> "EXEC"
      [] s = "EXEC"    -> "EXECM"
      [] OTHER         -> "FETCH"

\* fsm_function()
Fsm(s) ==
    CASE s = "FETCH"   -> "FETCHM"
      [] s = "FETCHM"  -> "DECODE"
      [] s = "DECODE"  -> "DECODEM"
      [] s = "DECODEM" -> Row(s).skipstate
      [] s = "READ"    -> "READM"
      [] s = "READM"   -> "EXEC"
      [] s = "EXEC"    -> "EXECM"
      [] s = "EXECM"   -> IF breek THEN "BREAK" ELSE "FETCH"
      [] OTHER         -> "FETCH"

\* The falling edge's writes, in the order of latch(): the write port, then
\* the two registers that count. R0 cannot be written.
Add(r, k, d) == [r EXCEPT ![k] = Sum(@, d)]

LatchedNoIncrSp(s) ==
    LET sig == Raised(s)
        t == Selected(Row(s).ws)
        written == IF "reg_load" \in sig /\ t # 0 THEN [regs EXCEPT ![t] = ALUout(s)] ELSE regs
        pc == IF s \in Second /\ ("incr_pc" \in sig \/ Skips(s))
              THEN Add(written, PC, 2) ELSE written
    IN  IF "decr_sp" \in sig THEN Add(pc, SP, N - 2) ELSE pc

Latched(s) ==
    LET sig == Raised(s)
        t == Selected(Row(s).ws)
        written == IF "reg_load" \in sig /\ t # 0 THEN [regs EXCEPT ![t] = ALUout(s)] ELSE regs
        pc == IF s \in Second /\ ("incr_pc" \in sig \/ Skips(s))
              THEN Add(written, PC, 2) ELSE written
        down == IF "decr_sp" \in sig THEN Add(pc, SP, N - 2) ELSE pc
    IN  IF "incr_sp" \in sig THEN Add(down, SP, 2) ELSE down

\* The falling edge: the next state, its signals, and what they latch. The
\* program ends when hlt is in IR.
Negedge ==
    /\ clk = "NEGEDGE" /\ clk' = "POSEDGE" /\ cleared /\ cleared' = FALSE
    /\ ir # None => ir.op # "hlt"
    /\ state' = IF state = "BREAK" THEN "ZERO_STATE" ELSE Fsm(state)
    /\ regs' = Latched(state')
    /\ ir' \in IF "ir_load" \notin Raised(state') THEN {ir}
              ELSE IF count < MaxInstrs THEN Instrs ELSE {Plain("hlt")}
    /\ mar' = IF "mar_load" \in Raised(state') THEN ALUout(state') ELSE mar
    /\ mdr' = IF "mdr_load" \in Raised(state') THEN MDRin(state') ELSE mdr
    /\ breek' = ("brk" \in Raised(state'))
    /\ snap' = IF state' = "FETCH" THEN [regs |-> regs', ram |-> ram] ELSE snap
    /\ count' = IF state' = "FETCHM" THEN count + 1 ELSE count
    /\ UNCHANGED <<carry, ram>>

Next == ClearSig \/ Posedge \/ Negedge

Spec == Init /\ [][Next]_vars

-----------------------------------------------------------------------------
\* The microcode carries out the instruction set of fsim: from one FETCH to
\* the next, registers and RAM change as the instruction changes them, at once
\* and completely. A result must not go to R0, which fsim writes and main2.c
\* does not. (main2.c:88-160, micro.mx:1-150 against fsim/main.c:74-372)
I == INSTANCE Isa WITH regs <- snap.regs, ram <- snap.ram,
                       last <- IF state = "FETCH" THEN ir ELSE None

ImplementsIsa == I!ISpec

\* brk never stops the machine: its signal is raised in EXEC and EXECM, but each
\* phase clears the signals before its state machine looks at them, so that the
\* state BREAK and its prompt are never reached. (main2.c:92-104, 197-198)
BreakIsLost == state \notin {"BREAK", "ZERO_STATE"}

\* An instruction is fetched from the address its predecessor has left in the
\* PC, jumps and skips of the predecessor included: MAR was latched while the
\* predecessor's last writes were under way. (main2.c:665-694, micro.mx:7)
FetchesAtPc ==
    [][state # "FETCHM" /\ state' = "FETCHM" => mar = regs[PC]]_vars
=============================================================================
