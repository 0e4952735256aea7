----------------------------- MODULE MicroStore -----------------------------
(***************************************************************************)
(* The way of a microcode row from micro.mx into the simulators: the        *)
(* microcode assembler (micro/micro-asm.rb) writes a word of 48 digits for  *)
(* each row, pass by pass, and puts it where its line comes, not where its  *)
(* number says; main.c and main2.c index the words by operation and cut     *)
(* them into the signals and selections that the rows of Microcode name.    *)
(***************************************************************************)
EXTENDS Microcode, BitStrings

Entries == 64  \* words for each cycle

\* The operations in the order of micro.mx; "" where it has a number only.
MxOps ==
    << "ldi", "br", "fetch", "", "ldw", "ldb", "stw", "stb", "stw0", "stb0",
       "add", "sub", "and", "or", "skip", "addskp.z", "addskp.nz", "addi", "subi", "andi",
       "ori", "", "addskpi.z", "addskpi.nz", "ldw.b", "ldb.b", "stw.b", "stb.b", "sext", "",
       "addhi", "push", "pop", "br.r", "syscall", "reti", "push.u", "brk", "lcr", "wcr",
       "wpte", "lpte", "wptb", "lptb", "wivec", "shl", "shr", "shl.r", "shr.r", "pop.u",
       "lcr.u", "wcr.u" >>

-----------------------------------------------------------------------------
\* The rows the simulators have no use for: traps, control registers, the page
\* table and the user bank are for the hardware.

HardwareDecodeRow(op) ==
    CASE op = "syscall" -> Blank
      [] op = "reti"    -> [Blank EXCEPT !.sig = {"reti"}, !.skipstate = "FETCH"]
      [] op = "push.u"  -> DecodeRow("push")
      [] op = "pop.u"   -> DecodeRow("pop")
      [] op = "lcr"     -> AluRow("cr", "reg0", "add")
      [] op = "wcr"     -> [AluRow("arg0", "reg0", "add") EXCEPT !.ws = "cr"]
      [] op = "lcr.u"   -> [Ports("cr", "reg0") EXCEPT !.sig = {"ureg", "mdr_load"},
                                !.mdrs = "alu", !.skipstate = "EXEC"]
      [] op = "wcr.u"   -> [Ports("arg0", "reg0") EXCEPT !.sig = {"mdr_load"},
                                !.mdrs = "alu", !.skipstate = "EXEC"]
      [] op = "wpte"    -> [Ports("arg0", "arg1") EXCEPT !.sig = {"wpte"},
                                !.skipstate = "FETCH"]
      [] op = "lpte"    -> [Ports("arg0", "reg0") EXCEPT !.sig = {"mdr_load"}, !.mdrs = "alu"]
      [] op = "wptb"    -> [Blank EXCEPT !.r0 = "arg0", !.sig = {"wptb"},
                                !.skipstate = "FETCH"]
      [] op = "lptb"    -> [Blank EXCEPT !.op0 = "ptb", !.op1 = "regr1", !.ws = "tgt",
                                !.sig = {"reg_load"}, !.skipstate = "FETCH"]
      [] op = "wivec"   -> [Ports("tgt", "reg0") EXCEPT !.skipstate = "FETCH"]

HardwareReadRow(op) ==
    CASE op = "push.u" -> ReadRow("push")
      [] op = "pop.u"  -> [ReadRow("pop") EXCEPT !.sig = @ \cup {"ureg"}]
      [] OTHER         -> Blank

HardwareExecRow(op) ==
    CASE op = "push.u" -> [StoreRow("tgt", "push") EXCEPT !.sig = @ \cup {"ureg"}]
      [] op = "pop.u"  -> ExecRow("pop")
      [] op = "lpte"   -> [Blank EXCEPT !.op1 = "pte", !.ws = "tgt", !.sig = {"reg_load"}]
      [] op = "lcr.u"  -> [FromMdr("tgt") EXCEPT !.op1 = "regr1"]
      [] op = "wcr.u"  -> [FromMdr("cr") EXCEPT !.op1 = "regr1", !.sig = @ \cup {"ureg"}]
      [] OTHER         -> Blank

RowOf(op, cycle) ==
    CASE op = "fetch" -> IF cycle = "DECODE" THEN FetchRow ELSE Blank
      [] op \in Op /\ cycle = "DECODE" -> DecodeRow(op)
      [] op \in Op /\ cycle = "READ"   -> ReadRow(op)
      [] op \in Op /\ cycle = "EXEC"   -> ExecRow(op)
      [] OTHER -> CASE cycle = "DECODE" -> HardwareDecodeRow(op)
                    [] cycle = "READ"   -> HardwareReadRow(op)
                    [] cycle = "EXEC"   -> HardwareExecRow(op)

\* Which immediate a decode row selects.
ImmsOf(op, cycle) ==
    IF cycle # "DECODE" THEN "imm7"
    ELSE CASE op = "ldi"   -> "imm10"
           [] op = "br"    -> "imm13"
           [] op = "addhi" -> "imm7u"
           [] op \in {"shl", "shr"}      -> "imm4"
           [] op \in AluImm \cup Addskpi -> "immir"
           [] OTHER -> "imm7"

-----------------------------------------------------------------------------
\* micro-asm.rb.

\* A selection has the number of its place in the list.
Number(name, names) == (CHOOSE i \in DOMAIN names : names[i] = name) - 1

RegsMux == << "reg0", "reg1", "reg2", "reg3", "reg4", "bp", "sp", "pc",
              "arg0", "arg1", "tgt", "tgt2", "arg2", "", "", "cr" >>
Op0Mux  == << "regr0", "regr1", "mdr", "ptb" >>
Op1Mux  == << "regr0", "regr1", "mdr", "pte" >>
MdrsMux == << "imm", "ram", "alu" >>
ImmsMux == << "imm7", "imm10", "imm13", "immir", "imm7u", "imm4" >>
AluMux  == << "add", "sub", "and", "or", "shl", "shr", "addhi" >>
SkipcMux == << "none", "zr", "", "nzr", "", "cond" >>
SkipstateMux == << "READ", "EXEC", "FETCH" >>

Digit(row, sig) == IF sig \in row.sig THEN 1 ELSE 0

LeadingSignals == << "mar_load", "ir_load", "mdr_load", "reg_load", "ram_load",
                     "incr_pc", "decr_sp", "be" >>
TrailingSignals == << "incr_sp", "syscall", "reti", "ureg", "brk", "wptb", "wpte",
                      "re", "sext" >>

Digits(row, sigs) == [i \in DOMAIN sigs |-> Digit(row, sigs[i])]

Microword(row, imms) ==
    Digits(row, LeadingSignals)
    \o Dec2bin(Number(row.r0, RegsMux), 4)
    \o Dec2bin(Number(row.r1, RegsMux), 4)
    \o Dec2bin(Number(row.ws, RegsMux), 4)
    \o Dec2bin(Number(row.mdrs, MdrsMux), 2)
    \o Dec2bin(Number(imms, ImmsMux), 3)
    \o Dec2bin(Number(row.op0, Op0Mux), 2)
    \o Dec2bin(Number(row.op1, Op1Mux), 2)
    \o Dec2bin(Number(row.skipc, SkipcMux), 3)
    \o Dec2bin(Number(row.alu, AluMux), 3)
    \o Dec2bin(Number(row.skipstate, SkipstateMux), 2)
    \o Digits(row, TrailingSignals)
    \o <<0, 0>>

Zeros == [i \in 1 .. 48 |-> 0]

\* What a pass writes for an operation: the word of its row, and an empty word
\* for a number alone, which stands for three empty rows.
WithoutDummies(op, cycle) ==
    IF op = "" THEN <<>> ELSE <<Microword(RowOf(op, cycle), ImmsOf(op, cycle))>>

Written(op, cycle) ==
    <<IF op = "" THEN Zeros ELSE Microword(RowOf(op, cycle), ImmsOf(op, cycle))>>

\* A pass goes through the lines, and adds empty words up to the 64th.
Pass(cycle) ==
    LET words[k \in 0 .. Len(MxOps)] ==
            IF k = 0 THEN <<>> ELSE words[k - 1] \o Written(MxOps[k], cycle)
        all == words[Len(MxOps)]
    IN  [i \in 1 .. Entries |-> IF i \in DOMAIN all THEN all[i] ELSE Zeros]

\* micro.hexish, as loadmicrocode() reads it into micro[], from 0 on.
Hexish == Pass("DECODE") \o Pass("READ") \o Pass("EXEC")
Micro == [idx \in 0 .. 3 * Entries - 1 |-> Hexish[idx + 1]]

-----------------------------------------------------------------------------
\* main.c and main2.c.

\* The word of an operation in a cycle.
Idx(opcode, cycle) ==
    CASE cycle = "FETCH"  -> 2
      [] cycle = "DECODE" -> opcode
      [] cycle = "READ"   -> 64 + opcode
      [] cycle = "EXEC"   -> 128 + opcode

\* What the simulators' bus and register numbers stand for. Source 3 of an operand
\* is the bus after MDRout; 6 to 8 of the registers are SP, PC and ARG0.
SignalAt(pos) ==
    CASE pos < 8   -> LeadingSignals[pos + 1]
      [] pos = 37  -> "incr_sp"
      [] pos = 41  -> "brk"
      [] pos = 42  -> "wptb"
      [] pos = 43  -> "wpte"
      [] pos = 44  -> "re"
      [] pos = 45  -> "sext"

Regfile == << "reg0", "reg1", "reg2", "reg3", "reg4", "bp", "sp", "pc",
              "arg0", "arg1", "tgt", "tgt2", "arg2", "r13", "r14", "cr" >>
Operands == << "regr0", "regr1", "mdr", "irimm" >>
IrImms == << "imm7", "imm10", "imm13", "immir", "imm7u", "imm4" >>
AluCases == << "add", "sub", "and", "or", "shl", "shr", "addhi" >>
AfterDecodem == << "READ", "EXEC", "FETCH" >>

Signals(word, positions) == {SignalAt(p) : p \in {q \in positions : word[q + 1] = 1}}

Selected(word, from, n, names) == names[Bin2dec(Field(word, from, n)) + 1]

\* Position 31 asks for a check of the condition that 29 and 30 select.
Skipc(word) ==
    IF word[32] = 0 THEN "none"
    ELSE <<"zr", "nzr", "cond">>[Bin2dec(Field(word, 29, 2)) + 1]

Cut(word, positions) ==
    [sig |-> Signals(word, positions),
     r0 |-> Selected(word, 8, 4, Regfile), r1 |-> Selected(word, 12, 4, Regfile),
     ws |-> Selected(word, 16, 4, Regfile),
     mdrs |-> Selected(word, 20, 2, <<"imm", "ram", "alu">>),
     op0 |-> Selected(word, 25, 2, Operands), op1 |-> Selected(word, 27, 2, Operands),
     skipc |-> Skipc(word), alu |-> Selected(word, 32, 3, AluCases),
     skipstate |-> Selected(word, 35, 2, AfterDecodem)]

Fsm2Row(word) == Cut(word, (0 .. 7) \cup {37} \cup (41 .. 45))

\* main.c has no signal for wptb, wpte and sext.
OldRow(word) == Cut(word, (0 .. 7) \cup {37, 41, 44})

\* The immediate a row feeds to the bus IRimm.
IrImm(word) == Selected(word, 22, 3, IrImms)

\* All of them, cut once.
Fsm2Rows == [idx \in DOMAIN Micro |-> Fsm2Row(Micro[idx])]
OldRows  == [idx \in DOMAIN Micro |-> OldRow(Micro[idx])]
IrImmSelections == [idx \in DOMAIN Micro |-> IrImm(Micro[idx])]
=============================================================================
