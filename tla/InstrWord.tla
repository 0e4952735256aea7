----------------------------- MODULE InstrWord -----------------------------
(***************************************************************************)
(* An instruction word: how the assembler (asm/asm.rb, Coder) makes it from *)
(* a line, and how the simulators take it apart: fsim/main.c by shifts and  *)
(* masks; main.c and main2.c by cutting a string of digits, whose operation *)
(* selects rows of the microcode. Labels and constants wider than a field   *)
(* are the subject of Assembler.                                            *)
(***************************************************************************)
EXTENDS MicroStore

CONSTANTS
    SourceLines,  \* the instructions to assemble, as the parser reads them
    Words         \* the words to decode, whoever wrote them

VARIABLES
    stage,    \* "line", "word", "decoded" or "error"
    line,     \* the line the word was assembled from, or None
    ir,       \* the word
    cinstr,   \* fsim's struct instr_t
    instr_b   \* the digits of sysreg[IR] in main.c and main2.c

vars == <<stage, line, ir, cinstr, instr_b>>

\* An argument is a name or a number; the one of a br is the distance to its label.
Name(n) == [name |-> n, val |-> 0]
Num(v)  == [name |-> "", val |-> v]
Args    == {a \in [name : STRING, val : Int] : a.name # "" => a.val = 0}

\* part: "whole", an instruction of the program itself, or one of the two that the
\* parser makes of an ld16 (a ldi and an addhi of half the number each) or of a
\* la16 (a lda and an addhi of the whole address each).
Parts == {"whole", "ld16", "la16"}

ASSUME SourceLinesAssumption ==
    /\ None \notin SourceLines
    /\ \A l \in SourceLines :
            /\ l.cmd \notin {"defw", "defb"} /\ l.args \in Seq(Args)
            /\ l.part \in Parts
            /\ l.part = "ld16" => l.cmd \in {"ldi", "addhi"}
            /\ l.part = "la16" => l.cmd \in {"lda", "addhi"}

ASSUME WordsAssumption == \A w \in Words : w \in Nat /\ w < 65536

-----------------------------------------------------------------------------
\* The assembler. Commands by opcode, "" where there is none.

AsmOps ==
    << "ldi", "br", "", "", "ldw", "ldb", "stw", "stb", "stw0", "stb0",
       "add", "sub", "and", "or", "skip", "addskp.z", "addskp.nz", "addi", "subi", "andi",
       "ori", "", "addskpi.z", "addskpi.nz", "ldw.b", "ldb.b", "stw.b", "stb.b", "sext", "",
       "addhi", "push", "pop", "br.r", "syscall", "reti", "push.u", "brk", "lcr", "wcr",
       "wpte", "lpte", "wptb", "lptb", "wivec", "shl", "shr", "shl.r", "shr.r", "pop.u",
       "lcr.u", "wcr.u", "rsi" >>

Opcode(cmd) ==
    CASE cmd = "lda" -> 0
      [] cmd = "mov" -> 10
      [] cmd = "hlt" -> 63
      [] cmd = "nop" -> 200
      [] OTHER -> Number(cmd, AsmOps)

Commands == ({AsmOps[k] : k \in DOMAIN AsmOps} \ {""}) \cup {"lda", "mov", "hlt", "nop"}

\* The operations that a number as their offset and BP select, and the others.
StoresZero(l)   == l.args[1].name = "" /\ l.args[3].name = "r0"
HasOffset(l, k) == l.args[k].name = "" /\ l.args[k + 1].name = "bp"
ZeroStore == [stw |-> "stw0", stb |-> "stb0"]
Based     == [ldw |-> "ldw.b", ldb |-> "ldb.b", stw |-> "stw.b", stb |-> "stb.b"]

\* ldw, ldb, stw and stb stand for several operations each.
Command(l) ==
    CASE l.cmd \in {"ldw", "ldb"} -> IF HasOffset(l, 2) THEN l.cmd ELSE Based[l.cmd]
      [] l.cmd \in {"stw", "stb"} -> IF StoresZero(l) THEN ZeroStore[l.cmd]
                                     ELSE IF HasOffset(l, 1) THEN l.cmd ELSE Based[l.cmd]
      [] OTHER -> l.cmd

\* Kinds of fields, each with the argument it takes (0: none).
Template(cmd) ==
    CASE cmd \in {"ldi", "lda"} -> <<<<"imm10", 2>>, <<"reg", 1>>>>
      [] cmd = "br"  -> <<<<"imm13br", 1>>>>
      [] cmd \in {"ldw", "ldb"} -> <<<<"imm7", 2>>, <<"BPreg", 3>>, <<"tgt2", 1>>>>
      [] cmd \in {"stw", "stb"} -> <<<<"imm7", 1>>, <<"BPreg", 2>>, <<"tgt2", 3>>>>
      [] cmd \in {"stw0", "stb0"} -> <<<<"imm7", 1>>, <<"BPreg", 2>>, <<"R0reg", 3>>>>
      [] cmd = "mov"  -> <<<<"reg", 2>>, <<"pad3", 0>>, <<"reg", 1>>>>
      [] cmd = "skip" -> <<<<"reg", 1>>, <<"reg", 2>>, <<"cond", 3>>>>
      [] cmd \in AluImm -> <<<<"immir", 3>>, <<"reg", 2>>, <<"reg", 1>>>>
      [] cmd \in Addskpi -> <<<<"immir", 3>>, <<"reg", 2>>, <<"reg", 1>>>>
      [] cmd \in {"stw.b", "stb.b"} -> <<<<"reg", 1>>, <<"reg", 2>>, <<"reg", 3>>>>
      [] cmd = "sext"  -> <<<<"reg", 1>>, <<"pad3", 0>>, <<"reg", 2>>>>
      [] cmd = "addhi" -> <<<<"imm7u", 2>>, <<"tgt2", 1>>>>
      [] cmd \in {"push", "pop", "br.r", "push.u", "pop.u", "lcr", "lcr.u", "lptb", "wivec"}
            -> <<<<"pad6", 0>>, <<"reg", 1>>>>
      [] cmd \in {"wcr", "wcr.u", "wptb"} -> <<<<"reg", 1>>, <<"pad6", 0>>>>
      [] cmd = "wpte" -> <<<<"reg", 1>>, <<"reg", 2>>, <<"pad3", 0>>>>
      [] cmd = "lpte" -> <<<<"reg", 2>>, <<"pad3", 0>>, <<"reg", 1>>>>
      [] cmd \in {"shl", "shr"} -> <<<<"imm4", 3>>, <<"reg", 2>>, <<"tgt2", 1>>>>
      [] cmd \in {"syscall", "reti", "brk", "rsi", "hlt", "nop"} -> <<>>
      [] OTHER -> <<<<"reg", 2>>, <<"reg", 3>>, <<"reg", 1>>>>

\* A command has all arguments of its template, or stands alone; the forms of
\* ldw, ldb, stw and stb cannot be told apart without arguments.
Valid(l) ==
    /\ l.cmd \in Commands
    /\ \/ DOMAIN l.args = {Template(l.cmd)[k][2] : k \in DOMAIN Template(l.cmd)} \ {0}
       \/ l.args = <<>> /\ l.cmd \notin {"ldw", "ldb", "stw", "stb"}

\* What a field takes of its argument: lda and addhi the two parts of an address,
\* those of the program like those of a la16.
Argument(l, k) ==
    CASE l.cmd = "lda" /\ k = 2 /\ l.part # "ld16"   -> [l.args[k] EXCEPT !.val = @ % 512]
      [] l.cmd = "addhi" /\ k = 2 /\ l.part # "ld16" ->
            [l.args[k] EXCEPT !.val = (@ % 65536) \div 512]
      [] OTHER -> l.args[k]

REGS == << "r0", "r1", "r2", "r3", "r4", "bp", "sp", "pc" >>
COND == << "eq", "ne", "lt", "lte", "gt", "gte", "ult", "ulte" >>
IRIMM == << 1, 2, 4, 8, -8, -4, -2, -1 >>

\* The number 0 is a register, too: the index of 0(r1).
RegNumber(a) ==
    CASE a.name \in {"", "r0"} -> 0
      [] a.name = "r5" -> 5
      [] a.name = "r6" -> 6
      [] OTHER -> Number(a.name, REGS)

IsReg(a) == IF a.name = "" THEN a.val = 0
            ELSE a.name \in {REGS[i] : i \in DOMAIN REGS} \cup {"r5", "r6"}

\* REGS2, of the targets that have a field of two digits.
Reg2FromZero(a) == RegNumber(a)
Reg2(a) == RegNumber(a) - 1

Signed(a, n) == a.name = "" /\ a.val \in -(2 ^ (n - 1) - 1) .. 2 ^ (n - 1) - 1

\* Whether encode() finds digits for an argument, or ends the program.
Fits(kind, a) ==
    CASE kind = "reg"     -> IsReg(a)
      [] kind = "imm10"   -> Signed(a, 10)
      [] kind = "imm13br" -> Signed(a, 13)
      [] kind = "imm7"    -> Signed(a, 7)
      [] kind = "imm4"    -> a.name = "" /\ a.val \in 1 .. 15
      [] kind = "imm7u"   -> a.name = "" /\ a.val \in 0 .. 127
      [] kind = "immir"   -> a.val \in {IRIMM[i] : i \in DOMAIN IRIMM}
      [] kind = "tgt2"    -> a.name \in {"r1", "r2", "r3", "r4"}
      [] kind = "BPreg"   -> a.name = "bp"
      [] kind = "R0reg"   -> a.name = "r0"
      [] kind = "cond"    -> a.name \in {COND[i] : i \in DOMAIN COND}

\* bitsfromint: a negative number has the last n digits of its 16.
Bitsfromint(int, n) ==
    IF int < 0 THEN Field(Dec2bin(int % 65536, 16), 16 - n, n) ELSE Dec2bin(int, n)

Digits3(v) == Dec2bin(v, 3)

Encoded(kind, a) ==
    CASE kind = "reg"     -> Digits3(RegNumber(a))
      [] kind = "imm10"   -> Bitsfromint(a.val, 10)
      [] kind = "imm13br" -> Bitsfromint(a.val, 13)
      [] kind \in {"imm7", "imm7u"} -> Bitsfromint(a.val, 7)
      [] kind = "imm4"    -> Bitsfromint(a.val, 4)
      [] kind = "immir"   -> Digits3(Number(a.val, IRIMM))
      [] kind = "tgt2"    -> Dec2bin(Reg2(a), 2)
      [] kind = "BPreg"   -> <<>>
      [] kind = "R0reg"   -> <<0, 0>>
      [] kind = "cond"    -> Digits3(Number(a.name, COND))

Padding(kind) == CASE kind = "pad3" -> Dec2bin(0, 3)
                   [] kind = "pad6" -> Dec2bin(0, 6)

OpcodeDigits(op) ==
    IF op <= 3 THEN <<0>> \o Dec2bin(op, 2)
    ELSE <<1>> \o Dec2bin(op, IF op < 64 THEN 6 ELSE 8)

Encodable(l) ==
    /\ Valid(l)
    /\ l.args # <<>> => \A k \in DOMAIN Template(Command(l)) :
            LET f == Template(Command(l))[k]
            IN  f[2] = 0 \/ Fits(f[1], Argument(l, f[2]))

\* The digits of a field; no template has more than three.
FieldDigits(l, k) ==
    LET fields == Template(Command(l))
    IN  IF k \notin DOMAIN fields THEN <<>>
        ELSE IF fields[k][2] = 0 THEN Padding(fields[k][1])
        ELSE Encoded(fields[k][1], Argument(l, fields[k][2]))

\* The digits of a line; a command alone is filled up with zeros.
Encode(l) ==
    IF l.args = <<>> THEN OpcodeDigits(Opcode(l.cmd)) \o Dec2bin(0, 9)
    ELSE OpcodeDigits(Opcode(Command(l)))
         \o FieldDigits(l, 1) \o FieldDigits(l, 2) \o FieldDigits(l, 3)

\* build() puts up with 16 digits only. The loaders read them with bin2dec.
Assemble ==
    /\ stage = "line"
    /\ IF Encodable(line) /\ Len(Encode(line)) = 16
       THEN stage' = "word" /\ ir' = Bin2dec(Encode(line))
       ELSE stage' = "error" /\ UNCHANGED ir
    /\ UNCHANGED <<line, cinstr, instr_b>>

-----------------------------------------------------------------------------
\* fsim/main.c.

\* The operation of an opcode, by the cases of the main loop; "" is the default.
FsimCases ==
    << "ldi", "br", "", "", "ldw", "ldb", "stw", "stb", "stw0", "stb0",
       "add", "sub", "and", "or", "skip", "addskp.z", "addskp.nz", "addi", "subi", "andi",
       "ori", "", "addskpi.z", "addskpi.nz", "ldw.b", "ldb.b", "stw.b", "stb.b", "sext", "",
       "addhi", "push", "pop", "br.r", "syscall", "reti", "push.u", "brk", "lcr", "wcr",
       "wpte", "lpte", "wptb", "", "wivec", "shl", "shr", "shl.r", "shr.r", "pop.u",
       "lcr.u", "wcr.u", "rsi" >>

FsimOp(p) == IF p.opcode = 63 THEN "hlt"
             ELSE IF p.opcode + 1 \in DOMAIN FsimCases THEN FsimCases[p.opcode + 1]
             ELSE ""

FsimOpcodeFromBit4(i) == IF i > 79 THEN i % 64 ELSE i \div 16

\* i: the first seven bits. The long opcodes start at 64.
FsimOpcode(i) == IF i > 66 THEN i % 64 ELSE i \div 16

FsimArg1(args) == (args \div 8) % 8

FsimDecode(w) ==
    LET args == w % 512
    IN  [opcode |-> FsimOpcode(w \div 512), full |-> w,
         arg0 |-> args \div 64, arg1 |-> FsimArg1(args),
         tgt |-> args % 8, tgt2 |-> (args % 4) + 1]

\* w with all bits cleared but n of them from bit low on.
Masked(w, low, n) == ((w \div (2 ^ low)) % (2 ^ n)) * (2 ^ low)

\* (int16_t)w, on a machine of two's complement.
Int16(w) == IF w % 65536 >= 32768 THEN (w % 65536) - 65536 ELSE w % 65536

IRtable == << 1, 2, 4, 8, -8, -4, -2, -1 >>

\* The immediate of the operations that have one.
FsimImm(p, op) ==
    CASE op = "ldi" -> Int16(Masked(p.full, 3, 10) * 8) \div 64
      [] op = "br"  -> Int16(Masked(p.full, 0, 13) * 8) \div 8
      [] op \in BaseBP -> Int16(Masked(p.full, 2, 7) * 128) \div 512
      [] op \in AluImm \cup Addskpi -> IRtable[p.arg0 + 1]
      [] op = "addhi" -> Masked(p.full, 2, 7) * 128
      [] op \in {"shl", "shr"} -> Masked(p.full, 5, 4) \div 32
      [] OTHER -> 0

FsimView(p) ==
    [op |-> FsimOp(p), arg0 |-> p.arg0, arg1 |-> p.arg1,
     arg2 |-> Masked(p.full, 2, 3) \div 4, tgt |-> p.tgt, tgt2 |-> p.tgt2,
     imm |-> FsimImm(p, FsimOp(p)) % 65536]

-----------------------------------------------------------------------------
\* main2.c, and main.c with the same fields.

MicroOpcode(b) == IF b[1] = 0 THEN Bin2dec(Field(b, 1, 2)) ELSE Bin2dec(Field(b, 1, 6))

\* The operation whose rows the opcode selects.
MicroOp(b) == IF MicroOpcode(b) + 1 \in DOMAIN MxOps THEN MxOps[MicroOpcode(b) + 1] ELSE ""

Arg0(b) == Bin3ToDec(Field(b, 7, 3))
Arg2(b) == Bin3ToDec(Field(b, 11, 3))

\* addhi shifts its immediate in the ALU.
MicroImm(b) ==
    LET sel == IrImmSelections[Idx(MicroOpcode(b), "DECODE")]
    IN  CASE sel = "imm7"  -> Sbin2dec(Field(b, 7, 7))
          [] sel = "imm10" -> Sbin2dec(Field(b, 3, 10))
          [] sel = "imm13" -> Sbin2dec(Field(b, 3, 13))
          [] sel = "immir" -> IRtable[Arg0(b) + 1]
          [] sel = "imm7u" -> Bin2dec(Field(b, 7, 7)) * 512
          [] sel = "imm4"  -> Bin2dec(Field(b, 7, 4))

WithImm == {"ldi", "br", "addhi", "shl", "shr"} \cup BaseBP \cup AluImm \cup Addskpi

MicroView(b) ==
    [op |-> MicroOp(b), arg0 |-> Arg0(b), arg1 |-> Bin3ToDec(Field(b, 10, 3)),
     arg2 |-> Arg2(b), tgt |-> Bin3ToDec(Field(b, 13, 3)),
     tgt2 |-> Bin2dec(Field(b, 14, 2)) + 1,
     imm |-> IF MicroOp(b) \in WithImm THEN MicroImm(b) % 65536 ELSE 0]

-----------------------------------------------------------------------------
Init ==
    /\ \/ stage = "line" /\ line \in SourceLines /\ ir = 0
       \/ stage = "word" /\ line = None /\ ir \in Words
    /\ cinstr = None /\ instr_b = None

Decode ==
    /\ stage = "word" /\ stage' = "decoded"
    /\ cinstr' = FsimDecode(ir) /\ instr_b' = Dec2bin(ir, 16)
    /\ UNCHANGED <<line, ir>>

Next == Assemble \/ Decode

Spec == Init /\ [][Next]_vars

-----------------------------------------------------------------------------
\* Long opcodes that fsim takes for the short opcode 4 (fsim/main.c:412).
Reserved(w) == w \div 512 \in 64 .. 66

\* The simulators read the same instruction out of every other word, whoever
\* wrote it: the shifts and masks of fsim and the strings of main2.c, cut at
\* positions of their own, name the same operands, and its immediate is the
\* one that the microcode of the operation selects (fsim/main.c:406-426,
\* main2.c:284-349, 527-555). Where only one of them knows the operation, fields agree.
SimulatorsReadAlike ==
    stage = "decoded" /\ ~Reserved(ir) =>
        LET f == FsimView(cinstr)
            m == MicroView(instr_b)
        IN  /\ cinstr.opcode = MicroOpcode(instr_b)
            /\ f = [m EXCEPT !.op = f.op]
            /\ f.op \in Op \ {"hlt"} \/ m.op \in Op => f.op = m.op

\* The register and the number that an argument is.
Reg(l, k)   == RegNumber(l.args[k])
Value(l, k) == l.args[k].val % 65536

Three(op, l)  == [op |-> op, tgt |-> Reg(l, 1), arg0 |-> Reg(l, 2), arg1 |-> Reg(l, 3)]
Stored(op, l) == [op |-> op, arg0 |-> Reg(l, 1), arg1 |-> Reg(l, 2), tgt |-> Reg(l, 3)]

\* The operation that a command stands for.
NameOf(cmd) == CASE cmd = "lda" -> "ldi" [] cmd = "mov" -> "add" [] OTHER -> cmd

OperandsOf(l) ==
    CASE l.cmd = "ldi" -> [op |-> "ldi", tgt |-> Reg(l, 1), imm |-> Value(l, 2)]
      [] l.cmd = "lda" ->
            [op |-> "ldi", tgt |-> Reg(l, 1),
             imm |-> IF l.part = "la16" THEN Value(l, 2) % 512 ELSE Value(l, 2)]
      [] l.cmd = "addhi" ->
            [op |-> "addhi", tgt2 |-> Reg(l, 1),
             imm |-> IF l.part = "la16" THEN (Value(l, 2) \div 512) * 512
                     ELSE Value(l, 2) * 512]
      [] l.cmd = "br"  -> [op |-> "br", imm |-> Value(l, 1)]
      [] l.cmd \in {"ldw", "ldb"} ->
            IF HasOffset(l, 2) THEN [op |-> l.cmd, tgt2 |-> Reg(l, 1), imm |-> Value(l, 2)]
            ELSE Three(Based[l.cmd], l)
      [] l.cmd \in {"stw", "stb"} ->
            IF StoresZero(l) THEN [op |-> ZeroStore[l.cmd], imm |-> Value(l, 1)]
            ELSE IF HasOffset(l, 1) THEN [op |-> l.cmd, tgt2 |-> Reg(l, 3), imm |-> Value(l, 1)]
            ELSE Stored(Based[l.cmd], l)
      [] l.cmd \in {"stw0", "stb0"} -> [op |-> l.cmd, imm |-> Value(l, 1)]
      [] l.cmd \in {"stw.b", "stb.b"} -> Stored(l.cmd, l)
      [] l.cmd = "mov"  -> [op |-> "add", tgt |-> Reg(l, 1), arg0 |-> Reg(l, 2), arg1 |-> 0]
      [] l.cmd = "skip" ->
            [op |-> "skip", arg0 |-> Reg(l, 1), arg1 |-> Reg(l, 2),
             tgt |-> Number(l.args[3].name, COND)]
      [] l.cmd \in AluImm \cup Addskpi ->
            [op |-> l.cmd, tgt |-> Reg(l, 1), arg1 |-> Reg(l, 2), imm |-> Value(l, 3)]
      [] l.cmd = "sext"  -> [op |-> "sext", arg0 |-> Reg(l, 1), tgt |-> Reg(l, 2)]
      [] l.cmd \in {"wcr", "wcr.u", "wptb"} -> [op |-> l.cmd, arg0 |-> Reg(l, 1)]
      [] l.cmd \in {"push", "pop", "br.r", "push.u", "pop.u", "lcr", "lcr.u", "lptb", "wivec"}
            -> [op |-> l.cmd, tgt |-> Reg(l, 1)]
      [] l.cmd = "wpte"  -> [op |-> "wpte", arg0 |-> Reg(l, 1), arg1 |-> Reg(l, 2)]
      [] l.cmd = "lpte"  -> [op |-> "lpte", arg0 |-> Reg(l, 2), tgt |-> Reg(l, 1)]
      [] l.cmd \in {"shl", "shr"} ->
            [op |-> l.cmd, tgt2 |-> Reg(l, 1), arg2 |-> Reg(l, 2), imm |-> Value(l, 3)]
      [] OTHER -> Three(l.cmd, l)

\* What a line means, by the operands its operation has in a simulator.
Meaning(l) == IF l.args = <<>> THEN [op |-> NameOf(l.cmd)] ELSE OperandsOf(l)

\* The lda and addhi of a program, which encode() cuts as if they were of a la16:
\* the 0x7f that validation/a_001.s:52 writes is encoded as 0.
TakenForParts(l) == l.cmd \in {"lda", "addhi"} /\ l.part = "whole"

Reads(view, l) ==
    \A f \in DOMAIN Meaning(l) :
        (f = "imm" /\ TakenForParts(l)) \/ view[f] = Meaning(l)[f]

\* Every line that the assembler accepts is executed as it was written: its
\* operation and its operands arrive in the simulators that know the operation,
\* through templates in which arguments change places, tables and fields of seven
\* widths (asm.rb:531-706). No word of the assembler is a reserved one. Nothing is
\* said of the number of a lda or an addhi that is no part of a la16 or an ld16.
LinesKeepTheirMeaning ==
    stage = "decoded" /\ line # None =>
        /\ ~Reserved(ir)
        /\ FsimOp(cinstr) # "" \/ MicroOp(instr_b) # ""
        /\ FsimOp(cinstr) # "" => Reads(FsimView(cinstr), line)
        /\ MicroOp(instr_b) # "" => Reads(MicroView(instr_b), line)

\* The word that a simulator looks up for an operation in a cycle is the row
\* that micro.mx has for it, although the microcode assembler counts lines and
\* the simulators multiply (micro-asm.rb:150-264, main2.c:353-462, main.c:317-420).
\* main.c has no sign extension.
RowsReachSimulators ==
    stage = "decoded" /\ MicroOp(instr_b) \in Op =>
        \A cycle \in {"FETCH", "DECODE", "READ", "EXEC"} :
            LET idx == Idx(MicroOpcode(instr_b), cycle)
                row == IF cycle = "FETCH" THEN FetchRow ELSE RowOf(MicroOp(instr_b), cycle)
            IN  /\ Fsm2Rows[idx] = row
                /\ OldRows[idx] = [row EXCEPT !.sig = @ \ {"sext"}]

\* The conversions of common.c agree on all strings of their lengths and are
\* inverse to dec2bin; a negative number differs by the power of two.
\* bin13_to_dec, which nothing calls, counts a leading '1' as 4196.
ConversionsAgree ==
    stage = "decoded" =>
        LET Cut_(from, n) == Field(instr_b, from, n)
        IN  /\ Bin2dec(instr_b) = ir
            /\ \A from \in 0 .. 13 :
                  /\ Bin3ToDec(Cut_(from, 3)) = Bin2dec(Cut_(from, 3))
                  /\ Bin2ToDec(Cut_(from, 2)) = Bin2dec(Cut_(from, 2))
            /\ Bin7ToDec(Cut_(7, 7)) = Bin2dec(Cut_(7, 7))
            /\ Bin10ToDec(Cut_(3, 10)) = Bin2dec(Cut_(3, 10))
            /\ Bin13ToDec(Cut_(3, 13)) = Bin2dec(Cut_(3, 13)) + (100 * instr_b[4])
            /\ \A n \in {7, 10, 13} :
                  LET v == Sbin2dec(Cut_(3, n))
                  IN  /\ v \in -(2 ^ (n - 1)) .. 2 ^ (n - 1) - 1
                      /\ v % (2 ^ n) = Bin2dec(Cut_(3, n))
=============================================================================
