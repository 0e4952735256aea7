------------------------------ MODULE WordOps ------------------------------
(***************************************************************************)
(* What the two simulators share: the registers with a role, the operations *)
(* on words, byte and word accesses to RAM (big-endian) and the decoded     *)
(* instructions. fsim/main.c and main2.c each have code of their own for    *)
(* all of them.                                                             *)
(***************************************************************************)
EXTENDS CondCodes

CONSTANTS
    BP, SP, PC,     \* register numbers with a role: 5, 6 and 7
    GP,             \* the others, of which 0 is one
    ByteSize,       \* 2^8
    Low,            \* 2^9: addhi replaces the bits from here on
    BitAnd(_, _), BitOr(_, _),
    Instrs,         \* the instructions a program may consist of
    None

Regs == GP \cup {BP, SP, PC}

ASSUME WordOpsAssumption ==
    /\ 0 \in GP /\ 0 \notin {BP, SP, PC}
    /\ ByteSize \in Nat /\ ByteSize > 2 /\ ByteSize * ByteSize = N
    /\ Low \in Nat /\ Low > 0
    /\ \A x, y \in Word : /\ BitAnd(x, y) \in Word /\ BitAnd(x, y) = BitAnd(y, x)
                          /\ BitOr(x, y) \in Word /\ BitOr(x, y) = BitOr(y, x)

-----------------------------------------------------------------------------
HighByte(w) == w \div ByteSize
LowByte(w)  == w % ByteSize

\* A count of 32 or more is undefined in C; the runs have none.
ShlUnwrapped(x, n) == x * (2 ^ n)

Shl(x, n) == (x * (2 ^ n)) % N
Shr(x, n) == x \div (2 ^ n)

Sext(x) == LET b == LowByte(x)
           IN  IF 2 * b >= ByteSize THEN (b + N) - ByteSize ELSE b

AddHi(imm, x) == (imm * Low) + (x % Low)

\* readram() and writeram() on RAM m; be: a byte, the high one at even addresses.
ReadRam(m, a, be) ==
    LET w == m[a \div 2]
    IN  IF ~be THEN w ELSE IF a % 2 = 1 THEN LowByte(w) ELSE HighByte(w)

WriteRam(m, a, v, be) ==
    [m EXCEPT ![a \div 2] =
        IF ~be THEN v
        ELSE IF a % 2 = 1 THEN (HighByte(@) * ByteSize) + LowByte(v)
        ELSE (LowByte(v) * ByteSize) + LowByte(@)]

-----------------------------------------------------------------------------
\* The instructions, by operation; the operand fields they do not have are 0.

Alu3    == {"add", "sub", "and", "or", "shl.r", "shr.r"}
AluImm  == {"addi", "subi", "andi", "ori"}
Addskp  == {"addskp.z", "addskp.nz"}
Addskpi == {"addskpi.z", "addskpi.nz"}
BaseBP  == {"ldw", "ldb", "stw", "stb", "stw0", "stb0"}
Indexed == {"ldw.b", "ldb.b", "stw.b", "stb.b"}
ByteOps == {"ldb", "stb", "stb0", "ldb.b", "stb.b"}

Op == Alu3 \cup AluImm \cup Addskp \cup Addskpi \cup BaseBP \cup Indexed
      \cup {"ldi", "br", "skip", "sext", "addhi", "push", "pop", "br.r",
            "shl", "shr", "brk", "hlt"}

Instr == [op : Op, arg0 : Regs, arg1 : Regs, arg2 : Regs, tgt : Regs, tgt2 : Regs,
          imm : Word, cond : Cond]

\* An operation without operands.
Plain(op) == [op |-> op, arg0 |-> 0, arg1 |-> 0, arg2 |-> 0, tgt |-> 0, tgt2 |-> 0,
              imm |-> 0, cond |-> "EQ"]

ASSUME InstrsAssumption ==
    /\ Instrs \subseteq Instr /\ None \notin Instr
    /\ \A i \in Instrs : i.op = "addhi" => i.imm < N \div Low
=============================================================================
