-------------------------------- MODULE Isa --------------------------------
(***************************************************************************)
(* The instruction set as the functional simulator (fsim/main.c) executes  *)
(* it: one step per instruction. Traps, control registers, page tables and *)
(* the user bank are left to FsimCpu and Paging; the carry, which only     *)
(* skip.c looks at, to SkipCond (no flag is stale here). An instruction is *)
(* a record of its decoded fields.                                         *)
(***************************************************************************)
EXTENDS WordOps

CONSTANTS InitRegs, InitRam  \* what a program may start with

VARIABLES
    regs,  \* the registers of the running bank
    ram,   \* words
    last   \* the instruction that has just been executed; None while one is fetched

ivars == <<regs, ram, last>>

-----------------------------------------------------------------------------
\* i is the instruction, r the registers after the fetch.

Fetched == [regs EXCEPT ![PC] = Sum(@, 2)]

IncrPc(r) == [r EXCEPT ![PC] = Sum(@, 2)]

\* The value an instruction computes from registers alone.
Value(i, r) ==
    LET x == r[i.arg0]
        y == r[i.arg1]
    IN  CASE i.op \in {"add", "addskp.z", "addskp.nz"} -> Sum(x, y)
          [] i.op = "sub"   -> Diff(x, y)
          [] i.op = "and"   -> BitAnd(x, y)
          [] i.op = "or"    -> BitOr(x, y)
          [] i.op = "shl.r" -> Shl(x, y)
          [] i.op = "shr.r" -> Shr(x, y)
          [] i.op \in {"addi", "addskpi.z", "addskpi.nz"} -> Sum(i.imm, y)
          [] i.op = "subi"  -> Diff(y, i.imm)
          [] i.op = "andi"  -> BitAnd(i.imm, y)
          [] i.op = "ori"   -> BitOr(i.imm, y)
          [] i.op = "ldi"   -> i.imm
          [] i.op = "sext"  -> Sext(x)
          [] i.op = "addhi" -> AddHi(i.imm, r[i.tgt2])
          [] i.op = "shl"   -> Shl(r[i.arg2], i.imm)
          [] i.op = "shr"   -> Shr(r[i.arg2], i.imm)
          [] i.op = "br"    -> Sum(r[PC], i.imm)
          [] i.op = "br.r"  -> r[i.tgt]

Target(i) == IF i.op \in {"br", "br.r"} THEN PC
             ELSE IF i.op \in {"addhi", "shl", "shr", "ldw", "ldb"} THEN i.tgt2
             ELSE i.tgt

Computed(i) == [Fetched EXCEPT ![Target(i)] = Value(i, Fetched)]

Compute(i) ==
    /\ i.op \in Alu3 \cup AluImm \cup {"ldi", "sext", "addhi", "shl", "shr", "br", "br.r"}
    /\ regs' = Computed(i)
    /\ UNCHANGED ram

\* addskp looks at the result; the PC it increments may be the target.
AddSkip(i) ==
    /\ i.op \in Addskp \cup Addskpi
    /\ LET skips == (Value(i, Fetched) = 0) = (i.op \in {"addskp.z", "addskpi.z"})
       IN  regs' = IF skips THEN IncrPc(Computed(i)) ELSE Computed(i)
    /\ UNCHANGED ram

SkipOn(i) ==
    /\ i.op = "skip"
    /\ LET x == Fetched[i.arg0]
           y == Fetched[i.arg1]
       IN  regs' = IF FsimDecides(i.cond, Diff(x, y), Borrow(x, y))
                   THEN IncrPc(Fetched) ELSE Fetched
    /\ UNCHANGED ram

Address(i) == IF i.op \in BaseBP THEN Sum(Fetched[BP], i.imm)
              ELSE Sum(Fetched[i.arg0], Fetched[i.arg1])

LoadMem(i) ==
    /\ i.op \in {"ldw", "ldb", "ldw.b", "ldb.b"}
    /\ regs' = [Fetched EXCEPT ![Target(i)] = ReadRam(ram, Address(i), i.op \in ByteOps)]
    /\ UNCHANGED ram

StoreMem(i) ==
    /\ i.op \in {"stw", "stb", "stw0", "stb0", "stw.b", "stb.b"}
    /\ LET v == IF i.op \in {"stw0", "stb0"} THEN 0
                ELSE IF i.op \in BaseBP THEN Fetched[i.tgt2] ELSE Fetched[i.tgt]
       IN  ram' = WriteRam(ram, Address(i), v, i.op \in ByteOps)
    /\ regs' = Fetched

\* The stack pointer moves first, also for the value that is pushed.
Push(i) ==
    /\ i.op = "push"
    /\ regs' = [Fetched EXCEPT ![SP] = Diff(@, 2)]
    /\ ram' = WriteRam(ram, regs'[SP], regs'[i.tgt], FALSE)

Pop(i) ==
    /\ i.op = "pop"
    /\ LET popped == [Fetched EXCEPT ![i.tgt] = ReadRam(ram, Fetched[SP], FALSE)]
       IN  regs' = [popped EXCEPT ![SP] = Sum(@, 2)]
    /\ UNCHANGED ram

\* brk: the prompt.
Break(i) ==
    /\ i.op = "brk"
    /\ regs' = Fetched
    /\ UNCHANGED ram

\* hlt (einde()) has no step: the program ends.
Execute(i) ==
    \/ Compute(i) \/ AddSkip(i) \/ SkipOn(i) \/ LoadMem(i) \/ StoreMem(i)
    \/ Push(i) \/ Pop(i) \/ Break(i)

ExecuteNext == last = None /\ last' \in Instr /\ Execute(last')

FetchNext == last # None /\ last' = None /\ UNCHANGED <<regs, ram>>

INext == FetchNext \/ ExecuteNext

ISpec ==
    /\ regs \in InitRegs /\ ram \in InitRam /\ last = None
    /\ [][INext]_ivars
=============================================================================
