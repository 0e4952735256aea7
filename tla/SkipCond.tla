------------------------------ MODULE SkipCond ------------------------------
(***************************************************************************)
(* Compare-and-skip in the two simulators: skip.c, the carry flag it       *)
(* decides the unsigned conditions with, and the instructions that set and *)
(* reset that flag in fsim/main.c. The decision of the microcode simulator *)
(* main2.c on the same operands is kept beside it.                         *)
(***************************************************************************)
EXTENDS CondCodes

CONSTANT Registers  \* register numbers

VARIABLES
    reg,    \* the registers of the running bank
    carry,  \* the carry bit of its control register
    last    \* history: what the last instruction was, read and decided; stale:
            \* its carry is not of these operands alone

skipVars == <<reg, carry, last>>

NoResult == [op |-> "none", cond |-> "EQ", x |-> 0, y |-> 0,
             stale |-> FALSE, fsim |-> FALSE, micro |-> FALSE]

Result(op, x, y, stale) == [op |-> op, cond |-> "EQ", x |-> x, y |-> y,
                            stale |-> stale, fsim |-> FALSE, micro |-> FALSE]

TypeOK ==
    /\ reg \in [Registers -> Word]
    /\ carry \in BOOLEAN
    /\ last \in [op : {"none", "add", "sub", "skip"}, cond : Cond, x : Word, y : Word,
                 stale : BOOLEAN, fsim : BOOLEAN, micro : BOOLEAN]

SkipInit ==
    /\ reg = [r \in Registers |-> 0]
    /\ carry = FALSE
    /\ last = NoResult

-----------------------------------------------------------------------------
\* The instructions of fsim, each with the carry reset at the end of its
\* iteration: an instruction that does not set the carry loses it.

\* Every instruction that may write a register and never sets the carry.
LoadKeepsCarry(t, v) ==
    /\ reg' = [reg EXCEPT ![t] = v]
    /\ carry' = carry
    /\ last' = NoResult

Load(t, v) ==
    /\ reg' = [reg EXCEPT ![t] = v]
    /\ carry' = FALSE
    /\ last' = NoResult

CarryOut(x, y) == x + y >= N

\* add and sub compute the carry after the result is written: from the new
\* value of the target where it is also an operand.
Add(a, b, t) ==
    /\ reg' = [reg EXCEPT ![t] = Sum(reg[a], reg[b])]
    /\ carry' = CarryOut(reg'[a], reg'[b])
    /\ last' = Result("add", reg[a], reg[b], t \in {a, b})

Sub(a, b, t) ==
    /\ reg' = [reg EXCEPT ![t] = Diff(reg[a], reg[b])]
    /\ carry' = Borrow(reg'[a], reg'[b])
    /\ last' = Result("sub", reg[a], reg[b], t \in {a, b})

\* skip.c adds a borrow of its own to the flag before it tests it.
Skip(a, b, cond) ==
    LET x == reg[a]
        y == reg[b]
    IN  /\ last' = [op |-> "skip", cond |-> cond, x |-> x, y |-> y,
                    stale |-> carry /\ ~Borrow(x, y),
                    fsim |-> FsimDecides(cond, Diff(x, y), carry \/ Borrow(x, y)),
                    micro |-> MicroDecides(cond, Diff(x, y), Borrow(x, y))]
        /\ carry' = Borrow(x, y)
        /\ UNCHANGED reg

SkipNext ==
    \/ \E t \in Registers, v \in Word : Load(t, v)
    \/ \E a, b, t \in Registers : Add(a, b, t)
    \/ \E a, b, t \in Registers : Sub(a, b, t)
    \/ \E a, b \in Registers, cond \in Cond : Skip(a, b, cond)

SkipSpec == SkipInit /\ [][SkipNext]_skipVars

-----------------------------------------------------------------------------
\* What the conditions mean.

SignedValue(w) == IF Negative(w) THEN w - N ELSE w

Means(cond, x, y) ==
    CASE cond = "EQ"   -> x = y
      [] cond = "NEQ"  -> x # y
      [] cond = "LT"   -> SignedValue(x) < SignedValue(y)
      [] cond = "LTE"  -> SignedValue(x) =< SignedValue(y)
      [] cond = "GT"   -> SignedValue(x) > SignedValue(y)
      [] cond = "GTE"  -> SignedValue(x) >= SignedValue(y)
      [] cond = "ULT"  -> x < y
      [] cond = "ULTE" -> x =< y

\* The signed difference fits in a word.
DifferenceFits(x, y) ==
    /\ -Half =< SignedValue(x) - SignedValue(y)
    /\ SignedValue(x) - SignedValue(y) < Half

Unsigned == {"ULT", "ULTE"}

\* Both simulators decide as the condition means, with two exceptions only: a
\* signed condition whose difference overflows, and in fsim an unsigned one
\* that finds the carry of the instruction before it. (fsim/main.c:158-198,
\* main2.c:595-629)
VerdictsRight ==
    last.op = "skip" =>
        /\ (last.cond \in Unsigned \/ DifferenceFits(last.x, last.y) \/ last.cond \in {"EQ", "NEQ"})
             => (last.micro <=> Means(last.cond, last.x, last.y))
        /\ ~last.stale \/ last.cond \notin Unsigned => (last.fsim <=> last.micro)

\* The two simulators part at a skip in one way only: fsim skips on an unsigned
\* condition and main2.c does not, directly behind an instruction that has left a
\* carry: its own operands carried or borrowed, or its result replaced one of them
\* and the flag was computed from that. fsim skips whenever main2.c does, and a carry of
\* any older instruction "needs to survive one instr cycle then be reset", and decides
\* nothing. (fsim/main.c:85, 131-151, 178-193, 367-371)
LeftCarry(r) ==
    \/ r.op = "add" /\ (r.stale \/ CarryOut(r.x, r.y))
    \/ r.op = "sub" /\ (r.stale \/ Borrow(r.x, r.y))
    \/ r.op = "skip" /\ Borrow(r.x, r.y)

PartByNeighbourOnly ==
    [][last'.op = "skip" /\ last'.fsim # last'.micro
         => last'.fsim /\ last'.cond \in Unsigned /\ LeftCarry(last)]_skipVars
=============================================================================
