----------------------------- MODULE MCPrograms -----------------------------
(***************************************************************************)
(* Words of four bits, five registers and eight RAM words for both          *)
(* microcode simulators. The instructions are the combinations of the       *)
(* operands an operation has, with a few immediates.                        *)
(***************************************************************************)
EXTENDS Microcode, Bitwise, TLC

MCGP == {0, 1}
MCAnd(x, y) == x & y
MCOr(x, y) == x | y

Imms == {1, 8, 14}        \* 1, -8 and -2
Pairs == Regs \X Regs

Ops3 == Alu3 \cup Addskp \cup {"ldw.b", "ldb.b"}

\* Written: the registers a result may go to.
Program(Written) ==
    {[Plain(op) EXCEPT !.arg0 = p[1], !.arg1 = p[2], !.tgt = t] :
        op \in Ops3, p \in Pairs, t \in Written}
    \cup {[Plain(op) EXCEPT !.arg0 = p[1], !.arg1 = p[2], !.tgt = t] :
        op \in {"stw.b", "stb.b"}, p \in Pairs, t \in Regs}
    \cup {[Plain("skip") EXCEPT !.arg0 = p[1], !.arg1 = p[2], !.cond = c] :
        p \in Pairs, c \in Cond}
    \cup {[Plain(op) EXCEPT !.imm = n, !.arg1 = a, !.tgt = t] :
        op \in AluImm \cup Addskpi, n \in Imms, a \in Regs, t \in Written}
    \cup {[Plain(op) EXCEPT !.imm = n, !.tgt2 = 1] : op \in BaseBP, n \in Imms}
    \cup {[Plain(op) EXCEPT !.imm = n, !.arg2 = a, !.tgt2 = 1] :
        op \in {"shl", "shr"}, n \in {0, 1, 3}, a \in Regs}
    \cup {[Plain("ldi") EXCEPT !.imm = n, !.tgt = t] : n \in Imms, t \in Written}
    \cup {[Plain("addhi") EXCEPT !.imm = n, !.tgt2 = 1] : n \in {0, 3}}
    \cup {[Plain("sext") EXCEPT !.arg0 = a, !.tgt = t] : a \in Regs, t \in Written}
    \cup {[Plain("br") EXCEPT !.imm = n] : n \in Imms}
    \cup {[Plain("pop") EXCEPT !.tgt = t] : t \in Written}
    \cup {[Plain(op) EXCEPT !.tgt = t] : op \in {"push", "br.r"}, t \in Regs}
    \cup {Plain("brk")}

\* Register contents: equal and different operands, zero and negative ones,
\* stacks at both ends of the memory.
MCInitRegs ==
    { 0 :> 0 @@ 1 :> 3  @@ 2 :> 13 @@ 3 :> 14 @@ 4 :> 6,
      0 :> 0 @@ 1 :> 8  @@ 2 :> 8  @@ 3 :> 0  @@ 4 :> 14,
      0 :> 0 @@ 1 :> 15 @@ 2 :> 1  @@ 3 :> 2  @@ 4 :> 0,
      0 :> 0 @@ 1 :> 5  @@ 2 :> 11 @@ 3 :> 9  @@ 4 :> 10,
      0 :> 0 @@ 1 :> 0  @@ 2 :> 7  @@ 3 :> 13 @@ 4 :> 2,
      0 :> 0 @@ 1 :> 14 @@ 2 :> 3  @@ 3 :> 4  @@ 4 :> 12 }

MCInitRam == {[w \in 0 .. Half - 1 |-> ((w * 5) + 3) % N]}
=============================================================================
