---------------------------- MODULE MCInstrWord ----------------------------
(***************************************************************************)
(* All words, and lines with all registers or all immediates of their kind. *)
(***************************************************************************)
EXTENDS InstrWord

MCWords == 0 .. 65535
MCAnd(x, y) == 0
MCOr(x, y) == 0

RegArgs == {Name(n) : n \in {"r0", "r1", "r2", "r3", "r4", "r5", "bp", "r6", "sp", "pc"}}
SomeRegs == {Name("r0"), Name("r1"), Name("r4"), Name("bp"), Name("pc")}

Line(cmd, args) == [cmd |-> cmd, args |-> args, part |-> "whole"]

Indexes == RegArgs \cup {Num(0), Num(4)}

MCLines ==
    {Line(c, <<t, a, b>>) : c \in Alu3 \cup Addskp, t, a, b \in SomeRegs}
    \cup {Line("add", <<t, a, b>>) : t, a, b \in RegArgs}
    \cup {Line(c, <<t, i, b>>) : c \in {"ldw", "ldb", "ldw.b"}, t, b \in SomeRegs, i \in Indexes}
    \cup {Line(c, <<i, b, t>>) : c \in {"stw", "stb", "stb.b"}, t, b \in SomeRegs, i \in Indexes}
    \cup {Line(c, <<t, Num(v), Name("bp")>>) : c \in {"ldw", "ldb"}, t \in SomeRegs, v \in -66 .. 66}
    \cup {Line(c, <<Num(v), b, t>>) : c \in {"stw", "stb", "stw0", "stb0"},
                                      b \in {Name("bp"), Name("r5")}, t \in SomeRegs, v \in -66 .. 66}
    \cup {Line("ldi", <<t, Num(v)>>) : t \in SomeRegs, v \in -514 .. 514}
    \cup {Line("br", <<Num(v)>>) : v \in -4098 .. 4098}
    \cup {[Line(c, <<t, Num(v)>>) EXCEPT !.part = p] :
            c \in {"lda", "addhi"}, p \in {"whole", "la16"}, t \in SomeRegs,
            v \in {-32768, -1, 0, 5, 127, 511, 512, 513, 1024, 65023, 65024, 65535, 65536}}
    \cup {[Line("addhi", <<t, Num(v)>>) EXCEPT !.part = "ld16"] : t \in SomeRegs, v \in -1 .. 129}
    \cup {[Line("ldi", <<t, Num(v)>>) EXCEPT !.part = "ld16"] : t \in SomeRegs, v \in 0 .. 513}
    \cup {Line(c, <<t, a, Num(v)>>) : c \in {"shl", "shr"}, t, a \in SomeRegs, v \in -1 .. 17}
    \cup {Line(c, <<t, a, Num(v)>>) : c \in AluImm \cup Addskpi, t, a \in SomeRegs, v \in -9 .. 9}
    \cup {Line("skip", <<a, b, Name(COND[c])>>) : a, b \in SomeRegs, c \in 1 .. 8}
    \cup {Line(c, <<a, b>>) : c \in {"mov", "sext", "wpte", "lpte"}, a, b \in RegArgs}
    \cup {Line(c, <<a>>) : c \in {"push", "pop", "br.r", "push.u", "pop.u", "lcr", "lcr.u", "lptb",
                                  "wivec", "wcr", "wcr.u", "wptb"}, a \in RegArgs}
    \cup {Line(c, <<>>) : c \in Commands \cup {"sec"}}
    \* Lines with too few, too many or wrong arguments, or an unknown command.
    \cup {Line(c, args) : c \in Commands \cup {"sec"},
            args \in {<<Num(0)>>, <<Name("eq")>>, <<Name("r1"), Num(1)>>, <<Num(1), Name("bp")>>,
                      <<Num(1), Num(1), Num(1)>>, <<Name("r1"), Name("r1"), Name("r1"), Num(1)>>}}
=============================================================================
