---------------------------- MODULE MCAssembler ----------------------------
(***************************************************************************)
(* Assembler on all programs of a few lines, with the widths of the fields  *)
(* of a word, but branches of three bits.                                   *)
(***************************************************************************)
EXTENDS Assembler

CONSTANTS A, B

Src(op, name, val, chars) == [op |-> op, name |-> name, val |-> val, chars |-> chars]

\* Code at 510 lies across the border of what lda alone can address.
AllLines == {
    Src("code", NoName, 510, <<>>), Src("data", NoName, 1024, <<>>),
    Src("label", A, 0, <<>>), Src("label", B, 0, <<>>),
    Src("br", A, 0, <<>>), Src("br", B, 2, <<>>), Src("la16", B, -2, <<>>), Src("ld16", NoName, 600, <<>>),
    Src("ldi", NoName, -3, <<>>), Src("defw", A, 0, <<>>), Src("defw", A, 2, <<>>), Src("defb", NoName, 7, <<>>),
    Src("defstr", NoName, 0, <<65>>), Src("defstr", NoName, 0, <<65, 66>>),
    Src("defs", NoName, 1, <<>>), Src("defs", NoName, 3, <<>>)}

\* As in validation/a_002.s.
TestLines == {
    Src("code", NoName, 16, <<>>), Src("label", A, 0, <<>>), Src("la16", A, 0, <<>>),
    Src("data", NoName, 64, <<>>), Src("defw", NoName, 5, <<>>)}
=============================================================================
