----------------------------- MODULE AsmSource -----------------------------
(***************************************************************************)
(* The source lines of a program for the assembler asm/asm.rb, as far as    *)
(* placing and encoding tell them apart, and the instructions of            *)
(* fsim/main.c that take an address or a constant from the assembler.       *)
(***************************************************************************)
EXTENDS Integers, SequencesExt

CONSTANTS
    Names, NoName,  \* labels, and the name in lines that have none
    Lines,          \* the lines a program may consist of
    MaxLines,       \* bound: lines of a program
    Low, High,      \* 2^9 and 2^7: what ldi and addhi load of a word
    BrSpan          \* 2^13: values of the offset field of br

LineOps == {"code", "data", "label", "plain", "br", "ldi", "la16", "ld16",
            "defw", "defb", "defstr", "defs"}

Line == [op : LineOps, name : Names \cup {NoName}, val : Int, chars : Seq(Int)]

Words == Low * High  \* values of a word

ASSUME AsmSourceAssumption ==
    /\ NoName \notin Names
    /\ Low \in Nat \ {0} /\ High \in Nat \ {0, 1}
    /\ BrSpan \in 1 .. Words /\ BrSpan % 2 = 0 /\ Words >= 65536
    /\ MaxLines \in Nat

ASSUME LinesAssumption ==
    \A l \in Lines :
        /\ l \in Line
        /\ l.op \in {"label", "br"} => l.name \in Names
        /\ l.name # NoName => l.op \in {"label", "br", "plain", "ldi", "la16", "defw"}
        /\ l.op = "label" => l.val = 0
        /\ l.op = "code" => l.val >= 0 /\ l.val % 2 = 0
        /\ l.op = "defs" => l.val >= 0
        /\ l.op = "defb" => l.val \in 0 .. 255
        /\ \A i \in DOMAIN l.chars : l.chars[i] \in 1 .. 255

\* The totals of the first numbers of a sequence, of none to all of them.
Totals(numbers) ==
    LET total[i \in 0 .. Len(numbers)] ==
            IF i = 0 THEN 0 ELSE total[i - 1] + numbers[i]
    IN  total

\* The members of a list at the places in set, in their order.
Those(list, set) ==
    LET those[i \in 0 .. Len(list)] ==
            IF i = 0 THEN <<>>
            ELSE IF i \in set THEN Append(those[i - 1], list[i]) ELSE those[i - 1]
    IN  those[Len(list)]

\* An argument is an arithmetic expression: a name and a number.
Calculated(x) == x.name # NoName /\ x.val # 0

\* The operand of a line: its number, and the address of its label, if any.
Operand(l, where) == l.val + IF l.name = NoName THEN 0 ELSE where[l.name]

-----------------------------------------------------------------------------
\* What fsim/main.c does with the fields (see also WordOps).

\* A field of the given number of values as a two's complement number.
Signed(field, span) == IF 2 * field >= span THEN field - span ELSE field

Ldi(field) == Signed(field, 2 * Low) % Words

AddHi(field, x) == (field * Low) + (x % Low)

\* The instruction behind a br at address a has been counted already.
BranchTarget(a, field) == (a + 2 + Signed(field, BrSpan)) % Words
=============================================================================
