------------------------------- MODULE Layout -------------------------------
(***************************************************************************)
(* What the author of a program may count on: which programs the assembler  *)
(* accepts, and where in memory each line ends up. Code comes first, in the *)
(* order of the source, then initialised data, then the space reserved by   *)
(* defs. Bytes are packed, words are at even addresses, and a label denotes *)
(* the next line that takes up memory.                                      *)
(***************************************************************************)
EXTENDS AsmSource, FiniteSetsExt

VARIABLES
    source,   \* the lines read
    verdict,  \* "reading", "assembled" or "rejected"
    where     \* the addresses of the labels of an assembled program

-----------------------------------------------------------------------------
CodeSize(l) ==
    CASE l.op \in {"plain", "br", "ldi"} -> 2
      [] l.op = "ld16" /\ l.val < Low -> 2
      [] l.op = "ld16" /\ l.val >= Low -> 4
      [] l.op = "la16" -> 4
      [] OTHER -> 0

DataSize(l) ==
    CASE l.op = "defw" -> 2
      [] l.op = "defb" -> 1
      [] l.op = "defstr" -> Len(l.chars) + 1
      [] OTHER -> 0

BssSize(l) == IF l.op = "defs" THEN 2 * (l.val \div 2) ELSE 0

TakesMemory(l) == CodeSize(l) + DataSize(l) + BssSize(l) > 0

\* The next even address, unless a is even.
Aligned(a) == a + (a % 2)

\* Where the code starts, after .code directives.
Base(src) ==
    LET set == {i \in DOMAIN src : src[i].op = "code"}
    IN  IF set = {} THEN 0 ELSE src[Max(set)].val

CodeAddress(src, i) ==
    Base(src) + Totals([j \in DOMAIN src |-> CodeSize(src[j])])[i - 1]

\* Where the data of the first i lines start.
DataStart(l, end) == IF l.op = "defw" THEN Aligned(end) ELSE end

\* The end of the initialised data of the first i lines, for each i.
DataEnd(src) ==
    LET end[i \in 0 .. Len(src)] ==
            IF i = 0 THEN CodeAddress(src, Len(src) + 1)
            ELSE DataStart(src[i], end[i - 1]) + DataSize(src[i])
    IN  end

BssAddress(src, i) ==
    Aligned(DataEnd(src)[Len(src)])
        + Totals([j \in DOMAIN src |-> BssSize(src[j])])[i - 1]

\* The address of line i of a program.
Address(src, i) ==
    CASE CodeSize(src[i]) > 0 -> CodeAddress(src, i)
      [] DataSize(src[i]) > 0 -> DataStart(src[i], DataEnd(src)[i - 1])
      [] OTHER -> BssAddress(src, i)

-----------------------------------------------------------------------------
Defined(src) == {src[i].name : i \in {j \in DOMAIN src : src[j].op = "label"}}

\* A name may be defined again; the last definition counts.
Definition(src, n) ==
    Max({i \in DOMAIN src : src[i].op = "label" /\ src[i].name = n})

Behind(src, i) == {j \in i .. Len(src) : TakesMemory(src[j])}

Where(src) ==
    [n \in Defined(src) |-> Address(src, Min(Behind(src, Definition(src, n))))]

\* An operand that its instruction or word has room for.
Fits(src, i) ==
    CASE src[i].op = "br" ->
            LET offset == Operand(src[i], Where(src)) - (Address(src, i) + 2)
            IN  offset \in -(BrSpan \div 2 - 1) .. BrSpan \div 2 - 1
      [] src[i].op = "ldi" -> Operand(src[i], Where(src)) \in -(Low - 1) .. Low - 1
      [] src[i].op = "ld16" -> src[i].val > -Low
      [] src[i].op = "defw" -> Operand(src[i], Where(src)) \in 0 .. Words - 1
      [] OTHER -> TRUE

Relocatable(src) ==
    \A i \in DOMAIN src : src[i].op = "code" =>
        \A j \in 1 .. i - 1 : src[j].op # "label" /\ ~TakesMemory(src[j])

\* Only the address of an la16 may be calculated from a label.
Calculable(src) == \A i \in DOMAIN src : Calculated(src[i]) => src[i].op = "la16"

Acceptable(src) ==
    /\ Relocatable(src) /\ Calculable(src)
    /\ \A n \in Defined(src) : Behind(src, Definition(src, n)) # {}
    /\ \A i \in DOMAIN src : src[i].name \in Defined(src) \cup {NoName}
    /\ \A i \in DOMAIN src : Fits(src, i)

-----------------------------------------------------------------------------
Init == source = <<>> /\ verdict = "reading" /\ where = <<>>

\* A line that makes the program unacceptable may be the last one read.
Read ==
    /\ verdict = "reading"
    /\ \E l \in Lines : source' = Append(source, l)
    /\ \/ verdict' = "reading"
       \/ verdict' = "rejected" /\ ~Acceptable(source')
    /\ UNCHANGED where

Accept ==
    /\ verdict = "reading" /\ Acceptable(source)
    /\ verdict' = "assembled" /\ where' = Where(source)
    /\ UNCHANGED source

Reject ==
    /\ verdict = "reading" /\ ~Acceptable(source)
    /\ verdict' = "rejected"
    /\ UNCHANGED <<source, where>>

Next == Read \/ Accept \/ Reject

LSpec == Init /\ [][Next]_<<source, verdict, where>>
=============================================================================
