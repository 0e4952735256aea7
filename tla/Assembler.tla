----------------------------- MODULE Assembler -----------------------------
(***************************************************************************)
(* The assembler asm/asm.rb: the parser with its pseudo instructions and    *)
(* the numbering of labels, the passes over the tables (idsymbols,          *)
(* placeinstr, placemem, resolveptrs), the encoder and the writer. A step   *)
(* is a line of the parser or a whole pass. Registers are left out, and so  *)
(* are instructions that differ from others in their register fields only   *)
(* ("plain"). A failure ends the program, whatever its exit status.         *)
(***************************************************************************)
EXTENDS AsmSource

VARIABLES
    pc,            \* the next pass, or how the program ended
    source,        \* the lines read so far
    instrNr,       \* $instr_nr
    guard,         \* $double_label_guard
    codePtr,       \* $code_ptr
    labels,        \* $labels
    instructions,  \* $instructions
    mem,           \* $mem_instructions
    lastAddr,      \* $last_addr
    lastMemAddr,   \* $last_mem_addr
    symbols,       \* $symbols: the number a name points to, and its address
    image          \* what Writer.write puts out for :bin and :sim

tables == <<instrNr, guard, codePtr, labels, instructions, mem>>
results == <<lastAddr, lastMemAddr, symbols, image>>
vars == <<pc, source, tables, results>>

NoNr == -1  \* no number, no address, no code: fields not set yet

Passes == {"parse", "idsymbols", "placeinstr", "placemem", "resolveptrs",
           "build", "write"}

ItemOps == LineOps \cup {"lda", "addhi"}

Item == [op : ItemOps, name : Names \cup {NoName}, val : Int,
         ld16 : BOOLEAN, byte : BOOLEAN, bss : BOOLEAN, byte2 : BOOLEAN,
         nr : Int, addr : Int, code : Int]

Instruction(op, name, val) ==
    [op |-> op, name |-> name, val |-> val,
     ld16 |-> FALSE, byte |-> FALSE, bss |-> FALSE, byte2 |-> FALSE,
     nr |-> NoNr, addr |-> NoNr, code |-> NoNr]

Init ==
    /\ pc = "parse" /\ source = <<>>
    /\ instrNr = 0 /\ guard = 0 /\ codePtr = 0
    /\ labels = <<>> /\ instructions = <<>> /\ mem = <<>>
    /\ lastAddr = 0 /\ lastMemAddr = 0 /\ symbols = <<>> /\ image = <<>>

-----------------------------------------------------------------------------
\* The parser.

Byte(v) == [Instruction("defb", NoName, v) EXCEPT !.byte = TRUE]

LastLoads == Low - 1

Ld16(v) ==
    IF v <= LastLoads THEN <<Instruction("ldi", NoName, v)>>
    ELSE << [Instruction("ldi", NoName, v % Low) EXCEPT !.ld16 = TRUE],
            [Instruction("addhi", NoName, (v \div Low) % High) EXCEPT !.ld16 = TRUE] >>

\* What a line that is neither a directive nor a label appends.
Items(l) ==
    CASE l.op = "ld16" -> Ld16(l.val)
      [] l.op = "la16" -> << Instruction("lda", l.name, l.val),
                             Instruction("addhi", l.name, l.val) >>
      [] l.op = "defstr" ->
            [i \in 1 .. Len(l.chars) + 1 |->
                Byte(IF i > Len(l.chars) THEN 0 ELSE l.chars[i])]
      [] l.op = "defs" ->
            [i \in 1 .. l.val \div 2 |->
                [Instruction("defw", NoName, 0) EXCEPT !.bss = TRUE]]
      [] l.op = "defb" -> <<Byte(l.val)>>
      [] OTHER -> <<Instruction(l.op, l.name, l.val)>>

MemOps == {"defw", "defb", "defstr", "defs"}
Directives == {"code", "data"}

Numbered(items) ==
    [i \in DOMAIN items |-> [items[i] EXCEPT !.nr = instrNr + i - 1]]

\* appendinstr of a label: the labels just before it move on with it.
MovedOn ==
    [i \in DOMAIN labels |->
        IF labels[i].nr \in instrNr - guard .. instrNr - 1
        THEN [labels[i] EXCEPT !.ptr = @ + 1]
        ELSE labels[i]]

ParseLabel(l) ==
    /\ l.op = "label"
    /\ labels' = Append(MovedOn, [name |-> l.name, nr |-> instrNr, ptr |-> instrNr + 1])
    /\ instrNr' = instrNr + 1 /\ guard' = guard + 1
    /\ UNCHANGED <<pc, codePtr, instructions, mem>>

\* A pseudo instruction may stand for no items at all ("defs 1"). Data end a
\* row of labels as instructions do, which the first of these forgets.
GuardAfterInstructionsOnly(items, op) ==
    IF items = <<>> \/ op \in MemOps THEN guard ELSE 0

GuardAfter(items, op) == IF items = <<>> THEN guard ELSE 0

ParseItems(l) ==
    /\ l.op \notin Directives \cup {"label"}
    /\ LET items == Items(l)
       IN  /\ instrNr' = instrNr + Len(items)
           /\ guard' = GuardAfter(items, l.op)
           /\ IF l.op \in MemOps
              THEN mem' = mem \o Numbered(items) /\ UNCHANGED instructions
              ELSE instructions' = instructions \o Numbered(items) /\ UNCHANGED mem
    /\ UNCHANGED <<pc, codePtr, labels>>

ParseCode(l) ==
    /\ l.op = "code"
    /\ IF instrNr # 0 THEN pc' = "error" /\ UNCHANGED codePtr
       ELSE codePtr' = l.val /\ UNCHANGED pc
    /\ UNCHANGED <<instrNr, guard, labels, instructions, mem>>

\* parseline returns nothing for a line that starts with a dot and not with
\* .code, so parse never comes to its branch for .data: $data_ptr stays 0.
ParseData(l) == l.op = "data" /\ UNCHANGED <<pc, tables>>

ParseLine ==
    /\ pc = "parse" /\ Len(source) < MaxLines
    /\ \E l \in Lines :
        /\ source' = Append(source, l)
        /\ ParseLabel(l) \/ ParseItems(l) \/ ParseCode(l) \/ ParseData(l)
    /\ UNCHANGED results

EndOfFile ==
    /\ pc = "parse" /\ pc' = "idsymbols"
    /\ UNCHANGED <<source, tables, results>>

-----------------------------------------------------------------------------
\* The symbol table.

LabelNames == {labels[i].name : i \in DOMAIN labels}
UsedNames == {instructions[i].name : i \in DOMAIN instructions} \ {NoName}

\* push() of a name that exists replaces its entry.
PtrOfFirst(n) == labels[CHOOSE i \in DOMAIN labels :
                    /\ labels[i].name = n
                    /\ \A j \in 1 .. i - 1 : labels[j].name # n].ptr

PtrOf(n) == labels[CHOOSE i \in DOMAIN labels :
                    /\ labels[i].name = n
                    /\ \A j \in i + 1 .. Len(labels) : labels[j].name # n].ptr

\* An expression in an instruction that is no part of an la16 ends in mexit. The
\* data are not among the instructions yet.
Idsymbols ==
    /\ pc = "idsymbols"
    /\ IF \A i \in DOMAIN instructions :
            Calculated(instructions[i]) => instructions[i].op \in {"lda", "addhi"}
       THEN /\ pc' = "placeinstr"
            /\ symbols' = [n \in LabelNames \cup UsedNames |->
                    [ptr |-> IF n \in LabelNames THEN PtrOf(n) ELSE NoNr, addr |-> NoNr]]
       ELSE pc' = "error" /\ UNCHANGED symbols
    /\ UNCHANGED <<source, tables, lastAddr, lastMemAddr, image>>

Placeinstr ==
    /\ pc = "placeinstr" /\ pc' = "placemem"
    /\ instructions' = [i \in DOMAIN instructions |->
                            [instructions[i] EXCEPT !.addr = codePtr + 2 * (i - 1)]]
    /\ lastAddr' = codePtr + 2 * Len(instructions)
    /\ UNCHANGED <<source, instrNr, guard, codePtr, labels, mem, lastMemAddr,
                   symbols, image>>

\* Initialised data first, then what defs reserves.
BssLast ==
    LET bss == {i \in DOMAIN mem : mem[i].bss}
    IN  Those(mem, DOMAIN mem \ bss) \o Those(mem, bss)

\* Two bytes that are neighbours in the list share a word.
Role(list) ==
    LET role[i \in 0 .. Len(list)] ==
            IF i = 0 THEN "single"
            ELSE IF role[i - 1] = "first" THEN "second"
            ELSE IF list[i].byte /\ i < Len(list) /\ list[i + 1].byte THEN "first"
            ELSE "single"
    IN  role

Sizes(list) ==
    LET role == Role(list)
    IN  [i \in DOMAIN list |-> IF role[i] = "single" THEN 2 ELSE 1]

\* The addresses of the list's items from address a on; the last is the end.
Placement(list, a) ==
    LET total == Totals(Sizes(list))
    IN  [i \in 1 .. Len(list) + 1 |-> a + total[i - 1]]

MergedLowFirst(b1, b2) == (b2 * 256) + b1
Merged(b1, b2) == (b1 * 256) + b2

Placed(list, a) ==
    LET role == Role(list)
        addr == Placement(list, a)
    IN  [i \in DOMAIN list |->
            [list[i] EXCEPT
                !.addr = addr[i],
                !.byte2 = (role[i] = "second"),
                !.val = IF role[i] = "first" THEN Merged(@, list[i + 1].val) ELSE @]]

Placemem ==
    /\ pc = "placemem" /\ pc' = "resolveptrs"
    /\ mem' = Placed(BssLast, lastAddr)
    /\ instructions' = instructions \o mem'
    /\ lastMemAddr' = Placement(BssLast, lastAddr)[Len(mem) + 1]
    /\ UNCHANGED <<source, instrNr, guard, codePtr, labels, lastAddr, symbols, image>>

Found(nr) == {i \in DOMAIN instructions : instructions[i].nr = nr}

\* A symbol without a label, or with a label nothing follows, ends in mexit.
Resolveptrs ==
    /\ pc = "resolveptrs"
    /\ IF \A n \in DOMAIN symbols : Found(symbols[n].ptr) # {}
       THEN /\ pc' = "build"
            /\ symbols' = [n \in DOMAIN symbols |->
                    [symbols[n] EXCEPT !.addr =
                        instructions[CHOOSE i \in Found(symbols[n].ptr) : TRUE].addr]]
       ELSE pc' = "error" /\ UNCHANGED symbols
    /\ UNCHANGED <<source, tables, lastAddr, lastMemAddr, image>>

-----------------------------------------------------------------------------
\* The encoder and the writer.

\* bitsfromint: the value of a field of span values, or NoNr.
SignedbitsUnsliced(int, span) ==
    IF int \in -(span \div 2 - 1) .. span \div 2 - 1 THEN int ELSE NoNr

Signedbits(int, span) ==
    IF int \in -(span \div 2 - 1) .. span \div 2 - 1 THEN int % span ELSE NoNr

Unsignedbits(int, span) == IF int \in 0 .. span - 1 THEN int ELSE NoNr

Arg(instr) == instr.val + IF instr.name = NoName THEN 0 ELSE symbols[instr.name].addr

LowPart(instr) == Arg(instr) % Low
HighPartShifted(instr) == (Arg(instr) \div Low) % High
HighPart(instr) == IF instr.ld16 THEN Arg(instr) ELSE (Arg(instr) \div Low) % High

OffsetFromBranch(instr) == Arg(instr) - instr.addr
Offset(instr) == Arg(instr) - (instr.addr + 2)

\* The field, or the word, that an item is encoded to.
Encoded(instr) ==
    CASE instr.op = "br" -> Signedbits(Offset(instr), BrSpan)
      [] instr.op = "ldi" -> Signedbits(Arg(instr), 2 * Low)
      [] instr.op = "lda" -> Signedbits(LowPart(instr), 2 * Low)
      [] instr.op = "addhi" -> Unsignedbits(HighPart(instr), High)
      [] instr.op \in {"defw", "defb"} -> Unsignedbits(Arg(instr), Words)
      [] OTHER -> 0

\* What resolvesym does not find: a name that is no symbol, or an expression that
\* idsymbols has not taken apart. Its value is no number.
Unresolved(instr) ==
    \/ instr.name \notin DOMAIN symbols \cup {NoName}
    \/ instr.op = "defw" /\ Calculated(instr)

Encodable(instr) == instr.byte2 \/ (~Unresolved(instr) /\ Encoded(instr) # NoNr)

Build ==
    /\ pc = "build"
    /\ IF \A i \in DOMAIN instructions : Encodable(instructions[i])
       THEN /\ pc' = "write"
            /\ instructions' = [i \in DOMAIN instructions |->
                    IF instructions[i].byte2 THEN instructions[i]
                    ELSE [instructions[i] EXCEPT !.code = Encoded(instructions[i])]]
       ELSE pc' = "error" /\ UNCHANGED instructions
    /\ UNCHANGED <<source, instrNr, guard, codePtr, labels, mem, results>>

\* One word after the other; the loader counts them (ram[a], a += 1).
Written == Those(instructions, {i \in DOMAIN instructions : ~instructions[i].byte2})

Write ==
    /\ pc = "write" /\ pc' = "done"
    /\ image' = [i \in DOMAIN Written |->
                    [op |-> Written[i].op, code |-> Written[i].code]]
    /\ UNCHANGED <<source, tables, lastAddr, lastMemAddr, symbols>>

Next == \/ ParseLine \/ EndOfFile \/ Idsymbols \/ Placeinstr \/ Placemem
        \/ Resolveptrs \/ Build \/ Write

Spec == Init /\ [][Next]_vars

-----------------------------------------------------------------------------
TypeOK ==
    /\ pc \in Passes \cup {"done", "error"}
    /\ source \in Seq(Lines) /\ Len(source) <= MaxLines
    /\ instrNr \in Nat /\ guard \in 0 .. instrNr /\ codePtr \in Nat
    /\ labels \in Seq([name : Names, nr : Nat, ptr : Nat])
    /\ instructions \in Seq(Item) /\ mem \in Seq(Item)
    /\ \A i \in DOMAIN instructions : instructions[i].code \in NoNr .. Words - 1
    /\ lastAddr \in Nat /\ lastMemAddr \in Nat
    /\ \A n \in DOMAIN symbols : symbols[n] \in [ptr : Int, addr : Int]
    /\ image \in Seq([op : ItemOps, code : 0 .. Words - 1])

\* Every label points to the first number behind it that is not a label's own:
\* the guard for labels in a row (asm.rb:116-129) moves on all of them, over
\* any mixture of labels, instructions and data, and no label twice.
LabelsNameNextItem ==
    LET nrs == {labels[i].nr : i \in DOMAIN labels}
    IN  \A i \in DOMAIN labels :
            /\ labels[i].ptr > labels[i].nr
            /\ labels[i].ptr \notin nrs
            /\ labels[i].nr + 1 .. labels[i].ptr - 1 \subseteq nrs

\* The addresses that the labels of an assembled program have.
Where == [n \in DOMAIN symbols |-> symbols[n].addr]

L == INSTANCE Layout WITH
        verdict <- IF pc = "done" THEN "assembled"
                   ELSE IF pc = "error" THEN "rejected" ELSE "reading",
        where <- IF pc = "done" THEN Where ELSE <<>>

\* The passes together accept the programs of Layout, and no others, and give
\* each label the address Layout computes from the source alone: although data
\* are moved behind the code, defs behind other data, and bytes are paired.
ImplementsLayout == L!LSpec

\* loadbios puts the image at the start of the RAM: .code has moved the addresses,
\* and not the image (fsim/main.c:877, 917-918).
Ram(a) == image[(a \div 2) + 1]
LoadedAt(a) == a - codePtr

\* What is loaded for the line at address a.
At(a) == Ram(LoadedAt(a))
ByteAt(a) == IF a % 2 = 0 THEN At(a).code \div 256 ELSE At(a).code % 256

\* A branch of an assembled program, executed where it is loaded, goes to the line
\* its label names, wherever .code has put the two (asm.rb:606-621 against
\* fsim/main.c:94-98).
BranchesReachLabels ==
    pc = "done" => \A i \in DOMAIN source : source[i].op = "br" =>
        LET a == L!Address(source, i)
        IN  /\ At(a).op = "br"
            /\ BranchTarget(LoadedAt(a), At(a).code)
                    = LoadedAt(L!Where(source)[source[i].name]) % Words

\* ldi, ld16 and la16, executed, leave their operand modulo 2^16 in the
\* register, with one instruction or with two (asm.rb:270-287, 585-599).
ConstantsLoad ==
    pc = "done" => \A i \in DOMAIN source : source[i].op \in {"ldi", "ld16", "la16"} =>
        LET l == source[i]
            a == L!Address(source, i)
            lo == Ldi(At(a).code)
        IN  /\ At(a).op \in {"ldi", "lda"}
            /\ L!CodeSize(l) = 4 => At(a + 2).op = "addhi"
            /\ (Operand(l, L!Where(source)) % Words)
                  = IF L!CodeSize(l) = 4 THEN AddHi(At(a + 2).code, lo) ELSE lo

\* The bytes of a string, with its zero, and where its line is.
StringBytes(i) ==
    {<<L!Address(source, i) + k - 1, Append(source[i].chars, 0)[k]>> :
        k \in 1 .. Len(source[i].chars) + 1}

\* The bytes that the program defines.
DataBytes ==
    (UNION {StringBytes(i) : i \in {j \in DOMAIN source : source[j].op = "defstr"}})
    \cup {<<L!Address(source, i), source[i].val>> :
            i \in {j \in DOMAIN source : source[j].op = "defb"}}

\* Words and bytes of the data are read back where their lines are loaded, and
\* the header of the image (asm.rb:759-768) gives the address behind the last
\* one. A byte without another to share its word with is the exception: it
\* is put in the low byte of the word, where its label is the high one.
DataReadsBack ==
    pc = "done" =>
        /\ \A i \in DOMAIN source : source[i].op = "defw" =>
                At(L!Address(source, i)).code = Operand(source[i], L!Where(source))
        /\ \A b \in DataBytes :
                b[1] % 2 = 1 \/ (\E c \in DataBytes : c[1] = b[1] + 1)
                    => ByteAt(b[1]) = b[2]
        /\ lastMemAddr = codePtr + 2 * Len(image)

\* The address of a .data directive is where data start: the test of relocation
\* (validation/a_002.s:45, 60) loads the address of a variable behind it.
\* parseline drops the directive.
DataDirectiveHonoured ==
    pc = "done" => \A i \in DOMAIN source : source[i].op = "data" =>
        \A j \in DOMAIN mem : mem[j].addr >= source[i].val
=============================================================================
