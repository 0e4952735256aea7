------------------------------- MODULE Paging -------------------------------
(***************************************************************************)
(* The memory of the functional simulator (fsim/main.c): the 64 kB of RAM, *)
(* one table of page table entries, the base register ptb, and the paging  *)
(* and system-mode bits of the two control registers.                      *)
(*                                                                         *)
(* An address is a pair of a page number and an offset, <<addr >> 11,      *)
(* addr & 0x7ff>> in the code; RAM has as many pages as the logical        *)
(* address space. Instructions are the memory and paging instructions of   *)
(* the code, with the operands a register may hold. User programs load,    *)
(* store and trap; the kernel installs only the entries of MayMap. (The    *)
(* simulator stops no user program from using the other instructions.)     *)
(***************************************************************************)
EXTENDS Integers, FiniteSets

CONSTANTS
    Pages,      \* 32: pages of the logical address space, and of RAM
    PageBytes,  \* 0x800
    Frames,     \* 256: values of the high byte of a page table entry
    Devices,    \* addresses from 0xff90 on
    Byte,       \* values of a byte
    PtSize,     \* 512: entries of pagetable[]
    Tables,     \* values the kernel writes to ptb
    NoTable,    \* 0xdead, the initial ptb, which is beyond pagetable[]
    MayMap,     \* the entries the kernel writes: pairs of index and entry
    KernelCrs,  \* values the kernel writes to its own control register
    UserCrs,    \* ... and to the user's
    LpteRegs,   \* register numbers used as the operand of lpte
    Unmapped    \* no byte: what a process sees where nothing is mapped

Page   == 0 .. Pages - 1
Offset == 0 .. PageBytes - 1
Addr   == Page \X Offset
Word   == Byte \X Byte  \* high byte first
Index  == 0 .. PtSize - 1
PTE    == [frame : 0 .. Frames - 1, present : BOOLEAN, system : BOOLEAN]
NoPte  == [frame |-> 0, present |-> FALSE, system |-> FALSE]

\* Offsets of the high and the low byte of the word in which offset o lies.
Hi(o) == o - (o % 2)
Lo(o) == Hi(o) + 1

ASSUME PagingAssumption ==
    /\ Pages \in Nat /\ Pages > 0
    /\ PageBytes \in Nat /\ PageBytes > 0 /\ PageBytes % 2 = 0
    /\ Frames \in Nat /\ Frames > 0
    /\ Devices \subseteq Addr
    /\ \A a \in Addr : (<<a[1], Hi(a[2])>> \in Devices) = (a \in Devices)
    /\ 0 \in Byte /\ Unmapped \notin Byte
    /\ PtSize \in Nat
    /\ \A t \in Tables : t \in Nat /\ t + Pages =< PtSize
    /\ \A t, u \in Tables : t # u => t + Pages =< u \/ u + Pages =< t
    /\ NoTable \in Nat /\ NoTable >= PtSize
    /\ MayMap \subseteq Index \X PTE
    /\ KernelCrs \cup UserCrs \subseteq SUBSET {"PE", "SM"}
    /\ LpteRegs \subseteq Index

VARIABLES
    ram,        \* ram[p][o]: the byte at offset o of physical page p
    pagetable,
    ptb,
    bank,       \* 1: system, 0: user
    ucr, scr,   \* PE: paging is on; SM: system mode
    got,        \* the register the last load or pop wrote
    gotpte,     \* the register the last lpte wrote
    fault       \* the last access printed FAULT

vars == <<ram, pagetable, ptb, bank, ucr, scr, got, gotpte, fault>>

TypeOK ==
    /\ ram \in [Page -> [Offset -> Byte]]
    /\ pagetable \in [Index -> PTE]
    /\ ptb \in Tables \cup {NoTable}
    /\ bank \in {0, 1}
    /\ ucr \in SUBSET {"PE", "SM"} /\ scr \in SUBSET {"PE", "SM"}
    /\ got \in Word
    /\ gotpte \in PTE
    /\ fault \in BOOLEAN

\* Globals are zero; ptb is 0xdead, scr 0x1, ucr 0x8. The program that
\* loadbios() has put into RAM is not modelled.
Init ==
    /\ ram = [p \in Page |-> [o \in Offset |-> 0]]
    /\ pagetable = [i \in Index |-> NoPte]
    /\ ptb = NoTable
    /\ bank = 1
    /\ ucr = {} /\ scr = {"SM"}
    /\ got = <<0, 0>> /\ gotpte = NoPte
    /\ fault = FALSE

-----------------------------------------------------------------------------
\* Translation.

cr == IF bank = 1 THEN scr ELSE ucr

\* getpte(): neither ptb nor the sum is checked; beyond the table the entry
\* is whatever lies there in memory.
GetpteIgnoresPtb(g) == IF ptb < PtSize THEN {pagetable[g]} ELSE PTE

Getpte(g) == IF ptb + g < PtSize THEN {pagetable[ptb + g]} ELSE PTE

\* Of the page number only what fits in the 16 bits of ptetmp is kept.
Physical(e, a) == <<e.frame % Pages, a[2]>>

FaultsIfAbsent(e) == ~e.present

FaultsIfSystem(e) == e.system /\ "SM" \notin cr

Faults(e) == ~e.present \/ (e.system /\ "SM" \notin cr)

\* pageaddr(): the physical address, and whether FAULT was printed. After the
\* prompt that follows a fault the access goes on.
Pageaddr(a) ==
    IF "PE" \in cr
    THEN {[at |-> Physical(e, a), fault |-> Faults(e)] : e \in Getpte(a[1])}
    ELSE {[at |-> a, fault |-> FALSE]}

-----------------------------------------------------------------------------
\* Memory accesses. A byte store takes the low byte of the register; a byte
\* load clears its high byte. An odd address means the word around it.

WordAt(p) == <<ram[p[1]][Hi(p[2])], ram[p[1]][Lo(p[2])]>>

WithWord(p, v) == [ram EXCEPT ![p[1]] =
                     [@ EXCEPT ![Hi(p[2])] = v[1], ![Lo(p[2])] = v[2]]]

WithByteUnmasked(p, v) == [ram EXCEPT ![p[1]][p[2]] = v[1] * Cardinality(Byte) + v[2]]

WithByte(p, v) == [ram EXCEPT ![p[1]][p[2]] = v[2]]

SameTables == UNCHANGED <<pagetable, ptb, bank, ucr, scr, gotpte>>

\* readram(). An address of a device is never translated.
Load(a) ==
    /\ a \notin Devices
    /\ \E x \in Pageaddr(a) :
         /\ got' \in {WordAt(x.at), <<0, ram[x.at[1]][x.at[2]]>>}
         /\ fault' = x.fault
    /\ SameTables /\ UNCHANGED ram

LoadDevice(a) ==
    /\ a \in Devices
    /\ got' \in Word
    /\ fault' = FALSE
    /\ SameTables /\ UNCHANGED ram

\* writeram().
Store(a, v) ==
    /\ a \notin Devices
    /\ \E x \in Pageaddr(a) :
         /\ ram' \in {WithWord(x.at, v), WithByte(x.at, v)}
         /\ fault' = x.fault
    /\ SameTables /\ UNCHANGED got

StoreDevice(a) ==
    /\ a \in Devices
    /\ fault' = FALSE
    /\ SameTables /\ UNCHANGED <<ram, got>>

-----------------------------------------------------------------------------
\* The kernel's instructions, and the ways in and out.

Wpte(i, e) ==
    /\ bank = 1 /\ <<i, e>> \in MayMap
    /\ pagetable' = [pagetable EXCEPT ![i] = e]
    /\ fault' = FALSE
    /\ UNCHANGED <<ram, ptb, bank, ucr, scr, got, gotpte>>

\* lpte of register r, which holds the index i: the code takes the number of
\* the register for the index.
Lpte(r, i) ==
    /\ bank = 1 /\ r \in LpteRegs
    /\ gotpte' = pagetable[r]
    /\ fault' = FALSE
    /\ UNCHANGED <<ram, pagetable, ptb, bank, ucr, scr, got>>

Wptb(t) ==
    /\ bank = 1 /\ t \in Tables
    /\ ptb' = t
    /\ fault' = FALSE
    /\ UNCHANGED <<ram, pagetable, bank, ucr, scr, got, gotpte>>

Wcr(v) ==
    /\ bank = 1 /\ v \in KernelCrs
    /\ scr' = v
    /\ fault' = FALSE
    /\ UNCHANGED <<ram, pagetable, ptb, bank, ucr, got, gotpte>>

WcrUser(v) ==
    /\ bank = 1 /\ v \in UserCrs
    /\ ucr' = v
    /\ fault' = FALSE
    /\ UNCHANGED <<ram, pagetable, ptb, bank, scr, got, gotpte>>

Reti ==
    /\ bank' = 0
    /\ bank = 1
    /\ fault' = FALSE
    /\ UNCHANGED <<ram, pagetable, ptb, ucr, scr, got, gotpte>>

Trap ==
    /\ bank' = 1
    /\ fault' = FALSE
    /\ UNCHANGED <<ram, pagetable, ptb, ucr, scr, got, gotpte>>

Access ==
    \/ \E a \in Addr : Load(a) \/ LoadDevice(a) \/ StoreDevice(a)
    \/ \E a \in Addr, v \in Word : Store(a, v)

Next ==
    \/ Access
    \/ \E x \in MayMap : Wpte(x[1], x[2])
    \/ \E r \in LpteRegs, i \in Index : Lpte(r, i)
    \/ \E t \in Tables : Wptb(t)
    \/ \E v \in KernelCrs : Wcr(v)
    \/ \E v \in UserCrs : WcrUser(v)
    \/ Reti \/ Trap

Spec == Init /\ [][Next]_vars

-----------------------------------------------------------------------------
\* Entries a user program may use, and the bytes it sees through table t.

Granted(e) == e.present /\ ~e.system

Entry(t, g) == pagetable[t + g]

View(t) == [a \in Addr \ Devices |->
    LET e == Entry(t, a[1])
        p == Physical(e, a)
    IN  IF Granted(e) THEN ram[p[1]][p[2]] ELSE Unmapped]

\* The process that runs: a user program under paging with a table of its own.
Running == IF bank = 0 /\ "PE" \in ucr /\ "SM" \notin ucr /\ ptb \in Tables
           THEN ptb ELSE NoTable

\* The kernel hands out no physical page twice.
Disciplined ==
    \A x, y \in MayMap :
        x[1] # y[1] /\ Granted(x[2]) /\ Granted(y[2])
        => x[2].frame % Pages # y[2].frame % Pages

\* Whatever a process does without being told of a fault, it changes no byte
\* that another process sees. (fsim/main.c:303-312, 494-533, 660-689)
ProcessesIsolated ==
    [][ Running # NoTable /\ ~fault'
        => \A t \in Tables \ {Running} : View(t)' = View(t) ]_vars

\* ... and no byte of a physical page that is not granted to it, the kernel's
\* pages and the pages of tables not in use among them. (fsim/main.c:660-689)
StoresStayInside ==
    [][ Running # NoTable /\ ~fault'
        => \A p \in Page :
             ram'[p] # ram[p] =>
               \E g \in Page : /\ Granted(Entry(Running, g))
                               /\ Entry(Running, g).frame % Pages = p ]_vars

\* The paged machine gives each process a memory of its own.
PM == INSTANCE ProcessMemory WITH
    Proc <- Tables,
    NoProc <- NoTable,
    Vaddr <- Addr \ Devices,
    Buddy <- [a \in Addr |-> <<<<a[1], Hi(a[2])>>, <<a[1], Lo(a[2])>>>>],
    Zero <- 0,
    mem <- [t \in Tables |-> View(t)],
    running <- Running

\* (fsim/main.c:455-533, 660-689)
ImplementsProcessMemory == PM!PSpec
=============================================================================
