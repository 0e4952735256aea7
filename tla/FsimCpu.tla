------------------------------ MODULE FsimCpu ------------------------------
(***************************************************************************)
(* The main loop of the functional simulator (fsim/main.c) with its two    *)
(* register banks, its two control registers, its traps and the SD card.   *)
(*                                                                         *)
(* An iteration of the loop is two steps here: Traps (loop test, prompt,   *)
(* traps()) and one instruction (fetch, decode, execute, carry reset).     *)
(* SIGINT may be handled before either. The instruction at an address is   *)
(* not modelled: any instruction of the class the running bank's code is   *)
(* allowed (KernelOps, UserOps) may be fetched, so that the runs and the   *)
(* proofs speak of every program that keeps to those classes.              *)
(*                                                                         *)
(* Abstractions: of the register files only the PC of each bank and the    *)
(* system registers 1 and 2, in which a trap is reported, are kept; a      *)
(* control register and trapnr are the sets of their bits' names; an       *)
(* address counts instructions, modulo PcSpace.                            *)
(***************************************************************************)
EXTENDS SdCard

CONSTANTS
    PcSpace,    \* number of instruction addresses (0x10000 / 2)
    PcEnd,      \* the loop runs while PC is below it (0xf800 / 2)
    Flags,      \* control register bits: IR, PE, CY, SM
    Tgts,       \* values of the operand field tgt (0 .. 7)
    NoVal,      \* a value of register 2 that no trap put there
    KernelOps,  \* instruction classes the code run in the system bank uses
    UserOps,    \* instruction classes the code run in the user bank uses
    AwaitsTrap, \* the program starts a read, or clears traps, only when no
                \* read is still owed its interrupt
    Debugger    \* somebody uses the debugger prompt

Ops == {"other", "arith", "skip", "jump", "syscall", "reti", "wcr", "wcr.u",
        "wivec", "pop.u", "rsi", "sd.status", "sd.data", "sd.read", "sd.pop",
        "brk", "null", "exit"}

Addr  == 0 .. PcSpace - 1
Causes == {"syscall", "timer", "disk"}

ASSUME CpuAssumption ==
    /\ PcSpace \in Nat /\ PcSpace > 0 /\ PcEnd \in Nat
    /\ {"IR", "CY"} \subseteq Flags /\ Flags \subseteq {"IR", "PE", "CY", "SM"}
    /\ 0 \in Tgts
    /\ NoVal \notin Tgts
    /\ KernelOps \subseteq Ops /\ UserOps \subseteq Ops
    /\ AwaitsTrap \in BOOLEAN /\ Debugger \in BOOLEAN

VARIABLES
    phase,      \* "traps", "exec", or "done" once the simulator has exited
    bank,       \* 1: system register file, 0: user register file
    ucr, scr,   \* the control registers
    trapnr,     \* pending trap causes
    ivec,       \* the trap vector
    upc, spc,   \* uregfile[PC], sregfile[PC]
    sr1, sr2,   \* sregfile[1] (empty: not a trap report), sregfile[2]
    cinstr,     \* the last decoded instruction
    sflag,      \* prompt before every instruction
    sigint,     \* SIGINT is still handled (the handler ignores it afterwards)
    polled,     \* history: the last status read said free, no command since
    owed        \* history: a read was accepted, its trap is not yet taken

cpuvars == <<phase, bank, ucr, scr, trapnr, ivec, upc, spc, sr1, sr2, cinstr>>
vars == <<cpuvars, sflag, sigint, sdvars, polled, owed>>

TypeOK ==
    /\ phase \in {"traps", "exec", "done"}
    /\ bank \in {0, 1}
    /\ ucr \subseteq Flags /\ scr \subseteq Flags
    /\ trapnr \subseteq {"syscall", "disk"}
    /\ ivec \in Addr /\ upc \in Addr /\ spc \in Addr
    /\ sr1 \subseteq Causes
    /\ sr2 \in Tgts \cup {NoVal}
    /\ cinstr \in [op : {"syscall", "null", "other"}, tgt : Tgts]
    /\ sflag \in BOOLEAN /\ sigint \in BOOLEAN
    /\ polled \in BOOLEAN /\ owed \in BOOLEAN
    /\ SdTypeOK

\* Globals start as zero; main() sets ucr to 0x8 and scr to 0x1.
Init ==
    /\ phase = "traps"
    /\ bank = 1
    /\ ucr = {"IR"} /\ scr = {"SM"} \cap Flags
    /\ trapnr = {}
    /\ ivec = 0 /\ upc = 0 /\ spc = 0
    /\ sr1 = {} /\ sr2 = NoVal
    /\ cinstr = [op |-> "other", tgt |-> 0]
    /\ sflag \in (IF Debugger THEN BOOLEAN ELSE {FALSE})
    /\ sigint = Debugger
    /\ polled = FALSE /\ owed = FALSE
    /\ SdInit

-----------------------------------------------------------------------------
\* Register and control register access: readreg(PC), readcr(0).

pc == IF bank = 1 THEN spc ELSE upc
cr == IF bank = 1 THEN scr ELSE ucr

\* incr_pc(), n times: once for the fetch, twice when the instruction skips.
Plus(a, n) == (a + n) % PcSpace

IncrPc(n) ==
    /\ spc' = IF bank = 1 THEN Plus(spc, n) ELSE spc
    /\ upc' = IF bank = 0 THEN Plus(upc, n) ELSE upc

\* The end of an iteration resets the carry of bank b, which is then running,
\* unless the instruction has just set it. u and s are what the instruction
\* left in ucr and scr.
EndIteration(b, u, s, justsetcarry) ==
    /\ ucr' = IF b = 0 /\ ~justsetcarry THEN u \ {"CY"} ELSE u
    /\ scr' = IF b = 1 /\ ~justsetcarry THEN s \ {"CY"} ELSE s

\* An instruction that sets the carry keeps it; every other one loses it.
SetCarry ==
    EndIteration(bank, IF bank = 0 THEN ucr \cup {"CY"} ELSE ucr,
                       IF bank = 1 THEN scr \cup {"CY"} ELSE scr, TRUE)

LoseCarry == EndIteration(bank, ucr, scr, FALSE)

\* writereg(): only the system registers 1 and 2 are modelled.
WriteReg(r) ==
    /\ sr1' = IF bank = 1 /\ r = 1 THEN {} ELSE sr1
    /\ sr2' = IF bank = 1 /\ r = 2 THEN NoVal ELSE sr2

Regs == {0, 1, 2}  \* 0 stands for every register that is not modelled

\* A session at the prompt of getinput(): an examined address range may hold
\* the FIFO's low word (readram() pops it), and ss0 / ss1 set sflag.
Session ==
    /\ sflag' \in (IF Debugger THEN BOOLEAN ELSE {sflag})
    /\ (Debugger /\ PopLow) \/ UNCHANGED rfifo_p

-----------------------------------------------------------------------------
\* The top of the loop: loop test, prompt when single-stepping, traps().

LoopGoesOn == pc < PcEnd /\ cinstr.op # "null"

Prompt == IF sflag THEN Session ELSE UNCHANGED <<sflag, rfifo_p>>

\* trapnr after diskirq().
Pending == trapnr \cup (IF DiskFires THEN {"disk"} ELSE {})

DiskFirst(p) == IF "disk" \in p THEN "disk" ELSE "syscall"

\* The cause whose bit traps() clears.
Served(p) ==
    IF "syscall" \in p THEN "syscall"
    ELSE IF "timer" \in p THEN "timer"
    ELSE "disk"

TopOfLoop ==
    /\ phase = "traps" /\ LoopGoesOn
    /\ Prompt
    /\ disk_irq' = Countdown
    /\ phase' = "exec"
    /\ UNCHANGED <<ucr, scr, ivec, upc, cinstr, sigint, rfifo, sddata, polled>>

TakeTrapClearsAll ==
    /\ TopOfLoop
    /\ Pending # {} /\ "IR" \in cr
    /\ sr1' = Pending
    /\ trapnr' = {}
    /\ sr2' = cinstr.tgt
    /\ spc' = ivec
    /\ bank' = 1
    /\ owed' = (owed /\ Served(Pending) # "disk")

TakeTrap ==
    /\ TopOfLoop
    /\ Pending # {} /\ "IR" \in cr
    /\ sr1' = Pending
    /\ trapnr' = Pending \ {Served(Pending)}
    /\ sr2' = cinstr.tgt
    /\ spc' = ivec
    /\ bank' = 1
    /\ owed' = (owed /\ Served(Pending) # "disk")

NoTrapDiskirqLast ==
    /\ TopOfLoop
    /\ trapnr = {} \/ "IR" \notin cr
    /\ trapnr' = Pending
    /\ UNCHANGED <<bank, spc, sr1, sr2, owed>>

NoTrap ==
    /\ TopOfLoop
    /\ Pending = {} \/ "IR" \notin cr
    /\ trapnr' = Pending
    /\ UNCHANGED <<bank, spc, sr1, sr2, owed>>

Exit ==
    /\ phase' = "done"
    /\ UNCHANGED <<bank, ucr, scr, trapnr, ivec, upc, spc, sr1, sr2, cinstr,
                   sflag, sigint, sdvars, polled, owed>>

\* The loop test fails, or the user quits at the single-step prompt.
Stop ==
    /\ phase = "traps"
    /\ ~LoopGoesOn \/ (sflag /\ Debugger)
    /\ Exit

\* INThandler(): the first SIGINT opens a prompt between any two steps; the
\* handler sets SIG_IGN and so is never called again.
Sigint ==
    /\ phase # "done" /\ sigint
    /\ \/ /\ sigint' = FALSE
          /\ Session
          /\ UNCHANGED <<cpuvars, disk_irq, rfifo, sddata, polled, owed>>
       \/ Exit  \* the user quits

-----------------------------------------------------------------------------
\* Instructions. Fetch(op) is what they share: fetch and decode. Of the opcode,
\* no later step looks at more than Decoded(op).

Decoded(op) == IF op \in {"syscall", "null"} THEN op ELSE "other"

Fetch(op) ==
    /\ phase = "exec"
    /\ op \in (IF bank = 1 THEN KernelOps ELSE UserOps)
    /\ \E t \in Tgts : cinstr' = [op |-> Decoded(op), tgt |-> t]
    /\ phase' = "traps"
    /\ UNCHANGED sigint

\* What an instruction that is not about the card or the prompt leaves alone.
NoDevice == UNCHANGED <<sdvars, sflag, polled, owed>>

\* Loads, stores and operations on registers and memory, without carry. (A store to
\* 0xb05a is in Brk.)
Other ==
    /\ Fetch("other")
    /\ \E n \in {1, 2} : IncrPc(n)  \* addskp.z and addskp.nz may skip
    /\ \E r \in Regs : WriteReg(r)
    /\ LoseCarry
    /\ NoDevice /\ UNCHANGED <<bank, trapnr, ivec>>

\* add and sub: a carry out of bit 15 is recorded.
Arith ==
    /\ Fetch("arith")
    /\ IncrPc(1)
    /\ \E r \in Regs : WriteReg(r)
    /\ SetCarry \/ LoseCarry
    /\ NoDevice /\ UNCHANGED <<bank, trapnr, ivec>>

\* skip.c: sets the carry when the second operand is the larger.
Skip ==
    /\ Fetch("skip")
    /\ \E n \in {1, 2} : IncrPc(n)
    /\ SetCarry \/ LoseCarry
    /\ NoDevice /\ UNCHANGED <<bank, trapnr, ivec, sr1, sr2>>

\* br, br.r, and every other write to the running bank's PC.
Jump ==
    /\ Fetch("jump")
    /\ \E a \in Addr : /\ spc' = IF bank = 1 THEN a ELSE spc
                       /\ upc' = IF bank = 0 THEN a ELSE upc
    /\ LoseCarry
    /\ NoDevice /\ UNCHANGED <<bank, trapnr, ivec, sr1, sr2>>

Syscall ==
    /\ Fetch("syscall")
    /\ IncrPc(1)
    /\ trapnr' = trapnr \cup {"syscall"}
    /\ LoseCarry
    /\ NoDevice /\ UNCHANGED <<bank, ivec, sr1, sr2>>

\* The carry reset that follows already works on the user's register.
Reti ==
    /\ Fetch("reti")
    /\ IncrPc(1)
    /\ bank' = 0
    /\ EndIteration(0, ucr, scr, FALSE)
    /\ NoDevice /\ UNCHANGED <<trapnr, ivec, sr1, sr2>>

\* wcr: writecr(v, 0).
Wcr ==
    /\ Fetch("wcr")
    /\ IncrPc(1)
    /\ \E v \in SUBSET Flags :
         EndIteration(bank, IF bank = 0 THEN v ELSE ucr,
                            IF bank = 1 THEN v ELSE scr, FALSE)
    /\ NoDevice /\ UNCHANGED <<bank, trapnr, ivec, sr1, sr2>>

WcrUserWrongBank ==
    /\ Fetch("wcr.u")
    /\ IncrPc(1)
    /\ \E v \in SUBSET Flags :
         EndIteration(bank, IF bank = 0 THEN v ELSE ucr,
                            IF bank = 1 THEN v ELSE scr, FALSE)
    /\ NoDevice /\ UNCHANGED <<bank, trapnr, ivec, sr1, sr2>>

\* wcr.u: writecr(v, 1).
WcrUser ==
    /\ Fetch("wcr.u")
    /\ IncrPc(1)
    /\ \E v \in SUBSET Flags : EndIteration(bank, v, scr, FALSE)
    /\ NoDevice /\ UNCHANGED <<bank, trapnr, ivec, sr1, sr2>>

Wivec ==
    /\ Fetch("wivec")
    /\ IncrPc(1)
    /\ ivec' \in Addr
    /\ LoseCarry
    /\ NoDevice /\ UNCHANGED <<bank, trapnr, sr1, sr2>>

\* pop.u pc: the only pop.u whose target is modelled.
PopUser ==
    /\ Fetch("pop.u")
    /\ spc' = IF bank = 1 THEN Plus(spc, 1) ELSE spc
    /\ upc' \in Addr
    /\ LoseCarry
    /\ NoDevice /\ UNCHANGED <<bank, trapnr, ivec, sr1, sr2>>

Rsi ==
    /\ Fetch("rsi")
    /\ AwaitsTrap => ~owed
    /\ IncrPc(1)
    /\ trapnr' = {}
    /\ LoseCarry
    /\ NoDevice /\ UNCHANGED <<bank, ivec, sr1, sr2>>

\* readsd() at 0xffa2, the poll of the drivers' wait_while_busy loop.
SdStatus ==
    /\ Fetch("sd.status")
    /\ IncrPc(1)
    /\ \E r \in Regs : WriteReg(r)
    /\ polled' = (Status = "free")
    /\ LoseCarry
    /\ UNCHANGED <<bank, trapnr, ivec, sflag, sdvars, owed>>

\* writesd() at 0xffa6.
SdData ==
    /\ Fetch("sd.data")
    /\ IncrPc(1)
    /\ \E b \in Blocks : WriteSdData(b)
    /\ LoseCarry
    /\ UNCHANGED <<bank, trapnr, ivec, sr1, sr2, sflag, polled, owed>>

\* writesd() of 0x8851 at 0xffa2; bread() ends the simulator when it refuses.
SdRead ==
    /\ Fetch("sd.read")
    /\ AwaitsTrap => ~owed
    /\ ~BreadRefused
    /\ IncrPc(1)
    /\ Bread
    /\ polled' = FALSE /\ owed' = TRUE
    /\ LoseCarry
    /\ UNCHANGED <<bank, trapnr, ivec, sr1, sr2, sflag>>

SdReadRefused ==
    /\ phase = "exec"
    /\ "sd.read" \in (IF bank = 1 THEN KernelOps ELSE UserOps)
    /\ AwaitsTrap => ~owed
    /\ BreadRefused
    /\ Exit

\* readsd() at 0xffaa.
SdPop ==
    /\ Fetch("sd.pop")
    /\ IncrPc(1)
    /\ \E r \in Regs : WriteReg(r)
    /\ PopLow
    /\ LoseCarry
    /\ UNCHANGED <<bank, trapnr, ivec, sflag, disk_irq, rfifo, sddata, polled, owed>>

\* brk, and a store to 0xb05a: a prompt; quitting there is Halt.
Brk ==
    /\ Fetch("brk")
    /\ IncrPc(1)
    /\ Session
    /\ LoseCarry
    /\ UNCHANGED <<bank, trapnr, ivec, sr1, sr2, disk_irq, rfifo, sddata, polled, owed>>

\* The all-zero word is ldi r0, 0; the loop test then ends the simulation.
Null ==
    /\ Fetch("null")
    /\ IncrPc(1)
    /\ LoseCarry
    /\ NoDevice /\ UNCHANGED <<bank, trapnr, ivec, sr1, sr2>>

\* hlt, an unknown opcode, or quitting at the prompt of Brk: exit() before anything
\* that a later step could see.
Halt ==
    /\ phase = "exec"
    /\ "exit" \in (IF bank = 1 THEN KernelOps ELSE UserOps)
    /\ Exit

Execute ==
    \/ Other \/ Arith \/ Skip \/ Jump
    \/ Syscall \/ Reti \/ Wcr \/ WcrUser \/ Wivec \/ PopUser \/ Rsi
    \/ SdStatus \/ SdData \/ SdRead \/ SdReadRefused \/ SdPop
    \/ Brk \/ Null \/ Halt

Step == TakeTrap \/ NoTrap \/ Stop \/ Execute

Ended == phase = "done" /\ UNCHANGED vars  \* the process has exited

Next == Step \/ Sigint \/ Ended

Spec == Init /\ [][Next]_vars

\* One thread runs the loop and nothing in it waits, except at a prompt.
FairSpec == Spec /\ WF_vars(Step)

-----------------------------------------------------------------------------
\* Safety.

\* No instruction of an interruptible user program runs while a trap is
\* pending: traps() has looked at trapnr, after diskirq() may have added to it,
\* since the last change of either. (fsim/main.c:79, 636-655)
UserRunsUnpended ==
    phase = "exec" /\ bank = 0 /\ "IR" \in ucr => trapnr = {}

\* A program that has polled the card, read "free" and not issued a command
\* since can issue one: bread() does not end the simulation. The poll already
\* says free while the interrupt is still to fire; the traps() call before the
\* next instruction closes that gap. (fsim/main.c:546-555, 567-572, 618-629)
PollGrantsRead ==
    polled => disk_irq =< (IF phase = "exec" THEN 0 ELSE 1)

\* A program that waits for the interrupt of each read before it starts the
\* next, and clears no trap in between, has exactly one interrupt on its way
\* or pending for a read it is owed one for: none is lost, none merged into
\* another, none comes unasked. (fsim/main.c:583, 618-629, 639-649)
OneTrapPerRead ==
    AwaitsTrap =>
        /\ owed <=> (disk_irq > 0 \/ "disk" \in trapnr)
        /\ ~(disk_irq > 0 /\ "disk" \in trapnr)

\* A syscall executed where traps are admitted is the next thing delivered:
\* before any other instruction, with its operand in R2 and its cause in R1,
\* even when the disk interrupt fires at the same traps() call; the user's PC
\* stays behind the syscall. (fsim/main.c:283-285, 637-655)
SyscallIsPrecise ==
    [][ phase = "traps" /\ phase' = "exec" /\ cinstr.op = "syscall" /\ "IR" \in cr
        => /\ bank' = 1 /\ spc' = ivec /\ upc' = upc
           /\ "syscall" \in sr1' /\ "syscall" \notin trapnr'
           /\ sr2' = cinstr.tgt ]_vars

\* A kernel that never executes wcr is never interrupted, whatever the user
\* program does to the control registers it can reach: every trap is taken
\* from the user bank, so that no trap overwrites the R1, R2 and PC of a
\* handler. (fsim/main.c:52-53, 601-617, 637)
KernelNotReentered ==
    [][ "wcr" \notin KernelOps /\ bank = 1 /\ phase = "traps"
        => UNCHANGED <<sr1, sr2, spc>> ]_vars

-----------------------------------------------------------------------------
\* Refinement: the loop implements the abstract interrupt unit.

Rank == [c \in Causes |-> CASE c = "syscall" -> 0 [] c = "timer" -> 1 [] c = "disk" -> 2]

Unit == INSTANCE InterruptUnit WITH
    Cause <- Causes,
    pending <- trapnr,
    running <- IF bank = 1 THEN "system" ELSE "user",
    admits <- [b \in {"system", "user"} |->
                 "IR" \in (IF b = "system" THEN scr ELSE ucr)]

\* Every step of the simulator is a step of the abstract interrupt unit or
\* changes nothing it speaks of. (fsim/main.c:283-288, 300-302, 343-353, 601-658)
ImplementsInterruptUnit == Unit!USpec

-----------------------------------------------------------------------------
\* Liveness, under FairSpec.

\* A read that was accepted runs out, unless the simulation ends: no program
\* can keep the card busy for ever. (fsim/main.c:567-572, 584, 618-629)
ReadRunsOut == disk_irq > 0 ~> disk_irq = 0 \/ phase = "done"

\* As long as the program keeps coming back to an interruptible user program,
\* the interrupt it is owed is delivered, however many syscalls, which take
\* precedence, the user program makes. (fsim/main.c:640-649)
UserAtTraps == phase = "traps" /\ bank = 0 /\ "IR" \in ucr

DiskTrapDelivered == []<>UserAtTraps => (owed ~> ~owed \/ phase = "done")

-----------------------------------------------------------------------------
\* What the repository's documents and comments say and the code does not do.

\* conventions.md:3: in the handler of a syscall R1 "has the trapnr (=syscall)".
SyscallCauseInR1 ==
    [][ phase = "traps" /\ phase' = "exec" /\ cinstr.op = "syscall" /\ "IR" \in cr
        => sr1' = {"syscall"} ]_vars

\* fsim/main.c:368-369: "carry flag needs to survive one instr cycle then be reset":
\* a trap between the instruction that sets the carry and the next one of the
\* same program does not cost the program its carry.
UserCarrySurvivesTrap ==
    [][ bank = 1 /\ bank' = 0 => ("CY" \in ucr => "CY" \in ucr') ]_vars
=============================================================================
