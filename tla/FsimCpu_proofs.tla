--------------------------- MODULE FsimCpu_proofs ---------------------------
(***************************************************************************)
(* Theorems about FsimCpu, for every program (KernelOps, UserOps), every   *)
(* card latency and every size of the address space.                       *)
(***************************************************************************)
EXTENDS FsimCpu, TLAPS

USE SdAssumption, CpuAssumption

\* The PC stays an address.
LEMMA PlusType ==
    ASSUME NEW a \in Addr, NEW n \in {1, 2}
    PROVE  Plus(a, n) \in Addr
  BY DEF Plus, Addr

\* Moving the PC of the running bank keeps both PCs addresses.
LEMMA IncrPcType ==
    ASSUME TypeOK, NEW n \in {1, 2}, IncrPc(n)
    PROVE  spc' \in Addr /\ upc' \in Addr
  BY PlusType DEF IncrPc, TypeOK

\* What the end of an iteration writes are control register values.
LEMMA EndIterationType ==
    ASSUME NEW b, NEW u \in SUBSET Flags, NEW s \in SUBSET Flags, NEW j,
           EndIteration(b, u, s, j)
    PROVE  ucr' \subseteq Flags /\ scr' \subseteq Flags
  BY DEF EndIteration

LEMMA CarryType ==
    ASSUME TypeOK, SetCarry \/ LoseCarry
    PROVE  ucr' \subseteq Flags /\ scr' \subseteq Flags
  BY DEF SetCarry, LoseCarry, EndIteration, TypeOK

LEMMA WriteRegType ==
    ASSUME TypeOK, NEW r, WriteReg(r)
    PROVE  sr1' \subseteq Causes /\ sr2' \in Tgts \cup {NoVal}
  BY DEF WriteReg, TypeOK

LEMMA SessionType ==
    ASSUME TypeOK, Session
    PROVE  sflag' \in BOOLEAN /\ rfifo_p' \in 0 .. FifoBytes + FifoSlack
  BY DEF Session, PopLow, TypeOK, SdTypeOK

LEMMA FetchType ==
    ASSUME TypeOK, NEW op, Fetch(op)
    PROVE  /\ cinstr' \in [op : {"syscall", "null", "other"}, tgt : Tgts]
           /\ phase' = "traps" /\ sigint' \in BOOLEAN
  BY DEF Fetch, Decoded, TypeOK

LEMMA TopType ==
    ASSUME TypeOK, TopOfLoop
    PROVE  /\ phase' = "exec" /\ disk_irq' \in 0 .. SdDelay
           /\ rfifo_p' \in 0 .. FifoBytes + FifoSlack /\ sflag' \in BOOLEAN
<1>1. sflag' \in BOOLEAN /\ rfifo_p' \in 0 .. FifoBytes + FifoSlack
  BY SessionType DEF TopOfLoop, Prompt, TypeOK, SdTypeOK
<1> QED
  BY <1>1 DEF TopOfLoop, Countdown, TypeOK, SdTypeOK

-----------------------------------------------------------------------------
\* Every step keeps every variable within its type.
LEMMA TypeStep ==
    ASSUME TypeOK, [Next]_vars
    PROVE  TypeOK'
<1> USE DEF TypeOK, SdTypeOK
<1>1. CASE Other
  BY <1>1, FetchType, IncrPcType, CarryType, WriteRegType DEF Other, NoDevice, sdvars
<1>2. CASE Arith
  BY <1>2, FetchType, IncrPcType, CarryType, WriteRegType DEF Arith, NoDevice, sdvars
<1>3. CASE Skip
  BY <1>3, FetchType, IncrPcType, CarryType DEF Skip, NoDevice, sdvars
<1>4. CASE Jump
  BY <1>4, FetchType, CarryType DEF Jump, NoDevice, sdvars
<1>5. CASE Syscall
  BY <1>5, FetchType, IncrPcType, CarryType DEF Syscall, NoDevice, sdvars
<1>6. CASE Reti
  BY <1>6, FetchType, IncrPcType, EndIterationType DEF Reti, NoDevice, sdvars
<1>7. CASE Wcr
  BY <1>7, FetchType, IncrPcType, EndIterationType DEF Wcr, NoDevice, sdvars
<1>8. CASE WcrUser
  BY <1>8, FetchType, IncrPcType, EndIterationType DEF WcrUser, NoDevice, sdvars
<1>9. CASE Wivec
  BY <1>9, FetchType, IncrPcType, CarryType DEF Wivec, NoDevice, sdvars
<1>10. CASE PopUser
  BY <1>10, FetchType, PlusType, CarryType DEF PopUser, NoDevice, sdvars
<1>11. CASE Rsi
  BY <1>11, FetchType, IncrPcType, CarryType DEF Rsi, NoDevice, sdvars
<1>12. CASE SdStatus
  BY <1>12, FetchType, IncrPcType, CarryType, WriteRegType DEF SdStatus, NoDevice, sdvars
<1>13. CASE SdData
  BY <1>13, FetchType, IncrPcType, CarryType DEF SdData, NoDevice, sdvars, WriteSdData
<1>14. CASE SdRead
  <2>1. SdTypeOK'
    BY <1>14 DEF SdRead, Bread, BreadRefused
  <2>2. phase' = "traps" /\ spc' \in Addr /\ upc' \in Addr /\ ucr' \subseteq Flags /\ scr' \subseteq Flags
    BY <1>14, FetchType, IncrPcType, CarryType DEF SdRead
  <2> QED
    BY <1>14, <2>1, <2>2, FetchType DEF SdRead
<1>15. CASE SdReadRefused
  BY <1>15 DEF SdReadRefused, sdvars, Exit
<1>16. CASE SdPop
  BY <1>16, FetchType, IncrPcType, CarryType, WriteRegType DEF SdPop, NoDevice, sdvars, PopLow
<1>17. CASE Brk
  BY <1>17, FetchType, IncrPcType, CarryType, SessionType DEF Brk, NoDevice, sdvars
<1>18. CASE Null
  BY <1>18, FetchType, IncrPcType, CarryType DEF Null, NoDevice, sdvars
<1>19. CASE Halt
  BY <1>19 DEF Halt, sdvars, Exit
<1>20. CASE TakeTrap
  BY <1>20, TopType DEF TakeTrap, Pending, TopOfLoop, Causes
<1>21. CASE NoTrap
  BY <1>21, TopType DEF NoTrap, Pending, TopOfLoop
<1>22. CASE Stop
  BY <1>22 DEF Stop, Exit, sdvars
<1>23. CASE Sigint
  BY <1>23, SessionType DEF Sigint, Exit, cpuvars, sdvars
<1>24. CASE UNCHANGED vars
  BY <1>24 DEF vars, cpuvars, sdvars
<1> QED
  BY <1>1, <1>2, <1>3, <1>4, <1>5, <1>6, <1>7, <1>8, <1>9, <1>10, <1>11, <1>12, <1>13, <1>14, <1>15, <1>16, <1>17, <1>18, <1>19, <1>20, <1>21, <1>22, <1>23, <1>24 DEF Next, Step, Execute, Ended

LEMMA TypeInit == Init => TypeOK
<1> SUFFICES ASSUME Init PROVE TypeOK
  OBVIOUS
<1>1. SdTypeOK
  BY DEF Init, SdInit, SdTypeOK
<1>2. sflag \in BOOLEAN /\ sigint \in BOOLEAN
  BY DEF Init
<1>3. ucr \subseteq Flags /\ scr \subseteq Flags
  BY DEF Init
<1>4. ivec \in Addr /\ upc \in Addr /\ spc \in Addr
  BY DEF Init, Addr
<1>5. cinstr \in [op : {"syscall", "null", "other"}, tgt : Tgts]
  BY DEF Init
<1> QED
  BY <1>1, <1>2, <1>3, <1>4, <1>5 DEF Init, TypeOK

\* Every variable keeps its type: in particular the card's countdown never
\* goes below zero, and traps() never meets a cause it does not know, so that
\* its exit ("UNKOWN TRAP NR") is not reached.
THEOREM TypeCorrect == Spec => []TypeOK
<1>1. Init => TypeOK
  BY TypeInit
<1>2. TypeOK /\ [Next]_vars => TypeOK'
  BY TypeStep
<1> QED
  BY <1>1, <1>2, PTL DEF Spec

-----------------------------------------------------------------------------
(***************************************************************************)
(* The inductive invariant. To the invariants the runs check it adds what  *)
(* they rest on: a syscall that was just executed is pending when traps()  *)
(* looks, and a kernel without wcr keeps traps out of the system bank.     *)
(***************************************************************************)
SyscallPends == phase = "traps" /\ cinstr.op = "syscall" => "syscall" \in trapnr

KernelMasked == "wcr" \notin KernelOps => "IR" \notin scr

IInv == /\ TypeOK
        /\ UserRunsUnpended
        /\ PollGrantsRead
        /\ OneTrapPerRead
        /\ SyscallPends
        /\ KernelMasked

\* Instructions that concern neither traps nor the card.
Plain == \/ Other \/ Arith \/ Skip \/ Jump \/ Reti \/ Wcr \/ WcrUser
         \/ Wivec \/ PopUser \/ Brk \/ Null

LEMMA PlainStep ==
    ASSUME Plain
    PROVE  /\ phase = "exec" /\ phase' = "traps" /\ cinstr'.op # "syscall"
           /\ UNCHANGED <<trapnr, disk_irq, polled, owed>>
<1> USE DEF Fetch, Decoded, NoDevice, sdvars
<1>1. CASE Other BY <1>1 DEF Other
<1>2. CASE Arith BY <1>2 DEF Arith
<1>3. CASE Skip BY <1>3 DEF Skip
<1>4. CASE Jump BY <1>4 DEF Jump
<1>5. CASE Reti BY <1>5 DEF Reti
<1>6. CASE Wcr BY <1>6 DEF Wcr
<1>7. CASE WcrUser BY <1>7 DEF WcrUser
<1>8. CASE Wivec BY <1>8 DEF Wivec
<1>9. CASE PopUser BY <1>9 DEF PopUser
<1>10. CASE Brk BY <1>10 DEF Brk
<1>11. CASE Null BY <1>11 DEF Null
<1> QED
  BY <1>1, <1>2, <1>3, <1>4, <1>5, <1>6, <1>7, <1>8, <1>9, <1>10, <1>11 DEF Plain

\* Steps that end the simulation, and steps of nobody.
Final == Stop \/ SdReadRefused \/ Halt

LEMMA ExitStep ==
    ASSUME Exit
    PROVE  /\ phase' = "done"
           /\ UNCHANGED <<trapnr, disk_irq, polled, owed, bank, ucr, scr>>
  BY DEF Exit, sdvars

LEMMA FinalStep ==
    ASSUME Final
    PROVE  Exit
  BY DEF Final, Stop, SdReadRefused, Halt

\* The cases of a step, as the proofs below need them.
LEMMA Cases ==
    ASSUME [Next]_vars
    PROVE  \/ TakeTrap \/ NoTrap \/ Plain \/ Syscall \/ Rsi
           \/ SdStatus \/ SdData \/ SdRead \/ SdPop
           \/ Exit \/ (Sigint /\ UNCHANGED cpuvars) \/ UNCHANGED vars
  BY FinalStep DEF Next, Step, Execute, Plain, Final, Ended, Sigint

LEMMA StutterStep ==
    ASSUME (Sigint /\ UNCHANGED cpuvars) \/ UNCHANGED vars
    PROVE  UNCHANGED <<phase, bank, ucr, scr, trapnr, cinstr, disk_irq, polled, owed>>
<1>1. CASE UNCHANGED vars
  BY <1>1 DEF vars, cpuvars, sdvars
<1>2. CASE Sigint /\ UNCHANGED cpuvars
  BY <1>2 DEF Sigint, Exit, cpuvars, sdvars
<1> QED
  BY <1>1, <1>2

\* Only traps() leads to the execution of an instruction.
LEMMA UserRunsUnpendedStep ==
    ASSUME TypeOK, UserRunsUnpended, [Next]_vars
    PROVE  UserRunsUnpended'
<1> USE DEF UserRunsUnpended
<1>1. CASE TakeTrap
  BY <1>1 DEF TakeTrap
<1>2. CASE NoTrap
  BY <1>2 DEF NoTrap, TopOfLoop, cr
<1>3. CASE Plain
  BY <1>3, PlainStep
<1>4. CASE Syscall \/ Rsi \/ SdStatus \/ SdData \/ SdRead \/ SdPop
  BY <1>4 DEF Syscall, Rsi, SdStatus, SdData, SdRead, SdPop, Fetch
<1>5. CASE Exit
  BY <1>5, ExitStep
<1>6. CASE (Sigint /\ UNCHANGED cpuvars) \/ UNCHANGED vars
  BY <1>6, StutterStep
<1> QED
  BY <1>1, <1>2, <1>3, <1>4, <1>5, <1>6, Cases

\* The countdown between the poll and the command.
LEMMA PollGrantsReadStep ==
    ASSUME TypeOK, PollGrantsRead, [Next]_vars
    PROVE  PollGrantsRead'
<1> USE DEF PollGrantsRead
<1>0. disk_irq \in Int /\ (polled => disk_irq =< 1)
  BY DEF TypeOK, SdTypeOK
<1>1. CASE TakeTrap \/ NoTrap
  <2>1. phase = "traps" /\ phase' = "exec" /\ polled' = polled /\ disk_irq' = Countdown
    BY <1>1 DEF TakeTrap, NoTrap, TopOfLoop
  <2> QED
    BY <1>0, <2>1 DEF Countdown
<1>2. CASE Plain
  BY <1>0, <1>2, PlainStep
<1>3. CASE Syscall \/ Rsi
  BY <1>0, <1>3 DEF Syscall, Rsi, Fetch, NoDevice, sdvars
<1>4. CASE SdStatus
  <2>1. phase' = "traps" /\ disk_irq' = disk_irq /\ polled' = (Status = "free")
    BY <1>4 DEF SdStatus, Fetch, sdvars
  <2>2. Status = "free" => disk_irq =< 1
    BY <1>0 DEF Status
  <2> QED
    BY <2>1, <2>2
<1>5. CASE SdData \/ SdPop
  BY <1>0, <1>5 DEF SdData, WriteSdData, SdPop, Fetch
<1>6. CASE SdRead
  BY <1>6 DEF SdRead
<1>7. CASE Exit
  BY <1>0, <1>7, ExitStep
<1>8. CASE (Sigint /\ UNCHANGED cpuvars) \/ UNCHANGED vars
  BY <1>8, StutterStep
<1> QED
  BY <1>1, <1>2, <1>3, <1>4, <1>5, <1>6, <1>7, <1>8, Cases

\* A read's interrupt passes from the countdown to trapnr and from there to
\* the handler, and is in one of these places only.
LEMMA OneTrapPerReadStep ==
    ASSUME TypeOK, OneTrapPerRead, [Next]_vars
    PROVE  OneTrapPerRead'
<1> USE DEF OneTrapPerRead
<1> SUFFICES ASSUME AwaitsTrap
             PROVE  /\ owed' <=> (disk_irq' > 0 \/ "disk" \in trapnr')
                    /\ ~(disk_irq' > 0 /\ "disk" \in trapnr')
  OBVIOUS
<1>0. /\ disk_irq \in Nat /\ owed \in BOOLEAN /\ trapnr \subseteq {"syscall", "disk"}
      /\ owed <=> (disk_irq > 0 \/ "disk" \in trapnr)
      /\ ~(disk_irq > 0 /\ "disk" \in trapnr)
  BY DEF TypeOK, SdTypeOK
<1>1. CASE TakeTrap
  <2>1. /\ disk_irq' = Countdown /\ Pending # {}
        /\ trapnr' = Pending \ {Served(Pending)}
        /\ owed' = (owed /\ Served(Pending) # "disk")
    BY <1>1 DEF TakeTrap, TopOfLoop
  <2>2. "disk" \in Pending <=> ("disk" \in trapnr \/ disk_irq = 1)
    BY DEF Pending, DiskFires
  <2>3. Served(Pending) = "disk" => "disk" \in Pending
    <3>1. Pending \subseteq {"syscall", "disk"}
      BY <1>0 DEF Pending
    <3>2. "syscall" \in Pending \/ "disk" \in Pending
      BY <2>1, <3>1
    <3>3. "syscall" \in Pending => Served(Pending) # "disk"
      BY DEF Served
    <3> QED
      BY <3>2, <3>3
  <2>4. disk_irq' > 0 <=> disk_irq > 1
    BY <1>0, <2>1 DEF Countdown
  <2>5. CASE Served(Pending) = "disk"
    <3>1. "disk" \notin trapnr' /\ owed' = FALSE
      BY <2>1, <2>5
    <3>2. ~(disk_irq' > 0)
      BY <1>0, <2>2, <2>3, <2>4, <2>5
    <3> QED
      BY <3>1, <3>2
  <2>6. CASE Served(Pending) # "disk"
    <3>1. owed' = owed /\ ("disk" \in trapnr' <=> "disk" \in Pending)
      BY <1>0, <2>1, <2>6
    <3> QED
      BY <1>0, <2>2, <2>4, <3>1
  <2> QED
    BY <2>5, <2>6
<1>2. CASE NoTrap
  BY <1>0, <1>2 DEF NoTrap, TopOfLoop, Pending, DiskFires, Countdown
<1>3. CASE Plain
  BY <1>0, <1>3, PlainStep
<1>4. CASE Syscall
  BY <1>0, <1>4 DEF Syscall, NoDevice, sdvars
<1>5. CASE Rsi
  BY <1>0, <1>5 DEF Rsi, NoDevice, sdvars
<1>6. CASE SdStatus \/ SdData \/ SdPop
  BY <1>0, <1>6 DEF SdStatus, SdData, WriteSdData, SdPop, sdvars
<1>7. CASE SdRead
  BY <1>0, <1>7 DEF SdRead, Bread
<1>8. CASE Exit
  BY <1>0, <1>8, ExitStep
<1>9. CASE (Sigint /\ UNCHANGED cpuvars) \/ UNCHANGED vars
  BY <1>0, <1>9, StutterStep
<1> QED
  BY <1>1, <1>2, <1>3, <1>4, <1>5, <1>6, <1>7, <1>8, <1>9, Cases

LEMMA SyscallPendsStep ==
    ASSUME SyscallPends, [Next]_vars
    PROVE  SyscallPends'
<1> USE DEF SyscallPends
<1>1. CASE TakeTrap \/ NoTrap
  BY <1>1 DEF TakeTrap, NoTrap, TopOfLoop
<1>2. CASE Plain
  BY <1>2, PlainStep
<1>3. CASE Syscall
  BY <1>3 DEF Syscall
<1>4. CASE Rsi \/ SdStatus \/ SdData \/ SdRead \/ SdPop
  BY <1>4 DEF Rsi, SdStatus, SdData, SdRead, SdPop, Fetch, Decoded
<1>5. CASE Exit
  BY <1>5, ExitStep
<1>6. CASE (Sigint /\ UNCHANGED cpuvars) \/ UNCHANGED vars
  BY <1>6, StutterStep
<1> QED
  BY <1>1, <1>2, <1>3, <1>4, <1>5, <1>6, Cases

\* The carry bookkeeping leaves the interrupt bits alone.
LEMMA MasksKept ==
    ASSUME NEW b, NEW j, SetCarry \/ LoseCarry \/ EndIteration(b, ucr, scr, j)
    PROVE  /\ "IR" \in ucr' <=> "IR" \in ucr
           /\ "IR" \in scr' <=> "IR" \in scr
  BY DEF SetCarry, LoseCarry, EndIteration

\* Every instruction but wcr and wcr.u keeps both interrupt bits.
LEMMA MasksKeptStep ==
    ASSUME Execute \/ TakeTrap \/ NoTrap \/ Exit, ~Wcr, ~WcrUser
    PROVE  /\ "IR" \in ucr' <=> "IR" \in ucr
           /\ "IR" \in scr' <=> "IR" \in scr
<1>1. CASE Other \/ Arith \/ Skip \/ Jump \/ Syscall
  BY <1>1, MasksKept DEF Other, Arith, Skip, Jump, Syscall
<1>2. CASE Reti \/ Wivec \/ PopUser \/ Rsi
  BY <1>2, MasksKept DEF Reti, Wivec, PopUser, Rsi
<1>3. CASE SdStatus \/ SdData \/ SdRead \/ SdPop \/ Brk \/ Null
  BY <1>3, MasksKept DEF SdStatus, SdData, SdRead, SdPop, Brk, Null
<1>4. CASE TakeTrap \/ NoTrap
  BY <1>4 DEF TakeTrap, NoTrap, TopOfLoop
<1>5. CASE SdReadRefused \/ Halt \/ Exit
  BY <1>5, ExitStep DEF SdReadRefused, Halt
<1> QED
  BY <1>1, <1>2, <1>3, <1>4, <1>5 DEF Execute

LEMMA WcrMasks ==
    ASSUME TypeOK, Wcr \/ WcrUser
    PROVE  /\ bank = 0 => ("IR" \in scr' <=> "IR" \in scr)
           /\ WcrUser => ("IR" \in scr' <=> "IR" \in scr)
           /\ Wcr /\ bank = 1 => "wcr" \in KernelOps
  BY DEF Wcr, WcrUser, EndIteration, Fetch, TypeOK

\* The user bank's code cannot open the system bank to traps.
LEMMA KernelMaskedStep ==
    ASSUME TypeOK, KernelMasked, [Next]_vars
    PROVE  KernelMasked'
<1> USE DEF KernelMasked
<1>1. CASE Wcr \/ WcrUser
  BY <1>1, WcrMasks DEF TypeOK
<1>2. CASE (Execute \/ TakeTrap \/ NoTrap \/ Exit) /\ ~Wcr /\ ~WcrUser
  BY <1>2, MasksKeptStep
<1>3. CASE (Sigint /\ UNCHANGED cpuvars) \/ UNCHANGED vars
  BY <1>3, StutterStep
<1> QED
  BY <1>1, <1>2, <1>3 DEF Next, Step, Stop, Sigint, Ended

LEMMA IInvInit == Init => IInv
<1> SUFFICES ASSUME Init PROVE IInv
  OBVIOUS
<1>1. TypeOK
  BY TypeInit
<1> QED
  BY <1>1 DEF Init, SdInit, IInv, UserRunsUnpended, PollGrantsRead,
              OneTrapPerRead, SyscallPends, KernelMasked

LEMMA IInvStep == IInv /\ [Next]_vars => IInv'
  BY TypeStep, UserRunsUnpendedStep, PollGrantsReadStep, OneTrapPerReadStep,
     SyscallPendsStep, KernelMaskedStep DEF IInv

\* The inductive invariant holds in every reachable state.
THEOREM Invariance == Spec => []IInv
  BY IInvInit, IInvStep, PTL DEF Spec

-----------------------------------------------------------------------------
\* No instruction of an interruptible user program runs with a trap pending.
THEOREM UserRunsUnpendedHolds == Spec => []UserRunsUnpended
  BY Invariance, PTL DEF IInv

\* A poll that says free grants the next read, whatever the latency.
THEOREM PollGrantsReadHolds == Spec => []PollGrantsRead
  BY Invariance, PTL DEF IInv

\* Every read of a program that awaits its interrupts has exactly one.
THEOREM OneTrapPerReadHolds == Spec => []OneTrapPerRead
  BY Invariance, PTL DEF IInv

\* A syscall where traps are admitted is delivered at once, with its operand.
THEOREM SyscallIsPreciseHolds == Spec => SyscallIsPrecise
<1> DEFINE A == phase = "traps" /\ phase' = "exec" /\ cinstr.op = "syscall" /\ "IR" \in cr
                => /\ bank' = 1 /\ spc' = ivec /\ upc' = upc
                   /\ "syscall" \in sr1' /\ "syscall" \notin trapnr'
                   /\ sr2' = cinstr.tgt
<1>1. IInv /\ [Next]_vars => [A]_vars
  <2> SUFFICES ASSUME IInv, Next, phase = "traps", phase' = "exec",
                      cinstr.op = "syscall", "IR" \in cr
               PROVE  A
    OBVIOUS
  <2>1. TakeTrap
    <3>1. "syscall" \in Pending
      BY DEF IInv, SyscallPends, Pending
    <3>2. TakeTrap \/ NoTrap
      BY Cases, PlainStep, ExitStep, StutterStep
         DEF Syscall, Rsi, SdStatus, SdData, SdRead, SdPop, Fetch
    <3> QED
      BY <3>1, <3>2 DEF NoTrap
  <2>2. "syscall" \in Pending /\ Served(Pending) = "syscall"
    BY DEF IInv, SyscallPends, Pending, Served
  <2> QED
    BY <2>1, <2>2 DEF TakeTrap, TopOfLoop
<1> QED
  BY <1>1, Invariance, PTL DEF Spec, SyscallIsPrecise

\* A kernel without wcr is never re-entered.
THEOREM KernelNotReenteredHolds == Spec => KernelNotReentered
<1> DEFINE A == "wcr" \notin KernelOps /\ bank = 1 /\ phase = "traps"
                => UNCHANGED <<sr1, sr2, spc>>
<1>1. IInv /\ [Next]_vars => [A]_vars
  <2> SUFFICES ASSUME IInv, Next, "wcr" \notin KernelOps, bank = 1, phase = "traps"
               PROVE  UNCHANGED <<sr1, sr2, spc>>
    OBVIOUS
  <2>1. ~TakeTrap
    BY DEF IInv, KernelMasked, TakeTrap, cr
  <2>2. CASE NoTrap
    BY <2>2 DEF NoTrap
  <2>3. CASE Exit
    BY <2>3 DEF Exit
  <2>4. CASE (Sigint /\ UNCHANGED cpuvars) \/ UNCHANGED vars
    BY <2>4 DEF cpuvars, vars
  <2>5. ~Plain /\ ~Syscall /\ ~Rsi /\ ~SdStatus /\ ~SdData /\ ~SdRead /\ ~SdPop
    BY PlainStep DEF Syscall, Rsi, SdStatus, SdData, SdRead, SdPop, Fetch
  <2> QED
    BY <2>1, <2>2, <2>3, <2>4, <2>5, Cases
<1> QED
  BY <1>1, Invariance, PTL DEF Spec, KernelNotReentered

-----------------------------------------------------------------------------
(***************************************************************************)
(* Refinement of InterruptUnit, step by step.                              *)
(***************************************************************************)

\* What the abstract unit sees is left alone.
Unseen == /\ UNCHANGED <<trapnr, bank>>
          /\ "IR" \in ucr' <=> "IR" \in ucr
          /\ "IR" \in scr' <=> "IR" \in scr

LEMMA UnseenStutters == ASSUME Unseen PROVE UNCHANGED Unit!uvars
<1>1. [b \in {"system", "user"} |-> "IR" \in (IF b = "system" THEN scr ELSE ucr)]'
      = [b \in {"system", "user"} |-> "IR" \in (IF b = "system" THEN scr ELSE ucr)]
  BY DEF Unseen
<1> QED
  BY <1>1 DEF Unseen, Unit!uvars

LEMMA AdmitsKept ==
    ASSUME "IR" \in ucr' <=> "IR" \in ucr, "IR" \in scr' <=> "IR" \in scr
    PROVE  [b \in {"system", "user"} |-> "IR" \in (IF b = "system" THEN scr ELSE ucr)]'
           = [b \in {"system", "user"} |-> "IR" \in (IF b = "system" THEN scr ELSE ucr)]
  OBVIOUS

\* The fixed order of the if-else chain in traps() is the priority.
LEMMA ServedIsHighest ==
    ASSUME NEW P \in SUBSET {"syscall", "disk"}, P # {}
    PROVE  Served(P) \in Unit!Highest(P)
<1>1. CASE "syscall" \in P
  <2>1. Served(P) = "syscall"
    BY <1>1 DEF Served
  <2>2. \A d \in P : Rank["syscall"] =< Rank[d]
    BY DEF Rank, Causes
  <2> QED
    BY <1>1, <2>1, <2>2 DEF Unit!Highest
<1>2. CASE "syscall" \notin P
  <2>1. P = {"disk"}
    BY <1>2
  <2>2. Served(P) = "disk"
    BY <2>1 DEF Served
  <2>3. Rank["disk"] =< Rank["disk"]
    BY DEF Rank, Causes
  <2> QED
    BY <2>1, <2>2, <2>3 DEF Unit!Highest
<1> QED
  BY <1>1, <1>2

Arrived == IF DiskFires THEN {"disk"} ELSE {}

LEMMA TakeTrapRefines == ASSUME TypeOK, TakeTrap PROVE Unit!Deliver
<1>1. Pending \in SUBSET {"syscall", "disk"} /\ Pending # {}
  BY DEF TypeOK, TakeTrap, Pending
<1>2. Pending = trapnr \cup Arrived /\ Arrived \in SUBSET Causes
  BY DEF Pending, Arrived, Causes
<1>3. Served(Pending) \in Unit!Highest(trapnr \cup Arrived)
  BY <1>1, <1>2, ServedIsHighest
<1>4. trapnr' = (trapnr \cup Arrived) \ {Served(Pending)}
  BY <1>2 DEF TakeTrap
<1>5. [b \in {"system", "user"} |-> "IR" \in (IF b = "system" THEN scr ELSE ucr)]
        [IF bank = 1 THEN "system" ELSE "user"]
  BY DEF TakeTrap, cr
<1>6. (IF bank = 1 THEN "system" ELSE "user")' = "system"
  BY DEF TakeTrap
<1> QED
  BY <1>2, <1>3, <1>4, <1>5, <1>6, AdmitsKept DEF Unit!Deliver, TakeTrap, TopOfLoop

LEMMA NoTrapRefines == ASSUME TypeOK, NoTrap PROVE Unit!Arrive
<1>1. trapnr' = trapnr \cup Arrived /\ Arrived \in SUBSET Causes
  BY DEF NoTrap, Pending, Arrived, Causes
<1> QED
  BY <1>1, AdmitsKept DEF Unit!Arrive, NoTrap, TopOfLoop

LEMMA SyscallRefines == ASSUME Syscall PROVE Unit!Arrive
<1>1. {"syscall"} \in SUBSET Causes
  BY DEF Causes
<1> QED
  BY <1>1, MasksKept, AdmitsKept DEF Unit!Arrive, Syscall

LEMMA WcrRefines == ASSUME TypeOK, Wcr \/ WcrUser PROVE Unit!Admit
<1> DEFINE a == [b \in {"system", "user"} |->
                   "IR" \in (IF b = "system" THEN scr ELSE ucr)]'
<1>1. a \in [Unit!Bank -> BOOLEAN]
  BY DEF Unit!Bank
<1>2. bank = 0 => ("IR" \in scr' <=> "IR" \in scr)
  BY WcrMasks
<1>3. (IF bank = 1 THEN "system" ELSE "user") = "user" =>
        a["system"] = [b \in {"system", "user"} |->
                   "IR" \in (IF b = "system" THEN scr ELSE ucr)]["system"]
  BY <1>2 DEF TypeOK
<1>4. UNCHANGED <<trapnr, IF bank = 1 THEN "system" ELSE "user">>
  BY DEF Wcr, WcrUser
<1> QED
  BY <1>1, <1>3, <1>4, Zenon DEF Unit!Admit

\* Every step of the loop is a step of the interrupt unit, or is not seen.
LEMMA StepRefines ==
    ASSUME TypeOK, [Next]_vars
    PROVE  [Unit!UNext]_(Unit!uvars)
<1> USE DEF Unit!UNext
<1>1. CASE TakeTrap
  BY <1>1, TakeTrapRefines
<1>2. CASE NoTrap
  BY <1>2, NoTrapRefines
<1>3. CASE Syscall
  BY <1>3, SyscallRefines
<1>4. CASE Wcr \/ WcrUser
  BY <1>4, WcrRefines
<1>5. CASE Rsi
  BY <1>5, MasksKept, AdmitsKept DEF Rsi, Unit!Clear
<1>6. CASE Reti
  <2>1. trapnr' = trapnr /\ (IF bank = 1 THEN "system" ELSE "user")' = "user"
    BY <1>6 DEF Reti
  <2>2. ("IR" \in ucr' <=> "IR" \in ucr) /\ ("IR" \in scr' <=> "IR" \in scr)
    BY <1>6, MasksKept DEF Reti
  <2> QED
    BY <2>1, <2>2, AdmitsKept DEF Unit!Return
<1>7. CASE Other \/ Arith \/ Skip \/ Jump \/ Wivec \/ PopUser
  <2>1. Unseen
    BY <1>7, MasksKept DEF Unseen, Other, Arith, Skip, Jump, Wivec, PopUser
  <2> QED
    BY <2>1, UnseenStutters
<1>8. CASE SdStatus \/ SdData \/ SdRead \/ SdPop \/ Brk \/ Null
  <2>1. Unseen
    BY <1>8, MasksKept DEF Unseen, SdStatus, SdData, SdRead, SdPop, Brk, Null
  <2> QED
    BY <2>1, UnseenStutters
<1>9. CASE Exit \/ (Sigint /\ UNCHANGED cpuvars) \/ UNCHANGED vars
  BY <1>9, ExitStep, StutterStep, UnseenStutters DEF Unseen
<1> QED
  BY <1>1, <1>2, <1>3, <1>4, <1>5, <1>6, <1>7, <1>8, <1>9, Cases DEF Plain

LEMMA InitRefines == Init => Unit!UInit
  BY DEF Init, Unit!UInit, Unit!Bank

\* The simulator's loop implements the abstract interrupt unit.
THEOREM Refinement == Spec => ImplementsInterruptUnit
<1>1. Init => Unit!UInit
  BY InitRefines
<1>2. TypeOK /\ [Next]_vars => [Unit!UNext]_(Unit!uvars)
  BY StepRefines
<1> QED
  BY <1>1, <1>2, TypeCorrect, PTL DEF Spec, ImplementsInterruptUnit, Unit!USpec
=============================================================================
