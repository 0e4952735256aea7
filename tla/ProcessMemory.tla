--------------------------- MODULE ProcessMemory ---------------------------
(***************************************************************************)
(* What paging promises to the programs of the user bank, told without     *)
(* page tables and frames: every process has bytes of its own, a store     *)
(* changes the addressed bytes of the process that runs and nothing of     *)
(* another, a load returns what is stored there. The kernel may do as it   *)
(* likes. An access that is reported as a fault promises nothing.          *)
(***************************************************************************)
CONSTANTS
    Proc,     \* processes
    NoProc,   \* the kernel runs, or a program without paging
    Vaddr,    \* addresses of a process, devices excluded
    Buddy,    \* Buddy[a]: the high and the low byte of the word a lies in
    Byte,
    Zero,     \* the byte a byte load puts into the high half of the register
    Unmapped

VARIABLES
    mem,      \* mem[p][a]: a byte, or Unmapped
    running,  \* the process that runs, or NoProc
    got,      \* the word the last load returned
    fault     \* the last step was reported as a fault

pvars == <<mem, running, got, fault>>

PInit == running = NoProc /\ fault = FALSE

Mapped(a) == mem[running][a] # Unmapped

\* A store of a byte, or of the word the address lies in.
StoreByte(a, v) ==
    /\ Mapped(a)
    /\ mem' = [mem EXCEPT ![running][a] = v[2]]
    /\ UNCHANGED got

StoreWord(a, v) ==
    /\ Mapped(a)
    /\ mem' = [mem EXCEPT ![running][Buddy[a][1]] = v[1],
                          ![running][Buddy[a][2]] = v[2]]
    /\ UNCHANGED got

LoadByte(a) ==
    /\ Mapped(a)
    /\ got' = <<Zero, mem[running][a]>>
    /\ UNCHANGED mem

LoadWord(a) ==
    /\ Mapped(a)
    /\ got' = <<mem[running][Buddy[a][1]], mem[running][Buddy[a][2]]>>
    /\ UNCHANGED mem

\* A device answers; the memory stays.
Device == UNCHANGED mem

UserAccess ==
    /\ running # NoProc
    /\ \/ \E a \in Vaddr, v \in Byte \X Byte : StoreByte(a, v) \/ StoreWord(a, v)
       \/ \E a \in Vaddr : LoadByte(a) \/ LoadWord(a)
       \/ Device
    /\ fault' = FALSE
    /\ UNCHANGED running

UserFault == running # NoProc /\ fault' = TRUE

\* A trap enters the kernel, which finds the memory as the process left it.
Enter == running' = NoProc /\ fault' = FALSE /\ UNCHANGED <<mem, got>>

Kernel == running = NoProc

PNext == UserAccess \/ UserFault \/ Enter \/ Kernel

PSpec == PInit /\ [][PNext]_pvars
=============================================================================
