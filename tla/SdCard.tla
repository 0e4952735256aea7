------------------------------- MODULE SdCard -------------------------------
(***************************************************************************)
(* The SD-card controller that the functional simulator (fsim/main.c)      *)
(* puts at 0xffa0: one read operation at a time, a countdown disk_irq that  *)
(* stands for the latency of the card, and a FIFO from which the program    *)
(* takes the sector as 32-bit longwords, high word first.                   *)
(*                                                                         *)
(* The sector has been copied into rfifo the moment the read command is     *)
(* accepted; disk_irq only delays the interrupt (and the free status).      *)
(* The words of the FIFO are not modelled, only the sector they come from.  *)
(***************************************************************************)
EXTENDS Integers

CONSTANTS
    SdDelay,      \* traps() calls from a read to its interrupt (99999 in the code)
    FifoBytes,    \* sizeof(rfifo), 512 in the code
    Blocks,       \* block numbers a program may write to the data register
    ImageBlocks,  \* those that the file system image really has
    FifoSlack,    \* bound of the model: bytes rfifo_p may run past the end of rfifo
    NoBlock       \* the content of a word that no block put there

ASSUME SdAssumption ==
    /\ SdDelay \in Nat /\ SdDelay > 1
    /\ FifoBytes \in Nat /\ FifoSlack \in Nat
    /\ 0 \in Blocks /\ ImageBlocks \subseteq Blocks
    /\ NoBlock \notin Blocks

VARIABLES
    disk_irq,  \* 0: no operation; 1: the interrupt fires at the next traps()
    rfifo,     \* the block whose 512 bytes the FIFO holds; none before a read
    rfifo_p,   \* byte offset of the next longword
    sddata     \* the data register: the block to read

sdvars == <<disk_irq, rfifo, rfifo_p, sddata>>

SdTypeOK ==
    /\ disk_irq \in 0 .. SdDelay
    /\ rfifo \in ImageBlocks \cup {NoBlock}
    /\ rfifo_p \in 0 .. FifoBytes + FifoSlack
    /\ sddata \in Blocks

SdInit ==
    /\ disk_irq = 0
    /\ rfifo = NoBlock
    /\ rfifo_p = 0
    /\ sddata = 0

-----------------------------------------------------------------------------
\* What the status register (0xffa2) answers.

StatusOffByOne == IF disk_irq > 2 THEN "busy" ELSE "free"

Status == IF disk_irq > 1 THEN "busy" ELSE "free"

-----------------------------------------------------------------------------
\* writesd() at 0xffa6.
WriteSdData(b) ==
    /\ sddata' = b
    /\ UNCHANGED <<disk_irq, rfifo, rfifo_p>>

\* bread(): the simulator exits when the card is busy, and when the block is
\* not in the image (lseek/read fail).
BreadRefused == disk_irq # 0 \/ sddata \notin ImageBlocks

\* The pointer stays where the last sector left it.
BreadWhereItWas ==
    /\ rfifo' = sddata
    /\ disk_irq' = SdDelay
    /\ UNCHANGED <<sddata, rfifo_p>>

Bread ==
    /\ rfifo' = sddata
    /\ rfifo_p' = 0
    /\ disk_irq' = SdDelay
    /\ UNCHANGED sddata

PopLowByWord ==
    /\ rfifo_p + 4 =< FifoBytes + FifoSlack
    /\ rfifo_p' = rfifo_p + 2

\* readsd() at 0xffaa: the only read of the card with a side effect. Only
\* rfifo_p changes; the debugger's reads come here too.
PopLow ==
    /\ rfifo_p + 4 =< FifoBytes + FifoSlack  \* bound of the model
    /\ rfifo_p' = rfifo_p + 4

\* diskirq(), called by every traps(): count down, and say when the interrupt
\* fires.
DiskFires == disk_irq = 1

CountdownStopsAtOne == IF disk_irq > 1 THEN disk_irq - 1 ELSE disk_irq

CountdownUnguarded == disk_irq - 1

Countdown == IF disk_irq > 0 THEN disk_irq - 1 ELSE 0
=============================================================================
