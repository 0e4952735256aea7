------------------------------ MODULE Drivers ------------------------------
(***************************************************************************)
(* A program that polls, on the devices of fsim/main.c: it reads blocks     *)
(* from the SD card as asm/sd_card_sim.s does (block number, command, wait  *)
(* while busy, the high and the low word of each longword), then sends a    *)
(* character and waits for the UART as asm/uart_test2.s does, whose poll    *)
(* adds 0x60 where it means to compare. Interrupts are masked. Whoever sits *)
(* at the prompt may look at the device registers, and looking is reading.  *)
(***************************************************************************)
EXTENDS SdCard, Uart, Sequences

CONSTANTS
    Wanted,     \* the blocks the program reads
    Longwords,  \* the longwords it takes from each
    MaxLooks    \* bound: reads of the FIFO from the prompt

ASSUME DriversAssumption ==
    /\ Wanted \in Seq(ImageBlocks) /\ Len(Wanted) > 0
    /\ Longwords \in Nat \ {0} /\ 4 * Longwords <= FifoBytes
    /\ MaxLooks \in Nat /\ 4 * MaxLooks <= FifoSlack

VARIABLES
    pc,      \* the program's next instruction, or how the simulator ended
    phase,   \* the main loop: "tick" (traps() is next) or "exec"
    block,   \* read commands so far
    answer,  \* the status register as read last, of the card or of the UART
    high,    \* the high word read last, in a register
    taken,   \* the longwords taken from the block, in registers
    looks,   \* history: reads of the FIFO from the prompt so far
    pops,    \* history: those that took a longword of this block
    peeked   \* history: the prompt has read the LSR since the program did

dvars == <<pc, phase, block, answer, high, taken, looks, pops, peeked>>
vars == <<sdvars, since, dvars>>

CardPoll == {"poll", "test"}
UartPoll == {"lsr", "ldi", "addskp", "br"}
Labels == {"data", "cmd", "high", "low", "char", "returned", "refused"} \cup CardPoll \cup UartPoll

SdBusy == 16384  \* 0x4000, of the status register of the card
TxFree == 96     \* 0x60, of the line status register

\* A longword as its two words, each with its block and its place in it.
Word(b, p) == [of |-> b, at |-> p]
Words == [of : ImageBlocks \cup {NoBlock}, at : Nat]

-----------------------------------------------------------------------------
Init ==
    /\ SdInit /\ UartInit
    /\ pc = "data" /\ phase = "tick" /\ block = 0
    /\ answer = 0 /\ high = Word(NoBlock, 0) /\ taken = <<>>
    /\ looks = 0 /\ pops = 0 /\ peeked = FALSE

\* tick++ and traps(); the interrupt that diskirq() raises stays pending.
Loop ==
    /\ phase = "tick" /\ pc \notin {"returned", "refused"}
    /\ phase' = "exec" /\ Tick /\ disk_irq' = Countdown
    /\ UNCHANGED <<rfifo, rfifo_p, sddata, pc, block, answer, high, taken, looks, pops, peeked>>

\* An instruction of the program, with those that only load its registers.
At(label) == phase = "exec" /\ phase' = "tick" /\ pc = label /\ UNCHANGED looks

NoUart == UNCHANGED <<since, peeked>>
NoCard == UNCHANGED <<sdvars, block, high, taken, pops>>

\* stw 6(bp)
Data ==
    /\ At("data") /\ WriteSdData(Wanted[block + 1]) /\ pc' = "cmd"
    /\ NoUart /\ UNCHANGED <<block, answer, high, taken, pops>>

\* stw 2(bp)
Cmd ==
    /\ At("cmd")
    /\ IF BreadRefused THEN NoCard /\ pc' = "refused"
       ELSE /\ Bread /\ pc' = "poll" /\ block' = block + 1
            /\ taken' = <<>> /\ pops' = 0 /\ UNCHANGED high
    /\ NoUart /\ UNCHANGED answer

\* wait_while_busy
Poll ==
    /\ At("poll") /\ answer' = (IF Status = "busy" THEN SdBusy ELSE 0) /\ pc' = "test"
    /\ NoCard /\ NoUart

Test ==
    /\ At("test") /\ pc' = IF answer = SdBusy THEN "poll" ELSE "high"
    /\ NoCard /\ NoUart /\ UNCHANGED answer

\* ldw 8(bp)
High ==
    /\ At("high") /\ high' = Word(rfifo, rfifo_p) /\ pc' = "low"
    /\ NoUart /\ UNCHANGED <<sdvars, block, answer, taken, pops>>

\* ldw 10(bp): the word after the one at rfifo_p, which moves on.
Low ==
    /\ At("low") /\ PopLow /\ taken' = Append(taken, <<high, Word(rfifo, rfifo_p + 2)>>)
    /\ pc' = IF Len(taken') < Longwords THEN "high"
             ELSE IF block < Len(Wanted) THEN "data" ELSE "char"
    /\ NoUart /\ UNCHANGED <<disk_irq, rfifo, sddata, block, answer, high, pops>>

\* stw 0(bp): the character is printed.
Char == At("char") /\ pc' = "lsr" /\ NoCard /\ NoUart /\ UNCHANGED answer

\* check_tx_free, an instruction at a time: their ticks are what the UART counts.
Lsr ==
    /\ At("lsr") /\ ReadLsr
    /\ answer' = (IF LsrFree THEN TxFree ELSE 0) /\ pc' = "ldi" /\ peeked' = FALSE
    /\ NoCard

Ldi == At("ldi") /\ pc' = "addskp" /\ NoCard /\ NoUart /\ UNCHANGED answer

\* addskp.z r2,r2,r1 with 0x60 in r2: the branch back is skipped if the sum is zero.
Addskp ==
    /\ At("addskp") /\ pc' = IF (TxFree + answer) % 65536 = 0 THEN "returned" ELSE "br"
    /\ NoCard /\ NoUart /\ UNCHANGED answer

Br == At("br") /\ pc' = "lsr" /\ NoCard /\ NoUart /\ UNCHANGED answer

\* x ffaa and x ff95 at the prompt, which SIGINT opens once and single-stepping
\* before every instruction.
LookAtFifo ==
    /\ looks < MaxLooks /\ looks' = looks + 1
    /\ PopLow /\ pops' = pops + 1
    /\ UNCHANGED <<disk_irq, rfifo, sddata, since, pc, phase, block, answer, high, taken, peeked>>

LookAtLsr ==
    /\ ReadLsr /\ peeked' = TRUE
    /\ NoCard /\ UNCHANGED <<pc, phase, answer, looks>>

Program == Data \/ Cmd \/ Poll \/ Test \/ High \/ Low \/ Char \/ Lsr \/ Ldi \/ Addskp \/ Br

Next == Loop \/ Program \/ LookAtFifo \/ LookAtLsr

\* The simulator runs on: nobody stays at the prompt for ever, nor has to use it.
Spec == Init /\ [][Next]_vars /\ WF_vars(Loop \/ Program)

-----------------------------------------------------------------------------
TypeOK ==
    /\ SdTypeOK /\ since \in 0 .. 2
    /\ pc \in Labels /\ phase \in {"tick", "exec"} /\ block \in 0 .. Len(Wanted)
    /\ answer \in {0, SdBusy, TxFree}
    /\ high \in Words
    /\ taken \in Seq(Words \X Words) /\ Len(taken) <= Longwords
    /\ looks \in 0 .. MaxLooks /\ pops \in 0 .. looks /\ peeked \in BOOLEAN

\* What has been taken of a block are its first longwords, complete and in order,
\* although the two words of one are read by two instructions and the pointer is
\* the card's: unless somebody has looked at the FIFO since the read began
\* (fsim/main.c:555-565, 726-740).
Longword(b, i) == <<Word(b, 4 * (i - 1)), Word(b, 4 * (i - 1) + 2)>>

TakenAsRead ==
    pops = 0 => \A i \in 1 .. Len(taken) : taken[i] = Longword(Wanted[block], i)

\* The card does not check its pointer (fsim/main.c:561): a program that takes no
\* more than a sector from each sector stays inside, but for one longword for
\* each look at the FIFO during the sector.
FifoOverrunsByLooksOnly == rfifo_p <= FifoBytes + 4 * pops

\* The UART is busy because somebody found it free (fsim/main.c:590-593), but a
\* round of check_tx_free is long enough: it never finds the UART busy unless the
\* prompt has looked during the round (asm/uart_test2.s:36-39).
BusyByLooksOnly == [][pc = "lsr" /\ pc' = "ldi" /\ answer' = 0 => peeked]_vars

\* The prompt may look as often as it likes: once it lets the UART alone, all blocks
\* have been read or will be, although a command that finds the card busy would end
\* the simulator, and the program finds the UART free again and again
\* (fsim/main.c:546-555, 567-571, 587-597).
FoundFreeAgain == <>[][~LookAtLsr]_vars => []<>(pc = "ldi" /\ answer = TxFree)
=============================================================================
