--------------------------- MODULE Drivers_proofs ---------------------------
(***************************************************************************)
(* Theorems about Drivers, for every list of blocks, every size of sector,  *)
(* every latency of the card and any number of looks from the prompt.       *)
(***************************************************************************)
EXTENDS Drivers, TLAPS

USE SdAssumption, DriversAssumption

\* The card has been told the block that the program is in, or goes to.
InBlock ==
    /\ pc \in {"data", "cmd"} => block < Len(Wanted)
    /\ pc \notin {"data", "cmd"} => block > 0
    /\ pc = "cmd" => sddata = Wanted[block + 1]
    /\ block > 0 => rfifo = Wanted[block]

\* The pointer is where the longwords taken put it, by program and prompt.
Pointer ==
    /\ pc \in CardPoll => Len(taken) = 0
    /\ pc \in {"high", "low"} => Len(taken) < Longwords
    /\ rfifo_p = 4 * (Len(taken) + pops)

\* Without a look at the FIFO, the register holds the high word of the next longword.
InHand == pops = 0 /\ pc = "low" => high = Word(Wanted[block], 4 * Len(taken))

\* The card is free from the first longword on until the next command.
CardFree ==
    /\ pc = "test" /\ answer # SdBusy => disk_irq <= (IF phase = "tick" THEN 1 ELSE 0)
    /\ pc \notin CardPoll => disk_irq = 0
    /\ pc # "refused"

\* The ticks since the program, and not the prompt, has read the LSR, or since the
\* start, as far as the UART tells them apart.
Waited ==
    ~peeked =>
        since >= CASE pc \in {"data", "ldi"}   -> IF phase = "exec" THEN 1 ELSE 0
                   [] pc \in {"cmd", "addskp"} -> IF phase = "exec" THEN 2 ELSE 1
                   [] OTHER                    -> 2

IInv == TypeOK /\ InBlock /\ Pointer /\ TakenAsRead /\ InHand /\ CardFree /\ Waited

-----------------------------------------------------------------------------
LEMMA Wants ==
    ASSUME NEW n \in 1 .. Len(Wanted)
    PROVE  Wanted[n] \in ImageBlocks /\ Wanted[n] \in Blocks
  OBVIOUS

LEMMA WordType ==
    ASSUME NEW b \in ImageBlocks \cup {NoBlock}, NEW p \in Nat
    PROVE  Word(b, p) \in Words
  BY DEF Word, Words

LEMMA Sizes == FifoBytes \in Nat /\ FifoSlack \in Nat /\ MaxLooks \in Nat
               /\ Longwords \in Nat /\ Longwords > 0 /\ Len(Wanted) \in Nat /\ Len(Wanted) > 0
  OBVIOUS

LEMMA InitIInv == Init => IInv
<1> SUFFICES ASSUME Init PROVE IInv
  OBVIOUS
<1> USE DEF Init, SdInit, UartInit
<1>1. TypeOK
  <2>1. SdTypeOK /\ since \in 0 .. 2 /\ high \in Words
    BY WordType, Sizes DEF SdTypeOK
  <2>2. pc \in Labels /\ answer \in {0, SdBusy, TxFree}
    BY DEF Labels
  <2>3. block \in 0 .. Len(Wanted) /\ looks \in 0 .. MaxLooks /\ pops \in 0 .. looks
    BY Sizes
  <2>4. taken \in Seq(Words \X Words) /\ Len(taken) <= Longwords
    BY Sizes
  <2> QED
    BY <2>1, <2>2, <2>3, <2>4 DEF TypeOK
<1>2. InBlock /\ Pointer /\ TakenAsRead /\ InHand /\ CardFree /\ Waited
  BY Sizes DEF InBlock, Pointer, TakenAsRead, InHand, CardFree, Waited, CardPoll
<1> QED
  BY <1>1, <1>2 DEF IInv

\* traps() before an instruction moves the card and the UART on, and nothing else.
LEMMA LoopStep == ASSUME IInv, Loop PROVE IInv'
<1> USE DEF IInv, Loop, Countdown
<1>1. TypeOK'
  BY DEF TypeOK, SdTypeOK, Tick
<1>2. CardFree'
  BY DEF CardFree, CardPoll, TypeOK, SdTypeOK
<1>3. InBlock' /\ Pointer' /\ InHand'
  BY DEF InBlock, Pointer, InHand
<1>4. TakenAsRead'
  BY DEF TakenAsRead
<1>5. Waited'
  BY DEF Waited, Tick, TypeOK
<1> QED
  BY <1>1, <1>2, <1>3, <1>4, <1>5

LEMMA DataStep == ASSUME IInv, Data PROVE IInv'
<1> USE DEF IInv, Data, At, NoUart, WriteSdData
<1>1. block + 1 \in 1 .. Len(Wanted)
  BY Sizes DEF InBlock, TypeOK
<1>2. TypeOK'
  BY <1>1, Wants DEF TypeOK, SdTypeOK, Labels
<1>3. CardFree' /\ Waited'
  BY DEF CardFree, CardPoll, Waited
<1>4. InBlock' /\ Pointer' /\ InHand' /\ TakenAsRead'
  BY DEF InBlock, Pointer, InHand, TakenAsRead, CardPoll
<1> QED
  BY <1>1, <1>2, <1>3, <1>4

\* The card is free and the block is in the image, so the command is accepted.
LEMMA CmdStep == ASSUME IInv, Cmd PROVE IInv'
<1> USE DEF IInv, Cmd, At, NoUart
<1>1. block + 1 \in 1 .. Len(Wanted) /\ sddata = Wanted[block + 1] /\ disk_irq = 0
  BY Sizes DEF InBlock, CardFree, CardPoll, TypeOK
<1>2. ~BreadRefused
  BY <1>1, Wants DEF BreadRefused
<1>3. Bread /\ pc' = "poll" /\ pops' = 0 /\ taken' = <<>> /\ block' = block + 1 /\ high' = high
  BY <1>2
<1> USE DEF Bread
<1>4. TypeOK'
  BY <1>1, <1>3, Wants, Sizes DEF TypeOK, SdTypeOK, Labels, CardPoll
<1>5. CardFree' /\ InBlock' /\ Waited'
  <2>1. CardFree'
    BY <1>3 DEF CardFree, CardPoll
  <2>2. InBlock'
    BY <1>1, <1>3 DEF InBlock, TypeOK
  <2>3. Waited'
    BY <1>3 DEF Waited, TypeOK
  <2> QED
    BY <2>1, <2>2, <2>3
<1>6. Pointer' /\ InHand' /\ TakenAsRead'
  BY <1>3 DEF Pointer, InHand, TakenAsRead, CardPoll
<1> QED
  BY <1>4, <1>5, <1>6

LEMMA PollStep == ASSUME IInv, Poll PROVE IInv'
<1> USE DEF IInv, Poll, At, NoUart, NoCard, sdvars, Status
<1>1. TypeOK'
  BY DEF TypeOK, SdTypeOK, Labels, CardPoll
<1>2. CardFree' /\ InBlock' /\ Waited'
  <2>1. CardFree'
    BY DEF CardFree, CardPoll, TypeOK, SdTypeOK, SdBusy
  <2>2. InBlock'
    BY DEF InBlock
  <2>3. Waited'
    BY DEF Waited
  <2> QED
    BY <2>1, <2>2, <2>3
<1>3. Pointer' /\ InHand' /\ TakenAsRead'
  BY DEF Pointer, InHand, TakenAsRead, CardPoll
<1> QED
  BY <1>1, <1>2, <1>3

LEMMA TestStep == ASSUME IInv, Test PROVE IInv'
<1> USE DEF IInv, Test, At, NoUart, NoCard, sdvars
<1>1. TypeOK'
  BY DEF TypeOK, SdTypeOK, Labels, CardPoll
<1>2. CardFree' /\ InBlock' /\ Waited'
  <2>1. CardFree'
    BY DEF CardFree, CardPoll, TypeOK, SdTypeOK
  <2>2. InBlock'
    BY DEF InBlock
  <2>3. Waited'
    BY DEF Waited, TypeOK
  <2> QED
    BY <2>1, <2>2, <2>3
<1>3. Pointer' /\ InHand'
  BY Sizes DEF Pointer, InHand, CardPoll
<1>4. TakenAsRead'
  BY DEF TakenAsRead
<1> QED
  BY <1>1, <1>2, <1>3, <1>4

LEMMA HighStep == ASSUME IInv, High PROVE IInv'
<1> USE DEF IInv, High, At, NoUart, sdvars
<1>1. rfifo_p \in Nat /\ rfifo \in ImageBlocks \cup {NoBlock}
  BY Sizes DEF TypeOK, SdTypeOK
<1>2. TypeOK'
  BY <1>1, WordType DEF TypeOK, SdTypeOK, Labels
<1>3. CardFree' /\ InBlock' /\ Waited'
  <2>1. CardFree' /\ InBlock'
    BY DEF CardFree, InBlock, CardPoll
  <2>2. Waited'
    BY DEF Waited, TypeOK
  <2> QED
    BY <2>1, <2>2
<1>4. Pointer'
  BY DEF Pointer, CardPoll
<1>5. InHand'
  BY DEF InHand, Pointer, InBlock, TypeOK
<1>6. TakenAsRead'
  BY DEF TakenAsRead
<1> QED
  BY <1>2, <1>3, <1>4, <1>5, <1>6

\* The longword is the next one of the block, with the high word in hand.
LEMMA LowStep == ASSUME IInv, Low PROVE IInv'
<1> USE DEF IInv, Low, At, NoUart, PopLow
<1> DEFINE new == <<high, Word(rfifo, rfifo_p + 2)>>
<1>1. rfifo_p \in Nat /\ rfifo \in ImageBlocks \cup {NoBlock} /\ pc = "low"
  BY Sizes DEF TypeOK, SdTypeOK
<1>2. rfifo_p' \in 0 .. FifoBytes + FifoSlack
  BY <1>1, Sizes
<1>3. taken \in Seq(Words \X Words) /\ new \in Words \X Words /\ Len(taken) < Longwords
  BY <1>1, WordType DEF TypeOK, Pointer
<1>4. /\ taken' \in Seq(Words \X Words) /\ Len(taken') = Len(taken) + 1
      /\ \A i \in 1 .. Len(taken) : taken'[i] = taken[i]
      /\ taken'[Len(taken) + 1] = new
  BY <1>3
<1>5. pc' \in {"high", "data", "char"} /\ (pc' = "high" => Len(taken') < Longwords)
      /\ (pc' = "data" => block < Len(Wanted))
  OBVIOUS
<1>6. TypeOK'
  BY <1>2, <1>3, <1>4, <1>5, Sizes DEF TypeOK, SdTypeOK, Labels
<1>7. CardFree' /\ InBlock' /\ Waited'
  <2>1. CardFree' /\ InBlock'
    BY <1>1, <1>5 DEF CardFree, InBlock, CardPoll
  <2>2. pc' \in {"high", "data", "char"} /\ UNCHANGED <<since, peeked>> /\ phase' = "tick"
    BY <1>5
  <2>3. Waited'
    BY <1>1, <2>2 DEF Waited, TypeOK
  <2> QED
    BY <2>1, <2>3
<1>8. Pointer' /\ InHand'
  <2>1. Len(taken) \in Nat /\ pops \in Nat /\ rfifo_p = 4 * (Len(taken) + pops)
    BY <1>3 DEF Pointer, TypeOK
  <2>2. rfifo_p' = rfifo_p + 4 /\ pops' = pops
    OBVIOUS
  <2> QED
    BY <1>4, <1>5, <2>1, <2>2 DEF Pointer, InHand, CardPoll
<1>9. TakenAsRead'
  <2> SUFFICES ASSUME pops = 0, NEW i \in 1 .. Len(taken')
               PROVE  taken'[i] = Longword(Wanted[block], i)
    BY DEF TakenAsRead
  <2>1. CASE i \in 1 .. Len(taken)
    BY <1>4, <2>1 DEF TakenAsRead
  <2>2. CASE i = Len(taken) + 1
    <3>1. rfifo = Wanted[block] /\ rfifo_p = 4 * Len(taken) /\ high = Word(Wanted[block], 4 * Len(taken))
      BY <1>1, <1>3 DEF InBlock, Pointer, InHand, TypeOK
    <3>2. Len(taken) = i - 1 /\ Len(taken) \in Nat
      BY <1>3, <2>2
    <3>3. new = Longword(Wanted[block], i)
      BY <3>1, <3>2 DEF Longword
    <3> QED
      BY <1>4, <2>2, <3>3
  <2> QED
    BY <1>3, <1>4, <2>1, <2>2
<1> QED
  BY <1>6, <1>7, <1>8, <1>9

\* A step of the program that touches neither card nor UART leaves the rest alone.
LEMMA UartStep ==
    ASSUME IInv, NoCard, answer' \in {0, SdBusy, TxFree}, UNCHANGED <<looks, answer>>,
           phase' \in {"tick", "exec"}, pc \in {"char"} \cup UartPoll,
           pc' \in UartPoll \cup {"returned"}
    PROVE  /\ pc' \in Labels /\ CardFree' /\ InBlock' /\ Pointer' /\ InHand' /\ TakenAsRead'
<1> USE DEF IInv, NoCard, sdvars, UartPoll
<1>1. pc' \in Labels /\ CardFree' /\ InBlock'
  BY DEF Labels, CardFree, InBlock, CardPoll
<1>2. Pointer' /\ InHand'
  BY DEF Pointer, InHand, CardPoll
<1>3. TakenAsRead'
  BY DEF TakenAsRead
<1> QED
  BY <1>1, <1>2, <1>3

LEMMA CharStep == ASSUME IInv, Char \/ Ldi \/ Addskp \/ Br PROVE IInv'
<1>1. /\ At(pc) /\ NoCard /\ NoUart /\ answer' = answer /\ phase' = "tick" /\ looks' = looks
      /\ pc \in {"char"} \cup UartPoll /\ pc' \in UartPoll \cup {"returned"}
      /\ phase = "exec" /\ (pc = "ldi" => pc' = "addskp") /\ pc # "lsr"
      /\ (pc # "ldi" => pc' \in {"br", "lsr", "returned"})
  BY DEF Char, Ldi, Addskp, Br, At, UartPoll
<1>2. answer' \in {0, SdBusy, TxFree}
  BY <1>1 DEF IInv, TypeOK
<1>3. pc' \in Labels /\ CardFree' /\ InBlock' /\ Pointer' /\ InHand' /\ TakenAsRead'
  BY <1>1, <1>2, UartStep
<1>4. TypeOK'
  <2>1. UNCHANGED <<disk_irq, rfifo, rfifo_p, sddata, since, block, answer, high, taken, looks, pops, peeked>>
    BY <1>1 DEF NoCard, NoUart, sdvars
  <2>2. pc' \in Labels /\ phase' \in {"tick", "exec"}
    BY <1>1, <1>3
  <2> QED
    BY <2>1, <2>2 DEF IInv, TypeOK, SdTypeOK
<1>5. Waited'
  BY <1>1 DEF IInv, Waited, NoUart, UartPoll
<1> QED
  BY <1>3, <1>4, <1>5 DEF IInv

LEMMA LsrStep == ASSUME IInv, Lsr PROVE IInv'
<1> USE DEF IInv, Lsr, At, ReadLsr, NoCard, sdvars
<1>1. TypeOK'
  <2>1. since' \in 0 .. 2 /\ answer' \in {0, SdBusy, TxFree}
    BY DEF TypeOK
  <2>3. pc' \in Labels /\ phase' \in {"tick", "exec"} /\ peeked' \in BOOLEAN
    BY DEF Labels, UartPoll
  <2>2. UNCHANGED <<disk_irq, rfifo, rfifo_p, sddata, block, high, taken, looks, pops>>
    OBVIOUS
  <2> QED
    BY <2>1, <2>2, <2>3 DEF TypeOK, SdTypeOK
<1>2. CardFree' /\ InBlock'
  BY DEF CardFree, InBlock, CardPoll
<1>3. Pointer' /\ InHand'
  BY DEF Pointer, InHand, CardPoll
<1>4. TakenAsRead'
  BY DEF TakenAsRead
<1>5. Waited'
  BY DEF Waited, TypeOK
<1> QED
  BY <1>1, <1>2, <1>3, <1>4, <1>5

LEMMA LookAtFifoStep == ASSUME IInv, LookAtFifo PROVE IInv'
<1> USE DEF IInv, LookAtFifo, PopLow
<1>1. rfifo_p \in Nat /\ looks \in Nat /\ pops \in Nat /\ pops <= looks
  BY Sizes DEF TypeOK, SdTypeOK
<1>2. rfifo_p' = rfifo_p + 4 /\ pops' = pops + 1 /\ looks' \in 0 .. MaxLooks
  BY <1>1, Sizes
<1>3. TypeOK'
  BY <1>1, <1>2, Sizes DEF TypeOK, SdTypeOK
<1>4. CardFree' /\ InBlock' /\ Waited'
  BY DEF CardFree, InBlock, Waited
<1>5. Pointer'
  <2>1. Len(taken) \in Nat
    BY DEF TypeOK
  <2> QED
    BY <1>1, <1>2, <2>1 DEF Pointer
<1>6. InHand' /\ TakenAsRead'
  BY <1>1, <1>2 DEF InHand, TakenAsRead
<1> QED
  BY <1>3, <1>4, <1>5, <1>6

LEMMA LookAtLsrStep == ASSUME IInv, LookAtLsr PROVE IInv'
<1> USE DEF IInv, LookAtLsr, ReadLsr, NoCard, sdvars
<1>1. TypeOK'
  BY DEF TypeOK, SdTypeOK
<1>2. CardFree' /\ InBlock'
  BY DEF CardFree, InBlock
<1>3. Pointer' /\ InHand'
  BY DEF Pointer, InHand
<1>4. TakenAsRead' /\ Waited'
  BY DEF TakenAsRead, Waited
<1> QED
  BY <1>1, <1>2, <1>3, <1>4

LEMMA StepIInv == IInv /\ [Next]_vars => IInv'
<1> SUFFICES ASSUME IInv, [Next]_vars PROVE IInv'
  OBVIOUS
<1>1. CASE Program
  BY <1>1, DataStep, CmdStep, PollStep, TestStep, HighStep, LowStep, CharStep, LsrStep
     DEF Program
<1>2. CASE UNCHANGED vars
  BY <1>2 DEF vars, dvars, sdvars, IInv, TypeOK, SdTypeOK, InBlock, Pointer, TakenAsRead,
              InHand, CardFree, Waited
<1> QED
  BY <1>1, <1>2, LoopStep, LookAtFifoStep, LookAtLsrStep DEF Next

LEMMA Invariance == Spec => []IInv
  BY InitIInv, StepIInv, PTL DEF Spec

-----------------------------------------------------------------------------
\* The program, the card and the UART keep their types. (fsim/main.c:535-600)
THEOREM TypeCorrect == Spec => []TypeOK
  BY Invariance, PTL DEF IInv

\* Nothing is taken that is not the next longword of the block, complete, unless
\* the prompt has taken one. (fsim/main.c:555-565)
THEOREM TakenAsReadHolds == Spec => []TakenAsRead
  BY Invariance, PTL DEF IInv

\* The pointer of the card passes the end of the FIFO by looks from the prompt only.
\* (fsim/main.c:561)
THEOREM FifoOverrunsByLooksOnlyHolds == Spec => []FifoOverrunsByLooksOnly
<1>1. IInv => FifoOverrunsByLooksOnly
  BY Sizes DEF IInv, FifoOverrunsByLooksOnly, Pointer, TypeOK
<1> QED
  BY <1>1, Invariance, PTL

\* A program that polls before it takes anything is never refused a read, which
\* would end the simulator. (fsim/main.c:546-555, 567-581)
THEOREM NeverRefused == Spec => [](pc # "refused")
<1>1. IInv => pc # "refused"
  BY DEF IInv, CardFree
<1> QED
  BY <1>1, Invariance, PTL

\* Each answer that the UART is busy costs the prompt a look in the same round of
\* the program's poll. (fsim/main.c:590-593, asm/uart_test2.s:36-39)
THEOREM BusyByLooksOnlyHolds == Spec => BusyByLooksOnly
<1>1. IInv /\ [Next]_vars => [pc = "lsr" /\ pc' = "ldi" /\ answer' = 0 => peeked]_vars
  <2> SUFFICES ASSUME IInv, Next, pc = "lsr", pc' = "ldi", answer' = 0 PROVE peeked
    OBVIOUS
  <2>1. Lsr
    BY DEF Next, Loop, Program, At, Data, Cmd, Poll, Test, High, Low, Char, Ldi, Addskp, Br,
           LookAtFifo, LookAtLsr
  <2>2. since <= 1 /\ since \in Nat
    BY <2>1 DEF Lsr, LsrFree, TxFree, IInv, TypeOK
  <2> QED
    BY <2>2 DEF IInv, Waited
<1> QED
  BY <1>1, Invariance, PTL DEF Spec, BusyByLooksOnly

\* The poll of the UART never returns, whatever it is answered: 0x60 and the answer
\* make no zero. (asm/uart_test2.s:36-40)
THEOREM PollNeverReturns == Spec => [](pc # "returned")
<1> DEFINE Polls == IInv /\ pc # "returned"
<1>1. Init => Polls
  BY InitIInv DEF Init
<1>2. Polls /\ [Next]_vars => Polls'
  <2> SUFFICES ASSUME Polls, [Next]_vars PROVE pc' # "returned"
    BY StepIInv
  <2>1. (TxFree + answer) % 65536 # 0
    BY DEF IInv, TypeOK, TxFree, SdBusy
  <2> QED
    BY <2>1 DEF Next, Loop, Program, At, Data, Cmd, Poll, Test, High, Low, Char, Lsr, Ldi, Addskp,
                Br, LookAtFifo, LookAtLsr, vars, dvars
<1> QED
  BY <1>1, <1>2, PTL DEF Spec
=============================================================================
