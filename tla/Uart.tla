-------------------------------- MODULE Uart --------------------------------
(***************************************************************************)
(* The UART that the functional simulator (fsim/main.c) puts at 0xff90. A   *)
(* character is printed the moment it is written; what stands for the time  *)
(* of its transmission is the line status register (LSR): free only if more *)
(* than one tick has passed since it was last found free. Finding it free   *)
(* is what makes it busy, not the character.                                *)
(***************************************************************************)
EXTENDS Naturals

VARIABLE since  \* tick - tx_delay; 2 stands for every larger number

UartInit == since = 0

\* tick++, once for each instruction.
Tick == since' = IF since = 2 THEN 2 ELSE since + 1

LsrFreeBeforeOnly == since < 1

\* readuart() at 0xff95: 0x60 (free) or 0.
LsrFree == since > 1

ReadLsr == since' = IF LsrFree THEN 0 ELSE since
=============================================================================
