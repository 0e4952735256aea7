---------------------------- MODULE MCOldMicroCpu ----------------------------
(***************************************************************************)
(* OldMicroCpu on the programs of MCPrograms. Results may go to R0: main.c  *)
(* ends there. The word 0, ldi r0, 0, is among the instructions.            *)
(***************************************************************************)
EXTENDS OldMicroCpu, MCPrograms

MCInstrs == Program(Regs) \cup {Plain("ldi")}
=============================================================================
