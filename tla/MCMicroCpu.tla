----------------------------- MODULE MCMicroCpu -----------------------------
(***************************************************************************)
(* MicroCpu on the programs of MCPrograms; R0, which fsim writes and        *)
(* main2.c does not, is never the target of a result.                       *)
(***************************************************************************)
EXTENDS MicroCpu, MCPrograms

MCInstrs == Program(Regs \ {0})
=============================================================================
