----------------------------- MODULE MCFsimCpu -----------------------------
(***************************************************************************)
(* Instances of FsimCpu for TLC: the programs of each run.                 *)
(***************************************************************************)
EXTENDS FsimCpu

\* Every instruction class.
AnyOps == Ops

\* A kernel that drives the card, waits for the interrupt of each read and
\* leaves its own control register alone, as the one of asm/conctrap.s does, and
\* user programs that compute, call it, return to it or read the card themselves;
\* somebody is at the prompt.
HandlerOps == {"other", "wivec", "pop.u", "reti", "wcr.u", "rsi",
               "sd.status", "sd.data", "sd.read", "sd.pop", "brk", "exit"}
AppOps == {"arith", "skip", "syscall", "sd.read", "reti"}

\* The smallest programs that show a disagreement.
LaunchOps == {"reti", "sd.read"}
CarryOps  == {"arith"}
CallOps   == {"syscall"}
=============================================================================
