--------------------------- MODULE InterruptUnit ---------------------------
(***************************************************************************)
(* What the trap mechanism of the machine promises, told without registers,*)
(* clocks or instructions: a cause that has arrived stays pending until it *)
(* is delivered or the program clears all of them; one cause is delivered  *)
(* at a time, by priority, only where the running bank admits it, and the  *)
(* delivery enters the system bank; code of the user bank cannot change    *)
(* whether the system bank admits traps.                                   *)
(***************************************************************************)
EXTENDS Naturals

CONSTANTS
    Cause,  \* trap causes
    Rank    \* Rank[c] < Rank[d]: c is delivered before d; no two are equal

VARIABLES
    pending,  \* causes that have arrived and were not delivered
    running,  \* "system" or "user"
    admits    \* admits[b]: bank b lets traps in

uvars == <<pending, running, admits>>

Bank == {"system", "user"}

UInit ==
    /\ pending = {}
    /\ running = "system"
    /\ admits = [b \in Bank |-> b = "user"]

Highest(P) == {c \in P : \A d \in P : Rank[c] =< Rank[d]}

\* Causes arrive; a cause that is pending already is not counted twice.
Arrive ==
    /\ \E N \in SUBSET Cause : pending' = pending \cup N
    /\ UNCHANGED <<running, admits>>

\* One cause, the highest of those pending and just arrived, is delivered.
Deliver ==
    /\ admits[running]
    /\ \E N \in SUBSET Cause : \E c \in Highest(pending \cup N) :
         pending' = (pending \cup N) \ {c}
    /\ running' = "system"
    /\ UNCHANGED admits

\* The program clears what is pending.
Clear == pending' = {} /\ UNCHANGED <<running, admits>>

\* The handler goes back to the interrupted program.
Return == running' = "user" /\ UNCHANGED <<pending, admits>>

\* The running code admits or excludes traps; only the system bank's code may
\* do so for the system bank.
Admit ==
    /\ \E a \in [Bank -> BOOLEAN] :
         /\ running = "user" => a["system"] = admits["system"]
         /\ admits' = a
    /\ UNCHANGED <<pending, running>>

UNext == Arrive \/ Deliver \/ Clear \/ Return \/ Admit

USpec == UInit /\ [][UNext]_uvars
=============================================================================
