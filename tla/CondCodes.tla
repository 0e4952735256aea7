----------------------------- MODULE CondCodes -----------------------------
(***************************************************************************)
(* Words, their arithmetic, and how the two simulators decide a skip.c.    *)
(* fsim/main.c tests a flag that may be older than the instruction; the    *)
(* microcode simulator main2.c makes every decision from the subtraction   *)
(* of the skip.c itself, whose borrow it writes into CR between the EXEC   *)
(* and EXECM states. A word has 2 * Half values (2^16 in the code).        *)
(***************************************************************************)
EXTENDS Integers

CONSTANT Half  \* 0x8000: the words from here on are negative

ASSUME HalfAssumption == Half \in Nat /\ Half > 0

N == 2 * Half
Word == 0 .. N - 1
Cond == {"EQ", "NEQ", "LT", "LTE", "GT", "GTE", "ULT", "ULTE"}

-----------------------------------------------------------------------------
\* 16-bit arithmetic.

Sum(x, y)  == IF x + y >= N THEN x + y - N ELSE x + y
DiffUnwrapped(x, y) == x - y

Diff(x, y) == IF x < y THEN x - y + N ELSE x - y
Borrow(x, y) == x < y
Negative(w) == w >= Half

\* The decision of fsim's skip.c on the difference d, with the carry flag c
\* as it stands when the conditions are tested.
FsimDecides(cond, d, c) ==
    IF d = 0 THEN cond \in {"EQ", "LTE", "GTE", "ULTE"}
    ELSE \/ Negative(d) /\ cond \in {"LTE", "NEQ", "LT"}
         \/ ~Negative(d) /\ cond \in {"GTE", "NEQ", "GT"}
         \/ c /\ cond \in {"ULT", "ULTE"}

\* The SKIP signal of main2.c in EXECM: d is the ALU's result, c the borrow
\* that writeCR() has put into CR when EXEC was left.
MicroDecidesZeroIsLess(cond, d, c) ==
    \/ d = 0 /\ cond \in {"LTE", "EQ", "GTE", "ULTE"}
    \/ Negative(d) /\ cond \in {"LTE", "NEQ", "LT"}
    \/ ~Negative(d) /\ cond = "GTE"
    \/ ~Negative(d) /\ d # 0 /\ cond \in {"NEQ", "GT"}
    \/ (c \/ d = 0) /\ cond \in {"ULT", "ULTE"}

MicroDecides(cond, d, c) ==
    \/ d = 0 /\ cond \in {"LTE", "EQ", "GTE", "ULTE"}
    \/ Negative(d) /\ cond \in {"LTE", "NEQ", "LT"}
    \/ ~Negative(d) /\ cond = "GTE"
    \/ ~Negative(d) /\ d # 0 /\ cond \in {"NEQ", "GT"}
    \/ c /\ d # 0 /\ cond = "ULT"
    \/ c /\ cond = "ULTE"
=============================================================================
