----------------------------- MODULE BitStrings -----------------------------
(***************************************************************************)
(* common.c: numbers as strings of '0' and '1', the most significant digit  *)
(* first. The microcode simulators take every field of an instruction and   *)
(* of a microcode row out of such a string with memcpy. Digits are 0 and 1. *)
(***************************************************************************)
EXTENDS Integers, Sequences

Dec2bin(n, sz) == [i \in 1 .. sz |-> (n \div (2 ^ (sz - i))) % 2]

\* The sum of the weights of the digits that are '1'.
Weighed(bin, weights) ==
    LET sum[i \in 0 .. Len(bin)] ==
            IF i = 0 THEN 0 ELSE sum[i - 1] + (IF bin[i] = 1 THEN weights[i] ELSE 0)
    IN  sum[Len(bin)]

Bin2dec(bin) == Weighed(bin, [i \in DOMAIN bin |-> 2 ^ (Len(bin) - i)])

\* A first digit '1' makes the number negative.
Sbin2dec(bin) ==
    IF bin[1] = 1 THEN -((2 ^ Len(bin)) - Bin2dec(bin)) ELSE Bin2dec(bin)

\* memcpy(field, bin + from, n): positions count from 0.
Field(bin, from, n) == SubSeq(bin, from + 1, from + n)

-----------------------------------------------------------------------------
\* The conversions for one length each, with a weight written out for each digit.

Bin2ToDec(bin) == Weighed(bin, <<2, 1>>)

Bin3ToDecReversed(bin) == Weighed(bin, <<1, 2, 4>>)

Bin3ToDec(bin) == Weighed(bin, <<4, 2, 1>>)

Bin7ToDec(bin) == Weighed(bin, <<64, 32, 16, 8, 4, 2, 1>>)

Bin10ToDec(bin) ==
    Weighed(bin, <<512, 256, 128, 64, 32, 16, 8, 4, 2, 1>>)

\* The first weight is not the 4096 of its place.
Bin13ToDec(bin) ==
    Weighed(bin,
        <<4196, 2048, 1024, 512, 256, 128, 64, 32, 16, 8, 4, 2, 1>>)
=============================================================================
