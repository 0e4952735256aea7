----------------------------- MODULE MCSkipCond -----------------------------
\* Three-bit words and two registers: every pair of operands, every aliasing
\* of operands and target.
EXTENDS SkipCond
=============================================================================
