----------------------------- MODULE MCDrivers -----------------------------
(***************************************************************************)
(* Four reads of three blocks; sectors of three longwords.                 *)
(***************************************************************************)
EXTENDS Drivers

MCWanted == <<0, 0, 1, 2>>
=============================================================================
