------------------------------- MODULE MCTimer -------------------------------
(***************************************************************************)
(* A small timer: a 7-bit internal counter whose bits 6, 3, 4 and 5 can be *)
(* watched, in the unsorted order of kWatchedBits, and a TIMA of 2 bits.   *)
(***************************************************************************)
EXTENDS Timer

MCBitWeight == [s \in 0 .. 3 |-> IF s = 0 THEN 64 ELSE 4 * 2^s]
MCResetCounters == {76, 32}
=============================================================================
