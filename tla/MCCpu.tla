-------------------------------- MODULE MCCpu --------------------------------
(***************************************************************************)
(* Two interrupt lines, addresses 0 to 2 of which 0 and 1 are the vectors, *)
(* and room for two return addresses: a handler may be interrupted once.   *)
(***************************************************************************)
EXTENDS Cpu
=============================================================================
