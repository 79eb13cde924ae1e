-------------------------------- MODULE MCPpu --------------------------------
(***************************************************************************)
(* A small screen: two visible lines and two of VBlank, nine dots each.    *)
(* A tick is short against every mode, as 4 is against 80, 172 and 204,    *)
(* and does not divide them, as after a switch of the CPU speed.           *)
(***************************************************************************)
EXTENDS Ppu
=============================================================================
