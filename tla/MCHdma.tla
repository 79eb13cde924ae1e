------------------------------- MODULE MCHdma -------------------------------
(***************************************************************************)
(* Transfers of up to two blocks, video memory of two blocks and a source  *)
(* of three: both wrap, and a transfer may fill all of video memory.       *)
(***************************************************************************)
EXTENDS Hdma
=============================================================================
