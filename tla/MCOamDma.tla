------------------------------ MODULE MCOamDma ------------------------------
(***************************************************************************)
(* Two sprite bytes, so that one can be copied while the other is still    *)
(* ahead, and three source pages: one of VRAM, page 0xFF with one register *)
(* and one byte of HRAM, and one that is neither.                          *)
(***************************************************************************)
EXTENDS OamDma
=============================================================================
