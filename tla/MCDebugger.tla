------------------------------ MODULE MCDebugger ------------------------------
(* A frame of twenty-four cycles whose image is complete after sixteen, and   *)
(* two places for an instruction.                                             *)
EXTENDS Debugger
=============================================================================
