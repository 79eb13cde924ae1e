------------------------------ MODULE MCSelfTest ------------------------------
(* A small RAM window for the bank controllers; the benches are the repository's. *)
EXTENDS SelfTest
=============================================================================
