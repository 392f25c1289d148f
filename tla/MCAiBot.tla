------------------------------ MODULE MCAiBot -------------------------------
(***************************************************************************)
(* A small instance of AiBot for TLC.                                      *)
(***************************************************************************)
EXTENDS AiBot

=============================================================================
