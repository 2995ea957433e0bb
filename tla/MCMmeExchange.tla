---------------------------- MODULE MCMmeExchange ----------------------------
(***************************************************************************)
(* MmeExchange with four buffers.                                          *)
(***************************************************************************)
EXTENDS MmeExchange

CONSTANTS b1, b2, b3, b4

Buffers == {b1, b2, b3, b4}
==============================================================================
