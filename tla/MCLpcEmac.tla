------------------------------ MODULE MCLpcEmac ------------------------------
(***************************************************************************)
(* LpcEmac needs no definitions of its own: its bounds are numbers.        *)
(***************************************************************************)
EXTENDS LpcEmac
==============================================================================
