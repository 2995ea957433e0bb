------------------------------ MODULE MCQcaSpi ------------------------------
(***************************************************************************)
(* QcaSpi needs no definitions of its own: its bounds are numbers.         *)
(***************************************************************************)
EXTENDS QcaSpi
=============================================================================
