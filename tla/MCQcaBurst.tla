------------------------------ MODULE MCQcaBurst ------------------------------
(* The eight channels of the LPC1758, and one transfer that fails.            *)
EXTENDS QcaBurst
=============================================================================
