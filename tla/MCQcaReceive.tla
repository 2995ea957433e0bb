---------------------------- MODULE MCQcaReceive ----------------------------
(***************************************************************************)
(* QcaReceive with frames of 5 and 6 bytes.  The payloads hold the bytes   *)
(* the decoder looks for (170 and 85), a whole false header and a false    *)
(* footer; the length word is the total length of a short frame.           *)
(***************************************************************************)
EXTENDS QcaReceive

TrapFrames == { <<85, 85, 170, 85, 85>>, <<170, 170, 170, 170, 5, 0>> }

LengthWords == { <<0, 0, 0, 15>> }
=============================================================================
