--------------------------- MODULE MCQcaTransmit ---------------------------
(***************************************************************************)
(* QcaTransmit with the chip's real buffer size, and frames of which the   *)
(* two shortest, an ARP packet and a bare acknowledgement, are padded.     *)
(***************************************************************************)
EXTENDS QcaTransmit

EthernetLengths == {42, 54, 60, 577, 1514}

FewLevels == {0, 1524, 3103}
=============================================================================
