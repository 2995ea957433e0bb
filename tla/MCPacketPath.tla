----------------------------- MODULE MCPacketPath -----------------------------
(* Three buffers are the least that a flooded frame needs beside the one in   *)
(* the EMAC's receive ring, and there is one place in each queue that may     *)
(* fill up.                                                                   *)
EXTENDS PacketPath
=============================================================================
