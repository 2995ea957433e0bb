-------------------------- MODULE MCNetworkBuffers --------------------------
(***************************************************************************)
(* NetworkBuffers with three tasks, which differ in nothing, and an        *)
(* interrupt handler.                                                      *)
(***************************************************************************)
EXTENDS NetworkBuffers

CONSTANTS emac, ip, server, isr

Tasks == {emac, ip, server}

Symmetric == Permutations(Tasks)
=============================================================================
