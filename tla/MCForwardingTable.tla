-------------------------- MODULE MCForwardingTable --------------------------
(***************************************************************************)
(* ForwardingTable with two stations, which may be reached by either of    *)
(* two interfaces.                                                         *)
(***************************************************************************)
EXTENDS ForwardingTable

CONSTANTS s1, s2, eth, plc

Stations == {s1, s2}
Ports    == {eth, plc}

Anywhere == [s \in Station |-> Port]

Firmware == { [aging |-> FALSE, preempted |-> TRUE] }

FirmwareAndVariants ==
  Firmware \union { [aging |-> a, preempted |-> FALSE] : a \in BOOLEAN }
==============================================================================
