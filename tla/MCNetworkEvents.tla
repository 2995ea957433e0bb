--------------------------- MODULE MCNetworkEvents ---------------------------
(* Two servers, so that two answers to one transaction may be under way, and  *)
(* a queue that three down events fill.  A discover and a request are each    *)
(* repeated once, each server answers one discover, one request is refused,   *)
(* and the Ethernet link changes, or is missing at the start, once.           *)
EXTENDS NetworkEvents
=============================================================================
