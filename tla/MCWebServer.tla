------------------------------ MODULE MCWebServer ------------------------------
(***************************************************************************)
(* A backlog of two for three peers, one of which sends requests; a file   *)
(* that does not fit into the stream together with the head of its reply.  *)
(***************************************************************************)
EXTENDS WebServer

CONSTANTS p1, p2, p3

MCPeers == {p1, p2, p3}
MCBrowsers == {p1}
=============================================================================
