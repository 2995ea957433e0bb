--------------------------- MODULE MCClickboardConfig ---------------------------
(***************************************************************************)
(* Two ports, two clickboards of which one takes the mutex in its Init,    *)
(* and a sector with room for three configurations and its last page.  A   *)
(* failure of the supply changes no value or one.                          *)
(***************************************************************************)
EXTENDS ClickboardConfig

CONSTANTS port1, port2

TwoPorts == {port1, port2}

NoneOrOne == {{}, {port1}}
=============================================================================
