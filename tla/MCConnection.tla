--------------------------- MODULE MCConnection ----------------------------
(* Clocks that wrap after a few windows, so that every order of wraps,     *)
(* connections, losses and portals occurs.                                 *)
EXTENDS Connection
=============================================================================
