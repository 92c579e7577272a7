------------------------------ MODULE MCButton ------------------------------
(* A unit of time stands for some 400 ms, a long push takes two.  Two        *)
(* presses in a row start the portal; the report of a release wraps after    *)
(* two long pushes, and there is one value between the topics and the        *)
(* releases.                                                                 *)
EXTENDS Button

MCModes == [switch : BOOLEAN, ghost : BOOLEAN]
=============================================================================
