----------------------------- MODULE MCTraceLog -----------------------------
(* A ring of eight cells: lines of every length, splits after three          *)
(* characters, moves of one character; two characters show the order.        *)
EXTENDS TraceLog
=============================================================================
