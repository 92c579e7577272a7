----------------------------- MODULE MCCounter -----------------------------
(* A new counter, and one with a count behind it.                           *)
EXTENDS Counter

MCStarts == {None, 2}
=============================================================================
