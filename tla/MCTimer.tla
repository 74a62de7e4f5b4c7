------------------------------- MODULE MCTimer -------------------------------
(* Timer for TLC: the constants are model values of the .cfg files.        *)
EXTENDS Timer
=============================================================================
