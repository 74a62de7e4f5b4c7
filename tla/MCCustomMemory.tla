--------------------------- MODULE MCCustomMemory ---------------------------
(* CustomMemory for TLC: the constants are numbers of the .cfg files.      *)
EXTENDS CustomMemory
=============================================================================
