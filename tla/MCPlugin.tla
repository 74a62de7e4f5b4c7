------------------------------ MODULE MCPlugin ------------------------------
(* Plugin for TLC: the constants are model values of the .cfg files.       *)
EXTENDS PluginRefinement
=============================================================================
