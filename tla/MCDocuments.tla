---------------------------- MODULE MCDocuments ----------------------------
(***************************************************************************)
(* One file, in the folder that configures the plugin.                     *)
(***************************************************************************)
EXTENDS Documents

CONSTANTS Doc1, fA

MCUnder == [d \in Doc |-> fA]
=============================================================================
