---------------------------- MODULE MCPn532Link ----------------------------
(***************************************************************************)
(* Instances of Pn532Link for TLC.                                         *)
(***************************************************************************)
EXTENDS Pn532Link
=============================================================================
