---------------------------- MODULE MCBleServer ----------------------------
(***************************************************************************)
(* Instances of BleServer for TLC.                                         *)
(***************************************************************************)
EXTENDS BleServer
=============================================================================
