----------------------------- MODULE MCBleAuth -----------------------------
(***************************************************************************)
(* Instances of BleAuth for TLC.                                           *)
(***************************************************************************)
EXTENDS BleAuth
=============================================================================
