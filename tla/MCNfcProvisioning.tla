------------------------- MODULE MCNfcProvisioning -------------------------
(***************************************************************************)
(* Instances of NfcProvisioning for TLC: two phones.                       *)
(***************************************************************************)
EXTENDS NfcProvisioning
CONSTANTS alice, bob
=============================================================================
