----------------------------- MODULE MCRanging -----------------------------
(***************************************************************************)
(* Instances of Ranging for TLC.                                           *)
(***************************************************************************)
EXTENDS Ranging
=============================================================================
