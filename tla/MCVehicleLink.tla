--------------------------- MODULE MCVehicleLink ---------------------------
(***************************************************************************)
(* Instances of VehicleLink for TLC.                                       *)
(***************************************************************************)
EXTENDS VehicleLink
=============================================================================
