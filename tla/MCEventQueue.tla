---------------------------- MODULE MCEventQueue ----------------------------
(***************************************************************************)
(* Instances of EventQueue for TLC.                                        *)
(***************************************************************************)
EXTENDS EventQueue

CONSTANTS ble, worker
=============================================================================
