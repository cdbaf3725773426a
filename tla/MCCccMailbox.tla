---------------------------- MODULE MCCccMailbox ----------------------------
(***************************************************************************)
(* Instances of CccMailbox for TLC.                                        *)
(***************************************************************************)
EXTENDS CccMailbox

CONSTANTS alice, bob
=============================================================================
