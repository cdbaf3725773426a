------------------------------- MODULE MCFsm -------------------------------
(***************************************************************************)
(* An instance of Fsm for TLC: the tasks raise any event of the enum.      *)
(***************************************************************************)
EXTENDS Fsm
=============================================================================
