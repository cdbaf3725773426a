----------------------------- MODULE DoorLatch -----------------------------
(***************************************************************************)
(* What the door module promises (iot/include/uwb/uci_door_unlock.h,       *)
(* "hysteresis-based door unlock logic"), in terms of the readings alone:  *)
(* an armed latch opens at the reading that completes Hits close readings  *)
(* in a row, and at no other, and then stays shut until a reading says     *)
(* the phone is away.                                                      *)
(***************************************************************************)
EXTENDS Integers

CONSTANT Hits

VARIABLES
  armed,     (* the next streak opens the door                               *)
  closeRun,  (* how many of the latest readings were close, up to Hits       *)
  fired      (* the last reading or command opened the door                  *)

latchVars == <<armed, closeRun, fired>>

LatchInit == armed = TRUE /\ closeRun = 0 /\ fired = FALSE

Longer(run) == IF run < Hits THEN run + 1 ELSE Hits

Close ==
  /\ closeRun' = Longer(closeRun)
  /\ fired' = (armed /\ closeRun' = Hits)
  /\ armed' = (armed /\ ~fired')

Between == closeRun' = 0 /\ fired' = FALSE /\ UNCHANGED armed
Away    == closeRun' = 0 /\ fired' = FALSE /\ armed' = TRUE

ByHand == armed' = FALSE /\ fired' = TRUE /\ UNCHANGED closeRun

LatchNext == Close \/ Between \/ Away \/ ByHand
LatchSpec == LatchInit /\ [][LatchNext]_latchVars
=============================================================================
