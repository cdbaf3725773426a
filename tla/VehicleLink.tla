---------------------------- MODULE VehicleLink ----------------------------
(***************************************************************************)
(* The tunnel authentication and the vehicle's state machine together:     *)
(* every event a BLE callback or the worker raises goes into the queue     *)
(* that fsmTask drains (iot/src/fsm/fsm_integration.cpp, namespace BLE).   *)
(* Nothing in the firmware outside its tests arms a state timer or raises  *)
(* the proximity events, so neither happens here.                          *)
(***************************************************************************)
EXTENDS BleAuth

CONSTANT EVENT_QUEUE_SIZE

ASSUME QueueSizeAssumption == EVENT_QUEUE_SIZE \in Nat \ {0}

VARIABLES currentState, session_keys_ready, phone_key_valid, phone_pub_key, eventQueue,
          timeoutActive, step, decided, resetting

machineVars == <<currentState, session_keys_ready, phone_key_valid, phone_pub_key, eventQueue,
                 timeoutActive, step, decided, resetting>>
vehicleVars == <<authVars, machineVars>>

Machine == INSTANCE Fsm WITH provisioned <- ownerStored, Raised <- {},
                             ResetMidEvent <- FALSE

VehicleInit == AuthInit /\ Machine!FsmInit

\* A step of the tunnel, and what its calls do to the machine's context and queue.
\* fsmTask has the highest priority and drains every millisecond: the fifteen
\* slots do not fill up with the two or three events of a tunnel command.
TunnelStep ==
  /\ AuthNext
  /\ IF raised' = <<"markSessionReady">>
     THEN session_keys_ready' = TRUE /\ UNCHANGED eventQueue
     ELSE /\ Len(eventQueue) + Len(raised') < EVENT_QUEUE_SIZE
          /\ eventQueue' = eventQueue \o raised'
          /\ UNCHANGED session_keys_ready
  /\ UNCHANGED <<currentState, phone_key_valid, phone_pub_key, timeoutActive, step, decided,
                 resetting>>

\* A phone gives up on an answer within 12 s, so the five idle minutes of
\* ExpireSession never pass in the middle of a handshake.
MachineStep ==
  /\ Machine!FsmTask
  /\ step = "work" /\ phone \notin {"away", "linked", "done"} => UNCHANGED eventQueue
  /\ UNCHANGED authVars

SerialClearAll ==
  /\ "serialClear" \in adverse
  /\ Machine!SerialClearAll
  /\ fastArtifact' = FALSE
  /\ Raise(<< >>)
  /\ UNCHANGED <<adverse, links, link, sessionVars, nonces, callback, notified, workerVars,
                 phoneVars, inbox>>

\* The rest of that command: FSM::reset(true), and the event after it.
ResetStep ==
  /\ Machine!ResetGoesOn
  /\ UNCHANGED authVars

VehicleNext == TunnelStep \/ MachineStep \/ SerialClearAll \/ ResetStep
VehicleSpec == VehicleInit /\ [][VehicleNext]_vehicleVars

(* The tasks keep running; links ending, resets and clears are not assumed.  *)
(* A reset that is begun goes on whenever fsmTask sleeps, which it does after *)
(* each round of its loop, so it is disabled again and again but not for ever.*)
TaskProgress == (WorkerTask \/ Phone \/ Auth0HandsOver) /\ TunnelStep
VehicleFairSpec ==
  VehicleSpec /\ WF_vehicleVars(TaskProgress) /\ WF_vehicleVars(MachineStep)
              /\ SF_vehicleVars(ResetStep)

-----------------------------------------------------------------------------
Disconnecting == \E i \in DOMAIN eventQueue : eventQueue[i] = "BLE_CLIENT_DISCONNECTED"

(* The two machines agree: the state machine reports a secure channel only   *)
(* while the tunnel has a verified session, or the news that the link ended  *)
(* is still in the queue (or was thrown away with it by a reset that is      *)
(* about to force IDLE), or the phone is done and an administrator, whose    *)
(* reset of the session raises no event, may have reset it; provided that    *)
(* links do not overlap or end under the worker's hands and that no reset of *)
(* that kind comes earlier.                                                  *)
SecureMeansVerified ==
  (/\ adverse \cap {"overlap", "dropMidWork", "adminReset"} = {}
   /\ currentState = "AUTH_SECURE_CHANNEL_READY") =>
    \/ s_authState = "AUTH_SESSION_READY"
    \/ Disconnecting
    \/ resetting = "emptied"
    \/ phone = "done"

(* A phone that was accepted on the first link gets the state machine into   *)
(* an open session, and its unlock request to the proximity check, unless    *)
(* its link or the owner's key goes away (or it was accepted too early, see  *)
(* AcceptedMeansVerified).                                                   *)
FirstUnlockServed ==
  ("promptPhone" \notin adverse /\ phone = "done" /\ link = 1)
    ~> (currentState = "UNLOCKING_CHECK_PROXIMITY" \/ link \notin links \/ ~ownerStored)

(* When every link is gone for good the state machine does not stay in a     *)
(* state of the handshake or of an open session: it is back in IDLE, or in   *)
(* one of the three states that the transition table gives no row for a      *)
(* disconnection.  Again, links ending under the worker's hands aside.       *)
ClosesWithTheLinks ==
  "dropMidWork" \notin adverse /\ <>[](links = {}) =>
    <>[](currentState \in {"IDLE", "AUTH_VERIFY_KEYS", "UNLOCKING_CHECK_PROXIMITY",
                           "ERROR_HANDLER"})
=============================================================================
