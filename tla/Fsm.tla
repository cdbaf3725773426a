-------------------------------- MODULE Fsm --------------------------------
(***************************************************************************)
(* The vehicle state machine (iot/src/fsm/fsm.cpp): the event queue, the   *)
(* transition table with its guards, and the loop of fsmTask, which checks *)
(* the state timer, drains the queue and does the background work of the   *)
(* current state.  Other tasks raise events through triggerEvent.          *)
(*                                                                         *)
(* The queue is a bounded FIFO here; EventQueue models the ring underneath *)
(* and what happens to it when two tasks use it at once.                   *)
(***************************************************************************)
EXTENDS Naturals, Sequences, FiniteSets

CONSTANTS
  EVENT_QUEUE_SIZE,  (* slots of the ring; one always stays empty            *)
  Raised,            (* the events the other tasks may raise                 *)
  ResetMidEvent      (* whether a step of the reset that serial command "C"   *)
                     (* runs on nfcTask may fall inside processEvent, where   *)
                     (* fsmTask blocks on the serial log between the guard    *)
                     (* and the transition; between the steps of the reset    *)
                     (* fsmTask, of higher priority, always may run           *)

ProvisioningStates == {"PROVISIONING_WAIT_TAP", "PROVISIONING_SELECT_AID",
                       "PROVISIONING_EXCHANGE_KEYS", "PROVISIONING_STORE_CREDS"}
UnlockingStates == {"UNLOCKING_CHECK_PROXIMITY", "UNLOCKING_VERIFY_AUTH",
                    "UNLOCKING_EXECUTE", "UNLOCKING_COMPLETE"}
States ==
  {"INIT", "IDLE", "ADMIN_MODE", "ERROR_HANDLER"}
    \cup ProvisioningStates \cup UnlockingStates
    \cup {"AUTH_WAIT_AUTH0", "AUTH_PROCESSING_AUTH0_STD", "AUTH_WAIT_AUTH1_RESP",
          "AUTH_SECURE_CHANNEL_READY", "AUTH_WAIT_CONNECT", "AUTH_HANDSHAKE",
          "AUTH_VERIFY_KEYS", "AUTH_SESSION_READY"}

Events ==
  {"SYSTEM_READY", "TIMEOUT", "ERROR_OCCURRED", "RESET_REQUESTED",
   "PROVISION_START", "NFC_CARD_DETECTED", "NFC_CARD_REMOVED",
   "SELECT_AID_SUCCESS", "SELECT_AID_FAILED", "KEYS_EXCHANGED", "KEYS_INVALID",
   "CREDENTIALS_STORED", "BLE_CLIENT_CONNECTED", "BLE_CLIENT_DISCONNECTED",
   "BLE_AUTH0_RECEIVED", "BLE_AUTH0_RESP_SENT", "BLE_AUTH1_SENT",
   "BLE_AUTH1_RESP_RECEIVED", "BLE_EXCHANGE_RECEIVED", "BLE_EXCHANGE_RESP_SENT",
   "BLE_CONTROL_FLOW_RECEIVED", "BLE_CONTROL_FLOW_RESP_SENT",
   "CLIENT_HELLO_RECEIVED", "SERVER_HELLO_SENT", "CLIENT_CONFIRM_RECEIVED",
   "AUTH_VERIFIED", "AUTH_FAILED", "UNLOCK_REQUESTED", "PROXIMITY_OK",
   "PROXIMITY_TOO_FAR", "AUTH_SESSION_VALID", "AUTH_SESSION_EXPIRED",
   "UNLOCK_EXECUTED", "ADMIN_COMMAND", "FORCE_PROVISION_ON",
   "FORCE_PROVISION_OFF", "CLEAR_KEYS", "DIAGNOSTICS_REQUEST"}

\* The events each group of wrappers of FSMIntegration raises.
NfcEvents ==
  {"NFC_CARD_DETECTED", "NFC_CARD_REMOVED", "SELECT_AID_SUCCESS",
   "SELECT_AID_FAILED", "KEYS_INVALID", "CREDENTIALS_STORED", "TIMEOUT",
   "ERROR_OCCURRED"}
BleEvents ==
  {"BLE_CLIENT_CONNECTED", "BLE_CLIENT_DISCONNECTED", "BLE_AUTH0_RECEIVED",
   "BLE_AUTH0_RESP_SENT", "BLE_AUTH1_SENT", "BLE_AUTH1_RESP_RECEIVED",
   "BLE_EXCHANGE_RECEIVED", "BLE_EXCHANGE_RESP_SENT", "BLE_CONTROL_FLOW_RECEIVED",
   "BLE_CONTROL_FLOW_RESP_SENT", "CLIENT_HELLO_RECEIVED", "SERVER_HELLO_SENT",
   "AUTH_VERIFIED", "AUTH_FAILED", "AUTH_SESSION_EXPIRED", "UNLOCK_REQUESTED",
   "ERROR_OCCURRED", "ADMIN_COMMAND"}
UnlockEvents ==
  {"PROXIMITY_OK", "PROXIMITY_TOO_FAR", "AUTH_SESSION_VALID", "UNLOCK_EXECUTED",
   "TIMEOUT", "ERROR_OCCURRED"}
AdminEvents ==
  {"FORCE_PROVISION_ON", "FORCE_PROVISION_OFF", "CLEAR_KEYS", "DIAGNOSTICS_REQUEST"}
SystemEvents == {"SYSTEM_READY", "RESET_REQUESTED", "ERROR_OCCURRED"}
SerialEvents == {"PROVISION_START", "FORCE_PROVISION_ON", "FORCE_PROVISION_OFF"}
WrapperEvents == NfcEvents \cup BleEvents \cup UnlockEvents \cup AdminEvents
                   \cup SystemEvents \cup SerialEvents

ASSUME QueueSizeAssumption == EVENT_QUEUE_SIZE \in Nat \ {0}
ASSUME RaisedAssumption == Raised \subseteq Events
ASSUME ResetMidEventAssumption == ResetMidEvent \in BOOLEAN

-----------------------------------------------------------------------------
(***************************************************************************)
(* The transition table: for each target state, the (state, event) pairs   *)
(* whose row leads there.                                                  *)
(***************************************************************************)
Edges ==
  [IDLE |->
     {<<"INIT", "SYSTEM_READY">>, <<"IDLE", "CREDENTIALS_STORED">>,
      <<"PROVISIONING_WAIT_TAP", "TIMEOUT">>,
      <<"PROVISIONING_WAIT_TAP", "NFC_CARD_REMOVED">>,
      <<"PROVISIONING_STORE_CREDS", "CREDENTIALS_STORED">>,
      <<"AUTH_PROCESSING_AUTH0_STD", "BLE_CLIENT_DISCONNECTED">>,
      <<"AUTH_WAIT_AUTH1_RESP", "BLE_CLIENT_DISCONNECTED">>,
      <<"UNLOCKING_COMPLETE", "TIMEOUT">>}
     \cup {"AUTH_WAIT_AUTH0"} \X {"TIMEOUT", "BLE_CLIENT_DISCONNECTED"}
     \cup {"AUTH_SECURE_CHANNEL_READY", "AUTH_SESSION_READY"}
            \X {"BLE_CLIENT_DISCONNECTED", "TIMEOUT", "AUTH_SESSION_EXPIRED"}
     \cup {"ADMIN_MODE"} \X {"FORCE_PROVISION_ON", "FORCE_PROVISION_OFF",
                             "CLEAR_KEYS", "DIAGNOSTICS_REQUEST", "RESET_REQUESTED"}
     \cup {"ERROR_HANDLER"} \X {"RESET_REQUESTED", "TIMEOUT"},
   PROVISIONING_WAIT_TAP |-> {<<"IDLE", "PROVISION_START">>},
   PROVISIONING_SELECT_AID |-> {<<"PROVISIONING_WAIT_TAP", "NFC_CARD_DETECTED">>},
   PROVISIONING_EXCHANGE_KEYS |-> {<<"PROVISIONING_SELECT_AID", "SELECT_AID_SUCCESS">>},
   PROVISIONING_STORE_CREDS |-> {<<"PROVISIONING_EXCHANGE_KEYS", "KEYS_EXCHANGED">>},
   AUTH_WAIT_AUTH0 |-> {<<"IDLE", "BLE_CLIENT_CONNECTED">>},
   AUTH_PROCESSING_AUTH0_STD |-> {<<"AUTH_WAIT_AUTH0", "BLE_AUTH0_RECEIVED">>},
   AUTH_WAIT_AUTH1_RESP |->
     {<<"AUTH_PROCESSING_AUTH0_STD", "BLE_AUTH0_RESP_SENT">>,
      <<"AUTH_WAIT_AUTH1_RESP", "BLE_AUTH1_SENT">>},
   AUTH_VERIFY_KEYS |->
     {<<"AUTH_WAIT_AUTH1_RESP", "BLE_AUTH1_RESP_RECEIVED">>,
      <<"AUTH_VERIFY_KEYS", "BLE_EXCHANGE_RECEIVED">>},
   AUTH_SECURE_CHANNEL_READY |->
     {"AUTH_WAIT_AUTH1_RESP", "AUTH_VERIFY_KEYS"} \X {"AUTH_VERIFIED"}
     \cup {"AUTH_SECURE_CHANNEL_READY"}
            \X {"BLE_EXCHANGE_RECEIVED", "BLE_EXCHANGE_RESP_SENT",
                "BLE_CONTROL_FLOW_RECEIVED", "BLE_CONTROL_FLOW_RESP_SENT"},
   AUTH_SESSION_READY |->
     {"UNLOCKING_CHECK_PROXIMITY"} \X {"PROXIMITY_TOO_FAR", "TIMEOUT"},
   UNLOCKING_CHECK_PROXIMITY |->
     {"AUTH_SECURE_CHANNEL_READY", "AUTH_SESSION_READY"} \X {"UNLOCK_REQUESTED"}
     \cup {<<"UNLOCKING_CHECK_PROXIMITY", "BLE_CONTROL_FLOW_RESP_SENT">>},
   UNLOCKING_VERIFY_AUTH |-> {<<"UNLOCKING_CHECK_PROXIMITY", "PROXIMITY_OK">>},
   UNLOCKING_EXECUTE |-> {<<"UNLOCKING_VERIFY_AUTH", "AUTH_SESSION_VALID">>},
   UNLOCKING_COMPLETE |-> {<<"UNLOCKING_EXECUTE", "UNLOCK_EXECUTED">>},
   ADMIN_MODE |-> {<<"IDLE", "ADMIN_COMMAND">>},
   ERROR_HANDLER |->
     {"PROVISIONING_SELECT_AID"} \X {"SELECT_AID_FAILED", "TIMEOUT"}
     \cup {"PROVISIONING_EXCHANGE_KEYS"} \X {"KEYS_INVALID", "TIMEOUT"}
     \cup {"AUTH_PROCESSING_AUTH0_STD", "AUTH_WAIT_AUTH1_RESP", "AUTH_VERIFY_KEYS"}
            \X {"AUTH_FAILED", "TIMEOUT"}
     \cup {"UNLOCKING_VERIFY_AUTH"} \X {"AUTH_SESSION_EXPIRED", "TIMEOUT"}
     \cup {"PROVISIONING_STORE_CREDS", "UNLOCKING_EXECUTE"} \X {"ERROR_OCCURRED"}]

Targets == DOMAIN Edges

\* The rows out of s on e (validateConfiguration's duplicate check).
RowsFor(s, e) ==
  LET edges == Edges IN {t \in DOMAIN edges : <<s, e>> \in edges[t]}
ASSUME TableIsDeterministic ==
  \A s \in States, e \in Events : Cardinality(RowsFor(s, e)) =< 1

-----------------------------------------------------------------------------
VARIABLES
  currentState,
  session_keys_ready,  (* StateContext: the session keys are in place         *)
  phone_key_valid,     (* StateContext: the owner's public key is in place    *)
  phone_pub_key,       (* StateContext: the key last copied there begins with *)
                       (* 0x04, the mark of an uncompressed point             *)
  eventQueue,
  timeoutActive,       (* currentTimeout.active                               *)
  step,                (* where fsmTask is in tick()                          *)
  decided,             (* the target processEvent chose, during "execute"     *)
  resetting,           (* how far nfcTask is in serial command "C"            *)
  provisioned          (* ProvisioningPhase::isProvisioned(), of the mailbox  *)

fsmVars == <<currentState, session_keys_ready, phone_key_valid, phone_pub_key, eventQueue,
             timeoutActive, step, decided, resetting, provisioned>>
\* What only nfcTask changes.
nfcVars == <<phone_pub_key, resetting, provisioned>>

FsmTypeOK ==
  /\ currentState \in States
  /\ session_keys_ready \in BOOLEAN
  /\ phone_key_valid \in BOOLEAN
  /\ phone_pub_key \in BOOLEAN
  /\ eventQueue \in Seq(Events)
  /\ Len(eventQueue) =< EVENT_QUEUE_SIZE - 1
  /\ timeoutActive \in BOOLEAN
  /\ step \in {"check", "drain", "execute", "work"}
  /\ decided \in States
  /\ resetting \in {"no", "begun", "cleared", "emptied", "forced"}
  /\ provisioned \in BOOLEAN

\* A mistake: the ring's own limit is not tested.
EnqueueAnyway(q, e) == Append(q, e)

\* triggerEvent: a full ring drops the event and the callers ignore the result.
Enqueue(q, e) ==
  IF Len(q) = EVENT_QUEUE_SIZE - 1 THEN q ELSE Append(q, e)

\* The ring after the drain loop has moved queueTail past the event it handled.
Dequeue(q) == IF q = << >> THEN q ELSE Tail(q)

\* A mistake: the row of AUTH_VERIFIED has no guard.
GuardPassesWithoutSession(s, e) ==
  /\ <<s, e>> = <<"IDLE", "BLE_CLIENT_CONNECTED">> => provisioned
  /\ e = "KEYS_EXCHANGED" => phone_key_valid /\ phone_pub_key

GuardPasses(s, e) ==
  /\ <<s, e>> = <<"IDLE", "BLE_CLIENT_CONNECTED">> => provisioned
  /\ e = "KEYS_EXCHANGED" => phone_key_valid /\ phone_pub_key
  /\ e = "AUTH_VERIFIED" => session_keys_ready

\* FSM::begin: the context is cleared, the key flag read, SYSTEM_READY queued.
FsmInit ==
  /\ currentState = "INIT"
  /\ session_keys_ready = FALSE
  /\ provisioned \in BOOLEAN
  /\ phone_key_valid = provisioned
  /\ phone_pub_key = FALSE
  /\ eventQueue = Enqueue(<< >>, "SYSTEM_READY")
  /\ timeoutActive = FALSE
  /\ step = "check"
  /\ decided = "INIT"
  /\ resetting = "no"

-----------------------------------------------------------------------------
(* fsmTask: one pass of tick() is CheckTimeout, the drain loop, StateWork.   *)

\* checkTimeout: a state timer may have elapsed since it was armed.
CheckTimeout ==
  /\ step = "check"
  /\ \/ /\ timeoutActive
        /\ eventQueue' = Enqueue(eventQueue, "TIMEOUT")
        /\ timeoutActive' = FALSE
     \/ UNCHANGED <<eventQueue, timeoutActive>>
  /\ step' = "drain"
  /\ UNCHANGED <<currentState, session_keys_ready, phone_key_valid, decided, nfcVars>>

\* The state processEvent moves to on e: a row whose guard passes, else one of
\* the two global events, else nowhere.
NextState(e) ==
  LET rows == RowsFor(currentState, e) IN
    IF rows # {} /\ GuardPasses(currentState, e)
    THEN CHOOSE t \in rows : TRUE
    ELSE CASE e = "ERROR_OCCURRED"  -> "ERROR_HANDLER"
           [] e = "RESET_REQUESTED" -> "IDLE"
           [] OTHER                 -> currentState

\* processEvent up to the choice of the transition.
ProcessEvent ==
  /\ step = "drain"
  /\ eventQueue # << >>
  /\ LET e == Head(eventQueue)
         nextState == NextState(e)
     IN
       /\ phone_key_valid' =
            CASE e = "CREDENTIALS_STORED" -> phone_key_valid \/ provisioned
              [] e = "CLEAR_KEYS"         -> FALSE
              [] OTHER                    -> phone_key_valid
       /\ IF nextState # currentState
          THEN /\ step' = "execute"
               /\ decided' = nextState
               /\ UNCHANGED eventQueue
          ELSE /\ eventQueue' = Dequeue(eventQueue)
               /\ UNCHANGED <<step, decided>>
  /\ UNCHANGED <<currentState, session_keys_ready, timeoutActive, nfcVars>>

\* executeTransition, then the drain loop moves to the next slot.
ExecuteTransition ==
  /\ step = "execute"
  /\ currentState' = decided
  /\ timeoutActive' = FALSE
  /\ eventQueue' = Dequeue(eventQueue)
  /\ step' = "drain"
  /\ UNCHANGED <<session_keys_ready, phone_key_valid, decided, nfcVars>>

QueueDrained ==
  /\ step = "drain"
  /\ eventQueue = << >>
  /\ step' = "work"
  /\ UNCHANGED <<currentState, session_keys_ready, phone_key_valid, eventQueue,
                 timeoutActive, decided, nfcVars>>

\* A mistake: the sync only takes the flag away.
KeyFlagOnlyCleared == phone_key_valid /\ provisioned

KeyFlagFromMailbox == provisioned

\* The switch at the end of tick(): every 5 s in IDLE the key flag is read again
\* from the mailbox; a session idle for 5 min raises its expiry.
SyncKeyFlag ==
  /\ step = "work"
  /\ currentState = "IDLE"
  /\ phone_key_valid' = KeyFlagFromMailbox
  /\ step' = "check"
  /\ UNCHANGED <<currentState, session_keys_ready, eventQueue, timeoutActive,
                 decided, nfcVars>>

ExpireSession ==
  /\ step = "work"
  /\ currentState \in {"AUTH_SECURE_CHANNEL_READY", "AUTH_SESSION_READY"}
  /\ session_keys_ready
  /\ eventQueue' = Enqueue(eventQueue, "AUTH_SESSION_EXPIRED")
  /\ step' = "check"
  /\ UNCHANGED <<currentState, session_keys_ready, phone_key_valid, timeoutActive,
                 decided, nfcVars>>

NothingDue ==
  /\ step = "work"
  /\ step' = "check"
  /\ UNCHANGED <<currentState, session_keys_ready, phone_key_valid, eventQueue,
                 timeoutActive, decided, nfcVars>>

FsmTask ==
  \/ CheckTimeout \/ ProcessEvent \/ ExecuteTransition \/ QueueDrained
  \/ SyncKeyFlag \/ ExpireSession \/ NothingDue

-----------------------------------------------------------------------------
(* The other tasks.                                                          *)

TriggerEvent(e) ==
  /\ eventQueue' = Enqueue(eventQueue, e)
  /\ UNCHANGED <<currentState, session_keys_ready, phone_key_valid,
                 timeoutActive, step, decided, nfcVars>>

\* FSMIntegration::markSessionReady
MarkSessionReady ==
  /\ session_keys_ready' = TRUE
  /\ UNCHANGED <<currentState, phone_key_valid, eventQueue, timeoutActive,
                 step, decided, nfcVars>>

\* nfcTask is not in the middle of the command "C".
NfcTaskFree == resetting = "no"

\* NFC::onKeysExchanged: the key is copied into the context as it is, then the
\* event raised.
OnKeysExchanged ==
  /\ "KEYS_EXCHANGED" \in Raised
  /\ NfcTaskFree
  /\ phone_pub_key' \in BOOLEAN
  /\ phone_key_valid' = TRUE
  /\ eventQueue' = Enqueue(eventQueue, "KEYS_EXCHANGED")
  /\ UNCHANGED <<currentState, session_keys_ready, timeoutActive, step, decided,
                 resetting, provisioned>>

SetStateTimeout ==
  /\ timeoutActive' = TRUE
  /\ UNCHANGED <<currentState, session_keys_ready, phone_key_valid, eventQueue,
                 step, decided, nfcVars>>

\* NfcSession after an owner key was stored: the mailbox changes, then the event.
OnCredentialsStored ==
  /\ "CREDENTIALS_STORED" \in Raised
  /\ NfcTaskFree
  /\ provisioned' = TRUE
  /\ eventQueue' = Enqueue(eventQueue, "CREDENTIALS_STORED")
  /\ UNCHANGED <<currentState, session_keys_ready, phone_key_valid, phone_pub_key,
                 timeoutActive, step, decided, resetting>>

\* Serial command "r".
SerialClearKeys ==
  /\ "CLEAR_KEYS" \in Raised
  /\ NfcTaskFree
  /\ provisioned' = FALSE
  /\ eventQueue' = Enqueue(eventQueue, "CLEAR_KEYS")
  /\ UNCHANGED <<currentState, session_keys_ready, phone_key_valid, phone_pub_key,
                 timeoutActive, step, decided, resetting>>

(* Serial command "C": the owner data go, then FSM::reset(true) clears the   *)
(* context, empties the queue and forces IDLE, and RESET_REQUESTED is raised *)
(* after it.  Other tasks run between these steps.                           *)
SerialClearAll ==
  /\ NfcTaskFree
  /\ provisioned' = FALSE
  /\ resetting' = "begun"
  /\ UNCHANGED <<currentState, session_keys_ready, phone_key_valid, phone_pub_key,
                 eventQueue, timeoutActive, step, decided>>

ResetMayGoOn == step = "execute" => ResetMidEvent

\* StateContext::reset, which leaves phone_pub_key.
ClearContext ==
  /\ resetting = "begun" /\ ResetMayGoOn
  /\ session_keys_ready' = FALSE
  /\ phone_key_valid' = FALSE
  /\ resetting' = "cleared"
  /\ UNCHANGED <<currentState, phone_pub_key, eventQueue, timeoutActive, step, decided,
                 provisioned>>

ClearEventQueue ==
  /\ resetting = "cleared" /\ ResetMayGoOn
  /\ eventQueue' = << >>
  /\ resetting' = "emptied"
  /\ UNCHANGED <<currentState, session_keys_ready, phone_key_valid, phone_pub_key,
                 timeoutActive, step, decided, provisioned>>

ForceIdle ==
  /\ resetting = "emptied" /\ ResetMayGoOn
  /\ timeoutActive' = FALSE
  /\ currentState' = "IDLE"
  /\ resetting' = "forced"
  /\ UNCHANGED <<session_keys_ready, phone_key_valid, phone_pub_key, eventQueue, step,
                 decided, provisioned>>

RaiseReset ==
  /\ resetting = "forced"
  /\ eventQueue' = Enqueue(eventQueue, "RESET_REQUESTED")
  /\ resetting' = "no"
  /\ UNCHANGED <<currentState, session_keys_ready, phone_key_valid, phone_pub_key,
                 timeoutActive, step, decided, provisioned>>

\* The rest of the command, once it is begun.
ResetGoesOn == ClearContext \/ ClearEventQueue \/ ForceIdle \/ RaiseReset

OtherTasks ==
  \/ \E e \in Raised \cap WrapperEvents : TriggerEvent(e)
  \/ MarkSessionReady
  \/ OnKeysExchanged
  \/ SetStateTimeout
  \/ OnCredentialsStored
  \/ SerialClearKeys
  \/ SerialClearAll
  \/ ResetGoesOn

FsmNext == FsmTask \/ OtherTasks
FsmSpec == FsmInit /\ [][FsmNext]_fsmVars

(* fsmTask has the highest priority of the firmware's tasks and its core to  *)
(* itself whenever it is ready, so its loop never stops; the 5 s timer of    *)
(* the IDLE branch is due again and again while the machine stays in IDLE.   *)
FsmFairSpec == FsmSpec /\ WF_fsmVars(FsmTask) /\ SF_fsmVars(SyncKeyFlag)

-----------------------------------------------------------------------------
\* States the table only reaches through an authenticated session.
SessionStates ==
  {"AUTH_SECURE_CHANNEL_READY", "AUTH_SESSION_READY", "UNLOCKING_CHECK_PROXIMITY",
   "UNLOCKING_VERIFY_AUTH", "UNLOCKING_EXECUTE"}

\* FSM::reset(true) has taken the keys away and not yet forced IDLE.
MidReset == resetting \in {"cleared", "emptied"}

(* The machine is in a state of an open session or of an unlock in progress  *)
(* only while the context holds session keys, or for the moment between the  *)
(* two halves of reset(true): whatever order the events come in and wherever *)
(* fsmTask runs between the steps of a reset, guardSessionReady is the only  *)
(* way in, only a reset takes the keys away, and it forces IDLE after them.  *)
SessionBacked == currentState \in SessionStates => session_keys_ready \/ MidReset

(* A provisioned vehicle that settles in IDLE ends up with the key flag set, *)
(* even when the full queue dropped CREDENTIALS_STORED: the 5 s sync of      *)
(* tick() catches up with the mailbox, provided the drain loop ends now and  *)
(* then (the producers may otherwise keep it busy for ever).                 *)
KeyFlagCatchesUp ==
  (<>[](currentState = "IDLE" /\ provisioned) /\ []<>(step = "work"))
    => []<>phone_key_valid
=============================================================================
