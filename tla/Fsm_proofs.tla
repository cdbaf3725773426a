----------------------------- MODULE Fsm_proofs -----------------------------
(***************************************************************************)
(* Theorems about Fsm, for every ring size and every set of events the     *)
(* tasks may raise.                                                        *)
(***************************************************************************)
EXTENDS Fsm, TLAPS

\* No row leads out of the states.
LEMMA TargetsAreStates == Targets \subseteq States
BY DEF Targets, Edges, States, ProvisioningStates, UnlockingStates

\* Every row into a session state starts in one or is the row of AUTH_VERIFIED.
LEMMA WaysIntoSession ==
  ASSUME NEW s \in States, NEW e \in Events, NEW t \in SessionStates,
         t \in Targets, <<s, e>> \in Edges[t]
  PROVE  s \in SessionStates \/ e = "AUTH_VERIFIED"
<1>1. CASE t = "AUTH_SECURE_CHANNEL_READY"
  BY <1>1 DEF Edges, SessionStates
<1>2. CASE t = "AUTH_SESSION_READY"
  BY <1>2 DEF Edges, SessionStates
<1>3. CASE t = "UNLOCKING_CHECK_PROXIMITY"
  BY <1>3 DEF Edges, SessionStates
<1>4. CASE t = "UNLOCKING_VERIFY_AUTH"
  BY <1>4 DEF Edges, SessionStates
<1>5. CASE t = "UNLOCKING_EXECUTE"
  BY <1>5 DEF Edges, SessionStates
<1> QED BY <1>1, <1>2, <1>3, <1>4, <1>5 DEF SessionStates

\* Where processEvent goes: nowhere, along a row whose guard passes, or along one
\* of the two global transitions.
LEMMA NextStateCases ==
  ASSUME NEW e \in Events
  PROVE  \/ NextState(e) = currentState
         \/ /\ NextState(e) \in Targets
            /\ <<currentState, e>> \in Edges[NextState(e)]
            /\ GuardPasses(currentState, e)
         \/ NextState(e) \in {"ERROR_HANDLER", "IDLE"}
<1>1. CASE RowsFor(currentState, e) # {} /\ GuardPasses(currentState, e)
  <2>1. NextState(e) = CHOOSE u \in RowsFor(currentState, e) : TRUE
    BY <1>1 DEF NextState
  <2>2. NextState(e) \in RowsFor(currentState, e)
    BY <1>1, <2>1
  <2> QED BY <1>1, <2>2 DEF RowsFor, Targets
<1>2. CASE ~(RowsFor(currentState, e) # {} /\ GuardPasses(currentState, e))
  BY <1>2 DEF NextState
<1> QED BY <1>1, <1>2

\* A trigger leaves a well-formed queue.
LEMMA EnqueueType ==
  ASSUME NEW q \in Seq(Events), Len(q) =< EVENT_QUEUE_SIZE - 1, NEW e \in Events
  PROVE  Enqueue(q, e) \in Seq(Events) /\ Len(Enqueue(q, e)) =< EVENT_QUEUE_SIZE - 1
BY QueueSizeAssumption DEF Enqueue

\* So does the drain loop.
LEMMA DequeueType ==
  ASSUME NEW q \in Seq(Events), Len(q) =< EVENT_QUEUE_SIZE - 1
  PROVE  Dequeue(q) \in Seq(Events) /\ Len(Dequeue(q)) =< EVENT_QUEUE_SIZE - 1
BY QueueSizeAssumption DEF Dequeue

-----------------------------------------------------------------------------
\* A step of processEvent keeps the types.
LEMMA ProcessEventType ==
  ASSUME FsmTypeOK, ProcessEvent PROVE FsmTypeOK'
<1> DEFINE e == Head(eventQueue)
<1>1. e \in Events
  BY DEF FsmTypeOK, ProcessEvent
<1>2. NextState(e) \in States
  <2>1. "ERROR_HANDLER" \in States /\ "IDLE" \in States
    BY DEF States
  <2> QED BY <1>1, <2>1, NextStateCases, TargetsAreStates DEF FsmTypeOK
<1>3. phone_key_valid' \in BOOLEAN
  BY DEF FsmTypeOK, ProcessEvent
<1>4. CASE NextState(e) # currentState
  BY <1>2, <1>3, <1>4 DEF FsmTypeOK, ProcessEvent, nfcVars
<1>5. CASE NextState(e) = currentState
  BY <1>3, <1>5, DequeueType DEF FsmTypeOK, ProcessEvent, nfcVars
<1> QED BY <1>4, <1>5

(* The machine's variables keep their types and the queue never holds more   *)
(* events than the ring has room for, whoever raises them.                   *)
THEOREM FsmTypeCorrect == FsmSpec => []FsmTypeOK
<1>1. FsmInit => FsmTypeOK
  <2>1. << >> \in Seq(Events) /\ Len(<< >>) =< EVENT_QUEUE_SIZE - 1
    BY QueueSizeAssumption
  <2>2. "SYSTEM_READY" \in Events
    BY DEF Events
  <2> QED BY <2>1, <2>2, EnqueueType DEF FsmInit, FsmTypeOK, States
<1>2. FsmTypeOK /\ [FsmNext]_fsmVars => FsmTypeOK'
  <2> SUFFICES ASSUME FsmTypeOK, [FsmNext]_fsmVars PROVE FsmTypeOK'
    OBVIOUS
  <2> USE DEF FsmTypeOK, nfcVars
  <2>0. {"TIMEOUT", "AUTH_SESSION_EXPIRED", "KEYS_EXCHANGED", "CREDENTIALS_STORED",
         "CLEAR_KEYS", "RESET_REQUESTED"} \subseteq Events
    BY DEF Events
  <2>1. CASE CheckTimeout
    BY <2>0, <2>1, EnqueueType DEF CheckTimeout
  <2>2. CASE ProcessEvent
    BY <2>2, ProcessEventType
  <2>3. CASE ExecuteTransition
    BY <2>3, DequeueType DEF ExecuteTransition
  <2>4. CASE QueueDrained
    BY <2>4 DEF QueueDrained
  <2>5. CASE SyncKeyFlag
    BY <2>5 DEF SyncKeyFlag, KeyFlagFromMailbox
  <2>6. CASE ExpireSession
    BY <2>0, <2>6, EnqueueType DEF ExpireSession
  <2>7. CASE NothingDue
    BY <2>7 DEF NothingDue
  <2>8. CASE \E e \in Raised \cap WrapperEvents : TriggerEvent(e)
    BY <2>8, EnqueueType, RaisedAssumption DEF TriggerEvent
  <2>9. CASE MarkSessionReady
    BY <2>9 DEF MarkSessionReady
  <2>10. CASE OnKeysExchanged
    BY <2>0, <2>10, EnqueueType DEF OnKeysExchanged
  <2>11. CASE SetStateTimeout
    BY <2>11 DEF SetStateTimeout
  <2>12. CASE OnCredentialsStored
    BY <2>0, <2>12, EnqueueType DEF OnCredentialsStored
  <2>13. CASE SerialClearKeys
    BY <2>0, <2>13, EnqueueType DEF SerialClearKeys
  <2>14. CASE SerialClearAll
    BY <2>14 DEF SerialClearAll
  <2>16. CASE ResetGoesOn
    <3>1. << >> \in Seq(Events) /\ Len(<< >>) =< EVENT_QUEUE_SIZE - 1
      BY QueueSizeAssumption
    <3>2. CASE ClearContext
      BY <3>2 DEF ClearContext
    <3>3. CASE ClearEventQueue
      BY <3>1, <3>3 DEF ClearEventQueue
    <3>4. CASE ForceIdle
      BY <3>4 DEF ForceIdle, States
    <3>5. CASE RaiseReset
      BY <2>0, <3>5, EnqueueType DEF RaiseReset
    <3> QED BY <2>16, <3>2, <3>3, <3>4, <3>5 DEF ResetGoesOn
  <2>15. CASE UNCHANGED fsmVars
    BY <2>15 DEF fsmVars
  <2> QED BY <2>1, <2>2, <2>3, <2>4, <2>5, <2>6, <2>7, <2>8, <2>9, <2>10, <2>11, <2>12,
             <2>13, <2>14, <2>15, <2>16 DEF FsmNext, FsmTask, OtherTasks
<1> QED BY <1>1, <1>2, PTL DEF FsmSpec

-----------------------------------------------------------------------------
(* SessionBacked says nothing of the step between the choice of a transition *)
(* and its execution, when the machine is still in the old state.  What it   *)
(* needs is that the chosen target is backed as well; a step of a reset in   *)
(* between would take the keys away, or end the reset, and leave the choice  *)
(* standing.                                                                 *)
Backed == session_keys_ready \/ MidReset
ChoiceBacked == step = "execute" /\ decided \in SessionStates => Backed
SessionInv == SessionBacked /\ ChoiceBacked

\* processEvent chooses a session state only with the session keys in place.
LEMMA ProcessEventBacked ==
  ASSUME FsmTypeOK, SessionInv, ProcessEvent PROVE SessionInv'
<1> DEFINE e == Head(eventQueue)
<1>1. e \in Events /\ currentState \in States
  BY DEF FsmTypeOK, ProcessEvent
<1>2. UNCHANGED <<currentState, session_keys_ready, resetting>>
  BY DEF ProcessEvent, nfcVars
<1>3. SessionBacked'
  BY <1>2 DEF SessionInv, SessionBacked, MidReset
<1>4. ASSUME NextState(e) # currentState, NextState(e) \in SessionStates
      PROVE  Backed
  <2>1. NextState(e) \notin {"ERROR_HANDLER", "IDLE"}
    BY <1>4 DEF SessionStates
  <2>2. /\ NextState(e) \in Targets
        /\ <<currentState, e>> \in Edges[NextState(e)]
        /\ GuardPasses(currentState, e)
    BY <1>1, <1>4, <2>1, NextStateCases
  <2>3. currentState \in SessionStates \/ e = "AUTH_VERIFIED"
    BY <1>1, <1>4, <2>2, WaysIntoSession
  <2> QED BY <2>2, <2>3 DEF GuardPasses, SessionInv, SessionBacked, Backed
<1>5. CASE NextState(e) # currentState
  <2>1. decided' = NextState(e)
    BY <1>5 DEF ProcessEvent
  <2>2. Backed' = Backed
    BY <1>2 DEF Backed, MidReset
  <2> QED BY <1>3, <1>4, <1>5, <2>1, <2>2 DEF SessionInv, ChoiceBacked
<1>6. CASE NextState(e) = currentState
  <2>1. step' = "drain"
    BY <1>6 DEF ProcessEvent
  <2> QED BY <1>3, <2>1 DEF SessionInv, ChoiceBacked
<1> QED BY <1>5, <1>6

(* An open session or an unlock in progress is backed by session keys, or a  *)
(* reset is between taking them away and forcing IDLE, for every ring size   *)
(* and every set of raised events, as long as no step of the reset gets      *)
(* between the guard of an event and its transition.                         *)
THEOREM SessionIsBacked ==
  ASSUME ResetMidEvent = FALSE
  PROVE  FsmSpec => []SessionBacked
<1>1. FsmInit => SessionInv
  BY DEF FsmInit, SessionInv, SessionBacked, ChoiceBacked, SessionStates
<1>2. FsmTypeOK /\ SessionInv /\ [FsmNext]_fsmVars => SessionInv'
  <2> SUFFICES ASSUME FsmTypeOK, SessionInv, [FsmNext]_fsmVars PROVE SessionInv'
    OBVIOUS
  <2> USE DEF SessionInv, SessionBacked, ChoiceBacked, Backed, MidReset, nfcVars
  <2>1. CASE CheckTimeout
    BY <2>1 DEF CheckTimeout
  <2>2. CASE ProcessEvent
    BY <2>2, ProcessEventBacked
  <2>3. CASE ExecuteTransition
    BY <2>3 DEF ExecuteTransition
  <2>4. CASE QueueDrained
    BY <2>4 DEF QueueDrained
  <2>5. CASE SyncKeyFlag \/ ExpireSession \/ NothingDue
    BY <2>5 DEF SyncKeyFlag, ExpireSession, NothingDue
  <2>6. CASE \E e \in Raised \cap WrapperEvents : TriggerEvent(e)
    BY <2>6 DEF TriggerEvent
  <2>7. CASE MarkSessionReady
    BY <2>7 DEF MarkSessionReady
  <2>8. CASE OnKeysExchanged \/ SetStateTimeout
    BY <2>8 DEF OnKeysExchanged, SetStateTimeout
  <2>9. CASE OnCredentialsStored \/ SerialClearKeys
    BY <2>9 DEF OnCredentialsStored, SerialClearKeys
  <2>10. CASE SerialClearAll
    BY <2>10 DEF SerialClearAll, NfcTaskFree
  <2>11. CASE UNCHANGED fsmVars
    BY <2>11 DEF fsmVars
  <2>12. CASE ResetGoesOn
    <3>1. CASE ClearContext \/ ClearEventQueue
      BY <3>1 DEF ClearContext, ClearEventQueue
    <3>2. CASE ForceIdle
      <4>1. step # "execute"
        BY <3>2, ResetMidEvent = FALSE DEF ForceIdle, ResetMayGoOn
      <4> QED BY <3>2, <4>1 DEF ForceIdle, SessionStates
    <3>3. CASE RaiseReset
      BY <3>3 DEF RaiseReset
    <3> QED BY <2>12, <3>1, <3>2, <3>3 DEF ResetGoesOn
  <2> QED BY <2>1, <2>2, <2>3, <2>4, <2>5, <2>6, <2>7, <2>8, <2>9, <2>10, <2>11, <2>12
          DEF FsmNext, FsmTask, OtherTasks
<1>3. SessionInv => SessionBacked
  BY DEF SessionInv
<1> QED BY <1>1, <1>2, <1>3, FsmTypeCorrect, PTL DEF FsmSpec
=============================================================================
