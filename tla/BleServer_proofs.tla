-------------------------- MODULE BleServer_proofs --------------------------
(***************************************************************************)
(* Theorems about BleServer and the tunnel in it, for every number of      *)
(* links, and every fast window, with the fast path on or off.             *)
(***************************************************************************)
EXTENDS BleServer, TLAPS

\* All that the tunnel keeps, the events it raises and the signature aside.
quietVars == <<linkVars, s_authState, s_session_keys_ready, s_session_key, s_ephemeral,
               s_phone_data_received, s_phone_ephemeral, s_challenge, nonces, callback,
               notified, workerVars, phoneVars, inbox>>

-----------------------------------------------------------------------------
(* Types.                                                                    *)
LEMMA EmptyInboxType ==
  ASSUME nonces \in Nat PROVE EmptyInbox \in Inbox
BY MaxLinksAssumption DEF EmptyInbox, Inbox

LEMMA KeyTypes ==
  /\ NoKey \in Keys /\ FastKey \in Keys
  /\ \A e, p \in 0 .. MaxLinks : EcdhKey(e, p) \in Keys
  /\ \A d, i \in Pairs : Hkdf("SmartCarv1", d, i) \in Keys
  /\ <<0, 0>> \in Pairs
BY MaxLinksAssumption DEF Keys, Pairs, NoKey, FastKey, EcdhKey, Hkdf

LEMMA ArrivesType ==
  ASSUME inbox \in Inbox
  PROVE  /\ \A v \in 0 .. MaxLinks : Arrives("auth0", v) \in Inbox /\ Arrives("auth1", v) \in Inbox
         /\ Arrives("ack", 1) \in Inbox /\ Arrives("control", 1) \in Inbox
BY DEF Arrives, Inbox

LEMMA SameInbox ==
  ASSUME nonces' = nonces PROVE Inbox' = Inbox
BY DEF Inbox

LEMMA ChallengeArrives ==
  ASSUME nonces \in Nat, inbox \in Inbox, NewChallenge
  PROVE  Arrives("challenge", s_challenge') \in Inbox' /\ Arrives("ack", 1) \in Inbox'
BY DEF Arrives, Inbox, NewChallenge

\* The session data and the number of challenges.
SessionTypeOK ==
  /\ s_authState \in AuthStates
  /\ s_session_keys_ready \in BOOLEAN /\ s_session_key \in Keys
  /\ s_ephemeral \in 0 .. MaxLinks
  /\ s_phone_data_received \in BOOLEAN /\ s_phone_ephemeral \in 0 .. MaxLinks
  /\ nonces \in Nat /\ s_challenge \in 0 .. nonces /\ s_sig \in 0 .. nonces
\* Everything else of the tunnel, the events aside.
ActorTypeOK ==
  /\ adverse \in Environments
  /\ links \subseteq Links /\ link \in 0 .. MaxLinks
  /\ ownerStored \in BOOLEAN /\ fastArtifact \in BOOLEAN
  /\ callback \in {"idle", "delay"} /\ notified \in BOOLEAN
  /\ worker \in WorkerSteps /\ derived \in Pairs
  /\ phone \in {"away", "linked", "auth1", "challenge", "exchange", "control", "done"}
  /\ isOwner \in BOOLEAN /\ tryFastPath \in BOOLEAN /\ phoneKey \in Keys
  /\ inbox \in Inbox

LEMMA TypeParts ==
  AuthTypeOK <=> SessionTypeOK /\ ActorTypeOK /\ raised \in Seq(Calls)
BY DEF AuthTypeOK, SessionTypeOK, ActorTypeOK

LEMMA AuthInitType ==
  ASSUME AuthInit PROVE AuthTypeOK
<1>1. SessionTypeOK
  <2>1. nonces \in Nat /\ 0 \in 0 .. nonces /\ 0 \in 0 .. MaxLinks
    BY MaxLinksAssumption DEF AuthInit
  <2>2. s_session_key \in Keys
    BY KeyTypes DEF AuthInit
  <2>3. s_authState \in AuthStates
    BY DEF AuthInit, AuthStates
  <2> QED BY <2>1, <2>2, <2>3 DEF AuthInit, SessionTypeOK
<1>2. ActorTypeOK
  <2>1. links \subseteq Links /\ link \in 0 .. MaxLinks
    BY MaxLinksAssumption DEF AuthInit
  <2>2. worker \in WorkerSteps
    BY DEF AuthInit, WorkerSteps
  <2>3. derived \in Pairs /\ phoneKey \in Keys
    BY KeyTypes DEF AuthInit
  <2>4. inbox \in Inbox
    <3>1. nonces \in Nat
      BY DEF AuthInit
    <3> QED BY <3>1, EmptyInboxType DEF AuthInit
  <2> QED BY <2>1, <2>2, <2>3, <2>4 DEF AuthInit, ActorTypeOK
<1>3. raised \in Seq(Calls)
  BY DEF AuthInit
<1> QED BY <1>1, <1>2, <1>3, TypeParts

LEMMA RaisedType ==
  ASSUME AuthNext PROVE raised' \in Seq(Calls)
<1> USE DEF Raise
<1>0. /\ << >> \in Seq(Calls) /\ <<"BLE_AUTH1_SENT">> \in Seq(Calls)
      /\ <<"BLE_EXCHANGE_RECEIVED">> \in Seq(Calls)
      /\ <<"BLE_EXCHANGE_RECEIVED", "BLE_EXCHANGE_RESP_SENT">> \in Seq(Calls)
      /\ <<"BLE_CONTROL_FLOW_RECEIVED">> \in Seq(Calls)
      /\ <<"BLE_CONTROL_FLOW_RECEIVED", "UNLOCK_REQUESTED", "BLE_CONTROL_FLOW_RESP_SENT">>
           \in Seq(Calls)
  BY DEF Calls
<1>1. CASE WorkerTask
  <2>1. CASE WorkerWakes
    BY <2>1 DEF WorkerWakes, Calls
  <2>2. CASE Sign
    <3>1. \/ raised' = <<"BLE_AUTH1_SENT">>
          \/ raised' = << >>
      BY <2>2 DEF Sign
    <3> QED BY <1>0, <3>1
  <2>3. CASE Signed
    BY <2>3 DEF Signed, Calls
  <2>4. CASE VerifyPhone
    BY <2>4 DEF VerifyPhone, Calls
  <2>5. CASE PhoneVerified
    BY <2>5 DEF PhoneVerified, Calls
  <2>6. CASE PhoneRejected
    BY <2>6 DEF PhoneRejected, Calls
  <2>7. CASE Derive
    BY <2>7 DEF Derive, Calls
  <2>8. CASE ExpandKeys \/ KeysReady
    <3>1. raised' = << >>
      BY <2>8 DEF ExpandKeys, KeysReady
    <3> QED BY <1>0, <3>1
  <2>9. CASE Publish
    BY <2>9 DEF Publish, Calls
  <2>10. CASE Published
    BY <2>10 DEF Published, Calls
  <2>11. CASE CheckResponse
    BY <2>11 DEF CheckResponse, Calls
  <2>12. CASE Granted
    BY <2>12 DEF Granted, Calls
  <2>13. CASE MarkVerified
    BY <2>13 DEF MarkVerified, Calls, ReadyMark
  <2>14. CASE TellVerified
    BY <2>14 DEF TellVerified, Calls
  <2>15. CASE Acknowledge
    BY <2>15 DEF Acknowledge, Calls
  <2>16. CASE Denied
    BY <2>16 DEF Denied, Calls
  <2> QED BY <1>1, <2>1, <2>2, <2>3, <2>4, <2>5, <2>6, <2>7, <2>8, <2>9, <2>10, <2>11, <2>12, <2>13, <2>14, <2>15, <2>16 DEF WorkerTask
<1>2. CASE Phone
  <2>1. CASE Auth0FastRefused
    BY <2>1 DEF Auth0FastRefused, Calls
  <2>2. CASE Auth0Fast
    BY <2>2 DEF Auth0Fast, Calls
  <2>3. CASE Auth0Standard
    BY <2>3 DEF Auth0Standard, Calls
  <2>4. CASE Auth1
    BY <2>4 DEF Auth1, Calls
  <2>5. CASE ExchangeSignature
    <3>1. \/ raised' = <<"BLE_EXCHANGE_RECEIVED">>
          \/ raised' = <<"BLE_EXCHANGE_RECEIVED", "BLE_EXCHANGE_RESP_SENT">>
      BY <2>5 DEF ExchangeSignature
    <3> QED BY <1>0, <3>1
  <2>6. CASE PhoneAccepted
    BY <2>6 DEF PhoneAccepted, Calls
  <2>7. CASE ControlFlow
    <3>1. \/ raised' = <<"BLE_CONTROL_FLOW_RECEIVED">>
          \/ raised' = <<"BLE_CONTROL_FLOW_RECEIVED", "UNLOCK_REQUESTED", "BLE_CONTROL_FLOW_RESP_SENT">>
      BY <2>7 DEF ControlFlow
    <3> QED BY <1>0, <3>1
  <2> QED BY <1>2, <2>1, <2>2, <2>3, <2>4, <2>5, <2>6, <2>7 DEF Phone
<1>3. CASE \/ Auth0StandardRefused \/ Auth0HandsOver \/ OnConnect
           \/ (\E l \in Links : OnDisconnect(l)) \/ ResetSession \/ ClearOwner
  <2>1. CASE Auth0StandardRefused
    BY <2>1 DEF Auth0StandardRefused, Calls
  <2>2. CASE Auth0HandsOver
    BY <2>2 DEF Auth0HandsOver, Calls
  <2>3. CASE OnConnect
    BY <2>3 DEF OnConnect, Calls
  <2>4. CASE \E l \in Links : OnDisconnect(l)
    BY <2>4 DEF OnDisconnect, Calls, LinkEnded
  <2>5. CASE ResetSession
    BY <2>5 DEF ResetSession, Calls
  <2>6. CASE ClearOwner
    BY <2>6 DEF ClearOwner, Calls
  <2> QED BY <1>3, <2>1, <2>2, <2>3, <2>4, <2>5, <2>6
<1> QED BY <1>1, <1>2, <1>3 DEF AuthNext

LEMMA ResetType ==
  ASSUME AuthTypeOK, ResetAuthState, nonces' = nonces PROVE SessionTypeOK'
<1>1. nonces \in Nat /\ 0 \in 0 .. nonces /\ 0 \in 0 .. MaxLinks
  BY MaxLinksAssumption DEF AuthTypeOK
<1>2. s_session_key' \in Keys
  BY KeyTypes DEF ResetAuthState
<1>3. s_authState' \in AuthStates
  BY DEF ResetAuthState, AuthStates
<1> QED BY <1>1, <1>2, <1>3 DEF ResetAuthState, SessionTypeOK

LEMMA SetStateType ==
  ASSUME AuthTypeOK, NEW s \in AuthStates, SetAuthState(s), nonces' = nonces
  PROVE  SessionTypeOK'
BY DEF AuthTypeOK, SetAuthState, SessionTypeOK

\* The worker.
LEMMA WorkerType ==
  ASSUME AuthTypeOK, WorkerTask PROVE SessionTypeOK' /\ ActorTypeOK'
<1> USE DEF WorkerKeeps, WorkerGoes, Raise, linkVars, phoneVars
<1>0. SessionTypeOK /\ ActorTypeOK
  BY TypeParts
<1>1. /\ UNCHANGED <<adverse, links, link, ownerStored, fastArtifact, callback, phone, isOwner,
                     tryFastPath, phoneKey>>
      /\ notified' \in BOOLEAN
  BY <1>0 DEF WorkerTask, WorkerWakes, Sign, Signed, VerifyPhone, PhoneVerified,
     PhoneRejected, Derive, ExpandKeys, KeysReady, Publish, Published, CheckResponse, Granted,
     MarkVerified, TellVerified, Acknowledge, Denied, ActorTypeOK
<1>2. worker' \in WorkerSteps
  <2> USE DEF WorkerSteps
  <2>1. CASE WorkerWakes
    BY <2>1 DEF WorkerWakes
  <2>2. CASE Sign \/ Signed \/ VerifyPhone \/ PhoneVerified \/ PhoneRejected \/ Derive
               \/ ExpandKeys \/ KeysReady
    BY <2>2 DEF Sign, Signed, VerifyPhone, PhoneVerified, PhoneRejected, Derive, ExpandKeys, KeysReady
  <2>3. CASE Publish \/ Published \/ CheckResponse \/ Granted \/ MarkVerified
               \/ TellVerified \/ Acknowledge \/ Denied
    BY <2>3 DEF Publish, Published, CheckResponse, Granted, MarkVerified, TellVerified,
       Acknowledge, Denied
  <2> QED BY <2>1, <2>2, <2>3 DEF WorkerTask
<1>3. derived' \in Pairs
  BY <1>0, KeyTypes DEF Pairs, WorkerTask, WorkerWakes, Sign, Signed, VerifyPhone, PhoneVerified,
     PhoneRejected, Derive, ExpandKeys, KeysReady, Publish, Published, CheckResponse, Granted,
     MarkVerified, TellVerified, Acknowledge, Denied, SessionTypeOK, ActorTypeOK
<1>4. inbox' \in Inbox'
  <2>1. CASE Sign
    <3>1. s_ephemeral \in 0 .. MaxLinks /\ inbox \in Inbox
      BY <1>0 DEF SessionTypeOK, ActorTypeOK
    <3>2. inbox' \in {inbox, Arrives("auth1", s_ephemeral)} /\ nonces' = nonces
      BY <2>1 DEF Sign, Send
    <3> QED BY <3>1, <3>2, ArrivesType, SameInbox
  <2>2. CASE Publish
    <3>1. NewChallenge /\ inbox' \in {Arrives("challenge", s_challenge'), Arrives("ack", 1)}
      BY <2>2 DEF Publish
    <3> QED BY <1>0, <3>1, ChallengeArrives DEF SessionTypeOK, ActorTypeOK
  <2>3. CASE Acknowledge
    <3>1. inbox' = Arrives("ack", 1) /\ nonces' = nonces
      BY <2>3 DEF Acknowledge, Send
    <3> QED BY <1>0, <3>1, ArrivesType, SameInbox DEF ActorTypeOK
  <2>4. CASE UNCHANGED <<inbox, nonces>>
    BY <1>0, <2>4, SameInbox DEF ActorTypeOK
  <2> QED BY <2>1, <2>2, <2>3, <2>4 DEF WorkerTask, WorkerWakes, Signed, VerifyPhone,
         PhoneVerified, PhoneRejected, Derive, ExpandKeys, KeysReady, Published, CheckResponse, Granted,
         MarkVerified, TellVerified, Denied
<1>5. ActorTypeOK'
  BY <1>0, <1>1, <1>2, <1>3, <1>4 DEF ActorTypeOK
<1>6. SessionTypeOK'
  <2>1. CASE ExpandKeys
    <3>1. <<s_ephemeral, s_phone_ephemeral>> \in Pairs /\ derived \in Pairs
      BY <1>0 DEF Pairs, SessionTypeOK, ActorTypeOK
    <3>2. s_session_key' \in Keys
      BY <2>1, <3>1, KeyTypes DEF ExpandKeys
    <3> QED BY <1>0, <2>1, <3>2 DEF ExpandKeys, SessionTypeOK
  <2>7. CASE KeysReady
    BY <1>0, <2>7 DEF KeysReady, SessionTypeOK
  <2>2. CASE Publish
    BY <1>0, <2>2 DEF Publish, NewChallenge, SessionTypeOK
  <2>3. CASE UNCHANGED <<sessionVars, nonces>>
    BY <1>0, <2>3 DEF SessionTypeOK, sessionVars
  <2>4. CASE nonces' = nonces /\ \E s \in AuthStates : SetAuthState(s)
    BY <2>4, SetStateType
  <2>5. {"AUTH_FAILED", "AUTH_WAITING_FOR_PHONE", "AUTH_COMPUTING_SHARED_SECRET",
         "AUTH_CHALLENGE_READY", "AUTH_SESSION_READY"} \subseteq AuthStates
    BY DEF AuthStates
  <2>6. \/ ExpandKeys \/ KeysReady \/ Publish \/ UNCHANGED <<sessionVars, nonces>>
        \/ nonces' = nonces /\ \E s \in AuthStates : SetAuthState(s)
    BY <2>5 DEF WorkerTask, WorkerWakes, Sign, Signed, VerifyPhone, PhoneVerified,
       PhoneRejected, Derive, Published, CheckResponse, Granted, MarkVerified,
       TellVerified, Acknowledge, Denied
  <2> QED BY <2>1, <2>2, <2>3, <2>4, <2>6, <2>7
<1> QED BY <1>5, <1>6

\* The phone's commands.
LEMMA PhoneType ==
  ASSUME AuthTypeOK, Phone PROVE SessionTypeOK' /\ ActorTypeOK'
<1>0. SessionTypeOK /\ ActorTypeOK
  BY TypeParts
<1>00. link \in 0 .. MaxLinks /\ 0 \in 0 .. MaxLinks
  BY <1>0, MaxLinksAssumption DEF ActorTypeOK
<1> USE DEF linkVars, workerVars
<1>1. CASE Auth0FastRefused \/ PhoneAccepted
  BY <1>0, <1>1, SameInbox DEF Auth0FastRefused, PhoneAccepted, sessionVars, SessionTypeOK, ActorTypeOK
<1>2. CASE Auth0Fast
  <2>1. /\ s_challenge' = nonces + 1 /\ nonces' = nonces + 1
        /\ inbox' = Arrives("challenge", s_challenge')
        /\ s_session_keys_ready' = TRUE /\ s_session_key' = FastKey
        /\ s_authState' = "AUTH_CHALLENGE_READY" /\ phone' = "challenge"
        /\ UNCHANGED <<linkVars, s_ephemeral, s_phone_data_received, s_phone_ephemeral,
                       s_sig, callback, notified, workerVars, isOwner, tryFastPath, phoneKey>>
    BY <1>2 DEF Auth0Fast, NewChallenge, Send
  <2>2. SessionTypeOK'
    <3>1. s_authState' \in AuthStates
      BY <2>1 DEF AuthStates
    <3> QED BY <1>0, <2>1, <3>1, KeyTypes DEF SessionTypeOK
  <2>3. inbox' \in Inbox'
    <3>1. NewChallenge
      BY <2>1 DEF NewChallenge
    <3> QED BY <1>0, <2>1, <3>1, ChallengeArrives DEF SessionTypeOK, ActorTypeOK
  <2> QED BY <1>0, <2>1, <2>2, <2>3 DEF ActorTypeOK
<1>3. CASE Auth0Standard
  <2>1. inbox' \in Inbox'
    <3>1. inbox' = Arrives("auth0", link) /\ nonces' = nonces
      BY <1>3 DEF Auth0Standard, EphemeralKeyPair, Send
    <3> QED BY <1>0, <1>00, <3>1, ArrivesType, SameInbox DEF ActorTypeOK
  <2> QED BY <1>0, <1>3, <2>1 DEF Auth0Standard, EphemeralKeyPair, SessionTypeOK, ActorTypeOK
<1>4. CASE Auth1
  <2>1. phoneKey' \in Keys
    <3>1. phoneKey' = EcdhKey(inbox.auth1, link) \/ phoneKey' = EcdhKey(inbox.auth0, link)
      BY <1>4 DEF Auth1
    <3>2. inbox.auth0 \in 0 .. MaxLinks /\ inbox.auth1 \in 0 .. MaxLinks
      BY <1>0 DEF ActorTypeOK, Inbox
    <3> QED BY <1>00, <3>1, <3>2, KeyTypes
  <2>2. s_authState' \in AuthStates
    BY <1>4 DEF Auth1, AuthStates
  <2> QED BY <1>0, <1>00, <1>4, <2>1, <2>2, SameInbox DEF Auth1, NotifyWorker, SessionTypeOK, ActorTypeOK
<1>5. CASE ExchangeSignature
  <2>1. inbox' \in Inbox'
    <3>0. nonces' = nonces
      BY <1>5 DEF ExchangeSignature
    <3>1. inbox' = inbox \/ inbox' = Arrives("ack", 1)
      BY <1>5 DEF ExchangeSignature, Send
    <3> QED BY <1>0, <3>0, <3>1, ArrivesType, SameInbox DEF ActorTypeOK
  <2>2. s_authState' \in AuthStates
    <3>1. s_authState' = "AUTH_VERIFYING_RESPONSE" \/ s_authState' = s_authState
      BY <1>5 DEF ExchangeSignature
    <3> QED BY <1>0, <3>1 DEF SessionTypeOK, AuthStates
  <2>3. s_sig' \in 0 .. nonces
    <3>1. s_sig' = s_sig \/ s_sig' = 0 \/ s_sig' = inbox.challenge
      BY <1>5 DEF ExchangeSignature
    <3>2. 0 \in 0 .. nonces /\ inbox.challenge \in 0 .. nonces
      BY <1>0 DEF SessionTypeOK, ActorTypeOK, Inbox
    <3> QED BY <1>0, <3>1, <3>2 DEF SessionTypeOK
  <2> QED BY <1>0, <1>5, <2>1, <2>2, <2>3 DEF ExchangeSignature, NotifyWorker,
         SessionTypeOK, ActorTypeOK
<1>6. CASE ControlFlow
  <2>1. inbox' \in Inbox'
    <3>0. nonces' = nonces
      BY <1>6 DEF ControlFlow
    <3>1. inbox' = inbox \/ inbox' = Arrives("control", 1)
      BY <1>6 DEF ControlFlow, Send
    <3> QED BY <1>0, <3>0, <3>1, ArrivesType, SameInbox DEF ActorTypeOK
  <2> QED BY <1>0, <1>6, <2>1 DEF ControlFlow, sessionVars, SessionTypeOK, ActorTypeOK
<1> QED BY <1>1, <1>2, <1>3, <1>4, <1>5, <1>6 DEF Phone


\* Links and the operator.
LEMMA HostType ==
  ASSUME AuthTypeOK,
         \/ Auth0StandardRefused \/ Auth0HandsOver \/ OnConnect
         \/ (\E l \in Links : OnDisconnect(l)) \/ ResetSession \/ ClearOwner
  PROVE  SessionTypeOK' /\ ActorTypeOK'
<1>0. SessionTypeOK /\ ActorTypeOK
  BY TypeParts
<1>00. link \in 0 .. MaxLinks /\ 0 \in 0 .. MaxLinks /\ MaxLinks \in Nat
       /\ nonces \in Nat /\ inbox \in Inbox
  BY <1>0, MaxLinksAssumption DEF ActorTypeOK, SessionTypeOK
<1> USE DEF linkVars, workerVars, phoneVars
<1>1. CASE Auth0StandardRefused
  BY <1>0, <1>1, SameInbox DEF Auth0StandardRefused, sessionVars, SessionTypeOK, ActorTypeOK
<1>2. CASE Auth0HandsOver
  <2>1. s_authState' \in AuthStates
    BY <1>2 DEF Auth0HandsOver, AuthStates
  <2> QED BY <1>0, <1>2, <2>1, SameInbox DEF Auth0HandsOver, NotifyWorker, SessionTypeOK,
         ActorTypeOK
<1>3. CASE OnConnect
  <2>1. /\ nonces' = nonces /\ inbox' = EmptyInbox
        /\ s_session_keys_ready' = FALSE /\ s_session_key' = NoKey /\ s_ephemeral' = 0
        /\ s_phone_data_received' = FALSE /\ s_phone_ephemeral' = 0
        /\ s_challenge' = 0 /\ s_sig' = 0
        /\ link < MaxLinks /\ link' = link + 1 /\ links' = links \cup {link'}
        /\ phone' = "linked" /\ isOwner' \in BOOLEAN /\ tryFastPath' \in BOOLEAN
        /\ phoneKey' = NoKey
        /\ UNCHANGED <<adverse, ownerStored, fastArtifact, callback, notified, workerVars>>
    BY <1>3 DEF OnConnect
  <2>2. s_authState' \in AuthStates
    <3>1. s_authState' = "AUTH_IDLE" \/ s_authState' = "AUTH_FAILED"
      BY <1>3 DEF OnConnect
    <3> QED BY <3>1 DEF AuthStates
  <2>3. SessionTypeOK'
    <3>1. NoKey \in Keys /\ 0 \in 0 .. nonces
      BY <1>00, KeyTypes
    <3> QED BY <1>00, <2>1, <2>2, <3>1 DEF SessionTypeOK
  <2>4. link' \in 0 .. MaxLinks /\ links' \subseteq Links
    BY <1>0, <1>00, <2>1 DEF ActorTypeOK, Links
  <2>5. inbox' \in Inbox'
    BY <1>00, <2>1, EmptyInboxType, SameInbox
  <2>6. ActorTypeOK'
    BY <1>0, <2>1, <2>4, <2>5, KeyTypes DEF ActorTypeOK
  <2> QED BY <2>3, <2>6
<1>4. ASSUME NEW l \in Links, OnDisconnect(l) PROVE SessionTypeOK' /\ ActorTypeOK'
  <2>1. /\ ResetAuthState /\ nonces' = nonces /\ links' \subseteq links
        /\ UNCHANGED <<adverse, link, ownerStored, fastArtifact, callback, notified, workerVars>>
    BY <1>4 DEF OnDisconnect
  <2>2. \/ UNCHANGED <<phoneVars, inbox>>
        \/ /\ phone' = "away" /\ isOwner' = FALSE /\ tryFastPath' = FALSE
           /\ phoneKey' = NoKey /\ inbox' = EmptyInbox
    BY <1>4 DEF OnDisconnect
  <2>3. SessionTypeOK'
    BY <2>1, ResetType
  <2>4. inbox' \in Inbox'
    BY <1>00, <2>1, <2>2, EmptyInboxType, SameInbox
  <2>5. ActorTypeOK'
    BY <1>0, <2>1, <2>2, <2>4, KeyTypes DEF ActorTypeOK
  <2> QED BY <2>3, <2>5
<1>5. CASE ResetSession
  <2>1. ResetAuthState /\ nonces' = nonces
        /\ UNCHANGED <<linkVars, callback, notified, workerVars, phoneVars, inbox>>
    BY <1>5 DEF ResetSession
  <2>2. SessionTypeOK'
    BY <2>1, ResetType
  <2> QED BY <1>0, <2>1, <2>2, SameInbox DEF ActorTypeOK
<1>6. CASE ClearOwner
  BY <1>0, <1>6, SameInbox DEF ClearOwner, sessionVars, SessionTypeOK, ActorTypeOK
<1> QED BY <1>1, <1>2, <1>3, <1>4, <1>5, <1>6

LEMMA AuthStepType ==
  ASSUME AuthTypeOK, AuthNext PROVE AuthTypeOK'
<1>1. raised' \in Seq(Calls)
  BY RaisedType
<1>2. SessionTypeOK' /\ ActorTypeOK'
  BY WorkerType, PhoneType, HostType DEF AuthNext
<1> QED BY <1>1, <1>2, TypeParts DEF AuthTypeOK, SessionTypeOK, ActorTypeOK, Inbox

-----------------------------------------------------------------------------
(* The server's steps, as steps of the tunnel.                               *)
LEMMA TunnelSteps ==
  ASSUME AuthTypeOK, ServerNext
  PROVE  \/ AuthNext
         \/ RefreshClock /\ UNCHANGED quietVars
         \/ UNCHANGED <<quietVars, s_sig>> /\ raised' \in {raised, << >>}
<1>1. CASE ServerWorker
  BY <1>1 DEF ServerWorker, Alone, OtherWork, VerifiedWithTime, AuthNext, WorkerTask
<1>2. CASE ServerPhone
  BY <1>2 DEF ServerPhone, Alone, OtherCommands, ExchangeWithTime, AuthNext, Phone
<1>3. CASE Alone(Auth0HandsOver) \/ Alone(Auth0StandardRefused) \/ Alone(ClearOwner)
  BY <1>3 DEF Alone, AuthNext
<1>4. CASE ResetSession
  BY <1>4 DEF AuthNext
<1>5. CASE Connect
  BY <1>5 DEF Connect, AuthNext
<1>6. CASE Disconnect
  <2>1. PICK l \in links : OnDisconnect(l)
    BY <1>6 DEF Disconnect
  <2>2. l \in Links
    BY DEF AuthTypeOK
  <2> QED BY <2>1, <2>2 DEF AuthNext
<1>7. CASE RefreshClock \/ AttestWrite
  BY <1>7 DEF RefreshClock, AttestWrite, Raise, quietVars, sessionVars
<1>8. CASE LoopTask \/ WindowRunsDown
  BY <1>8 DEF LoopTask, WindowElapsed, ChooseProfile, ApplyProfile, WindowRunsDown, authVars,
     quietVars, sessionVars
<1> QED BY <1>1, <1>2, <1>3, <1>4, <1>5, <1>6, <1>7, <1>8 DEF ServerNext


AdvTypeOK ==
  /\ advertising \in BOOLEAN /\ profile \in {"Fast", "Slow"}
  /\ fastWindow \in 0 .. FAST_WINDOW /\ openFor \in Nat
  /\ loopTask \in {"idle", "policy", "Fast", "Slow"}
TimeTypeOK ==
  /\ s_exchange_epoch \in Owners \cup {"none", "outOfRange"}
  /\ rtc \in Owners \cup {"unset", "refreshed"}
  /\ attested \in {"none", "ERR_TIME", "ERR_SLOT", "ERR_SLOT_LOCKED"}

LEMMA ServerParts == ServerTypeOK <=> AuthTypeOK /\ AdvTypeOK /\ TimeTypeOK
BY DEF ServerTypeOK, AdvTypeOK, TimeTypeOK

LEMMA AdvStepType ==
  ASSUME AdvTypeOK, ServerNext PROVE AdvTypeOK'
<1> USE FastWindowAssumption DEF AdvTypeOK, advVars
<1>1. CASE LoopTask
  BY <1>1 DEF LoopTask, WindowElapsed, ChooseProfile, ApplyProfile
<1>2. CASE WindowRunsDown
  BY <1>2 DEF WindowRunsDown, FastWindowActive
<1>3. CASE Connect
  BY <1>3 DEF Connect
<1>4. CASE Disconnect
  BY <1>4 DEF Disconnect, AfterDisconnect, RestartAdvertising, OpenFastWindow
<1>5. CASE UNCHANGED advVars
  BY <1>5
<1> QED BY <1>1, <1>2, <1>3, <1>4, <1>5 DEF ServerNext, ServerWorker, ServerPhone, Alone,
      VerifiedWithTime, ExchangeWithTime, RefreshClock, AttestWrite

LEMMA TimeStepType ==
  ASSUME TimeTypeOK, isOwner \in BOOLEAN, ServerNext PROVE TimeTypeOK'
<1> USE DEF TimeTypeOK, Owners
<1>1. CASE ExchangeWithTime
  BY <1>1 DEF ExchangeWithTime, PhoneTimes
<1>2. CASE VerifiedWithTime
  BY <1>2 DEF VerifiedWithTime, SetClock
<1>3. CASE RefreshClock
  BY <1>3 DEF RefreshClock
<1>4. CASE AttestWrite
  <2>1. attested' \in {"ERR_TIME", "ERR_SLOT", "ERR_SLOT_LOCKED"}
        /\ UNCHANGED <<s_exchange_epoch, rtc>>
    BY <1>4 DEF AttestWrite, Verdict
  <2> QED BY <2>1
<1>5. CASE Connect \/ Disconnect \/ (ResetSession /\ EpochForgotten)
  BY <1>5 DEF Connect, Disconnect, EpochForgotten
<1>6. CASE UNCHANGED timeVars
  BY <1>6 DEF timeVars
<1> QED BY <1>1, <1>2, <1>3, <1>4, <1>5, <1>6 DEF ServerNext, ServerWorker, ServerPhone,
      Alone, LoopTask, WindowElapsed, ChooseProfile, ApplyProfile, WindowRunsDown

LEMMA ServerInitType ==
  ASSUME ServerInit PROVE ServerTypeOK
<1>1. AuthTypeOK
  BY AuthInitType DEF ServerInit
<1>2. AdvTypeOK
  BY FastWindowAssumption DEF ServerInit, AdvTypeOK
<1>3. TimeTypeOK
  BY DEF ServerInit, TimeTypeOK, Owners
<1> QED BY <1>1, <1>2, <1>3, ServerParts

LEMMA QuietType ==
  ASSUME AuthTypeOK, UNCHANGED quietVars, raised' \in Seq(Calls), s_sig' \in 0 .. nonces
  PROVE  AuthTypeOK'
<1>1. UNCHANGED <<adverse, links, link, ownerStored, fastArtifact, s_authState,
                  s_session_keys_ready, s_session_key, s_ephemeral, s_phone_data_received,
                  s_phone_ephemeral, s_challenge, nonces, callback, notified, worker, derived,
                  phone, isOwner, tryFastPath, phoneKey, inbox>>
  BY DEF quietVars, linkVars, workerVars, phoneVars
<1>2. Inbox' = Inbox
  BY <1>1, SameInbox
<1> QED BY <1>1, <1>2 DEF AuthTypeOK

LEMMA ServerStepType ==
  ASSUME ServerTypeOK, [ServerNext]_serverVars PROVE ServerTypeOK'
<1>0. AuthTypeOK /\ AdvTypeOK /\ TimeTypeOK /\ isOwner \in BOOLEAN
  BY ServerParts DEF AuthTypeOK
<1>1. CASE ServerNext
  <2>1. AuthTypeOK'
    <3>1. CASE AuthNext
      BY <1>0, <3>1, AuthStepType
    <3>2. CASE RefreshClock /\ UNCHANGED quietVars
      <4>1. raised' \in Seq(Calls)
        BY <3>2 DEF RefreshClock, Raise, Calls
      <4>2. s_sig' \in 0 .. nonces
        <5>1. 0 \in 0 .. nonces /\ inbox.challenge \in 0 .. nonces
          BY <1>0 DEF AuthTypeOK, Inbox
        <5> QED BY <3>2, <5>1 DEF RefreshClock
      <4> QED BY <1>0, <3>2, <4>1, <4>2, QuietType
    <3>3. CASE UNCHANGED <<quietVars, s_sig>> /\ raised' \in {raised, << >>}
      <4>1. raised' \in Seq(Calls)
        <5>1. << >> \in Seq(Calls)
          OBVIOUS
        <5> QED BY <1>0, <3>3, <5>1 DEF AuthTypeOK
      <4>2. s_sig' \in 0 .. nonces
        BY <1>0, <3>3 DEF AuthTypeOK
      <4> QED BY <1>0, <3>3, <4>1, <4>2, QuietType
    <3> QED BY <1>0, <1>1, <3>1, <3>2, <3>3, TunnelSteps
  <2>2. AdvTypeOK' /\ TimeTypeOK'
    BY <1>0, <1>1, AdvStepType, TimeStepType
  <2> QED BY <2>1, <2>2 DEF ServerTypeOK, AuthTypeOK, AdvTypeOK, TimeTypeOK
<1>2. CASE UNCHANGED serverVars
  <2>1. UNCHANGED <<adverse, links, link, ownerStored, fastArtifact, s_authState,
                    s_session_keys_ready, s_session_key, s_ephemeral,
                    s_phone_data_received, s_phone_ephemeral, s_challenge, s_sig, nonces,
                    callback, notified, worker, derived, phone, isOwner, tryFastPath,
                    phoneKey, inbox, raised>>
    BY <1>2 DEF serverVars, authVars, linkVars, sessionVars, workerVars, phoneVars
  <2>2. UNCHANGED <<advertising, profile, fastWindow, openFor, loopTask, s_exchange_epoch,
                    rtc, attested>>
    BY <1>2 DEF serverVars, advVars, timeVars
  <2>3. AuthTypeOK'
    BY <1>0, <2>1, SameInbox DEF AuthTypeOK
  <2>4. AdvTypeOK' /\ TimeTypeOK'
    BY <1>0, <2>2 DEF AdvTypeOK, TimeTypeOK
  <2> QED BY <2>3, <2>4 DEF ServerTypeOK, AdvTypeOK, TimeTypeOK
<1> QED BY <1>1, <1>2

(* Every variable of the server and of the tunnel keeps its type: the keys   *)
(* are ones the vehicle can derive, and the inbox of the phone holds no      *)
(* challenge that was never issued.                                          *)
THEOREM ServerTypeCorrect == ServerSpec => []ServerTypeOK
BY ServerInitType, ServerStepType, PTL DEF ServerSpec


-----------------------------------------------------------------------------
(* Whose keys.  From here on links come up one at a time, and none ends and  *)
(* no session is reset while the worker works.                               *)
Orderly == adverse \cap {"overlap", "dropMidWork"} = {}

OneLink ==
  /\ phone = "away" <=> links = {}
  /\ phone # "away" => links = {link}

NotYet == phone \in {"away", "linked"} => WorkerIdle /\ HostFree

KeyInv ==
  /\ s_ephemeral \in {0, link} /\ s_phone_ephemeral \in {0, link}
  /\ worker = "expand" =>
       isOwner /\ derived = <<link, link>> /\ s_ephemeral = link /\ s_phone_ephemeral = link
  /\ worker = "ready" => s_session_key = EcdhKey(link, link)
  /\ s_session_keys_ready /\ s_session_key # FastKey => s_session_key = EcdhKey(link, link)

(* What the phone of a stranger never gets the vehicle to do.                *)
OwnersSteps == {"verified", "derive", "expand", "ready", "publish", "published", "granted",
                "mark", "tell", "acknowledge"}

Refused ==
  /\ s_phone_ephemeral = 0 /\ s_sig = 0 /\ inbox.ack = 0
  /\ phone \notin {"control", "done"} /\ worker \notin OwnersSteps
  /\ s_session_keys_ready =>
       /\ FastTransaction
       /\ phone \in {"challenge", "exchange"}
       /\ phone = "challenge" =>
            WorkerIdle /\ HostFree /\ s_authState = "AUTH_CHALLENGE_READY"

StrangerInv == ~isOwner => Refused

LEMMA OneEnvironment ==
  ASSUME AuthNext PROVE adverse' = adverse
BY DEF AuthNext, WorkerTask, WorkerWakes, Sign, Signed, VerifyPhone, PhoneVerified,
   PhoneRejected, Derive, ExpandKeys, KeysReady, Publish, Published, CheckResponse, Granted,
   MarkVerified, TellVerified, Acknowledge, Denied, WorkerKeeps, Phone, Auth0FastRefused,
   Auth0Fast, Auth0Standard, Auth1, ExchangeSignature, PhoneAccepted, ControlFlow,
   Auth0StandardRefused, Auth0HandsOver, OnConnect, OnDisconnect, ResetSession, ClearOwner,
   linkVars

LEMMA OneLinkStep ==
  ASSUME AuthTypeOK, OneLink, Orderly, AuthNext PROVE OneLink'
<1> USE DEF OneLink
<1>1. CASE WorkerTask
  <2>1. UNCHANGED <<links, link, phone>>
    BY <1>1 DEF WorkerTask, WorkerWakes, Sign, Signed, VerifyPhone, PhoneVerified,
       PhoneRejected, Derive, ExpandKeys, KeysReady, Publish, Published, CheckResponse,
       Granted, MarkVerified, TellVerified, Acknowledge, Denied, WorkerKeeps, phoneVars,
       linkVars
  <2> QED BY <2>1
<1>2. CASE Phone
  <2>1. UNCHANGED <<links, link>> /\ phone # "away" /\ phone' # "away"
    BY <1>2 DEF Phone, Auth0FastRefused, Auth0Fast, Auth0Standard, Auth1, ExchangeSignature,
       PhoneAccepted, ControlFlow, linkVars
  <2> QED BY <2>1
<1>3. CASE Auth0HandsOver \/ Auth0StandardRefused \/ ClearOwner \/ ResetSession
  <2>1. UNCHANGED <<links, link, phone>>
    BY <1>3 DEF Auth0HandsOver, Auth0StandardRefused, ClearOwner, ResetSession, phoneVars,
       linkVars
  <2> QED BY <2>1
<1>4. CASE OnConnect
  <2>1. links = {} /\ links' = links \cup {link'} /\ phone' = "linked"
    BY <1>4 DEF OnConnect, Orderly
  <2> QED BY <2>1
<1>5. ASSUME NEW l \in Links, OnDisconnect(l) PROVE OneLink'
  <2>1. l = link /\ links' = {} /\ phone' = "away"
    BY <1>5 DEF OnDisconnect
  <2> QED BY <2>1
<1> QED BY <1>1, <1>2, <1>3, <1>4, <1>5 DEF AuthNext

LEMMA NotYetStep ==
  ASSUME AuthTypeOK, OneLink, NotYet, Orderly, AuthNext
  PROVE  NotYet'
<1> USE DEF NotYet, WorkerIdle, HostFree
<1>1. CASE WorkerTask
  <2>1. phone' = phone /\ (worker # "wait" \/ notified)
    BY <1>1 DEF WorkerTask, WorkerWakes, Sign, Signed, VerifyPhone, PhoneVerified,
       PhoneRejected, Derive, ExpandKeys, KeysReady, Publish, Published, CheckResponse,
       Granted, MarkVerified, TellVerified, Acknowledge, Denied, WorkerKeeps, phoneVars
  <2> QED BY <2>1
<1>2. CASE Phone
  <2>1. phone' \notin {"away", "linked"} \/ UNCHANGED <<phone, worker, notified, callback>>
    BY <1>2 DEF Phone, Auth0FastRefused, Auth0Fast, Auth0Standard, Auth1, ExchangeSignature,
       PhoneAccepted, ControlFlow, workerVars
  <2> QED BY <2>1
<1>3. CASE Auth0HandsOver
  BY <1>3 DEF Auth0HandsOver, phoneVars
<1>4. CASE Auth0StandardRefused \/ ClearOwner
  BY <1>4 DEF Auth0StandardRefused, ClearOwner, workerVars, phoneVars
<1>5. CASE OnConnect
  <2>1. phone = "away"
    BY <1>5 DEF OnConnect, OneLink, Orderly
  <2> QED BY <1>5, <2>1 DEF OnConnect, workerVars
<1>6. CASE (\E l \in Links : OnDisconnect(l)) \/ ResetSession
  BY <1>6 DEF OnDisconnect, ResetSession, Undisturbed, Orderly, workerVars
<1> QED BY <1>1, <1>2, <1>3, <1>4, <1>5, <1>6 DEF AuthNext

LEMMA KeyStep ==
  ASSUME AuthTypeOK, OneLink, NotYet, StrangerInv, KeyInv, Orderly, AuthNext
  PROVE  KeyInv'
<1> USE DEF KeyInv
<1>1. CASE WorkerTask
  <2> USE DEF WorkerKeeps, WorkerGoes, Raise, linkVars, sessionVars, phoneVars, SetAuthState
  <2>1. CASE WorkerWakes
    <3>1. worker' \notin {"expand", "ready"}
      BY <2>1 DEF WorkerWakes
    <3> QED BY <2>1, <3>1 DEF WorkerWakes
  <2>2. CASE Sign \/ Signed \/ VerifyPhone
    BY <2>2 DEF Sign, Signed, VerifyPhone
  <2>3. CASE PhoneVerified \/ PhoneRejected
    BY <2>3 DEF PhoneVerified, PhoneRejected
  <2>4. CASE Derive
    <3>1. isOwner
      BY <2>4 DEF Derive, StrangerInv, Refused, OwnersSteps
    <3> QED BY <2>4, <3>1 DEF Derive
  <2>5. CASE ExpandKeys
    BY <2>5 DEF ExpandKeys, EcdhKey
  <2>6. CASE KeysReady
    BY <2>6 DEF KeysReady
  <2>7. CASE Publish \/ Published
    BY <2>7 DEF Publish, Published
  <2>8. CASE CheckResponse \/ Granted \/ Denied
    BY <2>8 DEF CheckResponse, Granted, Denied
  <2>9. CASE MarkVerified \/ TellVerified \/ Acknowledge
    BY <2>9 DEF MarkVerified, TellVerified, Acknowledge
  <2> QED BY <1>1, <2>1, <2>2, <2>3, <2>4, <2>5, <2>6, <2>7, <2>8, <2>9 DEF WorkerTask
<1>2. CASE Phone
  <2> USE DEF linkVars, sessionVars, workerVars
  <2>1. CASE Auth0FastRefused \/ PhoneAccepted \/ ControlFlow
    BY <2>1 DEF Auth0FastRefused, PhoneAccepted, ControlFlow
  <2>2. CASE Auth0Fast
    <3>1. worker = "wait"
      BY <2>2 DEF Auth0Fast, NotYet, WorkerIdle
    <3> QED BY <2>2, <3>1 DEF Auth0Fast
  <2>3. CASE Auth0Standard
    BY <2>3 DEF Auth0Standard, EphemeralKeyPair
  <2>4. CASE Auth1
    BY <2>4 DEF Auth1
  <2>5. CASE ExchangeSignature
    BY <2>5 DEF ExchangeSignature
  <2> QED BY <1>2, <2>1, <2>2, <2>3, <2>4, <2>5 DEF Phone
<1>3. CASE Auth0StandardRefused \/ Auth0HandsOver \/ ClearOwner
  BY <1>3 DEF Auth0StandardRefused, Auth0HandsOver, ClearOwner, linkVars, sessionVars,
     workerVars, phoneVars
<1>4. CASE OnConnect
  <2>1. worker = "wait"
    BY <1>4 DEF OnConnect, OneLink, NotYet, WorkerIdle, Orderly
  <2> QED BY <1>4, <2>1 DEF OnConnect, workerVars
<1>5. CASE (\E l \in Links : OnDisconnect(l)) \/ ResetSession
  BY <1>5 DEF OnDisconnect, ResetSession, ResetAuthState, Undisturbed, WorkerIdle, Orderly,
     linkVars, workerVars
<1> QED BY <1>1, <1>2, <1>3, <1>4, <1>5 DEF AuthNext

LEMMA StrangerStep ==
  ASSUME AuthTypeOK, OneLink, NotYet, StrangerInv, Orderly, AuthNext
  PROVE  StrangerInv'
<1>0. FastTransaction' = FastTransaction
  BY OneEnvironment DEF FastTransaction
<1>1. (~isOwner => Refused) /\ NotYet /\ inbox \in Inbox
  BY DEF StrangerInv, AuthTypeOK
<1>2. SUFFICES ASSUME ~isOwner' PROVE Refused'
  BY DEF StrangerInv
<1> USE <1>0 DEF Refused, OwnersSteps
<1>3. CASE WorkerTask
  <2> USE DEF WorkerKeeps, WorkerGoes, Raise, linkVars, sessionVars, phoneVars, SetAuthState
  <2>0. isOwner' = isOwner /\ phone' = phone /\ (worker # "wait" \/ notified)
    BY <1>3 DEF WorkerTask, WorkerWakes, Sign, Signed, VerifyPhone, PhoneVerified,
       PhoneRejected, Derive, ExpandKeys, KeysReady, Publish, Published, CheckResponse, Granted,
       MarkVerified, TellVerified, Acknowledge, Denied
  <2>00. /\ s_phone_ephemeral = 0 /\ s_sig = 0 /\ inbox.ack = 0
         /\ phone \notin {"control", "done"} /\ worker \notin OwnersSteps
         /\ s_session_keys_ready => FastTransaction /\ phone = "exchange"
    BY <1>1, <1>2, <2>0 DEF WorkerIdle
  <2>1. CASE WorkerWakes
    <3>1. worker' \in {"sign", "verify", "check", "wait"}
      BY <2>1 DEF WorkerWakes
    <3> QED BY <2>0, <2>00, <2>1, <3>1 DEF WorkerWakes
  <2>2. CASE Sign
    <3>1. inbox' \in {inbox, Arrives("auth1", s_ephemeral)} /\ worker' \in {"signed", "wait"}
          /\ UNCHANGED <<s_session_keys_ready, s_phone_ephemeral, s_sig>>
      BY <2>2 DEF Sign, Send
    <3>2. inbox'.ack = inbox.ack
      BY <1>1, <3>1 DEF Arrives, Inbox
    <3> QED BY <2>0, <2>00, <3>1, <3>2
  <2>3. CASE Signed \/ VerifyPhone \/ PhoneRejected
    BY <2>0, <2>00, <2>3 DEF Signed, VerifyPhone, PhoneRejected
  <2>4. CASE CheckResponse \/ Denied
    BY <2>0, <2>00, <2>4 DEF CheckResponse, Denied, SignatureHolds, VerifySignatureP256
  <2>5. CASE \/ PhoneVerified \/ Derive \/ ExpandKeys \/ KeysReady \/ Publish \/ Published \/ Granted
             \/ MarkVerified \/ TellVerified \/ Acknowledge
    BY <2>00, <2>5 DEF PhoneVerified, Derive, ExpandKeys, KeysReady, Publish, Published, Granted,
       MarkVerified, TellVerified, Acknowledge
  <2> QED BY <1>3, <2>1, <2>2, <2>3, <2>4, <2>5 DEF WorkerTask
<1>4. CASE Phone
  <2> USE DEF linkVars, sessionVars, workerVars
  <2>0. ~isOwner /\ Refused /\ worker' = worker
    BY <1>1, <1>2, <1>4 DEF Phone, Auth0FastRefused, Auth0Fast, Auth0Standard, Auth1,
       ExchangeSignature, PhoneAccepted, ControlFlow
  <2>1. CASE Auth0FastRefused
    BY <2>0, <2>1 DEF Auth0FastRefused
  <2>2. CASE Auth0Fast
    <3>1. WorkerIdle /\ HostFree
      BY <1>1, <2>2 DEF Auth0Fast, NotYet
    <3>2. inbox'.ack = inbox.ack
      BY <1>1, <2>2 DEF Auth0Fast, Send, Arrives, Inbox
    <3> QED BY <2>0, <2>2, <3>1, <3>2 DEF Auth0Fast, WorkerIdle, HostFree
  <2>3. CASE Auth0Standard
    <3>1. inbox'.ack = inbox.ack
      BY <1>1, <2>3 DEF Auth0Standard, Send, Arrives, Inbox
    <3> QED BY <2>0, <2>3, <3>1 DEF Auth0Standard
  <2>4. CASE Auth1
    BY <2>0, <2>4 DEF Auth1
  <2>5. CASE ExchangeSignature
    <3>1. inbox' = inbox
      BY <2>0, <2>5 DEF ExchangeSignature
    <3>2. s_sig' = 0
      BY <2>0, <2>5 DEF ExchangeSignature
    <3> QED BY <2>0, <2>5, <3>1, <3>2 DEF ExchangeSignature
  <2>6. CASE PhoneAccepted \/ ControlFlow
    BY <2>0, <2>6 DEF PhoneAccepted, ControlFlow
  <2> QED BY <1>4, <2>1, <2>2, <2>3, <2>4, <2>5, <2>6 DEF Phone
<1>5. CASE Auth0StandardRefused \/ ClearOwner
  BY <1>1, <1>2, <1>5 DEF Auth0StandardRefused, ClearOwner, linkVars, sessionVars, workerVars,
     phoneVars, WorkerIdle, HostFree
<1>6. CASE Auth0HandsOver
  BY <1>1, <1>2, <1>6 DEF Auth0HandsOver, workerVars, phoneVars, HostFree
<1>7. CASE OnConnect
  <2>1. worker = "wait"
    BY <1>7 DEF OnConnect, OneLink, NotYet, WorkerIdle, Orderly
  <2> QED BY <1>7, <2>1 DEF OnConnect, workerVars, EmptyInbox
<1>8. ASSUME NEW l \in Links, OnDisconnect(l) PROVE Refused'
  <2>1. /\ worker' = "wait" /\ s_session_keys_ready' = FALSE
        /\ s_phone_ephemeral' = 0 /\ s_sig' = 0
    BY <1>8 DEF OnDisconnect, ResetAuthState, Undisturbed, WorkerIdle, Orderly, workerVars
  <2>2. \/ phone' = "away" /\ inbox' = EmptyInbox
        \/ UNCHANGED <<phone, isOwner, inbox>>
    BY <1>8 DEF OnDisconnect, phoneVars
  <2>3. inbox'.ack = 0 /\ phone' \notin {"control", "done"}
    BY <1>1, <1>2, <2>2 DEF EmptyInbox
  <2> QED BY <2>1, <2>3
<1>9. CASE ResetSession
  BY <1>1, <1>2, <1>9 DEF ResetSession, ResetAuthState, phoneVars, workerVars
<1> QED BY <1>3, <1>4, <1>5, <1>6, <1>7, <1>8, <1>9 DEF AuthNext

-----------------------------------------------------------------------------
(* The vehicle's clock.                                                      *)
TimeInv ==
  /\ s_exchange_epoch = "owner" => isOwner
  /\ s_exchange_epoch = "stranger" => ~isOwner
  /\ rtc \in {"unset", "owner"} \cup (IF FastTransaction THEN {"refreshed"} ELSE {})
  /\ attested \in {"ERR_SLOT", "ERR_SLOT_LOCKED"} => rtc # "unset"

LEMMA ServerEnvironment ==
  ASSUME ServerTypeOK, ServerNext PROVE adverse' = adverse
<1>1. AuthTypeOK
  BY ServerParts
<1> QED BY <1>1, TunnelSteps, OneEnvironment DEF quietVars, linkVars

LEMMA TimeStep ==
  ASSUME ServerTypeOK, OneLink, StrangerInv, TimeInv, ServerNext
  PROVE  TimeInv'
<1>0. FastTransaction' = FastTransaction
  BY ServerEnvironment DEF FastTransaction
<1> USE <1>0 DEF TimeInv
<1>1. CASE ExchangeWithTime
  <2>1. isOwner' = isOwner
    BY <1>1 DEF ExchangeWithTime, ExchangeSignature
  <2> QED BY <1>1, <2>1 DEF ExchangeWithTime, PhoneTimes
<1>2. CASE VerifiedWithTime
  <2>1. worker = "mark" /\ isOwner' = isOwner
    BY <1>2 DEF VerifiedWithTime, MarkVerified, WorkerKeeps, phoneVars
  <2>2. isOwner
    BY <2>1 DEF StrangerInv, Refused, OwnersSteps
  <2> QED BY <1>2, <2>1, <2>2 DEF VerifiedWithTime, SetClock, Owners
<1>3. CASE RefreshClock
  <2>1. /\ links = {link} /\ s_session_keys_ready
        /\ UNCHANGED <<isOwner, attested>>
    BY <1>3 DEF RefreshClock, RefreshAllowed, OneLink, phoneVars
  <2>2. PICK who \in Refreshers, time \in {"inRange", "outOfRange", "none"} :
          /\ rtc' = IF time # "inRange" THEN rtc
                    ELSE IF who = "owner" THEN "owner" ELSE "refreshed"
          /\ s_exchange_epoch' = IF time = "none" THEN s_exchange_epoch ELSE "none"
    BY <1>3 DEF RefreshClock
  <2>3. who = "owner" \/ FastTransaction
    BY <2>1, <2>2 DEF Refreshers, Owners, StrangerInv, Refused
  <2> QED BY <2>1, <2>2, <2>3
<1>4. CASE AttestWrite
  <2>1. UNCHANGED <<s_exchange_epoch, rtc, isOwner>>
    BY <1>4 DEF AttestWrite, phoneVars
  <2>2. attested' # "ERR_TIME" => rtc # "unset"
    <3>1. PICK dated \in BOOLEAN, slot \in {0, 1} : attested' = Verdict(dated, slot)
      BY <1>4 DEF AttestWrite
    <3>2. CASE rtc = "unset"
      <4>1. attested' = "ERR_TIME"
        BY <3>1, <3>2 DEF Verdict, EpochNow
      <4> QED BY <4>1
    <3> QED BY <3>2
  <2> QED BY <2>1, <2>2
<1>5. CASE Connect \/ Disconnect \/ (ResetSession /\ EpochForgotten)
  BY <1>5 DEF Connect, Disconnect, EpochForgotten
<1>6. CASE UNCHANGED timeVars /\ isOwner' = isOwner
  BY <1>6 DEF timeVars
<1>7. \/ ExchangeWithTime \/ VerifiedWithTime \/ RefreshClock \/ AttestWrite
      \/ Connect \/ Disconnect \/ (ResetSession /\ EpochForgotten)
      \/ UNCHANGED timeVars /\ isOwner' = isOwner
  <2>1. CASE Alone(OtherWork)
    BY <2>1 DEF Alone, OtherWork, WorkerWakes, Sign, Signed, VerifyPhone, PhoneVerified,
       PhoneRejected, Derive, ExpandKeys, KeysReady, Publish, Published, CheckResponse, Granted,
       TellVerified, Acknowledge, Denied, WorkerKeeps, phoneVars
  <2>2. CASE Alone(OtherCommands)
    BY <2>2 DEF Alone, OtherCommands, Auth0FastRefused, Auth0Fast, Auth0Standard, Auth1,
       PhoneAccepted, ControlFlow
  <2>3. CASE Alone(Auth0HandsOver) \/ Alone(Auth0StandardRefused) \/ Alone(ClearOwner)
    BY <2>3 DEF Alone, Auth0HandsOver, Auth0StandardRefused, ClearOwner, phoneVars
  <2>4. CASE LoopTask \/ WindowRunsDown
    BY <2>4 DEF LoopTask, WindowElapsed, ChooseProfile, ApplyProfile, WindowRunsDown,
       authVars, phoneVars
  <2> QED BY <2>1, <2>2, <2>3, <2>4 DEF ServerNext, ServerWorker, ServerPhone
<1> QED BY <1>1, <1>2, <1>3, <1>4, <1>5, <1>6, <1>7

-----------------------------------------------------------------------------
(* Advertising.                                                              *)
WindowInv == Discoverable /\ fastWindow + openFor = FAST_WINDOW

LEMMA WindowStep ==
  ASSUME ServerTypeOK, WindowInv, ServerNext
  PROVE  WindowInv'
<1>0. fastWindow \in Nat /\ openFor \in Nat /\ FAST_WINDOW \in Nat
  BY FastWindowAssumption DEF ServerTypeOK
<1> USE DEF WindowInv, Discoverable
<1>1. CASE LoopTask
  BY <1>0, <1>1 DEF LoopTask, WindowElapsed, ChooseProfile, ApplyProfile, authVars, linkVars
<1>2. CASE WindowRunsDown
  BY <1>0, <1>2 DEF WindowRunsDown, FastWindowActive, authVars, linkVars
<1>3. CASE Connect
  <2>1. links' # {}
    BY <1>3 DEF Connect, OnConnect
  <2> QED BY <1>3, <2>1 DEF Connect
<1>4. CASE Disconnect
  BY <1>0, <1>4 DEF Disconnect, AfterDisconnect, RestartAdvertising, OpenFastWindow,
     FastWindowActive
<1>5. CASE UNCHANGED advVars /\ links' = links
  BY <1>5 DEF advVars
<1>6. LoopTask \/ WindowRunsDown \/ Connect \/ Disconnect \/ (UNCHANGED advVars /\ links' = links)
  <2>1. CASE Alone(OtherWork)
    BY <2>1 DEF Alone, OtherWork, WorkerWakes, Sign, Signed, VerifyPhone, PhoneVerified,
       PhoneRejected, Derive, ExpandKeys, KeysReady, Publish, Published, CheckResponse, Granted,
       TellVerified, Acknowledge, Denied, WorkerKeeps, linkVars
  <2>2. CASE Alone(OtherCommands)
    BY <2>2 DEF Alone, OtherCommands, Auth0FastRefused, Auth0Fast, Auth0Standard, Auth1,
       PhoneAccepted, ControlFlow, linkVars
  <2>3. CASE Alone(Auth0HandsOver) \/ Alone(Auth0StandardRefused) \/ Alone(ClearOwner)
    BY <2>3 DEF Alone, Auth0HandsOver, Auth0StandardRefused, ClearOwner, linkVars
  <2>4. CASE VerifiedWithTime \/ ExchangeWithTime
    BY <2>4 DEF VerifiedWithTime, MarkVerified, WorkerKeeps, ExchangeWithTime,
       ExchangeSignature, linkVars
  <2>5. CASE RefreshClock \/ AttestWrite \/ (ResetSession /\ UNCHANGED advVars)
    BY <2>5 DEF RefreshClock, AttestWrite, ResetSession, linkVars
  <2> QED BY <2>1, <2>2, <2>3, <2>4, <2>5 DEF ServerNext, ServerWorker, ServerPhone
<1> QED BY <1>1, <1>2, <1>3, <1>4, <1>5, <1>6

LEMMA WindowStutter ==
  ASSUME WindowInv, UNCHANGED serverVars
  PROVE  WindowInv'
BY DEF WindowInv, Discoverable, serverVars, authVars, linkVars, advVars

LEMMA WindowInitially ==
  ASSUME ServerInit
  PROVE  WindowInv
BY FastWindowAssumption DEF ServerInit, WindowInv, Discoverable

LEMMA WindowIsBounded ==
  ASSUME ServerTypeOK, WindowInv
  PROVE  WindowBounded
BY FastWindowAssumption DEF ServerTypeOK, WindowInv, WindowBounded

(* Without a link the vehicle advertises, for every number of links that     *)
(* overlap and wherever the loop task stands in changing the profile.        *)
THEOREM VehicleDiscoverable == ServerSpec => []Discoverable
<1>1. ServerInit => ServerTypeOK /\ WindowInv
  BY ServerInitType, WindowInitially
<1>2. ServerTypeOK /\ WindowInv /\ [ServerNext]_serverVars => (ServerTypeOK /\ WindowInv)'
  BY ServerStepType, WindowStep, WindowStutter
<1>3. WindowInv => Discoverable
  BY DEF WindowInv
<1> QED BY <1>1, <1>2, <1>3, PTL DEF ServerSpec

(* However many links come and go while it is open, the fast window is over  *)
(* FAST_WINDOW steps after it was opened, for every FAST_WINDOW.             *)
THEOREM FastWindowEnds == ServerSpec => []WindowBounded
<1>1. ServerInit => ServerTypeOK /\ WindowInv
  BY ServerInitType, WindowInitially
<1>2. ServerTypeOK /\ WindowInv /\ [ServerNext]_serverVars => (ServerTypeOK /\ WindowInv)'
  BY ServerStepType, WindowStep, WindowStutter
<1>3. ServerTypeOK /\ WindowInv => WindowBounded
  BY WindowIsBounded
<1> QED BY <1>1, <1>2, <1>3, PTL DEF ServerSpec

-----------------------------------------------------------------------------
(* The session invariants, under the steps of the server.                    *)
SessionInv == Orderly => OneLink /\ NotYet /\ KeyInv /\ StrangerInv /\ TimeInv

LEMMA SessionInitially ==
  ASSUME ServerInit
  PROVE  SessionInv
<1>1. KeyInv /\ OneLink
  BY DEF ServerInit, AuthInit, KeyInv, OneLink
<1>2. NotYet /\ StrangerInv
  BY DEF ServerInit, AuthInit, StrangerInv, NotYet, WorkerIdle, HostFree, Refused, OwnersSteps,
     EmptyInbox
<1>3. TimeInv
  BY DEF ServerInit, TimeInv
<1> QED BY <1>1, <1>2, <1>3 DEF SessionInv

LEMMA SessionQuiet ==
  ASSUME OneLink, NotYet, KeyInv, StrangerInv, UNCHANGED quietVars,
         s_sig' = s_sig \/ (~isOwner => s_sig' = 0)
  PROVE  OneLink' /\ NotYet' /\ KeyInv' /\ StrangerInv'
<1>1. UNCHANGED <<adverse, links, link, s_authState, s_session_keys_ready, s_session_key,
                  s_ephemeral, s_phone_ephemeral, callback, notified, worker, derived, phone,
                  isOwner, inbox>>
  BY DEF quietVars, linkVars, workerVars, phoneVars
<1>2. KeyInv'
  BY <1>1 DEF KeyInv
<1>3. OneLink' /\ NotYet'
  BY <1>1 DEF OneLink, NotYet, WorkerIdle, HostFree
<1>4. StrangerInv'
  BY <1>1 DEF StrangerInv, WorkerIdle, HostFree, Refused, FastTransaction
<1> QED BY <1>2, <1>3, <1>4

LEMMA SessionStep ==
  ASSUME ServerTypeOK, SessionInv, [ServerNext]_serverVars
  PROVE  SessionInv'
<1>1. AuthTypeOK
  BY ServerParts
<1>2. adverse' = adverse
  BY ServerEnvironment DEF serverVars, authVars, linkVars
<1>3. SUFFICES ASSUME Orderly
               PROVE  OneLink' /\ NotYet' /\ KeyInv' /\ StrangerInv' /\ TimeInv'
  BY <1>2 DEF SessionInv, Orderly
<1>4. OneLink /\ NotYet /\ KeyInv /\ StrangerInv /\ TimeInv
  BY <1>3 DEF SessionInv
<1>5. CASE ServerNext
  <2>1. CASE AuthNext
    BY <1>1, <1>3, <1>4, <2>1, OneLinkStep, NotYetStep, KeyStep, StrangerStep, <1>5, TimeStep
  <2>2. CASE RefreshClock /\ UNCHANGED quietVars
    <3>1. ~isOwner => s_sig' = 0
      BY <1>4, <2>2 DEF RefreshClock, Refreshers, Owners, OneLink
    <3> QED BY <1>4, <1>5, <2>2, <3>1, SessionQuiet, TimeStep
  <2>3. CASE UNCHANGED <<quietVars, s_sig>>
    BY <1>4, <1>5, <2>3, SessionQuiet, TimeStep
  <2> QED BY <1>1, <1>5, <2>1, <2>2, <2>3, TunnelSteps
<1>6. CASE UNCHANGED serverVars
  <2>1. UNCHANGED quietVars /\ UNCHANGED timeVars /\ s_sig' = s_sig
    BY <1>6 DEF serverVars, authVars, quietVars, sessionVars
  <2>2. isOwner' = isOwner
    BY <2>1 DEF quietVars, phoneVars
  <2>3. TimeInv'
    BY <1>2, <1>4, <2>1, <2>2 DEF TimeInv, timeVars, FastTransaction
  <2> QED BY <1>4, <2>1, <2>3, SessionQuiet
<1> QED BY <1>5, <1>6

(* For every number of links that come one after the other, with prompt      *)
(* phones and resets between the worker's turns, the session keys in place   *)
(* were derived from the ephemeral keys of the newest link.                  *)
THEOREM KeysAreOfThisLink == ServerSpec => []KeysOfThisLink
<1>1. ServerInit => ServerTypeOK /\ SessionInv
  BY ServerInitType, SessionInitially
<1>2. ServerTypeOK /\ SessionInv /\ [ServerNext]_serverVars => (ServerTypeOK /\ SessionInv)'
  BY ServerStepType, SessionStep
<1>3. SessionInv => KeysOfThisLink
  BY DEF SessionInv, KeyInv, KeysOfThisLink, Orderly
<1> QED BY <1>1, <1>2, <1>3, PTL DEF ServerSpec

(* An attestation whose dates were accepted was compared with a clock that   *)
(* an owner's phone had set or, where the fast path is on, the refresh of a  *)
(* phone that held session keys; for every number of links and phones that   *)
(* come one after the other.                                                 *)
THEOREM VerdictIsTrusted == ServerSpec => []TrustedVerdict
<1>1. ServerInit => ServerTypeOK /\ SessionInv
  BY ServerInitType, SessionInitially
<1>2. ServerTypeOK /\ SessionInv /\ [ServerNext]_serverVars => (ServerTypeOK /\ SessionInv)'
  BY ServerStepType, SessionStep
<1>3. SessionInv => TrustedVerdict
  BY DEF SessionInv, TimeInv, TrustedVerdict, Orderly
<1> QED BY <1>1, <1>2, <1>3, PTL DEF ServerSpec

-----------------------------------------------------------------------------
(* Agreement.  With one link at a time, phones that wait for the worker to   *)
(* finish its step, and links that do not end meanwhile, at most one side    *)
(* has the turn.                                                             *)
Calm == adverse \subseteq Benign

\* The worker is busy, or about to be, only in the stages that wait for it.
Turn ==
  /\ worker # "wait" => ~notified
  /\ callback = "delay" => phone = "auth1" /\ WorkerIdle
  /\ ~WorkerIdle => phone \in {"auth1", "challenge", "exchange"}

LinkInv ==
  /\ phone = "away" <=> links = {}
  /\ phone # "away" => links = {link}
  /\ phone = "linked" => inbox = EmptyInbox /\ phoneKey = NoKey

Auth1Inv ==
  phone = "auth1" =>
    /\ s_ephemeral = link /\ inbox.auth0 = link /\ inbox.auth1 \in {0, link}
    /\ inbox.challenge = 0 /\ inbox.ack = 0
    /\ worker \in {"wait", "sign", "signed"}
    /\ callback = "delay" \/ notified \/ worker = "sign" => inbox.auth1 = 0
    /\ notified => s_authState = "AUTH_EPHEMERAL_READY"

KeysAgree == phoneKey # NoKey => s_session_key = phoneKey

ChallengeInv ==
  phone = "challenge" =>
    /\ inbox.ack = 0
    /\ phoneKey \in {NoKey, EcdhKey(link, link)}
    /\ notified => s_authState = "AUTH_VERIFYING_PHONE"
    /\ worker \in {"wait", "verify", "verified", "rejected", "derive", "expand", "ready", "publish",
                   "published"}
    /\ notified \/ worker \notin {"wait", "published"} => inbox.challenge = 0
    /\ inbox.challenge # 0 => s_session_keys_ready /\ KeysAgree
    /\ inbox.challenge # 0 /\ worker = "wait" => s_authState = "AUTH_CHALLENGE_READY"
    /\ worker = "publish" => s_session_keys_ready /\ s_session_key = EcdhKey(link, link)

ExchangeInv ==
  phone = "exchange" =>
    /\ s_session_keys_ready /\ KeysAgree
    /\ notified => s_authState = "AUTH_VERIFYING_RESPONSE"
    /\ worker \in {"wait", "check", "granted", "denied", "mark", "tell", "acknowledge"}
    /\ worker \in {"mark", "tell", "acknowledge"} => s_authState = "AUTH_SESSION_READY"
    /\ inbox.ack # 0 => WorkerIdle /\ s_authState = "AUTH_SESSION_READY"

ControlInv ==
  phone = "control" =>
    s_authState = "AUTH_SESSION_READY" /\ s_session_keys_ready /\ KeysAgree

StageInv == Auth1Inv /\ ChallengeInv /\ ExchangeInv /\ ControlInv
AgreeInv == Calm => Turn /\ LinkInv /\ StageInv

\* What a frame that arrives changes.
LEMMA FrameArrives ==
  ASSUME inbox \in Inbox, link \in links
  PROVE  /\ \A v : inbox.auth0 = 0 => Arrives("auth0", v) = [inbox EXCEPT !.auth0 = v]
         /\ \A v : inbox.auth1 = 0 => Arrives("auth1", v) = [inbox EXCEPT !.auth1 = v]
         /\ \A v : inbox.challenge = 0 => Arrives("challenge", v) = [inbox EXCEPT !.challenge = v]
         /\ \A v : inbox.ack = 0 => Arrives("ack", v) = [inbox EXCEPT !.ack = v]
BY DEF Arrives, Inbox

\* The worker's steps, by the stage that waits for them.
LEMMA AgreeSigning ==
  ASSUME AuthTypeOK, Turn, LinkInv, StageInv, phone = "auth1", WorkerTask
  PROVE  Turn' /\ LinkInv' /\ StageInv'
<1>0. /\ inbox \in Inbox /\ link \in links
      /\ s_ephemeral = link /\ inbox.auth0 = link /\ inbox.auth1 \in {0, link}
      /\ inbox.challenge = 0 /\ inbox.ack = 0
      /\ worker \in {"wait", "sign", "signed"}
      /\ callback = "delay" \/ notified \/ worker = "sign" => inbox.auth1 = 0
      /\ notified => s_authState = "AUTH_EPHEMERAL_READY"
  BY DEF AuthTypeOK, LinkInv, StageInv, Auth1Inv
<1>1. WorkerWakes \/ Sign \/ Signed
  BY <1>0 DEF WorkerTask, WorkerWakes, VerifyPhone, PhoneVerified, PhoneRejected, Derive,
     ExpandKeys, KeysReady, Publish, Published, CheckResponse, Granted, MarkVerified, TellVerified,
     Acknowledge, Denied
<1>2. UNCHANGED <<adverse, links, link, ownerStored, fastArtifact, callback, phone, isOwner, tryFastPath,
                  phoneKey, s_ephemeral>>
  BY <1>1 DEF WorkerWakes, Sign, Signed, WorkerKeeps, linkVars, phoneVars, sessionVars,
     SetAuthState
<1>3. callback # "delay" /\ notified' = FALSE
  BY <1>0, <1>1 DEF WorkerWakes, Sign, Signed, Turn, WorkerIdle
<1>4. /\ inbox'.auth0 = link /\ inbox'.auth1 \in {0, link}
      /\ inbox'.challenge = 0 /\ inbox'.ack = 0
      /\ worker' \in {"wait", "sign", "signed"}
      /\ worker' = "sign" => inbox'.auth1 = 0
  <2>1. CASE WorkerWakes
    BY <1>0, <2>1 DEF WorkerWakes, WorkerGoes
  <2>2. CASE Sign
    <3>1. inbox' \in {inbox, [inbox EXCEPT !.auth1 = link]} /\ worker' \in {"wait", "signed"}
      BY <1>0, <2>2, FrameArrives DEF Sign, Send, WorkerGoes
    <3> QED BY <1>0, <3>1 DEF Inbox
  <2>3. CASE Signed
    BY <1>0, <2>3 DEF Signed, WorkerGoes
  <2> QED BY <1>1, <2>1, <2>2, <2>3
<1>5. Auth1Inv'
  BY <1>0, <1>2, <1>3, <1>4 DEF Auth1Inv
<1>6. Turn'
  BY <1>2, <1>3 DEF Turn, WorkerIdle
<1>7. LinkInv'
  BY <1>2 DEF LinkInv
<1>8. ChallengeInv' /\ ExchangeInv' /\ ControlInv'
  BY <1>2 DEF ChallengeInv, ExchangeInv, ControlInv
<1> QED BY <1>5, <1>6, <1>7, <1>8 DEF StageInv

LEMMA AgreeDeriving ==
  ASSUME AuthTypeOK, KeyInv, Turn, LinkInv, StageInv, phone = "challenge", WorkerTask
  PROVE  Turn' /\ LinkInv' /\ StageInv'
<1>0. /\ inbox \in Inbox /\ link \in links /\ nonces \in Nat
      /\ inbox.ack = 0 /\ inbox.challenge \in Nat
      /\ phoneKey \in {NoKey, EcdhKey(link, link)}
      /\ notified => s_authState = "AUTH_VERIFYING_PHONE"
      /\ worker \in {"wait", "verify", "verified", "rejected", "derive", "expand", "ready", "publish",
                     "published"}
      /\ notified \/ worker \notin {"wait", "published"} => inbox.challenge = 0
      /\ inbox.challenge # 0 => s_session_keys_ready /\ KeysAgree
      /\ inbox.challenge # 0 /\ worker = "wait" => s_authState = "AUTH_CHALLENGE_READY"
      /\ worker = "publish" => s_session_keys_ready /\ s_session_key = EcdhKey(link, link)
  BY DEF AuthTypeOK, LinkInv, StageInv, ChallengeInv, Inbox
<1>1. \/ WorkerWakes \/ VerifyPhone \/ PhoneVerified \/ PhoneRejected \/ Derive \/ ExpandKeys \/ KeysReady
      \/ Publish \/ Published
  BY <1>0 DEF WorkerTask, Sign, Signed, CheckResponse, Granted, MarkVerified, TellVerified,
     Acknowledge, Denied
<1>2. UNCHANGED <<adverse, links, link, ownerStored, fastArtifact, callback, phone, isOwner, tryFastPath,
                  phoneKey>>
  BY <1>1 DEF WorkerWakes, VerifyPhone, PhoneVerified, PhoneRejected, Derive, ExpandKeys, KeysReady,
     Publish, Published, WorkerKeeps, linkVars, phoneVars
<1>3. callback # "delay" /\ notified' = FALSE
  BY <1>1 DEF WorkerWakes, VerifyPhone, PhoneVerified, PhoneRejected, Derive, ExpandKeys, KeysReady,
     Publish, Published, Turn, WorkerIdle
<1>4. /\ inbox'.ack = 0
      /\ worker' \in {"wait", "verify", "verified", "rejected", "derive", "expand", "ready", "publish",
                      "published"}
      /\ worker' \notin {"wait", "published"} => inbox'.challenge = 0
      /\ inbox'.challenge # 0 => s_session_keys_ready' /\ KeysAgree'
      /\ inbox'.challenge # 0 /\ worker' = "wait" => s_authState' = "AUTH_CHALLENGE_READY"
      /\ worker' = "publish" => s_session_keys_ready' /\ s_session_key' = EcdhKey(link, link)
  <2> USE DEF WorkerGoes
  <2>1. CASE WorkerWakes
    <3>1. inbox' = inbox /\ worker' = "verify"
      BY <1>0, <2>1 DEF WorkerWakes
    <3> QED BY <1>0, <2>1, <3>1 DEF WorkerWakes
  <2>2. CASE VerifyPhone
    <3>1. inbox' = inbox /\ inbox.challenge = 0 /\ worker' \in {"verified", "rejected"}
      BY <1>0, <2>2 DEF VerifyPhone
    <3> QED BY <1>0, <3>1
  <2>3. CASE PhoneVerified \/ PhoneRejected
    <3>1. inbox' = inbox /\ inbox.challenge = 0 /\ worker' \in {"derive", "wait"}
      BY <1>0, <2>3 DEF PhoneVerified, PhoneRejected
    <3> QED BY <1>0, <3>1
  <2>4. CASE Derive
    <3>1. inbox' = inbox /\ inbox.challenge = 0 /\ worker' \in {"expand", "wait"}
      BY <1>0, <2>4 DEF Derive
    <3> QED BY <1>0, <3>1
  <2>5. CASE ExpandKeys
    <3>1. inbox' = inbox /\ inbox.challenge = 0 /\ worker' = "ready"
      BY <1>0, <2>5 DEF ExpandKeys
    <3> QED BY <1>0, <3>1
  <2>8. CASE KeysReady
    <3>1. inbox' = inbox /\ inbox.challenge = 0 /\ worker' = "publish"
          /\ s_session_keys_ready' = TRUE /\ s_session_key' = EcdhKey(link, link)
      BY <1>0, <2>8 DEF KeysReady, KeyInv
    <3> QED BY <1>0, <3>1
  <2>6. CASE Publish
    <3>1. inbox' = [inbox EXCEPT !.challenge = s_challenge'] /\ worker' = "published"
      BY <1>0, <2>6, FrameArrives DEF Publish
    <3>2. s_session_keys_ready' /\ s_session_key' = EcdhKey(link, link)
      BY <1>0, <2>6 DEF Publish
    <3>3. KeysAgree'
      BY <1>0, <1>2, <3>2 DEF KeysAgree
    <3>4. inbox'.ack = 0
      BY <1>0, <3>1 DEF Inbox
    <3> QED BY <3>1, <3>2, <3>3, <3>4
  <2>7. CASE Published
    <3>1. inbox' = inbox /\ worker' = "wait" /\ s_authState' = "AUTH_CHALLENGE_READY"
          /\ UNCHANGED <<s_session_keys_ready, s_session_key>>
      BY <2>7 DEF Published, SetAuthState
    <3> QED BY <1>0, <1>2, <3>1 DEF KeysAgree
  <2> QED BY <1>1, <2>1, <2>2, <2>3, <2>4, <2>5, <2>6, <2>7, <2>8
<1>5. ChallengeInv'
  BY <1>0, <1>2, <1>3, <1>4 DEF ChallengeInv
<1>6. Turn'
  BY <1>2, <1>3 DEF Turn, WorkerIdle
<1>7. LinkInv'
  BY <1>2 DEF LinkInv
<1>8. Auth1Inv' /\ ExchangeInv' /\ ControlInv'
  BY <1>2 DEF Auth1Inv, ExchangeInv, ControlInv
<1> QED BY <1>5, <1>6, <1>7, <1>8 DEF StageInv

LEMMA AgreeChecking ==
  ASSUME AuthTypeOK, Turn, LinkInv, StageInv, phone = "exchange", WorkerTask
  PROVE  Turn' /\ LinkInv' /\ StageInv'
<1>0. /\ inbox \in Inbox
      /\ s_session_keys_ready /\ KeysAgree
      /\ notified => s_authState = "AUTH_VERIFYING_RESPONSE"
      /\ worker \in {"wait", "check", "granted", "denied", "mark", "tell", "acknowledge"}
      /\ worker \in {"mark", "tell", "acknowledge"} => s_authState = "AUTH_SESSION_READY"
      /\ inbox.ack # 0 => WorkerIdle /\ s_authState = "AUTH_SESSION_READY"
  BY DEF AuthTypeOK, StageInv, ExchangeInv
<1>1. \/ WorkerWakes \/ CheckResponse \/ Granted \/ Denied \/ MarkVerified \/ TellVerified
      \/ Acknowledge
  BY <1>0 DEF WorkerTask, Sign, Signed, VerifyPhone, PhoneVerified, PhoneRejected, Derive,
     ExpandKeys, KeysReady, Publish, Published
<1>2. UNCHANGED <<adverse, links, link, ownerStored, fastArtifact, callback, phone, isOwner, tryFastPath,
                  phoneKey, s_session_keys_ready, s_session_key>>
  BY <1>1 DEF WorkerWakes, CheckResponse, Granted, Denied, MarkVerified, TellVerified,
     Acknowledge, WorkerKeeps, linkVars, phoneVars, sessionVars, SetAuthState
<1>3. callback # "delay" /\ notified' = FALSE
  BY <1>1 DEF WorkerWakes, CheckResponse, Granted, Denied, MarkVerified, TellVerified,
     Acknowledge, Turn, WorkerIdle
<1>4. ~WorkerIdle
  BY <1>1 DEF WorkerWakes, CheckResponse, Granted, Denied, MarkVerified, TellVerified,
     Acknowledge, WorkerIdle
<1>5. /\ worker' \in {"wait", "check", "granted", "denied", "mark", "tell", "acknowledge"}
      /\ worker' \in {"mark", "tell", "acknowledge"} => s_authState' = "AUTH_SESSION_READY"
      /\ inbox'.ack # 0 => worker' = "wait" /\ s_authState' = "AUTH_SESSION_READY"
  <2> USE DEF WorkerGoes, SetAuthState, sessionVars
  <2>1. CASE WorkerWakes
    <3>1. worker' = "check" /\ inbox' = inbox
      BY <1>0, <2>1 DEF WorkerWakes
    <3> QED BY <1>0, <1>4, <3>1
  <2>2. CASE CheckResponse
    <3>1. worker' \in {"granted", "denied"} /\ inbox' = inbox
      BY <2>2 DEF CheckResponse
    <3> QED BY <1>0, <1>4, <3>1
  <2>3. CASE Granted \/ Denied
    BY <1>0, <1>4, <2>3 DEF Granted, Denied
  <2>4. CASE MarkVerified \/ TellVerified
    BY <1>0, <1>4, <2>4 DEF MarkVerified, TellVerified
  <2>5. CASE Acknowledge
    BY <1>0, <2>5 DEF Acknowledge
  <2> QED BY <1>1, <2>1, <2>2, <2>3, <2>4, <2>5
<1>6. ExchangeInv'
  BY <1>0, <1>2, <1>3, <1>5 DEF ExchangeInv, KeysAgree, WorkerIdle
<1>7. Turn' /\ LinkInv'
  BY <1>2, <1>3 DEF Turn, LinkInv, WorkerIdle
<1>8. Auth1Inv' /\ ChallengeInv' /\ ControlInv'
  BY <1>2 DEF Auth1Inv, ChallengeInv, ControlInv
<1> QED BY <1>6, <1>7, <1>8 DEF StageInv

LEMMA AgreeWorker ==
  ASSUME AuthTypeOK, KeyInv, Turn, LinkInv, StageInv, WorkerTask
  PROVE  Turn' /\ LinkInv' /\ StageInv'
<1>1. ~WorkerIdle
  BY DEF WorkerTask, WorkerWakes, Sign, Signed, VerifyPhone, PhoneVerified, PhoneRejected,
     Derive, ExpandKeys, KeysReady, Publish, Published, CheckResponse, Granted, MarkVerified,
     TellVerified, Acknowledge, Denied, WorkerIdle
<1>2. phone \in {"auth1", "challenge", "exchange"}
  BY <1>1 DEF Turn
<1> QED BY <1>2, AgreeSigning, AgreeDeriving, AgreeChecking

\* The phone's commands: each finds the worker waiting.
LEMMA AgreeAuth0 ==
  ASSUME AuthTypeOK, NotYet, Turn, LinkInv, StageInv,
         Auth0FastRefused \/ Auth0Fast \/ Auth0Standard
  PROVE  Turn' /\ LinkInv' /\ StageInv'
<1>0. /\ phone = "linked" /\ WorkerIdle /\ HostFree /\ links = {link} /\ link \in links
      /\ inbox = EmptyInbox /\ inbox \in Inbox /\ phoneKey = NoKey
      /\ link # 0 /\ nonces \in Nat
  BY DEF Auth0FastRefused, Auth0Fast, Auth0Standard, NotYet, LinkInv, AuthTypeOK, Links
<1>1. /\ UNCHANGED <<links, link, phoneKey, notified, worker>>
      /\ phone' \in {"linked", "challenge", "auth1"}
  BY <1>0 DEF Auth0FastRefused, Auth0Fast, Auth0Standard, linkVars, workerVars
<1>2. worker' = "wait" /\ ~notified' /\ WorkerIdle'
  BY <1>0, <1>1 DEF WorkerIdle
<1>3. CASE Auth0FastRefused
  <2>1. phone' = "linked" /\ callback' = callback /\ inbox' = inbox
    BY <1>0, <1>3 DEF Auth0FastRefused
  <2>2. Turn'
    BY <1>0, <1>2, <2>1 DEF Turn, HostFree
  <2>3. LinkInv'
    BY <1>0, <1>1, <2>1 DEF LinkInv, EmptyInbox
  <2>4. StageInv'
    BY <2>1 DEF StageInv, Auth1Inv, ChallengeInv, ExchangeInv, ControlInv
  <2> QED BY <2>2, <2>3, <2>4
<1>4. CASE Auth0Fast
  <2>1. /\ phone' = "challenge" /\ callback' = callback
        /\ s_session_keys_ready' = TRUE /\ s_authState' = "AUTH_CHALLENGE_READY"
        /\ inbox' = Arrives("challenge", s_challenge')
    BY <1>4 DEF Auth0Fast, Send
  <2>2. inbox' = [inbox EXCEPT !.challenge = s_challenge']
    BY <1>0, <2>1, FrameArrives DEF EmptyInbox
  <2>3. inbox'.ack = 0
    BY <1>0, <2>2 DEF EmptyInbox
  <2>4. Turn'
    BY <1>0, <1>2, <2>1 DEF Turn, HostFree
  <2>5. LinkInv'
    BY <1>0, <1>1, <2>1 DEF LinkInv
  <2>6. KeysAgree'
    BY <1>0, <1>1 DEF KeysAgree, NoKey
  <2>7. phoneKey' \in {NoKey', EcdhKey(link, link)'}
    BY <1>0, <1>1
  <2>8. ChallengeInv'
    BY <1>2, <2>1, <2>3, <2>6, <2>7 DEF ChallengeInv
  <2>9. Auth1Inv' /\ ExchangeInv' /\ ControlInv'
    BY <2>1 DEF Auth1Inv, ExchangeInv, ControlInv
  <2> QED BY <2>4, <2>5, <2>8, <2>9 DEF StageInv
<1>5. CASE Auth0Standard
  <2>1. /\ phone' = "auth1" /\ callback' = "delay" /\ s_ephemeral' = link
        /\ inbox' = Arrives("auth0", link)
    BY <1>5 DEF Auth0Standard, Send, EphemeralKeyPair
  <2>2. inbox' = [inbox EXCEPT !.auth0 = link]
    BY <1>0, <2>1, FrameArrives DEF EmptyInbox
  <2>3. /\ inbox'.auth0 = link /\ inbox'.auth1 = 0 /\ inbox'.challenge = 0 /\ inbox'.ack = 0
    BY <1>0, <2>2 DEF EmptyInbox
  <2>4. Turn'
    BY <1>2, <2>1 DEF Turn
  <2>5. LinkInv'
    BY <1>0, <1>1, <2>1 DEF LinkInv
  <2>6. Auth1Inv'
    BY <1>1, <1>2, <2>1, <2>3 DEF Auth1Inv
  <2>7. ChallengeInv' /\ ExchangeInv' /\ ControlInv'
    BY <2>1 DEF ChallengeInv, ExchangeInv, ControlInv
  <2> QED BY <2>4, <2>5, <2>6, <2>7 DEF StageInv
<1> QED BY <1>3, <1>4, <1>5

LEMMA AgreeAuth1 ==
  ASSUME AuthTypeOK, Calm, Turn, LinkInv, StageInv, Auth1
  PROVE  Turn' /\ LinkInv' /\ StageInv'
<1>0. /\ phone = "auth1" /\ HostFree /\ links = {link} /\ link # 0 /\ link \in Nat
      /\ inbox.auth0 = link /\ inbox.auth1 \in {0, link}
      /\ inbox.challenge = 0 /\ inbox.ack = 0
      /\ notified => inbox.auth1 = 0
  BY DEF Auth1, LinkInv, StageInv, Auth1Inv, AuthTypeOK, Links
<1>1. worker = "wait"
  <2>1. "promptPhone" \notin adverse
    BY DEF Calm, Benign
  <2> QED BY <2>1 DEF Auth1, Answered, WorkerIdle
<1>2. /\ phone' = "challenge" /\ phoneKey' = EcdhKey(link, link)
      /\ s_authState' = "AUTH_VERIFYING_PHONE" /\ notified' = TRUE
      /\ UNCHANGED <<links, link, callback, worker, inbox>>
  BY <1>0 DEF Auth1, NotifyWorker, linkVars, workerVars
<1>3. Turn'
  BY <1>0, <1>1, <1>2 DEF Turn, HostFree
<1>4. LinkInv'
  BY <1>0, <1>2 DEF LinkInv
<1>5. phoneKey' \in {NoKey', EcdhKey(link, link)'}
  BY <1>2 DEF EcdhKey, Hkdf
<1>6. ChallengeInv'
  BY <1>0, <1>1, <1>2, <1>5 DEF ChallengeInv
<1>7. Auth1Inv' /\ ExchangeInv' /\ ControlInv'
  BY <1>2 DEF Auth1Inv, ExchangeInv, ControlInv
<1> QED BY <1>3, <1>4, <1>6, <1>7 DEF StageInv

LEMMA AgreeExchange ==
  ASSUME AuthTypeOK, Calm, Turn, LinkInv, StageInv, ExchangeSignature
  PROVE  Turn' /\ LinkInv' /\ StageInv'
<1>0. /\ phone = "challenge" /\ HostFree /\ links = {link}
      /\ inbox.ack = 0 /\ inbox.challenge # 0
      /\ s_session_keys_ready /\ KeysAgree
      /\ ~notified
      /\ worker = "wait" => s_authState = "AUTH_CHALLENGE_READY"
  BY DEF ExchangeSignature, LinkInv, StageInv, ChallengeInv
<1>1. worker = "wait"
  <2>1. "promptPhone" \notin adverse
    BY DEF Calm, Benign
  <2> QED BY <2>1 DEF ExchangeSignature, Answered
<1>2. /\ phone' = "exchange" /\ s_authState' = "AUTH_VERIFYING_RESPONSE"
      /\ UNCHANGED <<links, link, callback, worker, inbox, phoneKey, s_session_keys_ready,
                     s_session_key>>
  BY <1>0, <1>1 DEF ExchangeSignature, linkVars, workerVars
<1>3. Turn'
  BY <1>0, <1>1, <1>2 DEF Turn, HostFree
<1>4. LinkInv'
  BY <1>0, <1>2 DEF LinkInv
<1>5. ExchangeInv'
  BY <1>0, <1>1, <1>2 DEF ExchangeInv, KeysAgree
<1>6. Auth1Inv' /\ ChallengeInv' /\ ControlInv'
  BY <1>2 DEF Auth1Inv, ChallengeInv, ControlInv
<1> QED BY <1>3, <1>4, <1>5, <1>6 DEF StageInv

LEMMA AgreeAccepted ==
  ASSUME AuthTypeOK, Turn, LinkInv, StageInv, PhoneAccepted \/ ControlFlow
  PROVE  Turn' /\ LinkInv' /\ StageInv'
<1>0. /\ phone \in {"exchange", "control"} /\ links = {link} /\ WorkerIdle
      /\ s_authState = "AUTH_SESSION_READY" /\ s_session_keys_ready /\ KeysAgree
  BY DEF PhoneAccepted, ControlFlow, LinkInv, StageInv, ExchangeInv, ControlInv, Turn
<1>1. /\ phone' \in {"control", "done"}
      /\ UNCHANGED <<links, link, callback, notified, worker, phoneKey, s_authState,
                     s_session_keys_ready, s_session_key>>
  BY DEF PhoneAccepted, ControlFlow, linkVars, workerVars, sessionVars
<1>2. Turn'
  BY <1>0, <1>1 DEF Turn, WorkerIdle
<1>3. LinkInv'
  BY <1>0, <1>1 DEF LinkInv
<1>4. ControlInv'
  BY <1>0, <1>1 DEF ControlInv, KeysAgree
<1>5. Auth1Inv' /\ ChallengeInv' /\ ExchangeInv'
  BY <1>1 DEF Auth1Inv, ChallengeInv, ExchangeInv
<1> QED BY <1>2, <1>3, <1>4, <1>5 DEF StageInv

\* Links and the operator.
LEMMA AgreeHost ==
  ASSUME AuthTypeOK, NotYet, Calm, Turn, LinkInv, StageInv,
         \/ Auth0StandardRefused \/ Auth0HandsOver \/ OnConnect
         \/ (\E l \in Links : OnDisconnect(l)) \/ ResetSession \/ ClearOwner
  PROVE  Turn' /\ LinkInv' /\ StageInv'
<1>0. adverse \cap {"dropMidWork", "overlap", "adminReset"} = {}
  BY DEF Calm, Benign
<1>1. CASE Auth0StandardRefused \/ ClearOwner
  <2>1. UNCHANGED <<links, link, s_authState, s_session_keys_ready, s_session_key,
                    s_ephemeral, callback, notified, worker, phone, phoneKey, inbox>>
    BY <1>1 DEF Auth0StandardRefused, ClearOwner, linkVars, sessionVars, workerVars, phoneVars
  <2>2. Turn' /\ LinkInv'
    BY <2>1 DEF Turn, LinkInv, WorkerIdle
  <2>3. Auth1Inv' /\ ChallengeInv'
    BY <2>1 DEF StageInv, Auth1Inv, ChallengeInv, KeysAgree
  <2>4. ExchangeInv' /\ ControlInv'
    BY <2>1 DEF StageInv, ExchangeInv, ControlInv, KeysAgree, WorkerIdle
  <2> QED BY <2>2, <2>3, <2>4 DEF StageInv
<1>2. CASE Auth0HandsOver
  <2>1. phone = "auth1" /\ worker = "wait"
    BY <1>2 DEF Auth0HandsOver, Turn, WorkerIdle
  <2>2. /\ s_authState' = "AUTH_EPHEMERAL_READY" /\ notified' = TRUE /\ callback' = "idle"
        /\ UNCHANGED <<links, link, s_ephemeral, worker, phone, phoneKey, inbox>>
    BY <1>2 DEF Auth0HandsOver, NotifyWorker, linkVars, workerVars, phoneVars
  <2>3. Turn' /\ LinkInv'
    BY <2>1, <2>2 DEF Turn, LinkInv
  <2>4. Auth1Inv'
    BY <1>2, <2>1, <2>2 DEF Auth0HandsOver, StageInv, Auth1Inv
  <2>5. ChallengeInv' /\ ExchangeInv' /\ ControlInv'
    BY <2>1, <2>2 DEF ChallengeInv, ExchangeInv, ControlInv
  <2> QED BY <2>3, <2>4, <2>5 DEF StageInv
<1>3. CASE OnConnect
  <2>1. links = {} /\ WorkerIdle /\ HostFree
    BY <1>0, <1>3 DEF OnConnect, NotYet, LinkInv
  <2>2. /\ phone' = "linked" /\ links' = {link'} /\ inbox' = EmptyInbox /\ phoneKey' = NoKey
        /\ UNCHANGED <<callback, notified, worker>>
    BY <1>3, <2>1 DEF OnConnect, workerVars
  <2>3. Turn'
    BY <2>1, <2>2 DEF Turn, WorkerIdle, HostFree
  <2>4. LinkInv'
    BY <2>2 DEF LinkInv, EmptyInbox
  <2>5. StageInv'
    BY <2>2 DEF StageInv, Auth1Inv, ChallengeInv, ExchangeInv, ControlInv
  <2> QED BY <2>3, <2>4, <2>5
<1>4. ASSUME NEW l \in Links, OnDisconnect(l) PROVE Turn' /\ LinkInv' /\ StageInv'
  <2>1. WorkerIdle /\ HostFree /\ links = {link} /\ l = link
    BY <1>0, <1>4 DEF OnDisconnect, Undisturbed, LinkInv
  <2>2. phone' = "away" /\ links' = {} /\ UNCHANGED <<callback, notified, worker>>
    BY <1>4, <2>1 DEF OnDisconnect, workerVars
  <2>3. Turn'
    BY <2>1, <2>2 DEF Turn, WorkerIdle, HostFree
  <2>4. LinkInv'
    BY <2>2 DEF LinkInv
  <2>5. StageInv'
    BY <2>2 DEF StageInv, Auth1Inv, ChallengeInv, ExchangeInv, ControlInv
  <2> QED BY <2>3, <2>4, <2>5
<1>5. CASE ResetSession
  <2>1. phone = "done" /\ UNCHANGED <<links, link, callback, notified, worker, phone, phoneKey>>
    BY <1>0, <1>5 DEF ResetSession, linkVars, workerVars, phoneVars
  <2>2. Turn' /\ LinkInv'
    BY <2>1 DEF Turn, LinkInv, WorkerIdle
  <2>3. StageInv'
    BY <2>1 DEF StageInv, Auth1Inv, ChallengeInv, ExchangeInv, ControlInv
  <2> QED BY <2>2, <2>3
<1> QED BY <1>1, <1>2, <1>3, <1>4, <1>5

LEMMA AgreeStep ==
  ASSUME AuthTypeOK, Calm => KeyInv /\ NotYet, AgreeInv, AuthNext
  PROVE  AgreeInv'
<1>1. adverse' = adverse
  BY OneEnvironment
<1>2. SUFFICES ASSUME Calm PROVE Turn' /\ LinkInv' /\ StageInv'
  BY <1>1 DEF AgreeInv, Calm
<1>3. Turn /\ LinkInv /\ StageInv /\ KeyInv /\ NotYet
  BY <1>2 DEF AgreeInv
<1>4. CASE WorkerTask
  BY <1>3, <1>4, AgreeWorker
<1>5. CASE Phone
  BY <1>2, <1>3, <1>5, AgreeAuth0, AgreeAuth1, AgreeExchange, AgreeAccepted DEF Phone
<1>6. CASE \/ Auth0StandardRefused \/ Auth0HandsOver \/ OnConnect
           \/ (\E l \in Links : OnDisconnect(l)) \/ ResetSession \/ ClearOwner
  BY <1>2, <1>3, <1>6, AgreeHost
<1> QED BY <1>4, <1>5, <1>6 DEF AuthNext

-----------------------------------------------------------------------------
AgreementInv == AgreeInv /\ SessionInv

LEMMA AgreementInitially ==
  ASSUME ServerInit
  PROVE  AgreementInv
<1>1. Turn /\ LinkInv
  BY DEF ServerInit, AuthInit, Turn, LinkInv, WorkerIdle
<1>2. StageInv
  BY DEF ServerInit, AuthInit, StageInv, Auth1Inv, ChallengeInv, ExchangeInv, ControlInv
<1> QED BY <1>1, <1>2, SessionInitially DEF AgreementInv, AgreeInv

LEMMA AgreementStep ==
  ASSUME ServerTypeOK, AgreementInv, [ServerNext]_serverVars
  PROVE  AgreementInv'
<1>1. AuthTypeOK /\ AgreeInv /\ (Calm => KeyInv /\ NotYet)
  BY ServerParts DEF AgreementInv, SessionInv, Calm, Benign, Orderly
<1>2. AuthNext \/ UNCHANGED quietVars
  BY <1>1, TunnelSteps DEF serverVars, authVars, quietVars, sessionVars
<1>3. AgreeInv'
  <2>1. CASE AuthNext
    BY <1>1, <2>1, AgreeStep
  <2>2. CASE UNCHANGED quietVars
    <3>1. UNCHANGED <<adverse, links, link, s_authState, s_session_keys_ready, s_session_key,
                      s_ephemeral, callback, notified, worker, phone, phoneKey, inbox>>
      BY <2>2 DEF quietVars, linkVars, workerVars, phoneVars
    <3>2. (Calm' <=> Calm) /\ (Turn' <=> Turn) /\ (LinkInv' <=> LinkInv)
      BY <3>1 DEF Calm, Turn, LinkInv, WorkerIdle, EmptyInbox
    <3>3. (Auth1Inv' <=> Auth1Inv) /\ (ChallengeInv' <=> ChallengeInv)
      BY <3>1 DEF Auth1Inv, ChallengeInv, KeysAgree
    <3>4. (ExchangeInv' <=> ExchangeInv) /\ (ControlInv' <=> ControlInv)
      BY <3>1 DEF ExchangeInv, ControlInv, KeysAgree, WorkerIdle
    <3> QED BY <1>1, <3>2, <3>3, <3>4 DEF AgreeInv, StageInv
  <2> QED BY <1>2, <2>1, <2>2
<1>4. SessionInv'
  BY SessionStep DEF AgreementInv
<1> QED BY <1>3, <1>4 DEF AgreementInv

(* A phone that takes the EXCHANGE as accepted is an owner's and faces a     *)
(* vehicle that verified its signature, for every number of links that come  *)
(* and go, one at a time, whether or not the vehicle can sign.               *)
THEOREM AcceptedIsVerified == ServerSpec => []AcceptedMeansVerified
<1>1. ServerInit => ServerTypeOK /\ AgreementInv
  BY ServerInitType, AgreementInitially
<1>2. ServerTypeOK /\ AgreementInv /\ [ServerNext]_serverVars => (ServerTypeOK /\ AgreementInv)'
  BY ServerStepType, AgreementStep
<1>3. AgreementInv => AcceptedMeansVerified
  BY DEF AgreementInv, SessionInv, Orderly, Benign, StrangerInv, Refused, AgreeInv, Calm,
     StageInv, ControlInv, AcceptedMeansVerified
<1> QED BY <1>1, <1>2, <1>3, PTL DEF ServerSpec

(* A phone that went through the standard path and was accepted holds the    *)
(* session keys the vehicle holds, for every number of links.                *)
THEOREM SameKeys == ServerSpec => []BothHoldTheKeys
<1>1. ServerInit => ServerTypeOK /\ AgreementInv
  BY ServerInitType, AgreementInitially
<1>2. ServerTypeOK /\ AgreementInv /\ [ServerNext]_serverVars => (ServerTypeOK /\ AgreementInv)'
  BY ServerStepType, AgreementStep
<1>3. AgreementInv => BothHoldTheKeys
  BY DEF AgreementInv, AgreeInv, Calm, StageInv, ControlInv, KeysAgree, BothHoldTheKeys
<1> QED BY <1>1, <1>2, <1>3, PTL DEF ServerSpec
=============================================================================
