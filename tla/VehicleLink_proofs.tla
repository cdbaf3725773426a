------------------------- MODULE VehicleLink_proofs -------------------------
(***************************************************************************)
(* A theorem about VehicleLink, for every number of links and every size   *)
(* of the event queue: the state machine and the tunnel agree on what a    *)
(* secure channel is.                                                      *)
(***************************************************************************)
EXTENDS VehicleLink, SequenceTheorems, TLAPS

\* One link at a time, and none ends, nor is reset, before its time.
Orderly == adverse \cap {"overlap", "dropMidWork", "adminReset"} = {}

-----------------------------------------------------------------------------
(* The tunnel, from the signature of the phone on.                           *)
LateSteps == {"check", "granted", "denied", "mark", "tell", "acknowledge"}
LateStages == {"exchange", "control", "done"}

LateInv ==
  /\ links = {} \/ links = {link}
  /\ links = {} => worker = "wait" /\ ~notified
  /\ phone # "away" => links = {link}
  /\ callback = "delay" => phone = "auth1"
  /\ worker \in LateSteps => phone \in LateStages /\ ~notified
  /\ s_authState \in {"AUTH_VERIFYING_RESPONSE", "AUTH_SESSION_READY"} => phone \in LateStages
  /\ s_authState = "AUTH_SESSION_READY" =>
       worker \in {"wait", "mark", "tell", "acknowledge"} /\ ~notified
  /\ worker \in {"mark", "tell", "acknowledge"} => s_authState = "AUTH_SESSION_READY"

\* A verified session, or one that the operator reset behind the phone's back.
Live == s_authState = "AUTH_SESSION_READY" \/ phone = "done"

LEMMA LateInitially ==
  ASSUME AuthInit PROVE LateInv
BY DEF AuthInit, LateInv, LateSteps, LateStages

\* The worker.
LEMMA LateWorker ==
  ASSUME LateInv, WorkerTask
  PROVE  LateInv' /\ (Live => Live')
<1> USE DEF LateInv, LateSteps, LateStages, Live, WorkerKeeps, WorkerGoes, SetAuthState,
            linkVars, phoneVars, sessionVars
<1>0. UNCHANGED <<links, link, callback, phone>>
  BY DEF WorkerTask, WorkerWakes, Sign, Signed, VerifyPhone, PhoneVerified, PhoneRejected,
     Derive, ExpandKeys, KeysReady, Publish, Published, CheckResponse, Granted,
     MarkVerified, TellVerified, Acknowledge, Denied
<1>1. CASE WorkerWakes
  <2>1. /\ worker' \in {"wait", "sign", "verify", "check"} /\ notified /\ notified' = FALSE
        /\ worker' = "check" => s_authState = "AUTH_VERIFYING_RESPONSE"
        /\ s_authState' = s_authState
    BY <1>1 DEF WorkerWakes
  <2>2. s_authState # "AUTH_SESSION_READY"
    BY <1>1 DEF WorkerWakes
  <2> QED BY <1>0, <2>1, <2>2
<1>2. CASE Sign
  <2>1. s_authState' \in {s_authState, "AUTH_FAILED"} /\ worker' \in {"signed", "wait"}
        /\ worker = "sign"
    BY <1>2 DEF Sign
  <2> QED BY <1>0, <2>1
<1>3. CASE Signed \/ PhoneVerified \/ PhoneRejected \/ Published
  <2>1. /\ worker' \in {"derive", "wait"} /\ worker \in {"signed", "verified", "rejected", "published"}
        /\ s_authState' \in {"AUTH_WAITING_FOR_PHONE", "AUTH_COMPUTING_SHARED_SECRET",
                             "AUTH_FAILED", "AUTH_CHALLENGE_READY"}
    BY <1>3 DEF Signed, PhoneVerified, PhoneRejected, Published
  <2> QED BY <1>0, <2>1
<1>4. CASE VerifyPhone \/ Derive \/ ExpandKeys \/ KeysReady \/ Publish
  <2>1. /\ worker' \in {"verified", "rejected", "expand", "ready", "wait", "publish",
                         "published"}
        /\ worker \in {"verify", "derive", "expand", "ready", "publish"}
        /\ s_authState' \in {s_authState, "AUTH_FAILED"}
    BY <1>4 DEF VerifyPhone, Derive, ExpandKeys, KeysReady, Publish
  <2> QED BY <1>0, <2>1
<1>5. CASE CheckResponse
  <2>1. worker = "check" /\ worker' \in {"granted", "denied"}
        /\ UNCHANGED <<s_authState, notified>>
    BY <1>5 DEF CheckResponse
  <2> QED BY <1>0, <2>1
<1>6. CASE Granted \/ Denied
  BY <1>0, <1>6 DEF Granted, Denied
<1>7. CASE MarkVerified \/ TellVerified \/ Acknowledge
  BY <1>0, <1>7 DEF MarkVerified, TellVerified, Acknowledge
<1> QED BY <1>1, <1>2, <1>3, <1>4, <1>5, <1>6, <1>7 DEF WorkerTask

\* The phone's commands.
LEMMA LatePhone ==
  ASSUME LateInv, Phone \/ Auth0StandardRefused \/ Auth0HandsOver \/ ClearOwner
  PROVE  LateInv' /\ (Live => Live')
<1> USE DEF LateInv, LateSteps, LateStages, Live, HostFree, linkVars, phoneVars,
            sessionVars, workerVars
<1>1. CASE Auth0FastRefused \/ Auth0Fast \/ Auth0Standard
  <2>1. /\ UNCHANGED <<links, link, worker, notified>> /\ phone = "linked"
        /\ phone' \in {"linked", "challenge", "auth1"} /\ callback' \in {callback, "delay"}
        /\ callback' = "delay" => phone' = "auth1"
        /\ s_authState' \in {s_authState, "AUTH_CHALLENGE_READY"}
    BY <1>1 DEF Auth0FastRefused, Auth0Fast, Auth0Standard
  <2> QED BY <2>1
<1>2. CASE Auth1
  <2>1. /\ UNCHANGED <<links, link, worker, callback>> /\ phone = "auth1" /\ phone' = "challenge"
        /\ callback = "idle" /\ s_authState' = "AUTH_VERIFYING_PHONE"
    BY <1>2 DEF Auth1
  <2> QED BY <2>1
<1>3. CASE ExchangeSignature
  <2>1. /\ UNCHANGED <<links, link, worker, callback>> /\ phone = "challenge"
        /\ phone' = "exchange" /\ callback = "idle"
        /\ s_authState' \in {s_authState, "AUTH_VERIFYING_RESPONSE"}
    BY <1>3 DEF ExchangeSignature
  <2> QED BY <2>1
<1>4. CASE PhoneAccepted \/ ControlFlow
  <2>1. /\ UNCHANGED <<links, link, worker, notified, callback, s_authState>>
        /\ phone \in {"exchange", "control"} /\ phone' \in {"control", "done"}
    BY <1>4 DEF PhoneAccepted, ControlFlow
  <2> QED BY <2>1
<1>5. CASE Auth0StandardRefused \/ ClearOwner
  BY <1>5 DEF Auth0StandardRefused, ClearOwner
<1>6. CASE Auth0HandsOver
  BY <1>6 DEF Auth0HandsOver
<1> QED BY <1>1, <1>2, <1>3, <1>4, <1>5, <1>6 DEF Phone

\* Links and the operator: a session that ends is announced.
LEMMA LateLinks ==
  ASSUME LateInv, Orderly, OnConnect \/ (\E l \in Links : OnDisconnect(l)) \/ ResetSession
  PROVE  LateInv' /\ (Live => Live' \/ raised' = <<"BLE_CLIENT_DISCONNECTED">>)
<1> USE DEF LateInv, LateSteps, LateStages, Live, HostFree, Orderly, Undisturbed, WorkerIdle,
            workerVars
<1>1. CASE OnConnect
  <2>1. /\ links = {} /\ WorkerIdle /\ UNCHANGED <<worker, notified, callback>>
        /\ callback = "idle" /\ phone' = "linked" /\ links' = {link'}
        /\ s_authState' \in {"AUTH_IDLE", "AUTH_FAILED"}
    BY <1>1 DEF OnConnect
  <2>2. ~Live
    BY <2>1
  <2> QED BY <2>1, <2>2
<1>2. ASSUME NEW l \in Links, OnDisconnect(l)
      PROVE  LateInv' /\ raised' = <<"BLE_CLIENT_DISCONNECTED">>
  <2>1. /\ WorkerIdle /\ UNCHANGED <<worker, notified, callback>> /\ callback = "idle"
        /\ s_authState' = "AUTH_IDLE" /\ l = link /\ links' = {} /\ phone' = "away"
    BY <1>2 DEF OnDisconnect, ResetAuthState
  <2>2. raised' = <<"BLE_CLIENT_DISCONNECTED">>
    BY <1>2 DEF OnDisconnect, Raise, LinkEnded
  <2> QED BY <2>1, <2>2
<1>3. CASE ResetSession
  <2>1. /\ WorkerIdle /\ UNCHANGED <<worker, notified, callback, phone, links, link>>
        /\ s_authState' = "AUTH_IDLE" /\ phone = "done"
    BY <1>3 DEF ResetSession, ResetAuthState, linkVars, phoneVars
  <2> QED BY <2>1
<1> QED BY <1>1, <1>2, <1>3

LEMMA LateStep ==
  ASSUME LateInv, Orderly, AuthNext
  PROVE  LateInv' /\ (Live => Live' \/ raised' = <<"BLE_CLIENT_DISCONNECTED">>)
BY LateWorker, LatePhone, LateLinks DEF AuthNext

-----------------------------------------------------------------------------
(* What the tunnel tells the state machine.                                  *)
\* Everything it raises but the event of a verified session.
Other == Calls \ {"AUTH_VERIFIED"}

LEMMA VerifiedIsRaisedOnce ==
  ASSUME AuthNext
  PROVE  \/ raised' \in Seq(Other)
         \/ TellVerified /\ raised' = <<"AUTH_VERIFIED">>
<1> USE DEF Raise
<1>0. /\ {"BLE_CLIENT_CONNECTED", "BLE_CLIENT_DISCONNECTED", "BLE_AUTH0_RECEIVED",
          "BLE_AUTH0_RESP_SENT", "BLE_AUTH1_SENT", "BLE_AUTH1_RESP_RECEIVED",
          "BLE_EXCHANGE_RECEIVED", "BLE_EXCHANGE_RESP_SENT", "BLE_CONTROL_FLOW_RECEIVED",
          "BLE_CONTROL_FLOW_RESP_SENT", "UNLOCK_REQUESTED", "AUTH_FAILED",
          "markSessionReady"} \subseteq Other
  BY DEF Other, Calls
<1>1. /\ << >> \in Seq(Other)
      /\ \A a \in Other : <<a>> \in Seq(Other)
      /\ \A a, b \in Other : <<a, b>> \in Seq(Other)
      /\ \A a, b, c \in Other : <<a, b, c>> \in Seq(Other)
  OBVIOUS
<1> HIDE DEF Other
<1>2. CASE WorkerTask
  <2>1. CASE TellVerified
    BY <2>1 DEF TellVerified
  <2>2. CASE MarkVerified
    BY <1>0, <1>1, <2>2 DEF MarkVerified, ReadyMark
  <2>3. CASE ~TellVerified /\ ~MarkVerified
    <3>1. \/ raised' = << >> \/ raised' = <<"BLE_AUTH1_SENT">> \/ raised' = <<"AUTH_FAILED">>
          \/ raised' = <<"BLE_EXCHANGE_RESP_SENT">>
      BY <1>2, <2>3 DEF WorkerTask, WorkerWakes, Sign, Signed, VerifyPhone, PhoneVerified,
         PhoneRejected, Derive, ExpandKeys, KeysReady, Publish, Published, CheckResponse,
         Granted, Acknowledge, Denied
    <3> QED BY <1>0, <1>1, <3>1
  <2> QED BY <2>1, <2>2, <2>3
<1>3. CASE Phone
  <2>1. CASE Auth0FastRefused \/ Auth0Fast \/ Auth0Standard
    <3>1. \/ raised' = <<"BLE_AUTH0_RECEIVED">>
          \/ raised' = <<"BLE_AUTH0_RECEIVED", "BLE_AUTH0_RESP_SENT">>
      BY <2>1 DEF Auth0FastRefused, Auth0Fast, Auth0Standard
    <3> QED BY <1>0, <1>1, <3>1
  <2>2. CASE Auth1 \/ ExchangeSignature \/ PhoneAccepted
    <3>1. \/ raised' = << >> \/ raised' = <<"BLE_AUTH1_RESP_RECEIVED">>
          \/ raised' = <<"BLE_EXCHANGE_RECEIVED">>
          \/ raised' = <<"BLE_EXCHANGE_RECEIVED", "BLE_EXCHANGE_RESP_SENT">>
      BY <2>2 DEF Auth1, ExchangeSignature, PhoneAccepted
    <3> QED BY <1>0, <1>1, <3>1
  <2>3. CASE ControlFlow
    <3>1. \/ raised' = <<"BLE_CONTROL_FLOW_RECEIVED">>
          \/ raised' = <<"BLE_CONTROL_FLOW_RECEIVED", "UNLOCK_REQUESTED",
                         "BLE_CONTROL_FLOW_RESP_SENT">>
      BY <2>3 DEF ControlFlow
    <3> QED BY <1>0, <1>1, <3>1
  <2> QED BY <1>3, <2>1, <2>2, <2>3 DEF Phone
<1>4. CASE \/ Auth0StandardRefused \/ Auth0HandsOver \/ OnConnect
           \/ (\E l \in Links : OnDisconnect(l)) \/ ResetSession \/ ClearOwner
  <2>1. \/ raised' = << >> \/ raised' = <<"BLE_AUTH0_RECEIVED">>
        \/ raised' = <<"BLE_CLIENT_CONNECTED">> \/ raised' = <<"BLE_CLIENT_DISCONNECTED">>
    BY <1>4 DEF Auth0StandardRefused, Auth0HandsOver, OnConnect, OnDisconnect, LinkEnded,
       ResetSession, ClearOwner
  <2> QED BY <1>0, <1>1, <2>1
<1> QED BY <1>2, <1>3, <1>4 DEF AuthNext

-----------------------------------------------------------------------------
(* What is still to be told to the state machine.                            *)
Queued == Calls \cup {"SYSTEM_READY", "TIMEOUT", "AUTH_SESSION_EXPIRED", "RESET_REQUESTED"}

\* The news of the end of the link is behind position i.
EndsAfter(i) == \E j \in 1 .. Len(eventQueue) :
                  j > i /\ eventQueue[j] = "BLE_CLIENT_DISCONNECTED"

QueueInv ==
  /\ eventQueue \in Seq(Queued)
  /\ \A i \in 1 .. Len(eventQueue) : eventQueue[i] = "AUTH_VERIFIED" => Live \/ EndsAfter(i)

MachineInv ==
  /\ currentState = "AUTH_SECURE_CHANNEL_READY" =>
       Live \/ EndsAfter(0) \/ resetting = "emptied"
  /\ step = "execute" =>
       /\ eventQueue # << >>
       /\ decided = "AUTH_SECURE_CHANNEL_READY" => Head(eventQueue) = "AUTH_VERIFIED"

AgreedInv == LateInv /\ QueueInv /\ MachineInv

\* Every row into the secure channel starts in it or is the row of AUTH_VERIFIED ...
LEMMA WaysIntoChannel ==
  ASSUME NEW e, Machine!NextState(e) = "AUTH_SECURE_CHANNEL_READY"
  PROVE  currentState = "AUTH_SECURE_CHANNEL_READY" \/ e = "AUTH_VERIFIED"
<1>1. CASE Machine!RowsFor(currentState, e) # {} /\ Machine!GuardPasses(currentState, e)
  <2>1. Machine!NextState(e) = CHOOSE u \in Machine!RowsFor(currentState, e) : TRUE
    BY <1>1 DEF Machine!NextState
  <2>2. Machine!NextState(e) \in Machine!RowsFor(currentState, e)
    BY <1>1, <2>1
  <2>3. "AUTH_SECURE_CHANNEL_READY" \in Machine!RowsFor(currentState, e)
    BY <2>2
  <2>4. <<currentState, e>> \in Machine!Edges["AUTH_SECURE_CHANNEL_READY"]
    BY <2>3 DEF Machine!RowsFor
  <2> QED BY <2>4 DEF Machine!Edges
<1>2. CASE ~(Machine!RowsFor(currentState, e) # {} /\ Machine!GuardPasses(currentState, e))
  BY <1>2 DEF Machine!NextState
<1> QED BY <1>1, <1>2

\* ... and the end of the link has a row out of it, without a guard.
LEMMA EndLeavesChannel ==
  ASSUME currentState = "AUTH_SECURE_CHANNEL_READY"
  PROVE  Machine!NextState("BLE_CLIENT_DISCONNECTED") # "AUTH_SECURE_CHANNEL_READY"
<1> DEFINE e == "BLE_CLIENT_DISCONNECTED"
<1>1. "IDLE" \in Machine!Targets /\ <<currentState, e>> \in Machine!Edges["IDLE"]
  BY DEF Machine!Targets, Machine!Edges
<1>2. Machine!GuardPasses(currentState, e)
  BY DEF Machine!GuardPasses
<1>3. "IDLE" \in Machine!RowsFor(currentState, e)
  BY <1>1 DEF Machine!RowsFor, Machine!Targets
<1>4. Machine!NextState(e) = CHOOSE u \in Machine!RowsFor(currentState, e) : TRUE
  BY <1>2, <1>3 DEF Machine!NextState
<1>5. Machine!NextState(e) \in Machine!RowsFor(currentState, e)
  BY <1>1, <1>3, <1>4
<1>6. <<currentState, e>> \notin Machine!Edges["AUTH_SECURE_CHANNEL_READY"]
  BY DEF Machine!Edges
<1> QED BY <1>5, <1>6 DEF Machine!RowsFor

LEMMA AgreedInitially ==
  ASSUME VehicleInit PROVE AgreedInv
<1>1. LateInv
  BY LateInitially DEF VehicleInit
<1>2. /\ eventQueue = << >> \/ eventQueue = <<"SYSTEM_READY">>
      /\ currentState = "INIT" /\ step = "check"
  BY DEF VehicleInit, Machine!FsmInit, Machine!Enqueue
<1>3. "SYSTEM_READY" \in Queued
  BY DEF Queued
<1>4. eventQueue \in Seq(Queued)
  <2>1. << >> \in Seq(Queued) /\ <<"SYSTEM_READY">> \in Seq(Queued)
    BY <1>3
  <2> QED BY <1>2, <2>1
<1>5. \A i \in 1 .. Len(eventQueue) : eventQueue[i] # "AUTH_VERIFIED"
  BY <1>2
<1> QED BY <1>1, <1>2, <1>4, <1>5 DEF AgreedInv, QueueInv, MachineInv

\* A step of the tunnel.
LEMMA AgreedTunnel ==
  ASSUME AgreedInv, Orderly, TunnelStep
  PROVE  AgreedInv'
<1>0. LateInv /\ QueueInv /\ MachineInv /\ AuthNext
  BY DEF AgreedInv, TunnelStep
<1>1. LateInv' /\ (Live => Live' \/ raised' = <<"BLE_CLIENT_DISCONNECTED">>)
  BY <1>0, LateStep
<1>2. UNCHANGED <<currentState, step, decided, resetting>>
  BY DEF TunnelStep
<1>3. eventQueue' = eventQueue \/ eventQueue' = eventQueue \o raised'
  BY DEF TunnelStep
<1>4. CASE eventQueue' = eventQueue
  <2>1. Live => Live'
    <3>1. raised' # <<"BLE_CLIENT_DISCONNECTED">> \/ eventQueue' = eventQueue \o raised'
      BY DEF TunnelStep
    <3>2. ASSUME raised' = <<"BLE_CLIENT_DISCONNECTED">>, eventQueue = eventQueue \o raised'
          PROVE  FALSE
      <4>1. "BLE_CLIENT_DISCONNECTED" \in Queued
        BY DEF Queued, Calls
      <4>2. raised' \in Seq(Queued) /\ Len(raised') = 1 /\ eventQueue \in Seq(Queued)
        BY <1>0, <3>2, <4>1 DEF QueueInv
      <4>3. Len(eventQueue \o raised') = Len(eventQueue) + 1
        BY <4>2, ConcatProperties
      <4> QED BY <3>2, <4>2, <4>3
    <3> QED BY <1>1, <1>4, <3>1, <3>2
  <2>2. QueueInv' /\ MachineInv'
    BY <1>0, <1>2, <1>4, <2>1 DEF QueueInv, MachineInv, EndsAfter
  <2> QED BY <1>1, <2>2 DEF AgreedInv
<1>5. CASE eventQueue' = eventQueue \o raised'
  <2>1. Calls \subseteq Queued /\ Other \subseteq Queued /\ "AUTH_VERIFIED" \notin Other
        /\ "AUTH_VERIFIED" \in Queued
    BY DEF Queued, Other, Calls
  <2>2. raised' \in Seq(Queued)
    <3>1. CASE raised' \in Seq(Other)
      BY <2>1, <3>1
    <3>2. CASE raised' = <<"AUTH_VERIFIED">>
      BY <2>1, <3>2
    <3> QED BY <1>0, <3>1, <3>2, VerifiedIsRaisedOnce
  <2>3. eventQueue \in Seq(Queued)
    BY <1>0 DEF QueueInv
  <2>4. /\ eventQueue' \in Seq(Queued)
        /\ Len(eventQueue') = Len(eventQueue) + Len(raised')
        /\ \A i \in 1 .. Len(eventQueue) + Len(raised') :
             eventQueue'[i] = IF i <= Len(eventQueue) THEN eventQueue[i]
                                                      ELSE raised'[i - Len(eventQueue)]
    BY <1>5, <2>2, <2>3, ConcatProperties
  <2>5. Len(eventQueue) \in Nat /\ Len(raised') \in Nat
    BY <2>2, <2>3
  <2>6. ASSUME NEW i \in 0 .. Len(eventQueue), Live \/ EndsAfter(i)
        PROVE  Live' \/ EndsAfter(i)'
    <3>1. CASE EndsAfter(i)
      <4>1. PICK j \in 1 .. Len(eventQueue) :
                   j > i /\ eventQueue[j] = "BLE_CLIENT_DISCONNECTED"
        BY <3>1 DEF EndsAfter
      <4>2. j \in 1 .. Len(eventQueue') /\ eventQueue'[j] = eventQueue[j]
        BY <2>4, <2>5
      <4> QED BY <4>1, <4>2 DEF EndsAfter
    <3>2. CASE raised' = <<"BLE_CLIENT_DISCONNECTED">>
      <4>1. Len(raised') = 1 /\ raised'[1] = "BLE_CLIENT_DISCONNECTED"
        BY <3>2
      <4>2. /\ Len(eventQueue) + 1 \in 1 .. Len(eventQueue')
            /\ eventQueue'[Len(eventQueue) + 1] = "BLE_CLIENT_DISCONNECTED"
            /\ Len(eventQueue) + 1 > i
        BY <2>4, <2>5, <4>1
      <4> QED BY <4>2 DEF EndsAfter
    <3> QED BY <1>1, <2>6, <3>1, <3>2
  <2>7. QueueInv'
    <3>1. ASSUME NEW i \in 1 .. Len(eventQueue'), eventQueue'[i] = "AUTH_VERIFIED"
          PROVE  Live' \/ EndsAfter(i)'
      <4>1. CASE i \in 1 .. Len(eventQueue)
        <5>1. eventQueue[i] = "AUTH_VERIFIED"
          BY <2>4, <2>5, <3>1, <4>1
        <5>2. Live \/ EndsAfter(i)
          BY <1>0, <4>1, <5>1 DEF QueueInv
        <5> QED BY <2>5, <2>6, <4>1, <5>2
      <4>2. CASE i \notin 1 .. Len(eventQueue)
        <5>1. i - Len(eventQueue) \in 1 .. Len(raised')
              /\ raised'[i - Len(eventQueue)] = "AUTH_VERIFIED"
          BY <2>4, <2>5, <3>1, <4>2
        <5>2. raised' \notin Seq(Other)
          BY <2>1, <5>1
        <5>3. TellVerified
          BY <1>0, <5>2, VerifiedIsRaisedOnce
        <5>4. s_authState = "AUTH_SESSION_READY" /\ s_authState' = s_authState
          BY <1>0, <5>3 DEF TellVerified, LateInv, sessionVars
        <5> QED BY <5>4 DEF Live
      <4> QED BY <4>1, <4>2
    <3> QED BY <2>4, <3>1 DEF QueueInv
  <2>8. MachineInv'
    <3>1. currentState' = "AUTH_SECURE_CHANNEL_READY" =>
            Live' \/ EndsAfter(0)' \/ resetting' = "emptied"
      BY <1>0, <1>2, <2>5, <2>6 DEF MachineInv
    <3>2. ASSUME eventQueue # << >>
          PROVE  eventQueue' # << >> /\ Head(eventQueue') = Head(eventQueue)
      <4>1. Len(eventQueue) > 0
        BY <2>3, <3>2
      <4>2. Len(eventQueue') > 0 /\ eventQueue'[1] = eventQueue[1]
        BY <2>4, <2>5, <4>1
      <4> QED BY <2>3, <2>4, <4>1, <4>2
    <3> QED BY <1>0, <1>2, <3>1, <3>2 DEF MachineInv
  <2> QED BY <1>1, <2>7, <2>8 DEF AgreedInv
<1> QED BY <1>3, <1>4, <1>5

\* A step of fsmTask.
LEMMA QueueGrows ==
  ASSUME QueueInv, NEW e \in Queued \ {"AUTH_VERIFIED"}, UNCHANGED <<s_authState, phone>>,
         eventQueue' = Machine!Enqueue(eventQueue, e)
  PROVE  QueueInv' /\ (Live \/ EndsAfter(0) => Live' \/ EndsAfter(0)')
<1>0. eventQueue \in Seq(Queued) /\ (Live' <=> Live)
  BY DEF QueueInv, Live
<1>1. CASE eventQueue' = eventQueue
  BY <1>0, <1>1 DEF QueueInv, EndsAfter
<1>2. CASE eventQueue' = Append(eventQueue, e)
  <2>1. /\ eventQueue' \in Seq(Queued) /\ Len(eventQueue') = Len(eventQueue) + 1
        /\ Len(eventQueue) \in Nat
        /\ \A i \in 1 .. Len(eventQueue) : eventQueue'[i] = eventQueue[i]
        /\ eventQueue'[Len(eventQueue) + 1] = e
    BY <1>0, <1>2, AppendProperties
  <2>2. ASSUME NEW i \in 0 .. Len(eventQueue), EndsAfter(i)
        PROVE  EndsAfter(i)'
    BY <2>1, <2>2 DEF EndsAfter
  <2>3. ASSUME NEW i \in 1 .. Len(eventQueue'), eventQueue'[i] = "AUTH_VERIFIED"
        PROVE  Live' \/ EndsAfter(i)'
    <3>1. i \in 1 .. Len(eventQueue) /\ eventQueue[i] = "AUTH_VERIFIED"
      BY <2>1, <2>3
    <3>2. Live \/ EndsAfter(i)
      BY <3>1 DEF QueueInv
    <3> QED BY <1>0, <2>1, <2>2, <3>1, <3>2
  <2> QED BY <1>0, <2>1, <2>2, <2>3 DEF QueueInv
<1> QED BY <1>1, <1>2 DEF Machine!Enqueue

LEMMA QueueShrinks ==
  ASSUME QueueInv, eventQueue # << >>, UNCHANGED <<s_authState, phone>>,
         eventQueue' = Machine!Dequeue(eventQueue)
  PROVE  /\ QueueInv'
         /\ Head(eventQueue) = "AUTH_VERIFIED" => Live' \/ EndsAfter(0)'
         /\ Head(eventQueue) # "BLE_CLIENT_DISCONNECTED" =>
              (Live \/ EndsAfter(0) => Live' \/ EndsAfter(0)')
<1>0. eventQueue \in Seq(Queued) /\ (Live' <=> Live)
  BY DEF QueueInv, Live
<1>1. eventQueue' = Tail(eventQueue)
  BY DEF Machine!Dequeue
<1>2. /\ eventQueue' \in Seq(Queued) /\ Len(eventQueue') = Len(eventQueue) - 1
      /\ Len(eventQueue) \in Nat /\ Len(eventQueue) > 0
      /\ \A i \in 1 .. Len(eventQueue') : eventQueue'[i] = eventQueue[i + 1]
      /\ Head(eventQueue) = eventQueue[1]
  BY <1>0, <1>1, HeadTailProperties
<1>3. ASSUME NEW i \in 1 .. Len(eventQueue), EndsAfter(i)
      PROVE  \E j \in 1 .. Len(eventQueue') :
               j > i - 1 /\ eventQueue'[j] = "BLE_CLIENT_DISCONNECTED"
  <2>1. PICK j \in 1 .. Len(eventQueue) : j > i /\ eventQueue[j] = "BLE_CLIENT_DISCONNECTED"
    BY <1>3 DEF EndsAfter
  <2>2. j - 1 \in 1 .. Len(eventQueue') /\ j - 1 > i - 1
        /\ eventQueue'[j - 1] = "BLE_CLIENT_DISCONNECTED"
    BY <1>2, <2>1
  <2> QED BY <2>2
<1>4. QueueInv'
  <2>1. ASSUME NEW i \in 1 .. Len(eventQueue'), eventQueue'[i] = "AUTH_VERIFIED"
        PROVE  Live' \/ EndsAfter(i)'
    <3>1. i + 1 \in 1 .. Len(eventQueue) /\ eventQueue[i + 1] = "AUTH_VERIFIED" /\ (i + 1) - 1 = i
      BY <1>2, <2>1
    <3>2. Live \/ EndsAfter(i + 1)
      BY <3>1 DEF QueueInv
    <3>3. CASE EndsAfter(i + 1)
      <4>1. \E j \in 1 .. Len(eventQueue') :
              j > (i + 1) - 1 /\ eventQueue'[j] = "BLE_CLIENT_DISCONNECTED"
        BY <1>3, <3>1, <3>3
      <4> QED BY <3>1, <4>1 DEF EndsAfter
    <3> QED BY <1>0, <3>2, <3>3
  <2> QED BY <1>2, <2>1 DEF QueueInv
<1>5. ASSUME Head(eventQueue) = "AUTH_VERIFIED" PROVE Live' \/ EndsAfter(0)'
  <2>1. 1 \in 1 .. Len(eventQueue) /\ eventQueue[1] = "AUTH_VERIFIED"
    BY <1>2, <1>5
  <2>2. Live \/ EndsAfter(1)
    BY <2>1 DEF QueueInv
  <2>3. CASE EndsAfter(1)
    <3>1. \E j \in 1 .. Len(eventQueue') :
            j > 1 - 1 /\ eventQueue'[j] = "BLE_CLIENT_DISCONNECTED"
      BY <1>3, <2>1, <2>3
    <3> QED BY <3>1 DEF EndsAfter
  <2> QED BY <1>0, <2>2, <2>3
<1>6. ASSUME Head(eventQueue) # "BLE_CLIENT_DISCONNECTED", EndsAfter(0) PROVE EndsAfter(0)'
  <2>1. PICK j \in 1 .. Len(eventQueue) : j > 0 /\ eventQueue[j] = "BLE_CLIENT_DISCONNECTED"
    BY <1>6 DEF EndsAfter
  <2>2. j - 1 \in 1 .. Len(eventQueue') /\ j - 1 > 0
        /\ eventQueue'[j - 1] = "BLE_CLIENT_DISCONNECTED"
    BY <1>2, <1>6, <2>1
  <2> QED BY <2>2 DEF EndsAfter
<1> QED BY <1>0, <1>4, <1>5, <1>6

LEMMA AgreedMachine ==
  ASSUME AgreedInv, MachineStep
  PROVE  AgreedInv'
<1>0. /\ LateInv /\ QueueInv /\ MachineInv /\ Machine!FsmTask
      /\ UNCHANGED authVars /\ resetting' = resetting
  BY DEF AgreedInv, MachineStep, Machine!FsmTask, Machine!CheckTimeout, Machine!ProcessEvent,
     Machine!ExecuteTransition, Machine!QueueDrained, Machine!SyncKeyFlag,
     Machine!ExpireSession, Machine!NothingDue, Machine!nfcVars
<1>1. LateInv' /\ UNCHANGED <<s_authState, phone>>
  BY <1>0 DEF LateInv, authVars, linkVars, sessionVars, workerVars, phoneVars
<1>2. "TIMEOUT" \in Queued \ {"AUTH_VERIFIED"} /\ "AUTH_SESSION_EXPIRED" \in Queued \ {"AUTH_VERIFIED"}
  BY DEF Queued
<1>3. (Live' <=> Live) /\ (eventQueue' = eventQueue => QueueInv' /\ (EndsAfter(0)' <=> EndsAfter(0)))
  BY <1>0, <1>1 DEF QueueInv, Live, EndsAfter
<1>4. CASE Machine!CheckTimeout
  <2>1. /\ currentState' = currentState /\ step' = "drain"
        /\ \/ eventQueue' = eventQueue
           \/ eventQueue' = Machine!Enqueue(eventQueue, "TIMEOUT")
    BY <1>4 DEF Machine!CheckTimeout
  <2>2. QueueInv' /\ (Live \/ EndsAfter(0) => Live' \/ EndsAfter(0)')
    BY <1>0, <1>1, <1>2, <1>3, <2>1, QueueGrows
  <2> QED BY <1>0, <1>1, <2>1, <2>2 DEF MachineInv, AgreedInv
<1>5. CASE Machine!ProcessEvent
  <2> DEFINE e == Head(eventQueue)
  <2>1. eventQueue # << >> /\ step = "drain" /\ currentState' = currentState
    BY <1>5 DEF Machine!ProcessEvent
  <2>2. CASE Machine!NextState(e) # currentState
    <3>1. step' = "execute" /\ decided' = Machine!NextState(e) /\ eventQueue' = eventQueue
      BY <1>5, <2>2 DEF Machine!ProcessEvent
    <3>2. decided' = "AUTH_SECURE_CHANNEL_READY" => e = "AUTH_VERIFIED"
      BY <2>2, <3>1, WaysIntoChannel
    <3>3. MachineInv'
      BY <1>0, <1>3, <2>1, <3>1, <3>2 DEF MachineInv
    <3> QED BY <1>1, <1>3, <3>1, <3>3 DEF AgreedInv
  <2>3. CASE Machine!NextState(e) = currentState
    <3>1. step' = step /\ eventQueue' = Machine!Dequeue(eventQueue)
      BY <1>5, <2>3 DEF Machine!ProcessEvent
    <3>2. currentState = "AUTH_SECURE_CHANNEL_READY" => e # "BLE_CLIENT_DISCONNECTED"
      BY <2>3, EndLeavesChannel
    <3>3. /\ QueueInv'
          /\ e # "BLE_CLIENT_DISCONNECTED" => (Live \/ EndsAfter(0) => Live' \/ EndsAfter(0)')
      BY <1>0, <1>1, <2>1, <3>1, QueueShrinks
    <3>4. MachineInv'
      BY <1>0, <2>1, <3>1, <3>2, <3>3 DEF MachineInv
    <3> QED BY <1>1, <3>3, <3>4 DEF AgreedInv
  <2> QED BY <2>2, <2>3
<1>6. CASE Machine!ExecuteTransition
  <2>1. /\ step = "execute" /\ step' = "drain" /\ currentState' = decided
        /\ eventQueue' = Machine!Dequeue(eventQueue)
    BY <1>6 DEF Machine!ExecuteTransition
  <2>2. eventQueue # << >>
        /\ (decided = "AUTH_SECURE_CHANNEL_READY" => Head(eventQueue) = "AUTH_VERIFIED")
    BY <1>0, <2>1 DEF MachineInv
  <2>3. QueueInv' /\ (Head(eventQueue) = "AUTH_VERIFIED" => Live' \/ EndsAfter(0)')
    BY <1>0, <1>1, <2>1, <2>2, QueueShrinks
  <2> QED BY <1>1, <2>1, <2>2, <2>3 DEF MachineInv, AgreedInv
<1>7. CASE Machine!ExpireSession
  <2>1. /\ currentState' = currentState /\ step' = "check"
        /\ eventQueue' = Machine!Enqueue(eventQueue, "AUTH_SESSION_EXPIRED")
    BY <1>7 DEF Machine!ExpireSession
  <2>2. QueueInv' /\ (Live \/ EndsAfter(0) => Live' \/ EndsAfter(0)')
    BY <1>0, <1>1, <1>2, <2>1, QueueGrows
  <2> QED BY <1>0, <1>1, <2>1, <2>2 DEF MachineInv, AgreedInv
<1>8. CASE Machine!QueueDrained \/ Machine!SyncKeyFlag \/ Machine!NothingDue
  <2>1. UNCHANGED <<currentState, eventQueue>> /\ step' \in {"work", "check"}
    BY <1>8 DEF Machine!QueueDrained, Machine!SyncKeyFlag, Machine!NothingDue
  <2> QED BY <1>0, <1>1, <1>3, <2>1 DEF MachineInv, AgreedInv
<1> QED BY <1>0, <1>4, <1>5, <1>6, <1>7, <1>8 DEF Machine!FsmTask

\* The serial command C begins: neither the tunnel nor the queue is touched yet.
LEMMA AgreedClear ==
  ASSUME AgreedInv, SerialClearAll
  PROVE  AgreedInv'
<1>1. UNCHANGED <<links, link, callback, phone, worker, notified, s_authState, eventQueue,
                  currentState, step, decided>>
  BY DEF SerialClearAll, Machine!SerialClearAll, sessionVars, workerVars, phoneVars
<1>2. LateInv' /\ QueueInv'
  BY <1>1 DEF AgreedInv, LateInv, QueueInv, Live, EndsAfter
<1>3. resetting # "emptied"
  BY DEF SerialClearAll, Machine!SerialClearAll, Machine!NfcTaskFree
<1> QED BY <1>1, <1>2, <1>3 DEF AgreedInv, MachineInv, Live, EndsAfter

\* The rest of the command: the queue goes, then the state.
LEMMA AgreedReset ==
  ASSUME AgreedInv, ResetStep
  PROVE  AgreedInv'
<1>0. LateInv /\ QueueInv /\ MachineInv /\ UNCHANGED authVars
  BY DEF AgreedInv, ResetStep
<1>1. LateInv' /\ UNCHANGED <<s_authState, phone>> /\ (Live' <=> Live)
  BY <1>0 DEF LateInv, Live, authVars, linkVars, sessionVars, workerVars, phoneVars
<1>2. CASE Machine!ClearContext \/ Machine!ForceIdle
  <2>1. /\ UNCHANGED <<eventQueue, step, decided>>
        /\ \/ resetting = "begun" /\ currentState' = currentState
           \/ currentState' = "IDLE"
    BY <1>2 DEF Machine!ClearContext, Machine!ForceIdle
  <2> QED BY <1>0, <1>1, <2>1 DEF AgreedInv, QueueInv, MachineInv, EndsAfter
<1>3. CASE Machine!ClearEventQueue
  <2>1. eventQueue' = << >> /\ step' = step /\ step # "execute" /\ resetting' = "emptied"
    BY <1>3 DEF Machine!ClearEventQueue, Machine!ResetMayGoOn
  <2>2. eventQueue' \in Seq(Queued) /\ Len(eventQueue') = 0
    BY <2>1
  <2> QED BY <1>1, <2>1, <2>2 DEF AgreedInv, QueueInv, MachineInv
<1>4. CASE Machine!RaiseReset
  <2>1. /\ UNCHANGED <<currentState, step, decided>> /\ resetting = "forced"
        /\ eventQueue' = Machine!Enqueue(eventQueue, "RESET_REQUESTED")
    BY <1>4 DEF Machine!RaiseReset
  <2>2. "RESET_REQUESTED" \in Queued \ {"AUTH_VERIFIED"}
    BY DEF Queued
  <2>3. QueueInv' /\ (Live \/ EndsAfter(0) => Live' \/ EndsAfter(0)')
    BY <1>0, <1>1, <2>1, <2>2, QueueGrows
  <2>4. ASSUME eventQueue # << >>
        PROVE  eventQueue' # << >> /\ Head(eventQueue') = Head(eventQueue)
    <3>1. eventQueue \in Seq(Queued) /\ Len(eventQueue) > 0
      BY <1>0, <2>4 DEF QueueInv
    <3>2. CASE eventQueue' = Append(eventQueue, "RESET_REQUESTED")
      BY <2>2, <3>1, <3>2, AppendProperties
    <3> QED BY <2>1, <2>4, <3>2 DEF Machine!Enqueue
  <2>5. MachineInv'
    BY <1>0, <2>1, <2>3, <2>4 DEF MachineInv
  <2> QED BY <1>1, <2>3, <2>5 DEF AgreedInv
<1> QED BY <1>2, <1>3, <1>4 DEF ResetStep, Machine!ResetGoesOn

-----------------------------------------------------------------------------
\* Which behaviours the theorem is about stays as it was chosen.
LEMMA SameEnvironment ==
  ASSUME [VehicleNext]_vehicleVars PROVE adverse' = adverse
<1>1. CASE AuthNext
  <2>1. CASE WorkerTask
    BY <2>1 DEF WorkerTask, WorkerWakes, Sign, Signed, VerifyPhone, PhoneVerified,
       PhoneRejected, Derive, ExpandKeys, KeysReady, Publish, Published, CheckResponse,
       Granted, MarkVerified, TellVerified, Acknowledge, Denied, WorkerKeeps, linkVars
  <2>2. CASE Phone
    BY <2>2 DEF Phone, Auth0FastRefused, Auth0Fast, Auth0Standard, Auth1, ExchangeSignature,
       PhoneAccepted, ControlFlow, linkVars
  <2>3. CASE ~WorkerTask /\ ~Phone
    BY <1>1, <2>3 DEF AuthNext, Auth0StandardRefused, Auth0HandsOver, OnConnect, OnDisconnect,
       ResetSession, ClearOwner, linkVars
  <2> QED BY <2>1, <2>2, <2>3
<1>2. CASE UNCHANGED authVars \/ SerialClearAll \/ UNCHANGED vehicleVars
  BY <1>2 DEF SerialClearAll, vehicleVars, authVars, linkVars
<1> QED BY <1>1, <1>2 DEF VehicleNext, TunnelStep, MachineStep, ResetStep

EnvironmentInv == adverse \in Environments /\ (Orderly => AgreedInv)

LEMMA EnvironmentStep ==
  ASSUME EnvironmentInv, [VehicleNext]_vehicleVars PROVE EnvironmentInv'
<1>1. adverse' = adverse /\ (Orderly' <=> Orderly)
  BY SameEnvironment DEF Orderly
<1>2. ASSUME Orderly PROVE AgreedInv'
  <2>1. AgreedInv
    BY <1>2 DEF EnvironmentInv
  <2>2. CASE VehicleNext
    BY <1>2, <2>1, <2>2, AgreedTunnel, AgreedMachine, AgreedClear, AgreedReset
       DEF VehicleNext
  <2>3. CASE UNCHANGED vehicleVars
    <3>1. UNCHANGED <<links, link, callback, phone, worker, notified, s_authState, eventQueue,
                      currentState, step, decided, resetting>>
      BY <2>3 DEF vehicleVars, authVars, machineVars, linkVars, sessionVars, workerVars,
         phoneVars
    <3> QED BY <2>1, <3>1 DEF AgreedInv, LateInv, QueueInv, MachineInv, Live, EndsAfter
  <2> QED BY <2>2, <2>3
<1> QED BY <1>1, <1>2 DEF EnvironmentInv

(* For every number of links and every size of the queue: where links do not *)
(* overlap and are not reset or ended before their time, the state machine   *)
(* reports a secure channel only while the tunnel has a verified session or  *)
(* the news of its end is in the queue, or was in it until the reset that is *)
(* about to force IDLE emptied it; prompt phones, a worker that cannot sign  *)
(* and serial resets included.                                               *)
THEOREM SecureIsVerified ==
  VehicleSpec => []SecureMeansVerified
<1>1. VehicleInit => EnvironmentInv
  BY AgreedInitially DEF VehicleInit, AuthInit, EnvironmentInv
<1>2. EnvironmentInv /\ [VehicleNext]_vehicleVars => EnvironmentInv'
  BY EnvironmentStep
<1>3. EnvironmentInv => SecureMeansVerified
  <2>1. AgreedInv /\ EndsAfter(0) => Disconnecting
    BY DEF AgreedInv, QueueInv, EndsAfter, Disconnecting
  <2> QED BY <2>1 DEF EnvironmentInv, Orderly, AgreedInv, MachineInv, Live,
         SecureMeansVerified
<1> QED BY <1>1, <1>2, <1>3, PTL DEF VehicleSpec
=============================================================================
