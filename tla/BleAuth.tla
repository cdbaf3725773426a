------------------------------ MODULE BleAuth ------------------------------
(***************************************************************************)
(* Phase B, the authentication of the phone over the CCC tunnel: the       *)
(* vehicle's side in iot/src/ble/ble_auth.cpp and the phone that drives it *)
(* (lib/service/pke_auth_orchestrator.dart).  The BLE host task runs the   *)
(* callbacks one at a time; the worker task does the public-key work, so   *)
(* its reads of the shared session data and its writes back are separate   *)
(* steps between which callbacks run.  No lock protects that data.         *)
(*                                                                         *)
(* An ephemeral key pair is named by the link it was made on, a challenge  *)
(* by its number, a signature of the enrolled owner by what it signs (0    *)
(* for any other signature).                                               *)
(***************************************************************************)
EXTENDS Naturals, Sequences

CONSTANTS
  MaxLinks,         (* bound: BLE links per behaviour                        *)
  Environments      (* the sets of things that phones, the operator and the  *)
                    (* build may do, one of which a behaviour has:           *)
                    (* "promptPhone": the phone answers before the worker    *)
                    (* has finished the step that asked; "dropMidWork": a    *)
                    (* link ends or the session is reset while the worker    *)
                    (* works; "overlap": a link comes up while another one   *)
                    (* is, whatever the worker does; "adminReset": an        *)
                    (* administrator resets the session of a phone that is   *)
                    (* not done; "noSignature": the vehicle cannot sign;     *)
                    (* "bondingEnforce": phones without a bond are refused;  *)
                    (* "slowOnly": the fast path is switched off;            *)
                    (* "serialClear": the operator types "C" (VehicleLink)   *)

ASSUME MaxLinksAssumption == MaxLinks \in Nat
ASSUME EnvironmentsAssumption ==
  Environments \subseteq
    SUBSET {"promptPhone", "dropMidWork", "overlap", "adminReset", "noSignature",
            "bondingEnforce", "slowOnly", "serialClear"}

Links == 1 .. MaxLinks

AuthStates ==
  {"AUTH_IDLE", "AUTH_WAITING_FOR_PHONE", "AUTH_VERIFYING_PHONE",
   "AUTH_EPHEMERAL_READY", "AUTH_COMPUTING_SHARED_SECRET", "AUTH_CHALLENGE_READY",
   "AUTH_VERIFYING_RESPONSE", "AUTH_SESSION_READY", "AUTH_FAILED"}

(* A session key is named by what it is derived from: the secret that ECDH   *)
(* gives the vehicle's and the phone's ephemeral keys and the public keys    *)
(* bound to it, or on the fast path the stored artifact alone.               *)
Pairs == (0 .. MaxLinks) \X (0 .. MaxLinks)
Hkdf(label, secret, info) == [label |-> label, ikm |-> secret, info |-> info]
EcdhKey(ecu, eph) == Hkdf("SmartCarv1", <<ecu, eph>>, <<ecu, eph>>)
FastKey == Hkdf("SmartCarFast", <<0, 0>>, <<0, 0>>)
NoKey == Hkdf("none", <<0, 0>>, <<0, 0>>)

VARIABLES
  adverse,                (* what this behaviour may meet                     *)
  links, link,            (* the links that are up, and the newest one        *)
  ownerStored,            (* the owner's key is stored                        *)
  fastArtifact,           (* the artifact of the fast path is                 *)
  s_authState, s_session_keys_ready, s_session_key,
  s_ephemeral,            (* link of the vehicle's ephemeral key pair, or 0   *)
  s_phone_data_received,
  s_phone_ephemeral,      (* link of the phone's, if the owner signed it      *)
  s_challenge,            (* number of the challenge issued, or 0             *)
  s_sig,                  (* the challenge the phone's signature covers       *)
  nonces,                 (* challenges issued so far                         *)
  callback,               (* the host task: "idle", or inside AUTH0's delay   *)
  notified,               (* the worker's task notification is pending        *)
  worker,                 (* where the worker is                              *)
  derived,                (* the worker's local ECDH secret                   *)
  phone,                  (* what the phone waits for on the newest link      *)
  isOwner, tryFastPath,   (* whose phone it is, and whether it tries the      *)
                          (* fast path                                        *)
  phoneKey,               (* the session key it derived                       *)
  inbox,                  (* what arrived over the tunnel on this link        *)
  raised                  (* the state-machine calls of the last step         *)

sessionVars == <<s_authState, s_session_keys_ready, s_session_key, s_ephemeral,
                 s_phone_data_received, s_phone_ephemeral, s_challenge, s_sig>>
workerVars == <<worker, derived>>
phoneVars == <<phone, isOwner, tryFastPath, phoneKey>>
linkVars == <<adverse, links, link, ownerStored, fastArtifact>>
authVars == <<linkVars, sessionVars, nonces, callback, notified, workerVars,
              phoneVars, inbox, raised>>

Inbox ==
  [auth0 : 0 .. MaxLinks, auth1 : 0 .. MaxLinks, challenge : 0 .. nonces,
   ack : {0, 1}, control : {0, 1}]
EmptyInbox == [auth0 |-> 0, auth1 |-> 0, challenge |-> 0, ack |-> 0, control |-> 0]
WorkerSteps == {"wait", "sign", "signed", "verify", "verified", "rejected", "derive",
                "expand", "ready", "publish", "published", "check", "granted", "denied",
                "mark", "tell", "acknowledge"}

\* What the state machine is called with: events, and markSessionReady.
Calls ==
  {"BLE_CLIENT_CONNECTED", "BLE_CLIENT_DISCONNECTED", "BLE_AUTH0_RECEIVED",
   "BLE_AUTH0_RESP_SENT", "BLE_AUTH1_SENT", "BLE_AUTH1_RESP_RECEIVED",
   "BLE_EXCHANGE_RECEIVED", "BLE_EXCHANGE_RESP_SENT", "BLE_CONTROL_FLOW_RECEIVED",
   "BLE_CONTROL_FLOW_RESP_SENT", "UNLOCK_REQUESTED", "AUTH_VERIFIED", "AUTH_FAILED",
   "markSessionReady"}

Keys == [label : {"none", "SmartCarFast", "SmartCarv1"}, ikm : Pairs, info : Pairs]

AuthTypeOK ==
  /\ adverse \in Environments
  /\ links \subseteq Links /\ link \in 0 .. MaxLinks
  /\ ownerStored \in BOOLEAN /\ fastArtifact \in BOOLEAN
  /\ s_authState \in AuthStates
  /\ s_session_keys_ready \in BOOLEAN /\ s_session_key \in Keys
  /\ s_ephemeral \in 0 .. MaxLinks
  /\ s_phone_data_received \in BOOLEAN /\ s_phone_ephemeral \in 0 .. MaxLinks
  /\ nonces \in Nat /\ s_challenge \in 0 .. nonces /\ s_sig \in 0 .. nonces
  /\ callback \in {"idle", "delay"} /\ notified \in BOOLEAN
  /\ worker \in WorkerSteps /\ derived \in Pairs
  /\ phone \in {"away", "linked", "auth1", "challenge", "exchange", "control", "done"}
  /\ isOwner \in BOOLEAN /\ tryFastPath \in BOOLEAN /\ phoneKey \in Keys
  /\ inbox \in Inbox
  /\ raised \in Seq(Calls)

AuthInit ==
  /\ adverse \in Environments
  /\ links = {} /\ link = 0 /\ ownerStored \in BOOLEAN /\ fastArtifact \in BOOLEAN
  /\ s_authState = "AUTH_IDLE" /\ s_session_keys_ready = FALSE /\ s_session_key = NoKey
  /\ s_ephemeral = 0 /\ s_phone_data_received = FALSE /\ s_phone_ephemeral = 0
  /\ nonces = 0 /\ s_challenge = 0 /\ s_sig = 0
  /\ callback = "idle" /\ notified = FALSE /\ worker = "wait" /\ derived = <<0, 0>>
  /\ phone = "away" /\ isOwner = FALSE /\ tryFastPath = FALSE /\ phoneKey = NoKey
  /\ inbox = EmptyInbox /\ raised = << >>

Raise(events) == raised' = events

\* sendTunnelResponse: a notification reaches the phone if its link is up; the
\* phone's completers keep the first frame of each kind.
Arrives(kind, v) ==
  IF link \in links /\ inbox[kind] = 0 THEN [inbox EXCEPT ![kind] = v] ELSE inbox
Send(kind, v) == inbox' = Arrives(kind, v)

\* A mistake: the worker is not woken.
NoNotify == UNCHANGED notified

\* xTaskNotifyGive: gives coalesce, ulTaskNotifyTake(pdTRUE) takes them all.
NotifyWorker == notified' = TRUE

WorkerIdle == worker = "wait" /\ ~notified
HostFree == callback = "idle"
Undisturbed == "dropMidWork" \in adverse \/ WorkerIdle
Answered == "promptPhone" \in adverse \/ worker = "wait"

-----------------------------------------------------------------------------
(* Links.                                                                    *)

ResetAuthState ==
  /\ s_authState' = "AUTH_IDLE"
  /\ s_session_keys_ready' = FALSE
  /\ s_session_key' = NoKey
  /\ s_ephemeral' = 0
  /\ s_phone_data_received' = FALSE
  /\ s_phone_ephemeral' = 0
  /\ s_challenge' = 0
  /\ s_sig' = 0

OnConnect ==
  /\ HostFree
  /\ links = {} \/ "overlap" \in adverse
  /\ link < MaxLinks
  /\ link' = link + 1
  /\ links' = links \cup {link'}
  /\ s_authState' = IF ownerStored THEN "AUTH_IDLE" ELSE "AUTH_FAILED"
  /\ s_session_keys_ready' = FALSE /\ s_session_key' = NoKey
  /\ s_ephemeral' = 0 /\ s_phone_data_received' = FALSE /\ s_phone_ephemeral' = 0
  /\ s_challenge' = 0 /\ s_sig' = 0
  /\ Raise(<<"BLE_CLIENT_CONNECTED">>)
  /\ phone' = "linked" /\ isOwner' \in BOOLEAN /\ tryFastPath' \in BOOLEAN
  /\ phoneKey' = NoKey /\ inbox' = EmptyInbox
  /\ UNCHANGED <<adverse, ownerStored, fastArtifact, nonces, callback, notified, workerVars>>

\* A mistake: the callback does not tell the state machine.
SilentEnd == << >>

LinkEnded == <<"BLE_CLIENT_DISCONNECTED">>

\* The phone leaves, gives up on a time-out, or the link's supervision ends.
OnDisconnect(l) ==
  /\ HostFree /\ Undisturbed
  /\ l \in links
  /\ links' = links \ {l}
  /\ ResetAuthState
  /\ Raise(LinkEnded)
  /\ IF l = link
     THEN /\ phone' = "away" /\ isOwner' = FALSE /\ tryFastPath' = FALSE
          /\ phoneKey' = NoKey /\ inbox' = EmptyInbox
     ELSE UNCHANGED <<phoneVars, inbox>>
  /\ UNCHANGED <<adverse, link, ownerStored, fastArtifact, nonces, callback, notified,
                 workerVars>>

\* Admin command 0x42, over any link.
ResetSession ==
  /\ HostFree /\ Undisturbed
  /\ links # {}
  /\ phone = "done" \/ "adminReset" \in adverse
  /\ ResetAuthState
  /\ Raise(<< >>)
  /\ UNCHANGED <<linkVars, nonces, callback, notified, workerVars, phoneVars, inbox>>

\* Admin command 0x01 or 0x02, or the serial "r" or "C".
ClearOwner ==
  /\ ownerStored \/ fastArtifact
  /\ ownerStored' = FALSE /\ fastArtifact' = FALSE
  /\ Raise(<< >>)
  /\ UNCHANGED <<adverse, links, link, sessionVars, nonces, callback, notified,
                 workerVars, phoneVars, inbox>>

-----------------------------------------------------------------------------
(* The tunnel commands, written by the phone and handled by the host task.   *)

FastTransaction == "slowOnly" \notin adverse

\* The fast path is off, the artifact is missing or of another version, or the
\* phone has no bond where one is asked for: it goes on with the standard path.
Auth0FastRefused ==
  /\ HostFree /\ phone = "linked" /\ tryFastPath
  /\ tryFastPath' = FALSE
  /\ Raise(<<"BLE_AUTH0_RECEIVED">>)
  /\ UNCHANGED <<linkVars, sessionVars, nonces, callback, notified, workerVars,
                 phone, isOwner, phoneKey, inbox>>

\* A mistake: the number of the last challenge is not moved on.
ChallengeNotCounted ==
  /\ s_challenge' = nonces + 1
  /\ UNCHANGED nonces

NewChallenge ==
  /\ nonces' = nonces + 1
  /\ s_challenge' = nonces'

\* derive_fast_session_keys and publish_auth_challenge(false).
Auth0Fast ==
  /\ HostFree /\ phone = "linked" /\ tryFastPath
  /\ FastTransaction /\ fastArtifact
  /\ s_session_keys_ready' = TRUE
  /\ s_session_key' = FastKey
  /\ NewChallenge
  /\ s_authState' = "AUTH_CHALLENGE_READY"
  /\ Send("challenge", s_challenge')
  /\ Raise(<<"BLE_AUTH0_RECEIVED", "BLE_AUTH0_RESP_SENT">>)
  /\ phone' = "challenge"
  /\ UNCHANGED <<linkVars, s_ephemeral, s_phone_data_received, s_phone_ephemeral,
                 s_sig, callback, notified, workerVars, isOwner, tryFastPath, phoneKey>>

\* There is no owner, or the phone has no bond where one is asked for.
Auth0StandardRefused ==
  /\ HostFree /\ phone = "linked" /\ ~tryFastPath
  /\ ~ownerStored \/ "bondingEnforce" \in adverse
  /\ Raise(<<"BLE_AUTH0_RECEIVED">>)
  /\ UNCHANGED <<linkVars, sessionVars, nonces, callback, notified, workerVars,
                 phoneVars, inbox>>

\* A mistake: one key pair serves every link.
KeyPairOfFirstLink == 1

EphemeralKeyPair == link

Auth0Standard ==
  /\ HostFree /\ phone = "linked" /\ ~tryFastPath
  /\ ownerStored
  /\ s_ephemeral' = EphemeralKeyPair
  /\ Send("auth0", s_ephemeral')
  /\ Raise(<<"BLE_AUTH0_RECEIVED", "BLE_AUTH0_RESP_SENT">>)
  /\ callback' = "delay"
  /\ phone' = "auth1"
  /\ UNCHANGED <<linkVars, s_authState, s_session_keys_ready, s_session_key,
                 s_phone_data_received, s_phone_ephemeral, s_challenge, s_sig, nonces,
                 notified, workerVars, isOwner, tryFastPath, phoneKey>>

\* After the 20 ms that keep the two notifications apart.
Auth0HandsOver ==
  /\ callback = "delay"
  /\ s_authState' = "AUTH_EPHEMERAL_READY"
  /\ NotifyWorker
  /\ callback' = "idle"
  /\ Raise(<< >>)
  /\ UNCHANGED <<linkVars, s_session_keys_ready, s_session_key, s_ephemeral,
                 s_phone_data_received, s_phone_ephemeral, s_challenge, s_sig, nonces,
                 workerVars, phoneVars, inbox>>

\* The phone has the AUTH1 payload, or has waited 5 s for it and falls back to
\* the ephemeral key of the AUTH0 response.
Auth1 ==
  /\ HostFree /\ phone = "auth1"
  /\ \/ inbox.auth1 # 0 /\ Answered
     \/ inbox.auth1 = 0 /\ WorkerIdle
  /\ s_phone_data_received' = TRUE
  /\ s_phone_ephemeral' = IF isOwner THEN link ELSE 0
  /\ s_authState' = "AUTH_VERIFYING_PHONE"
  /\ NotifyWorker
  /\ Raise(<<"BLE_AUTH1_RESP_RECEIVED">>)
  /\ phone' = "challenge"
  /\ phoneKey' = EcdhKey(IF inbox.auth1 # 0 THEN inbox.auth1 ELSE inbox.auth0, link)
  /\ UNCHANGED <<linkVars, s_session_keys_ready, s_session_key, s_ephemeral,
                 s_challenge, s_sig, nonces, callback, workerVars, isOwner,
                 tryFastPath, inbox>>

\* EXCHANGE with the signature of the challenge the phone was sent.
ExchangeSignature ==
  /\ HostFree /\ phone = "challenge"
  /\ inbox.challenge # 0 /\ Answered
  /\ phone' = "exchange"
  /\ IF s_authState = "AUTH_CHALLENGE_READY"
     THEN /\ s_sig' = IF isOwner THEN inbox.challenge ELSE 0
          /\ s_authState' = "AUTH_VERIFYING_RESPONSE"
          /\ NotifyWorker
          /\ Raise(<<"BLE_EXCHANGE_RECEIVED">>)
          /\ UNCHANGED inbox
     ELSE /\ IF s_session_keys_ready
             THEN /\ Send("ack", 1)
                  /\ Raise(<<"BLE_EXCHANGE_RECEIVED", "BLE_EXCHANGE_RESP_SENT">>)
             ELSE Raise(<<"BLE_EXCHANGE_RECEIVED">>) /\ UNCHANGED inbox
          /\ UNCHANGED <<s_sig, s_authState, notified>>
  /\ UNCHANGED <<linkVars, s_session_keys_ready, s_session_key, s_ephemeral,
                 s_phone_data_received, s_phone_ephemeral, s_challenge, nonces,
                 callback, workerVars, isOwner, tryFastPath, phoneKey>>

\* The phone takes the acknowledgement and goes on to CONTROL FLOW.
PhoneAccepted ==
  /\ phone = "exchange" /\ inbox.ack # 0
  /\ phone' = "control"
  /\ Raise(<< >>)
  /\ UNCHANGED <<linkVars, sessionVars, nonces, callback, notified, workerVars,
                 isOwner, tryFastPath, phoneKey, inbox>>

ControlFlow ==
  /\ HostFree /\ phone = "control"
  /\ IF s_session_keys_ready
     THEN /\ Send("control", 1)
          /\ Raise(<<"BLE_CONTROL_FLOW_RECEIVED", "UNLOCK_REQUESTED",
                     "BLE_CONTROL_FLOW_RESP_SENT">>)
          /\ phone' = "done"
     ELSE /\ Raise(<<"BLE_CONTROL_FLOW_RECEIVED">>)
          /\ UNCHANGED <<inbox, phone>>
  /\ UNCHANGED <<linkVars, sessionVars, nonces, callback, notified, workerVars,
                 isOwner, tryFastPath, phoneKey>>

-----------------------------------------------------------------------------
(* The worker task.                                                          *)

WorkerGoes(to) == worker' = to
SetAuthState(s) ==
  /\ s_authState' = s
  /\ UNCHANGED <<s_session_keys_ready, s_session_key, s_ephemeral,
                 s_phone_data_received, s_phone_ephemeral, s_challenge, s_sig>>
WorkerKeeps ==
  UNCHANGED <<linkVars, callback, phoneVars>>

\* ulTaskNotifyTake returns and the switch reads the state.
WorkerWakes ==
  /\ worker = "wait" /\ notified
  /\ notified' = FALSE
  /\ WorkerGoes(CASE s_authState = "AUTH_EPHEMERAL_READY"    -> "sign"
                  [] s_authState = "AUTH_VERIFYING_PHONE"    -> "verify"
                  [] s_authState = "AUTH_VERIFYING_RESPONSE" -> "check"
                  [] OTHER                                   -> "wait")
  /\ Raise(<< >>)
  /\ UNCHANGED <<sessionVars, nonces, derived, inbox>>
  /\ WorkerKeeps

\* Without its random numbers, which are seeded once at boot, signVehicleDataP256
\* refuses every signature.
SignVehicleData == "noSignature" \notin adverse

\* sign_ephemeral_with_device_key: the AUTH1 payload goes out first; when it
\* cannot be made nobody is told ...
Sign ==
  /\ worker = "sign"
  /\ IF ownerStored /\ SignVehicleData
     THEN /\ Send("auth1", s_ephemeral)
          /\ Raise(<<"BLE_AUTH1_SENT">>)
          /\ WorkerGoes("signed")
          /\ UNCHANGED sessionVars
     ELSE /\ SetAuthState("AUTH_FAILED")
          /\ Raise(<< >>)
          /\ WorkerGoes("wait")
          /\ UNCHANGED inbox
  /\ UNCHANGED <<nonces, notified, derived>>
  /\ WorkerKeeps

\* ... and the state is set afterwards.
Signed ==
  /\ worker = "signed"
  /\ SetAuthState("AUTH_WAITING_FOR_PHONE")
  /\ WorkerGoes("wait")
  /\ Raise(<< >>)
  /\ UNCHANGED <<nonces, notified, derived, inbox>>
  /\ WorkerKeeps

\* verify_phone_signature reads the data and the owner's key ...
VerifyPhone ==
  /\ worker = "verify"
  /\ WorkerGoes(IF s_phone_data_received /\ ownerStored /\ s_phone_ephemeral # 0
                THEN "verified" ELSE "rejected")
  /\ Raise(<< >>)
  /\ UNCHANGED <<sessionVars, nonces, notified, derived, inbox>>
  /\ WorkerKeeps

\* ... and moves on when the public-key operation is done.
PhoneVerified ==
  /\ worker = "verified"
  /\ SetAuthState("AUTH_COMPUTING_SHARED_SECRET")
  /\ WorkerGoes("derive")
  /\ Raise(<< >>)
  /\ UNCHANGED <<nonces, notified, derived, inbox>>
  /\ WorkerKeeps

PhoneRejected ==
  /\ worker = "rejected"
  /\ SetAuthState("AUTH_FAILED")
  /\ WorkerGoes("wait")
  /\ Raise(<<"AUTH_FAILED">>)
  /\ UNCHANGED <<nonces, notified, derived, inbox>>
  /\ WorkerKeeps

\* compute_shared_secret_and_session_keys: the secret.  Without a key pair, or with
\* a zeroed phone key, mbedTLS fails and the worker only refuses the command.
Derive ==
  /\ worker = "derive"
  /\ IF s_ephemeral # 0 /\ s_phone_ephemeral # 0
     THEN /\ derived' = <<s_ephemeral, s_phone_ephemeral>>
          /\ WorkerGoes("expand")
          /\ UNCHANGED sessionVars
     ELSE /\ SetAuthState("AUTH_FAILED")
          /\ WorkerGoes("wait")
          /\ UNCHANGED derived
  /\ Raise(<< >>)
  /\ UNCHANGED <<nonces, notified, inbox>>
  /\ WorkerKeeps

\* The keys are expanded from the secret and the public keys as they stand now ...
ExpandKeys ==
  /\ worker = "expand"
  /\ s_session_key' = Hkdf("SmartCarv1", derived, <<s_ephemeral, s_phone_ephemeral>>)
  /\ derived' = <<0, 0>>
  /\ WorkerGoes("ready")
  /\ Raise(<< >>)
  /\ UNCHANGED <<s_authState, s_session_keys_ready, s_ephemeral, s_phone_data_received,
                 s_phone_ephemeral, s_challenge, s_sig, nonces, notified, inbox>>
  /\ WorkerKeeps

\* ... and declared ready whatever became of the session meanwhile.
KeysReady ==
  /\ worker = "ready"
  /\ s_session_keys_ready' = TRUE
  /\ WorkerGoes("publish")
  /\ Raise(<< >>)
  /\ UNCHANGED <<s_authState, s_session_key, s_ephemeral, s_phone_data_received,
                 s_phone_ephemeral, s_challenge, s_sig, nonces, notified, derived, inbox>>
  /\ WorkerKeeps

\* publish_auth_challenge: the challenge is made and sent ...
Publish ==
  /\ worker = "publish"
  /\ NewChallenge
  /\ inbox' = IF inbox.challenge = 0 THEN Arrives("challenge", s_challenge')
                                     ELSE Arrives("ack", 1)
  /\ WorkerGoes("published")
  /\ Raise(<< >>)
  /\ UNCHANGED <<s_authState, s_session_keys_ready, s_session_key, s_ephemeral,
                 s_phone_data_received, s_phone_ephemeral, s_sig, notified, derived>>
  /\ WorkerKeeps

\* ... and the state that expects the answer is set afterwards.
Published ==
  /\ worker = "published"
  /\ SetAuthState("AUTH_CHALLENGE_READY")
  /\ WorkerGoes("wait")
  /\ Raise(<< >>)
  /\ UNCHANGED <<nonces, notified, derived, inbox>>
  /\ WorkerKeeps

\* A mistake: the result of the verification is not looked at.
AnySignature == ownerStored

VerifySignatureP256(data, sig) == sig # 0 /\ sig = data

SignatureHolds == ownerStored /\ VerifySignatureP256(s_challenge, s_sig)

\* verify_challenge_signature_and_finalize
CheckResponse ==
  /\ worker = "check"
  /\ WorkerGoes(IF SignatureHolds THEN "granted" ELSE "denied")
  /\ Raise(<< >>)
  /\ UNCHANGED <<sessionVars, nonces, notified, derived, inbox>>
  /\ WorkerKeeps

\* A mistake: the keys are wiped once they have served.
GrantedAndWiped ==
  /\ worker = "granted"
  /\ s_authState' = "AUTH_SESSION_READY"
  /\ s_session_keys_ready' = FALSE /\ s_session_key' = NoKey
  /\ WorkerGoes("mark")
  /\ Raise(<< >>)
  /\ UNCHANGED <<s_ephemeral, s_phone_data_received, s_phone_ephemeral, s_challenge,
                 s_sig, nonces, notified, derived, inbox>>
  /\ WorkerKeeps

Granted ==
  /\ worker = "granted"
  /\ SetAuthState("AUTH_SESSION_READY")
  /\ WorkerGoes("mark")
  /\ Raise(<< >>)
  /\ UNCHANGED <<nonces, notified, derived, inbox>>
  /\ WorkerKeeps

\* A mistake: the event alone is thought to be enough.
NoMark == << >>

ReadyMark == <<"markSessionReady">>

\* onAuthVerified: markSessionReady ...
MarkVerified ==
  /\ worker = "mark"
  /\ WorkerGoes("tell")
  /\ Raise(ReadyMark)
  /\ UNCHANGED <<sessionVars, nonces, notified, derived, inbox>>
  /\ WorkerKeeps

\* ... then the event.
TellVerified ==
  /\ worker = "tell"
  /\ WorkerGoes("acknowledge")
  /\ Raise(<<"AUTH_VERIFIED">>)
  /\ UNCHANGED <<sessionVars, nonces, notified, derived, inbox>>
  /\ WorkerKeeps

Acknowledge ==
  /\ worker = "acknowledge"
  /\ Send("ack", 1)
  /\ WorkerGoes("wait")
  /\ Raise(<<"BLE_EXCHANGE_RESP_SENT">>)
  /\ UNCHANGED <<sessionVars, nonces, notified, derived>>
  /\ WorkerKeeps

Denied ==
  /\ worker = "denied"
  /\ SetAuthState("AUTH_FAILED")
  /\ WorkerGoes("wait")
  /\ Raise(<<"AUTH_FAILED">>)
  /\ UNCHANGED <<nonces, notified, derived, inbox>>
  /\ WorkerKeeps

-----------------------------------------------------------------------------
WorkerTask ==
  \/ WorkerWakes \/ Sign \/ Signed \/ VerifyPhone \/ PhoneVerified \/ PhoneRejected
  \/ Derive \/ ExpandKeys \/ KeysReady \/ Publish \/ Published \/ CheckResponse \/ Granted
  \/ MarkVerified \/ TellVerified \/ Acknowledge \/ Denied

Phone ==
  \/ Auth0FastRefused \/ Auth0Fast \/ Auth0Standard \/ Auth1 \/ ExchangeSignature
  \/ PhoneAccepted \/ ControlFlow

AuthNext ==
  \/ WorkerTask
  \/ Phone
  \/ Auth0StandardRefused
  \/ Auth0HandsOver
  \/ OnConnect
  \/ \E l \in Links : OnDisconnect(l)
  \/ ResetSession
  \/ ClearOwner

AuthSpec == AuthInit /\ [][AuthNext]_authVars

-----------------------------------------------------------------------------
(* PHASE_A_AND_PHASE_B.md: "AUTH_GRANTED, (BLE disconnect), AUTH_IDLE".      *)
(* Whatever the worker was doing for the link that ended, with no link up    *)
(* the session is idle and holds no keys.                                    *)
IdleWithoutLink ==
  links = {} => s_authState = "AUTH_IDLE" /\ ~s_session_keys_ready

(* "Each connection derives unique session keys": the keys in place were     *)
(* derived from the ephemeral keys of the newest link on both sides, never   *)
(* from what an earlier phone left behind (the fast path, which derives the  *)
(* same keys every time, aside), unless a link came up or ended, or the      *)
(* session was reset, under the worker.                                      *)
KeysOfThisLink ==
  (/\ adverse \cap {"overlap", "dropMidWork"} = {}
   /\ s_session_keys_ready /\ s_session_key # FastKey)
    => s_session_key = EcdhKey(link, link)

(* What the agreement of phone and vehicle does not depend on.               *)
Benign == {"noSignature", "bondingEnforce", "slowOnly"}

(* Agreement.  A phone that takes the EXCHANGE as accepted, and so sends     *)
(* CONTROL FLOW, is facing a vehicle that verified its signature on this     *)
(* link: "During standard auth flow, EXCHANGE carries challenge signature".  *)
AcceptedMeansVerified ==
  adverse \subseteq Benign /\ phone = "control" =>
    isOwner /\ s_authState = "AUTH_SESSION_READY"

(* A phone that went through the standard path and was accepted holds the    *)
(* session keys the vehicle holds.                                           *)
BothHoldTheKeys ==
  adverse \subseteq Benign /\ phone = "control" /\ phoneKey # NoKey =>
    s_session_keys_ready /\ s_session_key = phoneKey

(* No answer of the phone is lost: a phone of the owner that sent AUTH1 or   *)
(* its signature ends up done, unless its link or the owner's key goes; also *)
(* when the vehicle cannot sign AUTH1 and the phone is left to its time-out. *)
OwnerGetsThrough ==
  (/\ adverse \subseteq Benign
   /\ phone \in {"auth1", "challenge", "exchange"} /\ isOwner)
    ~> (phone = "done" \/ link \notin links \/ ~ownerStored)
=============================================================================
