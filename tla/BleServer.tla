----------------------------- MODULE BleServer -----------------------------
(***************************************************************************)
(* The BLE server around the tunnel: advertising with its fast window      *)
(* (iot/src/ble/ble.cpp), the vehicle's clock, which a phone sets in       *)
(* EXCHANGE (the other half of the handlers of BleAuth), and the           *)
(* attestation service that depends on it (ble_attestation.cpp).           *)
(*                                                                         *)
(* The callbacks and the attestation run on the BLE host task, the end of  *)
(* the fast window is noticed by the loop task: it reads the advertising   *)
(* state, works out a profile and applies it in separate steps.  The radio *)
(* itself is external: a connection stops it, startAdvertising starts it.  *)
(***************************************************************************)
EXTENDS BleAuth

CONSTANT FAST_WINDOW  (* advFastWindowMs, in steps of the clock              *)

ASSUME FastWindowAssumption == FAST_WINDOW \in Nat \ {0}

VARIABLES
  advertising,            (* the radio advertises                            *)
  profile,                (* of s_advState                                   *)
  fastWindow,             (* steps until its deadline, 0 once it is over     *)
  openFor,                (* history: the steps for which it has been open   *)
  loopTask,               (* tick: "idle", in the policy, or with the        *)
                          (* profile it is about to apply                    *)
  s_exchange_epoch,       (* the phone's time in EXCHANGE: whose, or         *)
                          (* "outOfRange", or "none"                         *)
  rtc,                    (* whose time the vehicle's clock runs on:         *)
                          (* "refreshed" when someone other than an owner    *)
                          (* set it by a refresh                             *)
  attested                (* the answer to the last attestation that named   *)
                          (* this vehicle and bore a signature that holds    *)

advVars == <<advertising, profile, fastWindow, openFor, loopTask>>
timeVars == <<s_exchange_epoch, rtc, attested>>
serverVars == <<authVars, advVars, timeVars>>

Owners == {"owner", "stranger"}

ServerTypeOK ==
  /\ AuthTypeOK
  /\ advertising \in BOOLEAN /\ profile \in {"Fast", "Slow"}
  /\ fastWindow \in 0 .. FAST_WINDOW /\ openFor \in Nat
  /\ loopTask \in {"idle", "policy", "Fast", "Slow"}
  /\ s_exchange_epoch \in Owners \cup {"none", "outOfRange"}
  /\ rtc \in Owners \cup {"unset", "refreshed"}
  /\ attested \in {"none", "ERR_TIME", "ERR_SLOT", "ERR_SLOT_LOCKED"}

\* begin ends with restartAdvertising(true, "boot").
ServerInit ==
  /\ AuthInit
  /\ advertising = TRUE /\ profile = "Fast" /\ fastWindow = FAST_WINDOW /\ openFor = 0
  /\ loopTask = "idle"
  /\ s_exchange_epoch = "none" /\ rtc = "unset" /\ attested = "none"

-----------------------------------------------------------------------------
(* Advertising.                                                              *)

FastWindowActive == fastWindow > 0

\* A mistake: every restart opens the window anew.
WindowProlonged == fastWindow' = FAST_WINDOW /\ UNCHANGED openFor

\* A window that is open is not extended.
OpenFastWindow ==
  IF FastWindowActive
  THEN UNCHANGED <<fastWindow, openFor>>
  ELSE fastWindow' = FAST_WINDOW /\ openFor' = 0

\* applyAdvertisingPolicy(true, ...): with the window open the profile is Fast.
RestartAdvertising ==
  /\ OpenFastWindow
  /\ profile' = "Fast"
  /\ advertising' = TRUE
  /\ UNCHANGED loopTask

\* A mistake: it is left to the radio to go on after a link.
LeftToTheRadio == UNCHANGED advVars

AfterDisconnect == RestartAdvertising

\* tick, every round of loop(): the window is over and the profile still Fast.
WindowElapsed ==
  /\ loopTask = "idle"
  /\ ~FastWindowActive /\ profile = "Fast"
  /\ loopTask' = "policy"
  /\ UNCHANGED <<authVars, advertising, profile, fastWindow, openFor, timeVars>>

\* applyAdvertisingPolicy(false, ...) looks at the window again ...
ChooseProfile ==
  /\ loopTask = "policy"
  /\ loopTask' = IF FastWindowActive THEN "Fast" ELSE "Slow"
  /\ UNCHANGED <<authVars, advertising, profile, fastWindow, openFor, timeVars>>

\* ... sets the intervals, notes the profile and starts advertising, link or not.
ApplyProfile ==
  /\ loopTask \in {"Fast", "Slow"}
  /\ profile' = loopTask
  /\ advertising' = TRUE
  /\ loopTask' = "idle"
  /\ UNCHANGED <<authVars, fastWindow, openFor, timeVars>>

WindowRunsDown ==
  /\ FastWindowActive
  /\ fastWindow' = fastWindow - 1
  /\ openFor' = openFor + 1
  /\ UNCHANGED <<authVars, advertising, profile, loopTask, timeVars>>

-----------------------------------------------------------------------------
(* Links.  reset_auth_state forgets the phone's time with the rest.          *)

EpochForgotten == s_exchange_epoch' = "none" /\ UNCHANGED <<rtc, attested>>

Connect ==
  /\ advertising
  /\ OnConnect
  /\ advertising' = FALSE
  /\ EpochForgotten
  /\ UNCHANGED <<profile, fastWindow, openFor, loopTask>>

Disconnect ==
  /\ \E l \in links : OnDisconnect(l)
  /\ AfterDisconnect
  /\ EpochForgotten

-----------------------------------------------------------------------------
(* The clock.  Every phone bundles its time with the signature; the worker   *)
(* sets the clock when the signature holds, if the time is in range.         *)

PhoneTimes == {IF isOwner THEN "owner" ELSE "stranger", "outOfRange"}

ExchangeWithTime ==
  /\ ExchangeSignature
  /\ IF s_authState = "AUTH_CHALLENGE_READY"
     THEN s_exchange_epoch' \in PhoneTimes
     ELSE UNCHANGED s_exchange_epoch
  /\ UNCHANGED <<advVars, rtc, attested>>

SetClock(epoch) == rtc' = IF epoch \in Owners THEN epoch ELSE rtc

VerifiedWithTime ==
  /\ MarkVerified
  /\ SetClock(s_exchange_epoch)
  /\ s_exchange_epoch' = "none"
  /\ UNCHANGED <<advVars, attested>>

\* A mistake: anyone may set the clock.
AnyoneRefreshes == TRUE

RefreshAllowed == s_session_keys_ready

\* The newest phone, if it is not an owner's, for the owner's application sends
\* none before it is done; any phone at all when another link is up too.
Refreshers ==
  {w \in Owners : \/ links # {link}
                  \/ w = "owner" /\ isOwner /\ phone = "done"
                  \/ w = "stranger" /\ ~isOwner}

\* EXCHANGE with P1 = 0x10, "post-auth time sync refresh", at any time: with a
\* time in range, a time out of range or none, and the signature it must carry,
\* which is read into the buffer of the one that may be under verification.
RefreshClock ==
  /\ HostFree /\ links # {}
  /\ s_authState # "AUTH_CHALLENGE_READY" /\ RefreshAllowed
  /\ \E who \in Refreshers, time \in {"inRange", "outOfRange", "none"} :
       /\ s_sig' \in {0} \cup (IF who = "owner" THEN {inbox.challenge} ELSE {})
       /\ rtc' = IF time # "inRange" THEN rtc
                 ELSE IF who = "owner" THEN "owner" ELSE "refreshed"
       /\ s_exchange_epoch' = IF time = "none" THEN s_exchange_epoch ELSE "none"
  /\ Raise(<<"BLE_EXCHANGE_RECEIVED", "BLE_EXCHANGE_RESP_SENT">>)
  /\ UNCHANGED <<linkVars, s_authState, s_session_keys_ready, s_session_key,
                 s_ephemeral, s_phone_data_received, s_phone_ephemeral, s_challenge,
                 nonces, callback, notified, workerVars, phoneVars, inbox, advVars,
                 attested>>

-----------------------------------------------------------------------------
(* AttestWriteCallbacks, for whoever is connected.                           *)

EpochNow == rtc # "unset"

Verdict(dated, slot) ==
  IF ~(EpochNow /\ dated) THEN "ERR_TIME"
  ELSE IF slot \notin 1 .. 7 THEN "ERR_SLOT"
  ELSE "ERR_SLOT_LOCKED"

\* A package for this vehicle that the stored owner signed, with dates that hold
\* or not, for a slot that exists or not; any other is refused before its dates
\* are looked at, and leaves nothing behind.
AttestWrite ==
  /\ HostFree /\ links # {}
  /\ ownerStored
  /\ \E dated \in BOOLEAN, slot \in {0, 1} : attested' = Verdict(dated, slot)
  /\ Raise(<< >>)
  /\ UNCHANGED <<linkVars, sessionVars, nonces, callback, notified, workerVars,
                 phoneVars, inbox, advVars, s_exchange_epoch, rtc>>

-----------------------------------------------------------------------------
OtherWork ==
  \/ WorkerWakes \/ Sign \/ Signed \/ VerifyPhone \/ PhoneVerified \/ PhoneRejected
  \/ Derive \/ ExpandKeys \/ KeysReady \/ Publish \/ Published \/ CheckResponse \/ Granted
  \/ TellVerified \/ Acknowledge \/ Denied
OtherCommands ==
  \/ Auth0FastRefused \/ Auth0Fast \/ Auth0Standard \/ Auth1 \/ PhoneAccepted
  \/ ControlFlow
Alone(action) == action /\ UNCHANGED <<advVars, timeVars>>

ServerWorker == Alone(OtherWork) \/ VerifiedWithTime
ServerPhone == Alone(OtherCommands) \/ ExchangeWithTime
LoopTask == WindowElapsed \/ ChooseProfile \/ ApplyProfile

ServerNext ==
  \/ ServerWorker
  \/ ServerPhone
  \/ Alone(Auth0HandsOver)
  \/ Alone(Auth0StandardRefused)
  \/ Alone(ClearOwner)
  \/ ResetSession /\ EpochForgotten /\ UNCHANGED advVars
  \/ Connect \/ Disconnect
  \/ RefreshClock \/ AttestWrite
  \/ LoopTask \/ WindowRunsDown

ServerSpec == ServerInit /\ [][ServerNext]_serverVars

(* FreeRTOS runs the worker and the host task whenever they are ready, and a *)
(* phone that has what it waits for goes on.  That a link ends is never      *)
(* assumed, and nothing is asked of the loop task, which the console may     *)
(* hold up, or of the clock.                                                 *)
ServerFairSpec ==
  /\ ServerSpec
  /\ WF_serverVars(ServerWorker)
  /\ WF_serverVars(ServerPhone)
  /\ WF_serverVars(Alone(Auth0HandsOver))

-----------------------------------------------------------------------------
(* ble_auth.cpp, onDisconnect: "Restart advertising so device can be         *)
(* discovered again".  Without a link the vehicle advertises, whatever the   *)
(* loop task does to the profile meanwhile and however links overlap.        *)
Discoverable == links = {} => advertising

(* PAPER.md 6.3, "bounded fast window": however many links come and go while *)
(* it is open, it is over FAST_WINDOW steps after it was opened.             *)
WindowBounded == openFor =< FAST_WINDOW

(* README.md 7, "Time window must be valid (trusted epoch required)": a      *)
(* package whose dates were accepted was compared with the time of a phone   *)
(* that had proved to be an owner's; never with a time sent along before it  *)
(* was verified, and never with a clock that was not set.  The refresh asks  *)
(* for session keys alone, which the fast path gives a phone before it is    *)
(* verified: such a phone's refresh counts as well, and with the fast path   *)
(* off no phone but an owner's ever sets the clock.                          *)
TrustedVerdict ==
  (/\ adverse \cap {"overlap", "dropMidWork"} = {}
   /\ attested \in {"ERR_SLOT", "ERR_SLOT_LOCKED"})
    => rtc = "owner" \/ (rtc = "refreshed" /\ FastTransaction)
=============================================================================
