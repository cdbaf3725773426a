--------------------------- MODULE NfcProvisioning ---------------------------
(***************************************************************************)
(* Phase A: the dialogue by which a phone held to the reader becomes the   *)
(* owner.  nfcTask's half is nfc_session.cpp over the PN532 driver; the    *)
(* phone's half is ProvisioningHostApduService.kt, MasterCardSession.kt    *)
(* and the flow of master_card_flow.dart.  The operator changes the owner  *)
(* record and the force flags meanwhile, over BLE.                         *)
(*                                                                         *)
(* A challenge is this session's or an old one, since every session draws  *)
(* a new nonce; a MAC or a signature is who made it and over which         *)
(* challenge; a key is the phone that holds it.  CccMailbox has the writes *)
(* a commit consists of.                                                   *)
(***************************************************************************)
EXTENDS Naturals, FiniteSets

CONSTANTS
  Phones,      (* phones that run the app, their users logged in             *)
  Holders,     (* those whose user has the vehicle's master card             *)
  NoPhone,
  Rounds, Passes,    (* rounds of REQUEST and VERIFY, passes of the base     *)
                     (* GET DATA: 4 and 3 in the code                        *)
  MaxReselections,   (* bound: reselections of one call, 2 to 6 in the code  *)
  MaxLosses,         (* bound: APDUs, answers and reselections lost          *)
  MaxArmings         (* bound: times the operator arms a force flag          *)

ASSUME HoldersAssumption == Holders \subseteq Phones
ASSUME NoPhoneAssumption == NoPhone \notin Phones
ASSUME BoundsAssumption ==
  /\ {Rounds, Passes, MaxReselections} \subseteq Nat \ {0}
  /\ {MaxLosses, MaxArmings} \subseteq Nat

VARIABLES
  (* the field *)
  at,           (* the phone at the reader                                   *)
  linked,       (* the PN532 has it listed (targetActive)                    *)
  selected,     (* aidSelected of that phone                                 *)
  late,         (* an answer still on its way when its exchange was given up *)
  losses,
  faults,       (* "swap": a phone may take another's place in a session;    *)
                (* "stale": a late answer is taken for the next one          *)
  (* nfcTask *)
  step, left, attempts, pass,
  shouldForce,
  base,         (* the phone whose key the session goes by (BaseInfo)        *)
  (* the vehicle's record *)
  owner, force,
  (* the phones *)
  challenge,    (* the challenge each one has pending                        *)
  master,       (* those with an active MasterCardSession                    *)
  (* history: in this session, who ...                                      *)
  visitor,      (* was there when it began                                   *)
  macced, signed,  (* made a MAC, a signature over its challenge             *)
  bound,        (* stored the vehicle's binding                              *)
  enrolled,     (* became the owner                                          *)
  told,         (* was sent the result (provision_result)                    *)
  armed, replaced  (* history: how often force was armed, an owner replaced  *)

fieldVars == <<at, linked, selected, late, losses, faults>>
taskVars == <<step, left, attempts, pass, shouldForce, base>>
recordVars == <<owner, force>>
phoneVars == <<challenge, master>>
sessionVars == <<visitor, macced, signed, bound, enrolled, told>>
historyVars == <<sessionVars, armed, replaced>>
nfcVars == <<fieldVars, taskVars, recordVars, phoneVars, historyVars>>

Challenges == {"this", "old", "none"}
Apdus == {"select", "request", "verify", "base", "write", "sign", "op_control", "result"}
Calls == {"select", "request", "request_again", "verify", "base", "write", "sign",
          "op_control", "result_select", "result"}
Waits == {"idle", "removal", "cooldown"}
Silence == [apdu |-> "none", ok |-> FALSE, from |-> NoPhone, over |-> "none"]

Replies == [apdu : Apdus, ok : BOOLEAN, from : Phones, over : Challenges]

NfcTypeOK ==
  /\ at \in Phones \cup {NoPhone} /\ {linked, selected} \subseteq BOOLEAN
  /\ late \in Replies \cup {Silence}
  /\ losses \in 0 .. MaxLosses /\ faults \subseteq {"swap", "stale"}
  /\ step \in Calls \cup Waits \cup {"again", "anyway", "perform", "sign_again", "op_select",
                                     "store", "finish"}
  /\ left \in 0 .. 3 /\ attempts \in 0 .. MaxReselections /\ pass \in 1 .. Rounds \cup 1 .. Passes \cup {2}
  /\ shouldForce \in BOOLEAN /\ base \in Phones \cup {NoPhone}
  /\ owner \in Phones \cup {NoPhone} /\ force \in BOOLEAN
  /\ challenge \in [Phones -> Challenges]
  /\ {master, bound, told, macced, signed} \subseteq SUBSET Phones
  /\ {visitor, enrolled} \subseteq Phones \cup {NoPhone}
  /\ armed \in 0 .. MaxArmings /\ replaced \in Nat

NfcInit ==
  /\ at = NoPhone /\ linked = FALSE /\ selected = FALSE /\ late = Silence /\ losses = 0
  /\ faults \in {{}, {"swap", "stale"}}
  /\ step = "idle" /\ left = 0 /\ attempts = 0 /\ pass = 1
  /\ shouldForce = FALSE /\ base = NoPhone
  /\ owner \in Phones \cup {NoPhone} /\ force = FALSE
  /\ challenge = [p \in Phones |-> "none"] /\ master = {}
  /\ visitor = NoPhone /\ macced = {} /\ signed = {} /\ bound = {}
  /\ enrolled = NoPhone /\ told = {}
  /\ armed = 0 /\ replaced = 0

-----------------------------------------------------------------------------
(* One exchange: PN532::inDataExchange, and processCommandApdu of the phone. *)

\* Everything but SELECT and the result needs the applet selected; VERIFY needs a
\* challenge and an active master session.
Serves(apdu) ==
  \/ apdu \in {"select", "result"}
  \/ /\ selected
     /\ apdu = "verify" => challenge[at] # "none" /\ at \in master

ReplyTo(apdu) ==
  [apdu |-> apdu, ok |-> Serves(apdu), from |-> at,
   over |-> IF ~Serves(apdu) THEN "none"
            ELSE CASE apdu = "verify" -> challenge[at]
                   [] apdu = "sign"   -> "this"
                   [] OTHER           -> "none"]

\* What the handlers store; VERIFY uses the challenge up.
PhoneDoes(apdu) ==
  LET served(a) == apdu = a /\ Serves(a)
      joins(set, a) == IF served(a) THEN set \cup {at} ELSE set
  IN /\ selected' = (selected \/ apdu = "select")
     /\ challenge' = CASE served("request") -> [challenge EXCEPT ![at] = "this"]
                       [] served("verify")  -> [challenge EXCEPT ![at] = "none"]
                       [] OTHER             -> challenge
     /\ bound' = joins(bound, "write")
     /\ told' = joins(told, "result")
     /\ macced' = IF served("verify") /\ challenge[at] = "this"
                  THEN macced \cup {at} ELSE macced
     /\ signed' = joins(signed, "sign")

PhoneIdle == UNCHANGED <<selected, challenge, bound, told, macced, signed>>

\* The exchange ends with reply, or with Silence: no ACK from the PN532, no phone to
\* talk to, the APDU lost, or its answer.  Base credentials may not be ready yet.
Exchange(apdu, reply) ==
  \/ /\ ~linked
     /\ reply = Silence /\ PhoneIdle /\ UNCHANGED <<late, losses>>
  \/ /\ linked
     /\ PhoneDoes(apdu)
     /\ UNCHANGED losses
     /\ \/ reply = ReplyTo(apdu) /\ late' = Silence
        \/ late # Silence /\ reply = late /\ late' = ReplyTo(apdu)
  \/ /\ linked /\ losses < MaxLosses /\ losses' = losses + 1
     /\ \/ reply = Silence /\ PhoneIdle /\ UNCHANGED late
        \/ /\ reply = Silence /\ PhoneDoes(apdu)
           /\ late' = IF "stale" \in faults THEN ReplyTo(apdu) ELSE late
        \/ /\ apdu = "base" /\ late = Silence
           /\ reply = [ReplyTo(apdu) EXCEPT !.ok = FALSE]
           /\ PhoneIdle /\ UNCHANGED late

PossibleReplies(apdu) ==
  {Silence} \cup
    IF linked THEN {ReplyTo(apdu), [ReplyTo(apdu) EXCEPT !.ok = FALSE], late} ELSE {}

\* releaseTarget, then ensureSelected: the target is listed again and the applet
\* selected, or the time is up.
Reselected ==
  /\ at # NoPhone
  /\ linked' = TRUE /\ selected' = TRUE /\ late' = Silence
  /\ UNCHANGED losses

ReselectFails ==
  /\ linked' = FALSE /\ selected' = FALSE /\ late' = Silence
  /\ IF at = NoPhone THEN UNCHANGED losses
     ELSE losses < MaxLosses /\ losses' = losses + 1

Released == linked' = FALSE /\ selected' = FALSE /\ late' = Silence

-----------------------------------------------------------------------------
(* Where a call goes when it has succeeded, and when it is given up.         *)

Call(s, inPlace, reselections) ==
  /\ step' = s /\ left' = inPlace
  /\ attempts' = IF reselections < MaxReselections THEN reselections ELSE MaxReselections

Goto(s) == Call(s, 0, 0)

\* performProvisioningIfNeeded returned false.
Abort == Goto("cooldown") /\ UNCHANGED pass

\* A mistake: the rounds are not counted.
RoundsForever == Goto("again") /\ pass' = pass + 1

NextRound ==
  IF pass < Rounds THEN Goto("again") /\ pass' = pass + 1 ELSE Abort

NextPass(inPlace) ==
  IF pass < Passes THEN Call("base", inPlace, 4) /\ pass' = pass + 1 ELSE Abort

\* A mistake: the vehicle goes on although the phone has not stored its binding.
WriteOptional == Call("sign", 2, 5) /\ UNCHANGED pass

WriteFailed == Abort

GiveUp ==
  CASE step = "request"       -> Call("request_again", 1, 2) /\ UNCHANGED pass
    [] step = "request_again" -> Goto("anyway") /\ UNCHANGED pass
    [] step = "verify"        -> NextRound
    [] step = "base"          -> NextPass(1)
    [] step = "write"         -> WriteFailed
    [] step = "sign" /\ pass = 1 -> Goto("sign_again") /\ UNCHANGED pass
    [] step \in {"result_select", "result"} -> Goto("finish") /\ UNCHANGED pass
    [] OTHER                  -> Abort

\* A mistake: a result that is not acknowledged is not repeated.
ResultOnce == 1

ResultTries == 2

\* One try of apduRetry or of apduRetryWithReselect, and what follows its failure.
Try(apdu, reply) ==
  /\ left > 0
  /\ Exchange(apdu, reply)
  /\ UNCHANGED <<at, linked, faults, shouldForce, recordVars, master, visitor, enrolled,
                 armed, replaced>>

Unanswered ==
  IF left > 1 \/ attempts > 0
  THEN left' = left - 1 /\ UNCHANGED <<step, attempts, pass>>
  ELSE GiveUp

\* The next of the tries that begin with a reselection.
Reselect ==
  /\ step \in Calls /\ left = 0
  /\ \/ Reselected /\ left' = 1 /\ attempts' = attempts - 1 /\ UNCHANGED <<step, pass>>
     \/ /\ ReselectFails
        /\ IF attempts > 1
           THEN attempts' = attempts - 1 /\ UNCHANGED <<step, left, pass>>
           ELSE GiveUp
  /\ UNCHANGED <<at, faults, shouldForce, base, recordVars, phoneVars, historyVars>>

-----------------------------------------------------------------------------
(* NfcSession::tick and performProvisioningIfNeeded, step by step.           *)

\* pollCardPresenceNonBlocking releases what is left of the last session first.
Poll ==
  /\ step = "idle" /\ at # NoPhone
  /\ linked' = TRUE /\ selected' = FALSE /\ late' = Silence
  /\ Call("select", 2, 0) /\ pass' = 1
  /\ visitor' = at
  /\ UNCHANGED <<at, losses, faults, shouldForce, base, recordVars, phoneVars,
                 macced, signed, bound, enrolled, told, armed, replaced>>

\* selectAid takes an answer of another payload for a stale one, and fails.
Selects(reply) == reply.apdu = "select" /\ reply.ok

SelectAid ==
  /\ step = "select"
  /\ \E reply \in PossibleReplies("select") :
       /\ Try("select", reply)
       /\ \/ reply = Silence /\ Unanswered
          \/ Selects(reply) /\ Goto("perform") /\ UNCHANGED pass
          \/ reply # Silence /\ ~Selects(reply) /\ Abort
  /\ UNCHANGED base

\* alreadyProvisioned and shouldForce are read here, once; a new nonce is drawn.
Perform ==
  /\ step = "perform"
  /\ IF owner # NoPhone /\ ~force
     THEN Goto("removal") /\ UNCHANGED <<shouldForce, challenge>>
     ELSE /\ Call("request", 3, 0)
          /\ shouldForce' = force
          /\ challenge' = [p \in Phones |-> IF challenge[p] = "none" THEN "none" ELSE "old"]
  /\ UNCHANGED <<fieldVars, pass, base, recordVars, master, historyVars>>

\* A new round of REQUEST and VERIFY, and a VERIFY without a REQUEST that was
\* acknowledged, each begin with a reselection.
Recover ==
  /\ step \in {"again", "anyway"}
  /\ \/ /\ Reselected /\ UNCHANGED pass
        /\ IF step = "again" THEN Call("request", 3, 0) ELSE Call("verify", 1, 3)
     \/ ReselectFails /\ NextRound
  /\ UNCHANGED <<at, faults, shouldForce, base, recordVars, phoneVars, historyVars>>

Request ==
  /\ step \in {"request", "request_again"}
  /\ \E reply \in PossibleReplies("request") :
       /\ Try("request", reply)
       /\ \/ reply = Silence /\ Unanswered
          \/ reply.ok /\ Call("verify", 1, 3) /\ UNCHANGED pass
          \/ reply # Silence /\ ~reply.ok /\ GiveUp
  /\ UNCHANGED base

\* unwrap7F24 and extractTlv find in an answer only what its own command asks for.
Carries(reply, apdu) == reply.apdu = apdu

\* hmacSha256 under the secret of the master card, over the session's challenge.
IsMac(reply) == reply.from \in Holders /\ reply.over = "this"

MacHolds(reply) == Carries(reply, "verify") /\ IsMac(reply)

Verify ==
  /\ step = "verify"
  /\ \E reply \in PossibleReplies("verify") :
       /\ Try("verify", reply)
       /\ \/ reply = Silence /\ Unanswered
          \/ reply.ok /\ MacHolds(reply) /\ Call("base", 1, 4) /\ pass' = 1
          \/ reply # Silence /\ ~(reply.ok /\ MacHolds(reply)) /\ NextRound
  /\ UNCHANGED base

ParseBaseResponse(reply) == Carries(reply, "base")

\* A payload that does not parse costs the pass, and the target is released: the
\* next pass begins with a reselection.
BaseGetData ==
  /\ step = "base"
  /\ \E reply \in PossibleReplies("base") :
       /\ Try("base", reply)
       /\ \/ reply = Silence /\ Unanswered /\ UNCHANGED base
          \/ /\ reply.ok /\ ParseBaseResponse(reply)
             /\ Call("write", 2, 6) /\ pass' = 1 /\ base' = reply.from
          \/ /\ reply # Silence /\ ~(reply.ok /\ ParseBaseResponse(reply))
             /\ NextPass(IF reply.ok THEN 0 ELSE 1)
             /\ UNCHANGED base

\* The phone stores the vehicle's binding here, before anything is committed.
WriteData ==
  /\ step = "write"
  /\ \E reply \in PossibleReplies("write") :
       /\ Try("write", reply)
       /\ \/ reply = Silence /\ Unanswered
          \/ reply.ok /\ Call("sign", 2, 5) /\ UNCHANGED pass
          \/ reply # Silence /\ ~reply.ok /\ Abort
  /\ UNCHANGED base

\* A mistake: the signature is not held against the key of the base answer.
AnySignature(reply) == reply.apdu = "sign"

SignatureHolds(reply) ==
  reply.apdu = "sign" /\ reply.from = base /\ reply.over = "this"

SignatureGetData ==
  /\ step = "sign"
  /\ \E reply \in PossibleReplies("sign") :
       /\ Try("sign", reply)
       /\ \/ reply = Silence /\ Unanswered
          \/ reply.ok /\ SignatureHolds(reply) /\ Goto("op_select") /\ UNCHANGED pass
          \/ reply.ok /\ ~SignatureHolds(reply) /\ Abort
          \/ reply # Silence /\ ~reply.ok /\ GiveUp
  /\ UNCHANGED base

\* The second try begins with a release and a SELECT: with no target listed in
\* between, it gets somewhere only if the release was not carried out.
SignAgain ==
  /\ step = "sign_again"
  /\ \/ Released /\ Abort /\ UNCHANGED losses
     \/ /\ linked /\ losses < MaxLosses /\ losses' = losses + 1
        /\ selected' = TRUE /\ late' = Silence /\ UNCHANGED linked
        /\ Call("sign", 2, 5) /\ pass' = 2
  /\ UNCHANGED <<at, faults, shouldForce, base, recordVars, phoneVars, historyVars>>

OpSelect ==
  /\ step = "op_select"
  /\ \/ Reselected /\ Call("op_control", 1, 3) /\ UNCHANGED pass
     \/ ReselectFails /\ Abort
  /\ UNCHANGED <<at, faults, shouldForce, base, recordVars, phoneVars, historyVars>>

\* The applet logs OP CONTROL FLOW and does nothing else.
OpControlFlow ==
  /\ step = "op_control"
  /\ \E reply \in PossibleReplies("op_control") :
       /\ Try("op_control", reply)
       /\ \/ reply = Silence /\ Unanswered
          \/ reply.ok /\ Goto("store") /\ UNCHANGED pass
          \/ reply # Silence /\ ~reply.ok /\ Abort
  /\ UNCHANGED base

MayStore == owner = NoPhone \/ shouldForce

Store ==
  /\ step = "store"
  /\ IF MayStore
     THEN /\ owner' = base /\ enrolled' = base
          /\ replaced' = IF owner = NoPhone THEN replaced ELSE replaced + 1
          /\ Call("result_select", 2, 0) /\ UNCHANGED pass
     ELSE Abort /\ UNCHANGED <<owner, enrolled, replaced>>
  /\ UNCHANGED <<fieldVars, shouldForce, base, force, phoneVars, visitor, macced,
                 signed, bound, told, armed>>

ResultSelect ==
  /\ step = "result_select"
  /\ \E reply \in PossibleReplies("select") :
       /\ Try("select", reply)
       /\ \/ reply = Silence /\ Unanswered
          \/ Selects(reply) /\ Call("result", ResultTries, 0) /\ UNCHANGED pass
          \/ reply # Silence /\ ~Selects(reply) /\ Goto("finish") /\ UNCHANGED pass
  /\ UNCHANGED base

ProvisionResult ==
  /\ step = "result"
  /\ \E reply \in PossibleReplies("result") :
       /\ Try("result", reply)
       /\ \/ reply = Silence /\ Unanswered
          \/ reply # Silence /\ Goto("finish") /\ UNCHANGED pass
  /\ UNCHANGED base

\* A mistake: the force flags stay as they are.
FlagsKept == force

FlagsAfterSuccess == force /\ ~shouldForce

\* onCredentialsStored, and the force flags, whether or not the phone heard of it.
Finish ==
  /\ step = "finish"
  /\ force' = FlagsAfterSuccess
  /\ Goto("removal") /\ UNCHANGED pass
  /\ UNCHANGED <<fieldVars, shouldForce, base, owner, phoneVars, historyVars>>

\* A mistake: the reader waits until the phone is taken away.
OnlyWhenRemoved == at = NoPhone

RemovalCap == TRUE

\* After a success two reads without a card, or 4.5 s; after a failure 200 ms; then
\* the target is released and the locals of the session are gone.
SessionOver ==
  /\ step \in {"removal", "cooldown"} /\ RemovalCap
  /\ Released /\ UNCHANGED losses
  /\ Goto("idle") /\ pass' = 1
  /\ shouldForce' = FALSE /\ base' = NoPhone
  /\ visitor' = NoPhone /\ macced' = {} /\ signed' = {} /\ bound' = {}
  /\ enrolled' = NoPhone /\ told' = {}
  /\ UNCHANGED <<at, faults, recordVars, phoneVars, armed, replaced>>

NfcTask ==
  \/ Poll \/ SelectAid \/ Perform \/ Recover \/ Request \/ Verify \/ BaseGetData
  \/ WriteData \/ SignatureGetData \/ SignAgain \/ OpSelect \/ OpControlFlow
  \/ Store \/ ResultSelect \/ ProvisionResult \/ Finish \/ SessionOver \/ Reselect

-----------------------------------------------------------------------------
(* The phones and their users.                                               *)

Tap(p) ==
  /\ at = NoPhone
  /\ "swap" \in faults \/ step \in Waits \/ p = visitor
  /\ at' = p
  /\ UNCHANGED <<linked, selected, late, losses, faults, taskVars, recordVars, phoneVars,
                 historyVars>>

\* Out of the field, or the link lost: onDeactivated.
Leave ==
  /\ at # NoPhone
  /\ at' = NoPhone /\ linked' = FALSE /\ selected' = FALSE /\ late' = Silence
  /\ UNCHANGED <<losses, faults, taskVars, recordVars, phoneVars, historyVars>>

\* _startProvisioning, with the master card read: a session of 60 s.
StartProvisioning(p) ==
  /\ p \in Holders \ master
  /\ master' = master \cup {p}
  /\ UNCHANGED <<fieldVars, taskVars, recordVars, challenge, historyVars>>

\* The time is up, the user leaves the screen, or the app has seen the result.
ClearHceSession(p) ==
  /\ p \in master
  /\ master' = master \ {p}
  /\ UNCHANGED <<fieldVars, taskVars, recordVars, challenge, historyVars>>

\* The service is gone and the 45 s of the pending challenge are over: while the
\* service lives, its own copy has no time limit.
ChallengeLapses(p) ==
  /\ p # at /\ challenge[p] # "none"
  /\ challenge' = [challenge EXCEPT ![p] = "none"]
  /\ UNCHANGED <<fieldVars, taskVars, recordVars, master, historyVars>>

-----------------------------------------------------------------------------
(* The operator: admin commands 0x30 to 0x32, 0x01 and 0x02.  The two force  *)
(* flags count as one here; CccMailbox has both.                             *)

Arm ==
  /\ ~force /\ armed < MaxArmings
  /\ force' = TRUE /\ armed' = armed + 1
  /\ UNCHANGED <<fieldVars, taskVars, owner, phoneVars, sessionVars, replaced>>

Disarm ==
  /\ force
  /\ force' = FALSE
  /\ UNCHANGED <<fieldVars, taskVars, owner, phoneVars, historyVars>>

Clear(all) ==
  /\ owner # NoPhone
  /\ owner' = NoPhone
  /\ force' = (force /\ ~all)
  /\ UNCHANGED <<fieldVars, taskVars, phoneVars, historyVars>>

Operator == Arm \/ Disarm \/ \E all \in BOOLEAN : Clear(all)

People ==
  \/ Leave
  \/ \E p \in Phones : Tap(p) \/ StartProvisioning(p) \/ ClearHceSession(p)
                        \/ ChallengeLapses(p)

NfcNext == NfcTask \/ People \/ Operator
NfcSpec == NfcInit /\ [][NfcNext]_nfcVars

(* nfcTask keeps polling; nobody is assumed to hold a phone to the reader.   *)
NfcFairSpec == NfcSpec /\ WF_nfcVars(NfcTask)

-----------------------------------------------------------------------------
(* A new owner has signed the challenge of the session that stores its key,  *)
(* and the right master secret was used over the same challenge: whatever    *)
(* was lost, repeated, late or left over from an earlier session, and        *)
(* whichever phones were at the reader (iot/README.md, Phase A, steps 2      *)
(* and 5).                                                                   *)
OwnerHasSigned ==
  [][\A p \in Phones : owner # p /\ owner' = p
       => p \in signed /\ macced \cap Holders # {}]_nfcVars

(* "Persist owner data", "ESP32 sends INS 0xDA result to app": a phone is    *)
(* told of success only when its own key was stored, and a phone whose key   *)
(* is stored knows the vehicle.  Unless phones are swapped in the middle of  *)
(* a session.                                                                *)
BothSidesAgree ==
  faults = {} =>
    /\ enrolled # NoPhone => enrolled \in bound
    /\ told \subseteq {enrolled}

(* nfc_session.cpp: "Auto-disable force mode after successful provisioning   *)
(* to prevent automatic re-provisioning".  Every replaced owner has used up  *)
(* an order of the operator.                                                 *)
OneReplacementPerArming == replaced =< armed

(* A phone with the right master card that stays at the reader, its master   *)
(* session open, gives the vehicle an owner: rounds, passes, reselections    *)
(* and back-off never end in a loop that gets nowhere.                       *)
WillingPhoneEnrolled ==
  \A p \in Holders : <>[](at = p /\ p \in master) => []<>(owner # NoPhone)

(* The result survives the loss of one APDU or answer: SELECT and result are *)
(* tried twice, so a phone that stayed has been told when the session ends.  *)
OneLossIsSurvived ==
  step = "finish" /\ linked /\ losses =< 1 /\ faults = {} => enrolled \in told
=============================================================================
