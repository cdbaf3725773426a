----------------------------- MODULE CccMailbox -----------------------------
(***************************************************************************)
(* The vehicle's identity and owner: the CCC mailbox in RAM and in flash   *)
(* (iot/src/ccc_mailbox.cpp) and the operations on it (provisioning_phase. *)
(* cpp), called by nfcTask and by the BLE host task.  Every operation is a *)
(* sequence of flash writes, each atomic; power may fail between two of    *)
(* them, and what is in RAM is then loaded again from flash.  A boot that  *)
(* cannot make a key pair leaves the vehicle running without an identity.  *)
(*                                                                         *)
(* Only slot 0 is modelled: nothing in the firmware uses the others.  A    *)
(* key, token, certificate or artifact is named by the owner it is of; the *)
(* vehicle's id and its two keys by the generation they were made in.      *)
(***************************************************************************)
EXTENDS Naturals, Sequences

CONSTANTS
  Owners,      (* the phones that may be enrolled                            *)
  LegacyFlash, (* whether an older firmware may have left its owner in flash *)
  MaxCrashes,  (* bound: power failures per behaviour                        *)
  Overlap      (* whether the two tasks may be inside operations at once     *)

NoOne == "none"

ASSUME NoOneAssumption == NoOne \notin Owners
ASSUME LegacyFlashAssumption == LegacyFlash \in BOOLEAN
ASSUME MaxCrashesAssumption == MaxCrashes \in Nat
ASSUME OverlapAssumption == Overlap \in BOOLEAN

Someone == Owners \cup {NoOne}
Tasks == {"nfc", "ble", "boot"}

VARIABLES
  flash,      (* the "ccc_dk" name space                                     *)
  g_mailbox,  (* its mirror in RAM                                           *)
  todo,       (* task -> the writes left of the operation it is in           *)
  session,    (* the enrolment nfcTask talks over with a phone: "forced" if  *)
              (* force was on when it began, "plain", or "none"              *)
  commit,     (* whose enrolment nfcTask is in, if it is in one              *)
  power,      (* "off"; "booting", in begin; "starting", setup goes on       *)
              (* without an identity; "again", in begin once more; or "on"   *)
  crashes,
  identities, (* how many identities the vehicle was given                   *)
  enrolledOn  (* history: the vehicle key the owner in flash was enrolled on *)

mailboxVars == <<flash, g_mailbox, todo, session, commit, power, crashes, identities,
                 enrolledOn>>

Flash ==
  [ep_0 : Someone, ep_pub : Someone, tok_0 : Someone, slot_bmp : BOOLEAN, sig_bmp : BOOLEAN,
   v_id : Nat, v_pub : Nat, v_priv : Nat,
   cert_chain : Someone, fast_art_ver : Someone, fast_art_key : Someone,
   force_prov : BOOLEAN, oneshot_force : BOOLEAN]
Mirror ==
  [endpoint_pub : Someone, immobilizer_token : Someone, slot_bitmap : BOOLEAN,
   signaling_bitmap : BOOLEAN, v_id : Nat, v_pub : Nat, v_priv : Nat]

Writes ==
  {"endpoint", "no endpoint", "no legacy", "slots", "token", "no token", "active",
   "inactive", "signal", "no mailbox", "cert", "no cert", "art ver", "art key",
   "no art ver", "no art key", "no force", "no oneshot", "wipe", "v_id", "v_pub",
   "v_priv", "bitmaps"}

MailboxTypeOK ==
  /\ flash \in Flash /\ g_mailbox \in Mirror
  /\ todo \in [Tasks -> Seq(Writes)]
  /\ session \in {"none", "plain", "forced"} /\ commit \in Someone
  /\ power \in {"off", "booting", "starting", "again", "on"}
  /\ crashes \in 0 .. MaxCrashes
  /\ identities \in Nat /\ enrolledOn \in 0 .. identities

EmptyFlash ==
  [ep_0 |-> NoOne, ep_pub |-> NoOne, tok_0 |-> NoOne, slot_bmp |-> FALSE, sig_bmp |-> FALSE,
   v_id |-> 0, v_pub |-> 0, v_priv |-> 0,
   cert_chain |-> NoOne, fast_art_ver |-> NoOne, fast_art_key |-> NoOne,
   force_prov |-> FALSE, oneshot_force |-> FALSE]
EmptyMirror ==
  [endpoint_pub |-> NoOne, immobilizer_token |-> NoOne, slot_bitmap |-> FALSE,
   signaling_bitmap |-> FALSE, v_id |-> 0, v_pub |-> 0, v_priv |-> 0]

\* New flash, or one an older firmware left: the owner under "ep_pub", with a
\* whole key pair of the vehicle or without its private half.
MailboxInit ==
  /\ \/ flash = EmptyFlash /\ enrolledOn = 0 /\ identities = 0
     \/ LegacyFlash /\ \E o \in Owners, half \in {0, 1} :
          flash = [EmptyFlash EXCEPT !.ep_pub = o, !.v_id = 1, !.v_pub = 1, !.v_priv = half]
            /\ enrolledOn = 1 /\ identities = 1
  /\ g_mailbox = EmptyMirror
  /\ todo = [t \in Tasks |-> << >>]
  /\ session = "none" /\ commit = NoOne
  /\ power = "off"
  /\ crashes = 0

IsProvisioned == g_mailbox.slot_bitmap /\ g_mailbox.endpoint_pub # NoOne
HasToken == g_mailbox.slot_bitmap /\ g_mailbox.immobilizer_token # NoOne

-----------------------------------------------------------------------------
(* Boot: loadMailbox and begin.                                              *)

OwnerLoaded ==
  IF flash.ep_0 # NoOne THEN flash.ep_0 ELSE flash.ep_pub

Loaded ==
  [endpoint_pub |-> OwnerLoaded,
   immobilizer_token |-> flash.tok_0,
   slot_bitmap |-> flash.slot_bmp \/ OwnerLoaded # NoOne \/ flash.tok_0 # NoOne,
   signaling_bitmap |-> flash.sig_bmp,
   v_id |-> flash.v_id, v_pub |-> flash.v_pub, v_priv |-> flash.v_priv]

\* The bitmap is normalised, and a legacy owner moved to slot 0.
NormaliseWrites ==
  IF flash.ep_0 = NoOne /\ flash.ep_pub # NoOne
  THEN <<"slots", "endpoint", "no legacy">>
  ELSE IF Loaded.slot_bitmap # flash.slot_bmp THEN <<"slots">> ELSE << >>

\* The public key computed from the private one is the one that is stored.
ValidateVehicleKeypair(pub, priv) == priv = pub

MissingRoot ==
  \/ 0 \in {flash.v_id, flash.v_pub, flash.v_priv}
  \/ ~ValidateVehicleKeypair(flash.v_pub, flash.v_priv)

\* Without a whole identity everything goes and a new one is made.
RekeyWrites == <<"wipe", "v_id", "v_pub", "v_priv", "bitmaps">>

Begin ==
  /\ g_mailbox' = Loaded
  /\ todo' = [todo EXCEPT !["boot"] =
                NormaliseWrites \o (IF MissingRoot THEN RekeyWrites ELSE << >>)]
  /\ UNCHANGED <<flash, session, commit, crashes, identities, enrolledOn>>

Boot ==
  /\ power = "off"
  /\ power' = "booting"
  /\ Begin

\* ProvisioningPhase::begin calls begin again: without effect, unless the first
\* call has failed.
BeginAgain ==
  /\ power = "starting"
  /\ Overlap \/ \A t \in Tasks : todo[t] = << >>
  /\ power' = "again"
  /\ Begin

BootDone ==
  /\ power \in {"booting", "again"} /\ todo["boot"] = << >>
  /\ power' = "on"
  /\ UNCHANGED <<flash, g_mailbox, todo, session, commit, crashes, identities,
                 enrolledOn>>

PowerFails ==
  /\ power # "off" /\ crashes < MaxCrashes
  /\ crashes' = crashes + 1
  /\ power' = "off"
  /\ g_mailbox' = EmptyMirror
  /\ todo' = [t \in Tasks |-> << >>]
  /\ session' = "none" /\ commit' = NoOne
  /\ UNCHANGED <<flash, identities, enrolledOn>>

-----------------------------------------------------------------------------
(* The operations, as the writes they make.                                  *)

MayStart(t) ==
  /\ power \in (IF t = "ble" THEN {"starting", "on"} ELSE {"on"})
  /\ todo[t] = << >>
  /\ Overlap \/ \A u \in Tasks : todo[u] = << >>

\* nfcTask takes serial commands between two sessions.
OutOfSession(t) == t = "nfc" => session = "none"

IsForceProvisioning == flash.force_prov \/ flash.oneshot_force

\* A mistake: a second owner is taken without force.
AnyoneMayEnrol(force) == TRUE

MayEnrol(force) == ~IsProvisioned \/ force

\* getVehiclePub: without it there is no WRITE DATA, and so no enrolment.
HasVehiclePub == g_mailbox.v_pub # 0

\* A mistake: the last owner's token is not cleared.
TokenKept(force) == <<"endpoint", "slots", "no legacy", "active", "token", "signal">>

EnrolWrites(force) ==
  <<"endpoint", "slots", "no legacy">>
    \o (IF force THEN <<"no token", "slots">> ELSE << >>)
    \o <<"active", "token", "signal">>

StoreCertChain == <<"cert">>
StoreFastArtifact == <<"art ver", "art key">>
ClearFastArtifact == <<"no art ver", "no art key">>

\* performProvisioningIfNeeded reads the force flags when a phone was selected, and
\* keeps what it read for the rest of the session, which takes seconds.
BeginEnrolment ==
  /\ MayStart("nfc") /\ OutOfSession("nfc")
  /\ MayEnrol(IsForceProvisioning)
  /\ session' = IF IsForceProvisioning THEN "forced" ELSE "plain"
  /\ UNCHANGED <<flash, g_mailbox, todo, commit, power, crashes, identities, enrolledOn>>

EnrolmentFails ==
  /\ session # "none"
  /\ session' = "none"
  /\ UNCHANGED <<flash, g_mailbox, todo, commit, power, crashes, identities, enrolledOn>>

\* setOwnerProvisioned, once the phone has agreed, then the certificate, the
\* artifact and the force flags; setEndpointPub comes first.
SetOwnerProvisioned(o, force, cert, artifact) ==
  /\ MayStart("nfc")
  /\ session = IF force THEN "forced" ELSE "plain"
  /\ MayEnrol(force) /\ HasVehiclePub
  /\ session' = "none"
  /\ commit' = o
  /\ todo' = [todo EXCEPT !["nfc"] =
       EnrolWrites(force)
         \o (IF cert THEN StoreCertChain ELSE << >>)
         \o (IF artifact THEN StoreFastArtifact ELSE << >>)
         \o (IF force THEN <<"no force", "no oneshot">> ELSE << >>)]
  /\ UNCHANGED <<flash, g_mailbox, power, crashes, identities, enrolledOn>>

\* Serial "r" and "C", and admin command 0x01.
ClearProvisionedOnly(t) ==
  /\ MayStart(t) /\ OutOfSession(t)
  /\ todo' = [todo EXCEPT ![t] =
       <<"no endpoint", "no legacy", "slots", "no token", "slots", "inactive", "signal",
         "no cert">> \o ClearFastArtifact]
  /\ commit' = IF t = "nfc" THEN NoOne ELSE commit
  /\ UNCHANGED <<flash, g_mailbox, session, power, crashes, identities, enrolledOn>>

\* Admin command 0x02.
ClearAll ==
  /\ MayStart("ble")
  /\ todo' = [todo EXCEPT !["ble"] =
       <<"no endpoint", "no legacy", "slots", "no mailbox", "no token", "slots",
         "no cert">> \o ClearFastArtifact \o <<"no force", "no oneshot">>]
  /\ UNCHANGED <<flash, g_mailbox, session, commit, power, crashes, identities,
                 enrolledOn>>

\* Serial "f" flips the persistent flag by what the two flags give together.
ToggleForceProvision ==
  /\ MayStart("nfc") /\ OutOfSession("nfc")
  /\ flash' = [flash EXCEPT !.force_prov = ~IsForceProvisioning]
  /\ UNCHANGED <<g_mailbox, todo, session, commit, power, crashes, identities,
                 enrolledOn>>

\* Admin commands 0x30 and 0x31.
SetPersistentForce ==
  /\ MayStart("ble")
  /\ \E on \in BOOLEAN : flash' = [flash EXCEPT !.force_prov = on]
  /\ UNCHANGED <<g_mailbox, todo, session, commit, power, crashes, identities,
                 enrolledOn>>

\* Serial "F", admin command 0x32.
ArmOneShotForce(t) ==
  /\ MayStart(t) /\ OutOfSession(t)
  /\ flash' = [flash EXCEPT !.oneshot_force = TRUE]
  /\ UNCHANGED <<g_mailbox, todo, session, commit, power, crashes, identities,
                 enrolledOn>>

-----------------------------------------------------------------------------
(* One write of task t; the change in RAM that goes with it comes first.     *)

Set(ram, nvs) == g_mailbox' = ram /\ flash' = nvs

StoreEndpoint(t) ==
  LET o == IF t = "boot" THEN g_mailbox.endpoint_pub ELSE commit
  IN  /\ Set([g_mailbox EXCEPT !.endpoint_pub = o, !.slot_bitmap = TRUE],
             [flash EXCEPT !.ep_0 = o])
      /\ enrolledOn' = IF t = "boot" THEN enrolledOn ELSE flash.v_pub

\* A mistake: the new token is not written to flash.
TokenInRamOnly ==
  IF HasToken
  THEN UNCHANGED <<g_mailbox, flash>>
  ELSE Set([g_mailbox EXCEPT !.immobilizer_token = commit, !.slot_bitmap = TRUE],
           [flash EXCEPT !.slot_bmp = TRUE])

\* ensureToken makes one only where the slot has none.
EnsureToken ==
  IF HasToken
  THEN UNCHANGED <<g_mailbox, flash>>
  ELSE Set([g_mailbox EXCEPT !.immobilizer_token = commit, !.slot_bitmap = TRUE],
           [flash EXCEPT !.tok_0 = commit, !.slot_bmp = TRUE])

RamAndFlash(w) ==
  CASE w = "no endpoint" -> Set([g_mailbox EXCEPT !.endpoint_pub = NoOne, !.slot_bitmap = FALSE],
                                [flash EXCEPT !.ep_0 = NoOne])
    [] w = "no token"    -> Set([g_mailbox EXCEPT !.immobilizer_token = NoOne,
                                                  !.slot_bitmap = FALSE],
                                [flash EXCEPT !.tok_0 = NoOne])
    [] w = "token"       -> EnsureToken
    [] w = "active"      -> Set([g_mailbox EXCEPT !.slot_bitmap = TRUE],
                                [flash EXCEPT !.slot_bmp = TRUE])
    [] w = "inactive"    -> Set([g_mailbox EXCEPT !.slot_bitmap = FALSE],
                                [flash EXCEPT !.slot_bmp = FALSE])
    [] w = "signal"      -> Set([g_mailbox EXCEPT !.signaling_bitmap = TRUE],
                                [flash EXCEPT !.sig_bmp = TRUE])
    [] w = "no mailbox"  -> Set([g_mailbox EXCEPT !.signaling_bitmap = FALSE,
                                                  !.slot_bitmap = FALSE],
                                [flash EXCEPT !.sig_bmp = FALSE, !.slot_bmp = FALSE])

\* A mistake: the new key pair takes the old one's place and the owner stays.
RekeyInPlace ==
  /\ identities' = identities + 1
  /\ Set([g_mailbox EXCEPT !.v_id = identities', !.v_pub = identities',
                           !.v_priv = identities'], flash)
  /\ UNCHANGED enrolledOn

\* A mistake: the generations of the identity are not counted.
SameIdentity ==
  /\ Set([EmptyMirror EXCEPT !.v_id = identities + 1, !.v_pub = identities + 1,
                             !.v_priv = identities + 1],
         EmptyFlash)
  /\ enrolledOn' = 0
  /\ UNCHANGED identities

GenerateVehicleId == identities + 1
GenerateVehicleKeypair == identities + 1

\* begin clears everything and makes a new identity in RAM.
NewIdentity ==
  /\ identities' = identities + 1
  /\ Set([EmptyMirror EXCEPT !.v_id = GenerateVehicleId,
                             !.v_pub = GenerateVehicleKeypair,
                             !.v_priv = GenerateVehicleKeypair],
         EmptyFlash)
  /\ enrolledOn' = 0

\* No random numbers, no key pair: begin gives up after the new id, and set-up
\* goes on as if it had not.
KeypairFails ==
  /\ todo["boot"] # << >> /\ Head(todo["boot"]) = "wipe"
  /\ identities' = identities + 1
  /\ Set([EmptyMirror EXCEPT !.v_id = GenerateVehicleId], EmptyFlash)
  /\ enrolledOn' = 0
  /\ todo' = [todo EXCEPT !["boot"] = << >>]
  /\ power' = IF power = "booting" THEN "starting" ELSE "on"
  /\ UNCHANGED <<session, commit, crashes>>

FlashOnly(w) ==
  /\ UNCHANGED g_mailbox
  /\ flash' =
       CASE w = "slots"      -> [flash EXCEPT !.slot_bmp = g_mailbox.slot_bitmap]
         [] w = "no legacy"  -> [flash EXCEPT !.ep_pub = NoOne]
         [] w = "cert"       -> [flash EXCEPT !.cert_chain = commit]
         [] w = "no cert"    -> [flash EXCEPT !.cert_chain = NoOne]
         [] w = "art ver"    -> [flash EXCEPT !.fast_art_ver = commit]
         [] w = "art key"    -> [flash EXCEPT !.fast_art_key = commit]
         [] w = "no art ver" -> [flash EXCEPT !.fast_art_ver = NoOne]
         [] w = "no art key" -> [flash EXCEPT !.fast_art_key = NoOne]
         [] w = "no force"   -> [flash EXCEPT !.force_prov = FALSE]
         [] w = "no oneshot" -> [flash EXCEPT !.oneshot_force = FALSE]
         [] w = "v_id"       -> [flash EXCEPT !.v_id = g_mailbox.v_id]
         [] w = "v_pub"      -> [flash EXCEPT !.v_pub = g_mailbox.v_pub]
         [] w = "v_priv"     -> [flash EXCEPT !.v_priv = g_mailbox.v_priv]
         [] w = "bitmaps"    -> [flash EXCEPT !.sig_bmp = g_mailbox.signaling_bitmap,
                                              !.slot_bmp = g_mailbox.slot_bitmap]

RamWrites == {"no endpoint", "no token", "token", "active", "inactive", "signal",
              "no mailbox"}

Write(t) ==
  /\ todo[t] # << >>
  /\ todo' = [todo EXCEPT ![t] = Tail(@)]
  /\ LET w == Head(todo[t]) IN
       \/ w = "endpoint" /\ StoreEndpoint(t) /\ UNCHANGED identities
       \/ w = "wipe" /\ NewIdentity
       \/ w \in RamWrites /\ RamAndFlash(w) /\ UNCHANGED <<identities, enrolledOn>>
       \/ /\ w \notin RamWrites \cup {"endpoint", "wipe"}
          /\ FlashOnly(w)
          /\ UNCHANGED <<identities, enrolledOn>>
  /\ UNCHANGED <<session, commit, power, crashes>>

SerialCommands ==
  ToggleForceProvision \/ ClearProvisionedOnly("nfc") \/ ArmOneShotForce("nfc")
AdminCommands ==
  ClearAll \/ SetPersistentForce \/ ClearProvisionedOnly("ble") \/ ArmOneShotForce("ble")

MailboxNext ==
  \/ Boot \/ BeginAgain \/ BootDone \/ PowerFails \/ KeypairFails
  \/ BeginEnrolment \/ EnrolmentFails
  \/ \E o \in Owners, force, cert, artifact \in BOOLEAN :
       SetOwnerProvisioned(o, force, cert, artifact)
  \/ SerialCommands \/ AdminCommands
  \/ \E t \in Tasks : Write(t)

MailboxSpec == MailboxInit /\ [][MailboxNext]_mailboxVars

-----------------------------------------------------------------------------
AtRest == power = "on" /\ \A t \in Tasks : todo[t] = << >>

UnderWay ==
  (IF todo["ble"] # << >> THEN {NoOne} ELSE {})
    \cup (IF todo["nfc"] # << >> THEN {commit} ELSE {})
    \cup (IF todo["boot"] # << >> /\ MissingRoot THEN {NoOne} ELSE {})

(* Whatever write a power failure comes between, the owner the next boot     *)
(* finds is the one before the operation or the one after it; an owner is    *)
(* replaced only in a session that began under force, which may have been    *)
(* taken back since; a boot changes it only to drop it together with an      *)
(* incomplete identity.                                                      *)
Record == INSTANCE OwnerRecord WITH
  NoOwner <- NoOne, owner <- OwnerLoaded, pending <- UnderWay,
  forced <- IsForceProvisioning, licensed <- session = "forced"
OwnerAtomic == Record!RecordSpec

(* README.md: "Stored in ESP32 NVS and mirrored in RAM".  Between operations *)
(* the tasks see what they would see after a reboot; the id of a vehicle     *)
(* that could not make its keys, which is nowhere in flash, aside.           *)
RebootChangesNothing ==
  AtRest => \/ g_mailbox = Loaded
            \/ ~HasVehiclePub /\ [g_mailbox EXCEPT !.v_id = 0] = Loaded

(* README.md: "On boot, if vehicle keypair is incomplete or invalid, mailbox *)
(* is re-keyed fail-closed": an owner in use was enrolled on the very key    *)
(* pair the vehicle has now, which is whole; and a vehicle that failed to    *)
(* make one has no owner, whatever happens until it is started again.        *)
OwnerKnowsVehicle ==
  power = "on" =>
    /\ MissingRoot => ~HasVehiclePub
    /\ g_mailbox.endpoint_pub # NoOne =>
         ~MissingRoot /\ enrolledOn = g_mailbox.v_pub

(* README.md: "Owner provisioning fills slot 0 and ensures tok_0 exists";    *)
(* provisioning_phase.h: "store phone pub, set slot 0, and generate tok_0".  *)
(* As long as power never failed, the owner enrolled last has a token, and   *)
(* it was generated for this owner, not left by the one before.              *)
TokenOfOwner ==
  AtRest /\ crashes = 0 /\ IsProvisioned /\ commit = g_mailbox.endpoint_pub =>
    HasToken /\ g_mailbox.immobilizer_token = commit
=============================================================================
