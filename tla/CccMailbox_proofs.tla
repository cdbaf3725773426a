-------------------------- MODULE CccMailbox_proofs --------------------------
(***************************************************************************)
(* Theorems about CccMailbox, for every set of phones and every number of  *)
(* power failures.                                                         *)
(***************************************************************************)
EXTENDS CccMailbox, SequenceTheorems, TLAPS

-----------------------------------------------------------------------------
(* Types.  The vehicle's keys are of a generation that was counted.          *)
Generations ==
  /\ {flash.v_id, flash.v_pub, flash.v_priv} \subseteq 0 .. identities
  /\ {g_mailbox.v_id, g_mailbox.v_pub, g_mailbox.v_priv} \subseteq 0 .. identities
MailboxTypeInv == MailboxTypeOK /\ Generations

\* A session with a phone begins or ends, and nothing else happens.
SessionOnly ==
  /\ session' \in {"none", "plain", "forced"}
  /\ UNCHANGED <<flash, g_mailbox, todo, commit, power, crashes, identities, enrolledOn>>

LEMMA SessionSteps ==
  ASSUME MailboxTypeInv, BeginEnrolment \/ EnrolmentFails \/ UNCHANGED mailboxVars
  PROVE  SessionOnly
<1>1. CASE BeginEnrolment
  BY <1>1 DEF BeginEnrolment, SessionOnly
<1>2. CASE EnrolmentFails
  BY <1>2 DEF EnrolmentFails, SessionOnly
<1>3. CASE UNCHANGED mailboxVars
  BY <1>3 DEF mailboxVars, SessionOnly, MailboxTypeInv, MailboxTypeOK
<1> QED BY <1>1, <1>2, <1>3

\* Short programs.
LEMMA ShortPrograms ==
  /\ <<"slots", "endpoint", "no legacy">> \in Seq(Writes)
  /\ <<"endpoint", "slots", "no legacy">> \in Seq(Writes)
  /\ <<"active", "token", "signal">> \in Seq(Writes)
  /\ <<"no token", "slots">> \in Seq(Writes)
  /\ <<"no force", "no oneshot">> \in Seq(Writes)
  /\ <<"slots">> \in Seq(Writes)
  /\ << >> \in Seq(Writes)
BY DEF Writes

\* What the operations have left to write are sequences of writes.
LEMMA ProgramTypes ==
  /\ RekeyWrites \in Seq(Writes)
  /\ NormaliseWrites \in Seq(Writes)
  /\ \A force \in BOOLEAN : EnrolWrites(force) \in Seq(Writes)
  /\ StoreCertChain \in Seq(Writes) /\ StoreFastArtifact \in Seq(Writes)
  /\ ClearFastArtifact \in Seq(Writes)
<1>1. RekeyWrites \in Seq(Writes)
  BY DEF RekeyWrites, Writes
<1>2. NormaliseWrites \in Seq(Writes)
  BY ShortPrograms DEF NormaliseWrites
<1>3. ASSUME NEW force \in BOOLEAN PROVE EnrolWrites(force) \in Seq(Writes)
  <2>1. /\ <<"endpoint", "slots", "no legacy">> \in Seq(Writes)
        /\ <<"active", "token", "signal">> \in Seq(Writes)
        /\ (IF force THEN <<"no token", "slots">> ELSE << >>) \in Seq(Writes)
    BY ShortPrograms
  <2> QED BY <2>1, ConcatProperties DEF EnrolWrites
<1>4. /\ StoreCertChain \in Seq(Writes) /\ StoreFastArtifact \in Seq(Writes)
      /\ ClearFastArtifact \in Seq(Writes)
  BY DEF StoreCertChain, StoreFastArtifact, ClearFastArtifact, Writes
<1> QED BY <1>1, <1>2, <1>3, <1>4

LEMMA LoadedType ==
  ASSUME flash \in Flash PROVE Loaded \in Mirror /\ OwnerLoaded \in Someone
BY DEF Flash, Mirror, Loaded, OwnerLoaded, NoOne, Someone

\* An operation begins.
LEMMA OperationType ==
  ASSUME MailboxTypeInv, NEW t \in Tasks, NEW s \in Seq(Writes),
         todo' = [todo EXCEPT ![t] = s], commit' \in Someone, session' \in {session, "none"},
         UNCHANGED <<flash, g_mailbox, power, crashes, identities, enrolledOn>>
  PROVE  MailboxTypeInv'
BY DEF MailboxTypeInv, MailboxTypeOK, Generations

\* The programs of the operations.
LEMMA ClearTypes ==
  /\ <<"no endpoint", "no legacy", "slots", "no token", "slots", "inactive", "signal",
       "no cert">> \o ClearFastArtifact \in Seq(Writes)
  /\ <<"no endpoint", "no legacy", "slots", "no mailbox", "no token", "slots",
       "no cert">> \o ClearFastArtifact \o <<"no force", "no oneshot">> \in Seq(Writes)
<1>1. /\ <<"no endpoint", "no legacy", "slots", "no token", "slots", "inactive", "signal",
           "no cert">> \in Seq(Writes)
      /\ <<"no endpoint", "no legacy", "slots", "no mailbox", "no token", "slots",
           "no cert">> \in Seq(Writes)
      /\ <<"no force", "no oneshot">> \in Seq(Writes)
  BY DEF Writes
<1> QED BY <1>1, ProgramTypes, ConcatProperties

LEMMA EnrolTypes ==
  ASSUME NEW force \in BOOLEAN, NEW cert \in BOOLEAN, NEW artifact \in BOOLEAN
  PROVE  EnrolWrites(force)
           \o (IF cert THEN StoreCertChain ELSE << >>)
           \o (IF artifact THEN StoreFastArtifact ELSE << >>)
           \o (IF force THEN <<"no force", "no oneshot">> ELSE << >>) \in Seq(Writes)
<1>1. (IF cert THEN StoreCertChain ELSE << >>) \in Seq(Writes)
  BY ProgramTypes, ShortPrograms
<1>2. (IF artifact THEN StoreFastArtifact ELSE << >>) \in Seq(Writes)
  BY ProgramTypes, ShortPrograms
<1>3. (IF force THEN <<"no force", "no oneshot">> ELSE << >>) \in Seq(Writes)
  BY ShortPrograms
<1> QED BY <1>1, <1>2, <1>3, ProgramTypes, ConcatProperties

-----------------------------------------------------------------------------
(* What the writes do to the owner and to the vehicle's keys.                *)
Plain == Writes \ (RamWrites \cup {"endpoint", "wipe"})
KeyWrites == {"v_id", "v_pub", "v_priv"}

\* These take the slot's bit away.
Spoilers == {"no endpoint", "no token", "inactive", "no mailbox"}

KeysKept ==
  /\ flash'.v_id = flash.v_id /\ flash'.v_pub = flash.v_pub /\ flash'.v_priv = flash.v_priv
  /\ g_mailbox'.v_id = g_mailbox.v_id /\ g_mailbox'.v_pub = g_mailbox.v_pub
  /\ g_mailbox'.v_priv = g_mailbox.v_priv

OwnerKept ==
  flash'.ep_0 = flash.ep_0 /\ g_mailbox'.endpoint_pub = g_mailbox.endpoint_pub

LEMMA TokenEffect ==
  ASSUME flash \in Flash, g_mailbox \in Mirror, commit \in Someone, EnsureToken
  PROVE  /\ flash' \in Flash /\ g_mailbox' \in Mirror /\ KeysKept /\ OwnerKept
         /\ flash'.ep_pub = flash.ep_pub
         /\ g_mailbox.slot_bitmap => g_mailbox'.slot_bitmap
BY ZenonT(60) DEF EnsureToken, Set, Flash, Mirror, KeysKept, OwnerKept

LEMMA RamEffect ==
  ASSUME flash \in Flash, g_mailbox \in Mirror, commit \in Someone,
         NEW w \in RamWrites, RamAndFlash(w)
  PROVE  /\ flash' \in Flash /\ g_mailbox' \in Mirror /\ KeysKept
         /\ flash'.ep_pub = flash.ep_pub
         /\ IF w = "no endpoint"
            THEN flash'.ep_0 = NoOne /\ g_mailbox'.endpoint_pub = NoOne
            ELSE OwnerKept
         /\ w \notin Spoilers /\ g_mailbox.slot_bitmap => g_mailbox'.slot_bitmap
         /\ w = "active" => g_mailbox'.slot_bitmap
<1> USE DEF Set, Flash, Mirror, KeysKept, OwnerKept, Someone, Spoilers
<1>1. CASE w = "no endpoint"
  BY <1>1, ZenonT(60) DEF RamAndFlash
<1>2. CASE w = "no token"
  BY <1>2, ZenonT(60) DEF RamAndFlash
<1>3. CASE w = "token"
  <2>1. EnsureToken
    BY <1>3 DEF RamAndFlash
  <2> QED BY <1>3, <2>1, TokenEffect
<1>4. CASE w = "active"
  BY <1>4, ZenonT(60) DEF RamAndFlash
<1>5. CASE w = "inactive"
  BY <1>5, ZenonT(60) DEF RamAndFlash
<1>6. CASE w = "signal"
  <2>1. /\ g_mailbox' = [g_mailbox EXCEPT !.signaling_bitmap = TRUE]
        /\ flash' = [flash EXCEPT !.sig_bmp = TRUE]
    <3> HIDE DEF Flash, Mirror
    <3> QED BY <1>6 DEF RamAndFlash
  <2> QED BY <1>6, <2>1, ZenonT(60)
<1>7. CASE w = "no mailbox"
  <2>1. /\ g_mailbox' = [g_mailbox EXCEPT !.signaling_bitmap = FALSE, !.slot_bitmap = FALSE]
        /\ flash' = [flash EXCEPT !.sig_bmp = FALSE, !.slot_bmp = FALSE]
    <3> HIDE DEF Flash, Mirror
    <3> QED BY <1>7 DEF RamAndFlash
  <2>2. flash' \in Flash /\ g_mailbox' \in Mirror
    BY <2>1, ZenonT(60)
  <2> QED BY <1>7, <2>1, <2>2, ZenonT(60)
<1> QED BY <1>1, <1>2, <1>3, <1>4, <1>5, <1>6, <1>7 DEF RamWrites

LEMMA PlainEffect ==
  ASSUME flash \in Flash, g_mailbox \in Mirror, commit \in Someone,
         NEW w \in Plain, FlashOnly(w)
  PROVE  /\ flash' \in Flash /\ g_mailbox' = g_mailbox /\ OwnerKept
         /\ flash'.ep_pub = IF w = "no legacy" THEN NoOne ELSE flash.ep_pub
         /\ flash'.v_id = IF w = "v_id" THEN g_mailbox.v_id ELSE flash.v_id
         /\ flash'.v_pub = IF w = "v_pub" THEN g_mailbox.v_pub ELSE flash.v_pub
         /\ flash'.v_priv = IF w = "v_priv" THEN g_mailbox.v_priv ELSE flash.v_priv
<1>0. g_mailbox' = g_mailbox
  BY DEF FlashOnly
<1>1. CASE w = "slots"
  <2>1. flash' = [flash EXCEPT !.slot_bmp = g_mailbox.slot_bitmap]
    BY <1>1 DEF FlashOnly
  <2> QED BY <1>1, <1>0, <2>1 DEF Flash, Mirror, OwnerKept, Someone
<1>2. CASE w = "no legacy"
  <2>1. flash' = [flash EXCEPT !.ep_pub = NoOne]
    BY <1>2 DEF FlashOnly
  <2> QED BY <1>2, <1>0, <2>1 DEF Flash, Mirror, OwnerKept, Someone
<1>3. CASE w = "cert"
  <2>1. flash' = [flash EXCEPT !.cert_chain = commit]
    BY <1>3 DEF FlashOnly
  <2> QED BY <1>3, <1>0, <2>1 DEF Flash, Mirror, OwnerKept, Someone
<1>4. CASE w = "no cert"
  <2>1. flash' = [flash EXCEPT !.cert_chain = NoOne]
    BY <1>4 DEF FlashOnly
  <2> QED BY <1>4, <1>0, <2>1 DEF Flash, Mirror, OwnerKept, Someone
<1>5. CASE w = "art ver"
  <2>1. flash' = [flash EXCEPT !.fast_art_ver = commit]
    BY <1>5 DEF FlashOnly
  <2> QED BY <1>5, <1>0, <2>1 DEF Flash, Mirror, OwnerKept, Someone
<1>6. CASE w = "art key"
  <2>1. flash' = [flash EXCEPT !.fast_art_key = commit]
    BY <1>6 DEF FlashOnly
  <2> QED BY <1>6, <1>0, <2>1 DEF Flash, Mirror, OwnerKept, Someone
<1>7. CASE w = "no art ver"
  <2>1. flash' = [flash EXCEPT !.fast_art_ver = NoOne]
    BY <1>7 DEF FlashOnly
  <2> QED BY <1>7, <1>0, <2>1 DEF Flash, Mirror, OwnerKept, Someone
<1>8. CASE w = "no art key"
  <2>1. flash' = [flash EXCEPT !.fast_art_key = NoOne]
    BY <1>8 DEF FlashOnly
  <2> QED BY <1>8, <1>0, <2>1 DEF Flash, Mirror, OwnerKept, Someone
<1>9. CASE w = "no force"
  <2>1. flash' = [flash EXCEPT !.force_prov = FALSE]
    BY <1>9 DEF FlashOnly
  <2> QED BY <1>9, <1>0, <2>1 DEF Flash, Mirror, OwnerKept, Someone
<1>10. CASE w = "no oneshot"
  <2>1. flash' = [flash EXCEPT !.oneshot_force = FALSE]
    BY <1>10 DEF FlashOnly
  <2> QED BY <1>10, <1>0, <2>1 DEF Flash, Mirror, OwnerKept, Someone
<1>11. CASE w = "v_id"
  <2>1. flash' = [flash EXCEPT !.v_id = g_mailbox.v_id]
    BY <1>11 DEF FlashOnly
  <2> QED BY <1>11, <1>0, <2>1 DEF Flash, Mirror, OwnerKept, Someone
<1>12. CASE w = "v_pub"
  <2>1. flash' = [flash EXCEPT !.v_pub = g_mailbox.v_pub]
    BY <1>12 DEF FlashOnly
  <2> QED BY <1>12, <1>0, <2>1 DEF Flash, Mirror, OwnerKept, Someone
<1>13. CASE w = "v_priv"
  <2>1. flash' = [flash EXCEPT !.v_priv = g_mailbox.v_priv]
    BY <1>13 DEF FlashOnly
  <2> QED BY <1>13, <1>0, <2>1 DEF Flash, Mirror, OwnerKept, Someone
<1>14. CASE w = "bitmaps"
  <2>1. flash' = [flash EXCEPT !.sig_bmp = g_mailbox.signaling_bitmap, !.slot_bmp = g_mailbox.slot_bitmap]
    BY <1>14 DEF FlashOnly
  <2> QED BY <1>14, <1>0, <2>1 DEF Flash, Mirror, OwnerKept, Someone
<1> QED BY <1>1, <1>2, <1>3, <1>4, <1>5, <1>6, <1>7, <1>8, <1>9, <1>10, <1>11, <1>12,
           <1>13, <1>14
        DEF Plain, Writes, RamWrites

LEMMA EndpointEffect ==
  ASSUME flash \in Flash, g_mailbox \in Mirror, commit \in Someone,
         NEW t \in Tasks, StoreEndpoint(t)
  PROVE  /\ flash' \in Flash /\ g_mailbox' \in Mirror /\ KeysKept
         /\ flash'.ep_pub = flash.ep_pub /\ g_mailbox'.slot_bitmap
         /\ t # "boot" => /\ flash'.ep_0 = commit /\ g_mailbox'.endpoint_pub = commit
                          /\ enrolledOn' = flash.v_pub
         /\ t = "boot" => /\ flash'.ep_0 = g_mailbox.endpoint_pub
                          /\ g_mailbox'.endpoint_pub = g_mailbox.endpoint_pub
                          /\ enrolledOn' = enrolledOn
BY DEF StoreEndpoint, Set, Flash, Mirror, KeysKept

LEMMA EmptyRecords ==
  /\ EmptyFlash \in Flash /\ EmptyMirror \in Mirror
  /\ EmptyFlash.ep_0 = NoOne /\ EmptyFlash.ep_pub = NoOne
  /\ EmptyFlash.v_id = 0 /\ EmptyFlash.v_pub = 0 /\ EmptyFlash.v_priv = 0
  /\ EmptyMirror.endpoint_pub = NoOne
  /\ EmptyMirror.v_id = 0 /\ EmptyMirror.v_pub = 0 /\ EmptyMirror.v_priv = 0
<1>1. EmptyFlash \in Flash
  BY DEF EmptyFlash, Flash, Someone
<1>2. EmptyMirror \in Mirror
  BY DEF EmptyMirror, Mirror, Someone
<1> QED BY <1>1, <1>2 DEF EmptyFlash, EmptyMirror

LEMMA WipeEffect ==
  ASSUME identities \in Nat, NewIdentity
  PROVE  /\ flash' \in Flash /\ g_mailbox' \in Mirror
         /\ flash'.ep_0 = NoOne /\ flash'.ep_pub = NoOne /\ g_mailbox'.endpoint_pub = NoOne
         /\ flash'.v_id = 0 /\ flash'.v_pub = 0 /\ flash'.v_priv = 0
         /\ identities' = identities + 1 /\ enrolledOn' = 0
         /\ g_mailbox'.v_id = identities' /\ g_mailbox'.v_pub = identities'
         /\ g_mailbox'.v_priv = identities'
<1>1. /\ flash' = EmptyFlash /\ identities' = identities + 1 /\ enrolledOn' = 0
      /\ g_mailbox' = [EmptyMirror EXCEPT !.v_id = identities', !.v_pub = identities',
                                          !.v_priv = identities']
  BY DEF NewIdentity, Set, GenerateVehicleId, GenerateVehicleKeypair
<1>2. identities' \in Nat
  BY <1>1
<1>3. /\ g_mailbox' \in Mirror /\ g_mailbox'.endpoint_pub = NoOne
      /\ g_mailbox'.v_id = identities' /\ g_mailbox'.v_pub = identities'
      /\ g_mailbox'.v_priv = identities'
  BY <1>1, <1>2, EmptyRecords DEF Mirror
<1> QED BY <1>1, <1>3, EmptyRecords

LEMMA KeypairFailsEffect ==
  ASSUME identities \in Nat, KeypairFails
  PROVE  /\ flash' \in Flash /\ g_mailbox' \in Mirror
         /\ flash'.ep_0 = NoOne /\ flash'.ep_pub = NoOne /\ g_mailbox'.endpoint_pub = NoOne
         /\ flash'.v_id = 0 /\ flash'.v_pub = 0 /\ flash'.v_priv = 0
         /\ identities' = identities + 1 /\ enrolledOn' = 0
         /\ g_mailbox'.v_id = identities' /\ g_mailbox'.v_pub = 0 /\ g_mailbox'.v_priv = 0
<1>1. /\ flash' = EmptyFlash /\ identities' = identities + 1 /\ enrolledOn' = 0
      /\ g_mailbox' = [EmptyMirror EXCEPT !.v_id = identities']
  BY DEF KeypairFails, Set, GenerateVehicleId
<1>2. /\ g_mailbox' \in Mirror /\ g_mailbox'.endpoint_pub = NoOne
      /\ g_mailbox'.v_id = identities' /\ g_mailbox'.v_pub = 0 /\ g_mailbox'.v_priv = 0
  BY <1>1, EmptyRecords DEF Mirror
<1> QED BY <1>1, <1>2, EmptyRecords

-----------------------------------------------------------------------------
\* One write: which it is, and what is left.
LEMMA WriteParts ==
  ASSUME MailboxTypeOK, NEW t \in Tasks, Write(t)
  PROVE  LET w == Head(todo[t])
         IN  /\ todo[t] # << >> /\ w \in Writes /\ Tail(todo[t]) \in Seq(Writes)
             /\ todo' = [todo EXCEPT ![t] = Tail(todo[t])]
             /\ UNCHANGED <<commit, power, crashes>>
             /\ \/ w = "endpoint" /\ StoreEndpoint(t) /\ UNCHANGED identities
                \/ w = "wipe" /\ NewIdentity
                \/ w \in RamWrites /\ RamAndFlash(w) /\ UNCHANGED <<identities, enrolledOn>>
                \/ w \in Plain /\ FlashOnly(w) /\ UNCHANGED <<identities, enrolledOn>>
<1>1. todo[t] \in Seq(Writes) /\ todo[t] # << >> /\ t \in DOMAIN todo
  BY DEF MailboxTypeOK, Write
<1>2. Head(todo[t]) \in Writes /\ Tail(todo[t]) \in Seq(Writes)
  BY <1>1, HeadTailProperties
<1> QED BY <1>1, <1>2 DEF Write, Plain

\* A write keeps the types.
LEMMA WriteType ==
  ASSUME MailboxTypeInv, NEW t \in Tasks, Write(t)
  PROVE  MailboxTypeInv'
<1> DEFINE w == Head(todo[t])
<1>1. MailboxTypeOK /\ flash \in Flash /\ g_mailbox \in Mirror /\ commit \in Someone
      /\ identities \in Nat
  BY DEF MailboxTypeInv, MailboxTypeOK
<1>2. todo' \in [Tasks -> Seq(Writes)]
  <2>1. Tail(todo[t]) \in Seq(Writes) /\ todo' = [todo EXCEPT ![t] = Tail(todo[t])]
    BY <1>1, WriteParts
  <2> QED BY <1>1, <2>1 DEF MailboxTypeOK
<1>3. UNCHANGED <<session, commit, power, crashes>>
  BY DEF Write
<1>4. SUFFICES /\ flash' \in Flash /\ g_mailbox' \in Mirror
               /\ identities' \in Nat /\ enrolledOn' \in 0 .. identities' /\ Generations'
  BY <1>1, <1>2, <1>3 DEF MailboxTypeInv, MailboxTypeOK
<1>5. CASE w = "endpoint" /\ StoreEndpoint(t) /\ UNCHANGED identities
  <2>1. flash' \in Flash /\ g_mailbox' \in Mirror /\ KeysKept
        /\ enrolledOn' \in {enrolledOn, flash.v_pub}
    BY <1>1, <1>5, EndpointEffect
  <2> QED BY <1>1, <1>5, <2>1 DEF MailboxTypeInv, MailboxTypeOK, Generations, KeysKept
<1>6. CASE w = "wipe" /\ NewIdentity
  <2> QED BY <1>1, <1>6, WipeEffect DEF Generations
<1>7. CASE w \in RamWrites /\ RamAndFlash(w) /\ UNCHANGED <<identities, enrolledOn>>
  <2>1. flash' \in Flash /\ g_mailbox' \in Mirror /\ KeysKept
    BY <1>1, <1>7, RamEffect
  <2> QED BY <1>1, <1>7, <2>1 DEF MailboxTypeInv, MailboxTypeOK, Generations, KeysKept
<1>8. CASE w \in Plain /\ FlashOnly(w) /\ UNCHANGED <<identities, enrolledOn>>
  <2>1. /\ flash' \in Flash /\ g_mailbox' = g_mailbox
        /\ flash'.v_id \in {g_mailbox.v_id, flash.v_id}
        /\ flash'.v_pub \in {g_mailbox.v_pub, flash.v_pub}
        /\ flash'.v_priv \in {g_mailbox.v_priv, flash.v_priv}
    BY <1>1, <1>8, PlainEffect
  <2> QED BY <1>1, <1>8, <2>1 DEF MailboxTypeInv, MailboxTypeOK, Generations
<1> QED BY <1>1, <1>5, <1>6, <1>7, <1>8, WriteParts

LEMMA InitType ==
  ASSUME MailboxInit PROVE MailboxTypeInv
<1>1. << >> \in Seq(Writes) /\ g_mailbox \in Mirror
      /\ g_mailbox.v_id = 0 /\ g_mailbox.v_pub = 0 /\ g_mailbox.v_priv = 0
  BY ShortPrograms, EmptyRecords DEF MailboxInit
<1>2. flash \in Flash /\ identities \in Nat /\ enrolledOn \in 0 .. identities
      /\ {flash.v_id, flash.v_pub, flash.v_priv} \subseteq 0 .. identities
  <2>1. CASE flash = EmptyFlash /\ enrolledOn = 0 /\ identities = 0
    <3>1. flash \in Flash /\ flash.v_id = 0 /\ flash.v_pub = 0 /\ flash.v_priv = 0
      BY <2>1, EmptyRecords
    <3>2. 0 .. identities = {0}
      BY <2>1
    <3> QED BY <2>1, <3>1, <3>2
  <2>2. ASSUME NEW o \in Owners, NEW half \in {0, 1},
               flash = [EmptyFlash EXCEPT !.ep_pub = o, !.v_id = 1, !.v_pub = 1,
                                          !.v_priv = half],
               enrolledOn = 1, identities = 1
        PROVE  flash \in Flash /\ {flash.v_id, flash.v_pub, flash.v_priv} \subseteq 0 .. 1
    <3>1. o \in Someone /\ half \in Nat /\ half \in 0 .. 1
      BY DEF Someone
    <3>2. flash \in Flash
      BY <2>2, <3>1, EmptyRecords DEF Flash
    <3>3. flash.v_id = 1 /\ flash.v_pub = 1 /\ flash.v_priv = half
      BY <2>2 DEF EmptyFlash
    <3> QED BY <3>1, <3>2, <3>3
  <2>3. CASE LegacyFlash /\ \E o \in Owners, half \in {0, 1} :
               /\ flash = [EmptyFlash EXCEPT !.ep_pub = o, !.v_id = 1, !.v_pub = 1,
                                             !.v_priv = half]
               /\ enrolledOn = 1 /\ identities = 1
    <3>1. PICK o \in Owners, half \in {0, 1} :
               /\ flash = [EmptyFlash EXCEPT !.ep_pub = o, !.v_id = 1, !.v_pub = 1,
                                             !.v_priv = half]
               /\ enrolledOn = 1 /\ identities = 1
      BY <2>3
    <3>2. flash \in Flash /\ {flash.v_id, flash.v_pub, flash.v_priv} \subseteq 0 .. 1
      BY <2>2, <3>1
    <3>3. identities \in Nat /\ enrolledOn \in 0 .. identities /\ 0 .. 1 = 0 .. identities
      BY <3>1
    <3> QED BY <3>2, <3>3
  <2> QED BY <2>1, <2>3 DEF MailboxInit
<1>3. todo \in [Tasks -> Seq(Writes)]
  BY <1>1 DEF MailboxInit
<1>4. crashes \in 0 .. MaxCrashes
  <2>1. crashes = 0
    BY DEF MailboxInit
  <2> QED BY <2>1, MaxCrashesAssumption
<1>5. MailboxTypeOK
  <2>1. session = "none" /\ commit = NoOne /\ power = "off"
    BY DEF MailboxInit
  <2> QED BY <1>1, <1>2, <1>3, <1>4, <2>1 DEF MailboxTypeOK, Someone
<1> QED BY <1>1, <1>2, <1>5 DEF MailboxTypeInv, Generations

LEMMA StepType ==
  ASSUME MailboxTypeInv, [MailboxNext]_mailboxVars
  PROVE  MailboxTypeInv'
<1> USE DEF MailboxTypeInv
<1>0. flash \in Flash /\ g_mailbox \in Mirror /\ identities \in Nat
      /\ todo \in [Tasks -> Seq(Writes)]
  BY DEF MailboxTypeOK
<1>1. CASE Boot \/ BeginAgain
  <2>1. /\ g_mailbox' = Loaded /\ power' \in {"booting", "again"}
        /\ todo' = [todo EXCEPT !["boot"] =
                      NormaliseWrites \o (IF MissingRoot THEN RekeyWrites ELSE << >>)]
        /\ UNCHANGED <<flash, session, commit, crashes, identities, enrolledOn>>
    BY <1>1 DEF Boot, BeginAgain, Begin
  <2>2. Loaded \in Mirror
        /\ Loaded.v_id = flash.v_id /\ Loaded.v_pub = flash.v_pub
        /\ Loaded.v_priv = flash.v_priv
    BY <1>0, LoadedType DEF Loaded
  <2>3. NormaliseWrites \o (IF MissingRoot THEN RekeyWrites ELSE << >>) \in Seq(Writes)
    BY ProgramTypes, ShortPrograms, ConcatProperties
  <2>4. todo' \in [Tasks -> Seq(Writes)]
    BY <1>0, <2>1, <2>3
  <2> QED BY <2>1, <2>2, <2>4 DEF MailboxTypeOK, Generations
<1>2. CASE BootDone
  BY <1>2 DEF BootDone, MailboxTypeOK, Generations
<1>3. CASE PowerFails
  <2>1. todo' \in [Tasks -> Seq(Writes)]
    BY <1>3, ShortPrograms DEF PowerFails
  <2>0. crashes' \in 0 .. MaxCrashes
    BY <1>3, MaxCrashesAssumption DEF PowerFails, MailboxTypeOK
  <2>2. UNCHANGED <<flash, identities, enrolledOn>> /\ g_mailbox' = EmptyMirror
        /\ power' = "off" /\ session' = "none" /\ commit' = NoOne
    BY <1>3 DEF PowerFails
  <2> QED BY <2>0, <2>1, <2>2, EmptyRecords DEF MailboxTypeOK, Generations, Someone
<1>4. CASE KeypairFails
  <2>1. todo' \in [Tasks -> Seq(Writes)] /\ power' \in {"starting", "on"}
        /\ UNCHANGED <<session, commit, crashes>>
    BY <1>0, <1>4, ShortPrograms DEF KeypairFails
  <2> QED BY <1>0, <1>4, <2>1, KeypairFailsEffect DEF MailboxTypeOK, Generations
<1>5. ASSUME NEW o \in Owners, NEW force \in BOOLEAN, NEW cert \in BOOLEAN,
             NEW artifact \in BOOLEAN, SetOwnerProvisioned(o, force, cert, artifact)
      PROVE  MailboxTypeInv'
  BY <1>5, EnrolTypes, OperationType DEF SetOwnerProvisioned, Tasks, Someone
<1>6. ASSUME NEW t \in {"nfc", "ble"}, ClearProvisionedOnly(t) PROVE MailboxTypeInv'
  <2>1. commit' \in Someone
    BY <1>6 DEF ClearProvisionedOnly, MailboxTypeOK, Someone
  <2> QED BY <1>6, <2>1, ClearTypes, OperationType DEF ClearProvisionedOnly, Tasks
<1>7. CASE ClearAll
  <2>1. commit' \in Someone
    BY <1>7 DEF ClearAll, MailboxTypeOK
  <2> QED BY <1>7, <2>1, ClearTypes, OperationType DEF ClearAll, Tasks
<1>8. ASSUME ToggleForceProvision \/ SetPersistentForce
               \/ ArmOneShotForce("nfc") \/ ArmOneShotForce("ble")
      PROVE  MailboxTypeInv'
  <2>1. UNCHANGED <<g_mailbox, todo, session, commit, power, crashes, identities, enrolledOn>>
    BY <1>8 DEF ToggleForceProvision, SetPersistentForce, ArmOneShotForce
  <2>2. flash' \in Flash /\ flash'.v_id = flash.v_id /\ flash'.v_pub = flash.v_pub
        /\ flash'.v_priv = flash.v_priv
    BY <1>0, <1>8 DEF ToggleForceProvision, SetPersistentForce, ArmOneShotForce,
       IsForceProvisioning, Flash
  <2> QED BY <2>1, <2>2 DEF MailboxTypeOK, Generations
<1>9. ASSUME NEW t \in Tasks, Write(t) PROVE MailboxTypeInv'
  BY <1>9, WriteType
<1>10. CASE BeginEnrolment \/ EnrolmentFails \/ UNCHANGED mailboxVars
  BY <1>10, SessionSteps DEF SessionOnly, MailboxTypeOK, Generations
<1> QED BY <1>1, <1>2, <1>3, <1>4, <1>5, <1>6, <1>7, <1>8, <1>9, <1>10
        DEF MailboxNext, SerialCommands, AdminCommands

(* Every variable of the mailbox keeps its type: the vehicle's keys are ones *)
(* that were made, and the writes left of an operation are ones it makes.    *)
THEOREM MailboxTypeCorrect == MailboxSpec => []MailboxTypeOK
<1>1. MailboxTypeInv => MailboxTypeOK
  BY DEF MailboxTypeInv
<1> QED BY <1>1, InitType, StepType, PTL DEF MailboxSpec

-----------------------------------------------------------------------------
(* From here on the two tasks do not overlap.  The invariant follows each    *)
(* operation through what it has left to write.  An older firmware may have  *)
(* left its owner in flash: whatever power failures come between the writes  *)
(* that move it to slot 0, and between those of a clear, is covered too.     *)
Avoids(s, ws) == \A i \in 1 .. Len(s) : s[i] \notin ws

\* A write of ws is to come, and none of us after it.
Settles(s, ws, us) ==
  \E k \in 1 .. Len(s) : s[k] \in ws /\ \A i \in k + 1 .. Len(s) : s[i] \notin us

\* The slot's bit is set by a write to come, and nothing takes it away then.
SetsActive(s) == Settles(s, {"active"}, Spoilers)

\* An owner in flash is seen by isProvisioned.
Shown == flash.ep_0 # NoOne => g_mailbox.slot_bitmap

SameKeys ==
  /\ g_mailbox.v_id = flash.v_id /\ g_mailbox.v_pub = flash.v_pub
  /\ g_mailbox.v_priv = flash.v_priv

\* begin has made new keys in RAM and is writing them.
NewKeys ==
  /\ g_mailbox.v_id # 0 /\ g_mailbox.v_pub = g_mailbox.v_id
  /\ g_mailbox.v_priv = g_mailbox.v_id
  /\ flash.ep_0 = NoOne /\ flash.ep_pub = NoOne

\* Who writes when, one task at a time.
TurnInv ==
  /\ todo["boot"] # << >> => power \in {"booting", "again"}
  /\ todo["nfc"] # << >> => power = "on" /\ todo["ble"] = << >>
  /\ todo["ble"] # << >> => power \in {"starting", "on"}

\* An owner an older firmware left has a slot, its own or another owner's.
Moved == flash.ep_pub # NoOne => flash.ep_0 # NoOne

\* What begin may have left to normalise; a migration is the longer of the two.
Migration == {<<"slots", "endpoint", "no legacy">>, <<"endpoint", "no legacy">>}
Normalising == Migration \cup {<<"no legacy">>, <<"slots">>, << >>}

BootInv ==
  power \in {"booting", "again"} =>
    \/ /\ todo["boot"] \in Normalising /\ (todo["boot"] \in Migration \/ Moved)
       /\ ~MissingRoot /\ SameKeys
    \/ /\ \E p \in Normalising : todo["boot"] = p \o RekeyWrites /\ (p \in Migration \/ Moved)
       /\ MissingRoot
    \/ todo["boot"] = <<"v_id", "v_pub", "v_priv", "bitmaps">> /\ NewKeys /\ flash.v_priv = 0
    \/ /\ todo["boot"] = <<"v_pub", "v_priv", "bitmaps">>
       /\ NewKeys /\ flash.v_id = g_mailbox.v_id /\ flash.v_priv = 0
    \/ /\ todo["boot"] = <<"v_priv", "bitmaps">>
       /\ NewKeys /\ flash.v_id = g_mailbox.v_id /\ flash.v_pub = g_mailbox.v_pub
       /\ flash.v_priv = 0
    \/ todo["boot"] = <<"bitmaps">> /\ NewKeys /\ SameKeys

\* Set-up is over: the keys are whole, or there are none and so no owner.
RunInv ==
  power \in {"starting", "on"} =>
    \/ ~MissingRoot /\ SameKeys
    \/ MissingRoot /\ ~HasVehiclePub /\ flash.ep_0 = NoOne

\* The writes that belong to other operations.
NotInEnrolment == {"no endpoint", "wipe"} \cup KeyWrites
NotInClear == {"endpoint", "token", "wipe"} \cup KeyWrites

\* A clear begins with the owner, in slot 0 and then where it used to be.
Clearing(s) ==
  /\ \/ Len(s) >= 2 /\ s[1] = "no endpoint" /\ s[2] = "no legacy"
     \/ flash.ep_0 = NoOne
  /\ Avoids(s, NotInClear)

\* An older firmware's owner goes with the next write.
Erasing == \E t \in {"nfc", "ble"} : todo[t] # << >> /\ Head(todo[t]) = "no legacy"

\* An enrolment ends with an owner that shows.
Enrolling(s) ==
  /\ Avoids(s, NotInEnrolment)
  /\ SetsActive(s) \/ (Avoids(s, Spoilers) /\ Shown)

TasksInv ==
  /\ todo["ble"] # << >> => Clearing(todo["ble"])
  /\ todo["nfc"] # << >> =>
       \/ commit = NoOne /\ Clearing(todo["nfc"])
       \/ commit \in Owners /\ HasVehiclePub /\ Enrolling(todo["nfc"])

OwnerInv ==
  /\ power \in {"booting", "again"} => g_mailbox.endpoint_pub = OwnerLoaded
  /\ power \in {"starting", "on"} =>
       g_mailbox.endpoint_pub = flash.ep_0 /\ (Moved \/ Erasing)
  /\ power # "off" /\ (todo["nfc"] = << >> \/ commit = NoOne) => Shown
  /\ OwnerLoaded # NoOne => enrolledOn = flash.v_pub

RecordInv == TurnInv /\ BootInv /\ RunInv /\ TasksInv /\ OwnerInv

-----------------------------------------------------------------------------
(* What is left of a program after its first write, and after another one.   *)
LEMMA TailAvoids ==
  ASSUME NEW s \in Seq(Writes), s # << >>, NEW ws, Avoids(s, ws)
  PROVE  Head(s) \notin ws /\ Avoids(Tail(s), ws)
<1>1. Len(s) \in Nat /\ Len(s) >= 1 /\ Head(s) = s[1]
  BY EmptySeq
<1>2. Len(Tail(s)) = Len(s) - 1 /\ \A i \in 1 .. Len(Tail(s)) : Tail(s)[i] = s[i + 1]
  BY HeadTailProperties
<1> QED BY <1>1, <1>2 DEF Avoids

LEMMA TailSecond ==
  ASSUME NEW s \in Seq(Writes), Len(s) >= 2
  PROVE  Tail(s) # << >> /\ Head(Tail(s)) = s[2]
<1>1. Len(s) \in Nat /\ s # << >>
  BY LenProperties, EmptySeq
<1>2. /\ Tail(s) \in Seq(Writes) /\ Len(Tail(s)) = Len(s) - 1
      /\ \A i \in 1 .. Len(Tail(s)) : Tail(s)[i] = s[i + 1]
  BY <1>1, HeadTailProperties
<1>3. 1 \in 1 .. Len(Tail(s)) /\ Len(Tail(s)) # 0
  BY <1>1, <1>2
<1>4. Tail(s)[1] = s[2]
  BY <1>2, <1>3
<1>5. Tail(s) # << >>
  BY <1>2, <1>3, EmptySeq
<1> QED BY <1>2, <1>4, <1>5, HeadTailProperties

LEMMA TailSettles ==
  ASSUME NEW s \in Seq(Writes), s # << >>, NEW ws, NEW us, Settles(s, ws, us)
  PROVE  Settles(Tail(s), ws, us) \/ (Head(s) \in ws /\ Avoids(Tail(s), us))
<1>1. Len(s) \in Nat /\ Len(s) >= 1 /\ Head(s) = s[1]
  BY EmptySeq
<1>2. Len(Tail(s)) = Len(s) - 1 /\ \A i \in 1 .. Len(Tail(s)) : Tail(s)[i] = s[i + 1]
  BY HeadTailProperties
<1>3. PICK k \in 1 .. Len(s) :
        s[k] \in ws /\ \A i \in k + 1 .. Len(s) : s[i] \notin us
  BY DEF Settles
<1>4. CASE k = 1
  BY <1>1, <1>2, <1>3, <1>4 DEF Avoids
<1>5. CASE k # 1
  <2>1. k - 1 \in 1 .. Len(Tail(s)) /\ Tail(s)[k - 1] \in ws
    BY <1>1, <1>2, <1>3, <1>5
  <2>2. \A i \in (k - 1) + 1 .. Len(Tail(s)) : Tail(s)[i] \notin us
    BY <1>1, <1>2, <1>3
  <2> QED BY <2>1, <2>2 DEF Settles
<1> QED BY <1>4, <1>5

LEMMA NothingSettles ==
  ASSUME NEW ws, NEW us PROVE ~Settles(<< >>, ws, us)
<1>1. Len(<< >>) = 0
  OBVIOUS
<1> QED BY <1>1 DEF Settles

LEMMA TailActive ==
  ASSUME NEW s \in Seq(Writes), s # << >>, SetsActive(s)
  PROVE  SetsActive(Tail(s)) \/ (Head(s) = "active" /\ Avoids(Tail(s), Spoilers))
<1>1. Settles(s, {"active"}, Spoilers)
  BY DEF SetsActive
<1>2. Settles(Tail(s), {"active"}, Spoilers)
        \/ (Head(s) \in {"active"} /\ Avoids(Tail(s), Spoilers))
  BY <1>1, TailSettles
<1> QED BY <1>2 DEF SetsActive

LEMMA ConcatAvoids ==
  ASSUME NEW s \in Seq(Writes), NEW u \in Seq(Writes), NEW ws,
         Avoids(s, ws), Avoids(u, ws)
  PROVE  s \o u \in Seq(Writes) /\ Avoids(s \o u, ws)
<1>1. /\ Len(s) \in Nat /\ Len(u) \in Nat
      /\ s \o u \in Seq(Writes) /\ Len(s \o u) = Len(s) + Len(u)
      /\ \A i \in 1 .. Len(s) + Len(u) :
           (s \o u)[i] = IF i =< Len(s) THEN s[i] ELSE u[i - Len(s)]
  BY ConcatProperties
<1> QED BY <1>1 DEF Avoids

LEMMA ConcatSettles ==
  ASSUME NEW s \in Seq(Writes), NEW u \in Seq(Writes), NEW ws, NEW us,
         \/ Settles(s, ws, us) /\ Avoids(u, us)
         \/ Settles(u, ws, us)
  PROVE  Settles(s \o u, ws, us)
<1>1. /\ Len(s) \in Nat /\ Len(u) \in Nat /\ Len(s \o u) = Len(s) + Len(u)
      /\ \A i \in 1 .. Len(s) + Len(u) :
           (s \o u)[i] = IF i =< Len(s) THEN s[i] ELSE u[i - Len(s)]
  BY ConcatProperties
<1>2. CASE Settles(s, ws, us) /\ Avoids(u, us)
  <2>1. PICK k \in 1 .. Len(s) :
          s[k] \in ws /\ \A i \in k + 1 .. Len(s) : s[i] \notin us
    BY <1>2 DEF Settles
  <2>2. k \in 1 .. Len(s \o u) /\ (s \o u)[k] \in ws
    BY <1>1, <2>1
  <2>3. \A i \in k + 1 .. Len(s \o u) : (s \o u)[i] \notin us
    BY <1>1, <1>2, <2>1 DEF Avoids
  <2> QED BY <2>2, <2>3 DEF Settles
<1>3. CASE Settles(u, ws, us)
  <2>1. PICK k \in 1 .. Len(u) :
          u[k] \in ws /\ \A i \in k + 1 .. Len(u) : u[i] \notin us
    BY <1>3 DEF Settles
  <2>2. Len(s) + k \in 1 .. Len(s \o u) /\ (s \o u)[Len(s) + k] \in ws
    BY <1>1, <2>1
  <2>3. \A i \in (Len(s) + k) + 1 .. Len(s \o u) : (s \o u)[i] \notin us
    BY <1>1, <2>1
  <2> QED BY <2>2, <2>3 DEF Settles
<1> QED BY <1>2, <1>3

LEMMA ConcatActive ==
  ASSUME NEW s \in Seq(Writes), NEW u \in Seq(Writes),
         \/ SetsActive(s) /\ Avoids(u, Spoilers)
         \/ SetsActive(u)
  PROVE  SetsActive(s \o u)
BY ConcatSettles DEF SetsActive

-----------------------------------------------------------------------------
(* The programs.                                                             *)
\* What an enrolment may add spoils nothing.
LEMMA EmptyProgram ==
  ASSUME NEW ws PROVE Avoids(<< >>, ws)
<1>1. Len(<< >>) = 0
  OBVIOUS
<1> QED BY <1>1 DEF Avoids

\* A program none of whose writes is in the set.
LEMMA TwoAvoid ==
  ASSUME NEW s, NEW ws, Len(s) = 2, s[1] \notin ws, s[2] \notin ws
  PROVE  Avoids(s, ws)
<1>1. \A i \in 1 .. 2 : s[i] \notin ws
  OBVIOUS
<1> QED BY <1>1 DEF Avoids

LEMMA ThreeAvoid ==
  ASSUME NEW s, NEW ws, Len(s) = 3, s[1] \notin ws, s[2] \notin ws, s[3]
         \notin ws
  PROVE  Avoids(s, ws)
<1>1. \A i \in 1 .. 3 : s[i] \notin ws
  OBVIOUS
<1> QED BY <1>1 DEF Avoids

LEMMA SevenAvoid ==
  ASSUME NEW s, NEW ws, Len(s) = 7, s[1] \notin ws, s[2] \notin ws, s[3]
         \notin ws, s[4] \notin ws, s[5] \notin ws, s[6] \notin ws, s[7] \notin
         ws
  PROVE  Avoids(s, ws)
<1>1. \A i \in 1 .. 7 : s[i] \notin ws
  OBVIOUS
<1> QED BY <1>1 DEF Avoids

LEMMA EightAvoid ==
  ASSUME NEW s, NEW ws, Len(s) = 8, s[1] \notin ws, s[2] \notin ws, s[3]
         \notin ws, s[4] \notin ws, s[5] \notin ws, s[6] \notin ws, s[7] \notin
         ws, s[8] \notin ws
  PROVE  Avoids(s, ws)
<1>1. \A i \in 1 .. 8 : s[i] \notin ws
  OBVIOUS
<1> QED BY <1>1 DEF Avoids

LEMMA HarmlessPrograms ==
  /\ Avoids(StoreCertChain, NotInEnrolment) /\ Avoids(StoreCertChain, Spoilers)
  /\ Avoids(StoreFastArtifact, NotInEnrolment) /\ Avoids(StoreFastArtifact, Spoilers)
  /\ Avoids(<<"no force", "no oneshot">>, NotInEnrolment)
  /\ Avoids(<<"no force", "no oneshot">>, Spoilers)
  /\ Avoids(StoreCertChain, {"endpoint"}) /\ Avoids(StoreFastArtifact, {"endpoint"})
  /\ Avoids(<<"no force", "no oneshot">>, {"endpoint"})
<1> DEFINE c == StoreCertChain
           a == StoreFastArtifact
           f == <<"no force", "no oneshot">>
<1>1. Len(c) = 1 /\ c[1] = "cert"
  BY DEF StoreCertChain
<1>2. Len(a) = 2 /\ a[1] = "art ver" /\ a[2] = "art key"
  BY DEF StoreFastArtifact
<1>3. Len(f) = 2 /\ f[1] = "no force" /\ f[2] = "no oneshot"
  OBVIOUS
<1> HIDE DEF c, a, f
<1>4. Avoids(c, NotInEnrolment) /\ Avoids(c, Spoilers)
  <2>1. c[1] \notin NotInEnrolment
    BY <1>1 DEF NotInEnrolment, KeyWrites
  <2>2. c[1] \notin Spoilers
    BY <1>1 DEF Spoilers
  <2> QED BY <1>1, <2>1, <2>2 DEF Avoids
<1>5. Avoids(a, NotInEnrolment) /\ Avoids(a, Spoilers)
  <2>1. a[1] \notin NotInEnrolment /\ a[2] \notin NotInEnrolment
    BY <1>2 DEF NotInEnrolment, KeyWrites
  <2>2. a[1] \notin Spoilers /\ a[2] \notin Spoilers
    BY <1>2 DEF Spoilers
  <2> QED BY <1>2, <2>1, <2>2, TwoAvoid
<1>6. Avoids(f, NotInEnrolment) /\ Avoids(f, Spoilers)
  <2>1. f[1] \notin NotInEnrolment /\ f[2] \notin NotInEnrolment
    BY <1>3 DEF NotInEnrolment, KeyWrites
  <2>2. f[1] \notin Spoilers /\ f[2] \notin Spoilers
    BY <1>3 DEF Spoilers
  <2> QED BY <1>3, <2>1, <2>2, TwoAvoid
<1>7. Avoids(c, {"endpoint"})
  <2>1. Len(c) = 1 /\ c[1] # "endpoint"
    BY <1>1
  <2> QED BY <2>1 DEF Avoids
<1>8. Avoids(a, {"endpoint"}) /\ Avoids(f, {"endpoint"})
  BY <1>2, <1>3, TwoAvoid
<1> QED BY <1>4, <1>5, <1>6, <1>7, <1>8 DEF c, a, f

LEMMA EnrolWritesProgram ==
  ASSUME NEW force \in BOOLEAN
  PROVE  /\ EnrolWrites(force) \in Seq(Writes)
         /\ Avoids(EnrolWrites(force), NotInEnrolment)
         /\ SetsActive(EnrolWrites(force))
<1> DEFINE first == <<"endpoint", "slots", "no legacy">>
           anew == <<"no token", "slots">>
           fresh == IF force THEN anew ELSE << >>
           last == <<"active", "token", "signal">>
<1>1. first \in Seq(Writes) /\ fresh \in Seq(Writes) /\ last \in Seq(Writes)
  BY ShortPrograms
<1>2. Len(first) = 3 /\ first[1] = "endpoint" /\ first[2] = "slots" /\ first[3] = "no legacy"
  OBVIOUS
<1>3. Len(anew) = 2 /\ anew[1] = "no token" /\ anew[2] = "slots"
  OBVIOUS
<1>4. Len(last) = 3 /\ last[1] = "active" /\ last[2] = "token" /\ last[3] = "signal"
  OBVIOUS
<1>5. EnrolWrites(force) = (first \o fresh) \o last
  BY DEF EnrolWrites
<1> HIDE DEF first, anew, last
<1>6. Avoids(first, NotInEnrolment)
  <2>1. /\ first[1] \notin NotInEnrolment /\ first[2] \notin NotInEnrolment
        /\ first[3] \notin NotInEnrolment
    BY <1>2 DEF NotInEnrolment, KeyWrites
  <2> QED BY <1>2, <2>1, ThreeAvoid
<1>7. Avoids(anew, NotInEnrolment)
  <2>1. anew[1] \notin NotInEnrolment /\ anew[2] \notin NotInEnrolment
    BY <1>3 DEF NotInEnrolment, KeyWrites
  <2> QED BY <1>3, <2>1, TwoAvoid
<1>8. Avoids(fresh, NotInEnrolment)
  BY <1>7, EmptyProgram
<1>9. Avoids(last, NotInEnrolment)
  <2>1. /\ last[1] \notin NotInEnrolment /\ last[2] \notin NotInEnrolment
        /\ last[3] \notin NotInEnrolment
    BY <1>4 DEF NotInEnrolment, KeyWrites
  <2> QED BY <1>4, <2>1, ThreeAvoid
<1>10. SetsActive(last)
  <2>1. last[2] \notin Spoilers /\ last[3] \notin Spoilers
    BY <1>4 DEF Spoilers
  <2>2. 1 \in 1 .. Len(last) /\ \A i \in 1 + 1 .. Len(last) : last[i] \notin Spoilers
    BY <1>4, <2>1
  <2> QED BY <1>4, <2>2 DEF SetsActive, Settles
<1> HIDE DEF fresh
<1>11. first \o fresh \in Seq(Writes) /\ Avoids(first \o fresh, NotInEnrolment)
  BY <1>1, <1>6, <1>8, ConcatAvoids
<1>12. (first \o fresh) \o last \in Seq(Writes)
       /\ Avoids((first \o fresh) \o last, NotInEnrolment)
  BY <1>1, <1>9, <1>11, ConcatAvoids
<1>13. SetsActive((first \o fresh) \o last)
  BY <1>1, <1>10, <1>11, ConcatActive
<1> QED BY <1>5, <1>12, <1>13

LEMMA EnrolProgram ==
  ASSUME NEW force \in BOOLEAN, NEW cert \in BOOLEAN, NEW artifact \in BOOLEAN
  PROVE  LET program == EnrolWrites(force)
                          \o (IF cert THEN StoreCertChain ELSE << >>)
                          \o (IF artifact THEN StoreFastArtifact ELSE << >>)
                          \o (IF force THEN <<"no force", "no oneshot">> ELSE << >>)
         IN  Avoids(program, NotInEnrolment) /\ SetsActive(program)
<1> DEFINE e == EnrolWrites(force)
           c == IF cert THEN StoreCertChain ELSE << >>
           a == IF artifact THEN StoreFastArtifact ELSE << >>
           f == IF force THEN <<"no force", "no oneshot">> ELSE << >>
<1>1. e \in Seq(Writes) /\ Avoids(e, NotInEnrolment) /\ SetsActive(e)
  BY EnrolWritesProgram
<1>2. c \in Seq(Writes) /\ Avoids(c, NotInEnrolment) /\ Avoids(c, Spoilers)
  BY HarmlessPrograms, EmptyProgram, ProgramTypes, ShortPrograms
<1>3. a \in Seq(Writes) /\ Avoids(a, NotInEnrolment) /\ Avoids(a, Spoilers)
  BY HarmlessPrograms, EmptyProgram, ProgramTypes, ShortPrograms
<1>4. f \in Seq(Writes) /\ Avoids(f, NotInEnrolment) /\ Avoids(f, Spoilers)
  BY HarmlessPrograms, EmptyProgram, ProgramTypes, ShortPrograms
<1> HIDE DEF e, c, a, f
<1>5. e \o c \in Seq(Writes) /\ Avoids(e \o c, NotInEnrolment) /\ SetsActive(e \o c)
  BY <1>1, <1>2, ConcatAvoids, ConcatActive
<1>6. (e \o c) \o a \in Seq(Writes) /\ Avoids((e \o c) \o a, NotInEnrolment)
      /\ SetsActive((e \o c) \o a)
  BY <1>3, <1>5, ConcatAvoids, ConcatActive
<1>7. Avoids(((e \o c) \o a) \o f, NotInEnrolment) /\ SetsActive(((e \o c) \o a) \o f)
  BY <1>4, <1>6, ConcatAvoids, ConcatActive
<1> QED BY <1>7 DEF e, c, a, f

\* The first write of a program is the first of what it is put together from.
LEMMA ConcatFirst ==
  ASSUME NEW s \in Seq(Writes), NEW u \in Seq(Writes), s # << >>
  PROVE  s \o u # << >> /\ (s \o u)[1] = s[1]
<1>1. Len(s) \in Nat /\ Len(s) >= 1 /\ Len(u) \in Nat
  BY EmptySeq
<1>2. s \o u \in Seq(Writes) /\ Len(s \o u) >= 1 /\ (s \o u)[1] = s[1]
  BY <1>1, ConcatProperties
<1> QED BY <1>2

LEMMA ConcatFirstTwo ==
  ASSUME NEW s \in Seq(Writes), NEW u \in Seq(Writes), Len(s) >= 2
  PROVE  Len(s \o u) >= 2 /\ (s \o u)[1] = s[1] /\ (s \o u)[2] = s[2]
<1>1. Len(s) \in Nat /\ Len(u) \in Nat
  BY LenProperties
<1>2. /\ Len(s \o u) = Len(s) + Len(u)
      /\ \A i \in 1 .. Len(s) + Len(u) :
           (s \o u)[i] = IF i =< Len(s) THEN s[i] ELSE u[i - Len(s)]
  BY ConcatProperties
<1>3. 1 \in 1 .. Len(s) + Len(u) /\ 2 \in 1 .. Len(s) + Len(u)
  BY <1>1
<1> QED BY <1>1, <1>2, <1>3

LEMMA ClearPrograms ==
  LET only == <<"no endpoint", "no legacy", "slots", "no token", "slots", "inactive",
                "signal", "no cert">> \o ClearFastArtifact
      all == <<"no endpoint", "no legacy", "slots", "no mailbox", "no token", "slots",
               "no cert">> \o ClearFastArtifact \o <<"no force", "no oneshot">>
  IN  /\ Len(only) >= 2 /\ only[1] = "no endpoint" /\ only[2] = "no legacy"
      /\ Len(all) >= 2 /\ all[1] = "no endpoint" /\ all[2] = "no legacy"
      /\ Avoids(only, NotInClear) /\ Avoids(all, NotInClear)
<1> DEFINE o == <<"no endpoint", "no legacy", "slots", "no token", "slots", "inactive",
                  "signal", "no cert">>
           a == <<"no endpoint", "no legacy", "slots", "no mailbox", "no token", "slots",
                  "no cert">>
           f == <<"no force", "no oneshot">>
           c == ClearFastArtifact
<1>1. o \in Seq(Writes) /\ a \in Seq(Writes) /\ f \in Seq(Writes) /\ c \in Seq(Writes)
  <2>1. o \in Seq(Writes) /\ a \in Seq(Writes)
    BY DEF Writes
  <2> QED BY <2>1, ShortPrograms, ProgramTypes
<1>2. /\ Len(o) = 8 /\ o[1] = "no endpoint" /\ o[2] = "no legacy" /\ o[3] = "slots"
      /\ o[4] = "no token" /\ o[5] = "slots" /\ o[6] = "inactive"
      /\ o[7] = "signal" /\ o[8] = "no cert"
  OBVIOUS
<1>3. /\ Len(a) = 7 /\ a[1] = "no endpoint" /\ a[2] = "no legacy" /\ a[3] = "slots"
      /\ a[4] = "no mailbox" /\ a[5] = "no token" /\ a[6] = "slots"
      /\ a[7] = "no cert"
  OBVIOUS
<1>4. Len(f) = 2 /\ f[1] = "no force" /\ f[2] = "no oneshot"
  OBVIOUS
<1>5. Len(c) = 2 /\ c[1] = "no art ver" /\ c[2] = "no art key"
  BY DEF ClearFastArtifact
<1> HIDE DEF o, a, f, c
<1>6. Avoids(o, NotInClear) /\ o # << >>
  <2>1. /\ o[1] \notin NotInClear /\ o[2] \notin NotInClear
        /\ o[3] \notin NotInClear /\ o[4] \notin NotInClear
        /\ o[5] \notin NotInClear /\ o[6] \notin NotInClear
        /\ o[7] \notin NotInClear /\ o[8] \notin NotInClear
    BY <1>2 DEF NotInClear, KeyWrites
  <2>2. Avoids(o, NotInClear)
    BY <1>2, <2>1, EightAvoid
  <2>3. Len(o) = 8
    BY <1>2
  <2>4. Len(<< >>) = 0
    OBVIOUS
  <2> QED BY <2>2, <2>3, <2>4
<1>7. Avoids(a, NotInClear) /\ a # << >>
  <2>1. /\ a[1] \notin NotInClear /\ a[2] \notin NotInClear
        /\ a[3] \notin NotInClear /\ a[4] \notin NotInClear
        /\ a[5] \notin NotInClear /\ a[6] \notin NotInClear
        /\ a[7] \notin NotInClear
    BY <1>3 DEF NotInClear, KeyWrites
  <2>2. Avoids(a, NotInClear)
    BY <1>3, <2>1, SevenAvoid
  <2>3. Len(a) = 7
    BY <1>3
  <2>4. Len(<< >>) = 0
    OBVIOUS
  <2> QED BY <2>2, <2>3, <2>4
<1>8. Avoids(f, NotInClear)
  <2>1. f[1] \notin NotInClear /\ f[2] \notin NotInClear
    BY <1>4 DEF NotInClear, KeyWrites
  <2> QED BY <1>4, <2>1, TwoAvoid
<1>9. Avoids(c, NotInClear)
  <2>1. c[1] \notin NotInClear /\ c[2] \notin NotInClear
    BY <1>5 DEF NotInClear, KeyWrites
  <2> QED BY <1>5, <2>1, TwoAvoid
<1>10. /\ Avoids(o \o c, NotInClear)
       /\ Len(o \o c) >= 2 /\ (o \o c)[1] = "no endpoint" /\ (o \o c)[2] = "no legacy"
  <2>1. Len(o) >= 2
    <3>1. Len(o) = 8
      BY <1>2
    <3> QED BY <3>1
  <2>2. Len(o \o c) >= 2 /\ (o \o c)[1] = "no endpoint" /\ (o \o c)[2] = "no legacy"
    BY <1>1, <1>2, <2>1, ConcatFirstTwo
  <2> QED BY <1>1, <1>6, <1>9, <2>2, ConcatAvoids
<1>11. /\ a \o c \in Seq(Writes) /\ Avoids(a \o c, NotInClear)
       /\ Len(a \o c) >= 2 /\ (a \o c)[1] = "no endpoint" /\ (a \o c)[2] = "no legacy"
  <2>1. Len(a) >= 2
    <3>1. Len(a) = 7
      BY <1>3
    <3> QED BY <3>1
  <2>2. Len(a \o c) >= 2 /\ (a \o c)[1] = "no endpoint" /\ (a \o c)[2] = "no legacy"
    BY <1>1, <1>3, <2>1, ConcatFirstTwo
  <2> QED BY <1>1, <1>7, <1>9, <2>2, ConcatAvoids
<1>12. /\ Avoids((a \o c) \o f, NotInClear)
       /\ Len((a \o c) \o f) >= 2
       /\ ((a \o c) \o f)[1] = "no endpoint" /\ ((a \o c) \o f)[2] = "no legacy"
  BY <1>1, <1>8, <1>11, ConcatAvoids, ConcatFirstTwo
<1> QED BY <1>10, <1>11, <1>12 DEF o, a, f, c

\* What is left of a program put together from two, as long as the first lasts.
LEMMA ConcatHead ==
  ASSUME NEW s \in Seq(Writes), NEW u \in Seq(Writes), s # << >>
  PROVE  /\ s \o u # << >> /\ Head(s \o u) = Head(s) /\ Tail(s \o u) = Tail(s) \o u
<1>1. /\ Len(s) \in Nat /\ Len(s) >= 1 /\ Len(u) \in Nat /\ Head(s) = s[1]
  BY EmptySeq
<1>2. /\ s \o u \in Seq(Writes) /\ Len(s \o u) = Len(s) + Len(u)
      /\ \A i \in 1 .. Len(s) + Len(u) :
           (s \o u)[i] = IF i =< Len(s) THEN s[i] ELSE u[i - Len(s)]
  BY ConcatProperties
<1>3. s \o u # << >> /\ Head(s \o u) = Head(s)
  BY <1>1, <1>2, ConcatFirst, EmptySeq
<1>4. /\ Tail(s) \in Seq(Writes) /\ Len(Tail(s)) = Len(s) - 1
      /\ \A i \in 1 .. Len(Tail(s)) : Tail(s)[i] = s[i + 1]
  BY HeadTailProperties
<1>5. /\ Tail(s \o u) \in Seq(Writes) /\ Len(Tail(s \o u)) = Len(s) + Len(u) - 1
      /\ \A i \in 1 .. Len(Tail(s \o u)) : Tail(s \o u)[i] = (s \o u)[i + 1]
  BY <1>2, <1>3, HeadTailProperties
<1>6. /\ Tail(s) \o u \in Seq(Writes) /\ Len(Tail(s) \o u) = Len(s) - 1 + Len(u)
      /\ \A i \in 1 .. Len(s) - 1 + Len(u) :
           (Tail(s) \o u)[i] = IF i =< Len(s) - 1 THEN Tail(s)[i] ELSE u[i - (Len(s) - 1)]
  BY <1>4, ConcatProperties
<1>7. \A i \in 1 .. Len(s) + Len(u) - 1 : Tail(s \o u)[i] = (Tail(s) \o u)[i]
  <2>1. TAKE i \in 1 .. Len(s) + Len(u) - 1
  <2>2. Tail(s \o u)[i] = IF i + 1 =< Len(s) THEN s[i + 1] ELSE u[i + 1 - Len(s)]
    BY <1>1, <1>2, <1>5
  <2>3. CASE i + 1 =< Len(s)
    BY <1>1, <1>4, <1>6, <2>2, <2>3
  <2>4. CASE i + 1 > Len(s)
    <3>1. i + 1 - Len(s) = i - (Len(s) - 1)
      BY <1>1
    <3> QED BY <1>1, <1>6, <2>2, <2>4, <3>1
  <2> QED BY <1>1, <2>3, <2>4
<1>8. Len(Tail(s \o u)) = Len(Tail(s) \o u)
  BY <1>1, <1>5, <1>6
<1> QED BY <1>1, <1>3, <1>5, <1>6, <1>7, <1>8, SeqEqual

LEMMA BootPrograms ==
  /\ RekeyWrites = <<"wipe", "v_id", "v_pub", "v_priv", "bitmaps">>
  /\ << >> \o RekeyWrites = RekeyWrites
  /\ \A p \in Normalising : p \in Seq(Writes) /\ p \o << >> = p
<1>1. RekeyWrites = <<"wipe", "v_id", "v_pub", "v_priv", "bitmaps">>
  BY DEF RekeyWrites
<1>2. << >> \o RekeyWrites = RekeyWrites
  BY ProgramTypes, ShortPrograms, ConcatEmptySeq
<1>3. \A p \in Normalising : p \in Seq(Writes)
  <2>1. <<"endpoint", "no legacy">> \in Seq(Writes) /\ <<"no legacy">> \in Seq(Writes)
    BY DEF Writes
  <2> QED BY <2>1, ShortPrograms DEF Normalising, Migration
<1> QED BY <1>1, <1>2, <1>3, ConcatEmptySeq

-----------------------------------------------------------------------------
(* The invariant of the record: at the start, and over every step.           *)
LEMMA InitRecord ==
  ASSUME MailboxInit PROVE RecordInv
<1>1. todo = [t \in Tasks |-> << >>] /\ power = "off"
  BY DEF MailboxInit
<1>2. todo["boot"] = << >> /\ todo["nfc"] = << >> /\ todo["ble"] = << >>
  BY <1>1 DEF Tasks
<1>3. OwnerLoaded # NoOne => enrolledOn = flash.v_pub
  <2>1. CASE flash = EmptyFlash
    BY <2>1, EmptyRecords DEF OwnerLoaded
  <2>2. CASE \E o \in Owners, half \in {0, 1} :
               /\ flash = [EmptyFlash EXCEPT !.ep_pub = o, !.v_id = 1, !.v_pub = 1,
                                             !.v_priv = half]
               /\ enrolledOn = 1
    BY <2>2 DEF EmptyFlash
  <2> QED BY <2>1, <2>2 DEF MailboxInit
<1> QED BY <1>1, <1>2, <1>3 DEF RecordInv, TurnInv, BootInv, RunInv, TasksInv, OwnerInv

LEMMA BootRecord ==
  ASSUME MailboxTypeInv, RecordInv, Overlap = FALSE, Boot \/ BeginAgain
  PROVE  RecordInv'
<1>0. todo \in [Tasks -> Seq(Writes)] /\ flash \in Flash
  BY DEF MailboxTypeInv, MailboxTypeOK
<1>1. /\ g_mailbox' = Loaded /\ power' \in {"booting", "again"}
      /\ todo' = [todo EXCEPT !["boot"] =
                    NormaliseWrites \o (IF MissingRoot THEN RekeyWrites ELSE << >>)]
      /\ flash' = flash /\ enrolledOn' = enrolledOn /\ commit' = commit
  BY DEF Boot, BeginAgain, Begin
<1>2. todo["nfc"] = << >> /\ todo["ble"] = << >>
  BY DEF Boot, BeginAgain, RecordInv, TurnInv, Tasks
<1>3. /\ todo'["nfc"] = << >> /\ todo'["ble"] = << >>
      /\ todo'["boot"] = NormaliseWrites \o (IF MissingRoot THEN RekeyWrites ELSE << >>)
  BY <1>0, <1>1, <1>2 DEF Tasks
<1>4. NormaliseWrites \in Normalising /\ (NormaliseWrites \in Migration \/ Moved)
  BY DEF NormaliseWrites, Normalising, Migration, Moved
<1>5. /\ MissingRoot' <=> MissingRoot
      /\ Moved' <=> Moved
      /\ OwnerLoaded' = OwnerLoaded
  BY <1>1 DEF MissingRoot, Moved, OwnerLoaded
<1>6. /\ Loaded.endpoint_pub = OwnerLoaded
      /\ flash.ep_0 # NoOne => Loaded.slot_bitmap
      /\ Loaded.v_id = flash.v_id /\ Loaded.v_pub = flash.v_pub
      /\ Loaded.v_priv = flash.v_priv
  BY DEF Loaded, OwnerLoaded
<1>8. BootInv'
  <2>2. CASE MissingRoot
    <3>1. todo'["boot"] = NormaliseWrites \o RekeyWrites
      BY <1>3, <2>2
    <3> QED BY <1>4, <1>5, <2>2, <3>1 DEF BootInv
  <2>1. CASE ~MissingRoot
    <3>1. todo'["boot"] = NormaliseWrites
      BY <1>3, <1>4, <2>1, BootPrograms
    <3>2. SameKeys'
      BY <1>1, <1>6 DEF SameKeys
    <3> QED BY <1>4, <1>5, <2>1, <3>1, <3>2 DEF BootInv
  <2> QED BY <2>1, <2>2
<1>9. TurnInv' /\ RunInv' /\ TasksInv'
  BY <1>1, <1>3 DEF TurnInv, RunInv, TasksInv
<1>10. OwnerInv'
  BY <1>1, <1>5, <1>6 DEF RecordInv, OwnerInv, Shown
<1> QED BY <1>8, <1>9, <1>10 DEF RecordInv

\* begin has written everything it had to.
LEMMA BootDoneShape ==
  ASSUME BootInv, power \in {"booting", "again"}, todo["boot"] = << >>
  PROVE  ~MissingRoot /\ SameKeys /\ Moved
<1>1. << >> \notin Migration
  BY DEF Migration
<1>2. \A p \in Normalising : p \o RekeyWrites # << >>
  <2>1. TAKE p \in Normalising
  <2>2. CASE p = << >>
    BY <2>2, BootPrograms
  <2>3. CASE p # << >>
    BY <2>3, BootPrograms, ProgramTypes, ConcatHead
  <2> QED BY <2>2, <2>3
<1> QED BY <1>1, <1>2 DEF BootInv

LEMMA BootDoneRecord ==
  ASSUME RecordInv, BootDone PROVE RecordInv'
<1>1. /\ power \in {"booting", "again"} /\ todo["boot"] = << >> /\ power' = "on"
      /\ UNCHANGED <<flash, g_mailbox, todo, commit, enrolledOn>>
  BY DEF BootDone
<1>2. ~MissingRoot /\ SameKeys /\ Moved
  BY <1>1, BootDoneShape DEF RecordInv
<1>3. RunInv'
  BY <1>1, <1>2 DEF RunInv, MissingRoot, SameKeys
<1>4. TurnInv'
  BY <1>1 DEF RecordInv, TurnInv
<1>5. BootInv'
  BY <1>1 DEF BootInv
<1>6. TasksInv'
  <2>1. todo["nfc"] = << >> /\ todo["ble"] = << >>
    BY <1>1 DEF RecordInv, TurnInv
  <2> QED BY <1>1, <2>1 DEF TasksInv
<1>7. OwnerInv'
  <2>1. OwnerLoaded' = OwnerLoaded /\ Moved' /\ OwnerLoaded = flash.ep_0
    BY <1>1, <1>2 DEF OwnerLoaded, Moved
  <2> QED BY <1>1, <2>1 DEF RecordInv, OwnerInv, Shown
<1> QED BY <1>3, <1>4, <1>5, <1>6, <1>7 DEF RecordInv

LEMMA PowerFailsRecord ==
  ASSUME RecordInv, PowerFails PROVE RecordInv'
<1>1. /\ power' = "off" /\ todo' = [t \in Tasks |-> << >>]
      /\ UNCHANGED <<flash, enrolledOn>>
  BY DEF PowerFails
<1>2. todo'["boot"] = << >> /\ todo'["nfc"] = << >> /\ todo'["ble"] = << >>
  BY <1>1 DEF Tasks
<1> QED BY <1>1, <1>2 DEF RecordInv, OwnerLoaded, TurnInv, BootInv, RunInv, TasksInv, OwnerInv

LEMMA KeypairFailsRecord ==
  ASSUME MailboxTypeInv, RecordInv, KeypairFails PROVE RecordInv'
<1>0. todo \in [Tasks -> Seq(Writes)] /\ identities \in Nat
  BY DEF MailboxTypeInv, MailboxTypeOK
<1>1. /\ todo["boot"] # << >> /\ todo' = [todo EXCEPT !["boot"] = << >>]
      /\ power' \in {"starting", "on"}
  BY DEF KeypairFails
<1>2. power \in {"booting", "again"} /\ todo["nfc"] = << >> /\ todo["ble"] = << >>
  BY <1>1 DEF RecordInv, TurnInv
<1>3. todo'["boot"] = << >> /\ todo'["nfc"] = << >> /\ todo'["ble"] = << >>
  BY <1>0, <1>1, <1>2 DEF Tasks
<1>4. /\ flash'.ep_0 = NoOne /\ flash'.ep_pub = NoOne /\ g_mailbox'.endpoint_pub = NoOne
      /\ flash'.v_id = 0 /\ g_mailbox'.v_pub = 0
  BY <1>0, KeypairFailsEffect
<1>5. MissingRoot' /\ ~HasVehiclePub'
  BY <1>4 DEF MissingRoot, HasVehiclePub
<1> QED BY <1>1, <1>3, <1>4, <1>5
        DEF RecordInv, TurnInv, BootInv, RunInv, TasksInv, OwnerInv, Shown, Moved, OwnerLoaded

\* An operation that begins has the mailbox to itself.
LEMMA Alone ==
  ASSUME MailboxTypeInv, RecordInv, Overlap = FALSE, NEW t \in {"nfc", "ble"}, MayStart(t)
  PROVE  /\ todo["nfc"] = << >> /\ todo["ble"] = << >> /\ todo["boot"] = << >>
         /\ power \in {"starting", "on"} /\ (t = "nfc" => power = "on")
         /\ Shown /\ Moved /\ g_mailbox.endpoint_pub = flash.ep_0
<1>1. /\ todo["nfc"] = << >> /\ todo["ble"] = << >> /\ todo["boot"] = << >>
      /\ power \in {"starting", "on"} /\ (t = "nfc" => power = "on")
  BY DEF MayStart, Tasks
<1> QED BY <1>1 DEF RecordInv, OwnerInv, Erasing

LEMMA EnrolRecord ==
  ASSUME MailboxTypeInv, RecordInv, Overlap = FALSE, NEW o \in Owners,
         NEW force \in BOOLEAN, NEW cert \in BOOLEAN, NEW artifact \in BOOLEAN,
         SetOwnerProvisioned(o, force, cert, artifact)
  PROVE  RecordInv'
<1> DEFINE program == EnrolWrites(force)
                        \o (IF cert THEN StoreCertChain ELSE << >>)
                        \o (IF artifact THEN StoreFastArtifact ELSE << >>)
                        \o (IF force THEN <<"no force", "no oneshot">> ELSE << >>)
<1>0. todo \in [Tasks -> Seq(Writes)]
  BY DEF MailboxTypeInv, MailboxTypeOK
<1>1. /\ MayStart("nfc") /\ HasVehiclePub /\ commit' = o
      /\ todo' = [todo EXCEPT !["nfc"] = program]
      /\ UNCHANGED <<flash, g_mailbox, power, enrolledOn>>
  BY DEF SetOwnerProvisioned
<1>2. Avoids(program, NotInEnrolment) /\ SetsActive(program)
  BY EnrolProgram
<1> HIDE DEF program
<1>3. /\ todo["nfc"] = << >> /\ todo["ble"] = << >> /\ todo["boot"] = << >>
      /\ power = "on" /\ Moved
  BY <1>1, Alone
<1>4. todo'["nfc"] = program /\ todo'["ble"] = << >> /\ todo'["boot"] = << >>
  BY <1>0, <1>1, <1>3 DEF Tasks
<1>5. program # << >>
  <2>1. Len(program) >= 1 \/ Len(program) \notin Nat
    BY <1>2 DEF SetsActive, Settles
  <2>2. Len(<< >>) = 0
    OBVIOUS
  <2> QED BY <2>1, <2>2
<1>6. commit' # NoOne /\ commit' \in Owners
  BY <1>1, NoOneAssumption
<1>7. TasksInv'
  <2>1. HasVehiclePub' /\ Enrolling(todo["nfc"])'
    BY <1>1, <1>2, <1>4 DEF HasVehiclePub, Enrolling, Avoids, SetsActive, Settles
  <2> QED BY <1>4, <1>6, <2>1 DEF TasksInv
<1>8. TurnInv' /\ BootInv'
  BY <1>1, <1>3, <1>4 DEF TurnInv, BootInv
<1>9. RunInv'
  BY <1>1 DEF RecordInv, RunInv, MissingRoot, SameKeys, HasVehiclePub
<1>10. OwnerInv'
  BY <1>1, <1>3, <1>4, <1>5, <1>6 DEF RecordInv, OwnerInv, OwnerLoaded, Moved
<1> QED BY <1>7, <1>8, <1>9, <1>10 DEF RecordInv

\* A clear begins.
LEMMA ClearBegins ==
  ASSUME MailboxTypeInv, RecordInv, Overlap = FALSE, NEW t \in {"nfc", "ble"}, MayStart(t),
         NEW s, Len(s) >= 2, s[1] = "no endpoint", s[2] = "no legacy", Avoids(s, NotInClear),
         todo' = [todo EXCEPT ![t] = s],
         commit' = IF t = "nfc" THEN NoOne ELSE commit,
         UNCHANGED <<flash, g_mailbox, power, enrolledOn>>
  PROVE  RecordInv'
<1>0. todo \in [Tasks -> Seq(Writes)]
  BY DEF MailboxTypeInv, MailboxTypeOK
<1>1. /\ todo["nfc"] = << >> /\ todo["ble"] = << >> /\ todo["boot"] = << >>
      /\ power \in {"starting", "on"} /\ (t = "nfc" => power = "on")
      /\ Shown /\ Moved
  BY Alone
<1>2. /\ todo'["nfc"] = IF t = "nfc" THEN s ELSE << >>
      /\ todo'["ble"] = IF t = "ble" THEN s ELSE << >>
      /\ todo'["boot"] = << >>
  BY <1>0, <1>1 DEF Tasks
<1>3. TurnInv' /\ BootInv'
  BY <1>1, <1>2 DEF TurnInv, BootInv
<1>4. RunInv'
  BY DEF RecordInv, RunInv, MissingRoot, SameKeys, HasVehiclePub
<1>5. TasksInv'
  <2>1. CASE t = "nfc"
    BY <1>2, <2>1 DEF TasksInv, Clearing, Avoids
  <2>2. CASE t = "ble"
    BY <1>2, <2>2 DEF TasksInv, Clearing, Avoids
  <2> QED BY <2>1, <2>2
<1>6. OwnerInv'
  BY <1>1 DEF RecordInv, OwnerInv, Shown, OwnerLoaded, Moved
<1> QED BY <1>3, <1>4, <1>5, <1>6 DEF RecordInv

LEMMA ClearRecord ==
  ASSUME MailboxTypeInv, RecordInv, Overlap = FALSE,
         ClearProvisionedOnly("nfc") \/ ClearProvisionedOnly("ble") \/ ClearAll
  PROVE  RecordInv'
<1> DEFINE only == <<"no endpoint", "no legacy", "slots", "no token", "slots", "inactive",
                     "signal", "no cert">> \o ClearFastArtifact
           all == <<"no endpoint", "no legacy", "slots", "no mailbox", "no token", "slots",
                    "no cert">> \o ClearFastArtifact \o <<"no force", "no oneshot">>
<1>1. /\ Len(only) >= 2 /\ only[1] = "no endpoint" /\ only[2] = "no legacy"
      /\ Len(all) >= 2 /\ all[1] = "no endpoint" /\ all[2] = "no legacy"
      /\ Avoids(only, NotInClear) /\ Avoids(all, NotInClear)
  BY ClearPrograms
<1>2. ASSUME NEW t \in {"nfc", "ble"}, ClearProvisionedOnly(t) PROVE RecordInv'
  <2>1. /\ MayStart(t) /\ todo' = [todo EXCEPT ![t] = only]
        /\ commit' = IF t = "nfc" THEN NoOne ELSE commit
        /\ UNCHANGED <<flash, g_mailbox, power, enrolledOn>>
    BY <1>2 DEF ClearProvisionedOnly
  <2> HIDE DEF only, all
  <2> QED BY <1>1, <2>1, ClearBegins
<1>3. CASE ClearAll
  <2>1. /\ MayStart("ble") /\ todo' = [todo EXCEPT !["ble"] = all]
        /\ commit' = commit
        /\ UNCHANGED <<flash, g_mailbox, power, enrolledOn>>
    BY <1>3 DEF ClearAll
  <2> HIDE DEF only, all
  <2> QED BY <1>1, <2>1, ClearBegins
<1> QED BY <1>2, <1>3

\* The force flags say nothing of the owner.
LEMMA FlagsRecord ==
  ASSUME MailboxTypeInv, RecordInv,
         ToggleForceProvision \/ SetPersistentForce
           \/ ArmOneShotForce("nfc") \/ ArmOneShotForce("ble")
  PROVE  RecordInv'
<1>0. flash \in Flash
  BY DEF MailboxTypeInv, MailboxTypeOK
<1>1. UNCHANGED <<g_mailbox, todo, commit, power, enrolledOn>>
  BY DEF ToggleForceProvision, SetPersistentForce, ArmOneShotForce
<1>2. /\ flash'.ep_0 = flash.ep_0 /\ flash'.ep_pub = flash.ep_pub
      /\ flash'.v_id = flash.v_id /\ flash'.v_pub = flash.v_pub
      /\ flash'.v_priv = flash.v_priv
  BY <1>0 DEF ToggleForceProvision, SetPersistentForce, ArmOneShotForce, Flash
<1>3. MissingRoot' <=> MissingRoot
  BY <1>2 DEF MissingRoot, ValidateVehicleKeypair
<1>4. TurnInv'
  BY <1>1 DEF RecordInv, TurnInv
<1>5. BootInv'
  BY <1>1, <1>2, <1>3 DEF RecordInv, BootInv, SameKeys, NewKeys, Moved
<1>6. RunInv'
  BY <1>1, <1>2, <1>3 DEF RecordInv, RunInv, SameKeys, HasVehiclePub
<1>7. TasksInv'
  BY <1>1, <1>2 DEF RecordInv, TasksInv, Clearing, Enrolling, Shown, HasVehiclePub,
     Avoids, SetsActive, Settles
<1>8. OwnerInv'
  BY <1>1, <1>2 DEF RecordInv, OwnerInv, Shown, Moved, Erasing, OwnerLoaded
<1> QED BY <1>4, <1>5, <1>6, <1>7, <1>8 DEF RecordInv

\* What RunInv and OwnerInv say of the identity survives a write of another task.
LEMMA IdentityKept ==
  ASSUME RunInv, KeysKept, power' = power, flash'.ep_0 = NoOne \/ HasVehiclePub
  PROVE  RunInv' /\ (HasVehiclePub' <=> HasVehiclePub)
<1>1. (MissingRoot' <=> MissingRoot) /\ (SameKeys' <=> SameKeys)
      /\ (HasVehiclePub' <=> HasVehiclePub)
  BY DEF KeysKept, MissingRoot, SameKeys, HasVehiclePub, ValidateVehicleKeypair
<1> QED BY <1>1 DEF RunInv

\* A write of a clear.
LEMMA ClearWrite ==
  ASSUME MailboxTypeInv, RunInv, OwnerInv, power \in {"starting", "on"}, Shown,
         NEW t \in {"nfc", "ble"}, Write(t), Clearing(todo[t]),
         \A u \in {"nfc", "ble"} \ {t} : todo[u] = << >>
  PROVE  /\ RunInv' /\ flash'.ep_0 = NoOne /\ g_mailbox'.endpoint_pub = NoOne
         /\ flash'.v_pub = flash.v_pub /\ enrolledOn' = enrolledOn
         /\ flash'.ep_pub \in {flash.ep_pub, NoOne}
         /\ \/ flash'.ep_pub = NoOne
            \/ Tail(todo[t]) # << >> /\ Head(Tail(todo[t])) = "no legacy"
         /\ Avoids(Tail(todo[t]), NotInClear)
<1> DEFINE s == todo[t]
           w == Head(s)
<1>0. /\ MailboxTypeOK /\ flash \in Flash /\ g_mailbox \in Mirror /\ commit \in Someone
      /\ t \in Tasks /\ s \in Seq(Writes)
  BY DEF MailboxTypeInv, MailboxTypeOK, Tasks
<1>1. /\ s # << >> /\ power' = power
      /\ \/ w = "endpoint" /\ StoreEndpoint(t) /\ UNCHANGED identities
         \/ w = "wipe" /\ NewIdentity
         \/ w \in RamWrites /\ RamAndFlash(w) /\ UNCHANGED <<identities, enrolledOn>>
         \/ w \in Plain /\ FlashOnly(w) /\ UNCHANGED <<identities, enrolledOn>>
  BY <1>0, WriteParts
<1>2. /\ w \notin NotInClear /\ Avoids(Tail(s), NotInClear) /\ w = s[1]
  <2>1. Avoids(s, NotInClear)
    BY DEF Clearing
  <2>2. w = s[1]
    BY <1>0, <1>1, HeadTailProperties
  <2> QED BY <1>0, <1>1, <2>1, <2>2, TailAvoids
<1>3. \/ /\ w = "no endpoint"
         /\ Tail(s) # << >> /\ Head(Tail(s)) = "no legacy"
      \/ flash.ep_0 = NoOne
  <2>1. CASE Len(s) >= 2 /\ s[1] = "no endpoint" /\ s[2] = "no legacy"
    BY <1>0, <1>1, <1>2, <2>1, TailSecond
  <2> QED BY <2>1 DEF Clearing
<1>4. /\ g_mailbox.endpoint_pub = flash.ep_0
      /\ Moved \/ w = "no legacy"
  BY DEF OwnerInv, Erasing
<1> HIDE DEF s, w
<1>5. /\ flash'.ep_0 = NoOne /\ g_mailbox'.endpoint_pub = NoOne /\ KeysKept
      /\ enrolledOn' = enrolledOn
      /\ flash'.ep_pub = IF w = "no legacy" THEN NoOne ELSE flash.ep_pub
  <2>1. CASE w \in RamWrites /\ RamAndFlash(w) /\ UNCHANGED enrolledOn
    <3>1. w # "no legacy"
      BY <2>1 DEF RamWrites
    <3> QED BY <1>0, <1>3, <1>4, <2>1, <3>1, RamEffect DEF OwnerKept
  <2>2. CASE w \in Plain /\ FlashOnly(w) /\ UNCHANGED enrolledOn
    <3>1. w \notin KeyWrites /\ w # "no endpoint"
      BY <1>2, <2>2 DEF NotInClear, Plain, RamWrites
    <3> QED BY <1>0, <1>3, <1>4, <2>2, <3>1, PlainEffect DEF OwnerKept, KeysKept, KeyWrites
  <2> QED BY <1>1, <1>2, <2>1, <2>2 DEF NotInClear
<1>6. RunInv'
  BY <1>1, <1>5, IdentityKept
<1>7. \/ flash'.ep_pub = NoOne
      \/ Tail(s) # << >> /\ Head(Tail(s)) = "no legacy"
  <2>1. CASE w = "no legacy"
    BY <1>5, <2>1
  <2>2. CASE flash.ep_0 = NoOne /\ w # "no legacy"
    BY <1>4, <1>5, <2>2 DEF Moved
  <2> QED BY <1>3, <2>1, <2>2
<1> QED BY <1>2, <1>5, <1>6, <1>7 DEF KeysKept, s

\* A write of an enrolment.
LEMMA EnrolWrite ==
  ASSUME MailboxTypeInv, RunInv, OwnerInv, power = "on", HasVehiclePub,
         commit # NoOne, todo["ble"] = << >>, Write("nfc"), Enrolling(todo["nfc"])
  PROVE  /\ RunInv' /\ HasVehiclePub' /\ Moved'
         /\ g_mailbox'.endpoint_pub = flash'.ep_0
         /\ flash'.ep_0 \in {flash.ep_0, commit}
         /\ flash'.ep_pub \in {flash.ep_pub, NoOne}
         /\ OwnerLoaded' # NoOne => enrolledOn' = flash'.v_pub
         /\ Avoids(Tail(todo["nfc"]), NotInEnrolment)
         /\ SetsActive(Tail(todo["nfc"]))
              \/ (Avoids(Tail(todo["nfc"]), Spoilers) /\ Shown')
<1> DEFINE s == todo["nfc"]
           w == Head(s)
<1>0. /\ MailboxTypeOK /\ flash \in Flash /\ g_mailbox \in Mirror /\ commit \in Someone
      /\ "nfc" \in Tasks /\ s \in Seq(Writes)
  BY DEF MailboxTypeInv, MailboxTypeOK, Tasks
<1>1. /\ s # << >> /\ power' = power
      /\ \/ w = "endpoint" /\ StoreEndpoint("nfc") /\ UNCHANGED identities
         \/ w = "wipe" /\ NewIdentity
         \/ w \in RamWrites /\ RamAndFlash(w) /\ UNCHANGED <<identities, enrolledOn>>
         \/ w \in Plain /\ FlashOnly(w) /\ UNCHANGED <<identities, enrolledOn>>
  BY <1>0, WriteParts
<1>2. w \notin NotInEnrolment /\ Avoids(Tail(s), NotInEnrolment)
  BY <1>0, <1>1, TailAvoids DEF Enrolling
<1>3. /\ g_mailbox.endpoint_pub = flash.ep_0
      /\ OwnerLoaded # NoOne => enrolledOn = flash.v_pub
      /\ Moved \/ w = "no legacy"
  BY DEF OwnerInv, Erasing
<1>4. \/ SetsActive(Tail(s))
      \/ w = "active" /\ Avoids(Tail(s), Spoilers)
      \/ w \notin Spoilers /\ Avoids(Tail(s), Spoilers) /\ Shown
  BY <1>0, <1>1, TailAvoids, TailActive DEF Enrolling
<1> HIDE DEF s, w
<1>5. /\ KeysKept /\ Moved'
      /\ g_mailbox'.endpoint_pub = flash'.ep_0
      /\ flash'.ep_0 \in {flash.ep_0, commit}
      /\ flash'.ep_pub \in {flash.ep_pub, NoOne}
      /\ OwnerLoaded' # NoOne => enrolledOn' = flash'.v_pub
      /\ w = "active" \/ (w \notin Spoilers /\ Shown) => Shown'
  <2>1. CASE w = "endpoint" /\ StoreEndpoint("nfc")
    BY <1>0, <1>3, <2>1, EndpointEffect DEF KeysKept, Shown, Moved
  <2>2. CASE w \in RamWrites /\ RamAndFlash(w) /\ UNCHANGED enrolledOn
    <3>1. w # "no endpoint" /\ w # "no legacy"
      BY <1>2, <2>2 DEF NotInEnrolment, RamWrites
    <3>2. /\ KeysKept /\ flash'.ep_pub = flash.ep_pub /\ OwnerKept
          /\ w \notin Spoilers /\ g_mailbox.slot_bitmap => g_mailbox'.slot_bitmap
          /\ w = "active" => g_mailbox'.slot_bitmap
      BY <1>0, <2>2, <3>1, RamEffect
    <3> QED BY <1>3, <2>2, <3>1, <3>2 DEF KeysKept, OwnerKept, Shown, Moved, OwnerLoaded
  <2>3. CASE w \in Plain /\ FlashOnly(w) /\ UNCHANGED enrolledOn
    <3>1. w \notin KeyWrites /\ w # "active"
      BY <1>2, <2>3 DEF NotInEnrolment, Plain, RamWrites
    <3>2. /\ g_mailbox' = g_mailbox /\ OwnerKept /\ KeysKept
          /\ flash'.ep_pub = IF w = "no legacy" THEN NoOne ELSE flash.ep_pub
      BY <1>0, <2>3, <3>1, PlainEffect DEF KeysKept, KeyWrites
    <3> QED BY <1>3, <2>3, <3>1, <3>2 DEF KeysKept, OwnerKept, Shown, Moved, OwnerLoaded
  <2> QED BY <1>1, <1>2, <2>1, <2>2, <2>3 DEF NotInEnrolment
<1>6. RunInv' /\ HasVehiclePub'
  BY <1>1, <1>5, IdentityKept
<1> QED BY <1>2, <1>4, <1>5, <1>6 DEF s

\* The programs of begin, write by write.
LEMMA BootHeads ==
  /\ Head(<<"wipe", "v_id", "v_pub", "v_priv", "bitmaps">>) = "wipe"
  /\ Tail(<<"wipe", "v_id", "v_pub", "v_priv", "bitmaps">>)
       = <<"v_id", "v_pub", "v_priv", "bitmaps">>
  /\ Head(<<"v_id", "v_pub", "v_priv", "bitmaps">>) = "v_id"
  /\ Tail(<<"v_id", "v_pub", "v_priv", "bitmaps">>) = <<"v_pub", "v_priv", "bitmaps">>
  /\ Head(<<"v_pub", "v_priv", "bitmaps">>) = "v_pub"
  /\ Tail(<<"v_pub", "v_priv", "bitmaps">>) = <<"v_priv", "bitmaps">>
  /\ Head(<<"v_priv", "bitmaps">>) = "v_priv"
  /\ Tail(<<"v_priv", "bitmaps">>) = <<"bitmaps">>
  /\ Head(<<"bitmaps">>) = "bitmaps" /\ Tail(<<"bitmaps">>) = << >>
OBVIOUS

LEMMA NormalisingHeads ==
  /\ Head(<<"slots", "endpoint", "no legacy">>) = "slots"
  /\ Tail(<<"slots", "endpoint", "no legacy">>) = <<"endpoint", "no legacy">>
  /\ Head(<<"endpoint", "no legacy">>) = "endpoint"
  /\ Tail(<<"endpoint", "no legacy">>) = <<"no legacy">>
  /\ Head(<<"no legacy">>) = "no legacy" /\ Tail(<<"no legacy">>) = << >>
  /\ Head(<<"slots">>) = "slots" /\ Tail(<<"slots">>) = << >>
<1>1. \A u, v, w : Head(<<u, v, w>>) = u /\ Tail(<<u, v, w>>) = <<v, w>>
  OBVIOUS
<1>2. \A u, v : Head(<<u, v>>) = u /\ Tail(<<u, v>>) = <<v>>
  OBVIOUS
<1>3. \A u : Head(<<u>>) = u /\ Tail(<<u>>) = << >>
  OBVIOUS
<1> QED BY <1>1, <1>2, <1>3

LEMMA BootWriteKinds ==
  /\ {"slots", "no legacy", "v_id", "v_pub", "v_priv", "bitmaps"} \subseteq Plain
  /\ "endpoint" \notin RamWrites /\ "endpoint" \notin Plain
  /\ "wipe" \notin RamWrites /\ "wipe" \notin Plain
  /\ \A w \in Plain : w # "endpoint" /\ w # "wipe" /\ w \notin RamWrites
BY DEF Plain, Writes, RamWrites

\* A write by which begin normalises the slot: the owner stays who it is.
LEMMA NormaliseWrite ==
  ASSUME MailboxTypeInv, Write("boot"), Shown, g_mailbox.endpoint_pub = OwnerLoaded,
         NEW p \in Normalising, p # << >>, p \in Migration \/ Moved,
         Head(todo["boot"]) = Head(p)
  PROVE  /\ KeysKept /\ enrolledOn' = enrolledOn
         /\ Tail(p) \in Normalising /\ (Tail(p) \in Migration \/ Moved')
         /\ OwnerLoaded' = OwnerLoaded /\ g_mailbox'.endpoint_pub = OwnerLoaded' /\ Shown'
<1> DEFINE w == Head(todo["boot"])
<1>0. /\ MailboxTypeOK /\ flash \in Flash /\ g_mailbox \in Mirror /\ commit \in Someone
      /\ "boot" \in Tasks
  BY DEF MailboxTypeInv, MailboxTypeOK, Tasks
<1>1. \/ w = "endpoint" /\ StoreEndpoint("boot")
      \/ w = "wipe" /\ NewIdentity
      \/ w \in RamWrites /\ RamAndFlash(w) /\ UNCHANGED <<identities, enrolledOn>>
      \/ w \in Plain /\ FlashOnly(w) /\ UNCHANGED <<identities, enrolledOn>>
  BY <1>0, WriteParts
<1> HIDE DEF w
<1>2. \* What a write to flash alone does.
      ASSUME w \in {"slots", "no legacy"}
      PROVE  /\ KeysKept /\ g_mailbox' = g_mailbox /\ OwnerKept /\ enrolledOn' = enrolledOn
             /\ flash'.ep_pub = IF w = "no legacy" THEN NoOne ELSE flash.ep_pub
  <2>1. w \in Plain /\ FlashOnly(w) /\ enrolledOn' = enrolledOn
    BY <1>1, <1>2, BootWriteKinds
  <2> QED BY <1>0, <1>2, <2>1, PlainEffect DEF KeysKept
<1>3. CASE w = "slots" /\ Tail(p) = <<"endpoint", "no legacy">>
  BY <1>2, <1>3 DEF OwnerKept, OwnerLoaded, Shown, Normalising, Migration
<1>4. CASE w = "endpoint" /\ Tail(p) = <<"no legacy">>
  <2>1. StoreEndpoint("boot")
    BY <1>1, <1>4, BootWriteKinds
  <2>2. /\ KeysKept /\ flash'.ep_pub = flash.ep_pub /\ g_mailbox'.slot_bitmap
        /\ flash'.ep_0 = OwnerLoaded /\ g_mailbox'.endpoint_pub = OwnerLoaded
        /\ enrolledOn' = enrolledOn
    BY <1>0, <2>1, EndpointEffect
  <2>3. OwnerLoaded' = OwnerLoaded /\ Moved'
    BY <2>2 DEF OwnerLoaded, Moved
  <2> QED BY <1>4, <2>2, <2>3 DEF Shown, Normalising
<1>5. CASE w \in {"slots", "no legacy"} /\ Tail(p) = << >> /\ Moved
  <2>1. OwnerLoaded' = OwnerLoaded /\ Moved'
    BY <1>2, <1>5 DEF OwnerKept, OwnerLoaded, Moved
  <2> QED BY <1>2, <1>5, <2>1 DEF OwnerKept, Shown, Normalising
<1>6. \/ w = "slots" /\ Tail(p) = <<"endpoint", "no legacy">>
      \/ w = "endpoint" /\ Tail(p) = <<"no legacy">>
      \/ w \in {"slots", "no legacy"} /\ Tail(p) = << >> /\ Moved
  <2>1. CASE p \in Migration
    BY <2>1, NormalisingHeads DEF Migration, w
  <2>2. CASE p \in {<<"no legacy">>, <<"slots">>} /\ Moved
    BY <2>2, NormalisingHeads DEF w
  <2> QED BY <2>1, <2>2 DEF Normalising
<1> QED BY <1>3, <1>4, <1>5, <1>6

\* A write of begin.
LEMMA BootWrite ==
  ASSUME MailboxTypeInv, RecordInv, Write("boot")
  PROVE  RecordInv'
<1> DEFINE s == todo["boot"]
           w == Head(s)
<1>0. /\ MailboxTypeOK /\ flash \in Flash /\ g_mailbox \in Mirror /\ commit \in Someone
      /\ "boot" \in Tasks /\ identities \in Nat /\ todo \in [Tasks -> Seq(Writes)]
  BY DEF MailboxTypeInv, MailboxTypeOK, Tasks
<1>1. /\ s # << >> /\ power' = power /\ commit' = commit
      /\ todo' = [todo EXCEPT !["boot"] = Tail(s)]
      /\ \/ w = "endpoint" /\ StoreEndpoint("boot") /\ UNCHANGED identities
         \/ w = "wipe" /\ NewIdentity
         \/ w \in RamWrites /\ RamAndFlash(w) /\ UNCHANGED <<identities, enrolledOn>>
         \/ w \in Plain /\ FlashOnly(w) /\ UNCHANGED <<identities, enrolledOn>>
  BY <1>0, WriteParts
<1>2. power \in {"booting", "again"} /\ todo["nfc"] = << >> /\ todo["ble"] = << >>
  BY <1>1 DEF RecordInv, TurnInv
<1>3. todo'["boot"] = Tail(s) /\ todo'["nfc"] = << >> /\ todo'["ble"] = << >>
  BY <1>0, <1>1, <1>2 DEF Tasks
<1>4. TurnInv' /\ RunInv' /\ TasksInv'
  BY <1>1, <1>2, <1>3 DEF TurnInv, RunInv, TasksInv
<1>5. /\ g_mailbox.endpoint_pub = OwnerLoaded /\ Shown
      /\ OwnerLoaded # NoOne => enrolledOn = flash.v_pub
  BY <1>2 DEF RecordInv, OwnerInv
<1> HIDE DEF s, w
<1>6. \* What a write to flash alone does.
      ASSUME w \in Plain, NewKeys
      PROVE  /\ g_mailbox' = g_mailbox /\ flash'.ep_0 = NoOne /\ flash'.ep_pub = NoOne
             /\ g_mailbox'.endpoint_pub = NoOne
             /\ flash'.v_id = IF w = "v_id" THEN g_mailbox.v_id ELSE flash.v_id
             /\ flash'.v_pub = IF w = "v_pub" THEN g_mailbox.v_pub ELSE flash.v_pub
             /\ flash'.v_priv = IF w = "v_priv" THEN g_mailbox.v_priv ELSE flash.v_priv
  <2>1. FlashOnly(w) /\ OwnerLoaded = NoOne
    BY <1>1, <1>6, BootWriteKinds DEF NewKeys, OwnerLoaded
  <2> QED BY <1>0, <1>5, <1>6, <2>1, PlainEffect DEF OwnerKept, NewKeys
<1>7. \* What is enough.
      ASSUME BootInv', g_mailbox'.endpoint_pub = OwnerLoaded', Shown',
             OwnerLoaded' # NoOne => enrolledOn' = flash'.v_pub
      PROVE  RecordInv'
  BY <1>1, <1>2, <1>4, <1>7 DEF RecordInv, OwnerInv
<1>8. \* What is enough where there is no owner.
      ASSUME BootInv', flash'.ep_0 = NoOne, flash'.ep_pub = NoOne,
             g_mailbox'.endpoint_pub = NoOne
      PROVE  RecordInv'
  BY <1>7, <1>8 DEF OwnerLoaded, Shown
<1>9. ASSUME NEW p \in Normalising, p # << >>, p \in Migration \/ Moved, w = Head(p),
             \/ Tail(s) = Tail(p) /\ ~MissingRoot /\ SameKeys
             \/ Tail(s) = Tail(p) \o RekeyWrites /\ MissingRoot
      PROVE  RecordInv'
  <2>1. /\ KeysKept /\ enrolledOn' = enrolledOn
        /\ Tail(p) \in Normalising /\ (Tail(p) \in Migration \/ Moved')
        /\ OwnerLoaded' = OwnerLoaded /\ g_mailbox'.endpoint_pub = OwnerLoaded' /\ Shown'
    BY <1>5, <1>9, NormaliseWrite DEF w, s
  <2>2. (MissingRoot' <=> MissingRoot) /\ (SameKeys' <=> SameKeys)
    BY <2>1 DEF KeysKept, MissingRoot, ValidateVehicleKeypair, SameKeys
  <2>3. BootInv'
    <3>1. CASE Tail(s) = Tail(p) /\ ~MissingRoot /\ SameKeys
      BY <1>3, <2>1, <2>2, <3>1 DEF BootInv
    <3>2. CASE Tail(s) = Tail(p) \o RekeyWrites /\ MissingRoot
      BY <1>3, <2>1, <2>2, <3>2 DEF BootInv
    <3> QED BY <1>9, <3>1, <3>2
  <2> QED BY <1>5, <1>7, <2>1, <2>3 DEF KeysKept
<1>10. CASE s = <<"wipe", "v_id", "v_pub", "v_priv", "bitmaps">>
  <2>1. w = "wipe" /\ Tail(s) = <<"v_id", "v_pub", "v_priv", "bitmaps">>
    BY <1>10, BootHeads DEF w
  <2>2. NewIdentity
    BY <1>1, <2>1, BootWriteKinds
  <2>3. /\ flash'.ep_0 = NoOne /\ flash'.ep_pub = NoOne /\ g_mailbox'.endpoint_pub = NoOne
        /\ flash'.v_priv = 0
        /\ g_mailbox'.v_id = identities + 1 /\ g_mailbox'.v_pub = identities + 1
        /\ g_mailbox'.v_priv = identities + 1
    BY <1>0, <2>2, WipeEffect
  <2>4. NewKeys'
    BY <1>0, <2>3 DEF NewKeys
  <2>5. BootInv'
    BY <1>3, <2>1, <2>3, <2>4 DEF BootInv
  <2> QED BY <1>8, <2>3, <2>5
<1>11. CASE s = <<"v_id", "v_pub", "v_priv", "bitmaps">> /\ NewKeys /\ flash.v_priv = 0
  <2>1. w = "v_id" /\ Tail(s) = <<"v_pub", "v_priv", "bitmaps">> /\ w \in Plain
    BY <1>11, BootHeads, BootWriteKinds DEF w
  <2>2. /\ g_mailbox' = g_mailbox /\ flash'.ep_0 = NoOne /\ flash'.ep_pub = NoOne
        /\ g_mailbox'.endpoint_pub = NoOne
        /\ flash'.v_id = g_mailbox.v_id /\ flash'.v_priv = flash.v_priv
    BY <1>6, <1>11, <2>1
  <2>3. NewKeys'
    BY <1>11, <2>2 DEF NewKeys
  <2>4. BootInv'
    BY <1>3, <1>11, <2>1, <2>2, <2>3 DEF BootInv
  <2> QED BY <1>8, <2>2, <2>4
<1>12. CASE /\ s = <<"v_pub", "v_priv", "bitmaps">>
            /\ NewKeys /\ flash.v_id = g_mailbox.v_id /\ flash.v_priv = 0
  <2>1. w = "v_pub" /\ Tail(s) = <<"v_priv", "bitmaps">> /\ w \in Plain
    BY <1>12, BootHeads, BootWriteKinds DEF w
  <2>2. /\ g_mailbox' = g_mailbox /\ flash'.ep_0 = NoOne /\ flash'.ep_pub = NoOne
        /\ g_mailbox'.endpoint_pub = NoOne
        /\ flash'.v_id = flash.v_id /\ flash'.v_pub = g_mailbox.v_pub
        /\ flash'.v_priv = flash.v_priv
    BY <1>6, <1>12, <2>1
  <2>3. NewKeys'
    BY <1>12, <2>2 DEF NewKeys
  <2>4. BootInv'
    BY <1>3, <1>12, <2>1, <2>2, <2>3 DEF BootInv
  <2> QED BY <1>8, <2>2, <2>4
<1>13. CASE /\ s = <<"v_priv", "bitmaps">>
            /\ NewKeys /\ flash.v_id = g_mailbox.v_id /\ flash.v_pub = g_mailbox.v_pub
  <2>1. w = "v_priv" /\ Tail(s) = <<"bitmaps">> /\ w \in Plain
    BY <1>13, BootHeads, BootWriteKinds DEF w
  <2>2. /\ g_mailbox' = g_mailbox /\ flash'.ep_0 = NoOne /\ flash'.ep_pub = NoOne
        /\ g_mailbox'.endpoint_pub = NoOne
        /\ flash'.v_id = flash.v_id /\ flash'.v_pub = flash.v_pub
        /\ flash'.v_priv = g_mailbox.v_priv
    BY <1>6, <1>13, <2>1
  <2>3. NewKeys' /\ SameKeys'
    BY <1>13, <2>2 DEF NewKeys, SameKeys
  <2>4. BootInv'
    BY <1>3, <2>1, <2>3 DEF BootInv
  <2> QED BY <1>8, <2>2, <2>4
<1>14. CASE s = <<"bitmaps">> /\ NewKeys /\ SameKeys
  <2>1. w = "bitmaps" /\ Tail(s) = << >> /\ w \in Plain
    BY <1>14, BootHeads, BootWriteKinds DEF w
  <2>2. /\ g_mailbox' = g_mailbox /\ flash'.ep_0 = NoOne /\ flash'.ep_pub = NoOne
        /\ g_mailbox'.endpoint_pub = NoOne
        /\ flash'.v_id = flash.v_id /\ flash'.v_pub = flash.v_pub
        /\ flash'.v_priv = flash.v_priv
    BY <1>6, <1>14, <2>1
  <2>3. ~MissingRoot' /\ SameKeys'
    BY <1>14, <2>2 DEF NewKeys, MissingRoot, ValidateVehicleKeypair, SameKeys
  <2>4. Moved' /\ << >> \in Normalising
    BY <2>2 DEF Moved, Normalising
  <2>5. BootInv'
    BY <1>3, <2>1, <2>3, <2>4 DEF BootInv
  <2> QED BY <1>8, <2>2, <2>5
<1>15. CASE s \in Normalising /\ (s \in Migration \/ Moved) /\ ~MissingRoot /\ SameKeys
  BY <1>1, <1>9, <1>15 DEF w
<1>16. ASSUME NEW p \in Normalising, s = p \o RekeyWrites, p \in Migration \/ Moved,
              MissingRoot
       PROVE  RecordInv'
  <2>1. CASE p = << >>
    <3>1. s = <<"wipe", "v_id", "v_pub", "v_priv", "bitmaps">>
      BY <1>16, <2>1, BootPrograms
    <3> QED BY <1>10, <3>1
  <2>2. CASE p # << >>
    <3>1. Head(s) = Head(p) /\ Tail(s) = Tail(p) \o RekeyWrites
      BY <1>16, <2>2, BootPrograms, ProgramTypes, ConcatHead
    <3> QED BY <1>9, <1>16, <2>2, <3>1 DEF w
  <2> QED BY <2>1, <2>2
<1>17. \/ s \in Normalising /\ (s \in Migration \/ Moved) /\ ~MissingRoot /\ SameKeys
       \/ /\ \E p \in Normalising : s = p \o RekeyWrites /\ (p \in Migration \/ Moved)
          /\ MissingRoot
       \/ s = <<"v_id", "v_pub", "v_priv", "bitmaps">> /\ NewKeys /\ flash.v_priv = 0
       \/ /\ s = <<"v_pub", "v_priv", "bitmaps">>
          /\ NewKeys /\ flash.v_id = g_mailbox.v_id /\ flash.v_priv = 0
       \/ /\ s = <<"v_priv", "bitmaps">>
          /\ NewKeys /\ flash.v_id = g_mailbox.v_id /\ flash.v_pub = g_mailbox.v_pub
       \/ s = <<"bitmaps">> /\ NewKeys /\ SameKeys
  BY <1>2 DEF RecordInv, BootInv, s
<1> QED BY <1>11, <1>12, <1>13, <1>14, <1>15, <1>16, <1>17

\* A write of a clear or an enrolment.
LEMMA TaskWriteRecord ==
  ASSUME MailboxTypeInv, RecordInv, NEW t \in {"nfc", "ble"}, Write(t)
  PROVE  RecordInv'
<1>0. /\ MailboxTypeOK /\ t \in Tasks /\ todo \in [Tasks -> Seq(Writes)]
  BY DEF MailboxTypeInv, MailboxTypeOK, Tasks
<1>1. /\ todo[t] # << >> /\ power' = power /\ commit' = commit
      /\ todo' = [todo EXCEPT ![t] = Tail(todo[t])]
  BY <1>0, WriteParts
<1>2. /\ power \in {"starting", "on"} /\ todo["boot"] = << >>
      /\ \A u \in {"nfc", "ble"} \ {t} : todo[u] = << >>
      /\ t = "nfc" => power = "on"
  BY <1>1 DEF RecordInv, TurnInv
<1>3. /\ todo'[t] = Tail(todo[t]) /\ todo'["boot"] = << >>
      /\ \A u \in {"nfc", "ble"} \ {t} : todo'[u] = << >>
  BY <1>0, <1>1, <1>2 DEF Tasks
<1>4. TurnInv' /\ BootInv'
  BY <1>1, <1>2, <1>3 DEF TurnInv, BootInv
<1>5. CASE Clearing(todo[t]) /\ (t = "nfc" => commit = NoOne)
  <2>1. RunInv /\ OwnerInv /\ Shown
    BY <1>2, <1>5 DEF RecordInv, OwnerInv
  <2>2. /\ RunInv' /\ flash'.ep_0 = NoOne /\ g_mailbox'.endpoint_pub = NoOne
        /\ flash'.v_pub = flash.v_pub /\ enrolledOn' = enrolledOn
        /\ flash'.ep_pub \in {flash.ep_pub, NoOne}
        /\ \/ flash'.ep_pub = NoOne
           \/ Tail(todo[t]) # << >> /\ Head(Tail(todo[t])) = "no legacy"
        /\ Avoids(Tail(todo[t]), NotInClear)
    BY <1>2, <1>5, <2>1, ClearWrite
  <2>3. Clearing(todo[t])'
    BY <1>3, <2>2 DEF Clearing, Avoids
  <2>4. TasksInv'
    BY <1>1, <1>3, <1>5, <2>3 DEF TasksInv
  <2>5. Moved' \/ Erasing'
    BY <1>3, <2>2 DEF Moved, Erasing
  <2>6. OwnerLoaded' # NoOne => OwnerLoaded # NoOne
    BY <2>2 DEF OwnerLoaded
  <2>7. OwnerInv'
    BY <1>1, <1>2, <2>1, <2>2, <2>5, <2>6 DEF OwnerInv, Shown
  <2> QED BY <1>4, <2>2, <2>4, <2>7 DEF RecordInv
<1>6. CASE t = "nfc" /\ commit \in Owners /\ HasVehiclePub /\ Enrolling(todo["nfc"])
  <2>1. RunInv /\ OwnerInv /\ power = "on"
    BY <1>2, <1>6 DEF RecordInv
  <2>2. /\ RunInv' /\ HasVehiclePub' /\ Moved'
        /\ g_mailbox'.endpoint_pub = flash'.ep_0
        /\ OwnerLoaded' # NoOne => enrolledOn' = flash'.v_pub
        /\ Avoids(Tail(todo["nfc"]), NotInEnrolment)
        /\ SetsActive(Tail(todo["nfc"]))
             \/ (Avoids(Tail(todo["nfc"]), Spoilers) /\ Shown')
    BY <1>1, <1>2, <1>6, <2>1, NoOneAssumption, EnrolWrite
  <2>3. Enrolling(todo["nfc"])'
    BY <1>3, <1>6, <2>2 DEF Enrolling, Avoids, SetsActive, Settles
  <2>4. TasksInv'
    BY <1>1, <1>3, <1>6, <2>2, <2>3 DEF TasksInv
  <2>5. todo'["nfc"] = << >> \/ commit' = NoOne => Shown'
    <3>1. commit' # NoOne
      BY <1>1, <1>6, NoOneAssumption
    <3>2. ~SetsActive(<< >>)
      <4>1. Len(<< >>) = 0
        OBVIOUS
      <4> QED BY <4>1 DEF SetsActive, Settles
    <3> QED BY <1>3, <1>6, <2>2, <3>1, <3>2
  <2>6. OwnerInv'
    BY <1>1, <1>2, <2>2, <2>5 DEF OwnerInv
  <2> QED BY <1>4, <2>2, <2>4, <2>6 DEF RecordInv
<1> QED BY <1>1, <1>5, <1>6 DEF RecordInv, TasksInv

LEMMA StepRecord ==
  ASSUME MailboxTypeInv, RecordInv, Overlap = FALSE, [MailboxNext]_mailboxVars
  PROVE  RecordInv'
<1>1. CASE Boot \/ BeginAgain
  BY <1>1, BootRecord
<1>2. CASE BootDone
  BY <1>2, BootDoneRecord
<1>3. CASE PowerFails
  BY <1>3, PowerFailsRecord
<1>4. CASE KeypairFails
  BY <1>4, KeypairFailsRecord
<1>5. ASSUME NEW o \in Owners, NEW force \in BOOLEAN, NEW cert \in BOOLEAN,
             NEW artifact \in BOOLEAN, SetOwnerProvisioned(o, force, cert, artifact)
      PROVE  RecordInv'
  BY <1>5, EnrolRecord
<1>6. CASE ClearProvisionedOnly("nfc") \/ ClearProvisionedOnly("ble") \/ ClearAll
  BY <1>6, ClearRecord
<1>7. CASE ToggleForceProvision \/ SetPersistentForce
             \/ ArmOneShotForce("nfc") \/ ArmOneShotForce("ble")
  BY <1>7, FlagsRecord
<1>8. ASSUME NEW t \in Tasks, Write(t) PROVE RecordInv'
  <2>1. CASE t = "boot"
    BY <1>8, <2>1, BootWrite
  <2>2. CASE t \in {"nfc", "ble"}
    BY <1>8, <2>2, TaskWriteRecord
  <2> QED BY <2>1, <2>2 DEF Tasks
<1>9. CASE BeginEnrolment \/ EnrolmentFails \/ UNCHANGED mailboxVars
  <2>0. /\ UNCHANGED <<flash, g_mailbox, todo, commit, power, enrolledOn>>
        /\ TurnInv /\ BootInv /\ RunInv /\ TasksInv /\ OwnerInv
    BY <1>9, SessionSteps DEF SessionOnly, RecordInv
  <2>1. TurnInv' /\ RunInv'
    BY <2>0 DEF TurnInv, RunInv, MissingRoot, ValidateVehicleKeypair, SameKeys, HasVehiclePub
  <2>2. BootInv'
    BY <2>0 DEF BootInv, MissingRoot, ValidateVehicleKeypair, SameKeys, NewKeys, Moved
  <2>3. TasksInv'
    BY <2>0 DEF TasksInv, HasVehiclePub, Clearing, Enrolling, Avoids, SetsActive, Settles, Shown
  <2>4. OwnerInv'
    BY <2>0 DEF OwnerInv, OwnerLoaded, Moved, Erasing, Shown
  <2> QED BY <2>1, <2>2, <2>3, <2>4 DEF RecordInv
<1> QED BY <1>1, <1>2, <1>3, <1>4, <1>5, <1>6, <1>7, <1>8, <1>9
        DEF MailboxNext, SerialCommands, AdminCommands

(* However often power fails between two writes to flash, an owner in use    *)
(* was enrolled on the key pair the vehicle has, which is whole; a vehicle   *)
(* without keys has no owner.  Of new flash or one an older firmware left,   *)
(* one task at a time.                                                       *)
THEOREM KnowsVehicle ==
  ASSUME Overlap = FALSE
  PROVE  MailboxSpec => []OwnerKnowsVehicle
<1>1. MailboxInit => MailboxTypeInv /\ RecordInv
  BY InitType, InitRecord
<1>2. MailboxTypeInv /\ RecordInv /\ [MailboxNext]_mailboxVars
        => (MailboxTypeInv /\ RecordInv)'
  BY StepType, StepRecord
<1>3. RecordInv => OwnerKnowsVehicle
  BY DEF RecordInv, RunInv, OwnerInv, OwnerKnowsVehicle, SameKeys, OwnerLoaded
<1> QED BY <1>1, <1>2, <1>3, PTL DEF MailboxSpec

-----------------------------------------------------------------------------
(* The record implements OwnerRecord, step by step, where no older firmware  *)
(* has left an owner, or power fails at most once.                           *)
NoLegacy == flash.ep_pub = NoOne

\* What the older firmware left is gone with the first boot, or power has failed
\* in it; from then on it names slot 0's owner, except within the operation that
\* removes it.
LegacyInv ==
  flash.ep_pub # NoOne =>
    /\ crashes = 0 =>
         \/ power = "off" /\ flash.ep_0 = NoOne
         \/ /\ power \in {"booting", "again"} /\ flash.ep_0 \in {NoOne, flash.ep_pub}
            /\ Settles(todo["boot"], {"no legacy", "wipe"}, {})
    /\ \/ flash.ep_0 = flash.ep_pub
       \/ flash.ep_0 = NoOne /\ power \in {"off", "booting", "again"}
       \/ flash.ep_0 = NoOne /\ Erasing /\ (todo["nfc"] # << >> => commit = NoOne)
       \/ /\ flash.ep_0 = commit /\ commit # NoOne
          /\ Settles(todo["nfc"], {"no legacy"}, {"endpoint"})

\* An enrolment removes it after it has stored the new owner.
EnrolsOver ==
  todo["nfc"] # << >> /\ commit # NoOne =>
    \/ Settles(todo["nfc"], {"no legacy"}, {"endpoint"})
    \/ Avoids(todo["nfc"], {"endpoint"})

SoleOwnerInv == (NoLegacy \/ MaxCrashes =< 1) /\ LegacyInv /\ EnrolsOver

LEMMA StepNoLegacy ==
  ASSUME MailboxTypeInv, NoLegacy, [MailboxNext]_mailboxVars
  PROVE  NoLegacy'
<1>0. /\ MailboxTypeOK /\ flash \in Flash /\ g_mailbox \in Mirror /\ commit \in Someone
      /\ identities \in Nat
  BY DEF MailboxTypeInv, MailboxTypeOK
<1>1. CASE \/ Boot \/ BeginAgain \/ BootDone \/ PowerFails
           \/ \E o \in Owners, force, cert, artifact \in BOOLEAN :
                SetOwnerProvisioned(o, force, cert, artifact)
           \/ ClearProvisionedOnly("nfc") \/ ClearProvisionedOnly("ble") \/ ClearAll
           \/ BeginEnrolment \/ EnrolmentFails \/ UNCHANGED mailboxVars
  <2>1. flash' = flash
    BY <1>1, SessionSteps DEF SessionOnly, Boot, BeginAgain, Begin, BootDone, PowerFails, SetOwnerProvisioned,
                ClearProvisionedOnly, ClearAll
  <2> QED BY <2>1 DEF NoLegacy
<1>2. CASE KeypairFails
  BY <1>0, <1>2, KeypairFailsEffect DEF NoLegacy
<1>3. CASE ToggleForceProvision \/ SetPersistentForce
             \/ ArmOneShotForce("nfc") \/ ArmOneShotForce("ble")
  BY <1>0, <1>3 DEF NoLegacy, ToggleForceProvision, SetPersistentForce, ArmOneShotForce, Flash
<1>4. ASSUME NEW t \in Tasks, Write(t) PROVE NoLegacy'
  <2> DEFINE w == Head(todo[t])
  <2>1. \/ StoreEndpoint(t) \/ NewIdentity
        \/ w \in RamWrites /\ RamAndFlash(w)
        \/ w \in Plain /\ FlashOnly(w)
    BY <1>0, <1>4, WriteParts
  <2> HIDE DEF w
  <2>2. CASE StoreEndpoint(t)
    BY <1>0, <2>2, EndpointEffect DEF NoLegacy
  <2>3. CASE NewIdentity
    BY <1>0, <2>3, WipeEffect DEF NoLegacy
  <2>4. CASE w \in RamWrites /\ RamAndFlash(w)
    BY <1>0, <2>4, RamEffect DEF NoLegacy
  <2>5. CASE w \in Plain /\ FlashOnly(w)
    BY <1>0, <2>5, PlainEffect DEF NoLegacy
  <2> QED BY <2>1, <2>2, <2>3, <2>4, <2>5
<1> QED BY <1>1, <1>2, <1>3, <1>4 DEF MailboxNext, SerialCommands, AdminCommands

\* A write takes the older firmware's owner away or leaves it alone; one of
\* begin moves no owner to slot 0 but the one it has loaded.
LEMMA WriteLegacy ==
  ASSUME MailboxTypeInv, NEW t \in Tasks, Write(t)
  PROVE  /\ flash'.ep_pub \in {flash.ep_pub, NoOne}
         /\ Head(todo[t]) \in {"no legacy", "wipe"} => flash'.ep_pub = NoOne
         /\ Head(todo[t]) # "endpoint" => flash'.ep_0 \in {flash.ep_0, NoOne}
         /\ t = "boot" => flash'.ep_0 \in {flash.ep_0, NoOne, g_mailbox.endpoint_pub}
<1> DEFINE w == Head(todo[t])
<1>0. /\ MailboxTypeOK /\ flash \in Flash /\ g_mailbox \in Mirror /\ commit \in Someone
      /\ identities \in Nat
  BY DEF MailboxTypeInv, MailboxTypeOK
<1>1. \/ w = "endpoint" /\ StoreEndpoint(t)
      \/ w = "wipe" /\ NewIdentity
      \/ w \in RamWrites /\ RamAndFlash(w)
      \/ w \in Plain /\ FlashOnly(w)
  BY <1>0, WriteParts
<1> HIDE DEF w
<1>2. CASE w = "endpoint" /\ StoreEndpoint(t)
  BY <1>0, <1>2, EndpointEffect DEF w
<1>3. CASE w = "wipe" /\ NewIdentity
  BY <1>0, <1>3, WipeEffect
<1>4. CASE w \in RamWrites /\ RamAndFlash(w)
  <2>1. w \notin {"no legacy", "wipe"}
    BY <1>4 DEF RamWrites
  <2> QED BY <1>0, <1>4, <2>1, RamEffect DEF OwnerKept, w
<1>5. CASE w \in Plain /\ FlashOnly(w)
  <2>1. w # "wipe"
    BY <1>5, BootWriteKinds
  <2> QED BY <1>0, <1>5, <2>1, PlainEffect DEF OwnerKept, w
<1> QED BY <1>1, <1>2, <1>3, <1>4, <1>5

LEMMA EnrolMoves ==
  ASSUME NEW force \in BOOLEAN, NEW cert \in BOOLEAN, NEW artifact \in BOOLEAN
  PROVE  Settles(EnrolWrites(force)
                   \o (IF cert THEN StoreCertChain ELSE << >>)
                   \o (IF artifact THEN StoreFastArtifact ELSE << >>)
                   \o (IF force THEN <<"no force", "no oneshot">> ELSE << >>),
                 {"no legacy"}, {"endpoint"})
<1> DEFINE first == <<"endpoint", "slots", "no legacy">>
           anew == <<"no token", "slots">>
           fresh == IF force THEN anew ELSE << >>
           last == <<"active", "token", "signal">>
           e == EnrolWrites(force)
           c == IF cert THEN StoreCertChain ELSE << >>
           a == IF artifact THEN StoreFastArtifact ELSE << >>
           f == IF force THEN <<"no force", "no oneshot">> ELSE << >>
           ws == {"no legacy"}
           us == {"endpoint"}
<1>1. first \in Seq(Writes) /\ fresh \in Seq(Writes) /\ last \in Seq(Writes)
  BY ShortPrograms
<1>2. c \in Seq(Writes) /\ Avoids(c, us)
  BY HarmlessPrograms, EmptyProgram, ProgramTypes, ShortPrograms
<1>3. a \in Seq(Writes) /\ Avoids(a, us)
  BY HarmlessPrograms, EmptyProgram, ProgramTypes, ShortPrograms
<1>4. f \in Seq(Writes) /\ Avoids(f, us)
  BY HarmlessPrograms, EmptyProgram, ProgramTypes, ShortPrograms
<1>5. e = (first \o fresh) \o last
  BY DEF EnrolWrites
<1>6. Len(first) = 3 /\ first[3] \in ws
  OBVIOUS
<1>7. Len(anew) = 2 /\ anew[1] \notin us /\ anew[2] \notin us
  OBVIOUS
<1>8. Len(last) = 3 /\ last[1] \notin us /\ last[2] \notin us /\ last[3] \notin us
  OBVIOUS
<1> HIDE DEF first, anew, last, e, c, a, f, ws, us
<1>9. Settles(first, ws, us)
  <2>1. 3 \in 1 .. Len(first) /\ \A i \in 3 + 1 .. Len(first) : first[i] \notin us
    BY <1>6
  <2> QED BY <1>6, <2>1 DEF Settles
<1>10. Avoids(anew, us) /\ Avoids(last, us)
  BY <1>7, <1>8, TwoAvoid, ThreeAvoid
<1>11. Avoids(fresh, us)
  BY <1>10, EmptyProgram
<1> HIDE DEF fresh
<1>12. first \o fresh \in Seq(Writes) /\ Settles(first \o fresh, ws, us)
  BY <1>1, <1>9, <1>11, ConcatSettles, ConcatProperties
<1>13. e \in Seq(Writes) /\ Settles(e, ws, us)
  BY <1>1, <1>5, <1>10, <1>12, ConcatSettles, ConcatProperties
<1>14. e \o c \in Seq(Writes) /\ Settles(e \o c, ws, us)
  BY <1>2, <1>13, ConcatSettles, ConcatProperties
<1>15. (e \o c) \o a \in Seq(Writes) /\ Settles((e \o c) \o a, ws, us)
  BY <1>3, <1>14, ConcatSettles, ConcatProperties
<1>16. Settles(((e \o c) \o a) \o f, ws, us)
  BY <1>4, <1>15, ConcatSettles
<1> QED BY <1>16 DEF e, c, a, f, ws, us

LEMMA InitSoleOwner ==
  ASSUME MailboxInit, LegacyFlash = FALSE \/ MaxCrashes =< 1 PROVE SoleOwnerInv
<1>1. EmptyFlash.ep_pub = NoOne
  BY EmptyRecords
<1>2. flash.ep_pub # NoOne => flash.ep_0 = NoOne /\ LegacyFlash
  <2>1. CASE flash = EmptyFlash
    BY <1>1, <2>1
  <2>2. CASE LegacyFlash /\ \E o \in Owners, half \in {0, 1} :
               flash = [EmptyFlash EXCEPT !.ep_pub = o, !.v_id = 1, !.v_pub = 1,
                                          !.v_priv = half]
    BY <2>2 DEF EmptyFlash
  <2> QED BY <2>1, <2>2 DEF MailboxInit
<1>3. power = "off" /\ crashes = 0 /\ commit = NoOne
  BY DEF MailboxInit
<1> QED BY <1>2, <1>3 DEF SoleOwnerInv, NoLegacy, LegacyInv, EnrolsOver

\* Nothing under way, what the older firmware left is slot 0's owner.
LEMMA LegacyAtRest ==
  ASSUME LegacyInv, power \in {"starting", "on"}, todo["nfc"] = << >>, todo["ble"] = << >>,
         flash.ep_pub # NoOne
  PROVE  flash.ep_0 = flash.ep_pub /\ crashes # 0
BY NothingSettles DEF LegacyInv, Erasing

\* Nothing SoleOwnerInv speaks of changes.
LEMMA SameSoleOwner ==
  ASSUME SoleOwnerInv, UNCHANGED <<todo, commit, power, crashes>>,
         flash'.ep_0 = flash.ep_0, flash'.ep_pub = flash.ep_pub
  PROVE  SoleOwnerInv'
<1>1. LegacyInv'
  BY DEF SoleOwnerInv, LegacyInv, Erasing, Settles
<1>2. EnrolsOver'
  BY DEF SoleOwnerInv, EnrolsOver, Settles, Avoids
<1> QED BY <1>1, <1>2 DEF SoleOwnerInv, NoLegacy

LEMMA BootSoleOwner ==
  ASSUME MailboxTypeInv, RecordInv, SoleOwnerInv, Overlap = FALSE, Boot \/ BeginAgain
  PROVE  LegacyInv' /\ EnrolsOver'
<1> DEFINE rest == IF MissingRoot THEN RekeyWrites ELSE << >>
<1>0. todo \in [Tasks -> Seq(Writes)]
  BY DEF MailboxTypeInv, MailboxTypeOK
<1>1. /\ power' \in {"booting", "again"} /\ flash' = flash /\ commit' = commit
      /\ crashes' = crashes /\ todo' = [todo EXCEPT !["boot"] = NormaliseWrites \o rest]
  BY DEF Boot, BeginAgain, Begin
<1>2. todo["nfc"] = << >> /\ todo["ble"] = << >>
  BY DEF Boot, BeginAgain, RecordInv, TurnInv, Tasks
<1>3. todo'["nfc"] = << >> /\ todo'["boot"] = NormaliseWrites \o rest
  BY <1>0, <1>1, <1>2 DEF Tasks
<1>4. rest \in Seq(Writes)
  BY ShortPrograms, ProgramTypes
<1> HIDE DEF rest
<1>5. EnrolsOver'
  BY <1>3 DEF EnrolsOver
<1>6. ASSUME flash.ep_pub # NoOne
      PROVE  flash.ep_0 \in {NoOne, flash.ep_pub}
  BY <1>2, <1>6, NothingSettles DEF SoleOwnerInv, LegacyInv
<1>7. ASSUME flash.ep_pub # NoOne, crashes = 0
      PROVE  Settles(todo'["boot"], {"no legacy", "wipe"}, {})
  <2> DEFINE m == <<"slots", "endpoint", "no legacy">>
             ws == {"no legacy", "wipe"}
  <2>1. flash.ep_0 = NoOne
    BY <1>7 DEF Boot, BeginAgain, SoleOwnerInv, LegacyInv
  <2>2. NormaliseWrites = m /\ m \in Seq(Writes)
    BY <1>7, <2>1, ShortPrograms DEF NormaliseWrites
  <2>3. Len(m) = 3 /\ m[3] \in ws
    OBVIOUS
  <2> HIDE DEF m, ws
  <2>4. Settles(m, ws, {})
    BY <2>3 DEF Settles
  <2>5. Avoids(rest, {})
    BY DEF Avoids
  <2> QED BY <1>3, <1>4, <2>2, <2>4, <2>5, ConcatSettles DEF ws
<1>8. LegacyInv'
  BY <1>1, <1>6, <1>7 DEF LegacyInv
<1> QED BY <1>5, <1>8

LEMMA BootDoneSoleOwner ==
  ASSUME RecordInv, SoleOwnerInv, BootDone PROVE LegacyInv' /\ EnrolsOver'
<1>1. /\ power \in {"booting", "again"} /\ todo["boot"] = << >> /\ power' = "on"
      /\ UNCHANGED <<flash, todo, commit, crashes>>
  BY DEF BootDone
<1>2. todo["nfc"] = << >> /\ todo["ble"] = << >>
  BY <1>1 DEF RecordInv, TurnInv
<1>3. Moved
  BY <1>1, BootDoneShape DEF RecordInv
<1>4. flash.ep_pub # NoOne => flash.ep_0 = flash.ep_pub /\ crashes # 0
  BY <1>1, <1>2, <1>3, NothingSettles DEF SoleOwnerInv, LegacyInv, Moved, Erasing
<1> QED BY <1>1, <1>2, <1>4 DEF LegacyInv, EnrolsOver

LEMMA PowerFailsSoleOwner ==
  ASSUME MailboxTypeInv, SoleOwnerInv, PowerFails PROVE LegacyInv' /\ EnrolsOver'
<1>0. crashes \in Nat /\ MaxCrashes \in Nat
  BY MaxCrashesAssumption DEF MailboxTypeInv, MailboxTypeOK
<1>1. /\ power # "off" /\ crashes < MaxCrashes /\ crashes' = crashes + 1
      /\ power' = "off" /\ commit' = NoOne /\ flash' = flash
  BY DEF PowerFails
<1>2. flash.ep_pub # NoOne => flash.ep_0 \in {NoOne, flash.ep_pub}
  <2>1. flash.ep_pub # NoOne => crashes = 0
    BY <1>0, <1>1 DEF SoleOwnerInv, NoLegacy
  <2> QED BY <2>1 DEF SoleOwnerInv, LegacyInv
<1>3. crashes' # 0
  BY <1>0, <1>1
<1> QED BY <1>1, <1>2, <1>3 DEF LegacyInv, EnrolsOver

\* An operation begins.
LEMMA OperationSoleOwner ==
  ASSUME MailboxTypeInv, RecordInv, SoleOwnerInv, Overlap = FALSE,
         NEW t \in {"nfc", "ble"}, MayStart(t), NEW s, todo' = [todo EXCEPT ![t] = s],
         t = "nfc" => commit' = NoOne \/ Settles(s, {"no legacy"}, {"endpoint"}),
         UNCHANGED <<flash, power, crashes>>
  PROVE  LegacyInv' /\ EnrolsOver'
<1>0. todo \in [Tasks -> Seq(Writes)]
  BY DEF MailboxTypeInv, MailboxTypeOK
<1>1. todo["nfc"] = << >> /\ todo["ble"] = << >> /\ power \in {"starting", "on"}
  BY Alone
<1>2. flash.ep_pub # NoOne => flash.ep_0 = flash.ep_pub /\ crashes # 0
  BY <1>1, LegacyAtRest DEF SoleOwnerInv
<1>3. LegacyInv'
  BY <1>2 DEF LegacyInv
<1>4. todo'["nfc"] = IF t = "nfc" THEN s ELSE << >>
  BY <1>0, <1>1 DEF Tasks
<1>5. EnrolsOver'
  BY <1>4 DEF EnrolsOver, Settles
<1> QED BY <1>3, <1>5

LEMMA BootWriteSoleOwner ==
  ASSUME MailboxTypeInv, RecordInv, SoleOwnerInv, Write("boot")
  PROVE  LegacyInv' /\ EnrolsOver'
<1> DEFINE s == todo["boot"]
<1>0. MailboxTypeOK /\ todo \in [Tasks -> Seq(Writes)] /\ "boot" \in Tasks /\ s \in Seq(Writes)
  BY DEF MailboxTypeInv, MailboxTypeOK, Tasks
<1>1. /\ s # << >> /\ todo' = [todo EXCEPT !["boot"] = Tail(s)]
      /\ UNCHANGED <<commit, power, crashes>>
  BY <1>0, WriteParts
<1>2. power \in {"booting", "again"} /\ todo["nfc"] = << >> /\ todo["ble"] = << >>
  BY <1>1 DEF RecordInv, TurnInv
<1>3. todo'["boot"] = Tail(s) /\ todo'["nfc"] = << >>
  BY <1>0, <1>1, <1>2 DEF Tasks
<1>4. EnrolsOver'
  BY <1>3 DEF EnrolsOver
<1>5. /\ flash'.ep_pub \in {flash.ep_pub, NoOne}
      /\ Head(s) \in {"no legacy", "wipe"} => flash'.ep_pub = NoOne
      /\ flash'.ep_0 \in {flash.ep_0, NoOne, OwnerLoaded}
  BY <1>0, <1>2, WriteLegacy DEF RecordInv, OwnerInv
<1>6. ASSUME flash'.ep_pub # NoOne
      PROVE  /\ flash'.ep_0 \in {NoOne, flash'.ep_pub}
             /\ crashes = 0 => Settles(Tail(s), {"no legacy", "wipe"}, {})
  <2>1. flash.ep_0 \in {NoOne, flash.ep_pub} /\ flash'.ep_pub = flash.ep_pub
    BY <1>2, <1>5, <1>6, NothingSettles DEF SoleOwnerInv, LegacyInv
  <2>2. crashes = 0 => Settles(s, {"no legacy", "wipe"}, {})
    BY <1>2, <1>6, <2>1 DEF SoleOwnerInv, LegacyInv
  <2>3. Head(s) \notin {"no legacy", "wipe"}
    BY <1>5, <1>6
  <2>4. crashes = 0 => Settles(Tail(s), {"no legacy", "wipe"}, {})
    BY <1>0, <1>1, <2>2, <2>3, TailSettles
  <2> QED BY <1>5, <2>1, <2>4 DEF OwnerLoaded
<1> HIDE DEF s
<1>7. LegacyInv'
  BY <1>1, <1>2, <1>3, <1>6 DEF LegacyInv
<1> QED BY <1>4, <1>7

LEMMA TaskWriteSoleOwner ==
  ASSUME MailboxTypeInv, RecordInv, SoleOwnerInv, NEW t \in {"nfc", "ble"}, Write(t)
  PROVE  LegacyInv' /\ EnrolsOver'
<1>0. /\ MailboxTypeOK /\ t \in Tasks /\ todo \in [Tasks -> Seq(Writes)]
  BY DEF MailboxTypeInv, MailboxTypeOK, Tasks
<1>1. /\ todo[t] # << >> /\ UNCHANGED <<commit, power, crashes>>
      /\ todo' = [todo EXCEPT ![t] = Tail(todo[t])]
  BY <1>0, WriteParts
<1>2. /\ power \in {"starting", "on"} /\ todo["boot"] = << >>
      /\ \A u \in {"nfc", "ble"} \ {t} : todo[u] = << >>
      /\ t = "nfc" => power = "on"
  BY <1>1 DEF RecordInv, TurnInv
<1>3. /\ todo'[t] = Tail(todo[t])
      /\ \A u \in {"nfc", "ble"} \ {t} : todo'[u] = << >>
  BY <1>0, <1>1, <1>2 DEF Tasks
<1>4. /\ flash'.ep_pub \in {flash.ep_pub, NoOne}
      /\ Head(todo[t]) \in {"no legacy", "wipe"} => flash'.ep_pub = NoOne
      /\ Head(todo[t]) # "endpoint" => flash'.ep_0 \in {flash.ep_0, NoOne}
  BY <1>0, WriteLegacy
<1>5. flash.ep_pub # NoOne => crashes # 0
  BY <1>2 DEF SoleOwnerInv, LegacyInv
<1>6. CASE Clearing(todo[t]) /\ (t = "nfc" => commit = NoOne)
  <2>1. RunInv /\ OwnerInv /\ Shown
    BY <1>2, <1>6 DEF RecordInv, OwnerInv
  <2>2. /\ flash'.ep_0 = NoOne
        /\ \/ flash'.ep_pub = NoOne
           \/ Tail(todo[t]) # << >> /\ Head(Tail(todo[t])) = "no legacy"
    BY <1>2, <1>6, <2>1, ClearWrite
  <2>3. todo'["nfc"] # << >> => commit' = NoOne
    BY <1>1, <1>3, <1>6
  <2>4. flash'.ep_pub # NoOne => Erasing'
    BY <1>3, <2>2 DEF Erasing
  <2> QED BY <1>1, <1>4, <1>5, <2>2, <2>3, <2>4 DEF LegacyInv, EnrolsOver
<1>7. CASE t = "nfc" /\ commit \in Owners /\ HasVehiclePub /\ Enrolling(todo["nfc"])
  <2> DEFINE s == todo["nfc"]
  <2>0. s \in Seq(Writes) /\ s # << >> /\ commit # NoOne
    BY <1>0, <1>1, <1>7, NoOneAssumption DEF Tasks
  <2>1. Moved' /\ flash'.ep_0 \in {flash.ep_0, commit}
    BY <1>2, <1>7, <2>0, EnrolWrite DEF RecordInv
  <2>2. CASE Settles(s, {"no legacy"}, {"endpoint"})
    <3>1. \/ Settles(Tail(s), {"no legacy"}, {"endpoint"})
          \/ Head(s) \in {"no legacy"} /\ Avoids(Tail(s), {"endpoint"})
      BY <2>0, <2>2, TailSettles
    <3>2. EnrolsOver'
      BY <1>3, <1>7, <3>1 DEF EnrolsOver, Settles, Avoids
    <3>3. flash'.ep_pub # NoOne => Settles(todo'["nfc"], {"no legacy"}, {"endpoint"})
      BY <1>3, <1>4, <1>7, <3>1
    <3>4. flash.ep_pub # NoOne => flash.ep_0 \in {flash.ep_pub, commit}
      BY <1>1, <1>2, <1>7, <2>0 DEF SoleOwnerInv, LegacyInv
    <3>5. LegacyInv'
      BY <1>1, <1>4, <1>5, <2>0, <2>1, <3>3, <3>4 DEF LegacyInv, Settles
    <3> QED BY <3>2, <3>5
  <2>3. CASE ~Settles(s, {"no legacy"}, {"endpoint"})
    <3>1. Avoids(s, {"endpoint"})
      BY <2>0, <2>3 DEF SoleOwnerInv, EnrolsOver
    <3>2. Head(s) # "endpoint" /\ Avoids(Tail(s), {"endpoint"})
      BY <2>0, <3>1, TailAvoids
    <3>3. EnrolsOver'
      BY <1>3, <1>7, <3>2 DEF EnrolsOver, Avoids
    <3>4. flash'.ep_pub # NoOne => flash'.ep_0 = flash.ep_0
      BY <1>4, <1>7, <2>1, <3>2 DEF Moved
    <3>5. flash.ep_pub # NoOne => flash.ep_0 = flash.ep_pub
      BY <1>2, <1>7, <2>0, <2>3 DEF SoleOwnerInv, LegacyInv
    <3>6. LegacyInv'
      BY <1>1, <1>4, <1>5, <3>4, <3>5 DEF LegacyInv
    <3> QED BY <3>3, <3>6
  <2> QED BY <2>2, <2>3
<1> QED BY <1>1, <1>6, <1>7 DEF RecordInv, TasksInv

LEMMA StepSoleOwner ==
  ASSUME MailboxTypeInv, RecordInv, SoleOwnerInv, Overlap = FALSE, [MailboxNext]_mailboxVars
  PROVE  SoleOwnerInv'
<1>1. NoLegacy' \/ MaxCrashes =< 1
  BY StepNoLegacy DEF SoleOwnerInv
<1>2. CASE Boot \/ BeginAgain
  BY <1>1, <1>2, BootSoleOwner DEF SoleOwnerInv
<1>3. CASE BootDone
  BY <1>1, <1>3, BootDoneSoleOwner DEF SoleOwnerInv
<1>4. CASE PowerFails
  BY <1>1, <1>4, PowerFailsSoleOwner DEF SoleOwnerInv
<1>5. CASE KeypairFails
  <2>1. identities \in Nat /\ todo \in [Tasks -> Seq(Writes)]
    BY DEF MailboxTypeInv, MailboxTypeOK
  <2>2. flash'.ep_pub = NoOne
    BY <1>5, <2>1, KeypairFailsEffect
  <2>3. todo'["nfc"] = << >>
    BY <1>5, <2>1 DEF KeypairFails, RecordInv, TurnInv, Tasks
  <2> QED BY <1>1, <2>2, <2>3 DEF SoleOwnerInv, LegacyInv, EnrolsOver
<1>6. ASSUME NEW o \in Owners, NEW force \in BOOLEAN, NEW cert \in BOOLEAN,
             NEW artifact \in BOOLEAN, SetOwnerProvisioned(o, force, cert, artifact)
      PROVE  SoleOwnerInv'
  <2> DEFINE s == EnrolWrites(force)
                    \o (IF cert THEN StoreCertChain ELSE << >>)
                    \o (IF artifact THEN StoreFastArtifact ELSE << >>)
                    \o (IF force THEN <<"no force", "no oneshot">> ELSE << >>)
  <2>1. /\ MayStart("nfc") /\ todo' = [todo EXCEPT !["nfc"] = s]
        /\ UNCHANGED <<flash, power, crashes>>
    BY <1>6 DEF SetOwnerProvisioned
  <2>2. Settles(s, {"no legacy"}, {"endpoint"})
    BY EnrolMoves
  <2> HIDE DEF s
  <2> QED BY <1>1, <2>1, <2>2, OperationSoleOwner DEF SoleOwnerInv
<1>7. CASE ClearProvisionedOnly("nfc") \/ ClearProvisionedOnly("ble") \/ ClearAll
  <2>1. PICK t \in {"nfc", "ble"} :
          /\ MayStart(t) /\ \E s : todo' = [todo EXCEPT ![t] = s]
          /\ UNCHANGED <<flash, power, crashes>>
          /\ t = "nfc" => commit' = NoOne
    BY <1>7 DEF ClearProvisionedOnly, ClearAll
  <2> QED BY <1>1, <2>1, OperationSoleOwner DEF SoleOwnerInv
<1>8. CASE \/ ToggleForceProvision \/ SetPersistentForce
           \/ ArmOneShotForce("nfc") \/ ArmOneShotForce("ble")
           \/ BeginEnrolment \/ EnrolmentFails \/ UNCHANGED mailboxVars
  <2>1. flash \in Flash
    BY DEF MailboxTypeInv, MailboxTypeOK
  <2>2. /\ UNCHANGED <<todo, commit, power, crashes>>
        /\ flash'.ep_0 = flash.ep_0 /\ flash'.ep_pub = flash.ep_pub
    BY <1>8, <2>1, SessionSteps
       DEF ToggleForceProvision, SetPersistentForce, ArmOneShotForce, SessionOnly, Flash
  <2> QED BY <2>2, SameSoleOwner
<1>9. ASSUME NEW t \in Tasks, Write(t) PROVE SoleOwnerInv'
  <2>1. CASE t = "boot"
    BY <1>1, <1>9, <2>1, BootWriteSoleOwner DEF SoleOwnerInv
  <2>2. CASE t \in {"nfc", "ble"}
    BY <1>1, <1>9, <2>2, TaskWriteSoleOwner DEF SoleOwnerInv
  <2> QED BY <2>1, <2>2 DEF Tasks
<1> QED BY <1>2, <1>3, <1>4, <1>5, <1>6, <1>7, <1>8, <1>9
        DEF MailboxNext, SerialCommands, AdminCommands

LEMMA NothingUnderWay ==
  ASSUME todo["nfc"] = << >>, todo["ble"] = << >>, todo["boot"] = << >>
  PROVE  UnderWay = {}
BY DEF UnderWay

\* A step of the record that only goes on.
LEMMA GoesOn ==
  ASSUME MailboxTypeInv', UnderWay' \subseteq UnderWay,
         OwnerLoaded' \in UnderWay \cup {OwnerLoaded}, session' \in {session, "none"}
  PROVE  Record!RecordNext
<1>1. IsForceProvisioning' \in BOOLEAN
  BY DEF MailboxTypeInv, MailboxTypeOK, Flash, IsForceProvisioning
<1>2. (session = "forced")' \in {session = "forced", FALSE}
  OBVIOUS
<1> QED BY <1>1, <1>2 DEF Record!RecordNext, Record!Proceed

LEMMA BootAsks ==
  ASSUME MailboxTypeInv, RecordInv, Overlap = FALSE, Boot \/ BeginAgain
  PROVE  Record!RecordNext
<1>0. todo \in [Tasks -> Seq(Writes)]
  BY DEF MailboxTypeInv, MailboxTypeOK
<1>1. todo["nfc"] = << >> /\ todo["ble"] = << >> /\ todo["boot"] = << >>
  BY DEF Boot, BeginAgain, RecordInv, TurnInv, Tasks
<1>2. flash' = flash /\ session' = session /\ \E s : todo' = [todo EXCEPT !["boot"] = s]
  BY DEF Boot, BeginAgain, Begin
<1>3. todo'["nfc"] = << >> /\ todo'["ble"] = << >>
  BY <1>0, <1>1, <1>2 DEF Tasks
<1>4. OwnerLoaded' = OwnerLoaded /\ IsForceProvisioning' = IsForceProvisioning
  BY <1>2 DEF OwnerLoaded, IsForceProvisioning
<1>5. UnderWay = {}
  BY <1>1, NothingUnderWay
<1>6. UnderWay' = {} \/ UnderWay' = {NoOne}
  BY <1>3 DEF UnderWay
<1>7. CASE UnderWay' = {}
  <2>1. MailboxTypeInv'
    BY StepType DEF MailboxNext
  <2> QED BY <1>2, <1>4, <1>5, <1>7, <2>1, GoesOn
<1>8. CASE UnderWay' = {NoOne}
  <2>1. Record!Ask(NoOne)
    BY <1>2, <1>4, <1>5, <1>8, NoOneAssumption DEF Record!Ask
  <2> QED BY <2>1 DEF Record!RecordNext
<1> QED BY <1>6, <1>7, <1>8

LEMMA EnrolAsks ==
  ASSUME MailboxTypeInv, RecordInv, Overlap = FALSE, NEW o \in Owners,
         NEW force \in BOOLEAN, NEW cert \in BOOLEAN, NEW artifact \in BOOLEAN,
         SetOwnerProvisioned(o, force, cert, artifact)
  PROVE  Record!RecordNext
<1>0. todo \in [Tasks -> Seq(Writes)]
  BY DEF MailboxTypeInv, MailboxTypeOK
<1>1. /\ MayStart("nfc") /\ MayEnrol(force) /\ commit' = o
      /\ session = (IF force THEN "forced" ELSE "plain") /\ session' = "none"
      /\ flash' = flash
  BY DEF SetOwnerProvisioned
<1>2. /\ todo["nfc"] = << >> /\ todo["ble"] = << >> /\ todo["boot"] = << >>
      /\ power = "on" /\ Shown /\ Moved /\ g_mailbox.endpoint_pub = flash.ep_0
  BY <1>1, Alone
<1>3. \E s : todo' = [todo EXCEPT !["nfc"] = s]
  BY DEF SetOwnerProvisioned
<1>4. todo'["ble"] = << >> /\ todo'["boot"] = << >>
  BY <1>0, <1>2, <1>3 DEF Tasks
<1>5. OwnerLoaded' = OwnerLoaded /\ IsForceProvisioning' = IsForceProvisioning
  BY <1>1 DEF OwnerLoaded, IsForceProvisioning
<1>6. UnderWay = {}
  BY <1>2, NothingUnderWay
<1>7. UnderWay' = {} \/ UnderWay' = {o}
  BY <1>1, <1>4 DEF UnderWay
<1>8. OwnerLoaded = NoOne \/ session = "forced"
  <2>1. OwnerLoaded = flash.ep_0
    BY <1>2 DEF Moved, OwnerLoaded
  <2> QED BY <1>1, <1>2, <2>1 DEF MayEnrol, IsProvisioned, Shown
<1>9. CASE UnderWay' = {}
  <2>1. MailboxTypeInv'
    BY StepType DEF MailboxNext
  <2> QED BY <1>1, <1>5, <1>6, <1>9, <2>1, GoesOn
<1>10. CASE UnderWay' = {o}
  <2>1. (session = "forced")' = FALSE
    BY <1>1
  <2>2. Record!Ask(o)
    BY <1>5, <1>6, <1>8, <1>10, <2>1 DEF Record!Ask
  <2> QED BY <2>2 DEF Record!RecordNext
<1> QED BY <1>7, <1>9, <1>10

LEMMA ClearAsks ==
  ASSUME MailboxTypeInv, RecordInv, Overlap = FALSE,
         ClearProvisionedOnly("nfc") \/ ClearProvisionedOnly("ble") \/ ClearAll
  PROVE  Record!RecordNext
<1>0. todo \in [Tasks -> Seq(Writes)]
  BY DEF MailboxTypeInv, MailboxTypeOK
<1>1. PICK t \in {"nfc", "ble"} :
        /\ MayStart(t) /\ \E s : todo' = [todo EXCEPT ![t] = s]
        /\ flash' = flash /\ session' = session
        /\ t = "nfc" => commit' = NoOne
  BY DEF ClearProvisionedOnly, ClearAll
<1>2. todo["nfc"] = << >> /\ todo["ble"] = << >> /\ todo["boot"] = << >>
  BY <1>1, Alone
<1>3. /\ todo'["boot"] = << >>
      /\ t = "nfc" => todo'["ble"] = << >>
      /\ t = "ble" => todo'["nfc"] = << >>
  BY <1>0, <1>1, <1>2 DEF Tasks
<1>5. OwnerLoaded' = OwnerLoaded /\ IsForceProvisioning' = IsForceProvisioning
  BY <1>1 DEF OwnerLoaded, IsForceProvisioning
<1>6. UnderWay = {}
  BY <1>2, NothingUnderWay
<1>7. UnderWay' = {} \/ UnderWay' = {NoOne}
  BY <1>1, <1>3 DEF UnderWay
<1>9. CASE UnderWay' = {}
  <2>1. MailboxTypeInv'
    BY StepType DEF MailboxNext, SerialCommands, AdminCommands
  <2> QED BY <1>1, <1>5, <1>6, <1>9, <2>1, GoesOn
<1>10. CASE UnderWay' = {NoOne}
  <2>1. Record!Ask(NoOne)
    BY <1>1, <1>5, <1>6, <1>10, NoOneAssumption DEF Record!Ask
  <2> QED BY <2>1 DEF Record!RecordNext
<1> QED BY <1>7, <1>9, <1>10

LEMMA FlagsGoOn ==
  ASSUME MailboxTypeInv, RecordInv,
         ToggleForceProvision \/ SetPersistentForce
           \/ ArmOneShotForce("nfc") \/ ArmOneShotForce("ble")
  PROVE  Record!RecordNext
<1>0. flash \in Flash
  BY DEF MailboxTypeInv, MailboxTypeOK
<1>1. UNCHANGED <<todo, session, commit>>
  BY DEF ToggleForceProvision, SetPersistentForce, ArmOneShotForce
<1>2. /\ flash'.ep_0 = flash.ep_0 /\ flash'.ep_pub = flash.ep_pub
      /\ flash'.v_id = flash.v_id /\ flash'.v_pub = flash.v_pub
      /\ flash'.v_priv = flash.v_priv
  BY <1>0 DEF ToggleForceProvision, SetPersistentForce, ArmOneShotForce, Flash
<1>3. UnderWay' = UnderWay /\ OwnerLoaded' = OwnerLoaded
  <2>1. MissingRoot' <=> MissingRoot
    BY <1>2 DEF MissingRoot, ValidateVehicleKeypair
  <2> QED BY <1>1, <1>2, <2>1 DEF UnderWay, OwnerLoaded
<1>4. MailboxTypeInv'
  BY StepType DEF MailboxNext, SerialCommands, AdminCommands
<1> QED BY <1>1, <1>3, <1>4, GoesOn

LEMMA PowerFailsGoesOn ==
  ASSUME MailboxTypeInv, PowerFails PROVE Record!RecordNext
<1>1. flash' = flash /\ todo' = [t \in Tasks |-> << >>] /\ session' = "none"
  BY DEF PowerFails
<1>2. UnderWay' = {}
  BY <1>1 DEF UnderWay, Tasks
<1>3. OwnerLoaded' = OwnerLoaded
  BY <1>1 DEF OwnerLoaded
<1>4. MailboxTypeInv'
  BY StepType DEF MailboxNext
<1> QED BY <1>1, <1>2, <1>3, <1>4, GoesOn

LEMMA KeypairFailsGoesOn ==
  ASSUME MailboxTypeInv, RecordInv, KeypairFails PROVE Record!RecordNext
<1>0. todo \in [Tasks -> Seq(Writes)] /\ identities \in Nat
  BY DEF MailboxTypeInv, MailboxTypeOK
<1>1. /\ todo["boot"] # << >> /\ Head(todo["boot"]) = "wipe"
      /\ todo' = [todo EXCEPT !["boot"] = << >>] /\ session' = session
  BY DEF KeypairFails
<1>2. power \in {"booting", "again"} /\ todo["nfc"] = << >> /\ todo["ble"] = << >>
  BY <1>1 DEF RecordInv, TurnInv
<1>3. todo'["boot"] = << >> /\ todo'["nfc"] = << >> /\ todo'["ble"] = << >>
  BY <1>0, <1>1, <1>2 DEF Tasks
<1>4. flash'.ep_0 = NoOne /\ flash'.ep_pub = NoOne
  BY <1>0, KeypairFailsEffect
<1>5. MissingRoot
  <2>1. /\ todo["boot"] # <<"bitmaps">>
        /\ todo["boot"] # <<"v_id", "v_pub", "v_priv", "bitmaps">>
        /\ todo["boot"] # <<"v_pub", "v_priv", "bitmaps">>
        /\ todo["boot"] # <<"v_priv", "bitmaps">>
    BY <1>1, BootHeads
  <2>2. todo["boot"] \notin Normalising
    BY <1>1, NormalisingHeads DEF Normalising, Migration
  <2> QED BY <1>2, <2>1, <2>2 DEF RecordInv, BootInv
<1>6. NoOne \in UnderWay
  BY <1>1, <1>5 DEF UnderWay
<1>7. UnderWay' = {}
  BY <1>3 DEF UnderWay
<1>8. OwnerLoaded' = NoOne
  BY <1>4 DEF OwnerLoaded
<1>9. MailboxTypeInv'
  BY StepType DEF MailboxNext
<1> QED BY <1>1, <1>6, <1>7, <1>8, <1>9, GoesOn

LEMMA BootWriteGoesOn ==
  ASSUME MailboxTypeInv, RecordInv, LegacyInv, Write("boot")
  PROVE  Record!RecordNext
<1> DEFINE s == todo["boot"]
           w == Head(s)
<1>0. /\ MailboxTypeOK /\ flash \in Flash /\ g_mailbox \in Mirror /\ commit \in Someone
      /\ "boot" \in Tasks /\ identities \in Nat /\ todo \in [Tasks -> Seq(Writes)]
  BY DEF MailboxTypeInv, MailboxTypeOK, Tasks
<1>1. /\ s # << >> /\ todo' = [todo EXCEPT !["boot"] = Tail(s)]
      /\ \/ w = "endpoint" /\ StoreEndpoint("boot") /\ UNCHANGED identities
         \/ w = "wipe" /\ NewIdentity
         \/ w \in RamWrites /\ RamAndFlash(w) /\ UNCHANGED <<identities, enrolledOn>>
         \/ w \in Plain /\ FlashOnly(w) /\ UNCHANGED <<identities, enrolledOn>>
  BY <1>0, WriteParts
<1>2. power \in {"booting", "again"} /\ todo["nfc"] = << >> /\ todo["ble"] = << >>
  BY <1>1 DEF RecordInv, TurnInv
<1>3. todo'["boot"] = Tail(s) /\ todo'["nfc"] = << >> /\ todo'["ble"] = << >>
  BY <1>0, <1>1, <1>2 DEF Tasks
<1>4. g_mailbox.endpoint_pub = OwnerLoaded /\ Shown
  BY <1>2 DEF RecordInv, OwnerInv
<1>5. MailboxTypeInv' /\ session' = session
  BY <1>0, WriteType DEF Write
<1> HIDE DEF s, w
<1>6. CASE MissingRoot
  <2>1. UnderWay = {NoOne} /\ UnderWay' \subseteq {NoOne}
    BY <1>1, <1>2, <1>3, <1>6 DEF UnderWay, s
  <2>2. /\ flash'.ep_pub \in {flash.ep_pub, NoOne}
        /\ flash'.ep_0 \in {flash.ep_0, NoOne, OwnerLoaded}
    BY <1>0, <1>4, WriteLegacy
  <2>3. flash.ep_pub = NoOne \/ flash.ep_0 \in {NoOne, flash.ep_pub}
    BY <1>2, NothingSettles DEF LegacyInv
  <2>4. OwnerLoaded' \in {OwnerLoaded, NoOne}
    BY <2>2, <2>3 DEF OwnerLoaded
  <2> QED BY <1>5, <2>1, <2>4, GoesOn
<1>7. CASE ~MissingRoot
  <2>1. \/ s \in Normalising \ {<< >>} /\ (s \in Migration \/ Moved)
        \/ s = <<"bitmaps">>
    <3>1. flash.v_priv # 0
      BY <1>7 DEF MissingRoot
    <3> QED BY <1>1, <1>2, <1>7, <3>1 DEF RecordInv, BootInv, s
  <2>2. OwnerLoaded' = OwnerLoaded /\ KeysKept
    <3>1. CASE s \in Normalising \ {<< >>} /\ (s \in Migration \/ Moved)
      BY <1>4, <3>1, NormaliseWrite DEF s
    <3>2. CASE s = <<"bitmaps">>
      <4>1. w = "bitmaps" /\ w \in Plain
        BY <3>2, BootHeads, BootWriteKinds DEF w
      <4>2. FlashOnly(w)
        BY <1>1, <4>1, BootWriteKinds
      <4> QED BY <1>0, <4>1, <4>2, PlainEffect DEF OwnerKept, OwnerLoaded, KeysKept
    <3> QED BY <2>1, <3>1, <3>2
  <2>3. ~MissingRoot'
    BY <1>7, <2>2 DEF KeysKept, MissingRoot, ValidateVehicleKeypair
  <2>4. UnderWay' = {}
    BY <1>3, <2>3 DEF UnderWay
  <2> QED BY <1>5, <2>2, <2>4, GoesOn
<1> QED BY <1>6, <1>7

LEMMA TaskWriteGoesOn ==
  ASSUME MailboxTypeInv, RecordInv, LegacyInv, NEW t \in {"nfc", "ble"}, Write(t)
  PROVE  Record!RecordNext
<1>0. /\ MailboxTypeOK /\ t \in Tasks /\ todo \in [Tasks -> Seq(Writes)]
  BY DEF MailboxTypeInv, MailboxTypeOK, Tasks
<1>1. /\ todo[t] # << >> /\ commit' = commit
      /\ todo' = [todo EXCEPT ![t] = Tail(todo[t])]
  BY <1>0, WriteParts
<1>2. /\ power \in {"starting", "on"} /\ todo["boot"] = << >>
      /\ t = "nfc" => power = "on" /\ todo["ble"] = << >>
      /\ t = "ble" => todo["nfc"] = << >>
  BY <1>1 DEF RecordInv, TurnInv
<1>3. /\ todo'["boot"] = << >>
      /\ t = "nfc" => todo'["ble"] = << >>
      /\ t = "ble" => todo'["nfc"] = << >>
  BY <1>0, <1>1, <1>2 DEF Tasks
<1>4. UnderWay' \subseteq UnderWay
  BY <1>1, <1>2, <1>3 DEF UnderWay
<1>5. flash'.ep_pub \in {flash.ep_pub, NoOne}
  BY <1>0, WriteLegacy
<1>6. MailboxTypeInv' /\ session' = session
  BY <1>0, WriteType DEF Write
<1>7. CASE Clearing(todo[t]) /\ (t = "nfc" => commit = NoOne)
  <2>1. flash'.ep_0 = NoOne
    <3>1. Shown /\ \A u \in {"nfc", "ble"} \ {t} : todo[u] = << >>
      BY <1>2, <1>7 DEF RecordInv, OwnerInv
    <3> QED BY <1>2, <1>7, <3>1, ClearWrite DEF RecordInv
  <2>2. NoOne \in UnderWay
    BY <1>1, <1>7 DEF UnderWay
  <2>3. flash.ep_pub # NoOne => flash.ep_0 \in {NoOne, flash.ep_pub}
    BY <1>2, <1>7, NothingSettles DEF LegacyInv
  <2>4. OwnerLoaded' \in {NoOne, OwnerLoaded}
    BY <1>5, <2>1, <2>3 DEF OwnerLoaded
  <2> QED BY <1>4, <1>6, <2>2, <2>4, GoesOn
<1>8. CASE t = "nfc" /\ commit \in Owners /\ HasVehiclePub /\ Enrolling(todo["nfc"])
  <2>1. flash'.ep_0 \in {flash.ep_0, commit} /\ Moved'
    BY <1>2, <1>8, NoOneAssumption, EnrolWrite DEF RecordInv
  <2>2. commit \in UnderWay
    BY <1>1, <1>8 DEF UnderWay
  <2>3. flash.ep_pub # NoOne => flash.ep_0 # NoOne \/ flash'.ep_0 = commit
    <3>1. CASE Moved
      BY <3>1 DEF Moved
    <3>2. CASE ~Moved
      BY <1>1, <1>2, <1>8, <3>2, NoOneAssumption DEF LegacyInv, Moved
    <3> QED BY <3>1, <3>2
  <2>4. OwnerLoaded' \in {OwnerLoaded, commit}
    BY <2>1, <2>3 DEF OwnerLoaded, Moved
  <2> QED BY <1>4, <1>6, <2>2, <2>4, GoesOn
<1> QED BY <1>1, <1>7, <1>8 DEF RecordInv, TasksInv

LEMMA StepImplements ==
  ASSUME MailboxTypeInv, RecordInv, SoleOwnerInv, Overlap = FALSE, [MailboxNext]_mailboxVars
  PROVE  [Record!RecordNext]_<<OwnerLoaded, UnderWay, IsForceProvisioning, session = "forced">>
<1>1. CASE Boot \/ BeginAgain
  BY <1>1, BootAsks
<1>2. CASE BootDone \/ EnrolmentFails \/ UNCHANGED mailboxVars
  <2>1. UNCHANGED <<flash, todo, commit>> /\ session' \in {session, "none"}
    BY <1>2 DEF BootDone, EnrolmentFails, mailboxVars
  <2>2. MailboxTypeInv'
    BY StepType
  <2>3. OwnerLoaded' = OwnerLoaded /\ UnderWay' = UnderWay
    BY <2>1 DEF OwnerLoaded, UnderWay, MissingRoot, ValidateVehicleKeypair
  <2> QED BY <2>1, <2>2, <2>3, GoesOn
<1>9. CASE BeginEnrolment
  <2>1. /\ UNCHANGED <<flash, todo, commit>>
        /\ session' = IF IsForceProvisioning THEN "forced" ELSE "plain"
    BY <1>9 DEF BeginEnrolment
  <2>2. (session = "forced")' = IsForceProvisioning
    <3>1. IsForceProvisioning \in BOOLEAN
      BY DEF MailboxTypeInv, MailboxTypeOK, Flash, IsForceProvisioning
    <3> QED BY <2>1, <3>1
  <2>3. Record!OpenSession
    BY <2>1, <2>2 DEF Record!OpenSession, OwnerLoaded, UnderWay, MissingRoot,
                      ValidateVehicleKeypair, IsForceProvisioning
  <2> QED BY <2>3 DEF Record!RecordNext
<1>3. CASE PowerFails
  BY <1>3, PowerFailsGoesOn
<1>4. CASE KeypairFails
  BY <1>4, KeypairFailsGoesOn
<1>5. ASSUME NEW o \in Owners, NEW force \in BOOLEAN, NEW cert \in BOOLEAN,
             NEW artifact \in BOOLEAN, SetOwnerProvisioned(o, force, cert, artifact)
      PROVE  Record!RecordNext
  BY <1>5, EnrolAsks
<1>6. CASE ClearProvisionedOnly("nfc") \/ ClearProvisionedOnly("ble") \/ ClearAll
  BY <1>6, ClearAsks
<1>7. CASE ToggleForceProvision \/ SetPersistentForce
             \/ ArmOneShotForce("nfc") \/ ArmOneShotForce("ble")
  BY <1>7, FlagsGoOn
<1>8. ASSUME NEW t \in Tasks, Write(t) PROVE Record!RecordNext
  <2>1. CASE t = "boot"
    BY <1>8, <2>1, BootWriteGoesOn DEF SoleOwnerInv
  <2>2. CASE t \in {"nfc", "ble"}
    BY <1>8, <2>2, TaskWriteGoesOn DEF SoleOwnerInv
  <2> QED BY <2>1, <2>2 DEF Tasks
<1> QED BY <1>1, <1>2, <1>3, <1>4, <1>5, <1>6, <1>7, <1>8, <1>9
        DEF MailboxNext, SerialCommands, AdminCommands

(* The owner record: whatever write a power failure comes between, the owner *)
(* the next boot finds is the one before the operation or the one after it,  *)
(* and one is replaced by another only in a session that began under force.  *)
(* One task at a time, and from new flash; or from an older firmware's, if   *)
(* power fails at most once: TLC shows that with two failures the old owner  *)
(* may come back.                                                            *)
THEOREM OwnerIsAtomic ==
  ASSUME LegacyFlash = FALSE \/ MaxCrashes =< 1, Overlap = FALSE
  PROVE  MailboxSpec => OwnerAtomic
<1>1. MailboxInit => MailboxTypeInv /\ RecordInv /\ SoleOwnerInv
  BY InitType, InitRecord, InitSoleOwner
<1>2. MailboxTypeInv /\ RecordInv /\ SoleOwnerInv /\ [MailboxNext]_mailboxVars
        => (MailboxTypeInv /\ RecordInv /\ SoleOwnerInv)'
  BY StepType, StepRecord, StepSoleOwner
<1>3. MailboxInit => Record!RecordInit
  <2> SUFFICES ASSUME MailboxInit PROVE Record!RecordInit
    OBVIOUS
  <2>1. flash \in Flash /\ todo = [t \in Tasks |-> << >>]
    BY InitType DEF MailboxInit, MailboxTypeInv, MailboxTypeOK
  <2>2. OwnerLoaded \in Someone
    BY <2>1, LoadedType
  <2>3. UnderWay = {}
    BY <2>1, NothingUnderWay DEF Tasks
  <2>4. IsForceProvisioning \in BOOLEAN
    BY <2>1 DEF IsForceProvisioning, Flash
  <2>5. (session = "forced") = FALSE
    BY DEF MailboxInit
  <2> QED BY <2>2, <2>3, <2>4, <2>5 DEF Record!RecordInit, Someone
<1>4. MailboxTypeInv /\ RecordInv /\ SoleOwnerInv /\ [MailboxNext]_mailboxVars
        => [Record!RecordNext]_(Record!recordVars)
  BY StepImplements DEF Record!recordVars
<1> QED BY <1>1, <1>2, <1>3, <1>4, PTL DEF MailboxSpec, OwnerAtomic, Record!RecordSpec

-----------------------------------------------------------------------------
(* What is in RAM is what a boot would find.  The slot's bit and its copy in *)
(* flash part ways in the middle of an operation, and a token may outlive    *)
(* its bit there; what the operation has left to write brings them together. *)
Syncing == {"slots", "active", "inactive", "no mailbox"}
Unsyncing == {"endpoint", "no endpoint", "no token"}
Hiders == {"no endpoint", "inactive", "no mailbox"}

SlotSynced == flash.slot_bmp = g_mailbox.slot_bitmap
TokenShown == g_mailbox.immobilizer_token # NoOne => g_mailbox.slot_bitmap

\* A migration stores the bit before the owner, which leaves it set.
Migrates(s, synced) ==
  \E p \in Migration, q \in {<< >>, RekeyWrites} :
    s = p \o q /\ (Head(p) = "slots" \/ synced)

SlotFollows(s) ==
  \/ Settles(s, Syncing, Unsyncing)
  \/ Avoids(s, Unsyncing) /\ SlotSynced
  \/ g_mailbox.slot_bitmap /\ Migrates(s, SlotSynced)

\* A clear ends without a token, an enrolment never hides one.
TokenFollows(s) ==
  \/ Settles(s, {"no token"}, {"token"})
  \/ Avoids(s, {"token"}) /\ g_mailbox.immobilizer_token = NoOne
  \/ Avoids(s, Hiders) /\ TokenShown

Works(t) ==
  /\ \A u \in Tasks \ {t} : todo[u] = << >>
  /\ SlotFollows(todo[t]) /\ TokenFollows(todo[t])

CopiesInv ==
  power # "off" =>
    /\ g_mailbox.immobilizer_token = flash.tok_0
    /\ g_mailbox.signaling_bitmap = flash.sig_bmp
    /\ \E t \in Tasks : Works(t)

\* A vehicle that could not make its keys has none in flash either.
BareInv ==
  power \in {"starting", "on"} =>
    \/ ~MissingRoot /\ SameKeys
    \/ /\ flash.v_id = 0 /\ flash.v_pub = 0 /\ flash.v_priv = 0
       /\ g_mailbox.v_pub = 0 /\ g_mailbox.v_priv = 0

MirrorInv == CopiesInv /\ BareInv

\* A write to flash alone touches the slot only to copy it from RAM.
LEMMA PlainCopies ==
  ASSUME flash \in Flash, NEW w \in Plain, FlashOnly(w)
  PROVE  /\ g_mailbox' = g_mailbox /\ flash'.tok_0 = flash.tok_0
         /\ flash'.sig_bmp \in {flash.sig_bmp, g_mailbox.signaling_bitmap}
         /\ flash'.slot_bmp \in {flash.slot_bmp, g_mailbox.slot_bitmap}
         /\ w = "slots" => flash'.slot_bmp = g_mailbox.slot_bitmap
<1>0. g_mailbox' = g_mailbox
  BY DEF FlashOnly
<1>1. CASE w = "slots"
  <2>1. flash' = [flash EXCEPT !.slot_bmp = g_mailbox.slot_bitmap]
    BY <1>1 DEF FlashOnly
  <2> QED BY <1>1, <1>0, <2>1 DEF Flash
<1>2. CASE w = "no legacy"
  <2>1. flash' = [flash EXCEPT !.ep_pub = NoOne]
    BY <1>2 DEF FlashOnly
  <2> QED BY <1>2, <1>0, <2>1 DEF Flash
<1>3. CASE w = "cert"
  <2>1. flash' = [flash EXCEPT !.cert_chain = commit]
    BY <1>3 DEF FlashOnly
  <2> QED BY <1>3, <1>0, <2>1 DEF Flash
<1>4. CASE w = "no cert"
  <2>1. flash' = [flash EXCEPT !.cert_chain = NoOne]
    BY <1>4 DEF FlashOnly
  <2> QED BY <1>4, <1>0, <2>1 DEF Flash
<1>5. CASE w = "art ver"
  <2>1. flash' = [flash EXCEPT !.fast_art_ver = commit]
    BY <1>5 DEF FlashOnly
  <2> QED BY <1>5, <1>0, <2>1 DEF Flash
<1>6. CASE w = "art key"
  <2>1. flash' = [flash EXCEPT !.fast_art_key = commit]
    BY <1>6 DEF FlashOnly
  <2> QED BY <1>6, <1>0, <2>1 DEF Flash
<1>7. CASE w = "no art ver"
  <2>1. flash' = [flash EXCEPT !.fast_art_ver = NoOne]
    BY <1>7 DEF FlashOnly
  <2> QED BY <1>7, <1>0, <2>1 DEF Flash
<1>8. CASE w = "no art key"
  <2>1. flash' = [flash EXCEPT !.fast_art_key = NoOne]
    BY <1>8 DEF FlashOnly
  <2> QED BY <1>8, <1>0, <2>1 DEF Flash
<1>9. CASE w = "no force"
  <2>1. flash' = [flash EXCEPT !.force_prov = FALSE]
    BY <1>9 DEF FlashOnly
  <2> QED BY <1>9, <1>0, <2>1 DEF Flash
<1>10. CASE w = "no oneshot"
  <2>1. flash' = [flash EXCEPT !.oneshot_force = FALSE]
    BY <1>10 DEF FlashOnly
  <2> QED BY <1>10, <1>0, <2>1 DEF Flash
<1>11. CASE w = "v_id"
  <2>1. flash' = [flash EXCEPT !.v_id = g_mailbox.v_id]
    BY <1>11 DEF FlashOnly
  <2> QED BY <1>11, <1>0, <2>1 DEF Flash
<1>12. CASE w = "v_pub"
  <2>1. flash' = [flash EXCEPT !.v_pub = g_mailbox.v_pub]
    BY <1>12 DEF FlashOnly
  <2> QED BY <1>12, <1>0, <2>1 DEF Flash
<1>13. CASE w = "v_priv"
  <2>1. flash' = [flash EXCEPT !.v_priv = g_mailbox.v_priv]
    BY <1>13 DEF FlashOnly
  <2> QED BY <1>13, <1>0, <2>1 DEF Flash
<1>14. CASE w = "bitmaps"
  <2>1. flash' = [flash EXCEPT !.sig_bmp = g_mailbox.signaling_bitmap,
                               !.slot_bmp = g_mailbox.slot_bitmap]
    BY <1>14 DEF FlashOnly
  <2> QED BY <1>14, <1>0, <2>1 DEF Flash
<1> QED BY <1>1, <1>2, <1>3, <1>4, <1>5, <1>6, <1>7, <1>8, <1>9, <1>10,
          <1>11, <1>12, <1>13, <1>14 DEF Plain, Writes, RamWrites

Copied ==
  /\ g_mailbox.immobilizer_token = flash.tok_0
  /\ g_mailbox.signaling_bitmap = flash.sig_bmp

\* What a write does to the slot's bit and the token, and what it leaves alone.
Copies(w) ==
  /\ Copied'
  /\ w \in Syncing => SlotSynced'
  /\ w \notin Unsyncing /\ SlotSynced => SlotSynced'
  /\ w = "no token" => g_mailbox'.immobilizer_token = NoOne
  /\ w # "token" /\ g_mailbox.immobilizer_token = NoOne
       => g_mailbox'.immobilizer_token = NoOne
  /\ w \notin Hiders /\ TokenShown => TokenShown'

LEMMA RamCopies ==
  ASSUME flash \in Flash, g_mailbox \in Mirror, Copied, NEW w \in RamWrites, RamAndFlash(w)
  PROVE  Copies(w)
<1> USE DEF Set, Flash, Mirror, Copied, Copies, Syncing, Unsyncing, Hiders, SlotSynced,
            TokenShown
<1>1. CASE w = "no endpoint"
  <2>1. /\ g_mailbox' = [g_mailbox EXCEPT !.endpoint_pub = NoOne, !.slot_bitmap = FALSE]
        /\ flash' = [flash EXCEPT !.ep_0 = NoOne]
    BY <1>1 DEF RamAndFlash
  <2> QED BY <1>1, <2>1
<1>2. CASE w = "no token"
  <2>1. /\ g_mailbox' = [g_mailbox EXCEPT !.immobilizer_token = NoOne, !.slot_bitmap = FALSE]
        /\ flash' = [flash EXCEPT !.tok_0 = NoOne]
    BY <1>2 DEF RamAndFlash
  <2> QED BY <1>2, <2>1
<1>3. CASE w = "token"
  <2>1. EnsureToken
    BY <1>3 DEF RamAndFlash
  <2>2. CASE HasToken
    BY <1>3, <2>1, <2>2 DEF EnsureToken
  <2>3. CASE ~HasToken
    <3>1. /\ g_mailbox' = [g_mailbox EXCEPT !.immobilizer_token = commit, !.slot_bitmap = TRUE]
          /\ flash' = [flash EXCEPT !.tok_0 = commit, !.slot_bmp = TRUE]
      BY <2>1, <2>3 DEF EnsureToken
    <3> QED BY <1>3, <3>1
  <2> QED BY <2>2, <2>3
<1>4. CASE w = "active"
  <2>1. /\ g_mailbox' = [g_mailbox EXCEPT !.slot_bitmap = TRUE]
        /\ flash' = [flash EXCEPT !.slot_bmp = TRUE]
    BY <1>4 DEF RamAndFlash
  <2> QED BY <1>4, <2>1
<1>5. CASE w = "inactive"
  <2>1. /\ g_mailbox' = [g_mailbox EXCEPT !.slot_bitmap = FALSE]
        /\ flash' = [flash EXCEPT !.slot_bmp = FALSE]
    BY <1>5 DEF RamAndFlash
  <2> QED BY <1>5, <2>1
<1>6. CASE w = "signal"
  <2>1. /\ g_mailbox' = [g_mailbox EXCEPT !.signaling_bitmap = TRUE]
        /\ flash' = [flash EXCEPT !.sig_bmp = TRUE]
    BY <1>6 DEF RamAndFlash
  <2> QED BY <1>6, <2>1
<1>7. CASE w = "no mailbox"
  <2>1. /\ g_mailbox' = [g_mailbox EXCEPT !.signaling_bitmap = FALSE, !.slot_bitmap = FALSE]
        /\ flash' = [flash EXCEPT !.sig_bmp = FALSE, !.slot_bmp = FALSE]
    BY <1>7 DEF RamAndFlash
  <2> QED BY <1>7, <2>1
<1> QED BY <1>1, <1>2, <1>3, <1>4, <1>5, <1>6, <1>7 DEF RamWrites

LEMMA WriteCopies ==
  ASSUME flash \in Flash, g_mailbox \in Mirror, Copied, NEW t \in Tasks, NEW w,
         \/ w = "endpoint" /\ StoreEndpoint(t)
         \/ w = "wipe" /\ NewIdentity
         \/ w \in RamWrites /\ RamAndFlash(w)
         \/ w \in Plain /\ FlashOnly(w)
  PROVE  Copies(w)
<1> USE DEF Copied, Copies, Syncing, Unsyncing, Hiders, SlotSynced, TokenShown
<1>1. CASE w = "endpoint" /\ StoreEndpoint(t)
  BY <1>1 DEF StoreEndpoint, Set, Flash, Mirror
<1>2. CASE w = "wipe" /\ NewIdentity
  <2>1. /\ flash' = EmptyFlash
        /\ g_mailbox' = [EmptyMirror EXCEPT !.v_id = identities', !.v_pub = identities',
                                            !.v_priv = identities']
    BY <1>2 DEF NewIdentity, Set, GenerateVehicleId, GenerateVehicleKeypair
  <2>2. /\ flash'.tok_0 = NoOne /\ ~flash'.sig_bmp /\ ~flash'.slot_bmp
        /\ g_mailbox'.immobilizer_token = NoOne /\ ~g_mailbox'.signaling_bitmap
        /\ ~g_mailbox'.slot_bitmap
        /\ flash' \in Flash /\ g_mailbox'.slot_bitmap \in BOOLEAN
        /\ g_mailbox'.signaling_bitmap \in BOOLEAN
    BY <2>1, EmptyRecords DEF EmptyFlash, EmptyMirror
  <2> QED BY <1>2, <2>2 DEF Flash
<1>3. CASE w \in RamWrites /\ RamAndFlash(w)
  BY <1>3, RamCopies
<1>4. CASE w \in Plain /\ FlashOnly(w)
  <2>1. /\ g_mailbox' = g_mailbox /\ flash'.tok_0 = flash.tok_0
        /\ flash'.sig_bmp \in {flash.sig_bmp, g_mailbox.signaling_bitmap}
        /\ flash'.slot_bmp \in {flash.slot_bmp, g_mailbox.slot_bitmap}
        /\ w = "slots" => flash'.slot_bmp = g_mailbox.slot_bitmap
    BY <1>4, PlainCopies
  <2>2. w \notin RamWrites
    BY <1>4 DEF Plain
  <2>3. w \in Syncing => w = "slots"
    BY <2>2 DEF RamWrites
  <2> QED BY <2>1, <2>2, <2>3 DEF RamWrites
<1> QED BY <1>1, <1>2, <1>3, <1>4

-----------------------------------------------------------------------------
(* The programs settle the slot and the token.                               *)
LEMMA OptionsMirror ==
  /\ Avoids(StoreCertChain, Unsyncing \cup Hiders)
  /\ Avoids(StoreFastArtifact, Unsyncing \cup Hiders)
  /\ Avoids(<<"no force", "no oneshot">>, Unsyncing \cup Hiders \cup {"token"})
  /\ Avoids(ClearFastArtifact, Unsyncing \cup {"token"})
<1> DEFINE c == StoreCertChain
           a == StoreFastArtifact
           f == <<"no force", "no oneshot">>
           n == ClearFastArtifact
<1>1. Len(c) = 1 /\ c[1] = "cert"
  BY DEF StoreCertChain
<1>2. Len(a) = 2 /\ a[1] = "art ver" /\ a[2] = "art key"
  BY DEF StoreFastArtifact
<1>3. Len(f) = 2 /\ f[1] = "no force" /\ f[2] = "no oneshot"
  OBVIOUS
<1>4. Len(n) = 2 /\ n[1] = "no art ver" /\ n[2] = "no art key"
  BY DEF ClearFastArtifact
<1> HIDE DEF c, a, f, n
<1>5. Avoids(c, Unsyncing \cup Hiders)
  <2>1. c[1] \notin Unsyncing \cup Hiders
    BY <1>1 DEF Unsyncing, Hiders
  <2> QED BY <1>1, <2>1 DEF Avoids
<1>6. Avoids(a, Unsyncing \cup Hiders)
  BY <1>2, TwoAvoid DEF Unsyncing, Hiders
<1>7. Avoids(f, Unsyncing \cup Hiders \cup {"token"})
  BY <1>3, TwoAvoid DEF Unsyncing, Hiders
<1>8. Avoids(n, Unsyncing \cup {"token"})
  BY <1>4, TwoAvoid DEF Unsyncing
<1> QED BY <1>5, <1>6, <1>7, <1>8 DEF c, a, f, n

LEMMA AvoidsLess ==
  ASSUME NEW s, NEW ws, NEW us, us \subseteq ws, Avoids(s, ws) PROVE Avoids(s, us)
BY DEF Avoids

LEMMA EnrolWritesMirror ==
  ASSUME NEW force \in BOOLEAN
  PROVE  /\ Settles(EnrolWrites(force), Syncing, Unsyncing)
         /\ Avoids(EnrolWrites(force), Hiders)
<1> DEFINE first == <<"endpoint", "slots", "no legacy">>
           anew == <<"no token", "slots">>
           fresh == IF force THEN anew ELSE << >>
           last == <<"active", "token", "signal">>
<1>1. first \in Seq(Writes) /\ fresh \in Seq(Writes) /\ last \in Seq(Writes)
  BY ShortPrograms
<1>2. Len(first) = 3 /\ first[1] = "endpoint" /\ first[2] = "slots" /\ first[3] = "no legacy"
  OBVIOUS
<1>3. Len(anew) = 2 /\ anew[1] = "no token" /\ anew[2] = "slots"
  OBVIOUS
<1>4. Len(last) = 3 /\ last[1] = "active" /\ last[2] = "token" /\ last[3] = "signal"
  OBVIOUS
<1>5. EnrolWrites(force) = (first \o fresh) \o last
  BY DEF EnrolWrites
<1> HIDE DEF first, anew, last
<1>6. Avoids(first, Hiders)
  BY <1>2, ThreeAvoid DEF Hiders
<1>7. Avoids(anew, Hiders)
  BY <1>3, TwoAvoid DEF Hiders
<1>8. Avoids(fresh, Hiders)
  BY <1>7, EmptyProgram
<1>9. Avoids(last, Hiders)
  BY <1>4, ThreeAvoid DEF Hiders
<1>10. Settles(last, Syncing, Unsyncing)
  <2>1. last[2] \notin Unsyncing /\ last[3] \notin Unsyncing /\ last[1] \in Syncing
    BY <1>4 DEF Unsyncing, Syncing
  <2>2. 1 \in 1 .. Len(last) /\ \A i \in 1 + 1 .. Len(last) : last[i] \notin Unsyncing
    BY <1>4, <2>1
  <2> QED BY <2>1, <2>2 DEF Settles
<1> HIDE DEF fresh
<1>11. first \o fresh \in Seq(Writes) /\ Avoids(first \o fresh, Hiders)
  BY <1>1, <1>6, <1>8, ConcatAvoids
<1>12. Avoids((first \o fresh) \o last, Hiders)
  BY <1>1, <1>9, <1>11, ConcatAvoids
<1>13. Settles((first \o fresh) \o last, Syncing, Unsyncing)
  BY <1>1, <1>10, <1>11, ConcatSettles
<1> QED BY <1>5, <1>12, <1>13

LEMMA EnrolMirror ==
  ASSUME NEW force \in BOOLEAN, NEW cert \in BOOLEAN, NEW artifact \in BOOLEAN
  PROVE  LET program == EnrolWrites(force)
                          \o (IF cert THEN StoreCertChain ELSE << >>)
                          \o (IF artifact THEN StoreFastArtifact ELSE << >>)
                          \o (IF force THEN <<"no force", "no oneshot">> ELSE << >>)
         IN  Settles(program, Syncing, Unsyncing) /\ Avoids(program, Hiders)
<1> DEFINE e == EnrolWrites(force)
           c == IF cert THEN StoreCertChain ELSE << >>
           a == IF artifact THEN StoreFastArtifact ELSE << >>
           f == IF force THEN <<"no force", "no oneshot">> ELSE << >>
<1>1. e \in Seq(Writes) /\ Settles(e, Syncing, Unsyncing) /\ Avoids(e, Hiders)
  BY EnrolWritesMirror, ProgramTypes
<1>2. /\ Avoids(StoreCertChain, Unsyncing) /\ Avoids(StoreCertChain, Hiders)
      /\ Avoids(StoreFastArtifact, Unsyncing) /\ Avoids(StoreFastArtifact, Hiders)
      /\ Avoids(<<"no force", "no oneshot">>, Unsyncing)
      /\ Avoids(<<"no force", "no oneshot">>, Hiders)
  BY OptionsMirror, AvoidsLess
<1>3. c \in Seq(Writes) /\ Avoids(c, Unsyncing) /\ Avoids(c, Hiders)
  BY <1>2, EmptyProgram, ProgramTypes, ShortPrograms
<1>4. a \in Seq(Writes) /\ Avoids(a, Unsyncing) /\ Avoids(a, Hiders)
  BY <1>2, EmptyProgram, ProgramTypes, ShortPrograms
<1>5. f \in Seq(Writes) /\ Avoids(f, Unsyncing) /\ Avoids(f, Hiders)
  BY <1>2, EmptyProgram, ProgramTypes, ShortPrograms
<1> HIDE DEF e, c, a, f
<1>6. e \o c \in Seq(Writes) /\ Avoids(e \o c, Hiders) /\ Settles(e \o c, Syncing, Unsyncing)
  BY <1>1, <1>3, ConcatAvoids, ConcatSettles
<1>7. (e \o c) \o a \in Seq(Writes) /\ Avoids((e \o c) \o a, Hiders)
      /\ Settles((e \o c) \o a, Syncing, Unsyncing)
  BY <1>4, <1>6, ConcatAvoids, ConcatSettles
<1>8. Avoids(((e \o c) \o a) \o f, Hiders) /\ Settles(((e \o c) \o a) \o f, Syncing, Unsyncing)
  BY <1>5, <1>7, ConcatAvoids, ConcatSettles
<1> QED BY <1>8 DEF e, c, a, f

LEMMA ClearMirror ==
  LET only == <<"no endpoint", "no legacy", "slots", "no token", "slots", "inactive",
                "signal", "no cert">> \o ClearFastArtifact
      all == <<"no endpoint", "no legacy", "slots", "no mailbox", "no token", "slots",
               "no cert">> \o ClearFastArtifact \o <<"no force", "no oneshot">>
  IN  /\ Settles(only, Syncing, Unsyncing) /\ Settles(only, {"no token"}, {"token"})
      /\ Settles(all, Syncing, Unsyncing) /\ Settles(all, {"no token"}, {"token"})
<1> DEFINE o == <<"no endpoint", "no legacy", "slots", "no token", "slots", "inactive",
                  "signal", "no cert">>
           a == <<"no endpoint", "no legacy", "slots", "no mailbox", "no token", "slots",
                  "no cert">>
           f == <<"no force", "no oneshot">>
           c == ClearFastArtifact
<1>1. o \in Seq(Writes) /\ a \in Seq(Writes) /\ f \in Seq(Writes) /\ c \in Seq(Writes)
  <2>1. o \in Seq(Writes) /\ a \in Seq(Writes)
    BY DEF Writes
  <2> QED BY <2>1, ShortPrograms, ProgramTypes
<1>2. /\ Len(o) = 8 /\ o[4] = "no token" /\ o[5] = "slots" /\ o[6] = "inactive"
      /\ o[7] = "signal" /\ o[8] = "no cert"
  OBVIOUS
<1>3. Len(a) = 7 /\ a[5] = "no token" /\ a[6] = "slots" /\ a[7] = "no cert"
  OBVIOUS
<1>4. /\ Avoids(f, Unsyncing) /\ Avoids(f, {"token"})
      /\ Avoids(c, Unsyncing) /\ Avoids(c, {"token"})
  <2>1. /\ Unsyncing \subseteq Unsyncing \cup Hiders \cup {"token"}
        /\ {"token"} \subseteq Unsyncing \cup Hiders \cup {"token"}
        /\ Unsyncing \subseteq Unsyncing \cup {"token"}
        /\ {"token"} \subseteq Unsyncing \cup {"token"}
    OBVIOUS
  <2> QED BY <2>1, OptionsMirror, AvoidsLess
<1> HIDE DEF o, a, f, c
<1>5. Settles(o, Syncing, Unsyncing)
  <2>1. /\ o[6] \in Syncing
        /\ o[7] \notin Unsyncing /\ o[8] \notin Unsyncing
    BY <1>2 DEF Syncing, Unsyncing
  <2>2. 6 \in 1 .. Len(o) /\ \A i \in 6 + 1 .. Len(o) : o[i] \notin Unsyncing
    <3>1. Len(o) = 8
      BY <1>2
    <3>2. 6 \in 1 .. 8 /\ \A i \in 6 + 1 .. 8 : i = 7 \/ i = 8
      OBVIOUS
    <3> QED BY <3>1, <3>2, <2>1
  <2> QED BY <2>1, <2>2 DEF Settles
<1>6. Settles(o, {"no token"}, {"token"})
  <2>1. /\ o[4] \in {"no token"}
        /\ o[5] \notin {"token"} /\ o[6] \notin {"token"} /\ o[7] \notin {"token"} /\ o[8] \notin {"token"}
    BY <1>2
  <2>2. 4 \in 1 .. Len(o) /\ \A i \in 4 + 1 .. Len(o) : o[i] \notin {"token"}
    <3>1. Len(o) = 8
      BY <1>2
    <3>2. 4 \in 1 .. 8 /\ \A i \in 4 + 1 .. 8 : i = 5 \/ i = 6 \/ i = 7 \/ i = 8
      OBVIOUS
    <3> QED BY <3>1, <3>2, <2>1
  <2> QED BY <2>1, <2>2 DEF Settles
<1>7. Settles(a, Syncing, Unsyncing)
  <2>1. /\ a[6] \in Syncing
        /\ a[7] \notin Unsyncing
    BY <1>3 DEF Syncing, Unsyncing
  <2>2. 6 \in 1 .. Len(a) /\ \A i \in 6 + 1 .. Len(a) : a[i] \notin Unsyncing
    <3>1. Len(a) = 7
      BY <1>3
    <3>2. 6 \in 1 .. 7 /\ \A i \in 6 + 1 .. 7 : i = 7
      OBVIOUS
    <3> QED BY <3>1, <3>2, <2>1
  <2> QED BY <2>1, <2>2 DEF Settles
<1>8. Settles(a, {"no token"}, {"token"})
  <2>1. /\ a[5] \in {"no token"}
        /\ a[6] \notin {"token"} /\ a[7] \notin {"token"}
    BY <1>3
  <2>2. 5 \in 1 .. Len(a) /\ \A i \in 5 + 1 .. Len(a) : a[i] \notin {"token"}
    <3>1. Len(a) = 7
      BY <1>3
    <3>2. 5 \in 1 .. 7 /\ \A i \in 5 + 1 .. 7 : i = 6 \/ i = 7
      OBVIOUS
    <3> QED BY <3>1, <3>2, <2>1
  <2> QED BY <2>1, <2>2 DEF Settles
<1>9. Settles(o \o c, Syncing, Unsyncing) /\ Settles(o \o c, {"no token"}, {"token"})
  BY <1>1, <1>4, <1>5, <1>6, ConcatSettles
<1>10. /\ a \o c \in Seq(Writes)
       /\ Settles(a \o c, Syncing, Unsyncing) /\ Settles(a \o c, {"no token"}, {"token"})
  BY <1>1, <1>4, <1>7, <1>8, ConcatSettles, ConcatProperties
<1>11. /\ Settles((a \o c) \o f, Syncing, Unsyncing)
       /\ Settles((a \o c) \o f, {"no token"}, {"token"})
  BY <1>1, <1>4, <1>10, ConcatSettles
<1> QED BY <1>9, <1>11 DEF o, a, f, c

-----------------------------------------------------------------------------
(* Step by step.                                                             *)
LEMMA WorksThen ==
  ASSUME NEW t \in Tasks, NEW s, todo'[t] = s, \A u \in Tasks \ {t} : todo'[u] = << >>,
         \/ Settles(s, Syncing, Unsyncing)
         \/ Avoids(s, Unsyncing) /\ SlotSynced'
         \/ g_mailbox'.slot_bitmap /\ Migrates(s, SlotSynced'),
         \/ Settles(s, {"no token"}, {"token"})
         \/ Avoids(s, {"token"}) /\ g_mailbox'.immobilizer_token = NoOne
         \/ Avoids(s, Hiders) /\ TokenShown'
  PROVE  Works(t)'
BY DEF Works, SlotFollows, TokenFollows, Settles, Avoids, Migrates

\* The programs of begin: nothing of theirs parts RAM from flash.
LEMMA BootMirrors ==
  /\ Avoids(<<"slots">>, Hiders) /\ Settles(<<"slots">>, Syncing, Unsyncing)
  /\ Avoids(RekeyWrites, Hiders) /\ Avoids(RekeyWrites, Unsyncing)
  /\ Avoids(<<"slots", "endpoint", "no legacy">>, Hiders)
  /\ Avoids(<<"no legacy">>, Unsyncing)
<1> DEFINE s == <<"slots">>
           r == RekeyWrites
           m == <<"slots", "endpoint", "no legacy">>
           l == <<"no legacy">>
<1>1. Len(s) = 1 /\ s[1] = "slots"
  OBVIOUS
<1>2. /\ Len(r) = 5 /\ r[1] = "wipe" /\ r[2] = "v_id" /\ r[3] = "v_pub" /\ r[4] = "v_priv"
      /\ r[5] = "bitmaps"
  BY DEF RekeyWrites
<1>7. /\ Len(m) = 3 /\ m[1] = "slots" /\ m[2] = "endpoint" /\ m[3] = "no legacy"
      /\ Len(l) = 1 /\ l[1] = "no legacy"
  OBVIOUS
<1> HIDE DEF s, r, m, l
<1>3. Avoids(s, Hiders)
  <2>1. s[1] \notin Hiders
    BY <1>1 DEF Hiders
  <2> QED BY <1>1, <2>1 DEF Avoids
<1>4. Settles(s, Syncing, Unsyncing)
  <2>1. s[1] \in Syncing
    BY <1>1 DEF Syncing
  <2>2. Len(s) = 1
    BY <1>1
  <2> QED BY <2>1, <2>2 DEF Settles
<1>5. ASSUME NEW ws, "wipe" \notin ws, "v_id" \notin ws, "v_pub" \notin ws,
             "v_priv" \notin ws, "bitmaps" \notin ws
      PROVE  Avoids(r, ws)
  <2>1. \A i \in 1 .. 5 : r[i] \notin ws
    <3>1. \A i \in 1 .. 5 : i = 1 \/ i = 2 \/ i = 3 \/ i = 4 \/ i = 5
      OBVIOUS
    <3>2. r[1] \notin ws /\ r[2] \notin ws /\ r[3] \notin ws /\ r[4] \notin ws /\ r[5] \notin ws
      BY <1>2, <1>5
    <3> QED BY <3>1, <3>2
  <2>2. Len(r) = 5
    BY <1>2
  <2> QED BY <2>1, <2>2 DEF Avoids
<1>6. Avoids(r, Hiders) /\ Avoids(r, Unsyncing)
  BY <1>5 DEF Hiders, Unsyncing
<1>8. Avoids(m, Hiders)
  <2>1. m[1] \notin Hiders /\ m[2] \notin Hiders /\ m[3] \notin Hiders
    BY <1>7 DEF Hiders
  <2> QED BY <1>7, <2>1, ThreeAvoid
<1>9. Avoids(l, Unsyncing)
  <2>1. Len(l) = 1 /\ l[1] \notin Unsyncing
    BY <1>7 DEF Unsyncing
  <2> QED BY <2>1 DEF Avoids
<1> QED BY <1>3, <1>4, <1>6, <1>8, <1>9 DEF s, r, m, l

LEMMA BootMirror ==
  ASSUME MailboxTypeInv, RecordInv, Overlap = FALSE, Boot \/ BeginAgain
  PROVE  MirrorInv'
<1> DEFINE rest == IF MissingRoot THEN RekeyWrites ELSE << >>
<1>0. todo \in [Tasks -> Seq(Writes)] /\ flash \in Flash
  BY DEF MailboxTypeInv, MailboxTypeOK
<1>1. /\ g_mailbox' = Loaded /\ power' \in {"booting", "again"} /\ flash' = flash
      /\ todo' = [todo EXCEPT !["boot"] = NormaliseWrites \o rest]
  BY DEF Boot, BeginAgain, Begin
<1>2. todo["nfc"] = << >> /\ todo["ble"] = << >>
  BY DEF Boot, BeginAgain, RecordInv, TurnInv, Tasks
<1>3. /\ todo'["boot"] = NormaliseWrites \o rest
      /\ \A u \in Tasks \ {"boot"} : todo'[u] = << >>
  BY <1>0, <1>1, <1>2 DEF Tasks
<1>4. Copied' /\ TokenShown'
  BY <1>1 DEF Copied, TokenShown, Loaded
<1>5. /\ rest \in {<< >>, RekeyWrites} /\ rest \in Seq(Writes)
      /\ Avoids(rest, Hiders) /\ Avoids(rest, Unsyncing)
  BY BootMirrors, EmptyProgram, ShortPrograms, ProgramTypes
<1> HIDE DEF rest
<1>6. ASSUME Works("boot")' PROVE MirrorInv'
  BY <1>1, <1>4, <1>6 DEF MirrorInv, CopiesInv, BareInv, Copied, Tasks
<1>7. CASE flash.ep_0 = NoOne /\ flash.ep_pub # NoOne
  <2> DEFINE m == <<"slots", "endpoint", "no legacy">>
  <2>1. NormaliseWrites = m /\ m \in Seq(Writes) /\ m \in Migration /\ Head(m) = "slots"
    BY <1>7, ShortPrograms, NormalisingHeads DEF NormaliseWrites, Migration
  <2>2. g_mailbox'.slot_bitmap
    BY <1>1, <1>7 DEF Loaded, OwnerLoaded
  <2>3. Avoids(m, Hiders)
    BY BootMirrors
  <2> HIDE DEF m
  <2>4. Avoids(m \o rest, Hiders) /\ Migrates(m \o rest, SlotSynced')
    BY <1>5, <2>1, <2>3, ConcatAvoids DEF Migrates
  <2>5. Works("boot")'
    BY <1>3, <1>4, <2>1, <2>2, <2>4, WorksThen DEF Tasks
  <2> QED BY <1>6, <2>5
<1>8. CASE /\ ~(flash.ep_0 = NoOne /\ flash.ep_pub # NoOne)
           /\ Loaded.slot_bitmap # flash.slot_bmp
  <2>1. NormaliseWrites = <<"slots">> /\ <<"slots">> \in Seq(Writes)
    BY <1>8, ShortPrograms DEF NormaliseWrites
  <2>2. /\ Settles(<<"slots">> \o rest, Syncing, Unsyncing)
        /\ Avoids(<<"slots">> \o rest, Hiders)
    BY <1>5, <2>1, BootMirrors, ConcatSettles, ConcatAvoids
  <2>3. Works("boot")'
    BY <1>3, <1>4, <2>1, <2>2, WorksThen DEF Tasks
  <2> QED BY <1>6, <2>3
<1>9. CASE /\ ~(flash.ep_0 = NoOne /\ flash.ep_pub # NoOne)
           /\ Loaded.slot_bitmap = flash.slot_bmp
  <2>1. NormaliseWrites = << >> /\ << >> \in Seq(Writes)
    BY <1>9, ShortPrograms DEF NormaliseWrites
  <2>2. Avoids(<< >> \o rest, Hiders) /\ Avoids(<< >> \o rest, Unsyncing)
    BY <1>5, <2>1, EmptyProgram, ConcatAvoids
  <2>3. SlotSynced'
    BY <1>1, <1>9 DEF SlotSynced
  <2>4. Works("boot")'
    BY <1>3, <1>4, <2>1, <2>2, <2>3, WorksThen DEF Tasks
  <2> QED BY <1>6, <2>4
<1> QED BY <1>7, <1>8, <1>9

\* A migration has something left to write.
LEMMA MigratesOn ==
  ASSUME NEW s, NEW synced, Migrates(s, synced)
  PROVE  \E p \in Migration, q \in {<< >>, RekeyWrites} :
           /\ p \in Seq(Writes) /\ p # << >> /\ q \in Seq(Writes)
           /\ s # << >> /\ Head(s) = Head(p) /\ Tail(s) = Tail(p) \o q
           /\ Head(p) = "slots" \/ synced
<1>1. PICK p \in Migration, q \in {<< >>, RekeyWrites} :
        s = p \o q /\ (Head(p) = "slots" \/ synced)
  BY DEF Migrates
<1>2. p \in Seq(Writes) /\ p # << >> /\ q \in Seq(Writes)
  <2>1. p \in Normalising /\ << >> \notin Migration
    BY DEF Normalising, Migration
  <2> QED BY <2>1, BootPrograms, ShortPrograms, ProgramTypes
<1>3. s # << >> /\ Head(s) = Head(p) /\ Tail(s) = Tail(p) \o q
  BY <1>1, <1>2, ConcatHead
<1> QED BY <1>1, <1>2, <1>3

\* Nothing under way: RAM and flash agree on the slot and the token shows.
LEMMA AtRestSynced ==
  ASSUME CopiesInv, power # "off", \A t \in Tasks : todo[t] = << >>
  PROVE  Copied /\ SlotSynced /\ TokenShown
<1>1. Copied
  BY DEF CopiesInv, Copied
<1>2. PICK t \in Tasks : Works(t)
  BY DEF CopiesInv
<1>3. todo[t] = << >>
  OBVIOUS
<1>4. ~Migrates(todo[t], SlotSynced)
  BY <1>3, MigratesOn
<1> QED BY <1>1, <1>2, <1>3, <1>4, NothingSettles
        DEF Works, SlotFollows, TokenFollows, TokenShown

LEMMA SyncedWorks ==
  ASSUME Copied', SlotSynced', TokenShown', \A t \in Tasks : todo'[t] = << >>
  PROVE  CopiesInv'
<1>1. Works("boot")'
  BY EmptyProgram, WorksThen DEF Tasks
<1> QED BY <1>1 DEF CopiesInv, Copied, Tasks

LEMMA BootDoneMirror ==
  ASSUME RecordInv, MirrorInv, BootDone
  PROVE  MirrorInv'
<1>1. /\ power \in {"booting", "again"} /\ todo["boot"] = << >> /\ power' = "on"
      /\ UNCHANGED <<flash, g_mailbox, todo>>
  BY DEF BootDone
<1>2. ~MissingRoot /\ SameKeys
  BY <1>1, BootDoneShape DEF RecordInv
<1>3. \A t \in Tasks : todo[t] = << >>
  BY <1>1 DEF RecordInv, TurnInv, Tasks
<1>4. Copied /\ SlotSynced /\ TokenShown
  BY <1>1, <1>3, AtRestSynced DEF MirrorInv
<1>5. CopiesInv'
  BY <1>1, <1>3, <1>4, SyncedWorks DEF Copied, SlotSynced, TokenShown
<1>6. BareInv'
  BY <1>1, <1>2 DEF BareInv, MissingRoot, SameKeys
<1> QED BY <1>5, <1>6 DEF MirrorInv

LEMMA KeypairFailsMirror ==
  ASSUME MailboxTypeInv, RecordInv, KeypairFails
  PROVE  MirrorInv'
<1>0. todo \in [Tasks -> Seq(Writes)] /\ identities \in Nat
  BY DEF MailboxTypeInv, MailboxTypeOK
<1>1. /\ todo["boot"] # << >> /\ todo' = [todo EXCEPT !["boot"] = << >>]
      /\ flash' = EmptyFlash /\ g_mailbox' = [EmptyMirror EXCEPT !.v_id = identities']
  BY DEF KeypairFails, Set, GenerateVehicleId
<1>2. todo["nfc"] = << >> /\ todo["ble"] = << >>
  BY <1>1 DEF RecordInv, TurnInv
<1>3. \A t \in Tasks : todo'[t] = << >>
  BY <1>0, <1>1, <1>2 DEF Tasks
<1>4. Copied' /\ SlotSynced' /\ TokenShown'
  BY <1>1 DEF Copied, SlotSynced, TokenShown, EmptyFlash, EmptyMirror
<1>5. CopiesInv'
  BY <1>3, <1>4, SyncedWorks
<1>6. BareInv'
  BY <1>0, KeypairFailsEffect DEF BareInv
<1> QED BY <1>5, <1>6 DEF MirrorInv

\* An operation begins.
LEMMA OperationMirror ==
  ASSUME MailboxTypeInv, RecordInv, MirrorInv, Overlap = FALSE,
         NEW t \in {"nfc", "ble"}, MayStart(t), NEW s, todo' = [todo EXCEPT ![t] = s],
         Settles(s, Syncing, Unsyncing),
         Settles(s, {"no token"}, {"token"}) \/ Avoids(s, Hiders),
         UNCHANGED <<flash, g_mailbox, power>>
  PROVE  MirrorInv'
<1>0. todo \in [Tasks -> Seq(Writes)] /\ t \in Tasks
  BY DEF MailboxTypeInv, MailboxTypeOK, Tasks
<1>1. (\A u \in Tasks : todo[u] = << >>) /\ power # "off"
  BY Alone DEF Tasks
<1>2. Copied /\ TokenShown
  BY <1>1, AtRestSynced DEF MirrorInv
<1>3. Copied' /\ TokenShown'
  BY <1>2 DEF Copied, TokenShown
<1>4. todo'[t] = s /\ \A u \in Tasks \ {t} : todo'[u] = << >>
  BY <1>0, <1>1
<1>5. Works(t)'
  BY <1>0, <1>3, <1>4, WorksThen
<1>6. CopiesInv'
  BY <1>0, <1>3, <1>5 DEF CopiesInv, Copied
<1>7. BareInv'
  BY DEF MirrorInv, BareInv, MissingRoot, SameKeys
<1> QED BY <1>6, <1>7 DEF MirrorInv

LEMMA EnrolBeginsMirror ==
  ASSUME MailboxTypeInv, RecordInv, MirrorInv, Overlap = FALSE, NEW o \in Owners,
         NEW force \in BOOLEAN, NEW cert \in BOOLEAN, NEW artifact \in BOOLEAN,
         SetOwnerProvisioned(o, force, cert, artifact)
  PROVE  MirrorInv'
<1> DEFINE program == EnrolWrites(force)
                        \o (IF cert THEN StoreCertChain ELSE << >>)
                        \o (IF artifact THEN StoreFastArtifact ELSE << >>)
                        \o (IF force THEN <<"no force", "no oneshot">> ELSE << >>)
<1>1. /\ MayStart("nfc") /\ todo' = [todo EXCEPT !["nfc"] = program]
      /\ UNCHANGED <<flash, g_mailbox, power>>
  BY DEF SetOwnerProvisioned
<1>2. Settles(program, Syncing, Unsyncing) /\ Avoids(program, Hiders)
  BY EnrolMirror
<1> HIDE DEF program
<1> QED BY <1>1, <1>2, OperationMirror

LEMMA ClearBeginsMirror ==
  ASSUME MailboxTypeInv, RecordInv, MirrorInv, Overlap = FALSE,
         ClearProvisionedOnly("nfc") \/ ClearProvisionedOnly("ble") \/ ClearAll
  PROVE  MirrorInv'
<1> DEFINE only == <<"no endpoint", "no legacy", "slots", "no token", "slots", "inactive",
                     "signal", "no cert">> \o ClearFastArtifact
           all == <<"no endpoint", "no legacy", "slots", "no mailbox", "no token", "slots",
                    "no cert">> \o ClearFastArtifact \o <<"no force", "no oneshot">>
<1>1. /\ Settles(only, Syncing, Unsyncing) /\ Settles(only, {"no token"}, {"token"})
      /\ Settles(all, Syncing, Unsyncing) /\ Settles(all, {"no token"}, {"token"})
  BY ClearMirror
<1>2. ASSUME NEW t \in {"nfc", "ble"}, ClearProvisionedOnly(t) PROVE MirrorInv'
  <2>1. /\ MayStart(t) /\ todo' = [todo EXCEPT ![t] = only]
        /\ UNCHANGED <<flash, g_mailbox, power>>
    BY <1>2 DEF ClearProvisionedOnly
  <2> HIDE DEF only, all
  <2> QED BY <1>1, <2>1, OperationMirror
<1>3. CASE ClearAll
  <2>1. /\ MayStart("ble") /\ todo' = [todo EXCEPT !["ble"] = all]
        /\ UNCHANGED <<flash, g_mailbox, power>>
    BY <1>3 DEF ClearAll
  <2> HIDE DEF only, all
  <2> QED BY <1>1, <2>1, OperationMirror
<1> QED BY <1>2, <1>3

\* Nothing MirrorInv speaks of changes.
LEMMA SameMirror ==
  ASSUME MirrorInv, UNCHANGED <<g_mailbox, todo, power>>,
         flash'.tok_0 = flash.tok_0, flash'.sig_bmp = flash.sig_bmp,
         flash'.slot_bmp = flash.slot_bmp, flash'.v_id = flash.v_id,
         flash'.v_pub = flash.v_pub, flash'.v_priv = flash.v_priv
  PROVE  MirrorInv'
<1>1. CopiesInv'
  <2>1. CASE power # "off"
    <3>1. PICK t \in Tasks : Works(t)
      BY <2>1 DEF MirrorInv, CopiesInv
    <3>2. (SlotSynced' <=> SlotSynced) /\ (TokenShown' <=> TokenShown)
      BY DEF SlotSynced, TokenShown
    <3>3. SlotFollows(todo[t])' /\ TokenFollows(todo[t])'
      BY <3>1, <3>2 DEF Works, SlotFollows, TokenFollows, Migrates, Settles, Avoids
    <3>4. Works(t)'
      BY <3>1, <3>3 DEF Works
    <3> QED BY <2>1, <3>4 DEF MirrorInv, CopiesInv
  <2> QED BY <2>1 DEF CopiesInv
<1>2. MissingRoot' <=> MissingRoot
  BY DEF MissingRoot, ValidateVehicleKeypair
<1>3. BareInv'
  BY <1>2 DEF MirrorInv, BareInv, SameKeys
<1> QED BY <1>1, <1>3 DEF MirrorInv

LEMMA FlagsMirror ==
  ASSUME MailboxTypeInv, MirrorInv,
         ToggleForceProvision \/ SetPersistentForce
           \/ ArmOneShotForce("nfc") \/ ArmOneShotForce("ble")
  PROVE  MirrorInv'
<1>1. flash \in Flash
  BY DEF MailboxTypeInv, MailboxTypeOK
<1>2. UNCHANGED <<g_mailbox, todo, power>>
  BY DEF ToggleForceProvision, SetPersistentForce, ArmOneShotForce
<1>3. /\ flash'.tok_0 = flash.tok_0 /\ flash'.sig_bmp = flash.sig_bmp
      /\ flash'.slot_bmp = flash.slot_bmp /\ flash'.v_id = flash.v_id
      /\ flash'.v_pub = flash.v_pub /\ flash'.v_priv = flash.v_priv
  BY <1>1 DEF ToggleForceProvision, SetPersistentForce, ArmOneShotForce, Flash
<1> QED BY <1>2, <1>3, SameMirror

\* A write of a clear or an enrolment is none of the vehicle's keys.
LEMMA TaskWriteKeys ==
  ASSUME MailboxTypeInv, RecordInv, NEW t \in {"nfc", "ble"}, Write(t)
  PROVE  KeysKept
<1> DEFINE w == Head(todo[t])
<1>0. /\ MailboxTypeOK /\ flash \in Flash /\ g_mailbox \in Mirror /\ commit \in Someone
      /\ t \in Tasks /\ todo[t] \in Seq(Writes)
  BY DEF MailboxTypeInv, MailboxTypeOK, Tasks
<1>1. /\ todo[t] # << >>
      /\ \/ w = "endpoint" /\ StoreEndpoint(t)
         \/ w = "wipe" /\ NewIdentity
         \/ w \in RamWrites /\ RamAndFlash(w)
         \/ w \in Plain /\ FlashOnly(w)
  BY <1>0, WriteParts
<1>2. Avoids(todo[t], NotInClear) \/ Avoids(todo[t], NotInEnrolment)
  BY <1>1 DEF RecordInv, TasksInv, Clearing, Enrolling
<1>3. w \notin NotInClear \/ w \notin NotInEnrolment
  BY <1>0, <1>1, <1>2, TailAvoids
<1>4. w # "wipe" /\ w \notin KeyWrites
  BY <1>3 DEF NotInClear, NotInEnrolment
<1> HIDE DEF w
<1>5. CASE w = "endpoint" /\ StoreEndpoint(t)
  BY <1>0, <1>5, EndpointEffect
<1>6. CASE w \in RamWrites /\ RamAndFlash(w)
  BY <1>0, <1>6, RamEffect
<1>7. CASE w \in Plain /\ FlashOnly(w)
  BY <1>0, <1>4, <1>7, PlainEffect DEF KeysKept, KeyWrites
<1> QED BY <1>1, <1>4, <1>5, <1>6, <1>7

LEMMA WriteMirror ==
  ASSUME MailboxTypeInv, RecordInv, MirrorInv, NEW t \in Tasks, Write(t)
  PROVE  MirrorInv'
<1> DEFINE s == todo[t]
           w == Head(s)
           r == Tail(s)
<1>0. /\ MailboxTypeOK /\ flash \in Flash /\ g_mailbox \in Mirror
      /\ todo \in [Tasks -> Seq(Writes)] /\ s \in Seq(Writes)
  BY DEF MailboxTypeInv, MailboxTypeOK
<1>1. /\ s # << >> /\ r \in Seq(Writes) /\ power' = power
      /\ todo' = [todo EXCEPT ![t] = r]
      /\ \/ w = "endpoint" /\ StoreEndpoint(t)
         \/ w = "wipe" /\ NewIdentity
         \/ w \in RamWrites /\ RamAndFlash(w)
         \/ w \in Plain /\ FlashOnly(w)
  BY <1>0, WriteParts
<1>2. power # "off" /\ Copied
  <2>1. power # "off"
    BY <1>1 DEF RecordInv, TurnInv, Tasks
  <2> QED BY <2>1 DEF MirrorInv, CopiesInv, Copied
<1>3. Works(t)
  <2>1. PICK u \in Tasks : Works(u)
    BY <1>2 DEF MirrorInv, CopiesInv
  <2>2. u = t
    BY <1>1, <2>1 DEF Works
  <2> QED BY <2>1, <2>2
<1>4. todo'[t] = r /\ \A u \in Tasks \ {t} : todo'[u] = << >>
  BY <1>0, <1>1, <1>3 DEF Works
<1>5. SlotFollows(s) /\ TokenFollows(s)
  BY <1>3 DEF Works
<1> HIDE DEF s, w, r
<1>6. Copies(w)
  BY <1>0, <1>1, <1>2, WriteCopies
<1>7. \/ Settles(r, Syncing, Unsyncing)
      \/ Avoids(r, Unsyncing) /\ SlotSynced'
      \/ g_mailbox'.slot_bitmap /\ Migrates(r, SlotSynced')
  <2>1. CASE Settles(s, Syncing, Unsyncing)
    BY <1>0, <1>1, <1>6, <2>1, TailSettles DEF Copies, w, r
  <2>2. CASE Avoids(s, Unsyncing) /\ SlotSynced
    BY <1>0, <1>1, <1>6, <2>2, TailAvoids DEF Copies, w, r
  <2>3. CASE g_mailbox.slot_bitmap /\ Migrates(s, SlotSynced)
    <3>1. PICK p \in Migration, q \in {<< >>, RekeyWrites} :
            /\ p \in Seq(Writes) /\ p # << >> /\ q \in Seq(Writes)
            /\ s # << >> /\ w = Head(p) /\ r = Tail(p) \o q
            /\ Head(p) = "slots" \/ SlotSynced
      BY <2>3, MigratesOn DEF w, r
    <3>2. CASE p = <<"slots", "endpoint", "no legacy">>
      <4>1. w = "slots" /\ r = <<"endpoint", "no legacy">> \o q
        BY <3>1, <3>2, NormalisingHeads
      <4>2. SlotSynced'
        BY <1>6, <4>1 DEF Copies, Syncing
      <4>3. g_mailbox' = g_mailbox
        BY <1>1, <4>1, BootWriteKinds DEF FlashOnly, Plain
      <4>4. Migrates(r, SlotSynced')
        BY <4>1, <4>2 DEF Migrates, Migration
      <4> QED BY <2>3, <4>3, <4>4
    <3>3. CASE p = <<"endpoint", "no legacy">>
      <4>1. w = "endpoint" /\ r = <<"no legacy">> \o q
        BY <3>1, <3>3, NormalisingHeads
      <4>2. SlotSynced
        BY <3>1, <4>1
      <4>3. StoreEndpoint(t)
        BY <1>1, <4>1, BootWriteKinds
      <4>4. SlotSynced'
        BY <1>0, <2>3, <4>2, <4>3 DEF StoreEndpoint, Set, SlotSynced, Flash, Mirror
      <4>5. Avoids(r, Unsyncing)
        <5>1. <<"no legacy">> \in Seq(Writes)
          BY BootPrograms DEF Normalising
        <5>2. Avoids(<<"no legacy">>, Unsyncing) /\ Avoids(q, Unsyncing)
          BY BootMirrors, EmptyProgram
        <5> QED BY <3>1, <4>1, <5>1, <5>2, ConcatAvoids
      <4> QED BY <4>4, <4>5
    <3> QED BY <3>2, <3>3 DEF Migration
  <2> QED BY <1>5, <2>1, <2>2, <2>3 DEF SlotFollows
<1>8. \/ Settles(r, {"no token"}, {"token"})
      \/ Avoids(r, {"token"}) /\ g_mailbox'.immobilizer_token = NoOne
      \/ Avoids(r, Hiders) /\ TokenShown'
  <2>1. CASE Settles(s, {"no token"}, {"token"})
    <3>1. Settles(r, {"no token"}, {"token"})
            \/ (w \in {"no token"} /\ Avoids(r, {"token"}))
      BY <1>0, <1>1, <2>1, TailSettles DEF w, r
    <3> QED BY <1>6, <3>1 DEF Copies
  <2>2. CASE Avoids(s, {"token"}) /\ g_mailbox.immobilizer_token = NoOne
    <3>1. w \notin {"token"} /\ Avoids(r, {"token"})
      BY <1>0, <1>1, <2>2, TailAvoids DEF w, r
    <3> QED BY <1>6, <2>2, <3>1 DEF Copies
  <2>3. CASE Avoids(s, Hiders) /\ TokenShown
    <3>1. w \notin Hiders /\ Avoids(r, Hiders)
      BY <1>0, <1>1, <2>3, TailAvoids DEF w, r
    <3> QED BY <1>6, <2>3, <3>1 DEF Copies
  <2> QED BY <1>5, <2>1, <2>2, <2>3 DEF TokenFollows
<1>9. CopiesInv'
  <2>1. Works(t)'
    BY <1>4, <1>7, <1>8, WorksThen
  <2> QED BY <1>6, <2>1 DEF CopiesInv, Copies, Copied
<1>10. BareInv'
  <2>1. CASE t = "boot"
    <3>1. power' \in {"booting", "again"}
      BY <1>1, <2>1 DEF RecordInv, TurnInv, s
    <3> QED BY <3>1 DEF BareInv
  <2>2. CASE t \in {"nfc", "ble"}
    <3>1. KeysKept
      BY <2>2, TaskWriteKeys
    <3>2. MissingRoot' <=> MissingRoot
      BY <3>1 DEF KeysKept, MissingRoot, ValidateVehicleKeypair
    <3> QED BY <1>1, <3>1, <3>2 DEF MirrorInv, BareInv, KeysKept, SameKeys
  <2> QED BY <2>1, <2>2 DEF Tasks
<1> QED BY <1>9, <1>10 DEF MirrorInv

LEMMA StepMirror ==
  ASSUME MailboxTypeInv, RecordInv, MirrorInv, Overlap = FALSE, [MailboxNext]_mailboxVars
  PROVE  MirrorInv'
<1>1. CASE Boot \/ BeginAgain
  BY <1>1, BootMirror
<1>2. CASE BootDone
  BY <1>2, BootDoneMirror
<1>3. CASE PowerFails
  BY <1>3 DEF PowerFails, MirrorInv, CopiesInv, BareInv
<1>4. CASE KeypairFails
  BY <1>4, KeypairFailsMirror
<1>5. ASSUME NEW o \in Owners, NEW force \in BOOLEAN, NEW cert \in BOOLEAN,
             NEW artifact \in BOOLEAN, SetOwnerProvisioned(o, force, cert, artifact)
      PROVE  MirrorInv'
  BY <1>5, EnrolBeginsMirror
<1>6. CASE ClearProvisionedOnly("nfc") \/ ClearProvisionedOnly("ble") \/ ClearAll
  BY <1>6, ClearBeginsMirror
<1>7. CASE ToggleForceProvision \/ SetPersistentForce
             \/ ArmOneShotForce("nfc") \/ ArmOneShotForce("ble")
  BY <1>7, FlagsMirror
<1>8. ASSUME NEW t \in Tasks, Write(t) PROVE MirrorInv'
  BY <1>8, WriteMirror
<1>9. CASE BeginEnrolment \/ EnrolmentFails \/ UNCHANGED mailboxVars
  BY <1>9, SessionSteps, SameMirror DEF SessionOnly
<1> QED BY <1>1, <1>2, <1>3, <1>4, <1>5, <1>6, <1>7, <1>8, <1>9
        DEF MailboxNext, SerialCommands, AdminCommands

LEMMA MirrorShows ==
  ASSUME MailboxTypeInv, RecordInv, MirrorInv PROVE RebootChangesNothing
<1> SUFFICES ASSUME AtRest
             PROVE  \/ g_mailbox = Loaded
                    \/ ~HasVehiclePub /\ [g_mailbox EXCEPT !.v_id = 0] = Loaded
  BY DEF RebootChangesNothing
<1>1. g_mailbox \in Mirror /\ flash \in Flash /\ Loaded \in Mirror
  BY LoadedType DEF MailboxTypeInv, MailboxTypeOK
<1>2. power = "on" /\ \A t \in Tasks : todo[t] = << >>
  BY DEF AtRest
<1>3. Copied /\ SlotSynced /\ TokenShown
  BY <1>2, AtRestSynced DEF MirrorInv
<1>4. g_mailbox.endpoint_pub = flash.ep_0 /\ OwnerLoaded = flash.ep_0 /\ Shown
  BY <1>2 DEF RecordInv, OwnerInv, Erasing, Moved, OwnerLoaded, Tasks
<1>5. /\ Loaded.endpoint_pub = g_mailbox.endpoint_pub
      /\ Loaded.immobilizer_token = g_mailbox.immobilizer_token
      /\ Loaded.slot_bitmap = g_mailbox.slot_bitmap
      /\ Loaded.signaling_bitmap = g_mailbox.signaling_bitmap
  BY <1>1, <1>3, <1>4
     DEF Loaded, Copied, SlotSynced, TokenShown, Shown, Flash, Mirror
<1>6. /\ Loaded.v_id = flash.v_id /\ Loaded.v_pub = flash.v_pub
      /\ Loaded.v_priv = flash.v_priv
  BY DEF Loaded
<1>7. CASE SameKeys
  BY <1>1, <1>5, <1>6, <1>7 DEF SameKeys, Mirror
<1>8. CASE /\ flash.v_id = 0 /\ flash.v_pub = 0 /\ flash.v_priv = 0
           /\ g_mailbox.v_pub = 0 /\ g_mailbox.v_priv = 0
  BY <1>1, <1>5, <1>6, <1>8 DEF HasVehiclePub, Mirror
<1> QED BY <1>2, <1>7, <1>8 DEF MirrorInv, BareInv

(* Between operations the tasks see what they would see after a reboot, the  *)
(* id of a vehicle that could not make its keys aside: no clear, enrolment,  *)
(* boot, migration or power failure leaves RAM and flash apart.  One task at *)
(* a time.                                                                   *)
THEOREM RebootIsInvisible ==
  ASSUME Overlap = FALSE
  PROVE  MailboxSpec => []RebootChangesNothing
<1>1. MailboxInit => MailboxTypeInv /\ RecordInv /\ MirrorInv
  BY InitType, InitRecord DEF MailboxInit, MirrorInv, CopiesInv, BareInv
<1>2. MailboxTypeInv /\ RecordInv /\ MirrorInv /\ [MailboxNext]_mailboxVars
        => (MailboxTypeInv /\ RecordInv /\ MirrorInv)'
  BY StepType, StepRecord, StepMirror
<1>3. MailboxTypeInv /\ RecordInv /\ MirrorInv => RebootChangesNothing
  BY MirrorShows
<1> QED BY <1>1, <1>2, <1>3, PTL DEF MailboxSpec

-----------------------------------------------------------------------------
(* The token.  As long as power has not failed, whose token the slot holds   *)
(* follows from what the operation under way has left to write.  Legacy      *)
(* flash included: the owner it holds was enrolled by no operation of ours.  *)
OwnerShown == g_mailbox.endpoint_pub # NoOne => g_mailbox.slot_bitmap

\* Between operations.
TokenFits ==
  /\ OwnerShown
  /\ g_mailbox.endpoint_pub = NoOne => g_mailbox.immobilizer_token = NoOne
  /\ commit # NoOne /\ g_mailbox.endpoint_pub = commit
       => g_mailbox.immobilizer_token = commit

\* A clear leaves neither owner nor token.
Emptying(s) ==
  /\ \/ Settles(s, {"no endpoint"}, {"endpoint"})
     \/ Avoids(s, {"endpoint"}) /\ g_mailbox.endpoint_pub = NoOne
  /\ \/ Settles(s, {"no token"}, {"token"})
     \/ Avoids(s, {"token"}) /\ g_mailbox.immobilizer_token = NoOne

\* ensureToken makes the new owner's only if the last one's is gone by then.
TokenComes(s) ==
  \/ /\ Settles(s, {"token"}, {"no token"})
     /\ g_mailbox.immobilizer_token \in {NoOne, commit} \/ Settles(s, {"no token"}, {})
  \/ Avoids(s, {"no token"}) /\ g_mailbox.immobilizer_token = commit

Filling(s) ==
  /\ commit # NoOne /\ Avoids(s, {"wipe"})
  /\ \/ Settles(s, {"endpoint"}, {"no endpoint"})
     \/ Avoids(s, {"no endpoint"}) /\ g_mailbox.endpoint_pub = commit
  /\ SetsActive(s) \/ (Avoids(s, Spoilers) /\ g_mailbox.slot_bitmap)
  /\ TokenComes(s)

Only(t) == \A u \in Tasks \ {t} : todo[u] = << >>
Idle == \A t \in Tasks : todo[t] = << >>

\* Until set-up is over there is neither an enrolment nor a token.
NoTokenYet ==
  /\ commit = NoOne /\ flash.tok_0 = NoOne /\ g_mailbox.immobilizer_token = NoOne
  /\ \A t \in Tasks : Avoids(todo[t], {"token"})
  /\ OwnerShown
  /\ power = "off" => Idle
  /\ power \in {"booting", "again"} => Only("boot") /\ Avoids(todo["boot"], Spoilers)
  /\ power = "starting" =>
       /\ Only("ble") /\ Avoids(todo["ble"], {"endpoint"})
       /\ g_mailbox.endpoint_pub = NoOne

TokenFollowsWork ==
  \/ Idle /\ TokenFits
  \/ \E t \in {"nfc", "ble"} : Only(t) /\ Emptying(todo[t])
  \/ Only("nfc") /\ Filling(todo["nfc"])

TokenInv == crashes = 0 => IF power = "on" THEN TokenFollowsWork ELSE NoTokenYet

\* What a write does to the owner, the slot's bit and the token in RAM.
TokenMoves(w) ==
  /\ w = "no endpoint" => g_mailbox'.endpoint_pub = NoOne
  /\ w = "endpoint" => g_mailbox'.slot_bitmap
  /\ w = "wipe" => g_mailbox'.endpoint_pub = NoOne
  /\ w # "endpoint" /\ g_mailbox.endpoint_pub = NoOne
       => g_mailbox'.endpoint_pub = NoOne
  /\ w \notin {"endpoint", "wipe", "no endpoint"}
       => g_mailbox'.endpoint_pub = g_mailbox.endpoint_pub
  /\ w = "active" => g_mailbox'.slot_bitmap
  /\ w \notin Spoilers \cup {"wipe"} /\ g_mailbox.slot_bitmap => g_mailbox'.slot_bitmap
  /\ w = "no token" => g_mailbox'.immobilizer_token = NoOne
  /\ w = "token" /\ g_mailbox.immobilizer_token \in {NoOne, commit}
       => g_mailbox'.immobilizer_token = commit
  /\ w # "token" /\ g_mailbox.immobilizer_token = NoOne
       => g_mailbox'.immobilizer_token = NoOne
  /\ w \notin {"token", "no token", "wipe"}
       => g_mailbox'.immobilizer_token = g_mailbox.immobilizer_token
  /\ w # "token" /\ flash.tok_0 = NoOne => flash'.tok_0 = NoOne

LEMMA RamToken ==
  ASSUME flash \in Flash, g_mailbox \in Mirror, NEW w \in RamWrites, RamAndFlash(w)
  PROVE  /\ w = "no token" => g_mailbox'.immobilizer_token = NoOne
         /\ w = "token" /\ g_mailbox.immobilizer_token \in {NoOne, commit}
              => g_mailbox'.immobilizer_token = commit
         /\ w \notin {"token", "no token"} =>
              /\ g_mailbox'.immobilizer_token = g_mailbox.immobilizer_token
              /\ flash'.tok_0 = flash.tok_0
         /\ w = "no token" => flash'.tok_0 = NoOne
<1> USE DEF Set, Flash, Mirror
<1>1. CASE w = "no endpoint"
  <2>1. /\ g_mailbox' = [g_mailbox EXCEPT !.endpoint_pub = NoOne, !.slot_bitmap = FALSE]
        /\ flash' = [flash EXCEPT !.ep_0 = NoOne]
    BY <1>1 DEF RamAndFlash
  <2> QED BY <1>1, <2>1
<1>2. CASE w = "no token"
  <2>1. /\ g_mailbox' = [g_mailbox EXCEPT !.immobilizer_token = NoOne, !.slot_bitmap = FALSE]
        /\ flash' = [flash EXCEPT !.tok_0 = NoOne]
    BY <1>2 DEF RamAndFlash
  <2> QED BY <1>2, <2>1
<1>3. CASE w = "token"
  <2>1. EnsureToken
    BY <1>3 DEF RamAndFlash
  <2>2. CASE HasToken
    BY <1>3, <2>1, <2>2 DEF EnsureToken, HasToken
  <2>3. CASE ~HasToken
    <3>1. g_mailbox' = [g_mailbox EXCEPT !.immobilizer_token = commit, !.slot_bitmap = TRUE]
      BY <2>1, <2>3 DEF EnsureToken
    <3> QED BY <1>3, <3>1
  <2> QED BY <2>2, <2>3
<1>4. CASE w = "active"
  <2>1. /\ g_mailbox' = [g_mailbox EXCEPT !.slot_bitmap = TRUE]
        /\ flash' = [flash EXCEPT !.slot_bmp = TRUE]
    BY <1>4 DEF RamAndFlash
  <2> QED BY <1>4, <2>1
<1>5. CASE w = "inactive"
  <2>1. /\ g_mailbox' = [g_mailbox EXCEPT !.slot_bitmap = FALSE]
        /\ flash' = [flash EXCEPT !.slot_bmp = FALSE]
    BY <1>5 DEF RamAndFlash
  <2> QED BY <1>5, <2>1
<1>6. CASE w = "signal"
  <2>1. /\ g_mailbox' = [g_mailbox EXCEPT !.signaling_bitmap = TRUE]
        /\ flash' = [flash EXCEPT !.sig_bmp = TRUE]
    BY <1>6 DEF RamAndFlash
  <2> QED BY <1>6, <2>1
<1>7. CASE w = "no mailbox"
  <2>1. /\ g_mailbox' = [g_mailbox EXCEPT !.signaling_bitmap = FALSE, !.slot_bitmap = FALSE]
        /\ flash' = [flash EXCEPT !.sig_bmp = FALSE, !.slot_bmp = FALSE]
    BY <1>7 DEF RamAndFlash
  <2> QED BY <1>7, <2>1
<1> QED BY <1>1, <1>2, <1>3, <1>4, <1>5, <1>6, <1>7 DEF RamWrites

LEMMA WriteMoves ==
  ASSUME MailboxTypeInv, NEW t \in Tasks, NEW w \in Writes,
         \/ w = "endpoint" /\ StoreEndpoint(t)
         \/ w = "wipe" /\ NewIdentity
         \/ w \in RamWrites /\ RamAndFlash(w)
         \/ w \in Plain /\ FlashOnly(w)
  PROVE  TokenMoves(w)
<1>0. flash \in Flash /\ g_mailbox \in Mirror /\ commit \in Someone /\ identities \in Nat
  BY DEF MailboxTypeInv, MailboxTypeOK
<1>1. CASE w = "endpoint" /\ StoreEndpoint(t)
  <2>1. /\ g_mailbox'.slot_bitmap /\ flash'.tok_0 = flash.tok_0
        /\ g_mailbox'.immobilizer_token = g_mailbox.immobilizer_token
    BY <1>0, <1>1 DEF StoreEndpoint, Set, Flash, Mirror
  <2> QED BY <1>1, <2>1 DEF TokenMoves
<1>2. CASE w = "wipe" /\ NewIdentity
  <2>1. /\ g_mailbox'.immobilizer_token = NoOne /\ flash'.tok_0 = NoOne
        /\ g_mailbox'.endpoint_pub = NoOne
    BY <1>2 DEF NewIdentity, Set, EmptyMirror, EmptyFlash
  <2> QED BY <1>2, <2>1 DEF TokenMoves
<1>3. CASE w \in RamWrites /\ RamAndFlash(w)
  <2>1. /\ IF w = "no endpoint" THEN g_mailbox'.endpoint_pub = NoOne
           ELSE g_mailbox'.endpoint_pub = g_mailbox.endpoint_pub
        /\ w \notin Spoilers /\ g_mailbox.slot_bitmap => g_mailbox'.slot_bitmap
        /\ w = "active" => g_mailbox'.slot_bitmap
    BY <1>0, <1>3, RamEffect DEF OwnerKept
  <2>2. w \notin {"wipe", "endpoint"}
    BY <1>3 DEF RamWrites
  <2> QED BY <1>0, <1>3, <2>1, <2>2, RamToken DEF TokenMoves
<1>4. CASE w \in Plain /\ FlashOnly(w)
  <2>1. g_mailbox' = g_mailbox /\ flash'.tok_0 = flash.tok_0
    BY <1>0, <1>4, PlainCopies
  <2>2. w \notin {"no endpoint", "active", "token", "no token", "endpoint", "wipe"}
    BY <1>4 DEF Plain, RamWrites
  <2> QED BY <2>1, <2>2 DEF TokenMoves
<1> QED BY <1>1, <1>2, <1>3, <1>4

-----------------------------------------------------------------------------
(* The programs of a clear and of an enrolment, for the token.               *)
LEMMA ClearEmpties ==
  LET only == <<"no endpoint", "no legacy", "slots", "no token", "slots", "inactive",
                "signal", "no cert">> \o ClearFastArtifact
      all == <<"no endpoint", "no legacy", "slots", "no mailbox", "no token", "slots",
               "no cert">> \o ClearFastArtifact \o <<"no force", "no oneshot">>
  IN  /\ Settles(only, {"no endpoint"}, {"endpoint"}) /\ Avoids(only, {"endpoint", "token"})
      /\ Settles(all, {"no endpoint"}, {"endpoint"}) /\ Avoids(all, {"endpoint", "token"})
<1> DEFINE only == <<"no endpoint", "no legacy", "slots", "no token", "slots", "inactive",
                     "signal", "no cert">> \o ClearFastArtifact
           all == <<"no endpoint", "no legacy", "slots", "no mailbox", "no token", "slots",
                    "no cert">> \o ClearFastArtifact \o <<"no force", "no oneshot">>
<1>1. /\ only[1] = "no endpoint" /\ Avoids(only, NotInClear)
      /\ all[1] = "no endpoint" /\ Avoids(all, NotInClear)
      /\ Settles(only, {"no token"}, {"token"}) /\ Settles(all, {"no token"}, {"token"})
  BY ClearPrograms, ClearMirror
<1>2. only \in Seq(Writes) /\ all \in Seq(Writes)
  BY ClearTypes
<1> HIDE DEF only, all
<1>3. ASSUME NEW s \in Seq(Writes), s[1] = "no endpoint", Avoids(s, NotInClear),
             Settles(s, {"no token"}, {"token"})
      PROVE  Settles(s, {"no endpoint"}, {"endpoint"}) /\ Avoids(s, {"endpoint", "token"})
  <2>1. Avoids(s, {"endpoint", "token"})
    <3>1. {"endpoint", "token"} \subseteq NotInClear
      BY DEF NotInClear
    <3> QED BY <1>3, <3>1, AvoidsLess
  <2>2. Len(s) \in Nat /\ 1 \in 1 .. Len(s)
    <3>1. PICK k \in 1 .. Len(s) : s[k] \in {"no token"}
      BY <1>3 DEF Settles
    <3>2. Len(s) \in Nat
      BY LenProperties
    <3>3. \A n \in Nat : \A j \in 1 .. n : 1 \in 1 .. n
      OBVIOUS
    <3> QED BY <3>1, <3>2, <3>3
  <2>3. \A i \in 1 + 1 .. Len(s) : s[i] \notin {"endpoint"}
    BY <2>1, <2>2 DEF Avoids
  <2>4. s[1] \in {"no endpoint"}
    BY <1>3
  <2> QED BY <2>1, <2>2, <2>3, <2>4 DEF Settles
<1> QED BY <1>1, <1>2, <1>3 DEF only, all

LEMMA EnrolWritesFill ==
  ASSUME NEW force \in BOOLEAN
  PROVE  LET e == EnrolWrites(force)
         IN  /\ Settles(e, {"endpoint"}, {"no endpoint"})
             /\ SetsActive(e)
             /\ Settles(e, {"token"}, {"no token"})
             /\ force => Settles(e, {"no token"}, {})
<1> DEFINE first == <<"endpoint", "slots", "no legacy">>
           anew == <<"no token", "slots">>
           fresh == IF force THEN anew ELSE << >>
           last == <<"active", "token", "signal">>
<1>1. first \in Seq(Writes) /\ anew \in Seq(Writes) /\ last \in Seq(Writes)
      /\ fresh \in Seq(Writes)
  BY ShortPrograms
<1>2. Len(first) = 3 /\ first[1] = "endpoint" /\ first[2] = "slots" /\ first[3] = "no legacy"
  OBVIOUS
<1>3. Len(anew) = 2 /\ anew[1] = "no token" /\ anew[2] = "slots"
  OBVIOUS
<1>4. Len(last) = 3 /\ last[1] = "active" /\ last[2] = "token" /\ last[3] = "signal"
  OBVIOUS
<1>5. EnrolWrites(force) = (first \o fresh) \o last
  BY DEF EnrolWrites
<1> HIDE DEF first, anew, last
<1>6. Settles(first, {"endpoint"}, {"no endpoint"})
  <2>1. 1 \in 1 .. Len(first) /\ first[1] \in {"endpoint"}
    <3>1. 1 \in 1 .. 3
      OBVIOUS
    <3>2. Len(first) = 3 /\ first[1] = "endpoint"
      BY <1>2
    <3> QED BY <3>1, <3>2
  <2>2. \A i \in 1 + 1 .. Len(first) : first[i] \notin {"no endpoint"}
    <3>1. \A i \in 1 + 1 .. 3 : i = 2 \/ i = 3
      OBVIOUS
    <3>2. first[2] \notin {"no endpoint"} /\ first[3] \notin {"no endpoint"} /\ Len(first) = 3
      BY <1>2
    <3> QED BY <3>1, <3>2
  <2> QED BY <2>1, <2>2 DEF Settles
<1>7. Avoids(anew, {"no endpoint"}) /\ Avoids(<< >>, {"no endpoint"})
  BY <1>3, TwoAvoid, EmptyProgram
<1>8. Avoids(last, {"no endpoint"}) /\ Avoids(last, {})
  BY <1>4, ThreeAvoid
<1>9. Settles(last, {"token"}, {"no token"})
  <2>1. 2 \in 1 .. Len(last) /\ last[2] \in {"token"}
    BY <1>4
  <2>2. \A i \in 2 + 1 .. Len(last) : last[i] \notin {"no token"}
    <3>1. \A i \in 2 + 1 .. 3 : i = 3
      OBVIOUS
    <3>2. last[3] \notin {"no token"} /\ Len(last) = 3
      BY <1>4
    <3> QED BY <3>1, <3>2
  <2> QED BY <2>1, <2>2 DEF Settles
<1>10. Settles(anew, {"no token"}, {})
  <2>1. 1 \in 1 .. Len(anew) /\ anew[1] \in {"no token"}
    <3>1. 1 \in 1 .. 2
      OBVIOUS
    <3>2. Len(anew) = 2 /\ anew[1] = "no token"
      BY <1>3
    <3> QED BY <3>1, <3>2
  <2>2. \A i \in 1 + 1 .. Len(anew) : anew[i] \notin {}
    OBVIOUS
  <2> QED BY <2>1, <2>2 DEF Settles
<1>11. Avoids(fresh, {"no endpoint"}) /\ (force => Settles(fresh, {"no token"}, {}))
  BY <1>7, <1>10
<1> HIDE DEF fresh
<1>12. first \o fresh \in Seq(Writes)
       /\ Settles(first \o fresh, {"endpoint"}, {"no endpoint"})
  BY <1>1, <1>6, <1>11, ConcatSettles, ConcatProperties
<1>13. Settles((first \o fresh) \o last, {"endpoint"}, {"no endpoint"})
  BY <1>1, <1>8, <1>12, ConcatSettles
<1>14. Settles((first \o fresh) \o last, {"token"}, {"no token"})
  BY <1>1, <1>9, <1>12, ConcatSettles
<1>15. ASSUME force PROVE Settles((first \o fresh) \o last, {"no token"}, {})
  <2>1. Settles(first \o fresh, {"no token"}, {})
    BY <1>1, <1>11, <1>15, ConcatSettles
  <2> QED BY <1>1, <1>8, <1>12, <2>1, ConcatSettles
<1>16. SetsActive(EnrolWrites(force))
  BY EnrolWritesProgram
<1> QED BY <1>5, <1>13, <1>14, <1>15, <1>16

LEMMA EnrolFills ==
  ASSUME NEW force \in BOOLEAN, NEW cert \in BOOLEAN, NEW artifact \in BOOLEAN
  PROVE  LET program == EnrolWrites(force)
                          \o (IF cert THEN StoreCertChain ELSE << >>)
                          \o (IF artifact THEN StoreFastArtifact ELSE << >>)
                          \o (IF force THEN <<"no force", "no oneshot">> ELSE << >>)
         IN  /\ Settles(program, {"endpoint"}, {"no endpoint"})
             /\ SetsActive(program)
             /\ Settles(program, {"token"}, {"no token"})
             /\ force => Settles(program, {"no token"}, {})
<1> DEFINE e == EnrolWrites(force)
           c == IF cert THEN StoreCertChain ELSE << >>
           a == IF artifact THEN StoreFastArtifact ELSE << >>
           f == IF force THEN <<"no force", "no oneshot">> ELSE << >>
           all == ((e \o c) \o a) \o f
<1>1. c \in Seq(Writes) /\ Avoids(c, Spoilers)
  BY HarmlessPrograms, EmptyProgram, ProgramTypes, ShortPrograms
<1>2. a \in Seq(Writes) /\ Avoids(a, Spoilers)
  BY HarmlessPrograms, EmptyProgram, ProgramTypes, ShortPrograms
<1>3. f \in Seq(Writes) /\ Avoids(f, Spoilers)
  BY HarmlessPrograms, EmptyProgram, ProgramTypes, ShortPrograms
<1>4. e \in Seq(Writes)
  BY ProgramTypes
<1> HIDE DEF e, c, a, f
<1>5. e \o c \in Seq(Writes) /\ (e \o c) \o a \in Seq(Writes)
  BY <1>1, <1>2, <1>4, ConcatProperties
<1>6. ASSUME NEW ws, NEW us, us \subseteq Spoilers, Settles(e, ws, us)
      PROVE  Settles(all, ws, us)
  <2>1. Avoids(c, us) /\ Avoids(a, us) /\ Avoids(f, us)
    BY <1>1, <1>2, <1>3, <1>6, AvoidsLess
  <2>2. Settles(e \o c, ws, us)
    BY <1>1, <1>4, <1>6, <2>1, ConcatSettles
  <2>3. Settles((e \o c) \o a, ws, us)
    BY <1>2, <1>5, <2>1, <2>2, ConcatSettles
  <2> QED BY <1>3, <1>5, <2>1, <2>3, ConcatSettles
<1> HIDE DEF all
<1>7. /\ Settles(e, {"endpoint"}, {"no endpoint"}) /\ Settles(e, {"active"}, Spoilers)
      /\ Settles(e, {"token"}, {"no token"}) /\ (force => Settles(e, {"no token"}, {}))
  BY EnrolWritesFill DEF e, SetsActive
<1>8. {"no endpoint"} \subseteq Spoilers /\ {"no token"} \subseteq Spoilers
      /\ {} \subseteq Spoilers
  BY DEF Spoilers
<1>9. /\ Settles(all, {"endpoint"}, {"no endpoint"}) /\ Settles(all, {"active"}, Spoilers)
      /\ Settles(all, {"token"}, {"no token"}) /\ (force => Settles(all, {"no token"}, {}))
  BY <1>6, <1>7, <1>8
<1> QED BY <1>9 DEF all, e, c, a, f, SetsActive

\* The programs of a boot make no token and take no bit away.
LEMMA BootHidesNothing ==
  Avoids(NormaliseWrites \o (IF MissingRoot THEN RekeyWrites ELSE << >>),
         Spoilers \cup {"token"})
<1> DEFINE n == Spoilers \cup {"token"}
           m == <<"slots", "endpoint", "no legacy">>
           s == <<"slots">>
           r == RekeyWrites
<1>1. Len(m) = 3 /\ m[1] = "slots" /\ m[2] = "endpoint" /\ m[3] = "no legacy"
  OBVIOUS
<1>2. Len(s) = 1 /\ s[1] = "slots"
  OBVIOUS
<1>3. /\ Len(r) = 5 /\ r[1] = "wipe" /\ r[2] = "v_id" /\ r[3] = "v_pub" /\ r[4] = "v_priv"
      /\ r[5] = "bitmaps"
  BY DEF RekeyWrites
<1>4. NormaliseWrites \in {m, s, << >>}
  BY DEF NormaliseWrites
<1> HIDE DEF m, s, r
<1>5. Avoids(m, n)
  BY <1>1, ThreeAvoid DEF Spoilers
<1>6. Avoids(s, n)
  <2>1. s[1] \notin n /\ Len(s) = 1
    BY <1>2 DEF Spoilers
  <2> QED BY <2>1 DEF Avoids
<1>7. Avoids(r, n)
  <2>1. \A i \in 1 .. 5 : r[i] \notin n
    <3>1. \A i \in 1 .. 5 : i = 1 \/ i = 2 \/ i = 3 \/ i = 4 \/ i = 5
      OBVIOUS
    <3>2. r[1] \notin n /\ r[2] \notin n /\ r[3] \notin n /\ r[4] \notin n /\ r[5] \notin n
      BY <1>3 DEF Spoilers
    <3> QED BY <3>1, <3>2
  <2>2. Len(r) = 5
    BY <1>3
  <2> QED BY <2>1, <2>2 DEF Avoids
<1>8. Avoids(NormaliseWrites, n) /\ NormaliseWrites \in Seq(Writes)
  BY <1>4, <1>5, <1>6, EmptyProgram, ProgramTypes
<1>9. Avoids(IF MissingRoot THEN r ELSE << >>, n)
      /\ (IF MissingRoot THEN r ELSE << >>) \in Seq(Writes)
  BY <1>7, EmptyProgram, ProgramTypes, ShortPrograms DEF r
<1> QED BY <1>8, <1>9, ConcatAvoids DEF r

-----------------------------------------------------------------------------
(* Step by step.                                                             *)
LEMMA FinishedFits ==
  ASSUME Emptying(<< >>) \/ Filling(<< >>) PROVE TokenFits
BY NothingSettles DEF Emptying, Filling, TokenComes, SetsActive, TokenFits, OwnerShown

\* Nothing under way: owner and token fit.
LEMMA AtRestFits ==
  ASSUME TokenFollowsWork, Idle PROVE TokenFits
<1>1. \A t \in Tasks : todo[t] = << >>
  BY DEF Idle
<1>2. todo["nfc"] = << >> /\ todo["ble"] = << >>
  BY <1>1 DEF Tasks
<1> QED BY <1>2, FinishedFits DEF TokenFollowsWork

\* A clear goes on.
LEMMA EmptyingGoesOn ==
  ASSUME NEW s \in Seq(Writes), s # << >>, Emptying(s), TokenMoves(Head(s))
  PROVE  Emptying(Tail(s))'
<1> DEFINE w == Head(s)
           r == Tail(s)
<1>1. \/ Settles(r, {"no endpoint"}, {"endpoint"})
      \/ Avoids(r, {"endpoint"}) /\ g_mailbox'.endpoint_pub = NoOne
  <2>1. CASE Settles(s, {"no endpoint"}, {"endpoint"})
    <3>1. Settles(r, {"no endpoint"}, {"endpoint"})
            \/ (w \in {"no endpoint"} /\ Avoids(r, {"endpoint"}))
      BY <2>1, TailSettles
    <3> QED BY <3>1 DEF TokenMoves
  <2>2. CASE Avoids(s, {"endpoint"}) /\ g_mailbox.endpoint_pub = NoOne
    <3>1. w \notin {"endpoint"} /\ Avoids(r, {"endpoint"})
      BY <2>2, TailAvoids
    <3> QED BY <2>2, <3>1 DEF TokenMoves
  <2> QED BY <2>1, <2>2 DEF Emptying
<1>2. \/ Settles(r, {"no token"}, {"token"})
      \/ Avoids(r, {"token"}) /\ g_mailbox'.immobilizer_token = NoOne
  <2>1. CASE Settles(s, {"no token"}, {"token"})
    <3>1. Settles(r, {"no token"}, {"token"})
            \/ (w \in {"no token"} /\ Avoids(r, {"token"}))
      BY <2>1, TailSettles
    <3> QED BY <3>1 DEF TokenMoves
  <2>2. CASE Avoids(s, {"token"}) /\ g_mailbox.immobilizer_token = NoOne
    <3>1. w \notin {"token"} /\ Avoids(r, {"token"})
      BY <2>2, TailAvoids
    <3> QED BY <2>2, <3>1 DEF TokenMoves
  <2> QED BY <2>1, <2>2 DEF Emptying
<1> HIDE DEF r
<1>3. Emptying(r)'
  BY <1>1, <1>2 DEF Emptying, Settles, Avoids
<1> QED BY <1>3 DEF r

\* An enrolment goes on.
LEMMA FillingGoesOn ==
  ASSUME NEW s \in Seq(Writes), s # << >>, Filling(s), TokenMoves(Head(s)),
         commit' = commit,
         Head(s) = "endpoint" => g_mailbox'.endpoint_pub = commit
  PROVE  Filling(Tail(s))'
<1> DEFINE w == Head(s)
           r == Tail(s)
           RestComes == \/ /\ Settles(r, {"token"}, {"no token"})
                           /\ \/ g_mailbox'.immobilizer_token \in {NoOne, commit}
                              \/ Settles(r, {"no token"}, {})
                        \/ Avoids(r, {"no token"}) /\ g_mailbox'.immobilizer_token = commit
<1>0. w # "wipe" /\ Avoids(r, {"wipe"})
  <2>1. w \notin {"wipe"} /\ Avoids(r, {"wipe"})
    BY TailAvoids DEF Filling
  <2> QED BY <2>1
<1>1. \/ Settles(r, {"endpoint"}, {"no endpoint"})
      \/ Avoids(r, {"no endpoint"}) /\ g_mailbox'.endpoint_pub = commit
  <2>1. CASE Settles(s, {"endpoint"}, {"no endpoint"})
    <3>1. Settles(r, {"endpoint"}, {"no endpoint"})
            \/ (w \in {"endpoint"} /\ Avoids(r, {"no endpoint"}))
      BY <2>1, TailSettles
    <3> QED BY <3>1
  <2>2. CASE Avoids(s, {"no endpoint"}) /\ g_mailbox.endpoint_pub = commit
    <3>1. w \notin {"no endpoint"} /\ Avoids(r, {"no endpoint"})
      BY <2>2, TailAvoids
    <3> QED BY <1>0, <2>2, <3>1 DEF TokenMoves
  <2> QED BY <2>1, <2>2 DEF Filling
<1>2. \/ Settles(r, {"active"}, Spoilers)
      \/ Avoids(r, Spoilers) /\ g_mailbox'.slot_bitmap
  <2>1. CASE SetsActive(s)
    <3>1. Settles(r, {"active"}, Spoilers) \/ (w \in {"active"} /\ Avoids(r, Spoilers))
      BY <2>1, TailSettles DEF SetsActive
    <3> QED BY <3>1 DEF TokenMoves
  <2>2. CASE Avoids(s, Spoilers) /\ g_mailbox.slot_bitmap
    <3>1. w \notin Spoilers /\ Avoids(r, Spoilers)
      BY <2>2, TailAvoids
    <3> QED BY <1>0, <2>2, <3>1 DEF TokenMoves
  <2> QED BY <2>1, <2>2 DEF Filling
<1>3. RestComes
  <2>1. CASE Settles(s, {"token"}, {"no token"}) /\ Settles(s, {"no token"}, {})
    <3>1. Settles(r, {"token"}, {"no token"})
            \/ (w \in {"token"} /\ Avoids(r, {"no token"}))
      BY <2>1, TailSettles
    <3>2. Settles(r, {"no token"}, {}) \/ w \in {"no token"}
      BY <2>1, TailSettles
    <3>3. ~(Settles(r, {"no token"}, {}) /\ Avoids(r, {"no token"}))
      BY DEF Settles, Avoids
    <3>4. w = "no token" => g_mailbox'.immobilizer_token = NoOne
      BY DEF TokenMoves
    <3> HIDE DEF w, r
    <3> QED BY <3>1, <3>2, <3>3, <3>4
  <2>2. CASE /\ Settles(s, {"token"}, {"no token"})
             /\ g_mailbox.immobilizer_token \in {NoOne, commit}
    <3>1. Settles(r, {"token"}, {"no token"})
            \/ (w \in {"token"} /\ Avoids(r, {"no token"}))
      BY <2>2, TailSettles
    <3>2. g_mailbox'.immobilizer_token \in {NoOne, commit}
      BY <1>0, <2>2 DEF TokenMoves
    <3>3. w = "token" => g_mailbox'.immobilizer_token = commit
      BY <1>0, <2>2 DEF TokenMoves
    <3> HIDE DEF w, r
    <3> QED BY <3>1, <3>2, <3>3
  <2>3. CASE Avoids(s, {"no token"}) /\ g_mailbox.immobilizer_token = commit
    <3>1. w \notin {"no token"} /\ Avoids(r, {"no token"})
      BY <2>3, TailAvoids
    <3>2. g_mailbox'.immobilizer_token = commit
      BY <1>0, <2>3, <3>1 DEF TokenMoves
    <3> HIDE DEF w, r
    <3> QED BY <3>1, <3>2
  <2> QED BY <2>1, <2>2, <2>3 DEF Filling, TokenComes
<1> HIDE DEF r
<1>4. commit' # NoOne
  BY DEF Filling
<1>5. Filling(r)'
  BY <1>0, <1>1, <1>2, <1>3, <1>4 DEF Filling, TokenComes, SetsActive, Settles, Avoids
<1> QED BY <1>5 DEF r

\* Before set-up is over, a boot may begin; the token is none.
LEMMA BootToken ==
  ASSUME MailboxTypeInv, TokenInv, Overlap = FALSE, Boot \/ BeginAgain
  PROVE  TokenInv'
<1> DEFINE program == NormaliseWrites \o (IF MissingRoot THEN RekeyWrites ELSE << >>)
<1>0. todo \in [Tasks -> Seq(Writes)] /\ flash \in Flash
  BY DEF MailboxTypeInv, MailboxTypeOK
<1>1. /\ power # "on" /\ g_mailbox' = Loaded /\ power' \in {"booting", "again"}
      /\ flash' = flash /\ commit' = commit /\ crashes' = crashes
      /\ todo' = [todo EXCEPT !["boot"] = program]
  BY DEF Boot, BeginAgain, Begin
<1>2. Avoids(program, {"token"}) /\ Avoids(program, Spoilers)
  BY BootHidesNothing, AvoidsLess
<1> HIDE DEF program
<1> SUFFICES ASSUME crashes = 0 PROVE NoTokenYet'
  BY <1>1 DEF TokenInv
<1>3. NoTokenYet
  BY <1>1 DEF TokenInv
<1>4. \A t \in Tasks : todo[t] = << >>
  BY <1>3 DEF Boot, BeginAgain, NoTokenYet, Idle
<1>5. /\ todo'["boot"] = program /\ \A u \in Tasks \ {"boot"} : todo'[u] = << >>
  BY <1>0, <1>1, <1>4 DEF Tasks
<1>6. \A t \in Tasks : Avoids(todo'[t], {"token"})
  BY <1>2, <1>5, EmptyProgram
<1>7. OwnerShown'
  BY <1>1 DEF OwnerShown, Loaded
<1>8. commit' = NoOne /\ flash'.tok_0 = NoOne /\ g_mailbox'.immobilizer_token = NoOne
  BY <1>1, <1>3 DEF NoTokenYet, Loaded
<1>9. (\A t \in Tasks : Avoids(todo[t], {"token"}))'
  BY <1>6 DEF Avoids
<1>10. Only("boot")' /\ Avoids(todo["boot"], Spoilers)'
  BY <1>2, <1>5 DEF Only, Avoids
<1> QED BY <1>1, <1>7, <1>8, <1>9, <1>10 DEF NoTokenYet

LEMMA BootDoneToken ==
  ASSUME TokenInv, BootDone PROVE TokenInv'
<1>1. /\ power \in {"booting", "again"} /\ todo["boot"] = << >> /\ power' = "on"
      /\ UNCHANGED <<g_mailbox, todo, commit, crashes>>
  BY DEF BootDone
<1> SUFFICES ASSUME crashes = 0 PROVE TokenFollowsWork'
  BY <1>1 DEF TokenInv
<1>2. NoTokenYet /\ Only("boot")
  BY <1>1 DEF TokenInv, NoTokenYet
<1>3. (\A t \in Tasks : todo[t] = << >>)'
  BY <1>1, <1>2 DEF Only
<1>4. TokenFits'
  BY <1>1, <1>2 DEF NoTokenYet, TokenFits, OwnerShown
<1> QED BY <1>3, <1>4 DEF TokenFollowsWork, Idle

LEMMA KeypairFailsToken ==
  ASSUME MailboxTypeInv, TokenInv, KeypairFails PROVE TokenInv'
<1>0. todo \in [Tasks -> Seq(Writes)] /\ identities \in Nat
  BY DEF MailboxTypeInv, MailboxTypeOK
<1>1. /\ todo["boot"] # << >> /\ todo' = [todo EXCEPT !["boot"] = << >>]
      /\ power' = (IF power = "booting" THEN "starting" ELSE "on")
      /\ UNCHANGED <<commit, crashes>>
      /\ flash' = EmptyFlash /\ g_mailbox' = [EmptyMirror EXCEPT !.v_id = identities']
  BY DEF KeypairFails, Set, GenerateVehicleId
<1>2. /\ g_mailbox'.endpoint_pub = NoOne /\ g_mailbox'.immobilizer_token = NoOne
      /\ flash'.tok_0 = NoOne
  BY <1>1 DEF EmptyMirror, EmptyFlash
<1> SUFFICES ASSUME crashes = 0
             PROVE  IF power' = "on" THEN TokenFollowsWork' ELSE NoTokenYet'
  BY <1>1 DEF TokenInv
<1>3. power # "on" /\ NoTokenYet /\ Only("boot")
  <2>1. ASSUME power = "on" PROVE FALSE
    <3>1. TokenFollowsWork
      BY <2>1 DEF TokenInv
    <3> QED BY <1>1, <3>1 DEF TokenFollowsWork, Idle, Only, Tasks
  <2>2. NoTokenYet
    BY <2>1 DEF TokenInv
  <2>3. power \in {"off", "booting", "starting", "again"}
    BY <2>1 DEF MailboxTypeInv, MailboxTypeOK
  <2> QED BY <1>1, <2>1, <2>2, <2>3 DEF NoTokenYet, Idle, Only, Tasks
<1>4. \A t \in Tasks : todo'[t] = << >>
  BY <1>0, <1>1, <1>3 DEF Only, Tasks
<1>5. (\A t \in Tasks : todo[t] = << >>)'
  BY <1>4
<1>6. commit' = NoOne
  BY <1>1, <1>3 DEF NoTokenYet
<1>7. OwnerShown' /\ TokenFits'
  BY <1>2, <1>6 DEF OwnerShown, TokenFits
<1>8. CASE power' = "on"
  BY <1>5, <1>7, <1>8 DEF TokenFollowsWork, Idle
<1>9. CASE power' = "starting"
  <2>1. (\A t \in Tasks : Avoids(todo[t], {"token"}))'
    <3>1. \A t \in Tasks : Avoids(todo'[t], {"token"})
      BY <1>4, EmptyProgram
    <3> QED BY <3>1 DEF Avoids
  <2>2. Avoids(todo["ble"], {"endpoint"})'
    <3>1. Avoids(todo'["ble"], {"endpoint"})
      BY <1>4, EmptyProgram DEF Tasks
    <3> QED BY <3>1 DEF Avoids
  <2>3. Only("ble")'
    BY <1>5 DEF Only
  <2> QED BY <1>2, <1>6, <1>7, <1>9, <2>1, <2>2, <2>3 DEF NoTokenYet
<1> QED BY <1>1, <1>8, <1>9

LEMMA EnrolToken ==
  ASSUME MailboxTypeInv, TokenInv, Overlap = FALSE, NEW o \in Owners,
         NEW force \in BOOLEAN, NEW cert \in BOOLEAN, NEW artifact \in BOOLEAN,
         SetOwnerProvisioned(o, force, cert, artifact)
  PROVE  TokenInv'
<1> DEFINE program == EnrolWrites(force)
                        \o (IF cert THEN StoreCertChain ELSE << >>)
                        \o (IF artifact THEN StoreFastArtifact ELSE << >>)
                        \o (IF force THEN <<"no force", "no oneshot">> ELSE << >>)
<1>0. todo \in [Tasks -> Seq(Writes)]
  BY DEF MailboxTypeInv, MailboxTypeOK
<1>1. /\ MayStart("nfc") /\ MayEnrol(force) /\ commit' = o
      /\ todo' = [todo EXCEPT !["nfc"] = program]
      /\ UNCHANGED <<flash, g_mailbox, power, crashes>>
  BY DEF SetOwnerProvisioned
<1>2. /\ Settles(program, {"endpoint"}, {"no endpoint"})
      /\ SetsActive(program)
      /\ Settles(program, {"token"}, {"no token"})
      /\ force => Settles(program, {"no token"}, {})
      /\ Avoids(program, NotInEnrolment)
  BY EnrolFills, EnrolProgram
<1> HIDE DEF program
<1>3. power = "on" /\ Idle
  BY <1>1 DEF MayStart, Idle
<1> SUFFICES ASSUME crashes = 0 PROVE TokenFollowsWork'
  BY <1>1, <1>3 DEF TokenInv
<1>4. TokenFits
  BY <1>3, AtRestFits DEF TokenInv
<1>5. force \/ g_mailbox.immobilizer_token = NoOne
  BY <1>1, <1>4 DEF MayEnrol, IsProvisioned, TokenFits, OwnerShown
<1>6. commit' # NoOne
  BY <1>1, NoOneAssumption
<1>7. todo'["nfc"] = program /\ \A u \in Tasks \ {"nfc"} : todo'[u] = << >>
  BY <1>0, <1>1, <1>3 DEF Idle, Tasks
<1>8. Filling(program)'
  <2>1. g_mailbox'.immobilizer_token \in {NoOne, commit'} \/ Settles(program, {"no token"}, {})
    BY <1>1, <1>2, <1>5
  <2>2. Avoids(program, {"wipe"})
    <3>1. {"wipe"} \subseteq NotInEnrolment
      BY DEF NotInEnrolment
    <3> QED BY <1>2, <3>1, AvoidsLess
  <2> QED BY <1>2, <1>6, <2>1, <2>2 DEF Filling, TokenComes, SetsActive, Settles, Avoids
<1>9. Filling(todo["nfc"])'
  BY <1>7, <1>8 DEF Filling, TokenComes, SetsActive, Settles, Avoids
<1>10. Only("nfc")'
  BY <1>7 DEF Only
<1> QED BY <1>9, <1>10 DEF TokenFollowsWork

LEMMA ClearToken ==
  ASSUME MailboxTypeInv, TokenInv, Overlap = FALSE,
         ClearProvisionedOnly("nfc") \/ ClearProvisionedOnly("ble") \/ ClearAll
  PROVE  TokenInv'
<1> DEFINE only == <<"no endpoint", "no legacy", "slots", "no token", "slots", "inactive",
                     "signal", "no cert">> \o ClearFastArtifact
           all == <<"no endpoint", "no legacy", "slots", "no mailbox", "no token", "slots",
                    "no cert">> \o ClearFastArtifact \o <<"no force", "no oneshot">>
<1>1. /\ Settles(only, {"no endpoint"}, {"endpoint"}) /\ Avoids(only, {"endpoint", "token"})
      /\ Settles(all, {"no endpoint"}, {"endpoint"}) /\ Avoids(all, {"endpoint", "token"})
      /\ Settles(only, {"no token"}, {"token"}) /\ Settles(all, {"no token"}, {"token"})
  BY ClearEmpties, ClearMirror
<1>2. ASSUME NEW t \in {"nfc", "ble"}, MayStart(t), NEW s, todo' = [todo EXCEPT ![t] = s],
             Settles(s, {"no endpoint"}, {"endpoint"}), Avoids(s, {"endpoint", "token"}),
             Settles(s, {"no token"}, {"token"}), commit' \in {commit, NoOne},
             UNCHANGED <<flash, g_mailbox, power, crashes>>
      PROVE  TokenInv'
  <2>0. todo \in [Tasks -> Seq(Writes)] /\ t \in Tasks
    BY <1>2 DEF MailboxTypeInv, MailboxTypeOK, Tasks
  <2>1. Idle /\ power \in {"starting", "on"} /\ (power = "starting" => t = "ble")
    BY <1>2 DEF MayStart, Idle
  <2>2. todo'[t] = s /\ \A u \in Tasks \ {t} : todo'[u] = << >>
    BY <1>2, <2>0, <2>1 DEF Idle
  <2>3. Only(t)'
    BY <2>2 DEF Only
  <2>4. CASE power = "on" /\ crashes = 0
    <3>1. Emptying(s)'
      BY <1>2 DEF Emptying, Settles, Avoids
    <3>2. Emptying(todo[t])'
      BY <2>2, <3>1 DEF Emptying, Settles, Avoids
    <3> QED BY <1>2, <2>3, <2>4, <3>2 DEF TokenInv, TokenFollowsWork
  <2>5. CASE power = "starting" /\ crashes = 0
    <3>1. NoTokenYet
      BY <2>5 DEF TokenInv
    <3>2. Avoids(s, {"token"}) /\ Avoids(s, {"endpoint"})
      BY <1>2, AvoidsLess
    <3>3. \A u \in Tasks : Avoids(todo'[u], {"token"})
      BY <2>2, <3>2, EmptyProgram
    <3>4. (\A u \in Tasks : Avoids(todo[u], {"token"}))'
      BY <3>3 DEF Avoids
    <3>5. Avoids(todo["ble"], {"endpoint"})'
      BY <2>1, <2>2, <2>5, <3>2 DEF Avoids
    <3>6. commit' = NoOne /\ OwnerShown' /\ g_mailbox'.endpoint_pub = NoOne
          /\ flash'.tok_0 = NoOne /\ g_mailbox'.immobilizer_token = NoOne
      BY <1>2, <2>5, <3>1 DEF NoTokenYet, OwnerShown
    <3>7. NoTokenYet'
      BY <1>2, <2>1, <2>3, <2>5, <3>4, <3>5, <3>6 DEF NoTokenYet
    <3> QED BY <1>2, <2>5, <3>7 DEF TokenInv
  <2>6. CASE crashes # 0
    BY <1>2, <2>6 DEF TokenInv
  <2> QED BY <2>1, <2>4, <2>5, <2>6
<1>3. ASSUME NEW t \in {"nfc", "ble"}, ClearProvisionedOnly(t) PROVE TokenInv'
  <2>1. /\ MayStart(t) /\ todo' = [todo EXCEPT ![t] = only] /\ commit' \in {commit, NoOne}
        /\ UNCHANGED <<flash, g_mailbox, power, crashes>>
    BY <1>3 DEF ClearProvisionedOnly
  <2> HIDE DEF only, all
  <2> QED BY <1>1, <1>2, <2>1
<1>4. CASE ClearAll
  <2>1. /\ MayStart("ble") /\ todo' = [todo EXCEPT !["ble"] = all] /\ commit' = commit
        /\ UNCHANGED <<flash, g_mailbox, power, crashes>>
    BY <1>4 DEF ClearAll
  <2> HIDE DEF only, all
  <2> QED BY <1>1, <1>2, <2>1
<1> QED BY <1>3, <1>4

\* Nothing TokenInv speaks of changes.
LEMMA SameToken ==
  ASSUME TokenInv, UNCHANGED <<g_mailbox, todo, power, commit, crashes>>,
         flash'.tok_0 = flash.tok_0
  PROVE  TokenInv'
<1>1. TokenFits => TokenFits'
  BY DEF TokenFits, OwnerShown
<1>2. Idle <=> Idle'
  BY DEF Idle
<1>3. ASSUME NEW t PROVE Only(t) <=> Only(t)'
  BY DEF Only
<1>4. ASSUME NEW t \in Tasks, Emptying(todo[t]) PROVE Emptying(todo[t])'
  BY <1>4 DEF Emptying, Settles, Avoids
<1>5. Filling(todo["nfc"]) => Filling(todo["nfc"])'
  BY DEF Filling, TokenComes, SetsActive, Settles, Avoids
<1>6. TokenFollowsWork => TokenFollowsWork'
  <2>1. CASE Idle /\ TokenFits
    BY <1>1, <1>2, <2>1 DEF TokenFollowsWork
  <2>2. ASSUME NEW t \in {"nfc", "ble"}, Only(t), Emptying(todo[t])
        PROVE  TokenFollowsWork'
    <3>1. Only(t)' /\ Emptying(todo[t])'
      BY <1>3, <1>4, <2>2 DEF Tasks
    <3> QED BY <3>1 DEF TokenFollowsWork
  <2>3. CASE Only("nfc") /\ Filling(todo["nfc"])
    BY <1>3, <1>5, <2>3 DEF TokenFollowsWork
  <2> QED BY <2>1, <2>2, <2>3 DEF TokenFollowsWork
<1>7. NoTokenYet => NoTokenYet'
  BY <1>2, <1>3 DEF NoTokenYet, OwnerShown, Avoids
<1> QED BY <1>6, <1>7 DEF TokenInv

LEMMA FlagsToken ==
  ASSUME MailboxTypeInv, TokenInv,
         ToggleForceProvision \/ SetPersistentForce
           \/ ArmOneShotForce("nfc") \/ ArmOneShotForce("ble")
  PROVE  TokenInv'
<1>1. flash \in Flash
  BY DEF MailboxTypeInv, MailboxTypeOK
<1>2. UNCHANGED <<g_mailbox, todo, power, commit, crashes>>
  BY DEF ToggleForceProvision, SetPersistentForce, ArmOneShotForce
<1>3. flash'.tok_0 = flash.tok_0
  BY <1>1 DEF ToggleForceProvision, SetPersistentForce, ArmOneShotForce, Flash
<1> QED BY <1>2, <1>3, SameToken

LEMMA WriteToken ==
  ASSUME MailboxTypeInv, TokenInv, NEW t \in Tasks, Write(t)
  PROVE  TokenInv'
<1> DEFINE w == Head(todo[t])
<1>0. /\ MailboxTypeOK /\ todo \in [Tasks -> Seq(Writes)] /\ todo[t] \in Seq(Writes)
      /\ g_mailbox \in Mirror
  BY DEF MailboxTypeInv, MailboxTypeOK
<1>1. /\ todo[t] # << >> /\ w \in Writes /\ Tail(todo[t]) \in Seq(Writes)
      /\ UNCHANGED <<commit, power, crashes>>
      /\ todo' = [todo EXCEPT ![t] = Tail(todo[t])]
      /\ \/ w = "endpoint" /\ StoreEndpoint(t)
         \/ w = "wipe" /\ NewIdentity
         \/ w \in RamWrites /\ RamAndFlash(w)
         \/ w \in Plain /\ FlashOnly(w)
  BY <1>0, WriteParts
<1>8. PICK s \in Seq(Writes) : s = todo[t]
  BY <1>0
<1>9. PICK r \in Seq(Writes) : r = Tail(s)
  BY <1>1, <1>8
<1>2. /\ todo'[t] = r /\ \A u \in Tasks \ {t} : todo'[u] = todo[u]
      /\ s # << >> /\ w = Head(s)
  BY <1>0, <1>1, <1>8, <1>9
<1> HIDE DEF w
<1>3. TokenMoves(w)
  BY <1>1, WriteMoves
<1>4. t = "nfc" /\ w = "endpoint" => g_mailbox'.endpoint_pub = commit
  BY <1>0, <1>1 DEF StoreEndpoint, Set, RamWrites, Plain, Mirror
<1>5. CASE power = "on" /\ crashes = 0
  <2>1. ASSUME NEW u \in {"nfc", "ble"}, Only(u), Emptying(todo[u])
        PROVE  TokenFollowsWork'
    <3>1. u = t /\ Emptying(s)
      BY <1>1, <1>8, <2>1 DEF Only
    <3>2. Emptying(Tail(s))'
      BY <1>2, <1>3, <3>1, EmptyingGoesOn
    <3>3. Emptying(todo[t])'
      BY <1>2, <1>9, <3>2 DEF Emptying, Settles, Avoids
    <3>4. Only(t)'
      BY <1>2, <2>1, <3>1 DEF Only
    <3> QED BY <2>1, <3>1, <3>3, <3>4 DEF TokenFollowsWork
  <2>2. ASSUME Only("nfc"), Filling(todo["nfc"]) PROVE TokenFollowsWork'
    <3>1. t = "nfc" /\ Filling(s)
      BY <1>1, <1>8, <2>2 DEF Only
    <3>2. Filling(Tail(s))'
      BY <1>1, <1>2, <1>3, <1>4, <3>1, FillingGoesOn
    <3>3. Filling(todo["nfc"])'
      BY <1>2, <1>9, <3>1, <3>2 DEF Filling, TokenComes, SetsActive, Settles, Avoids
    <3>4. Only("nfc")'
      BY <1>2, <2>2, <3>1 DEF Only
    <3> QED BY <3>3, <3>4 DEF TokenFollowsWork
  <2>3. ~Idle
    BY <1>1 DEF Idle
  <2>4. TokenFollowsWork
    BY <1>5 DEF TokenInv
  <2>5. TokenFollowsWork'
    BY <2>1, <2>2, <2>3, <2>4 DEF TokenFollowsWork
  <2> QED BY <1>1, <1>5, <2>5 DEF TokenInv
<1>6. CASE power # "on" /\ crashes = 0
  <2>1. NoTokenYet
    BY <1>6 DEF TokenInv
  <2>2. Avoids(s, {"token"})
    BY <1>8, <2>1 DEF NoTokenYet
  <2>3. w \notin {"token"} /\ Avoids(r, {"token"})
    BY <1>2, <1>9, <2>2, TailAvoids
  <2>4. \A u \in Tasks : Avoids(todo'[u], {"token"})
    BY <1>2, <2>1, <2>3 DEF NoTokenYet
  <2>5. (\A u \in Tasks : Avoids(todo[u], {"token"}))'
    BY <2>4 DEF Avoids
  <2>6. commit' = NoOne /\ flash'.tok_0 = NoOne /\ g_mailbox'.immobilizer_token = NoOne
    BY <1>1, <1>3, <2>1, <2>3 DEF NoTokenYet, TokenMoves
  <2>7. CASE power \in {"booting", "again"}
    <3>1. t = "boot" /\ Only("boot") /\ Avoids(todo["boot"], Spoilers)
      BY <1>1, <2>1, <2>7 DEF NoTokenYet, Only
    <3>2. w \notin Spoilers /\ Avoids(r, Spoilers)
      BY <1>2, <1>8, <1>9, <3>1, TailAvoids
    <3>3. OwnerShown'
      BY <1>3, <2>1, <3>2 DEF TokenMoves, NoTokenYet, OwnerShown, Spoilers
    <3>4. Only("boot")' /\ Avoids(todo["boot"], Spoilers)'
      BY <1>2, <3>1, <3>2 DEF Only, Avoids
    <3>5. NoTokenYet'
      BY <1>1, <2>5, <2>6, <2>7, <3>3, <3>4 DEF NoTokenYet
    <3> QED BY <1>1, <1>6, <3>5 DEF TokenInv
  <2>8. CASE power = "starting"
    <3>1. t = "ble" /\ Only("ble") /\ Avoids(todo["ble"], {"endpoint"})
          /\ g_mailbox.endpoint_pub = NoOne
      BY <1>1, <2>1, <2>8 DEF NoTokenYet, Only
    <3>2. w \notin {"endpoint"} /\ Avoids(r, {"endpoint"})
      BY <1>2, <1>8, <1>9, <3>1, TailAvoids
    <3>3. g_mailbox'.endpoint_pub = NoOne /\ OwnerShown'
      BY <1>3, <3>1, <3>2 DEF TokenMoves, OwnerShown
    <3>4. Only("ble")' /\ Avoids(todo["ble"], {"endpoint"})'
      BY <1>2, <3>1, <3>2 DEF Only, Avoids
    <3>5. NoTokenYet'
      BY <1>1, <2>5, <2>6, <2>8, <3>3, <3>4 DEF NoTokenYet
    <3> QED BY <1>1, <1>6, <3>5 DEF TokenInv
  <2>9. power # "off"
    BY <1>1, <2>1 DEF NoTokenYet, Idle
  <2> QED BY <1>6, <2>7, <2>8, <2>9 DEF MailboxTypeInv, MailboxTypeOK
<1>7. CASE crashes # 0
  BY <1>1, <1>7 DEF TokenInv
<1> QED BY <1>5, <1>6, <1>7

LEMMA StepToken ==
  ASSUME MailboxTypeInv, TokenInv, Overlap = FALSE, [MailboxNext]_mailboxVars
  PROVE  TokenInv'
<1>1. CASE Boot \/ BeginAgain
  BY <1>1, BootToken
<1>2. CASE BootDone
  BY <1>2, BootDoneToken
<1>3. CASE PowerFails
  <2>1. crashes \in Nat /\ crashes' = crashes + 1
    BY <1>3, MaxCrashesAssumption DEF PowerFails, MailboxTypeInv, MailboxTypeOK
  <2>2. crashes' # 0
    BY <2>1
  <2> QED BY <2>2 DEF TokenInv
<1>4. CASE KeypairFails
  BY <1>4, KeypairFailsToken
<1>5. ASSUME NEW o \in Owners, NEW force \in BOOLEAN, NEW cert \in BOOLEAN,
             NEW artifact \in BOOLEAN, SetOwnerProvisioned(o, force, cert, artifact)
      PROVE  TokenInv'
  BY <1>5, EnrolToken
<1>6. CASE ClearProvisionedOnly("nfc") \/ ClearProvisionedOnly("ble") \/ ClearAll
  BY <1>6, ClearToken
<1>7. CASE ToggleForceProvision \/ SetPersistentForce
             \/ ArmOneShotForce("nfc") \/ ArmOneShotForce("ble")
  BY <1>7, FlagsToken
<1>8. ASSUME NEW t \in Tasks, Write(t) PROVE TokenInv'
  BY <1>8, WriteToken
<1>9. CASE BeginEnrolment \/ EnrolmentFails \/ UNCHANGED mailboxVars
  BY <1>9, SessionSteps, SameToken DEF SessionOnly
<1> QED BY <1>1, <1>2, <1>3, <1>4, <1>5, <1>6, <1>7, <1>8, <1>9
        DEF MailboxNext, SerialCommands, AdminCommands

LEMMA InitToken ==
  ASSUME MailboxInit PROVE TokenInv
<1>1. /\ commit = NoOne /\ power = "off" /\ g_mailbox = EmptyMirror
      /\ todo = [t \in Tasks |-> << >>]
  BY DEF MailboxInit
<1>2. flash.tok_0 = NoOne
  <2>1. EmptyFlash.tok_0 = NoOne
    BY DEF EmptyFlash
  <2>2. ASSUME NEW o, NEW half,
               flash = [EmptyFlash EXCEPT !.ep_pub = o, !.v_id = 1, !.v_pub = 1,
                                          !.v_priv = half]
        PROVE  flash.tok_0 = NoOne
    BY <2>2 DEF EmptyFlash
  <2> QED BY <2>1, <2>2 DEF MailboxInit
<1>3. Idle /\ \A t \in Tasks : Avoids(todo[t], {"token"})
  BY <1>1, EmptyProgram DEF Idle
<1>4. g_mailbox.immobilizer_token = NoOne /\ OwnerShown
  BY <1>1 DEF EmptyMirror, OwnerShown
<1> QED BY <1>1, <1>2, <1>3, <1>4 DEF TokenInv, NoTokenYet

(* As long as power has not failed, the owner enrolled last has a token, and *)
(* it was made for this owner: a first enrolment finds the slot without one, *)
(* a forced one clears the last owner's before ensureToken looks, and no     *)
(* clear leaves one behind.  Legacy flash included, one task at a time.      *)
THEOREM TokenIsOfOwner ==
  ASSUME Overlap = FALSE
  PROVE  MailboxSpec => []TokenOfOwner
<1>1. MailboxInit => MailboxTypeInv /\ TokenInv
  BY InitType, InitToken
<1>2. MailboxTypeInv /\ TokenInv /\ [MailboxNext]_mailboxVars
        => (MailboxTypeInv /\ TokenInv)'
  BY StepType, StepToken
<1>3. MailboxTypeInv /\ TokenInv => TokenOfOwner
  <2> SUFFICES ASSUME TokenInv, AtRest, crashes = 0, IsProvisioned,
                      commit = g_mailbox.endpoint_pub
               PROVE  HasToken /\ g_mailbox.immobilizer_token = commit
    BY DEF TokenOfOwner
  <2>1. power = "on" /\ Idle
    BY DEF AtRest, Idle
  <2>2. TokenFits
    BY <2>1, AtRestFits DEF TokenInv
  <2> QED BY <2>2 DEF TokenFits, IsProvisioned, HasToken
<1> QED BY <1>1, <1>2, <1>3, PTL DEF MailboxSpec

=============================================================================
