----------------------- MODULE NfcProvisioning_proofs -----------------------
(***************************************************************************)
(* Theorems about Phase A.  First NfcProvisioning, for every set of phones, *)
(* every number of rounds, passes and reselections, and every number of    *)
(* losses; then the serial line under it, Pn532Link, for every number of   *)
(* commands, tries and losses.                                             *)
(***************************************************************************)
EXTENDS NfcProvisioning, Pn532Link, SequenceTheorems, TLAPS

Steps == Calls \cup Waits \cup {"again", "anyway", "perform", "sign_again", "op_select",
                                "store", "finish"}

(* Types alone are not inductive: a reselection counts down what is left, so *)
(* a call must have a try left; and a reply names the phone that is there,   *)
(* so the listed target must be one.                                         *)
CallHasTries == step \in Calls => left > 0 \/ attempts > 0
ListedIsThere == linked => at # NoPhone
NfcInv == NfcTypeOK /\ CallHasTries /\ ListedIsThere

\* What is known of the other variables, which the invariant is made of.
RestInv ==
  /\ at \in Phones \cup {NoPhone} /\ linked \in BOOLEAN /\ selected \in BOOLEAN
  /\ late \in Replies \cup {Silence}
  /\ losses \in 0 .. MaxLosses /\ faults \subseteq {"swap", "stale"}
  /\ shouldForce \in BOOLEAN /\ base \in Phones \cup {NoPhone}
  /\ owner \in Phones \cup {NoPhone} /\ force \in BOOLEAN
  /\ challenge \in [Phones -> Challenges]
  /\ master \subseteq Phones /\ bound \subseteq Phones /\ told \subseteq Phones
  /\ macced \subseteq Phones /\ signed \subseteq Phones
  /\ visitor \in Phones \cup {NoPhone} /\ enrolled \in Phones \cup {NoPhone}
  /\ armed \in 0 .. MaxArmings /\ replaced \in Nat
  /\ ListedIsThere

\* What is known of step, left, attempts and pass.
TaskInv ==
  /\ step \in Steps
  /\ left \in 0 .. 3
  /\ attempts \in 0 .. MaxReselections
  /\ pass \in 1 .. Rounds \cup 1 .. Passes \cup {2}
  /\ CallHasTries

LEMMA MaxReselectionsPositive ==
  /\ MaxReselections \in Nat /\ MaxReselections > 0
  /\ Rounds \in Nat /\ Rounds > 0
  /\ Passes \in Nat /\ Passes > 0
  /\ MaxLosses \in Nat /\ MaxArmings \in Nat
BY BoundsAssumption

\* A call that is begun with a try or a reselection has one left.
LEMMA CallTasks ==
  ASSUME NEW s \in Steps, NEW n \in 0 .. 3, NEW r \in Nat,
         s \in Calls => n > 0 \/ r > 0,
         Call(s, n, r)
  PROVE  step' = s /\ left' \in 0 .. 3 /\ attempts' \in 0 .. MaxReselections /\ CallHasTries'
BY MaxReselectionsPositive DEF Call, CallHasTries

LEMMA GotoTasks ==
  ASSUME NEW s \in Steps \ Calls, Goto(s)
  PROVE  step' = s /\ left' \in 0 .. 3 /\ attempts' \in 0 .. MaxReselections /\ CallHasTries'
BY CallTasks DEF Goto

\* Wherever a call that is given up leads, it is to a step with tries.
LEMMA GiveUpTasks ==
  ASSUME TaskInv, GiveUp
  PROVE  TaskInv'
<1>1. CASE step = "request"
  <2>1. Call("request_again", 1, 2) /\ UNCHANGED pass
    BY <1>1 DEF GiveUp
  <2> QED BY <2>1, CallTasks DEF TaskInv, Steps, Calls
<1>2. CASE step = "request_again" \/ (step = "sign" /\ pass = 1)
           \/ step \in {"result_select", "result"}
  BY <1>2, GotoTasks DEF GiveUp, TaskInv, Steps, Calls, Waits
<1>3. CASE step = "verify"
  <2>1. NextRound
    BY <1>3 DEF GiveUp
  <2> QED BY <2>1, GotoTasks, MaxReselectionsPositive
          DEF NextRound, Abort, TaskInv, Steps, Calls, Waits
<1>4. CASE step = "base"
  <2>1. NextPass(1)
    BY <1>4 DEF GiveUp
  <2> QED BY <2>1, GotoTasks, CallTasks, MaxReselectionsPositive
          DEF NextPass, Abort, TaskInv, Steps, Calls, Waits
<1>5. CASE step = "write"
  BY <1>5, GotoTasks DEF GiveUp, WriteFailed, Abort, TaskInv, Steps, Calls, Waits
<1>6. CASE /\ step \notin {"request", "request_again", "verify", "base", "write",
                           "result_select", "result"}
           /\ ~(step = "sign" /\ pass = 1)
  <2>1. Abort
    BY <1>6 DEF GiveUp
  <2> QED BY <2>1, GotoTasks DEF Abort, TaskInv, Steps, Calls, Waits
<1> QED BY <1>1, <1>2, <1>3, <1>4, <1>5, <1>6

LEMMA UnansweredTasks ==
  ASSUME TaskInv, left > 0, Unanswered
  PROVE  TaskInv'
<1>1. CASE left > 1 \/ attempts > 0
  BY <1>1 DEF Unanswered, TaskInv, CallHasTries
<1>2. CASE ~(left > 1 \/ attempts > 0)
  BY <1>2, GiveUpTasks DEF Unanswered
<1> QED BY <1>1, <1>2

LEMMA InvInParts == NfcInv <=> TaskInv /\ RestInv
BY DEF NfcInv, NfcTypeOK, TaskInv, RestInv, Steps

LEMMA InvFromParts == ASSUME TaskInv', RestInv' PROVE NfcInv'
BY DEF NfcInv, NfcTypeOK, TaskInv, RestInv, Steps

-----------------------------------------------------------------------------
(* One exchange.                                                             *)

LEMMA ReplyTypes ==
  ASSUME RestInv, linked, NEW apdu \in Apdus
  PROVE  ReplyTo(apdu) \in Replies /\ [ReplyTo(apdu) EXCEPT !.ok = FALSE] \in Replies
<1>1. at \in Phones
  BY NoPhoneAssumption DEF RestInv, ListedIsThere
<1>2. Serves(apdu) \in BOOLEAN
  BY <1>1 DEF Serves, RestInv
<1>3. challenge[at] \in Challenges
  BY <1>1 DEF RestInv
<1>4. (IF ~Serves(apdu) THEN "none"
       ELSE CASE apdu = "verify" -> challenge[at]
              [] apdu = "sign"   -> "this"
              [] OTHER           -> "none") \in Challenges
  BY <1>3 DEF Challenges
<1> QED BY <1>1, <1>2, <1>4 DEF ReplyTo, Replies

LEMMA PossibleTypes ==
  ASSUME RestInv, NEW apdu \in Apdus, NEW reply \in PossibleReplies(apdu)
  PROVE  reply \in Replies \cup {Silence}
BY ReplyTypes DEF PossibleReplies, RestInv

\* What the phone does keeps the types.
LEMMA PhoneTypes ==
  ASSUME RestInv, linked, NEW apdu \in Apdus, PhoneDoes(apdu)
  PROVE  /\ selected' \in BOOLEAN
         /\ challenge' \in [Phones -> Challenges]
         /\ bound' \subseteq Phones /\ told' \subseteq Phones
         /\ macced' \subseteq Phones /\ signed' \subseteq Phones
<1>1. at \in Phones
  BY NoPhoneAssumption DEF RestInv, ListedIsThere
<1>2. selected' \in BOOLEAN
  BY DEF PhoneDoes, RestInv
<1>3. challenge' \in [Phones -> Challenges]
  BY <1>1 DEF PhoneDoes, RestInv, Challenges
<1> QED BY <1>1, <1>2, <1>3 DEF PhoneDoes, RestInv

LEMMA ExchangeTypes ==
  ASSUME RestInv, NEW apdu \in Apdus, NEW reply \in PossibleReplies(apdu), Try(apdu, reply),
         base' \in Phones \cup {NoPhone}
  PROVE  RestInv'
<1>1. /\ late' \in Replies \cup {Silence} /\ losses' \in 0 .. MaxLosses
      /\ selected' \in BOOLEAN /\ challenge' \in [Phones -> Challenges]
      /\ bound' \subseteq Phones /\ told' \subseteq Phones
      /\ macced' \subseteq Phones /\ signed' \subseteq Phones
  <2>1. CASE ~linked
    BY <2>1 DEF Try, Exchange, PhoneIdle, RestInv
  <2>2. CASE linked
    <3>1. CASE PhoneDoes(apdu)
      <4>1. late' \in {late, Silence, ReplyTo(apdu)} /\ losses' \in 0 .. MaxLosses
        BY <2>2, MaxReselectionsPositive DEF Try, Exchange, RestInv
      <4> QED BY <2>2, <3>1, <4>1, PhoneTypes, ReplyTypes DEF RestInv
    <3>2. CASE PhoneIdle
      <4>1. late' \in {late, Silence, ReplyTo(apdu)} /\ losses' \in 0 .. MaxLosses
        BY <2>2, MaxReselectionsPositive DEF Try, Exchange, RestInv
      <4> QED BY <2>2, <3>2, <4>1, ReplyTypes DEF RestInv, PhoneIdle
    <3> QED BY <2>2, <3>1, <3>2 DEF Try, Exchange
  <2> QED BY <2>1, <2>2 DEF RestInv
<1> QED BY <1>1 DEF Try, RestInv, ListedIsThere, recordVars

-----------------------------------------------------------------------------
(* The outcomes of a step, as far as TaskInv goes.                           *)

LEMMA AbortTasks == ASSUME TaskInv, Abort PROVE TaskInv'
BY GotoTasks DEF Abort, TaskInv, Steps, Calls, Waits

LEMMA NextRoundTasks == ASSUME TaskInv, NextRound PROVE TaskInv'
<1>1. CASE pass < Rounds
  BY <1>1, GotoTasks, MaxReselectionsPositive DEF NextRound, TaskInv, Steps, Calls, Waits
<1>2. CASE ~(pass < Rounds)
  BY <1>2, AbortTasks DEF NextRound
<1> QED BY <1>1, <1>2

LEMMA NextPassTasks == ASSUME TaskInv, NEW n \in 0 .. 3, NextPass(n) PROVE TaskInv'
<1>1. CASE pass < Passes
  <2>1. Call("base", n, 4) /\ pass' = pass + 1
    BY <1>1 DEF NextPass
  <2> QED BY <1>1, <2>1, CallTasks, MaxReselectionsPositive DEF TaskInv, Steps, Calls
<1>2. CASE ~(pass < Passes)
  BY <1>2, AbortTasks DEF NextPass
<1> QED BY <1>1, <1>2

LEMMA CallKeepsPass ==
  ASSUME TaskInv, NEW s \in Steps, NEW n \in 0 .. 3, NEW r \in Nat,
         s \in Calls => n > 0 \/ r > 0, Call(s, n, r), pass' \in {pass, 1, 2}
  PROVE  TaskInv'
BY CallTasks, MaxReselectionsPositive DEF TaskInv

LEMMA GotoKeepsPass ==
  ASSUME TaskInv, NEW s \in Steps \ Calls, Goto(s), pass' \in {pass, 1, 2}
  PROVE  TaskInv'
BY GotoTasks, MaxReselectionsPositive DEF TaskInv

-----------------------------------------------------------------------------
(* The types, action by action.                                              *)

\* A reselection lists the phone that is there, or none.
LEMMA ReselectionTypes ==
  ASSUME RestInv, Reselected \/ ReselectFails,
         UNCHANGED <<at, faults, shouldForce, base, recordVars, phoneVars, historyVars>>
  PROVE  RestInv'
<1>1. /\ linked' \in BOOLEAN /\ selected' \in BOOLEAN /\ late' = Silence
      /\ linked' => at # NoPhone
  BY DEF Reselected, ReselectFails
<1>2. losses' \in 0 .. MaxLosses
  BY MaxReselectionsPositive DEF Reselected, ReselectFails, RestInv
<1> QED BY <1>1, <1>2
        DEF RestInv, ListedIsThere, recordVars, phoneVars, historyVars, sessionVars

LEMMA ReselectTypes == ASSUME NfcInv, Reselect PROVE NfcInv'
<1> USE InvInParts
<1>1. RestInv'
  <2>1. Reselected \/ ReselectFails
    BY DEF Reselect
  <2> QED BY <2>1, ReselectionTypes DEF Reselect
<1>2. TaskInv'
  <2>1. ASSUME Reselected, left' = 1, attempts' = attempts - 1, UNCHANGED <<step, pass>>
        PROVE  TaskInv'
    BY <2>1, MaxReselectionsPositive DEF Reselect, TaskInv, CallHasTries
  <2>2. CASE attempts > 1 /\ attempts' = attempts - 1 /\ UNCHANGED <<step, left, pass>>
    BY <2>2, MaxReselectionsPositive DEF TaskInv, CallHasTries
  <2>3. CASE GiveUp
    BY <2>3, GiveUpTasks
  <2> QED BY <2>1, <2>2, <2>3 DEF Reselect
<1> QED BY <1>1, <1>2, InvFromParts

LEMMA RecoverTypes == ASSUME NfcInv, Recover PROVE NfcInv'
<1> USE InvInParts
<1>1. RestInv'
  <2>1. Reselected \/ ReselectFails
    BY DEF Recover
  <2> QED BY <2>1, ReselectionTypes DEF Recover
<1>2. TaskInv'
  <2>1. CASE Call("request", 3, 0) /\ UNCHANGED pass
    BY <2>1, CallKeepsPass DEF Steps, Calls
  <2>2. CASE Call("verify", 1, 3) /\ UNCHANGED pass
    BY <2>2, CallKeepsPass DEF Steps, Calls
  <2>3. CASE NextRound
    BY <2>3, NextRoundTasks
  <2> QED BY <2>1, <2>2, <2>3 DEF Recover
<1> QED BY <1>1, <1>2, InvFromParts

LEMMA SelectAidTypes == ASSUME NfcInv, SelectAid PROVE NfcInv'
<1> USE InvInParts
<1>1. PICK reply \in PossibleReplies("select") :
        /\ Try("select", reply)
        /\ \/ reply = Silence /\ Unanswered
           \/ Selects(reply) /\ Goto("perform") /\ UNCHANGED pass
           \/ reply # Silence /\ ~Selects(reply) /\ Abort
  BY DEF SelectAid
<1>2. RestInv'
  BY <1>1, ExchangeTypes DEF SelectAid, RestInv, Apdus
<1>3. TaskInv'
  <2>1. left > 0
    BY <1>1 DEF Try
  <2>2. CASE Goto("perform") /\ UNCHANGED pass
    BY <2>2, GotoKeepsPass DEF Steps, Calls
  <2> QED BY <1>1, <2>1, <2>2, UnansweredTasks, AbortTasks
<1> QED BY <1>2, <1>3, InvFromParts

LEMMA RequestTypes == ASSUME NfcInv, Request PROVE NfcInv'
<1> USE InvInParts
<1>1. PICK reply \in PossibleReplies("request") :
        /\ Try("request", reply)
        /\ \/ reply = Silence /\ Unanswered
           \/ reply.ok /\ Call("verify", 1, 3) /\ UNCHANGED pass
           \/ reply # Silence /\ ~reply.ok /\ GiveUp
  BY DEF Request
<1>2. RestInv'
  BY <1>1, ExchangeTypes DEF Request, RestInv, Apdus
<1>3. TaskInv'
  <2>1. left > 0
    BY <1>1 DEF Try
  <2>2. CASE Call("verify", 1, 3) /\ UNCHANGED pass
    BY <2>2, CallKeepsPass DEF Steps, Calls
  <2> QED BY <1>1, <2>1, <2>2, UnansweredTasks, GiveUpTasks
<1> QED BY <1>2, <1>3, InvFromParts

LEMMA VerifyTypes == ASSUME NfcInv, Verify PROVE NfcInv'
<1> USE InvInParts
<1>1. PICK reply \in PossibleReplies("verify") :
        /\ Try("verify", reply)
        /\ \/ reply = Silence /\ Unanswered
           \/ reply.ok /\ MacHolds(reply) /\ Call("base", 1, 4) /\ pass' = 1
           \/ reply # Silence /\ ~(reply.ok /\ MacHolds(reply)) /\ NextRound
  BY DEF Verify
<1>2. RestInv'
  BY <1>1, ExchangeTypes DEF Verify, RestInv, Apdus
<1>3. TaskInv'
  <2>1. left > 0
    BY <1>1 DEF Try
  <2>2. CASE Call("base", 1, 4) /\ pass' = 1
    BY <2>2, CallKeepsPass DEF Steps, Calls
  <2> QED BY <1>1, <2>1, <2>2, UnansweredTasks, NextRoundTasks
<1> QED BY <1>2, <1>3, InvFromParts

LEMMA BaseGetDataTypes == ASSUME NfcInv, BaseGetData PROVE NfcInv'
<1> USE InvInParts
<1>1. PICK reply \in PossibleReplies("base") :
        /\ Try("base", reply)
        /\ \/ reply = Silence /\ Unanswered /\ UNCHANGED base
           \/ /\ reply.ok /\ ParseBaseResponse(reply)
              /\ Call("write", 2, 6) /\ pass' = 1 /\ base' = reply.from
           \/ /\ reply # Silence /\ ~(reply.ok /\ ParseBaseResponse(reply))
              /\ NextPass(IF reply.ok THEN 0 ELSE 1)
              /\ UNCHANGED base
  BY DEF BaseGetData
<1>2. reply \in Replies \cup {Silence}
  BY PossibleTypes DEF Apdus
<1>3. base' \in Phones \cup {NoPhone}
  BY <1>1, <1>2 DEF RestInv, Replies, Silence
<1>4. RestInv'
  BY <1>1, <1>3, ExchangeTypes DEF Apdus
<1>5. TaskInv'
  <2>1. left > 0
    BY <1>1 DEF Try
  <2>2. CASE Call("write", 2, 6) /\ pass' = 1
    BY <2>2, CallKeepsPass DEF Steps, Calls
  <2>3. CASE NextPass(IF reply.ok THEN 0 ELSE 1)
    BY <2>3, NextPassTasks
  <2> QED BY <1>1, <2>1, <2>2, <2>3, UnansweredTasks
<1> QED BY <1>4, <1>5, InvFromParts

LEMMA WriteDataTypes == ASSUME NfcInv, WriteData PROVE NfcInv'
<1> USE InvInParts
<1>1. PICK reply \in PossibleReplies("write") :
        /\ Try("write", reply)
        /\ \/ reply = Silence /\ Unanswered
           \/ reply.ok /\ Call("sign", 2, 5) /\ UNCHANGED pass
           \/ reply # Silence /\ ~reply.ok /\ Abort
  BY DEF WriteData
<1>2. RestInv'
  BY <1>1, ExchangeTypes DEF WriteData, RestInv, Apdus
<1>3. TaskInv'
  <2>1. left > 0
    BY <1>1 DEF Try
  <2>2. CASE Call("sign", 2, 5) /\ UNCHANGED pass
    BY <2>2, CallKeepsPass DEF Steps, Calls
  <2> QED BY <1>1, <2>1, <2>2, UnansweredTasks, AbortTasks
<1> QED BY <1>2, <1>3, InvFromParts

LEMMA SignatureGetDataTypes == ASSUME NfcInv, SignatureGetData PROVE NfcInv'
<1> USE InvInParts
<1>1. PICK reply \in PossibleReplies("sign") :
        /\ Try("sign", reply)
        /\ \/ reply = Silence /\ Unanswered
           \/ reply.ok /\ SignatureHolds(reply) /\ Goto("op_select") /\ UNCHANGED pass
           \/ reply.ok /\ ~SignatureHolds(reply) /\ Abort
           \/ reply # Silence /\ ~reply.ok /\ GiveUp
  BY DEF SignatureGetData
<1>2. RestInv'
  BY <1>1, ExchangeTypes DEF SignatureGetData, RestInv, Apdus
<1>3. TaskInv'
  <2>1. left > 0
    BY <1>1 DEF Try
  <2>2. CASE Goto("op_select") /\ UNCHANGED pass
    BY <2>2, GotoKeepsPass DEF Steps, Calls
  <2> QED BY <1>1, <2>1, <2>2, UnansweredTasks, AbortTasks, GiveUpTasks
<1> QED BY <1>2, <1>3, InvFromParts

LEMMA OpControlFlowTypes == ASSUME NfcInv, OpControlFlow PROVE NfcInv'
<1> USE InvInParts
<1>1. PICK reply \in PossibleReplies("op_control") :
        /\ Try("op_control", reply)
        /\ \/ reply = Silence /\ Unanswered
           \/ reply.ok /\ Goto("store") /\ UNCHANGED pass
           \/ reply # Silence /\ ~reply.ok /\ Abort
  BY DEF OpControlFlow
<1>2. RestInv'
  BY <1>1, ExchangeTypes DEF OpControlFlow, RestInv, Apdus
<1>3. TaskInv'
  <2>1. left > 0
    BY <1>1 DEF Try
  <2>2. CASE Goto("store") /\ UNCHANGED pass
    BY <2>2, GotoKeepsPass DEF Steps, Calls
  <2> QED BY <1>1, <2>1, <2>2, UnansweredTasks, AbortTasks
<1> QED BY <1>2, <1>3, InvFromParts

LEMMA ResultTypes == ASSUME NfcInv, ResultSelect \/ ProvisionResult PROVE NfcInv'
<1> USE InvInParts
<1>1. CASE ResultSelect
  <2>1. PICK reply \in PossibleReplies("select") :
          /\ Try("select", reply)
          /\ \/ reply = Silence /\ Unanswered
             \/ Selects(reply) /\ Call("result", ResultTries, 0) /\ UNCHANGED pass
             \/ reply # Silence /\ ~Selects(reply) /\ Goto("finish") /\ UNCHANGED pass
    BY <1>1 DEF ResultSelect
  <2>2. RestInv'
    BY <1>1, <2>1, ExchangeTypes DEF ResultSelect, RestInv, Apdus
  <2>3. left > 0
    BY <2>1 DEF Try
  <2>4. ASSUME Call("result", ResultTries, 0) /\ UNCHANGED pass PROVE TaskInv'
    BY <2>4, CallKeepsPass DEF Steps, Calls, ResultTries
  <2>5. ASSUME Goto("finish") /\ UNCHANGED pass PROVE TaskInv'
    BY <2>5, GotoKeepsPass DEF Steps, Calls
  <2>6. TaskInv'
    BY <2>1, <2>3, <2>4, <2>5, UnansweredTasks
  <2> QED BY <2>2, <2>6, InvFromParts
<1>2. CASE ProvisionResult
  <2>1. PICK reply \in PossibleReplies("result") :
          /\ Try("result", reply)
          /\ \/ reply = Silence /\ Unanswered
             \/ reply # Silence /\ Goto("finish") /\ UNCHANGED pass
    BY <1>2 DEF ProvisionResult
  <2>2. RestInv'
    BY <1>2, <2>1, ExchangeTypes DEF ProvisionResult, RestInv, Apdus
  <2>3. left > 0
    BY <2>1 DEF Try
  <2>4. ASSUME Goto("finish") /\ UNCHANGED pass PROVE TaskInv'
    BY <2>4, GotoKeepsPass DEF Steps, Calls
  <2>5. TaskInv'
    BY <2>1, <2>3, <2>4, UnansweredTasks
  <2> QED BY <2>2, <2>5, InvFromParts
<1> QED BY <1>1, <1>2

LEMMA PollTypes == ASSUME NfcInv, Poll PROVE NfcInv'
<1> USE InvInParts
<1>1. TaskInv'
  BY CallKeepsPass DEF Poll, Steps, Calls
<1>2. RestInv'
  BY DEF Poll, RestInv, ListedIsThere, recordVars, phoneVars
<1> QED BY <1>1, <1>2, InvFromParts

LEMMA PerformTypes == ASSUME NfcInv, Perform PROVE NfcInv'
<1> USE InvInParts
<1>1. TaskInv'
  BY CallKeepsPass, GotoKeepsPass DEF Perform, Steps, Calls, Waits
<1>2. challenge' \in [Phones -> Challenges] /\ shouldForce' \in BOOLEAN
  BY DEF Perform, RestInv, Challenges
<1>3. RestInv'
  BY <1>2 DEF Perform, RestInv, ListedIsThere, fieldVars, recordVars, historyVars, sessionVars
<1> QED BY <1>1, <1>3, InvFromParts

LEMMA SignAgainTypes == ASSUME NfcInv, SignAgain PROVE NfcInv'
<1> USE InvInParts
<1>1. TaskInv'
  <2>1. CASE Abort
    BY <2>1, AbortTasks
  <2>2. CASE Call("sign", 2, 5) /\ pass' = 2
    BY <2>2, CallKeepsPass DEF Steps, Calls
  <2> QED BY <2>1, <2>2 DEF SignAgain
<1>2. ASSUME Released, UNCHANGED losses
      PROVE  RestInv'
  BY <1>2 DEF SignAgain, Released, RestInv, ListedIsThere, recordVars, phoneVars, historyVars,
              sessionVars
<1>3. ASSUME linked, losses < MaxLosses, losses' = losses + 1, selected' = TRUE,
             late' = Silence, UNCHANGED linked
      PROVE  RestInv'
  <2>1. losses' \in 0 .. MaxLosses
    BY <1>3, MaxReselectionsPositive DEF RestInv
  <2>2. linked' \in BOOLEAN /\ (linked' => at' # NoPhone)
    BY <1>3 DEF SignAgain, RestInv, ListedIsThere
  <2> QED BY <1>3, <2>1, <2>2
          DEF SignAgain, RestInv, ListedIsThere, recordVars, phoneVars, historyVars, sessionVars
<1>4. RestInv'
  BY <1>2, <1>3 DEF SignAgain
<1> QED BY <1>1, <1>4, InvFromParts

LEMMA OpSelectTypes == ASSUME NfcInv, OpSelect PROVE NfcInv'
<1> USE InvInParts
<1>1. TaskInv'
  <2>1. CASE Abort
    BY <2>1, AbortTasks
  <2>2. CASE Call("op_control", 1, 3) /\ UNCHANGED pass
    BY <2>2, CallKeepsPass DEF Steps, Calls
  <2> QED BY <2>1, <2>2 DEF OpSelect
<1>2. RestInv'
  BY ReselectionTypes DEF OpSelect
<1> QED BY <1>1, <1>2, InvFromParts

LEMMA StoreTypes == ASSUME NfcInv, Store PROVE NfcInv'
<1> USE InvInParts
<1>1. TaskInv'
  <2>1. CASE Abort
    BY <2>1, AbortTasks
  <2>2. CASE Call("result_select", 2, 0) /\ UNCHANGED pass
    BY <2>2, CallKeepsPass DEF Steps, Calls
  <2> QED BY <2>1, <2>2 DEF Store
<1>2. RestInv'
  BY DEF Store, RestInv, ListedIsThere, fieldVars, phoneVars
<1> QED BY <1>1, <1>2, InvFromParts

LEMMA FinishTypes == ASSUME NfcInv, Finish PROVE NfcInv'
<1> USE InvInParts
<1>1. TaskInv'
  BY GotoKeepsPass DEF Finish, Steps, Calls, Waits
<1>2. RestInv'
  BY DEF Finish, FlagsAfterSuccess, RestInv, ListedIsThere, fieldVars, phoneVars,
         historyVars, sessionVars
<1> QED BY <1>1, <1>2, InvFromParts

LEMMA SessionOverTypes == ASSUME NfcInv, SessionOver PROVE NfcInv'
<1> USE InvInParts
<1>1. TaskInv'
  BY GotoKeepsPass DEF SessionOver, Steps, Calls, Waits
<1>2. RestInv'
  BY DEF SessionOver, Released, RestInv, ListedIsThere, recordVars, phoneVars
<1> QED BY <1>1, <1>2, InvFromParts

\* The phones and the operator leave nfcTask where it is.
LEMMA PeopleTypes == ASSUME NfcInv, People PROVE NfcInv'
<1> USE InvInParts
<1>1. TaskInv'
  BY DEF People, Leave, Tap, StartProvisioning, ClearHceSession, ChallengeLapses,
         TaskInv, CallHasTries, taskVars
<1>2. CASE Leave
  BY <1>1, <1>2, InvFromParts
     DEF Leave, RestInv, ListedIsThere, taskVars, recordVars, phoneVars, historyVars, sessionVars
<1>3. ASSUME NEW p \in Phones, Tap(p) PROVE NfcInv'
  BY <1>1, <1>3, InvFromParts, NoPhoneAssumption
     DEF Tap, RestInv, ListedIsThere, taskVars, recordVars, phoneVars, historyVars, sessionVars
<1>4. ASSUME NEW p \in Phones, StartProvisioning(p) \/ ClearHceSession(p) PROVE NfcInv'
  BY <1>1, <1>4, InvFromParts
     DEF StartProvisioning, ClearHceSession, RestInv, ListedIsThere, fieldVars, taskVars,
         recordVars, historyVars, sessionVars
<1>5. ASSUME NEW p \in Phones, ChallengeLapses(p) PROVE NfcInv'
  <2>1. challenge' \in [Phones -> Challenges]
    BY <1>5 DEF ChallengeLapses, RestInv, Challenges
  <2> QED BY <1>1, <1>5, <2>1, InvFromParts
          DEF ChallengeLapses, RestInv, ListedIsThere, fieldVars, taskVars, recordVars,
              historyVars, sessionVars
<1> QED BY <1>2, <1>3, <1>4, <1>5 DEF People

LEMMA OperatorTypes == ASSUME NfcInv, Operator PROVE NfcInv'
<1> USE InvInParts
<1>1. TaskInv'
  BY DEF Operator, Arm, Disarm, Clear, TaskInv, CallHasTries, taskVars
<1>2. CASE Arm
  <2>1. armed' \in 0 .. MaxArmings
    BY <1>2, MaxReselectionsPositive DEF Arm, RestInv
  <2>2. RestInv'
    BY <1>2, <2>1
       DEF Arm, RestInv, ListedIsThere, fieldVars, taskVars, phoneVars, sessionVars
  <2> QED BY <1>1, <2>2, InvFromParts
<1>3. CASE Disarm
  BY <1>1, <1>3, InvFromParts
     DEF Disarm, RestInv, ListedIsThere, fieldVars, taskVars, phoneVars, historyVars, sessionVars
<1>4. ASSUME NEW all \in BOOLEAN, Clear(all) PROVE NfcInv'
  <2>1. force' \in BOOLEAN
    BY <1>4 DEF Clear
  <2>2. RestInv'
    BY <1>4, <2>1
       DEF Clear, RestInv, ListedIsThere, fieldVars, taskVars, phoneVars, historyVars,
           sessionVars
  <2> QED BY <1>1, <2>2, InvFromParts
<1> QED BY <1>2, <1>3, <1>4 DEF Operator

LEMMA NfcInvKept == NfcInv /\ [NfcNext]_nfcVars => NfcInv'
<1> SUFFICES ASSUME NfcInv, [NfcNext]_nfcVars PROVE NfcInv'
  OBVIOUS
<1>1. CASE NfcTask
  BY <1>1, PollTypes, SelectAidTypes, PerformTypes, RecoverTypes, RequestTypes, VerifyTypes,
     BaseGetDataTypes, WriteDataTypes, SignatureGetDataTypes, SignAgainTypes, OpSelectTypes,
     OpControlFlowTypes, StoreTypes, ResultTypes, FinishTypes, SessionOverTypes, ReselectTypes
     DEF NfcTask
<1>2. CASE People \/ Operator
  BY <1>2, PeopleTypes, OperatorTypes
<1>3. CASE UNCHANGED nfcVars
  BY <1>3 DEF nfcVars, fieldVars, taskVars, recordVars, phoneVars, historyVars, sessionVars,
              NfcInv, NfcTypeOK, CallHasTries, ListedIsThere
<1> QED BY <1>1, <1>2, <1>3 DEF NfcNext

LEMMA NfcInvHolds == NfcSpec => []NfcInv
<1>1. NfcInit => NfcInv
  <2> SUFFICES ASSUME NfcInit PROVE NfcInv
    OBVIOUS
  <2>1. TaskInv
    BY MaxReselectionsPositive DEF NfcInit, TaskInv, CallHasTries, Steps, Calls, Waits
  <2>2. faults \subseteq {"swap", "stale"}
    BY DEF NfcInit
  <2>3. challenge \in [Phones -> Challenges]
    BY DEF NfcInit, Challenges
  <2>4. 0 \in 0 .. MaxLosses /\ 0 \in 0 .. MaxArmings
    BY MaxReselectionsPositive
  <2>5. RestInv
    BY <2>2, <2>3, <2>4 DEF NfcInit, RestInv, ListedIsThere
  <2> QED BY <2>1, <2>5, InvInParts
<1> QED BY <1>1, NfcInvKept, PTL DEF NfcSpec

(* nfcTask's counters and the phones' records keep their types through every *)
(* retry, reselection and pass, and no call runs out of tries below zero.    *)
THEOREM NfcTypeCorrect == NfcSpec => []NfcTypeOK
<1>1. NfcInv => NfcTypeOK
  BY DEF NfcInv
<1> QED BY <1>1, NfcInvHolds, PTL

-----------------------------------------------------------------------------
(* Where a step leads.  The steps after the MAC, after the base answer,      *)
(* after the binding and after the signature are entered in that order.      *)

AfterSign  == {"op_select", "op_control", "store"}
AfterWrite == AfterSign \cup {"sign", "sign_again"}
AfterBase  == AfterWrite \cup {"write"}
AfterMac   == AfterBase \cup {"base"}
Deciding   == AfterMac \cup {"request", "request_again", "verify", "again", "anyway"}
Reporting  == {"result_select", "result", "finish"}

\* The session is retried, is given up, or goes on within the same part.
NoFurther ==
  /\ step \notin Waits
  /\ step \in Deciding => step' \in Deciding \cup {"cooldown"}
  /\ step \in Reporting => step' \in Reporting
  /\ step \notin Deciding \cup Reporting => step' \notin Deciding \cup Reporting
  /\ step' \in AfterMac => step \in AfterMac
  /\ step' \in AfterBase => step \in AfterBase
  /\ step' \in AfterWrite => step \in AfterWrite
  /\ step' \in AfterSign => step \in AfterSign

LEMMA GiveUpNoFurther == ASSUME step \in Calls, GiveUp PROVE NoFurther
<1> USE DEF NoFurther, Deciding, Reporting, AfterMac, AfterBase, AfterWrite, AfterSign, Calls,
            Waits, Goto, Call, Abort
<1>1. CASE step \in {"request", "request_again", "sign"}
  BY <1>1 DEF GiveUp
<1>2. CASE step = "verify"
  BY <1>2 DEF GiveUp, NextRound
<1>3. CASE step = "base"
  BY <1>3 DEF GiveUp, NextPass
<1>4. CASE step \in {"write", "select", "op_control", "result_select", "result"}
  BY <1>4 DEF GiveUp, WriteFailed
<1> QED BY <1>1, <1>2, <1>3, <1>4

LEMMA UnansweredNoFurther == ASSUME step \in Calls, Unanswered PROVE NoFurther
<1>1. CASE UNCHANGED step
  BY <1>1 DEF NoFurther, Calls, Waits
<1>2. CASE GiveUp
  BY <1>2, GiveUpNoFurther
<1> QED BY <1>1, <1>2 DEF Unanswered

\* What the reply to one call lets the session go on to.
Leads(apdu, reply) ==
  /\ Try(apdu, reply)
  /\ apdu = "result" => step \in Reporting
  /\ step \in Calls
  /\ \/ NoFurther /\ base' = base
     \/ /\ step = "verify" /\ step' = "base" /\ base' = base
        /\ reply.ok /\ MacHolds(reply)
     \/ /\ step = "base" /\ step' = "write" /\ base' = reply.from
        /\ reply.ok /\ ParseBaseResponse(reply)
     \/ /\ step = "write" /\ step' = "sign" /\ base' = base /\ apdu = "write"
        /\ reply # Silence /\ reply.ok
     \/ /\ step = "sign" /\ step' = "op_select" /\ base' = base
        /\ reply.ok /\ SignatureHolds(reply)

Progress == \E apdu \in Apdus : \E reply \in PossibleReplies(apdu) : Leads(apdu, reply)

Exchanges == SelectAid \/ Request \/ Verify \/ BaseGetData \/ WriteData \/ SignatureGetData
             \/ OpControlFlow \/ ResultSelect \/ ProvisionResult

LEMMA ExchangeProgress == ASSUME Exchanges PROVE Progress
<1> USE GiveUpNoFurther, UnansweredNoFurther DEF Apdus, Calls
<1>1. CASE SelectAid
  <2>1. ASSUME step = "select", Goto("perform") \/ Abort PROVE NoFurther
    BY <2>1 DEF Goto, Call, Abort, NoFurther, Deciding, Reporting, AfterMac, AfterBase,
                AfterWrite, AfterSign, Waits
  <2> QED BY <1>1, <2>1 DEF SelectAid, Progress, Leads
<1>2. CASE Request
  <2>1. ASSUME step \in {"request", "request_again"}, Call("verify", 1, 3) PROVE NoFurther
    BY <2>1 DEF Call, NoFurther, Deciding, Reporting, AfterMac, AfterBase, AfterWrite,
                AfterSign, Waits
  <2> QED BY <1>2, <2>1 DEF Request, Progress, Leads
<1>3. CASE Verify
  <2>1. ASSUME step = "verify", NextRound PROVE NoFurther
    BY <2>1 DEF NextRound, Goto, Call, Abort, NoFurther, Deciding, Reporting, AfterMac,
                AfterBase, AfterWrite, AfterSign, Waits
  <2>2. ASSUME Call("base", 1, 4) PROVE step' = "base"
    BY <2>2 DEF Call
  <2> QED BY <1>3, <2>1, <2>2 DEF Verify, Progress, Leads
<1>4. CASE BaseGetData
  <2>1. ASSUME NEW n, step = "base", NextPass(n) PROVE NoFurther
    BY <2>1 DEF NextPass, Goto, Call, Abort, NoFurther, Deciding, Reporting, AfterMac,
                AfterBase, AfterWrite, AfterSign, Waits
  <2>2. ASSUME Call("write", 2, 6) PROVE step' = "write"
    BY <2>2 DEF Call
  <2> QED BY <1>4, <2>1, <2>2 DEF BaseGetData, Progress, Leads
<1>5. CASE WriteData
  <2>1. ASSUME step = "write", Abort PROVE NoFurther
    BY <2>1 DEF Goto, Call, Abort, NoFurther, Deciding, Reporting, AfterMac, AfterBase,
                AfterWrite, AfterSign, Waits
  <2>2. ASSUME Call("sign", 2, 5) PROVE step' = "sign"
    BY <2>2 DEF Call
  <2>3. ~Silence.ok
    BY DEF Silence
  <2> QED BY <1>5, <2>1, <2>2, <2>3 DEF WriteData, Progress, Leads
<1>6. CASE SignatureGetData
  <2>1. ASSUME step = "sign", Abort PROVE NoFurther
    BY <2>1 DEF Goto, Call, Abort, NoFurther, Deciding, Reporting, AfterMac, AfterBase,
                AfterWrite, AfterSign, Waits
  <2>2. ASSUME Goto("op_select") PROVE step' = "op_select"
    BY <2>2 DEF Goto, Call
  <2> QED BY <1>6, <2>1, <2>2 DEF SignatureGetData, Progress, Leads
<1>7. CASE OpControlFlow
  <2>1. ASSUME step = "op_control", Goto("store") \/ Abort PROVE NoFurther
    BY <2>1 DEF Goto, Call, Abort, NoFurther, Deciding, Reporting, AfterMac, AfterBase,
                AfterWrite, AfterSign, Waits
  <2> QED BY <1>7, <2>1 DEF OpControlFlow, Progress, Leads
<1>8. CASE ResultSelect
  <2>1. ASSUME step = "result_select", Call("result", ResultTries, 0) \/ Goto("finish")
        PROVE NoFurther
    BY <2>1 DEF Goto, Call, NoFurther, Deciding, Reporting, AfterMac, AfterBase,
                AfterWrite, AfterSign, Waits
  <2> QED BY <1>8, <2>1 DEF ResultSelect, Progress, Leads
<1>9. CASE ProvisionResult
  <2>1. ASSUME step = "result", Goto("finish") PROVE NoFurther
    BY <2>1 DEF Goto, Call, NoFurther, Deciding, Reporting, AfterMac, AfterBase,
                AfterWrite, AfterSign, Waits
  <2> QED BY <1>9, <2>1 DEF ProvisionResult, Progress, Leads, Reporting
<1> QED BY <1>1, <1>2, <1>3, <1>4, <1>5, <1>6, <1>7, <1>8, <1>9 DEF Exchanges

\* The steps that only list the phone again, or release it.
FieldSteps == Reselect \/ Recover \/ SignAgain \/ OpSelect

LEMMA FieldProgress ==
  ASSUME FieldSteps
  PROVE  /\ NoFurther /\ late' = Silence
         /\ UNCHANGED <<at, faults, shouldForce, base, recordVars, phoneVars, historyVars>>
<1> USE DEF Goto, Call, Abort, NoFurther, Deciding, Reporting, AfterMac, AfterBase,
            AfterWrite, AfterSign, Waits, Calls
<1>1. CASE Reselect
  BY <1>1, GiveUpNoFurther DEF Reselect, Reselected, ReselectFails
<1>2. CASE Recover
  BY <1>2 DEF Recover, Reselected, ReselectFails, NextRound
<1>3. CASE SignAgain
  BY <1>3 DEF SignAgain, Released
<1>4. CASE OpSelect
  BY <1>4 DEF OpSelect, Reselected, ReselectFails
<1> QED BY <1>1, <1>2, <1>3, <1>4 DEF FieldSteps

LEMMA NextByKind ==
  ASSUME [NfcNext]_nfcVars
  PROVE  \/ Exchanges \/ FieldSteps \/ Poll \/ Perform \/ Store \/ Finish \/ SessionOver
         \/ People \/ Operator \/ UNCHANGED nfcVars
BY DEF NfcNext, NfcTask, Exchanges, FieldSteps

-----------------------------------------------------------------------------
(* One replacement for every order.  An order counts from its arming until   *)
(* the owner it replaces is replaced; the session that has read the flag     *)
(* carries it, whatever the operator does to the flag meanwhile.             *)

Outstanding ==
  IF shouldForce /\ step \in Deciding THEN 1
  ELSE IF shouldForce /\ step \in Reporting THEN 0
  ELSE IF force THEN 1 ELSE 0

OrderInv == replaced + Outstanding =< armed

LEMMA OrderInvKept == ASSUME NfcInv, OrderInv, [NfcNext]_nfcVars PROVE OrderInv'
<1> USE DEF OrderInv, Outstanding
<1>0. /\ armed \in Nat /\ replaced \in Nat
      /\ shouldForce \in BOOLEAN /\ force \in BOOLEAN
      /\ Deciding \cap Reporting = {} /\ Deciding \cap Waits = {} /\ Reporting \cap Waits = {}
  BY MaxReselectionsPositive
     DEF NfcInv, NfcTypeOK, Deciding, Reporting, Waits, AfterMac, AfterBase, AfterWrite, AfterSign
<1>1. ASSUME NoFurther, UNCHANGED <<shouldForce, force, replaced, armed>> PROVE OrderInv'
  BY <1>0, <1>1 DEF NoFurther, Reporting
<1>2. CASE Exchanges
  <2>1. UNCHANGED <<shouldForce, force, replaced, armed>>
    BY <1>2, ExchangeProgress DEF Progress, Leads, Try, recordVars
  <2>2. CASE step \in Deciding /\ step' \in Deciding
    BY <1>0, <2>1, <2>2
  <2>3. CASE ~(step \in Deciding /\ step' \in Deciding)
    <3>1. NoFurther
      BY <1>2, <2>3, ExchangeProgress
         DEF Progress, Leads, Deciding, AfterMac, AfterBase, AfterWrite, AfterSign
    <3> QED BY <1>1, <2>1, <3>1
  <2> QED BY <2>2, <2>3
<1>3. CASE FieldSteps
  BY <1>1, <1>3, FieldProgress DEF recordVars, historyVars
<1>4. CASE Poll
  <2>1. step' = "select" /\ UNCHANGED <<shouldForce, force, replaced, armed>>
    BY <1>4 DEF Poll, Call, recordVars
  <2>2. step \notin Deciding \cup Reporting /\ step' \notin Deciding \cup Reporting
    BY <1>4, <2>1 DEF Poll, Deciding, Reporting, AfterMac, AfterBase, AfterWrite, AfterSign
  <2> QED BY <1>0, <2>1, <2>2
<1>5. CASE Perform
  <2>1. step \notin Deciding \cup Reporting
    BY <1>5 DEF Perform, Deciding, Reporting, AfterMac, AfterBase, AfterWrite, AfterSign
  <2>2. UNCHANGED <<force, replaced, armed>>
    BY <1>5 DEF Perform, recordVars, historyVars
  <2>3. \/ step' = "removal"
        \/ step' = "request" /\ shouldForce' = force
    BY <1>5 DEF Perform, Goto, Call
  <2> QED BY <1>0, <2>1, <2>2, <2>3 DEF Deciding, Reporting, Waits
<1>6. CASE Store
  <2>1. step \in Deciding /\ UNCHANGED <<shouldForce, force, armed>>
    BY <1>6 DEF Store, Deciding, AfterMac, AfterBase, AfterWrite, AfterSign
  <2>2. CASE MayStore
    <3>1. step' = "result_select"
      BY <1>6, <2>2 DEF Store, Call
    <3>2. replaced' \in {replaced, replaced + 1} /\ (~shouldForce => replaced' = replaced)
      BY <1>6, <2>2 DEF Store, MayStore
    <3>3. step' \in Reporting /\ step' \notin Deciding
      BY <3>1, <1>0 DEF Reporting
    <3>4. CASE shouldForce
      <4>1. replaced + 1 =< armed
        BY <2>1, <3>4
      <4>2. replaced' =< armed'
        BY <1>0, <2>1, <3>2, <4>1
      <4>3. replaced' \in Nat
        BY <1>0, <3>2
      <4>4. Outstanding' = 0
        BY <2>1, <3>3, <3>4
      <4> QED BY <4>2, <4>3, <4>4
    <3>5. CASE ~shouldForce
      BY <1>0, <2>1, <3>2, <3>3, <3>5
    <3> QED BY <3>4, <3>5
  <2>3. CASE ~MayStore
    <3>1. step' = "cooldown" /\ replaced' = replaced
      BY <1>6, <2>3 DEF Store, Abort, Goto, Call
    <3> QED BY <1>0, <2>1, <3>1 DEF Waits
  <2> QED BY <2>2, <2>3
<1>7. CASE Finish
  <2>1. /\ step \in Reporting /\ step' = "removal"
        /\ force' = (force /\ ~shouldForce)
        /\ UNCHANGED <<shouldForce, replaced, armed>>
    BY <1>7 DEF Finish, FlagsAfterSuccess, Goto, Call, Reporting, historyVars
  <2> QED BY <1>0, <2>1 DEF Waits
<1>8. CASE SessionOver
  <2>1. step \in Waits /\ step' \in Waits /\ UNCHANGED <<force, replaced, armed>>
    BY <1>8 DEF SessionOver, Goto, Call, Waits, recordVars
  <2> QED BY <1>0, <2>1
<1>9. CASE People \/ UNCHANGED nfcVars
  <2>1. UNCHANGED <<step, shouldForce, force, replaced, armed>>
    BY <1>9 DEF People, Leave, Tap, StartProvisioning, ClearHceSession, ChallengeLapses,
                nfcVars, taskVars, recordVars, historyVars
  <2> QED BY <2>1
<1>10. CASE Operator
  <2>1. UNCHANGED <<step, shouldForce, replaced>>
    BY <1>10 DEF Operator, Arm, Disarm, Clear, taskVars, historyVars
  <2>2. \/ armed' = armed + 1
        \/ armed' = armed /\ (force' => force)
    BY <1>10 DEF Operator, Arm, Disarm, Clear, historyVars
  <2> QED BY <1>0, <2>1, <2>2
<1> QED BY <1>2, <1>3, <1>4, <1>5, <1>6, <1>7, <1>8, <1>9, <1>10, NextByKind

(* The one-shot order of the operator is used up by the replacement it       *)
(* allowed, however the session, the flag and the operator interleave.       *)
THEOREM OneReplacement == NfcSpec => []OneReplacementPerArming
<1>1. NfcInit => OrderInv
  BY DEF NfcInit, OrderInv, Outstanding, Deciding, Reporting
<1>2. NfcInv /\ OrderInv /\ [NfcNext]_nfcVars => OrderInv'
  BY OrderInvKept
<1>3. NfcInv /\ OrderInv => OneReplacementPerArming
  <2> SUFFICES ASSUME NfcInv, OrderInv PROVE OneReplacementPerArming
    OBVIOUS
  <2>1. armed \in Nat /\ replaced \in Nat
    BY MaxReselectionsPositive DEF NfcInv, NfcTypeOK
  <2> QED BY <2>1 DEF OrderInv, Outstanding, OneReplacementPerArming
<1> QED BY <1>1, <1>2, <1>3, NfcInvHolds, PTL DEF NfcSpec

-----------------------------------------------------------------------------
(* Evidence.  A MAC or a signature over this session's challenge was made by *)
(* a phone that is in the session's record of them, also when the answer     *)
(* that carries it arrives late; and nfcTask goes on only with evidence.     *)

Genuine(reply, maccers, signers) ==
  reply.over = "this" =>
    /\ reply.apdu = "verify" => reply.from \in maccers
    /\ reply.apdu = "sign" => reply.from \in signers

EvidenceInv ==
  /\ Genuine(late, macced, signed)
  /\ step \in AfterMac => macced \cap Holders # {}
  /\ step \in AfterSign => base \in signed

LEMMA SilenceGenuine == ASSUME NEW m, NEW n PROVE Genuine(Silence, m, n)
BY DEF Genuine, Silence

\* An exchange adds to the evidence, and what it returns or leaves behind is genuine.
LEMMA ExchangeEvidence ==
  ASSUME Genuine(late, macced, signed), NEW apdu \in Apdus, NEW reply, Try(apdu, reply)
  PROVE  /\ macced \subseteq macced' /\ signed \subseteq signed'
         /\ Genuine(late', macced', signed')
         /\ Genuine(reply, macced', signed')
<1>1. macced \subseteq macced' /\ signed \subseteq signed'
  BY DEF Try, Exchange, PhoneDoes, PhoneIdle
<1>2. Genuine(late, macced', signed')
  BY <1>1 DEF Genuine
<1>3. ASSUME PhoneDoes(apdu) PROVE Genuine(ReplyTo(apdu), macced', signed')
  <2>1. /\ ReplyTo(apdu).apdu = apdu /\ ReplyTo(apdu).from = at
        /\ ReplyTo(apdu).over = IF ~Serves(apdu) THEN "none"
                                ELSE CASE apdu = "verify" -> challenge[at]
                                       [] apdu = "sign"   -> "this"
                                       [] OTHER           -> "none"
    BY DEF ReplyTo
  <2>2. CASE apdu = "verify"
    BY <1>3, <2>1, <2>2 DEF PhoneDoes, Genuine
  <2>3. CASE apdu = "sign"
    BY <1>3, <2>1, <2>3 DEF PhoneDoes, Genuine
  <2>4. CASE apdu \notin {"verify", "sign"}
    BY <2>1, <2>4 DEF Genuine
  <2> QED BY <2>2, <2>3, <2>4
<1>4. ASSUME apdu = "base" PROVE Genuine([ReplyTo(apdu) EXCEPT !.ok = FALSE], macced', signed')
  BY <1>4 DEF ReplyTo, Genuine
<1>5. /\ late' \in {late, Silence} \/ (PhoneDoes(apdu) /\ late' = ReplyTo(apdu))
      /\ \/ reply \in {late, Silence} \/ (PhoneDoes(apdu) /\ reply = ReplyTo(apdu))
         \/ apdu = "base" /\ reply = [ReplyTo(apdu) EXCEPT !.ok = FALSE]
  BY DEF Try, Exchange
<1> QED BY <1>1, <1>2, <1>3, <1>4, <1>5, SilenceGenuine

LEMMA EvidenceInvKept == ASSUME NfcInv, EvidenceInv, [NfcNext]_nfcVars PROVE EvidenceInv'
<1>1. CASE Exchanges
  <2>1. PICK apdu \in Apdus : \E reply \in PossibleReplies(apdu) : Leads(apdu, reply)
    BY <1>1, ExchangeProgress DEF Progress
  <2>2. PICK reply \in PossibleReplies(apdu) : Leads(apdu, reply)
    BY <2>1
  <2>3. /\ macced \subseteq macced' /\ signed \subseteq signed'
        /\ Genuine(late', macced', signed')
        /\ Genuine(reply, macced', signed')
    BY <2>2, ExchangeEvidence DEF EvidenceInv, Leads
  <2>4. step' \in AfterMac => macced' \cap Holders # {}
    <3>1. CASE step \in AfterMac
      BY <2>3, <3>1 DEF EvidenceInv
    <3>2. CASE step \notin AfterMac /\ step' \in AfterMac
      <4>1. MacHolds(reply)
        BY <2>2, <3>2 DEF Leads, NoFurther, AfterMac, AfterBase, AfterWrite, AfterSign
      <4> QED BY <2>3, <4>1 DEF MacHolds, Carries, IsMac, Genuine
    <3> QED BY <3>1, <3>2
  <2>5. step' \in AfterSign => base' \in signed'
    <3>1. CASE step \in AfterSign
      BY <2>2, <2>3, <3>1 DEF Leads, EvidenceInv, AfterSign
    <3>2. CASE step \notin AfterSign /\ step' \in AfterSign
      <4>1. SignatureHolds(reply) /\ base' = base
        BY <2>2, <3>2 DEF Leads, NoFurther, AfterSign
      <4> QED BY <2>3, <4>1 DEF SignatureHolds, Genuine
    <3> QED BY <3>1, <3>2
  <2> QED BY <2>3, <2>4, <2>5 DEF EvidenceInv
<1>2. CASE FieldSteps
  BY <1>2, FieldProgress, SilenceGenuine DEF EvidenceInv, NoFurther, historyVars, sessionVars
<1>3. CASE Poll \/ SessionOver
  <2>1. late' = Silence /\ step' \in {"select", "idle"}
    BY <1>3 DEF Poll, SessionOver, Released, Goto, Call
  <2> QED BY <2>1, SilenceGenuine
          DEF EvidenceInv, AfterMac, AfterBase, AfterWrite, AfterSign
<1>4. CASE Perform \/ Store \/ Finish
  <2>1. UNCHANGED <<late, macced, signed>>
    BY <1>4 DEF Perform, Store, Finish, fieldVars, historyVars, sessionVars
  <2>2. step' \in {"removal", "request", "result_select", "cooldown"}
    BY <1>4 DEF Perform, Store, Finish, Abort, Goto, Call
  <2> QED BY <2>1, <2>2 DEF EvidenceInv, AfterMac, AfterBase, AfterWrite, AfterSign
<1>5. CASE People \/ Operator \/ UNCHANGED nfcVars
  <2>1. UNCHANGED <<step, base, macced, signed>>
    BY <1>5 DEF People, Leave, Tap, StartProvisioning, ClearHceSession, ChallengeLapses,
                Operator, Arm, Disarm, Clear, nfcVars, taskVars, historyVars, sessionVars
  <2>2. late' \in {late, Silence}
    BY <1>5 DEF People, Leave, Tap, StartProvisioning, ClearHceSession, ChallengeLapses,
                Operator, Arm, Disarm, Clear, nfcVars, fieldVars
  <2> QED BY <2>1, <2>2, SilenceGenuine DEF EvidenceInv
<1> QED BY <1>1, <1>2, <1>3, <1>4, <1>5, NextByKind

LEMMA OwnerOnlyByStore ==
  ASSUME [NfcNext]_nfcVars, NEW p \in Phones, owner # p, owner' = p
  PROVE  Store
<1>1. CASE Exchanges
  BY <1>1, ExchangeProgress DEF Progress, Leads, Try, recordVars
<1>2. CASE FieldSteps
  BY <1>2, FieldProgress DEF recordVars
<1>3. CASE Poll \/ Perform \/ Finish \/ SessionOver
  BY <1>3 DEF Poll, Perform, Finish, SessionOver, recordVars
<1>4. CASE People \/ Operator \/ UNCHANGED nfcVars
  BY <1>4, NoPhoneAssumption
     DEF People, Leave, Tap, StartProvisioning, ClearHceSession, ChallengeLapses,
         Operator, Arm, Disarm, Clear, nfcVars, recordVars
<1> QED BY <1>1, <1>2, <1>3, <1>4, NextByKind

(* No key is stored as the owner's on the strength of an old challenge, of   *)
(* another phone's signature, or without the master secret.                  *)
THEOREM EvidenceOfOwnership == NfcSpec => OwnerHasSigned
<1>1. NfcInit => EvidenceInv
  BY SilenceGenuine DEF NfcInit, EvidenceInv, AfterMac, AfterBase, AfterWrite, AfterSign
<1>2. NfcInv /\ EvidenceInv /\ [NfcNext]_nfcVars => EvidenceInv'
  BY EvidenceInvKept
<1>3. ASSUME EvidenceInv, [NfcNext]_nfcVars
      PROVE  [\A p \in Phones : owner # p /\ owner' = p
                => p \in signed /\ macced \cap Holders # {}]_nfcVars
  <2> SUFFICES ASSUME NEW p \in Phones, owner # p, owner' = p
               PROVE  p \in signed /\ macced \cap Holders # {}
    OBVIOUS
  <2>1. step = "store" /\ base = p
    BY <1>3, OwnerOnlyByStore DEF Store
  <2> QED BY <1>3, <2>1 DEF EvidenceInv, AfterMac, AfterBase, AfterWrite, AfterSign
<1> QED BY <1>1, <1>2, <1>3, NfcInvHolds, PTL DEF NfcSpec, OwnerHasSigned

-----------------------------------------------------------------------------
(* Both sides agree, as long as no other phone takes the place of the one    *)
(* that was there when the session began.                                    *)

AgreeInv ==
  faults = {} =>
    /\ late = Silence
    /\ step \notin Waits => at \in {NoPhone, visitor}
    /\ step \in AfterBase => base = visitor
    /\ step \in AfterWrite => visitor \in bound
    /\ enrolled # NoPhone => enrolled \in bound
    /\ step \in Reporting => enrolled = visitor
    /\ step \notin Reporting \cup {"removal"} => told = {}
    /\ told \subseteq {enrolled}

\* Without a late answer, a reply that is not Silence is the visitor's own.
LEMMA ExchangeAgrees ==
  ASSUME NfcInv, late = Silence, at \in {NoPhone, visitor}, "stale" \notin faults,
         NEW apdu \in Apdus, NEW reply, Try(apdu, reply)
  PROVE  /\ late' = Silence
         /\ reply # Silence => reply.from = visitor
         /\ bound \subseteq bound'
         /\ apdu = "write" /\ reply # Silence /\ reply.ok => visitor \in bound'
         /\ told' \subseteq told \cup (IF apdu = "result" THEN {visitor} ELSE {})
<1>1. linked => at = visitor
  BY DEF NfcInv, ListedIsThere
<1>2. /\ late' = Silence
      /\ bound \subseteq bound'
  BY DEF Try, Exchange, PhoneDoes, PhoneIdle
<1>3. ASSUME reply # Silence
      PROVE  /\ linked
             /\ \/ PhoneDoes(apdu) /\ reply = ReplyTo(apdu)
                \/ apdu = "base" /\ reply = [ReplyTo(apdu) EXCEPT !.ok = FALSE]
  BY <1>3 DEF Try, Exchange
<1>4. /\ ReplyTo(apdu).from = at
      /\ [ReplyTo(apdu) EXCEPT !.ok = FALSE].from = at
      /\ ReplyTo(apdu).ok = Serves(apdu)
  BY DEF ReplyTo
<1>5. reply # Silence => reply.from = visitor
  BY <1>1, <1>3, <1>4
<1>6. ASSUME apdu = "write", reply # Silence, reply.ok PROVE visitor \in bound'
  BY <1>1, <1>3, <1>4, <1>6 DEF PhoneDoes
<1>7. told' \subseteq told \cup (IF apdu = "result" THEN {visitor} ELSE {})
  BY <1>1 DEF Try, Exchange, PhoneDoes, PhoneIdle
<1> QED BY <1>2, <1>5, <1>6, <1>7

LEMMA AgreeInvKept == ASSUME NfcInv, AgreeInv, [NfcNext]_nfcVars PROVE AgreeInv'
<1> SUFFICES ASSUME faults' = {} PROVE AgreeInv'
  BY DEF AgreeInv
<1> USE DEF AfterBase, AfterWrite, AfterSign, Reporting, Waits
<1>1. CASE Exchanges
  <2>1. PICK apdu \in Apdus : \E reply \in PossibleReplies(apdu) : Leads(apdu, reply)
    BY <1>1, ExchangeProgress DEF Progress
  <2>2. PICK reply \in PossibleReplies(apdu) : Leads(apdu, reply)
    BY <2>1
  <2>3. /\ UNCHANGED <<at, faults, visitor, enrolled>> /\ faults = {}
        /\ step \notin Waits
    BY <2>2 DEF Leads, Try, Calls
  <2>4. /\ late' = Silence
        /\ reply # Silence => reply.from = visitor
        /\ bound \subseteq bound'
        /\ apdu = "write" /\ reply # Silence /\ reply.ok => visitor \in bound'
        /\ told' \subseteq told \cup (IF apdu = "result" THEN {visitor} ELSE {})
    BY <2>2, <2>3, ExchangeAgrees DEF AgreeInv, Leads
  <2>5. step' \in AfterBase => base' = visitor'
    <3>1. ~Silence.ok
      BY DEF Silence
    <3> QED BY <2>2, <2>3, <2>4, <3>1 DEF AgreeInv, Leads, NoFurther
  <2>6. step' \in AfterWrite => visitor' \in bound'
    BY <2>2, <2>3, <2>4 DEF AgreeInv, Leads, NoFurther
  <2>7. step' \in Reporting => step \in Reporting
    BY <2>2 DEF Leads, NoFurther, Deciding, AfterMac
  <2>8. step \in Reporting => step' \in Reporting
    BY <2>2 DEF Leads, NoFurther
  <2>9. step' \notin Reporting \cup {"removal"} => told' = {}
    BY <2>2, <2>3, <2>4, <2>8 DEF AgreeInv, Leads
  <2>10. told' \subseteq {enrolled'}
    BY <2>2, <2>3, <2>4 DEF AgreeInv, Leads
  <2> QED BY <2>3, <2>4, <2>5, <2>6, <2>7, <2>9, <2>10 DEF AgreeInv
<1>2. CASE FieldSteps
  <2>1. /\ late' = Silence /\ NoFurther
        /\ UNCHANGED <<at, faults, base, visitor, bound, enrolled, told>>
    BY <1>2, FieldProgress DEF historyVars, sessionVars
  <2> QED BY <2>1 DEF AgreeInv, NoFurther, Deciding, AfterMac
<1>3. CASE Poll
  <2>1. /\ late' = Silence /\ step = "idle" /\ step' = "select" /\ visitor' = at
        /\ UNCHANGED <<at, faults, bound, enrolled, told>>
    BY <1>3 DEF Poll, Call
  <2> QED BY <2>1 DEF AgreeInv
<1>4. CASE SessionOver
  BY <1>4 DEF SessionOver, Released, Goto, Call, AgreeInv
<1>5. CASE Perform
  <2>1. /\ step = "perform" /\ step' \in {"removal", "request"}
        /\ UNCHANGED <<late, at, faults, visitor, bound, enrolled, told>>
    BY <1>5 DEF Perform, Goto, Call, fieldVars, historyVars, sessionVars
  <2> QED BY <2>1 DEF AgreeInv
<1>6. CASE Store
  <2>1. /\ step = "store"
        /\ \/ step' = "result_select" /\ enrolled' = base
           \/ step' = "cooldown" /\ enrolled' = enrolled
        /\ UNCHANGED <<late, at, faults, base, visitor, bound, told>>
    BY <1>6 DEF Store, Abort, Goto, Call, fieldVars
  <2> QED BY <2>1 DEF AgreeInv
<1>7. CASE Finish
  <2>1. /\ step = "finish" /\ step' = "removal"
        /\ UNCHANGED <<late, at, faults, base, visitor, bound, enrolled, told>>
    BY <1>7 DEF Finish, Goto, Call, fieldVars, historyVars, sessionVars
  <2> QED BY <2>1 DEF AgreeInv
<1>8. CASE People \/ Operator \/ UNCHANGED nfcVars
  <2>1. UNCHANGED <<faults, step, base, visitor, bound, enrolled, told>>
    BY <1>8 DEF People, Leave, Tap, StartProvisioning, ClearHceSession, ChallengeLapses,
                Operator, Arm, Disarm, Clear, nfcVars, fieldVars, taskVars, historyVars,
                sessionVars
  <2>2. late' \in {late, Silence}
    BY <1>8 DEF People, Leave, Tap, StartProvisioning, ClearHceSession, ChallengeLapses,
                Operator, Arm, Disarm, Clear, nfcVars, fieldVars
  <2>3. faults = {} => at' \in {at, NoPhone} \/ step \in Waits \/ at' = visitor
    BY <1>8 DEF People, Leave, Tap, StartProvisioning, ClearHceSession, ChallengeLapses,
                Operator, Arm, Disarm, Clear, nfcVars, fieldVars
  <2> QED BY <2>1, <2>2, <2>3 DEF AgreeInv
<1> QED BY <1>1, <1>2, <1>3, <1>4, <1>5, <1>6, <1>7, <1>8, NextByKind

(* What the phone has stored and heard, and whom the vehicle has enrolled,   *)
(* agree through every lost answer, retry and interrupted session.           *)
THEOREM SidesAgree == NfcSpec => []BothSidesAgree
<1>1. NfcInit => AgreeInv
  BY DEF NfcInit, AgreeInv, AfterBase, AfterWrite, AfterSign, Reporting, Waits
<1>2. NfcInv /\ AgreeInv /\ [NfcNext]_nfcVars => AgreeInv'
  BY AgreeInvKept
<1>3. AgreeInv => BothSidesAgree
  BY DEF AgreeInv, BothSidesAgree
<1> QED BY <1>1, <1>2, <1>3, NfcInvHolds, PTL DEF NfcSpec

-----------------------------------------------------------------------------
(* The result is told.  SELECT and result have two tries each and no         *)
(* reselection, so while the phone stays listed a try is used up only by a   *)
(* loss, and both tries of one call by two.                                  *)

HeardInv ==
  faults = {} =>
    /\ step \in {"result_select", "result"} =>
         attempts = 0 /\ left \in {1, 2} /\ (linked /\ left = 1 => losses >= 1)
    /\ step = "finish" /\ linked /\ losses =< 1 => enrolled \in told

\* A try without a reply is a loss, and any other reply is this exchange's own.
LEMMA TryHeard ==
  ASSUME NfcInv, late = Silence, "stale" \notin faults, linked, NEW apdu \in {"select", "result"},
         NEW reply, Try(apdu, reply)
  PROVE  \/ reply = Silence /\ losses' = losses + 1
         \/ /\ reply = ReplyTo(apdu) /\ PhoneDoes(apdu) /\ losses' = losses
<1>1. ReplyTo(apdu) # Silence
  BY DEF ReplyTo, Silence
<1> QED BY <1>1 DEF Try, Exchange

\* ResultSelect and ProvisionResult, by the reply to their try.
Reports(apdu, reply) ==
  /\ Try(apdu, reply)
  /\ apdu = "result" <=> step = "result"
  /\ \/ reply = Silence /\ Unanswered
     \/ Selects(reply) /\ apdu = "select" /\ Call("result", ResultTries, 0)
     \/ reply # Silence /\ ~Selects(reply) /\ apdu = "select" /\ Goto("finish")
     \/ reply # Silence /\ apdu = "result" /\ Goto("finish")

LEMMA ReportHeard ==
  ASSUME NfcInv, AgreeInv, HeardInv, faults = {}, ResultSelect \/ ProvisionResult
  PROVE  HeardInv'
<1>1. PICK apdu \in {"select", "result"} : \E reply \in PossibleReplies(apdu) : Reports(apdu, reply)
  BY DEF ResultSelect, ProvisionResult, Reports
<1>2. PICK reply \in PossibleReplies(apdu) : Reports(apdu, reply)
  BY <1>1
<1>3. /\ step \in {"result_select", "result"}
      /\ attempts = 0 /\ left \in {1, 2} /\ (linked /\ left = 1 => losses >= 1)
      /\ late = Silence /\ enrolled = visitor /\ at \in {NoPhone, visitor}
  BY DEF HeardInv, AgreeInv, ResultSelect, ProvisionResult, Reporting, Waits
<1>4. UNCHANGED <<at, linked, faults, enrolled>> /\ losses \in Nat /\ losses' \in Nat
  <2>1. losses \in Nat
    BY MaxReselectionsPositive DEF NfcInv, NfcTypeOK
  <2> QED BY <1>2, <2>1 DEF Try, Exchange, Reports
<1>5. linked => \/ reply = Silence /\ losses' = losses + 1
                \/ reply = ReplyTo(apdu) /\ PhoneDoes(apdu) /\ losses' = losses
  BY <1>2, <1>3, TryHeard DEF Reports
<1>6. CASE reply = Silence
  <2>1. Unanswered /\ (linked => losses' = losses + 1)
    <3>1. ReplyTo(apdu) # Silence /\ ~Selects(Silence)
      BY DEF ReplyTo, Silence, Selects
    <3> QED BY <1>2, <1>5, <1>6, <3>1 DEF Reports
  <2>2. CASE left = 2
    BY <1>3, <1>4, <2>1, <2>2 DEF Unanswered, HeardInv
  <2>3. CASE left = 1
    <3>1. step' = "finish"
      BY <1>3, <2>1, <2>3 DEF Unanswered, GiveUp, Goto, Call
    <3> QED BY <1>3, <1>4, <2>1, <2>3, <3>1 DEF HeardInv
  <2> QED BY <1>3, <2>2, <2>3
<1>7. CASE Selects(reply) /\ apdu = "select"
  <2>1. step' = "result" /\ left' = 2 /\ attempts' = 0
    <3>1. reply # Silence
      BY <1>7 DEF Selects, Silence
    <3> QED BY <1>2, <1>7, <3>1, MaxReselectionsPositive DEF Call, ResultTries, Reports
  <2> QED BY <2>1 DEF HeardInv
<1>8. CASE reply # Silence /\ apdu = "select" /\ ~Selects(reply)
  <2>1. step' = "finish" /\ ~linked
    <3>1. Selects(ReplyTo("select"))
      BY DEF Selects, ReplyTo, Serves
    <3> QED BY <1>2, <1>5, <1>8, <3>1 DEF Goto, Call, Reports
  <2> QED BY <1>4, <2>1 DEF HeardInv
<1>9. CASE reply # Silence /\ apdu = "result"
  <2>1. step' = "finish"
    BY <1>2, <1>9 DEF Goto, Call, Reports
  <2>2. linked => enrolled \in told'
    <3>1. linked => at = visitor
      BY <1>3 DEF NfcInv, ListedIsThere
    <3> QED BY <1>3, <1>5, <1>9, <3>1 DEF PhoneDoes, Serves
  <2> QED BY <1>4, <2>1, <2>2 DEF HeardInv
<1> QED BY <1>6, <1>7, <1>8, <1>9

LEMMA HeardInvKept ==
  ASSUME NfcInv, AgreeInv, HeardInv, [NfcNext]_nfcVars
  PROVE  HeardInv'
<1> SUFFICES ASSUME faults' = {} PROVE HeardInv'
  BY DEF HeardInv
<1>1. faults = {}
  <2>1. CASE Exchanges
    BY <2>1, ExchangeProgress DEF Progress, Leads, Try
  <2>2. CASE FieldSteps
    BY <2>2, FieldProgress
  <2>3. CASE Poll \/ Perform \/ Store \/ Finish \/ SessionOver
    BY <2>3 DEF Poll, Perform, Store, Finish, SessionOver, fieldVars
  <2>4. CASE People \/ Operator \/ UNCHANGED nfcVars
    BY <2>4 DEF People, Leave, Tap, StartProvisioning, ClearHceSession, ChallengeLapses,
                Operator, Arm, Disarm, Clear, nfcVars, fieldVars
  <2> QED BY <2>1, <2>2, <2>3, <2>4, NextByKind
<1> USE DEF Reporting
<1>2. CASE Exchanges
  <2>1. CASE ResultSelect \/ ProvisionResult
    BY <1>1, <2>1, ReportHeard
  <2>2. CASE ~(ResultSelect \/ ProvisionResult)
    <3>1. step \in Calls \ {"result_select", "result"}
      BY <1>2, <2>2 DEF Exchanges, SelectAid, Request, Verify, BaseGetData, WriteData,
                        SignatureGetData, OpControlFlow, Calls
    <3>2. step' \notin Reporting
      BY <1>2, <3>1, ExchangeProgress
         DEF Progress, Leads, NoFurther, Deciding, AfterMac, AfterBase, AfterWrite, AfterSign, Calls
    <3> QED BY <3>2 DEF HeardInv
  <2> QED BY <2>1, <2>2
<1>3. CASE FieldSteps
  <2>1. step \notin Reporting
    BY <1>1, <1>3 DEF FieldSteps, Reselect, Recover, SignAgain, OpSelect, HeardInv, Calls
  <2>2. step' \notin Reporting
    BY <1>3, <2>1, FieldProgress
       DEF NoFurther, Deciding, AfterMac, AfterBase, AfterWrite, AfterSign
  <2> QED BY <2>2 DEF HeardInv
<1>4. CASE Poll \/ Perform \/ Finish \/ SessionOver
  <2>1. step' \in {"select", "removal", "request", "idle"}
    BY <1>4 DEF Poll, Perform, Finish, SessionOver, Goto, Call
  <2> QED BY <2>1 DEF HeardInv
<1>5. CASE Store
  <2>1. \/ step' = "result_select" /\ left' = 2 /\ attempts' = 0
        \/ step' = "cooldown"
    BY <1>5, MaxReselectionsPositive DEF Store, Abort, Goto, Call
  <2> QED BY <2>1 DEF HeardInv
<1>6. CASE People \/ Operator \/ UNCHANGED nfcVars
  <2>1. UNCHANGED <<step, left, attempts, losses, enrolled, told>> /\ (linked' => linked)
    BY <1>6 DEF People, Leave, Tap, StartProvisioning, ClearHceSession, ChallengeLapses,
                Operator, Arm, Disarm, Clear, nfcVars, fieldVars, taskVars, historyVars,
                sessionVars
  <2> QED BY <1>1, <2>1 DEF HeardInv
<1> QED BY <1>2, <1>3, <1>4, <1>5, <1>6, NextByKind

(* One lost APDU or answer does not keep the result from a phone that stays. *)
THEOREM ResultHeard == NfcSpec => []OneLossIsSurvived
<1>1. NfcInit => AgreeInv /\ HeardInv
  BY DEF NfcInit, AgreeInv, HeardInv, AfterBase, AfterWrite, AfterSign, Reporting, Waits
<1>2. NfcInv /\ AgreeInv /\ [NfcNext]_nfcVars => AgreeInv'
  BY AgreeInvKept
<1>3. NfcInv /\ AgreeInv /\ HeardInv /\ [NfcNext]_nfcVars => HeardInv'
  BY HeardInvKept
<1>4. HeardInv => OneLossIsSurvived
  BY DEF HeardInv, OneLossIsSurvived
<1> QED BY <1>1, <1>2, <1>3, <1>4, NfcInvHolds, PTL DEF NfcSpec
-----------------------------------------------------------------------------
(* The serial line (Pn532Link).                                              *)

\* None of the frames in q is an acknowledgement; and all are of command n.
NoAck(q) == \A i \in 1 .. Len(q) : ~IsAck(q[i])
OfCommand(q, n) == \A i \in 1 .. Len(q) : q[i].of = n /\ ~IsAck(q[i])

\* Behind an acknowledgement in q there is only what command n is answered with.
AckThenAnswer(q, n) ==
  \A i, j \in 1 .. Len(q) : IsAck(q[i]) /\ i < j => q[j].of = n /\ ~IsAck(q[j])

(* As long as nfcTask is in step with the chip, an acknowledgement on the    *)
(* line is that of the command just written, and what comes behind it is the *)
(* answer to that command.  The line is first in, first out, so nothing of   *)
(* an earlier command is left once the acknowledgement has been read.        *)
InStepInv ==
  inStep =>
    /\ host = "free" => NoAck(line) /\ NoAck(chip)
    /\ host = "ack" =>
         /\ AckThenAnswer(rx, sent) /\ AckThenAnswer(line, sent) /\ AckThenAnswer(chip, sent)
         /\ NoAck(rx) \/ (OfCommand(line, sent) /\ OfCommand(chip, sent))
         /\ NoAck(line) \/ OfCommand(chip, sent)
    /\ host = "response" => OfCommand(rx, sent) /\ OfCommand(line, sent) /\ OfCommand(chip, sent)
    /\ result # None => host = "free" /\ result.of = sent

LinkInv ==
  /\ LinkTypeOK
  /\ caller = "sam" => tries > 0
  /\ InStepInv

\* The PN532's queues of frames.
LEMMA FrameQueues ==
  ASSUME NEW q \in Seq(Frames), q # << >>
  PROVE  /\ Head(q) \in Frames /\ Head(q) = q[1] /\ Tail(q) \in Seq(Frames)
         /\ Len(q) \in Nat /\ Len(q) >= 1 /\ Len(Tail(q)) = Len(q) - 1
         /\ \A i \in 1 .. Len(Tail(q)) : Tail(q)[i] = q[i + 1] /\ i + 1 \in 1 .. Len(q)
<1>1. /\ Tail(q) \in Seq(Frames) /\ Len(Tail(q)) = Len(q) - 1
      /\ \A i \in 1 .. Len(Tail(q)) : Tail(q)[i] = q[i + 1]
  BY HeadTailProperties
<1>2. Len(q) \in Nat /\ Len(q) >= 1 /\ Head(q) = q[1] /\ Head(q) \in Frames
  BY EmptySeq, LenProperties, HeadTailProperties
<1> QED BY <1>1, <1>2

LEMMA TakenFromQueue ==
  ASSUME NEW q \in Seq(Frames), q # << >>, NEW n
  PROVE  /\ NoAck(q) => NoAck(Tail(q)) /\ ~IsAck(Head(q))
         /\ OfCommand(q, n) => OfCommand(Tail(q), n) /\ Head(q).of = n /\ ~IsAck(Head(q))
         /\ AckThenAnswer(q, n) => AckThenAnswer(Tail(q), n)
         /\ AckThenAnswer(q, n) /\ IsAck(Head(q)) => OfCommand(Tail(q), n)
<1>1. /\ Head(q) = q[1] /\ Len(q) \in Nat /\ 1 \in 1 .. Len(q) /\ Len(Tail(q)) = Len(q) - 1
      /\ \A i \in 1 .. Len(Tail(q)) : Tail(q)[i] = q[i + 1] /\ i + 1 \in 1 .. Len(q)
  BY FrameQueues
<1>2. NoAck(q) => NoAck(Tail(q)) /\ ~IsAck(Head(q))
  BY <1>1 DEF NoAck
<1>3. OfCommand(q, n) => OfCommand(Tail(q), n) /\ Head(q).of = n /\ ~IsAck(Head(q))
  BY <1>1 DEF OfCommand
<1>4. AckThenAnswer(q, n) => AckThenAnswer(Tail(q), n)
  <2> SUFFICES ASSUME AckThenAnswer(q, n), NEW i \in 1 .. Len(Tail(q)), NEW j \in 1 .. Len(Tail(q)),
                      IsAck(Tail(q)[i]), i < j
               PROVE  Tail(q)[j].of = n /\ ~IsAck(Tail(q)[j])
    BY DEF AckThenAnswer
  <2>1. i + 1 \in 1 .. Len(q) /\ j + 1 \in 1 .. Len(q) /\ i + 1 < j + 1
    BY <1>1
  <2> QED BY <1>1, <2>1 DEF AckThenAnswer
<1>5. AckThenAnswer(q, n) /\ IsAck(Head(q)) => OfCommand(Tail(q), n)
  <2> SUFFICES ASSUME AckThenAnswer(q, n), IsAck(q[1]), NEW i \in 1 .. Len(Tail(q))
               PROVE  q[i + 1].of = n /\ ~IsAck(q[i + 1])
    BY <1>1 DEF OfCommand
  <2>1. i + 1 \in 1 .. Len(q) /\ 1 \in 1 .. Len(q) /\ 1 < i + 1
    BY <1>1
  <2> QED BY <2>1 DEF AckThenAnswer
<1> QED BY <1>2, <1>3, <1>4, <1>5

LEMMA PutInQueue ==
  ASSUME NEW q \in Seq(Frames), NEW f \in Frames, NEW n
  PROVE  /\ Append(q, f) \in Seq(Frames)
         /\ NoAck(q) /\ ~IsAck(f) => NoAck(Append(q, f))
         /\ OfCommand(q, n) /\ f.of = n /\ ~IsAck(f) => OfCommand(Append(q, f), n)
         /\ AckThenAnswer(q, n) /\ (NoAck(q) \/ (f.of = n /\ ~IsAck(f)))
              => AckThenAnswer(Append(q, f), n)
<1>1. /\ Append(q, f) \in Seq(Frames) /\ Len(q) \in Nat /\ Len(Append(q, f)) = Len(q) + 1
      /\ \A i \in 1 .. Len(q) : Append(q, f)[i] = q[i]
      /\ Append(q, f)[Len(q) + 1] = f
  BY AppendProperties, LenProperties
<1>2. \A i \in 1 .. Len(Append(q, f)) : i \in 1 .. Len(q) \/ i = Len(q) + 1
  BY <1>1
<1>3. NoAck(q) /\ ~IsAck(f) => NoAck(Append(q, f))
  BY <1>1, <1>2 DEF NoAck
<1>4. OfCommand(q, n) /\ f.of = n /\ ~IsAck(f) => OfCommand(Append(q, f), n)
  BY <1>1, <1>2 DEF OfCommand
<1>5. ASSUME AckThenAnswer(q, n), NoAck(q) \/ (f.of = n /\ ~IsAck(f))
      PROVE  AckThenAnswer(Append(q, f), n)
  <2> SUFFICES ASSUME NEW i \in 1 .. Len(Append(q, f)), NEW j \in 1 .. Len(Append(q, f)),
                      IsAck(Append(q, f)[i]), i < j
               PROVE  Append(q, f)[j].of = n /\ ~IsAck(Append(q, f)[j])
    BY DEF AckThenAnswer
  <2>1. i \in 1 .. Len(q) /\ IsAck(q[i])
    BY <1>1, <1>2
  <2>2. CASE j \in 1 .. Len(q)
    BY <1>1, <1>5, <2>1, <2>2 DEF AckThenAnswer
  <2>3. CASE j = Len(q) + 1
    BY <1>1, <1>5, <2>1, <2>3 DEF NoAck
  <2> QED BY <1>2, <2>2, <2>3
<1> QED BY <1>1, <1>3, <1>4, <1>5

LEMMA AnswerQueued ==
  ASSUME NEW q \in Seq(Frames), NEW k \in 0 .. Len(q), NEW a \in Frames, NEW r \in Frames, NEW n,
         r.of = n, ~IsAck(r)
  PROVE  /\ SubSeq(q, 1, k) \o <<a, r>> \in Seq(Frames)
         /\ NoAck(q) => AckThenAnswer(SubSeq(q, 1, k) \o <<a, r>>, n)
<1> DEFINE kept == SubSeq(q, 1, k)
           all  == kept \o <<a, r>>
<1>1. /\ kept \in Seq(Frames) /\ Len(kept) = k /\ k \in Nat
      /\ \A i \in 1 .. k : kept[i] = q[i] /\ i \in 1 .. Len(q)
  BY SubSeqProperties, LenProperties
<1>2. <<a, r>> \in Seq(Frames) /\ Len(<<a, r>>) = 2 /\ <<a, r>>[1] = a /\ <<a, r>>[2] = r
  OBVIOUS
<1> HIDE DEF kept
<1>3. /\ all \in Seq(Frames) /\ Len(all) = k + 2
      /\ \A i \in 1 .. Len(all) : all[i] = IF i =< k THEN kept[i] ELSE <<a, r>>[i - k]
  BY <1>1, <1>2, ConcatProperties
<1>4. ASSUME NoAck(q) PROVE AckThenAnswer(all, n)
  <2> SUFFICES ASSUME NEW i \in 1 .. Len(all), NEW j \in 1 .. Len(all), IsAck(all[i]), i < j
               PROVE  all[j].of = n /\ ~IsAck(all[j])
    BY DEF AckThenAnswer
  <2>1. ~(i =< k)
    BY <1>1, <1>3, <1>4 DEF NoAck
  <2>2. j = k + 2
    BY <1>1, <1>3, <2>1
  <2>3. all[j] = r
    BY <1>1, <1>2, <1>3, <2>2
  <2> QED BY <2>3
<1> QED BY <1>3, <1>4 DEF kept

LEMMA QueueOrder ==
  ASSUME NEW q \in Seq(Frames), NEW n
  PROVE  /\ OfCommand(q, n) => NoAck(q)
         /\ NoAck(q) => AckThenAnswer(q, n)
         /\ NoAck(<< >>) /\ OfCommand(<< >>, n) /\ AckThenAnswer(<< >>, n)
BY DEF OfCommand, NoAck, AckThenAnswer

LEMMA RestOfFrame ==
  ASSUME NEW q \in Seq(Frames), q # << >>, NEW t \in Seq(Frames)
  PROVE  LET all == <<[Head(q) EXCEPT !.kind = "rest"]>> \o Tail(q) \o t
         IN /\ all \in Seq(Frames)
            /\ NoAck(q) /\ NoAck(t) => NoAck(all)
<1> DEFINE h == [Head(q) EXCEPT !.kind = "rest"]
           u == <<h>> \o Tail(q)
<1>1. h \in Frames /\ h.kind = "rest"
  <2>1. Head(q) \in Frames
    BY FrameQueues
  <2> QED BY <2>1 DEF Frames
<1>2. Tail(q) \in Seq(Frames)
  BY FrameQueues
<1>3. <<h>> \in Seq(Frames) /\ Len(<<h>>) = 1 /\ <<h>>[1] = h
  BY <1>1
<1> HIDE DEF h
<1>4. /\ u \in Seq(Frames) /\ Len(u) = 1 + Len(Tail(q)) /\ Len(Tail(q)) \in Nat
      /\ \A i \in 1 .. Len(u) : u[i] = IF i =< 1 THEN <<h>>[i] ELSE Tail(q)[i - 1]
  BY <1>2, <1>3, ConcatProperties, LenProperties
<1>5. ~IsAck(h)
  BY <1>1 DEF IsAck
<1>6. NoAck(q) => NoAck(u)
  <2> SUFFICES ASSUME NoAck(Tail(q)), NEW i \in 1 .. Len(u) PROVE ~IsAck(u[i])
    BY TakenFromQueue DEF NoAck
  <2>1. CASE i = 1
    BY <1>3, <1>4, <1>5, <2>1
  <2>2. CASE i # 1
    BY <1>4, <2>2 DEF NoAck
  <2> QED BY <2>1, <2>2
<1> HIDE DEF u
<1> DEFINE all == u \o t
<1>7. /\ all \in Seq(Frames) /\ Len(all) = Len(u) + Len(t) /\ Len(t) \in Nat /\ Len(u) \in Nat
      /\ \A i \in 1 .. Len(all) : all[i] = IF i =< Len(u) THEN u[i] ELSE t[i - Len(u)]
  <2>1. Len(u) \in Nat /\ Len(t) \in Nat
    BY <1>4, LenProperties
  <2>2. /\ u \o t \in Seq(Frames) /\ Len(u \o t) = Len(u) + Len(t)
        /\ \A i \in 1 .. Len(u) + Len(t) :
             (u \o t)[i] = IF i =< Len(u) THEN u[i] ELSE t[i - Len(u)]
    BY <1>4, ConcatProperties
  <2> QED BY <2>1, <2>2
<1>8. ASSUME NoAck(u), NoAck(t) PROVE NoAck(all)
  <2> SUFFICES ASSUME NEW i \in 1 .. Len(all) PROVE ~IsAck(all[i])
    BY DEF NoAck
  <2>1. CASE i =< Len(u)
    BY <1>7, <1>8, <2>1 DEF NoAck
  <2>2. CASE ~(i =< Len(u))
    BY <1>7, <1>8, <2>2 DEF NoAck
  <2> QED BY <2>1, <2>2
<1> QED BY <1>6, <1>7, <1>8 DEF u, h

-----------------------------------------------------------------------------
LEMMA AnswerFrames ==
  ASSUME LinkTypeOK, NEW code \in Codes, WriteCommand(code), NEW length \in PayloadLengths(code)
  PROVE  /\ Frame("ack", 0)' \in Frames /\ Frame("response", length)' \in Frames
         /\ Frame("response", length)'.of = sent' /\ ~IsAck(Frame("response", length)')
<1>1. sent' \in 1 .. MaxCommands /\ command' \in Codes
  BY MaxCommandsAssumption DEF WriteCommand, LinkTypeOK
<1>2. 0 \in Lengths /\ length \in Lengths
  BY DEF Lengths, PayloadLengths, Codes
<1> QED BY <1>1, <1>2 DEF Frame, Frames, IsAck

LEMMA WriteKeepsLink ==
  ASSUME LinkInv, NEW code \in Codes, WriteCommand(code)
  PROVE  LinkInv'
<1>1. /\ line \in Seq(Frames) /\ chip \in Seq(Frames) /\ << >> \in Seq(Frames)
      /\ host' = "ack" /\ rx' = << >> /\ result' = None /\ line' = line
      /\ UNCHANGED callerVars /\ inStep' \in BOOLEAN
      /\ inStep' => inStep \/ (line = << >> /\ chip = << >>)
  BY EmptySeq DEF LinkInv, LinkTypeOK, WriteCommand, Dumped
<1>2. sent' \in 0 .. MaxCommands /\ command' \in Codes
  BY MaxCommandsAssumption DEF WriteCommand, LinkInv, LinkTypeOK
<1>3. inStep' => NoAck(line) /\ NoAck(chip)
  BY <1>1, QueueOrder DEF LinkInv, InStepInv, WriteCommand
<1>4. chip' \in Seq(Frames) /\ (inStep' => AckThenAnswer(chip', sent'))
  <2>1. CASE UNCHANGED chip
    BY <1>1, <1>3, <2>1, QueueOrder
  <2>2. ASSUME NEW length \in PayloadLengths(code), NEW k \in 0 .. Len(chip),
               chip' = SubSeq(chip, 1, k) \o <<Frame("ack", 0)', Frame("response", length)'>>
        PROVE  chip' \in Seq(Frames) /\ (inStep' => AckThenAnswer(chip', sent'))
    <3>1. /\ Frame("ack", 0)' \in Frames /\ Frame("response", length)' \in Frames
          /\ Frame("response", length)'.of = sent' /\ ~IsAck(Frame("response", length)')
      BY AnswerFrames DEF LinkInv
    <3> QED BY <1>1, <1>3, <2>2, <3>1, AnswerQueued
  <2> QED BY <2>1, <2>2 DEF WriteCommand
<1>5. lineLosses' \in 0 .. MaxLineLosses
  BY MaxLossesAssumption DEF WriteCommand, LinkInv, LinkTypeOK
<1>6. LinkTypeOK'
  BY <1>1, <1>2, <1>4, <1>5 DEF LinkInv, LinkTypeOK, callerVars
<1>7. InStepInv'
  <2> SUFFICES ASSUME inStep'
               PROVE  /\ AckThenAnswer(rx', sent') /\ AckThenAnswer(line', sent')
                      /\ AckThenAnswer(chip', sent') /\ NoAck(rx') /\ NoAck(line')
    BY <1>1 DEF InStepInv
  <2> QED BY <1>1, <1>3, <1>4, QueueOrder
<1> QED BY <1>1, <1>6, <1>7 DEF LinkInv, callerVars

LEMMA SendKeepsLink ==
  ASSUME LinkInv, ChipSends
  PROVE  LinkInv'
<1>1. /\ rx \in Seq(Frames) /\ line \in Seq(Frames) /\ chip \in Seq(Frames) /\ chip # << >>
      /\ chip' = Tail(chip) /\ line' \in {line, Append(line, Head(chip))}
      /\ UNCHANGED <<callerVars, host, command, sent, rx, result, inStep>>
  BY DEF LinkInv, LinkTypeOK, ChipSends
<1>2. Head(chip) \in Frames /\ Tail(chip) \in Seq(Frames)
  BY <1>1, FrameQueues
<1>3. lineLosses' \in 0 .. MaxLineLosses
  BY MaxLossesAssumption DEF ChipSends, LinkInv, LinkTypeOK
<1>4. LinkTypeOK'
  <2>1. line' \in Seq(Frames)
    BY <1>1, <1>2, PutInQueue
  <2> QED BY <1>1, <1>2, <1>3, <2>1 DEF LinkInv, LinkTypeOK, callerVars
<1>5. InStepInv'
  <2> SUFFICES ASSUME inStep PROVE InStepInv'
    BY <1>1 DEF InStepInv
  <2>1. CASE host = "free"
    <3>1. NoAck(line) /\ NoAck(chip)
      BY <2>1 DEF LinkInv, InStepInv
    <3>2. NoAck(chip') /\ ~IsAck(Head(chip))
      BY <1>1, <3>1, TakenFromQueue
    <3>3. NoAck(Append(line, Head(chip)))
      BY <1>1, <1>2, <3>1, <3>2, PutInQueue
    <3> QED BY <1>1, <2>1, <3>1, <3>2, <3>3 DEF LinkInv, InStepInv
  <2>2. CASE host = "ack"
    <3>1. /\ AckThenAnswer(rx, sent) /\ AckThenAnswer(line, sent) /\ AckThenAnswer(chip, sent)
          /\ NoAck(rx) \/ (OfCommand(line, sent) /\ OfCommand(chip, sent))
          /\ NoAck(line) \/ OfCommand(chip, sent)
          /\ result = None
      BY <2>2 DEF LinkInv, InStepInv
    <3>2. /\ AckThenAnswer(chip', sent)
          /\ OfCommand(chip, sent) => OfCommand(chip', sent) /\ Head(chip).of = sent /\ ~IsAck(Head(chip))
          /\ IsAck(Head(chip)) => OfCommand(chip', sent)
      BY <1>1, <3>1, TakenFromQueue
    <3>3. /\ AckThenAnswer(line', sent)
          /\ OfCommand(line, sent) /\ OfCommand(chip, sent) => OfCommand(line', sent)
          /\ NoAck(line) /\ ~IsAck(Head(chip)) => NoAck(line')
      <4>1. CASE line' = line
        BY <3>1, <4>1
      <4>2. CASE line' = Append(line, Head(chip))
        <5>1. NoAck(line) \/ (Head(chip).of = sent /\ ~IsAck(Head(chip)))
          BY <3>1, <3>2
        <5>2. AckThenAnswer(Append(line, Head(chip)), sent)
          BY <1>1, <1>2, <3>1, <5>1, PutInQueue
        <5>3. /\ OfCommand(line, sent) /\ OfCommand(chip, sent)
                   => OfCommand(Append(line, Head(chip)), sent)
              /\ NoAck(line) /\ ~IsAck(Head(chip)) => NoAck(Append(line, Head(chip)))
          BY <1>1, <1>2, <3>2, PutInQueue
        <5> QED BY <4>2, <5>2, <5>3
      <4> QED BY <1>1, <4>1, <4>2
    <3>4. NoAck(line') \/ OfCommand(chip', sent)
      BY <3>1, <3>2, <3>3
    <3> QED BY <1>1, <2>2, <3>1, <3>2, <3>3, <3>4 DEF InStepInv
  <2>3. CASE host = "response"
    <3>1. OfCommand(rx, sent) /\ OfCommand(line, sent) /\ OfCommand(chip, sent) /\ result = None
      BY <2>3 DEF LinkInv, InStepInv
    <3>2. OfCommand(chip', sent) /\ Head(chip).of = sent /\ ~IsAck(Head(chip))
      BY <1>1, <3>1, TakenFromQueue
    <3>3. OfCommand(line', sent)
      BY <1>1, <1>2, <3>1, <3>2, PutInQueue
    <3> QED BY <1>1, <2>3, <3>1, <3>2, <3>3 DEF InStepInv
  <2> QED BY <2>1, <2>2, <2>3 DEF LinkInv, LinkTypeOK
<1> QED BY <1>1, <1>4, <1>5 DEF LinkInv, callerVars

LEMMA ArriveKeepsLink ==
  ASSUME LinkInv, Arrive
  PROVE  LinkInv'
<1>1. /\ rx \in Seq(Frames) /\ line \in Seq(Frames) /\ chip \in Seq(Frames) /\ line # << >>
      /\ line' = Tail(line) /\ rx' = Append(rx, Head(line))
      /\ UNCHANGED <<callerVars, host, command, sent, chip, lineLosses, result, inStep>>
  BY DEF LinkInv, LinkTypeOK, Arrive
<1>2. Head(line) \in Frames /\ Tail(line) \in Seq(Frames)
  BY <1>1, FrameQueues
<1>3. LinkTypeOK'
  <2>1. rx' \in Seq(Frames)
    BY <1>1, <1>2, PutInQueue
  <2> QED BY <1>1, <1>2, <2>1 DEF LinkInv, LinkTypeOK, callerVars
<1>4. InStepInv'
  <2> SUFFICES ASSUME inStep PROVE InStepInv'
    BY <1>1 DEF InStepInv
  <2>1. CASE host = "free"
    <3>1. NoAck(line) /\ NoAck(chip)
      BY <2>1 DEF LinkInv, InStepInv
    <3>2. NoAck(line')
      BY <1>1, <3>1, TakenFromQueue
    <3> QED BY <1>1, <2>1, <3>1, <3>2 DEF LinkInv, InStepInv
  <2>2. CASE host = "ack"
    <3>1. /\ AckThenAnswer(rx, sent) /\ AckThenAnswer(line, sent) /\ AckThenAnswer(chip, sent)
          /\ NoAck(rx) \/ (OfCommand(line, sent) /\ OfCommand(chip, sent))
          /\ NoAck(line) \/ OfCommand(chip, sent)
          /\ result = None
      BY <2>2 DEF LinkInv, InStepInv
    <3>2. /\ AckThenAnswer(line', sent)
          /\ NoAck(line) => NoAck(line') /\ ~IsAck(Head(line))
          /\ OfCommand(line, sent) => OfCommand(line', sent) /\ Head(line).of = sent /\ ~IsAck(Head(line))
          /\ IsAck(Head(line)) => OfCommand(line', sent)
      BY <1>1, <3>1, TakenFromQueue
    <3>3. /\ AckThenAnswer(rx', sent)
          /\ NoAck(rx) /\ ~IsAck(Head(line)) => NoAck(rx')
      <4>1. NoAck(rx) \/ (Head(line).of = sent /\ ~IsAck(Head(line)))
        BY <3>1, <3>2
      <4>2. AckThenAnswer(Append(rx, Head(line)), sent)
        BY <1>1, <1>2, <3>1, <4>1, PutInQueue
      <4>3. NoAck(rx) /\ ~IsAck(Head(line)) => NoAck(Append(rx, Head(line)))
        BY <1>1, <1>2, PutInQueue
      <4> QED BY <1>1, <4>2, <4>3
    <3>4. /\ NoAck(rx') \/ (OfCommand(line', sent) /\ OfCommand(chip, sent))
          /\ NoAck(line') \/ OfCommand(chip, sent)
      BY <3>1, <3>2, <3>3
    <3> QED BY <1>1, <2>2, <3>1, <3>2, <3>3, <3>4 DEF InStepInv
  <2>3. CASE host = "response"
    <3>1. OfCommand(rx, sent) /\ OfCommand(line, sent) /\ OfCommand(chip, sent) /\ result = None
      BY <2>3 DEF LinkInv, InStepInv
    <3>2. OfCommand(line', sent) /\ Head(line).of = sent /\ ~IsAck(Head(line))
      BY <1>1, <3>1, TakenFromQueue
    <3>3. OfCommand(rx', sent)
      BY <1>1, <1>2, <3>1, <3>2, PutInQueue
    <3> QED BY <1>1, <2>3, <3>1, <3>2, <3>3 DEF InStepInv
  <2> QED BY <2>1, <2>2, <2>3 DEF LinkInv, LinkTypeOK
<1> QED BY <1>1, <1>3, <1>4 DEF LinkInv, callerVars

\* What nfcTask does with an outcome leaves the frames alone.
LEMMA CallerGoesOn ==
  ASSUME LinkInv, NEW status, Returned(status)
  PROVE  /\ host' = "free"
         /\ caller' \in {"version", "sam", "poll"} /\ tries' \in 0 .. SamTries
         /\ samConfigured' \in BOOLEAN /\ (caller' = "sam" => tries' > 0)
<1>1. SamTries \in Nat /\ SamTries > 0
  BY SamTriesAssumption
<1>2. CASE VersionReturned(status)
  BY <1>1, <1>2 DEF VersionReturned, Returned, LinkInv, LinkTypeOK
<1>3. CASE SamReturned(status)
  BY <1>1, <1>3 DEF SamReturned, Returned, LinkInv, LinkTypeOK, SAMConfig
<1>4. CASE caller = "poll" /\ UNCHANGED callerVars
  BY <1>1, <1>4 DEF Returned, LinkInv, LinkTypeOK, callerVars
<1> QED BY <1>2, <1>3, <1>4 DEF Returned

LEMMA AbandonKeepsLink ==
  ASSUME LinkInv, Abandon, UNCHANGED <<command, sent, chip, lineLosses>>, inStep' \in BOOLEAN,
         inStep' => inStep /\ host = "response"
  PROVE  LinkInv'
<1>1. /\ rx \in Seq(Frames) /\ line \in Seq(Frames) /\ chip \in Seq(Frames)
      /\ rx' = << >> /\ result' = None /\ << >> \in Seq(Frames)
  BY EmptySeq DEF LinkInv, LinkTypeOK, Abandon
<1>2. /\ host' = "free"
      /\ caller' \in {"version", "sam", "poll"} /\ tries' \in 0 .. SamTries
      /\ samConfigured' \in BOOLEAN /\ (caller' = "sam" => tries' > 0)
  BY CallerGoesOn DEF Abandon
<1>3. /\ line' \in Seq(Frames)
      /\ NoAck(rx) /\ NoAck(line) => NoAck(line')
  BY <1>1, RestOfFrame DEF Abandon
<1>4. LinkTypeOK'
  BY <1>1, <1>2, <1>3 DEF LinkInv, LinkTypeOK
<1>5. inStep' => NoAck(line') /\ NoAck(chip')
  BY <1>1, <1>3, QueueOrder DEF LinkInv, InStepInv
<1> QED BY <1>1, <1>2, <1>4, <1>5 DEF LinkInv, InStepInv

LEMMA ReadKeepsLink ==
  ASSUME LinkInv, Reads
  PROVE  LinkInv'
<1>1. /\ rx \in Seq(Frames) /\ line \in Seq(Frames) /\ chip \in Seq(Frames) /\ rx # << >>
      /\ inStep \in BOOLEAN
  BY DEF LinkInv, LinkTypeOK, Reads, ReadAck, ReadResponse
<1>2. Head(rx) \in Frames /\ Tail(rx) \in Seq(Frames)
  BY <1>1, FrameQueues
<1>3. CASE ReadAck
  <2>1. CASE IsAck(Head(rx))
    <3>1. /\ host = "ack" /\ host' = "response" /\ rx' = Tail(rx)
          /\ UNCHANGED <<callerVars, line, result, inStep, command, sent, chip, lineLosses>>
      BY <1>3, <2>1 DEF ReadAck
    <3>2. LinkTypeOK'
      BY <1>2, <3>1 DEF LinkInv, LinkTypeOK, callerVars
    <3>3. inStep => OfCommand(rx', sent) /\ OfCommand(line, sent) /\ OfCommand(chip, sent)
                    /\ result = None
      <4>1. inStep => /\ AckThenAnswer(rx, sent) /\ result = None
                      /\ NoAck(rx) \/ (OfCommand(line, sent) /\ OfCommand(chip, sent))
        BY <3>1 DEF LinkInv, InStepInv
      <4> QED BY <1>1, <2>1, <3>1, <4>1, TakenFromQueue
    <3> QED BY <3>1, <3>2, <3>3 DEF LinkInv, InStepInv, callerVars
  <2>2. CASE ~IsAck(Head(rx))
    BY <1>3, <2>2, AbandonKeepsLink DEF ReadAck
  <2> QED BY <2>1, <2>2
<1>4. CASE ReadResponse
  <2>1. CASE Abandon /\ UNCHANGED <<command, sent, chip, lineLosses, inStep>>
    BY <1>1, <1>4, <2>1, AbandonKeepsLink DEF ReadResponse
  <2>2. CASE /\ Returned(Head(rx).length) /\ result' = Head(rx) /\ rx' = Tail(rx)
             /\ UNCHANGED <<line, command, sent, chip, lineLosses, inStep>>
    <3>1. /\ host' = "free"
          /\ caller' \in {"version", "sam", "poll"} /\ tries' \in 0 .. SamTries
          /\ samConfigured' \in BOOLEAN /\ (caller' = "sam" => tries' > 0)
      BY <2>2, CallerGoesOn
    <3>2. LinkTypeOK'
      BY <1>2, <2>2, <3>1 DEF LinkInv, LinkTypeOK
    <3>3. inStep => OfCommand(rx, sent) /\ OfCommand(line, sent) /\ OfCommand(chip, sent)
      BY <1>4 DEF LinkInv, InStepInv, ReadResponse
    <3>4. inStep => Head(rx).of = sent /\ NoAck(line) /\ NoAck(chip)
      BY <1>1, <3>3, TakenFromQueue, QueueOrder
    <3> QED BY <2>2, <3>1, <3>2, <3>4 DEF LinkInv, InStepInv
  <2> QED BY <1>4, <2>1, <2>2 DEF ReadResponse
<1> QED BY <1>3, <1>4 DEF Reads

LEMMA TimeOutKeepsLink ==
  ASSUME LinkInv, TimeOuts
  PROVE  LinkInv'
<1>1. inStep \in BOOLEAN
  BY DEF LinkInv, LinkTypeOK
<1>2. CASE AckTimeout
  BY <1>2, AbandonKeepsLink DEF AckTimeout
<1>3. CASE ResponseTimeout
  BY <1>1, <1>3, AbandonKeepsLink DEF ResponseTimeout
<1> QED BY <1>2, <1>3 DEF TimeOuts

LEMMA PollKeepsLink ==
  ASSUME LinkInv, PollTimedOut
  PROVE  LinkInv'
BY SamTriesAssumption DEF PollTimedOut, LinkInv, LinkTypeOK, InStepInv

LEMMA LinkInitially ==
  ASSUME LinkInit PROVE LinkInv
<1>1. << >> \in Seq(Frames) /\ NoAck(<< >>)
  BY EmptySeq DEF NoAck
<1>2. NoAck(line) /\ NoAck(chip) /\ {rx, line, chip} \subseteq Seq(Frames)
  BY <1>1 DEF LinkInit
<1>3. /\ tries \in 0 .. SamTries /\ sent \in 0 .. MaxCommands /\ lineLosses \in 0 .. MaxLineLosses
      /\ caller = "version" /\ host = "free" /\ result = None /\ samConfigured = FALSE
      /\ command \in Codes /\ inStep = TRUE
  BY SamTriesAssumption, MaxCommandsAssumption, MaxLossesAssumption DEF LinkInit, Codes
<1> QED BY <1>2, <1>3 DEF LinkInv, LinkTypeOK, InStepInv

(* Types, and what nfcTask in step with the chip has on the line.            *)
THEOREM LinkInvariant == LinkSpec => []LinkInv
<1>1. LinkInit => LinkInv
  BY LinkInitially
<1>2. LinkInv /\ [LinkNext]_linkVars => LinkInv'
  <2> SUFFICES ASSUME LinkInv, [LinkNext]_linkVars PROVE LinkInv'
    OBVIOUS
  <2>1. CASE LinkNext
    BY <2>1, WriteKeepsLink, SendKeepsLink, ArriveKeepsLink, ReadKeepsLink, TimeOutKeepsLink,
       PollKeepsLink DEF LinkNext
  <2>2. CASE UNCHANGED linkVars
    BY <2>2 DEF linkVars, callerVars, LinkInv, LinkTypeOK, InStepInv
  <2> QED BY <2>1, <2>2
<1> QED BY <1>1, <1>2, PTL DEF LinkSpec

(* A response is taken for that of a later command only after an             *)
(* acknowledgement was missed, however many frames are lost, cut or late.    *)
THEOREM StaleAfterMissedAck == LinkSpec => []StaleNeedsMissedAck
<1>1. LinkInv => StaleNeedsMissedAck
  BY DEF LinkInv, InStepInv, StaleNeedsMissedAck
<1> QED BY <1>1, LinkInvariant, PTL
=============================================================================
