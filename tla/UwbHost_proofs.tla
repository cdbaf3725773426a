--------------------------- MODULE UwbHost_proofs ---------------------------
(***************************************************************************)
(* Theorems about UwbHost, for every set of OOB payloads, every number of  *)
(* starts and of losses, and every set of faults.                          *)
(***************************************************************************)
EXTENDS UwbHost, SequenceTheorems, TLAPS

-----------------------------------------------------------------------------
(* What is on the line.                                                      *)

Elems(q) == {q[i] : i \in 1 .. Len(q)}

\* From the first packet for oid on there are only packets for oid.
Tails(q, oid) == \A i, j \in 1 .. Len(q) : i < j /\ q[i].oid = oid => q[j].oid = oid

\* The same of what is on its way to the host and to the chip: what the chip still has
\* to answer comes behind what it has answered.
InOrder(h, c, oid) ==
  /\ Tails(h, oid) /\ Tails(c, oid)
  /\ (\E a \in Elems(h) : a.oid = oid) => \A p \in Elems(c) : p.oid = oid

LEMMA HeadAndTail ==
  ASSUME NEW S, NEW q \in Seq(S), q # << >>
  PROVE  /\ Head(q) \in S /\ Head(q) = q[1] /\ Tail(q) \in Seq(S)
         /\ Len(q) \in Nat /\ Len(q) >= 1 /\ Len(Tail(q)) = Len(q) - 1
         /\ \A i \in 1 .. Len(Tail(q)) : Tail(q)[i] = q[i + 1] /\ i + 1 \in 1 .. Len(q)
         /\ \A i \in 1 .. Len(q) : i = 1 \/ (i - 1 \in 1 .. Len(Tail(q)) /\ Tail(q)[i - 1] = q[i])
<1>1. /\ Tail(q) \in Seq(S) /\ Len(Tail(q)) = Len(q) - 1
      /\ \A i \in 1 .. Len(Tail(q)) : Tail(q)[i] = q[i + 1]
  BY HeadTailProperties
<1>2. Len(q) \in Nat /\ Len(q) >= 1 /\ Head(q) = q[1] /\ Head(q) \in S
  BY EmptySeq, LenProperties, HeadTailProperties
<1>3. \A i \in 1 .. Len(q) : i = 1 \/ (i - 1 \in 1 .. Len(Tail(q)) /\ Tail(q)[i - 1] = q[i])
  BY <1>1, <1>2
<1> QED BY <1>1, <1>2, <1>3

LEMMA Appended ==
  ASSUME NEW S, NEW q \in Seq(S), NEW x \in S
  PROVE  /\ Append(q, x) \in Seq(S) /\ Len(q) \in Nat /\ Len(Append(q, x)) = Len(q) + 1
         /\ \A i \in 1 .. Len(q) : Append(q, x)[i] = q[i] /\ i \in 1 .. Len(Append(q, x))
         /\ Append(q, x)[Len(q) + 1] = x /\ Len(q) + 1 \in 1 .. Len(Append(q, x))
         /\ \A i \in 1 .. Len(Append(q, x)) : i \in 1 .. Len(q) \/ i = Len(q) + 1
<1>1. /\ Append(q, x) \in Seq(S) /\ Len(q) \in Nat /\ Len(Append(q, x)) = Len(q) + 1
      /\ \A i \in 1 .. Len(q) : Append(q, x)[i] = q[i]
      /\ Append(q, x)[Len(q) + 1] = x
  BY AppendProperties, LenProperties
<1> QED BY <1>1

LEMMA ElemsTail ==
  ASSUME NEW S, NEW q \in Seq(S), q # << >>
  PROVE  Elems(q) = {Head(q)} \cup Elems(Tail(q))
<1>1. /\ Head(q) = q[1] /\ 1 \in 1 .. Len(q)
      /\ \A i \in 1 .. Len(Tail(q)) : Tail(q)[i] = q[i + 1] /\ i + 1 \in 1 .. Len(q)
      /\ \A i \in 1 .. Len(q) : i = 1 \/ (i - 1 \in 1 .. Len(Tail(q)) /\ Tail(q)[i - 1] = q[i])
  BY HeadAndTail
<1> QED BY <1>1 DEF Elems

LEMMA ElemsAppend ==
  ASSUME NEW S, NEW q \in Seq(S), NEW x \in S
  PROVE  Elems(Append(q, x)) = Elems(q) \cup {x}
<1>1. /\ \A i \in 1 .. Len(q) : Append(q, x)[i] = q[i] /\ i \in 1 .. Len(Append(q, x))
      /\ Append(q, x)[Len(q) + 1] = x /\ Len(q) + 1 \in 1 .. Len(Append(q, x))
      /\ \A i \in 1 .. Len(Append(q, x)) : i \in 1 .. Len(q) \/ i = Len(q) + 1
  BY Appended
<1> QED BY <1>1 DEF Elems

LEMMA ElemsOfSeq ==
  ASSUME NEW S, NEW q \in Seq(S)
  PROVE  /\ Elems(q) \subseteq S /\ Len(q) \in Nat
         /\ Len(q) = 0 <=> q = << >>
         /\ q = << >> <=> Elems(q) = {}
<1>1. Len(q) \in Nat /\ (Len(q) = 0 <=> q = << >>)
  BY LenProperties, EmptySeq
<1>2. Elems(q) \subseteq S
  BY <1>1, ElementOfSeq DEF Elems
<1>3. q # << >> => q[1] \in Elems(q)
  BY <1>1 DEF Elems
<1>4. q = << >> => Elems(q) = {}
  BY <1>1 DEF Elems
<1> QED BY <1>1, <1>2, <1>3, <1>4

LEMMA TailsTail ==
  ASSUME NEW S, NEW q \in Seq(S), q # << >>, NEW oid, Tails(q, oid)
  PROVE  /\ Tails(Tail(q), oid)
         /\ Head(q).oid = oid => \A x \in Elems(Tail(q)) : x.oid = oid
<1>1. /\ Head(q) = q[1] /\ 1 \in 1 .. Len(q) /\ Len(Tail(q)) \in Nat
      /\ \A i \in 1 .. Len(Tail(q)) : Tail(q)[i] = q[i + 1] /\ i + 1 \in 1 .. Len(q) /\ 1 < i + 1
  BY HeadAndTail
<1>2. Tails(Tail(q), oid)
  <2> SUFFICES ASSUME NEW i \in 1 .. Len(Tail(q)), NEW j \in 1 .. Len(Tail(q)), i < j,
                      Tail(q)[i].oid = oid
               PROVE  Tail(q)[j].oid = oid
    BY DEF Tails
  <2>1. i + 1 < j + 1
    OBVIOUS
  <2> QED BY <1>1, <2>1 DEF Tails
<1>3. Head(q).oid = oid => \A i \in 1 .. Len(Tail(q)) : q[i + 1].oid = oid
  BY <1>1 DEF Tails
<1> QED BY <1>1, <1>2, <1>3 DEF Elems

LEMMA TailsAppend ==
  ASSUME NEW S, NEW q \in Seq(S), NEW x \in S, NEW oid, Tails(q, oid),
         x.oid = oid \/ \A y \in Elems(q) : y.oid # oid
  PROVE  Tails(Append(q, x), oid)
<1>1. /\ Len(q) \in Nat
      /\ \A i \in 1 .. Len(q) : Append(q, x)[i] = q[i]
      /\ Append(q, x)[Len(q) + 1] = x
      /\ \A i \in 1 .. Len(Append(q, x)) : i \in 1 .. Len(q) \/ i = Len(q) + 1
      /\ Len(Append(q, x)) = Len(q) + 1
  BY Appended
<1> SUFFICES ASSUME NEW i \in 1 .. Len(Append(q, x)), NEW j \in 1 .. Len(Append(q, x)), i < j,
                    Append(q, x)[i].oid = oid
             PROVE  Append(q, x)[j].oid = oid
  BY DEF Tails
<1>2. i \in 1 .. Len(q) /\ q[i].oid = oid /\ q[i] \in Elems(q)
  BY <1>1 DEF Elems
<1>3. CASE j \in 1 .. Len(q)
  BY <1>1, <1>2, <1>3 DEF Tails
<1>4. CASE j = Len(q) + 1
  BY <1>1, <1>2, <1>4
<1> QED BY <1>1, <1>3, <1>4

LEMMA OrderTake ==
  ASSUME NEW S, NEW T, NEW h \in Seq(S), NEW c \in Seq(T), h # << >>, NEW oid, InOrder(h, c, oid)
  PROVE  /\ InOrder(Tail(h), c, oid)
         /\ Head(h).oid = oid => \A x \in Elems(Tail(h)) \cup Elems(c) : x.oid = oid
<1>1. Elems(h) = {Head(h)} \cup Elems(Tail(h))
  BY ElemsTail
<1>2. Tails(Tail(h), oid) /\ (Head(h).oid = oid => \A x \in Elems(Tail(h)) : x.oid = oid)
  BY TailsTail DEF InOrder
<1> QED BY <1>1, <1>2 DEF InOrder

LEMMA OrderLose ==
  ASSUME NEW S, NEW T, NEW h \in Seq(S), NEW c \in Seq(T), c # << >>, NEW oid, InOrder(h, c, oid)
  PROVE  InOrder(h, Tail(c), oid)
<1>1. Elems(c) = {Head(c)} \cup Elems(Tail(c))
  BY ElemsTail
<1>2. Tails(Tail(c), oid)
  BY TailsTail DEF InOrder
<1> QED BY <1>1, <1>2 DEF InOrder

LEMMA OrderMove ==
  ASSUME NEW S, NEW T, NEW h \in Seq(S), NEW c \in Seq(T), c # << >>, NEW oid, InOrder(h, c, oid),
         NEW a \in S, a.oid = Head(c).oid
  PROVE  /\ InOrder(Append(h, a), Tail(c), oid)
         /\ a.oid = oid => \A x \in Elems(Tail(c)) : x.oid = oid
<1>1. Elems(c) = {Head(c)} \cup Elems(Tail(c)) /\ Elems(Append(h, a)) = Elems(h) \cup {a}
  BY ElemsTail, ElemsAppend
<1>2. Tails(Tail(c), oid) /\ (Head(c).oid = oid => \A x \in Elems(Tail(c)) : x.oid = oid)
  BY TailsTail DEF InOrder
<1>3. a.oid = oid \/ \A y \in Elems(h) : y.oid # oid
  BY <1>1 DEF InOrder
<1>4. Tails(Append(h, a), oid)
  BY <1>3, TailsAppend DEF InOrder
<1> QED BY <1>1, <1>2, <1>4 DEF InOrder

LEMMA OrderSend ==
  ASSUME NEW S, NEW T, NEW h \in Seq(S), NEW c \in Seq(T), NEW oid, InOrder(h, c, oid),
         NEW p \in T, p.oid = oid
  PROVE  InOrder(h, Append(c, p), oid)
<1>1. Elems(Append(c, p)) = Elems(c) \cup {p}
  BY ElemsAppend
<1>2. Tails(Append(c, p), oid)
  BY TailsAppend DEF InOrder
<1> QED BY <1>1, <1>2 DEF InOrder

LEMMA OrderNew ==
  ASSUME NEW h, NEW c, NEW oid, \A x \in Elems(h) \cup Elems(c) : x.oid # oid
  PROVE  InOrder(h, c, oid)
BY DEF InOrder, Tails, Elems

-----------------------------------------------------------------------------
(* Types, and what the manager knows of the command it waits for.            *)

Waiting == command # "none"

ManagerInv ==
  /\ g_busy = Waiting
  /\ Waiting => attempt \in 1 .. Attempts(command) /\ packet.oid = Oid(command)
  /\ command \notin {"none", "init"} => packet.id = activeSessionId_
  /\ restart => command \in {"ranging_stop", "deinit"}
  /\ Waiting => (sessionActive_ <=> command \in {"ranging_stop", "deinit"})
  /\ \A p \in Elems(toChip) : p.oid \in Steps \ {"undo"}

BridgeTypes ==
  /\ faults \in FaultSets
  /\ g_hasCachedConfig \in BOOLEAN /\ g_pendingStart \in BOOLEAN /\ g_pendingStop \in BOOLEAN
  /\ g_pendingCfg \in [id : Ids, cfg : Ids]
  /\ writing \in [oob : Ids, idWritten : BOOLEAN]
  /\ starts \in 0 .. MaxStarts

TaskTypes ==
  /\ command \in Steps \cup {"none"} /\ attempt \in 0 .. 3 /\ packet \in Packets
  /\ restart \in BOOLEAN /\ stopOk \in BOOLEAN /\ sessionActive_ \in BOOLEAN
  /\ g_busy \in BOOLEAN
  /\ activeSessionId_ \in Ids
  /\ result \in {"none", "SUCCESS", "FAIL"}
  /\ toChip \in Seq(Packets)

LineTypes ==
  /\ toHost \in Seq(Answers) /\ losses \in 0 .. MaxLosses /\ torn \in BOOLEAN
  /\ chip \in [Ids -> {"none", "init", "idle", "active"}] /\ chipCfg \in [Ids -> Ids]

BaseInv == UwbTypeOK /\ ManagerInv

LEMMA BaseInParts ==
  BaseInv <=> BridgeTypes /\ TaskTypes /\ LineTypes /\ ManagerInv
BY DEF BaseInv, UwbTypeOK, BridgeTypes, TaskTypes, LineTypes

LEMMA BaseFromParts ==
  ASSUME BridgeTypes', TaskTypes', LineTypes', ManagerInv'
  PROVE  BaseInv'
BY DEF BaseInv, UwbTypeOK, BridgeTypes, TaskTypes, LineTypes

LEMMA Numbers == MaxStarts \in Nat /\ MaxLosses \in Nat /\ 0 \in Ids /\ Oobs \subseteq Ids
BY BoundsAssumption DEF Ids

\* A packet goes out.
LEMMA Sends ==
  ASSUME toChip \in Seq(Packets), packet' \in Packets, toChip' = Append(toChip, packet')
  PROVE  /\ toChip' \in Seq(Packets) /\ Elems(toChip') = Elems(toChip) \cup {packet'}
         /\ Len(toChip') = Len(toChip) + 1
BY ElemsAppend, Appended

LEMMA BeginsCommand ==
  ASSUME toChip \in Seq(Packets), g_pendingCfg \in [id : Ids, cfg : Ids],
         NEW c \in Steps, NEW i \in Ids, Begins(c, i)
  PROVE  /\ command' = c /\ attempt' = 1 /\ Waiting'
         /\ attempt' \in 1 .. Attempts(c)
         /\ packet' \in Packets /\ packet'.oid = Oid(c) /\ packet'.id = i
         /\ packet'.cfg = IF c = "config" THEN g_pendingCfg.cfg ELSE 0
         /\ Oid(c) \in Steps \ {"undo"}
         /\ toChip' = Append(toChip, packet')
         /\ toChip' \in Seq(Packets) /\ Elems(toChip') = Elems(toChip) \cup {packet'}
         /\ Len(toChip') = Len(toChip) + 1
<1>1. Oid(c) \in Steps \ {"undo"} /\ attempt' = 1 /\ command' = c
  BY DEF Oid, Steps, Begins
<1>2. packet' \in Packets /\ packet'.oid = Oid(c) /\ packet'.id = i
      /\ packet'.cfg = IF c = "config" THEN g_pendingCfg.cfg ELSE 0
  BY <1>1, Numbers DEF Begins, Packets
<1>3. toChip' = Append(toChip, packet')
  BY DEF Begins
<1>4. /\ toChip' \in Seq(Packets) /\ Elems(toChip') = Elems(toChip) \cup {packet'}
      /\ Len(toChip') = Len(toChip) + 1
  BY <1>2, <1>3, Sends
<1>5. Waiting' /\ attempt' \in 1 .. Attempts(c)
  BY <1>1 DEF Waiting, Steps, Attempts
<1> QED BY <1>1, <1>2, <1>3, <1>4, <1>5

\* uwbTask goes on with the next command, or is done.
LEMMA BeginsBase ==
  ASSUME BaseInv, NEW c \in Steps, NEW i \in Ids, Begins(c, i),
         g_busy' = TRUE, restart' \in BOOLEAN, stopOk' \in BOOLEAN, sessionActive_' \in BOOLEAN,
         result' \in {"none", "SUCCESS", "FAIL"}, activeSessionId_' \in Ids,
         c # "init" => i = activeSessionId_',
         restart' => c \in {"ranging_stop", "deinit"},
         sessionActive_' <=> c \in {"ranging_stop", "deinit"}
  PROVE  TaskTypes' /\ ManagerInv'
<1>1. toChip \in Seq(Packets) /\ g_pendingCfg \in [id : Ids, cfg : Ids]
      /\ \A p \in Elems(toChip) : p.oid \in Steps \ {"undo"}
  BY BaseInParts DEF BridgeTypes, TaskTypes, ManagerInv
<1>2. /\ command' = c /\ attempt' = 1 /\ Waiting'
      /\ attempt' \in 1 .. Attempts(c)
      /\ packet' \in Packets /\ packet'.oid = Oid(c) /\ packet'.id = i
      /\ Oid(c) \in Steps \ {"undo"}
      /\ toChip' \in Seq(Packets) /\ Elems(toChip') = Elems(toChip) \cup {packet'}
  BY <1>1, BeginsCommand
<1>3. TaskTypes'
  BY <1>2 DEF TaskTypes
<1>4. \A p \in Elems(toChip') : p.oid \in Steps \ {"undo"}
  BY <1>1, <1>2
<1> QED BY <1>2, <1>3, <1>4 DEF ManagerInv

LEMMA ReturnsBase ==
  ASSUME BaseInv, NEW ok \in BOOLEAN, Returns(ok), sessionActive_' \in BOOLEAN,
         activeSessionId_' \in Ids
  PROVE  TaskTypes' /\ ManagerInv'
<1>1. toChip \in Seq(Packets) /\ \A p \in Elems(toChip) : p.oid \in Steps \ {"undo"}
  BY BaseInParts DEF TaskTypes, ManagerInv
<1>2. packet' \in Packets /\ toChip' = toChip /\ ~Waiting' /\ command' = "none" /\ attempt' = 0
  BY Numbers DEF Returns, Packets, Waiting
<1>3. /\ restart' = FALSE /\ stopOk' = FALSE /\ g_busy' = FALSE
      /\ result' \in {"none", "SUCCESS", "FAIL"}
  BY DEF Returns
<1>5. TaskTypes'
  <2>1. command' \in Steps \cup {"none"}
    BY <1>2
  <2>2. attempt' \in 0 .. 3 /\ packet' \in Packets
    BY <1>2
  <2>3. toChip' \in Seq(Packets)
    BY <1>1, <1>2
  <2>4. g_busy' \in BOOLEAN /\ restart' \in BOOLEAN /\ stopOk' \in BOOLEAN
    BY <1>3
  <2> QED BY <1>3, <2>1, <2>2, <2>3, <2>4 DEF TaskTypes
<1>4. ManagerInv'
  BY <1>1, <1>2 DEF Returns, ManagerInv, Waiting
<1> QED BY <1>4, <1>5

LEMMA AgainBase ==
  ASSUME BaseInv, Waiting, Again
  PROVE  BridgeTypes' /\ TaskTypes' /\ ManagerInv'
<1>1. /\ BridgeTypes /\ TaskTypes /\ ManagerInv
  BY BaseInParts
<1>2. attempt' \in 1 .. Attempts(command) /\ attempt' \in 0 .. 3
  BY <1>1 DEF Again, AttemptAfter, ManagerInv, Attempts
<1>3. packet' = packet /\ toChip' = Append(toChip, packet') /\ packet' \in Packets
  BY <1>1 DEF Again, TaskTypes
<1>4. toChip' \in Seq(Packets) /\ Elems(toChip') = Elems(toChip) \cup {packet}
  BY <1>1, <1>3, Sends DEF TaskTypes
<1>5. BridgeTypes'
  BY <1>1 DEF Again, bridgeVars, BridgeTypes
<1>6. TaskTypes'
  BY <1>1, <1>2, <1>3, <1>4 DEF Again, TaskTypes
<1>7. packet.oid \in Steps \ {"undo"}
  BY <1>1 DEF ManagerInv, TaskTypes, Oid, Steps, Waiting
<1>8. ManagerInv'
  BY <1>1, <1>2, <1>3, <1>4, <1>7 DEF Again, ManagerInv, Waiting
<1> QED BY <1>5, <1>6, <1>8

LEMMA CommandReturnsBase ==
  ASSUME BaseInv, Waiting, NEW ok \in BOOLEAN, NEW id \in Ids, CommandReturns(ok, id)
  PROVE  BridgeTypes' /\ TaskTypes' /\ ManagerInv'
<1>1. /\ BridgeTypes /\ TaskTypes /\ ManagerInv
  BY BaseInParts
<1>2. BridgeTypes'
  BY <1>1 DEF CommandReturns, bridgeVars, BridgeTypes
<1>3. /\ activeSessionId_ \in Ids /\ packet.id \in Ids /\ g_pendingCfg.id \in Ids /\ g_busy = TRUE
      /\ restart \in BOOLEAN /\ stopOk \in BOOLEAN /\ sessionActive_ \in BOOLEAN
      /\ result \in {"none", "SUCCESS", "FAIL"}
  BY <1>1 DEF TaskTypes, BridgeTypes, ManagerInv, Packets
<1>4. {"deinit", "init", "config", "ranging_start", "undo"} \subseteq Steps
  BY DEF Steps
<1>5. CASE StopReturned(ok)
  <2>1. sessionActive_ /\ Begins("deinit", activeSessionId_)
    BY <1>1, <1>5 DEF StopReturned, ManagerInv, Waiting
  <2> QED BY <1>2, <1>3, <1>4, <1>5, <2>1, BeginsBase DEF StopReturned
<1>6. CASE DeinitReturned(ok)
  <2>1. CASE restart /\ stopOk /\ ok
    BY <1>2, <1>3, <1>4, <1>6, <2>1, Numbers, BeginsBase DEF DeinitReturned, RunBegins
  <2>2. CASE ~(restart /\ stopOk /\ ok)
    <3>1. (stopOk /\ ok) \in BOOLEAN
      BY <1>3
    <3> QED BY <1>2, <1>6, <2>2, <3>1, Numbers, ReturnsBase DEF DeinitReturned
  <2> QED BY <2>1, <2>2
<1>7. CASE InitReturned(ok, id)
  <2>1. CASE ok
    <3>1. ~sessionActive_ /\ ~restart
      BY <1>1, <1>7 DEF InitReturned, ManagerInv, Waiting
    <3>2. activeSessionId_' \in Ids /\ Begins("config", activeSessionId_') /\ GoesOn
      BY <1>3, <1>7, <2>1 DEF InitReturned
    <3>3. /\ g_busy' = TRUE /\ restart' = FALSE /\ stopOk' \in BOOLEAN /\ sessionActive_' = FALSE
          /\ result' \in {"none", "SUCCESS", "FAIL"}
      BY <1>3, <3>1, <3>2 DEF GoesOn
    <3> QED BY <1>2, <1>4, <3>2, <3>3, BeginsBase
  <2>2. CASE ~ok
    BY <1>2, <1>3, <1>7, <2>2, ReturnsBase DEF InitReturned
  <2> QED BY <2>1, <2>2
<1>8. CASE ConfigReturned(ok)
  <2>1. ~sessionActive_ /\ ~restart
    BY <1>1, <1>8 DEF ConfigReturned, ManagerInv, Waiting
  <2>2. PICK c \in {"ranging_start", "undo"} : Begins(c, activeSessionId_)
    BY <1>8 DEF ConfigReturned
  <2>3. /\ g_busy' = TRUE /\ restart' = FALSE /\ stopOk' \in BOOLEAN /\ sessionActive_' = FALSE
        /\ result' \in {"none", "SUCCESS", "FAIL"} /\ activeSessionId_' = activeSessionId_
    BY <1>3, <1>8, <2>1 DEF ConfigReturned, GoesOn
  <2> QED BY <1>2, <1>3, <1>4, <2>2, <2>3, BeginsBase
<1>9. CASE StartReturned(ok)
  <2>1. ~sessionActive_ /\ ~restart
    BY <1>1, <1>9 DEF StartReturned, ManagerInv, Waiting
  <2>2. CASE ok
    BY <1>2, <1>3, <1>9, <2>2, ReturnsBase DEF StartReturned
  <2>3. CASE ~ok
    <3>1. Begins("undo", activeSessionId_) /\ GoesOn /\ activeSessionId_' = activeSessionId_
      BY <1>9, <2>3 DEF StartReturned, UndoStart
    <3>2. /\ g_busy' = TRUE /\ restart' = FALSE /\ stopOk' \in BOOLEAN /\ sessionActive_' = FALSE
          /\ result' \in {"none", "SUCCESS", "FAIL"}
      BY <1>3, <2>1, <3>1 DEF GoesOn
    <3> QED BY <1>2, <1>3, <1>4, <3>1, <3>2, BeginsBase
  <2> QED BY <2>2, <2>3
<1>10. CASE UndoReturned
  BY <1>2, <1>3, <1>10, ReturnsBase DEF UndoReturned
<1> QED BY <1>5, <1>6, <1>7, <1>8, <1>9, <1>10 DEF CommandReturns

\* The line, while uwbTask works.
LEMMA LineKept ==
  ASSUME LineTypes, toHost' \in Seq(Answers), losses' \in 0 .. MaxLosses, torn' \in BOOLEAN,
         UNCHANGED chipVars
  PROVE  LineTypes'
BY DEF LineTypes, chipVars

LEMMA ServeStopBase == ASSUME BaseInv, ServeStop PROVE BaseInv'
<1>1. /\ BridgeTypes /\ TaskTypes /\ LineTypes /\ ManagerInv
  BY BaseInParts
<1>2. BridgeTypes' /\ LineTypes'
  BY <1>1, LineKept DEF ServeStop, BridgeTypes, LineTypes
<1>3. ~Waiting /\ activeSessionId_ \in Ids /\ sessionActive_ \in BOOLEAN
      /\ result \in {"none", "SUCCESS", "FAIL"} /\ "ranging_stop" \in Steps
  BY <1>1 DEF ServeStop, ManagerInv, TaskTypes, Steps
<1>4. CASE sessionActive_
  BY <1>2, <1>3, <1>4, BeginsBase, BaseFromParts DEF ServeStop
<1>5. CASE ~sessionActive_
  BY <1>2, <1>3, <1>5, ReturnsBase, BaseFromParts DEF ServeStop
<1> QED BY <1>4, <1>5

LEMMA ServeStartBase == ASSUME BaseInv, ServeStart PROVE BaseInv'
<1>1. /\ BridgeTypes /\ TaskTypes /\ LineTypes /\ ManagerInv
  BY BaseInParts
<1>2. BridgeTypes' /\ LineTypes'
  BY <1>1, LineKept DEF ServeStart, BridgeTypes, LineTypes
<1>3. activeSessionId_ \in Ids /\ sessionActive_ \in BOOLEAN /\ g_pendingCfg.id \in Ids
      /\ result \in {"none", "SUCCESS", "FAIL"} /\ {"ranging_stop", "init"} \subseteq Steps
  BY <1>1 DEF BridgeTypes, TaskTypes, Steps
<1>4. g_busy' = TRUE /\ stopOk' = FALSE /\ sessionActive_' = sessionActive_ /\ result' = result
  BY DEF ServeStart
<1>5. CASE sessionActive_
  <2>1. restart' = TRUE /\ Begins("ranging_stop", activeSessionId_)
        /\ activeSessionId_' = activeSessionId_
    BY <1>5 DEF ServeStart
  <2> QED BY <1>2, <1>3, <1>4, <1>5, <2>1, BeginsBase, BaseFromParts
<1>6. CASE ~sessionActive_
  <2>1. restart' = FALSE /\ Begins("init", g_pendingCfg.id) /\ activeSessionId_' = 0
    BY <1>6 DEF ServeStart, RunBegins
  <2> QED BY <1>2, <1>3, <1>4, <1>6, <2>1, Numbers, BeginsBase, BaseFromParts
<1> QED BY <1>5, <1>6

\* What poll makes of a packet: an answer, or nothing.
Accepts(a) ==
  /\ Waiting /\ a.oid = Oid(command) /\ ~torn
  /\ \/ a.ok /\ CommandReturns(TRUE, a.id)
     \/ ~a.ok /\ attempt < Attempts(command) /\ Again
     \/ ~a.ok /\ attempt = Attempts(command) /\ CommandReturns(FALSE, a.id)

LEMMA PacketCases ==
  ASSUME BaseInv, Packet
  PROVE  /\ toHost \in Seq(Answers) /\ toHost # << >> /\ Head(toHost) \in Answers
         /\ toHost' = Tail(toHost) /\ toHost' \in Seq(Answers)
         /\ torn' = FALSE /\ UNCHANGED <<losses, chipVars>>
         /\ \/ Accepts(Head(toHost))
            \/ /\ torn \/ ~Waiting \/ Head(toHost).oid # Oid(command) \/ Superseded
               /\ UNCHANGED <<bridgeVars, managerVars, toChip>>
<1>1. toHost \in Seq(Answers) /\ toHost # << >> /\ toHost' = Tail(toHost)
  BY BaseInParts DEF LineTypes, Packet
<1>2. Head(toHost) \in Answers /\ Tail(toHost) \in Seq(Answers)
  BY <1>1, HeadAndTail
<1>3. Head(toHost).ok \in BOOLEAN
  BY <1>2 DEF Answers
<1>4. \/ /\ ~torn /\ Expected(Head(toHost))
         /\ CASE Head(toHost).ok -> CommandReturns(TRUE, Head(toHost).id)
              [] ~Head(toHost).ok /\ attempt < Attempts(command) -> Again
              [] OTHER -> GivesUp(Head(toHost).id)
      \/ /\ torn \/ ~Expected(Head(toHost)) \/ Superseded
         /\ UNCHANGED <<bridgeVars, managerVars, toChip>>
  BY DEF Packet
<1>5. ASSUME ~torn /\ Expected(Head(toHost))
               /\ CASE Head(toHost).ok -> CommandReturns(TRUE, Head(toHost).id)
                    [] ~Head(toHost).ok /\ attempt < Attempts(command) -> Again
                    [] OTHER -> GivesUp(Head(toHost).id)
      PROVE  Accepts(Head(toHost))
  <2>1. Waiting /\ Head(toHost).oid = Oid(command) /\ ~torn
    BY <1>5 DEF Expected, Waiting
  <2>2. CASE Head(toHost).ok
    BY <1>5, <2>1, <2>2 DEF Accepts
  <2>3. CASE ~Head(toHost).ok /\ attempt < Attempts(command)
    BY <1>5, <2>1, <2>3 DEF Accepts
  <2>4. CASE ~Head(toHost).ok /\ ~(attempt < Attempts(command))
    BY <1>5, <2>1, <2>4 DEF Accepts, GivesUp
  <2> QED BY <2>2, <2>3, <2>4
<1>6. ~Expected(Head(toHost)) => ~Waiting \/ Head(toHost).oid # Oid(command)
  BY DEF Expected, Waiting
<1> QED BY <1>1, <1>2, <1>4, <1>5, <1>6 DEF Packet

LEMMA AcceptsBase ==
  ASSUME BaseInv, NEW a \in Answers, Accepts(a)
  PROVE  BridgeTypes' /\ TaskTypes' /\ ManagerInv'
<1>1. a.id \in Ids /\ TRUE \in BOOLEAN /\ FALSE \in BOOLEAN
  BY DEF Answers
<1> QED BY <1>1, CommandReturnsBase, AgainBase DEF Accepts

LEMMA ManagerKept ==
  ASSUME BaseInv, UNCHANGED <<bridgeVars, managerVars, toChip>>
  PROVE  BridgeTypes' /\ TaskTypes' /\ ManagerInv'
BY BaseInParts DEF bridgeVars, managerVars, BridgeTypes, TaskTypes, ManagerInv, Waiting

LEMMA PacketBase == ASSUME BaseInv, Packet PROVE BaseInv'
<1>1. /\ Head(toHost) \in Answers /\ toHost' \in Seq(Answers)
      /\ torn' = FALSE /\ UNCHANGED <<losses, chipVars>>
      /\ Accepts(Head(toHost)) \/ UNCHANGED <<bridgeVars, managerVars, toChip>>
  BY PacketCases
<1>2. LineTypes'
  BY <1>1, BaseInParts, LineKept DEF LineTypes
<1>3. BridgeTypes' /\ TaskTypes' /\ ManagerInv'
  BY <1>1, AcceptsBase, ManagerKept
<1> QED BY <1>2, <1>3, BaseFromParts

LEMMA TimeoutBase == ASSUME BaseInv, Timeout PROVE BaseInv'
<1>1. Waiting /\ UNCHANGED <<toHost, torn, chipVars>>
  BY DEF Timeout, Waiting
<1>2. losses' \in 0 .. MaxLosses
  BY BaseInParts, Numbers DEF Timeout, LineTypes
<1>3. LineTypes'
  BY <1>1, <1>2, BaseInParts, LineKept DEF LineTypes
<1>4. Again \/ CommandReturns(FALSE, 0)
  BY DEF Timeout, GivesUp
<1>5. BridgeTypes' /\ TaskTypes' /\ ManagerInv'
  BY <1>1, <1>4, Numbers, AgainBase, CommandReturnsBase
<1> QED BY <1>3, <1>5, BaseFromParts

LEMMA BridgeBase ==
  ASSUME BaseInv,
         (\E k \in Oobs : OobParsed(k)) \/ OobWritesId \/ OobCached \/ RequestStart \/ RequestStop
  PROVE  BaseInv' /\ UNCHANGED <<managerVars, lineVars, chipVars, faults>>
<1>1. /\ BridgeTypes /\ TaskTypes /\ LineTypes /\ ManagerInv
  BY BaseInParts
<1>2. UNCHANGED <<managerVars, lineVars, chipVars, faults>>
  BY DEF OobParsed, OobWritesId, OobCached, RequestStart, RequestStop
<1>3. BridgeTypes'
  <2>1. CASE \E k \in Oobs : OobParsed(k)
    BY <1>1, <2>1, Numbers DEF BridgeTypes, OobParsed
  <2>2. CASE OobWritesId
    <3>1. g_pendingCfg' \in [id : Ids, cfg : Ids] /\ writing' \in [oob : Ids, idWritten : BOOLEAN]
      BY <1>1, <2>2 DEF BridgeTypes, OobWritesId
    <3> QED BY <1>1, <2>2, <3>1 DEF BridgeTypes, OobWritesId
  <2>3. CASE OobCached
    <3>1. g_pendingCfg' \in [id : Ids, cfg : Ids] /\ writing' \in [oob : Ids, idWritten : BOOLEAN]
      BY <1>1, <2>3, Numbers DEF BridgeTypes, OobCached, NotWriting
    <3> QED BY <1>1, <2>3, <3>1 DEF BridgeTypes, OobCached
  <2>4. CASE RequestStart
    BY <1>1, <2>4, Numbers DEF BridgeTypes, RequestStart
  <2>5. CASE RequestStop
    BY <1>1, <2>5 DEF BridgeTypes, RequestStop
  <2> QED BY <2>1, <2>2, <2>3, <2>4, <2>5
<1>4. TaskTypes' /\ LineTypes' /\ ManagerInv'
  BY <1>1, <1>2 DEF managerVars, lineVars, chipVars, TaskTypes, LineTypes, ManagerInv, Waiting
<1> QED BY <1>2, <1>3, <1>4, BaseFromParts

\* The chip's answer to the command at the head of the line.
Answer == [oid |-> Head(toChip).oid, ok |-> Obeys(Head(toChip)), id |-> Head(toChip).id]

LEMMA ChipTakes ==
  ASSUME BaseInv, toChip # << >>
  PROVE  /\ toChip \in Seq(Packets) /\ Head(toChip) \in Packets /\ Tail(toChip) \in Seq(Packets)
         /\ Elems(toChip) = {Head(toChip)} \cup Elems(Tail(toChip))
         /\ Len(toChip) \in Nat /\ Len(toChip) >= 1 /\ Len(Tail(toChip)) = Len(toChip) - 1
         /\ Head(toChip).id \in Ids /\ Head(toChip).oid \in Steps \ {"undo"}
         /\ Obeys(Head(toChip)) \in BOOLEAN
         /\ Answer \in Answers /\ Answer.oid = Head(toChip).oid /\ Answer.ok = Obeys(Head(toChip))
         /\ Answer.id = Head(toChip).id
<1>1. toChip \in Seq(Packets) /\ \A p \in Elems(toChip) : p.oid \in Steps \ {"undo"}
  BY BaseInParts DEF TaskTypes, ManagerInv
<1>2. /\ Head(toChip) \in Packets /\ Tail(toChip) \in Seq(Packets)
      /\ Elems(toChip) = {Head(toChip)} \cup Elems(Tail(toChip))
      /\ Len(toChip) \in Nat /\ Len(toChip) >= 1 /\ Len(Tail(toChip)) = Len(toChip) - 1
  BY <1>1, HeadAndTail, ElemsTail
<1>3. Head(toChip).id \in Ids /\ Head(toChip).oid \in Steps \ {"undo"}
  BY <1>1, <1>2 DEF Packets
<1>4. Obeys(Head(toChip)) \in BOOLEAN
  <2>1. Head(toChip).oid \in {"init", "config", "ranging_start", "ranging_stop", "deinit"}
    BY <1>3 DEF Steps
  <2>2. CASE Head(toChip).oid = "init"
    BY <2>2, Zenon DEF Obeys
  <2>3. CASE Head(toChip).oid = "config"
    <3>1. Obeys(Head(toChip)) = (chip[Head(toChip).id] \in {"init", "idle"})
      BY <2>3, Zenon DEF Obeys
    <3>2. (chip[Head(toChip).id] \in {"init", "idle"}) \in BOOLEAN
      OBVIOUS
    <3> QED BY <3>1, <3>2
  <2>4. CASE Head(toChip).oid = "ranging_start"
    BY <2>4, Zenon DEF Obeys
  <2>5. CASE Head(toChip).oid = "ranging_stop"
    BY <2>5, Zenon DEF Obeys
  <2>6. CASE Head(toChip).oid = "deinit"
    BY <2>6, Zenon DEF Obeys
  <2> QED BY <2>1, <2>2, <2>3, <2>4, <2>5, <2>6
<1> QED BY <1>1, <1>2, <1>3, <1>4 DEF Answer, Answers

LEMMA ChipActsBase == ASSUME BaseInv, ChipActs PROVE BaseInv'
<1>1. /\ BridgeTypes /\ TaskTypes /\ LineTypes /\ ManagerInv
  BY BaseInParts
<1>2. /\ toChip # << >> /\ toChip' = Tail(toChip) /\ toHost' = Append(toHost, Answer)
      /\ UNCHANGED <<bridgeVars, managerVars, torn, losses>>
  BY DEF ChipActs, Answer
<1>3. /\ toChip' \in Seq(Packets) /\ Elems(toChip') \subseteq Elems(toChip)
      /\ Head(toChip).id \in Ids /\ Head(toChip).cfg \in Ids /\ Answer \in Answers
  BY <1>2, ChipTakes DEF Packets
<1>4. toHost' \in Seq(Answers)
  BY <1>1, <1>2, <1>3, Appended DEF LineTypes
<1>5. chip' \in [Ids -> {"none", "init", "idle", "active"}] /\ chipCfg' \in [Ids -> Ids]
  <2>1. SessionAfter(Head(toChip).oid) \in {"none", "init", "idle", "active"}
    BY DEF SessionAfter
  <2> QED BY <1>1, <1>3, <2>1 DEF ChipActs, LineTypes
<1>6. LineTypes'
  BY <1>1, <1>2, <1>4, <1>5 DEF LineTypes
<1>7. BridgeTypes' /\ TaskTypes' /\ ManagerInv'
  BY <1>1, <1>2, <1>3
     DEF bridgeVars, managerVars, BridgeTypes, TaskTypes, ManagerInv, Waiting
<1> QED BY <1>6, <1>7, BaseFromParts

LEMMA LosesBase ==
  ASSUME BaseInv, LoseCommand \/ LoseAnswer \/ Notification
  PROVE  BaseInv'
<1>1. /\ BridgeTypes /\ TaskTypes /\ LineTypes /\ ManagerInv
  BY BaseInParts
<1>2. CASE LoseCommand
  <2>1. /\ toChip # << >> /\ toChip' = Tail(toChip)
        /\ UNCHANGED <<bridgeVars, managerVars, toHost, torn, chipVars>>
        /\ losses' \in 0 .. MaxLosses
    BY <1>1, <1>2, Numbers DEF LoseCommand, LineTypes
  <2>2. toChip' \in Seq(Packets) /\ Elems(toChip') \subseteq Elems(toChip)
    BY <2>1, ChipTakes
  <2>3. BridgeTypes' /\ TaskTypes' /\ ManagerInv'
    BY <1>1, <2>1, <2>2
       DEF bridgeVars, managerVars, BridgeTypes, TaskTypes, ManagerInv, Waiting
  <2> QED BY <1>1, <2>1, <2>3, LineKept, BaseFromParts DEF LineTypes
<1>3. CASE LoseAnswer
  <2>1. /\ toHost # << >> /\ toHost' = Tail(toHost) /\ torn' \in BOOLEAN
        /\ UNCHANGED <<bridgeVars, managerVars, toChip, chipVars>>
        /\ losses' \in 0 .. MaxLosses
    BY <1>1, <1>3, Numbers DEF LoseAnswer, LineTypes
  <2>2. toHost' \in Seq(Answers)
    BY <1>1, <2>1, HeadAndTail DEF LineTypes
  <2> QED BY <1>1, <2>1, <2>2, ManagerKept, LineKept, BaseFromParts
<1>4. CASE Notification
  <2>1. torn' = FALSE /\ UNCHANGED <<bridgeVars, managerVars, toChip, toHost, losses, chipVars>>
    BY <1>4 DEF Notification
  <2> QED BY <1>1, <2>1, ManagerKept, LineKept, BaseFromParts DEF LineTypes
<1> QED BY <1>2, <1>3, <1>4

LEMMA BaseInitially == ASSUME UwbInit PROVE BaseInv
<1>1. BridgeTypes
  <2>1. g_pendingCfg \in [id : Ids, cfg : Ids] /\ writing \in [oob : Ids, idWritten : BOOLEAN]
    BY Numbers DEF UwbInit, NotWriting
  <2>2. faults \in FaultSets /\ starts \in 0 .. MaxStarts
    BY Numbers DEF UwbInit
  <2>3. g_hasCachedConfig \in BOOLEAN /\ g_pendingStart \in BOOLEAN /\ g_pendingStop \in BOOLEAN
    BY DEF UwbInit
  <2> QED BY <2>1, <2>2, <2>3 DEF BridgeTypes
<1>2. << >> \in Seq(Packets) /\ << >> \in Seq(Answers) /\ Elems(<< >>) = {}
  BY EmptySeq DEF Elems
<1>3. TaskTypes
  <2>1. packet \in Packets /\ activeSessionId_ \in Ids
    BY Numbers DEF UwbInit, Packets
  <2>2. command \in Steps \cup {"none"} /\ attempt \in 0 .. 3
    BY DEF UwbInit
  <2>3. /\ restart \in BOOLEAN /\ stopOk \in BOOLEAN /\ sessionActive_ \in BOOLEAN
        /\ g_busy \in BOOLEAN
    BY DEF UwbInit
  <2>4. result \in {"none", "SUCCESS", "FAIL"} /\ toChip \in Seq(Packets)
    BY <1>2 DEF UwbInit
  <2> QED BY <2>1, <2>2, <2>3, <2>4 DEF TaskTypes
<1>4. LineTypes
  <2>1. toHost \in Seq(Answers) /\ torn \in BOOLEAN
    BY <1>2 DEF UwbInit
  <2>2. losses \in 0 .. MaxLosses
    BY Numbers DEF UwbInit
  <2>3. chip \in [Ids -> {"none", "init", "idle", "active"}] /\ chipCfg \in [Ids -> Ids]
    BY Numbers DEF UwbInit
  <2> QED BY <2>1, <2>2, <2>3 DEF LineTypes
<1>5. ManagerInv
  BY <1>2 DEF UwbInit, ManagerInv, Waiting
<1> QED BY <1>1, <1>3, <1>4, <1>5, BaseInParts

LEMMA BaseKept == BaseInv /\ [UwbNext]_uwbVars => BaseInv'
<1> SUFFICES ASSUME BaseInv, [UwbNext]_uwbVars PROVE BaseInv'
  OBVIOUS
<1>1. CASE UwbNext
  BY <1>1, BridgeBase, ServeStopBase, ServeStartBase, PacketBase, TimeoutBase, ChipActsBase,
     LosesBase DEF UwbNext, UwbTask
<1>2. CASE UNCHANGED uwbVars
  <2>1. UNCHANGED <<bridgeVars, managerVars, toChip, toHost, torn, losses, chipVars>>
    BY <1>2 DEF uwbVars, lineVars
  <2> QED BY <2>1, BaseInParts, ManagerKept, LineKept, BaseFromParts DEF LineTypes
<1> QED BY <1>1, <1>2

LEMMA BaseHolds == UwbSpec => []BaseInv
<1>1. UwbInit => BaseInv
  BY BaseInitially
<1> QED BY <1>1, BaseKept, PTL DEF UwbSpec

THEOREM UwbTypeCorrect == UwbSpec => []UwbTypeOK
<1>1. BaseInv => UwbTypeOK
  BY DEF BaseInv
<1> QED BY <1>1, BaseHolds, PTL

-----------------------------------------------------------------------------
(* What is left on the line of the commands before this one.  Each attempt   *)
(* costs a loss while an older packet is under way, and after an answer that *)
(* counts there is none: so before the third loss a command that is given up *)
(* leaves nothing but its own packets behind.                                *)

InPipe == Elems(toHost) \cup Elems(toChip)

\* What an older packet can be for when uwbTask waits for command c.
Before(c, active) ==
  CASE c = "init"          -> {"deinit"}
    [] c = "config"        -> {"init"}
    [] c = "ranging_start" -> {"config"}
    [] c = "undo"          -> {"config", "ranging_start"}
    [] c = "ranging_stop"  -> {"ranging_start"}
    [] c = "deinit"        -> {"ranging_stop"}
    [] OTHER               -> IF active THEN {"ranging_start"} ELSE {"deinit", "init"}

\* Between two requests the next command is the INIT of a start, or a stop, which has
\* no older packets.
AwaitedOid == IF Waiting THEN Oid(command) ELSE "init"

Nothing == toHost = << >> /\ toChip = << >>

PipeInv ==
  /\ InOrder(toHost, toChip, AwaitedOid)
  /\ \A x \in InPipe : x.oid \in Before(command, sessionActive_) \/ (Waiting /\ x.oid = Oid(command))
  /\ Waiting /\ (\E x \in InPipe : x.oid # Oid(command)) => losses >= attempt
  /\ losses = 0 => Len(toHost) + Len(toChip) = (IF Waiting THEN 1 ELSE 0) /\ ~torn

LEMMA OrderAll ==
  ASSUME NEW h, NEW c, NEW o, \A x \in Elems(h) \cup Elems(c) : x.oid = o, NEW oid
  PROVE  InOrder(h, c, oid)
BY DEF InOrder, Tails, Elems

LEMMA LineFacts ==
  ASSUME BaseInv
  PROVE  /\ toHost \in Seq(Answers) /\ toChip \in Seq(Packets) /\ losses \in Nat /\ torn \in BOOLEAN
         /\ Len(toHost) \in Nat /\ Len(toChip) \in Nat
         /\ Len(toHost) = 0 <=> toHost = << >>
         /\ Len(toChip) = 0 <=> toChip = << >>
         /\ toHost = << >> <=> Elems(toHost) = {}
         /\ toChip = << >> <=> Elems(toChip) = {}
         /\ sessionActive_ \in BOOLEAN /\ attempt \in Nat /\ (Waiting => attempt >= 1)
<1>1. /\ toHost \in Seq(Answers) /\ toChip \in Seq(Packets) /\ losses \in Nat /\ torn \in BOOLEAN
      /\ sessionActive_ \in BOOLEAN /\ attempt \in Nat /\ (Waiting => attempt >= 1)
  BY BaseInParts, Numbers DEF LineTypes, TaskTypes, ManagerInv
<1> QED BY <1>1, ElemsOfSeq

LEMMA HeardFacts ==
  ASSUME BaseInv, toHost # << >>, toHost' = Tail(toHost)
  PROVE  /\ Elems(toHost) = {Head(toHost)} \cup Elems(toHost')
         /\ Head(toHost) \in Answers /\ toHost' \in Seq(Answers)
         /\ Len(toHost) >= 1 /\ Len(toHost') = Len(toHost) - 1
BY LineFacts, HeadAndTail, ElemsTail

\* An answer that counts is taken from the line; or the wait is over.
Heard ==
  /\ toHost # << >> /\ toHost' = Tail(toHost) /\ torn' = FALSE /\ UNCHANGED <<losses, chipVars>>
  /\ Waiting /\ ~torn /\ Head(toHost).oid = Oid(command)

Late ==
  /\ Waiting /\ UNCHANGED <<toHost, torn, chipVars>>
  /\ \/ Nothing /\ losses' = losses
     \/ ~Nothing /\ losses' = losses + 1

LEMMA OwnRest ==
  ASSUME BaseInv, PipeInv, losses' < 3, Heard \/ (Late /\ attempt = Attempts(command)),
         command \notin {"ranging_stop", "deinit", "undo"} => Attempts(command) = 3,
         command \in {"ranging_stop", "deinit", "undo"} => Attempts(command) = 2
  PROVE  /\ \A x \in Elems(toHost') \cup Elems(toChip) : x.oid = Oid(command)
         /\ losses' = 0 => toHost' = << >> /\ toChip = << >> /\ torn' = FALSE
         /\ losses' >= losses /\ toHost' \in Seq(Answers) /\ losses' \in Nat
<1>1. CASE Heard
  <2>1. InOrder(toHost, toChip, Oid(command))
    BY <1>1 DEF PipeInv, AwaitedOid, Heard
  <2>2. \A x \in Elems(toHost') \cup Elems(toChip) : x.oid = Oid(command)
    BY <1>1, <2>1, LineFacts, OrderTake DEF Heard
  <2>3. toHost' \in Seq(Answers) /\ Len(toHost') = Len(toHost) - 1 /\ Len(toHost) >= 1
    BY <1>1, HeardFacts DEF Heard
  <2>4. losses = 0 => Len(toHost) + Len(toChip) = 1
    BY <1>1 DEF PipeInv, Heard
  <2>5. losses = 0 => Len(toHost') = 0 /\ Len(toChip) = 0
    BY <2>3, <2>4, LineFacts
  <2>6. Len(toHost') = 0 => toHost' = << >>
    BY <2>3, EmptySeq
  <2> QED BY <1>1, <2>2, <2>3, <2>5, <2>6, LineFacts DEF Heard
<1>2. CASE Late /\ attempt = Attempts(command)
  <2>1. CASE Nothing
    <3>1. losses' = losses /\ losses # 0
      BY <1>2, <2>1, LineFacts DEF Late, Nothing, PipeInv
    <3> QED BY <1>2, <2>1, <3>1, LineFacts DEF Late, Nothing, InPipe
  <2>2. CASE ~Nothing
    <3>1. losses' = losses + 1 /\ attempt >= 2 /\ losses < 2 /\ losses' # 0 /\ losses \in Nat
      BY <1>2, <2>2, LineFacts DEF Late
    <3>2. \A x \in InPipe : x.oid = Oid(command)
      BY <1>2, <3>1 DEF PipeInv, Late
    <3> QED BY <1>2, <3>1, <3>2, LineFacts DEF Late, InPipe
  <2> QED BY <2>1, <2>2
<1> QED BY <1>1, <1>2

\* The next command is sent behind what is left of the last one.
LEMMA NextPipe ==
  ASSUME BaseInv, BaseInv', NEW c \in Steps, NEW i \in Ids, Begins(c, i), NEW o,
         toHost' \in Seq(Answers),
         \A x \in Elems(toHost') \cup Elems(toChip) : x.oid = o,
         o \in Before(c, sessionActive_'),
         losses' = 0 => toHost' = << >> /\ toChip = << >> /\ torn' = FALSE
  PROVE  PipeInv'
<1>1. /\ command' = c /\ attempt' = 1 /\ Waiting' /\ packet' \in Packets /\ packet'.oid = Oid(c)
      /\ toChip' = Append(toChip, packet') /\ toChip \in Seq(Packets)
      /\ Elems(toChip') = Elems(toChip) \cup {packet'} /\ Len(toChip') = Len(toChip) + 1
  BY BeginsCommand, BaseInParts, LineFacts DEF BridgeTypes
<1>2. AwaitedOid' = Oid(c) /\ InPipe' = Elems(toHost') \cup Elems(toChip) \cup {packet'}
  BY <1>1 DEF AwaitedOid, InPipe
<1>3. InOrder(toHost', toChip', Oid(c))
  BY <1>1, OrderAll, OrderSend
<1>4. losses' = 0 => Len(toHost') + Len(toChip') = 1
  BY <1>1, EmptySeq, LineFacts
<1>5. losses' \in Nat /\ ((\E x \in InPipe' : x.oid # Oid(c)) => losses' >= 1)
  <2>1. losses' \in Nat
    BY BaseInv', Numbers DEF BaseInv, UwbTypeOK
  <2>2. losses' = 0 => \A x \in InPipe' : x.oid = Oid(c)
    BY <1>1, <1>2, ElemsOfSeq
  <2> QED BY <2>1, <2>2
<1>6. \A x \in InPipe' : x.oid = o \/ x.oid = Oid(c)
  BY <1>1, <1>2
<1> QED BY <1>1, <1>2, <1>3, <1>4, <1>5, <1>6 DEF PipeInv

LEMMA IdlePipe ==
  ASSUME BaseInv, NEW ok \in BOOLEAN, Returns(ok), NEW o,
         toHost' \in Seq(Answers),
         \A x \in Elems(toHost') \cup Elems(toChip) : x.oid = o,
         o \in Before("none", sessionActive_'),
         losses' = 0 => toHost' = << >> /\ toChip = << >> /\ torn' = FALSE
  PROVE  PipeInv'
<1>1. command' = "none" /\ ~Waiting' /\ toChip' = toChip
  BY DEF Returns, Waiting
<1>2. InOrder(toHost', toChip', AwaitedOid')
  BY <1>1, OrderAll
<1>3. losses' = 0 => Len(toHost') + Len(toChip') = 0
  BY <1>1, EmptySeq
<1> QED BY <1>1, <1>2, <1>3 DEF PipeInv, InPipe

LEMMA ReturnedPipe ==
  ASSUME BaseInv, BaseInv', PipeInv, losses' < 3, NEW ok \in BOOLEAN, NEW id \in Ids,
         CommandReturns(ok, id), Heard \/ (Late /\ attempt = Attempts(command))
  PROVE  PipeInv'
<1>1. /\ \A x \in Elems(toHost') \cup Elems(toChip) : x.oid = Oid(command)
      /\ losses' = 0 => toHost' = << >> /\ toChip = << >> /\ torn' = FALSE
      /\ toHost' \in Seq(Answers)
  BY OwnRest DEF Attempts
<1>2. Waiting /\ ManagerInv /\ BridgeTypes /\ TaskTypes
  BY BaseInParts DEF Heard, Late
<1>3. /\ activeSessionId_ \in Ids /\ g_pendingCfg.id \in Ids /\ activeSessionId_' \in Ids
      /\ sessionActive_' \in BOOLEAN /\ stopOk \in BOOLEAN
  BY <1>2, BaseInv' DEF TaskTypes, BridgeTypes, BaseInv, UwbTypeOK
<1>4. {"deinit", "init", "config", "ranging_start", "undo"} \subseteq Steps
  BY DEF Steps
<1>5. CASE StopReturned(ok)
  <2>1. Begins("deinit", activeSessionId_) /\ Oid(command) = "ranging_stop"
    BY <1>5 DEF StopReturned, Oid
  <2>2. "ranging_stop" \in Before("deinit", sessionActive_')
    BY DEF Before
  <2> QED BY <1>1, <1>3, <1>4, <2>1, <2>2, NextPipe
<1>6. CASE DeinitReturned(ok)
  <2>1. Oid(command) = "deinit" /\ sessionActive_' = FALSE
    BY <1>6 DEF DeinitReturned, Oid
  <2>2. "deinit" \in Before("init", sessionActive_') /\ "deinit" \in Before("none", FALSE)
    BY DEF Before
  <2>3. CASE restart /\ stopOk /\ ok
    <3>1. Begins("init", g_pendingCfg.id)
      BY <1>6, <2>3 DEF DeinitReturned, RunBegins
    <3> QED BY <1>1, <1>3, <1>4, <2>1, <2>2, <3>1, NextPipe
  <2>4. CASE ~(restart /\ stopOk /\ ok)
    <3>1. Returns(stopOk /\ ok) /\ (stopOk /\ ok) \in BOOLEAN
      BY <1>3, <1>6, <2>4 DEF DeinitReturned
    <3> QED BY <1>1, <2>1, <2>2, <3>1, IdlePipe
  <2> QED BY <2>3, <2>4
<1>7. CASE InitReturned(ok, id)
  <2>1. Oid(command) = "init" /\ ~sessionActive_
    BY <1>2, <1>7 DEF InitReturned, Oid, ManagerInv
  <2>2. "init" \in Before("config", sessionActive_') /\ "init" \in Before("none", FALSE)
    BY DEF Before
  <2>3. CASE ok
    <3>1. Begins("config", activeSessionId_')
      BY <1>7, <2>3 DEF InitReturned
    <3> QED BY <1>1, <1>3, <1>4, <2>1, <2>2, <3>1, NextPipe
  <2>4. CASE ~ok
    <3>1. Returns(FALSE) /\ sessionActive_' = FALSE
      BY <1>3, <1>7, <2>1, <2>4 DEF InitReturned
    <3> QED BY <1>1, <2>1, <2>2, <3>1, IdlePipe
  <2> QED BY <2>3, <2>4
<1>8. CASE ConfigReturned(ok)
  <2>1. Oid(command) = "config"
    BY <1>8 DEF ConfigReturned, Oid
  <2>2. PICK c \in {"ranging_start", "undo"} : Begins(c, activeSessionId_)
    BY <1>8 DEF ConfigReturned
  <2>3. "config" \in Before(c, sessionActive_') /\ c \in Steps
    BY <1>4, <2>2 DEF Before
  <2> QED BY <1>1, <1>3, <2>1, <2>2, <2>3, NextPipe
<1>9. CASE StartReturned(ok)
  <2>1. Oid(command) = "ranging_start"
    BY <1>9 DEF StartReturned, Oid
  <2>2. "ranging_start" \in Before("undo", sessionActive_') /\ "ranging_start" \in Before("none", TRUE)
    BY DEF Before
  <2>3. CASE ok
    <3>1. Returns(TRUE) /\ sessionActive_' = TRUE
      BY <1>9, <2>3 DEF StartReturned
    <3> QED BY <1>1, <2>1, <2>2, <3>1, IdlePipe
  <2>4. CASE ~ok
    <3>1. Begins("undo", activeSessionId_)
      BY <1>9, <2>4 DEF StartReturned, UndoStart
    <3> QED BY <1>1, <1>3, <1>4, <2>1, <2>2, <3>1, NextPipe
  <2> QED BY <2>3, <2>4
<1>10. CASE UndoReturned
  <2>1. Oid(command) = "deinit" /\ Returns(FALSE) /\ sessionActive_' = FALSE
    BY <1>2, <1>3, <1>10 DEF UndoReturned, Oid, ManagerInv
  <2>2. "deinit" \in Before("none", FALSE)
    BY DEF Before
  <2> QED BY <1>1, <2>1, <2>2, IdlePipe
<1> QED BY <1>5, <1>6, <1>7, <1>8, <1>9, <1>10 DEF CommandReturns

LEMMA AgainPipe ==
  ASSUME BaseInv, BaseInv', PipeInv, losses' < 3, Again, Heard \/ Late
  PROVE  PipeInv'
<1>1. /\ Waiting /\ Waiting' /\ command' = command /\ attempt' = attempt + 1 /\ packet' = packet
      /\ sessionActive_' = sessionActive_
      /\ toChip' = Append(toChip, packet) /\ packet.oid = Oid(command) /\ packet \in Packets
  BY BaseInParts DEF Heard, Late, Again, AttemptAfter, Waiting, ManagerInv, TaskTypes
<1>2. /\ toChip \in Seq(Packets) /\ Elems(toChip') = Elems(toChip) \cup {packet}
      /\ Len(toChip') = Len(toChip) + 1
  BY <1>1, LineFacts, Sends
<1>3. AwaitedOid' = Oid(command) /\ AwaitedOid = Oid(command)
  BY <1>1 DEF AwaitedOid
<1>4. CASE Heard
  <2>1. \A x \in Elems(toHost') \cup Elems(toChip) : x.oid = Oid(command)
    BY <1>3, <1>4, LineFacts, OrderTake DEF Heard, PipeInv
  <2>2. /\ toHost' \in Seq(Answers) /\ Len(toHost') = Len(toHost) - 1 /\ Len(toHost) >= 1
        /\ torn' = FALSE /\ losses' = losses
    BY <1>4, HeardFacts DEF Heard
  <2>3. InOrder(toHost', toChip', Oid(command))
    BY <1>1, <1>2, <2>1, <2>2, OrderAll, OrderSend
  <2>4. losses' = 0 => Len(toHost') + Len(toChip') = 1 /\ ~torn'
    BY <1>1, <1>2, <2>2, LineFacts DEF PipeInv
  <2>5. \A x \in InPipe' : x.oid = Oid(command)
    BY <1>1, <1>2, <2>1 DEF InPipe
  <2> QED BY <1>1, <1>3, <2>3, <2>4, <2>5 DEF PipeInv
<1>5. CASE Late
  <2>1. toHost' = toHost /\ InPipe' = InPipe \cup {packet}
    BY <1>2, <1>5 DEF Late, InPipe
  <2>2. losses' # 0
    BY <1>5, LineFacts DEF Late, Nothing, PipeInv
  <2>3. (\E x \in InPipe : x.oid # Oid(command)) => losses' >= attempt + 1
    BY <1>5, LineFacts DEF Late, Nothing, InPipe, PipeInv
  <2>4. InOrder(toHost', toChip', Oid(command))
    BY <1>1, <1>2, <1>3, <2>1, LineFacts, OrderSend DEF PipeInv
  <2>5. \A x \in InPipe' : x.oid \in Before(command, sessionActive_) \/ x.oid = Oid(command)
    BY <1>1, <2>1 DEF PipeInv
  <2> QED BY <1>1, <1>3, <2>1, <2>2, <2>3, <2>4, <2>5 DEF PipeInv
<1> QED BY <1>4, <1>5

LEMMA ServeStopPipe ==
  ASSUME BaseInv, BaseInv', PipeInv, losses' < 3, ServeStop
  PROVE  PipeInv'
<1>1. ~Waiting /\ UNCHANGED <<toHost, torn, losses>> /\ activeSessionId_ \in Ids
  BY BaseInParts DEF ServeStop, ManagerInv, TaskTypes
<1>2. losses = 0 => toHost = << >> /\ toChip = << >> /\ ~torn
  BY <1>1, LineFacts DEF PipeInv
<1>3. CASE sessionActive_
  <2>1. Begins("ranging_stop", activeSessionId_) /\ "ranging_stop" \in Steps
    BY <1>3 DEF ServeStop, Steps
  <2>2. \A x \in Elems(toHost) \cup Elems(toChip) : x.oid = "ranging_start"
    BY <1>1, <1>3, BaseInParts DEF PipeInv, InPipe, Before, Waiting
  <2>3. "ranging_start" \in Before("ranging_stop", sessionActive_')
    BY DEF Before
  <2> QED BY <1>1, <1>2, <2>1, <2>2, <2>3, LineFacts, NextPipe
<1>4. CASE ~sessionActive_
  <2>1. command = "none" /\ command' = "none" /\ toChip' = toChip /\ sessionActive_' = sessionActive_
    BY <1>1, <1>4 DEF ServeStop, Returns, Waiting
  <2> QED BY <1>1, <2>1 DEF PipeInv, InPipe, AwaitedOid, Waiting
<1> QED BY <1>3, <1>4

LEMMA ServeStartPipe ==
  ASSUME BaseInv, BaseInv', PipeInv, losses' < 3, ServeStart
  PROVE  PipeInv'
<1>1. /\ ~Waiting /\ UNCHANGED <<toHost, torn, losses, sessionActive_>>
      /\ activeSessionId_ \in Ids /\ g_pendingCfg.id \in Ids /\ g_pendingCfg \in [id : Ids, cfg : Ids]
  BY BaseInParts DEF ServeStart, ManagerInv, TaskTypes, BridgeTypes
<1>2. losses = 0 => toHost = << >> /\ toChip = << >> /\ ~torn
  BY <1>1, LineFacts DEF PipeInv
<1>3. CASE sessionActive_
  <2>1. Begins("ranging_stop", activeSessionId_) /\ "ranging_stop" \in Steps
    BY <1>3 DEF ServeStart, Steps
  <2>2. \A x \in Elems(toHost) \cup Elems(toChip) : x.oid = "ranging_start"
    BY <1>1, <1>3, BaseInParts DEF PipeInv, InPipe, Before, Waiting
  <2>3. "ranging_start" \in Before("ranging_stop", sessionActive_')
    BY DEF Before
  <2> QED BY <1>1, <1>2, <2>1, <2>2, <2>3, LineFacts, NextPipe
<1>4. CASE ~sessionActive_
  <2>1. Begins("init", g_pendingCfg.id) /\ "init" \in Steps /\ Oid("init") = "init"
    BY <1>4 DEF ServeStart, RunBegins, Steps, Oid
  <2>2. /\ command' = "init" /\ attempt' = 1 /\ Waiting' /\ packet' \in Packets
        /\ packet'.oid = "init" /\ toChip' = Append(toChip, packet')
        /\ Elems(toChip') = Elems(toChip) \cup {packet'} /\ Len(toChip') = Len(toChip) + 1
    BY <1>1, <2>1, LineFacts, BeginsCommand
  <2>3. AwaitedOid' = "init" /\ AwaitedOid = "init" /\ InPipe' = InPipe \cup {packet'}
    BY <1>1, <2>1, <2>2 DEF AwaitedOid, InPipe
  <2>4. InOrder(toHost', toChip', AwaitedOid')
    BY <1>1, <2>2, <2>3, LineFacts, OrderSend DEF PipeInv
  <2>5. losses' = 0 => Len(toHost') + Len(toChip') = 1 /\ ~torn'
    BY <1>1, <1>2, <2>2, LineFacts
  <2>6. losses' = 0 => \A x \in InPipe' : x.oid = "init"
    BY <1>1, <1>2, <2>2, <2>3, LineFacts DEF InPipe
  <2>7. \A x \in InPipe' : x.oid = "deinit" \/ x.oid = "init"
    <3>1. Before(command, sessionActive_) = {"deinit", "init"}
      BY <1>1, <1>4 DEF Before, Waiting
    <3> QED BY <1>1, <2>2, <2>3, <3>1 DEF PipeInv
  <2>8. "deinit" \in Before("init", sessionActive_')
    BY DEF Before
  <2> QED BY <1>1, <2>1, <2>2, <2>4, <2>5, <2>6, <2>7, <2>8, LineFacts DEF PipeInv
<1> QED BY <1>3, <1>4

\* Behind an answer whose place a later one takes is that answer.
LEMMA SupersededFacts ==
  ASSUME BaseInv, toHost # << >>, toHost' = Tail(toHost), Superseded
  PROVE  Len(toHost) >= 2 /\ \E a \in Elems(toHost') : a.oid = Oid(command)
<1>1. PICK i \in 2 .. Len(toHost) : toHost[i].oid = Oid(command)
  BY DEF Superseded, Expected
<1>2. /\ Len(Tail(toHost)) = Len(toHost) - 1 /\ Len(toHost) \in Nat
      /\ \A j \in 1 .. Len(Tail(toHost)) : Tail(toHost)[j] = toHost[j + 1]
  BY LineFacts, HeadAndTail
<1>3. i - 1 \in 1 .. Len(Tail(toHost)) /\ Tail(toHost)[i - 1] = toHost[i] /\ Len(toHost) >= 2
  BY <1>1, <1>2
<1> QED BY <1>1, <1>3 DEF Elems

LEMMA PacketPipe ==
  ASSUME BaseInv, BaseInv', PipeInv, losses' < 3, Packet
  PROVE  PipeInv'
<1>1. /\ toHost # << >> /\ Head(toHost) \in Answers
      /\ toHost' = Tail(toHost) /\ toHost' \in Seq(Answers)
      /\ torn' = FALSE /\ UNCHANGED <<losses, chipVars>>
      /\ \/ Accepts(Head(toHost))
         \/ /\ torn \/ ~Waiting \/ Head(toHost).oid # Oid(command) \/ Superseded
            /\ UNCHANGED <<bridgeVars, managerVars, toChip>>
  BY PacketCases
<1>2. CASE Accepts(Head(toHost))
  <2>1. Heard /\ Head(toHost).id \in Ids
    BY <1>1, <1>2 DEF Heard, Accepts, Answers
  <2>2. Again \/ CommandReturns(TRUE, Head(toHost).id) \/ CommandReturns(FALSE, Head(toHost).id)
    BY <1>2 DEF Accepts
  <2> QED BY <2>1, <2>2, AgainPipe, ReturnedPipe
<1>3. CASE /\ torn \/ ~Waiting \/ Head(toHost).oid # Oid(command) \/ Superseded
           /\ UNCHANGED <<bridgeVars, managerVars, toChip>>
  <2>1. Elems(toHost) = {Head(toHost)} \cup Elems(toHost') /\ Len(toHost) >= 1
    BY <1>1, HeardFacts
  <2>2. /\ Waiting' = Waiting /\ command' = command /\ attempt' = attempt /\ AwaitedOid' = AwaitedOid
        /\ sessionActive_' = sessionActive_ /\ toChip' = toChip /\ InPipe' \subseteq InPipe
        /\ Head(toHost) \in InPipe
    BY <1>3, <2>1 DEF managerVars, Waiting, AwaitedOid, InPipe
  <2>3. losses # 0
    <3>1. Superseded => Len(toHost) >= 2
      BY <1>1, SupersededFacts
    <3>2. losses = 0 => Len(toHost) <= 1 /\ ~torn
      BY LineFacts DEF PipeInv
    <3>3. ~Superseded => losses # 0
      BY <1>3, <2>1, <2>2, LineFacts DEF PipeInv
    <3> QED BY <3>1, <3>2, <3>3, LineFacts
  <2>4. InOrder(toHost', toChip', AwaitedOid')
    BY <1>1, <2>2, LineFacts, OrderTake DEF PipeInv
  <2> QED BY <1>1, <2>2, <2>3, <2>4 DEF PipeInv
<1> QED BY <1>1, <1>2, <1>3

LEMMA TimeoutCases ==
  ASSUME BaseInv, Timeout
  PROVE  Late /\ (Again \/ (attempt = Attempts(command) /\ CommandReturns(FALSE, 0)))
<1>1. Nothing <=> toChip \o toHost = << >>
  <2>1. Nothing => toChip \o toHost = << >>
    BY DEF Nothing
  <2>2. Len(toChip \o toHost) = Len(toChip) + Len(toHost)
    BY LineFacts, ConcatProperties
  <2>3. toChip \o toHost = << >> => Len(toChip) + Len(toHost) = 0
    BY <2>2
  <2> QED BY <2>1, <2>3, LineFacts DEF Nothing
<1> QED BY <1>1 DEF Timeout, Late, Waiting, GivesUp, Nothing

LEMMA TimeoutPipe ==
  ASSUME BaseInv, BaseInv', PipeInv, losses' < 3, Timeout
  PROVE  PipeInv'
BY TimeoutCases, Numbers, AgainPipe, ReturnedPipe

LEMMA ChipActsPipe ==
  ASSUME BaseInv, BaseInv', PipeInv, ChipActs
  PROVE  PipeInv'
<1>1. /\ toChip # << >> /\ toChip' = Tail(toChip) /\ toHost' = Append(toHost, Answer)
      /\ UNCHANGED <<bridgeVars, managerVars, torn, losses>>
  BY DEF ChipActs, Answer
<1>2. /\ Waiting' = Waiting /\ command' = command /\ attempt' = attempt /\ AwaitedOid' = AwaitedOid
      /\ sessionActive_' = sessionActive_
  BY <1>1 DEF managerVars, Waiting, AwaitedOid
<1>3. InOrder(toHost', toChip', AwaitedOid')
  BY <1>1, <1>2, LineFacts, ChipTakes, OrderMove DEF PipeInv
<1>4. /\ Elems(toHost') = Elems(toHost) \cup {Answer} /\ Len(toHost') = Len(toHost) + 1
      /\ Elems(toChip) = {Head(toChip)} \cup Elems(toChip') /\ Len(toChip') = Len(toChip) - 1
      /\ Answer.oid = Head(toChip).oid
  BY <1>1, LineFacts, ChipTakes, ElemsAppend, Appended
<1>5. \A x \in InPipe' : \E y \in InPipe : y.oid = x.oid
  BY <1>4 DEF InPipe
<1>6. Len(toHost') + Len(toChip') = Len(toHost) + Len(toChip)
  BY <1>4, LineFacts
<1> QED BY <1>1, <1>2, <1>3, <1>5, <1>6 DEF PipeInv

LEMMA LosesPipe ==
  ASSUME BaseInv, BaseInv', PipeInv, LoseCommand \/ LoseAnswer \/ Notification
  PROVE  PipeInv'
<1>1. /\ Waiting' = Waiting /\ command' = command /\ attempt' = attempt /\ AwaitedOid' = AwaitedOid
      /\ sessionActive_' = sessionActive_
  BY DEF LoseCommand, LoseAnswer, Notification, managerVars, Waiting, AwaitedOid
<1>2. CASE LoseCommand
  <2>1. /\ toChip # << >> /\ toChip' = Tail(toChip) /\ toHost' = toHost /\ losses' = losses + 1
    BY <1>2 DEF LoseCommand
  <2>2. InOrder(toHost', toChip', AwaitedOid') /\ InPipe' \subseteq InPipe
    BY <1>1, <2>1, LineFacts, ChipTakes, OrderLose DEF PipeInv, InPipe
  <2> QED BY <1>1, <2>1, <2>2, LineFacts DEF PipeInv
<1>3. CASE LoseAnswer
  <2>1. /\ toHost # << >> /\ toHost' = Tail(toHost) /\ toChip' = toChip /\ losses' = losses + 1
    BY <1>3 DEF LoseAnswer
  <2>2. InOrder(toHost', toChip', AwaitedOid') /\ InPipe' \subseteq InPipe
    BY <1>1, <2>1, LineFacts, HeardFacts, OrderTake DEF PipeInv, InPipe
  <2> QED BY <1>1, <2>1, <2>2, LineFacts DEF PipeInv
<1>4. CASE Notification
  BY <1>1, <1>4 DEF Notification, PipeInv, InPipe
<1> QED BY <1>2, <1>3, <1>4

LEMMA BridgePipe ==
  ASSUME PipeInv, UNCHANGED <<managerVars, lineVars>>
  PROVE  PipeInv'
BY DEF managerVars, lineVars, PipeInv, InPipe, AwaitedOid, Waiting

-----------------------------------------------------------------------------
(* What the chip ranges, and what it will range when it has taken up what is *)
(* on the line.                                                              *)

OfSession == {"ranging_start", "ranging_stop", "deinit"}

\* The session activeSessionId_ may have been started.
Holding ==
  \/ command \in {"ranging_start", "ranging_stop", "deinit", "undo"}
  \/ command = "none" /\ sessionActive_

Stopping == command \in {"ranging_stop", "deinit", "undo"}

Quiet == RangedByChip = {} /\ \A p \in Elems(toChip) : p.oid # "ranging_start"

Started == \E a \in Elems(toHost) : a.oid = "ranging_start" /\ a.ok

OneRanged ==
  Holding => /\ RangedByChip \subseteq {activeSessionId_}
             /\ \A p \in Elems(toChip) : p.oid \in OfSession => p.id = activeSessionId_

NoneRanged == ~Holding => Quiet

ActiveRanged == command = "none" /\ sessionActive_ => chip[activeSessionId_] = "active"

StartAnswered ==
  command = "ranging_start"
    => /\ Started => chip[activeSessionId_] = "active"
       /\ losses = 0 /\ RangedByChip # {} => Started

StopAnswered == Stopping /\ (\E a \in Elems(toHost) : a.oid = Oid(command)) => Quiet

\* While the stop has not come through, each of its attempts but the one under way, and
\* the failure that led to it, was a loss.
StopUnderWay == IF \E p \in Elems(toChip) : p.oid \in {"ranging_stop", "deinit"} THEN 1 ELSE 0

FailedBefore == IF command = "ranging_stop" THEN 0 ELSE 1

StopOwed == Stopping /\ ~Quiet => losses + StopUnderWay >= attempt + FailedBefore

ChipInv ==
  OneRanged /\ NoneRanged /\ ActiveRanged /\ StartAnswered /\ StopAnswered /\ StopOwed

HostInv == BaseInv /\ (losses < 3 => PipeInv /\ ChipInv)

-----------------------------------------------------------------------------
(* A wait that ends leaves the chip as it is.                                *)

LEMMA WaitEnds ==
  ASSUME BaseInv, PipeInv, Heard \/ Late
  PROVE  /\ RangedByChip' = RangedByChip /\ chip' = chip /\ Waiting
         /\ Elems(toHost') \subseteq Elems(toHost)
         /\ Late => losses' >= 1 /\ losses' >= losses
         /\ Heard /\ losses' = 0 => Elems(toHost) = {Head(toHost)} /\ Elems(toChip) = {}
         /\ losses' \in Nat
<1>1. /\ RangedByChip' = RangedByChip /\ chip' = chip /\ Waiting
  BY DEF Heard, Late, chipVars, RangedByChip
<1>2. CASE Heard
  <2>1. Elems(toHost) = {Head(toHost)} \cup Elems(toHost')
        /\ Len(toHost') = Len(toHost) - 1 /\ Len(toHost) >= 1 /\ toHost' \in Seq(Answers)
    BY <1>2, HeardFacts DEF Heard
  <2>2. losses = 0 => Len(toHost) + Len(toChip) = 1
    BY <1>2 DEF PipeInv, Heard
  <2>3. losses = 0 => Len(toChip) = 0 /\ Len(toHost') = 0
    BY <2>1, <2>2, LineFacts
  <2>4. Len(toHost') = 0 => Elems(toHost') = {}
    BY <2>1, ElemsOfSeq
  <2>5. ~Late \/ (losses' >= 1 /\ losses' >= losses)
    BY <1>2, LineFacts DEF Heard, Late, Nothing, PipeInv
  <2> QED BY <1>1, <1>2, <2>1, <2>3, <2>4, <2>5, LineFacts DEF Heard
<1>3. CASE Late
  <2>1. losses' >= 1 /\ losses' >= losses /\ losses' \in Nat
    BY <1>3, LineFacts DEF Late, Nothing, PipeInv
  <2> QED BY <1>1, <1>3, <2>1 DEF Late
<1> QED BY <1>2, <1>3

\* A stop, or the undoing of a start, that ends has come through.
LEMMA StopDone ==
  ASSUME BaseInv, PipeInv, ChipInv, losses' < 3, Stopping,
         Heard \/ (Late /\ attempt = Attempts(command) /\ command # "ranging_stop")
  PROVE  Quiet
<1>1. CASE Heard
  <2>1. Head(toHost) \in Elems(toHost)
    BY <1>1, HeardFacts DEF Heard
  <2> QED BY <1>1, <2>1 DEF Heard, ChipInv, StopAnswered
<1>2. CASE Late /\ attempt = Attempts(command) /\ command # "ranging_stop"
  <2> SUFFICES ASSUME ~Quiet PROVE FALSE
    OBVIOUS
  <2>1. losses + StopUnderWay >= 3
    BY <1>2 DEF ChipInv, StopOwed, FailedBefore, Stopping, Attempts
  <2>2. CASE Nothing
    <3>1. StopUnderWay = 0 /\ losses' = losses
      BY <1>2, <2>2, LineFacts DEF Nothing, StopUnderWay, Late
    <3> QED BY <2>1, <3>1, LineFacts
  <2>3. CASE ~Nothing
    <3>1. StopUnderWay \in {0, 1} /\ losses' = losses + 1
      BY <1>2, <2>3 DEF StopUnderWay, Late
    <3> QED BY <2>1, <3>1, LineFacts
  <2> QED BY <2>2, <2>3
<1> QED BY <1>1, <1>2

\* Nothing is ranged and nothing will be, and another command than these is next.
LEMMA QuietNext ==
  ASSUME Quiet, RangedByChip' = RangedByChip, ~Holding',
         \A p \in Elems(toChip') : p \in Elems(toChip) \/ p.oid # "ranging_start"
  PROVE  ChipInv'
<1>1. Quiet'
  BY DEF Quiet
<1>2. command' # "ranging_start" /\ ~Stopping' /\ ~(command' = "none" /\ sessionActive_')
  BY DEF Holding, Stopping
<1> QED BY <1>1, <1>2
        DEF ChipInv, OneRanged, NoneRanged, ActiveRanged, StartAnswered, StopAnswered, StopOwed

LEMMA FirstAttempt ==
  ASSUME losses' \in Nat, StopUnderWay' = 1, attempt' = 1,
         command' = "ranging_stop" \/ Quiet' \/ losses' # 0
  PROVE  StopOwed'
<1>1. PICK n \in Nat : n = losses'
  OBVIOUS
<1>2. PICK f \in {0, 1} : f = FailedBefore' /\ (command' = "ranging_stop" => f = 0)
  BY DEF FailedBefore
<1>3. f = 0 \/ n # 0 \/ Quiet'
  BY <1>1, <1>2
<1>4. f = 0 \/ n # 0 => n + 1 >= 1 + f
  OBVIOUS
<1> QED BY <1>1, <1>2, <1>3, <1>4 DEF StopOwed

\* A stop, or the undoing of a start, is the next command.
LEMMA StopNext ==
  ASSUME BaseInv, BaseInv', NEW c \in {"ranging_stop", "deinit", "undo"},
         Begins(c, activeSessionId_), UNCHANGED activeSessionId_, RangedByChip' = RangedByChip,
         RangedByChip \subseteq {activeSessionId_},
         \A p \in Elems(toChip) : p.oid \in OfSession => p.id = activeSessionId_,
         \A a \in Elems(toHost') : a.oid # Oid(c),
         Quiet \/ c = "ranging_stop" \/ losses' >= 1
  PROVE  ChipInv'
<1>1. /\ command' = c /\ attempt' = 1 /\ packet' \in Packets /\ packet'.oid = Oid(c)
      /\ packet'.id = activeSessionId_ /\ Elems(toChip') = Elems(toChip) \cup {packet'}
  <2>1. c \in Steps /\ activeSessionId_ \in Ids
    BY BaseInParts DEF Steps, TaskTypes
  <2> QED BY <2>1, BaseInParts, LineFacts, BeginsCommand DEF BridgeTypes
<1>2. Holding' /\ Stopping' /\ command' # "ranging_start" /\ command' # "none"
      /\ Oid(c) \in {"ranging_stop", "deinit"}
  BY <1>1 DEF Holding, Stopping, Oid
<1>3. OneRanged'
  BY <1>1, <1>2 DEF OneRanged
<1>4. StopAnswered'
  BY <1>1, <1>2 DEF StopAnswered
<1>5. StopUnderWay' = 1 /\ losses' \in Nat
  <2>1. losses' \in Nat
    BY BaseInv', Numbers DEF BaseInv, UwbTypeOK
  <2> QED BY <1>1, <1>2, <2>1 DEF StopUnderWay
<1>6. Quiet => Quiet'
  BY <1>1, <1>2 DEF Quiet
<1>7. StopOwed'
  BY <1>1, <1>5, <1>6, FirstAttempt
<1> QED BY <1>2, <1>3, <1>4, <1>7 DEF ChipInv, NoneRanged, ActiveRanged, StartAnswered

LEMMA ReturnedChip ==
  ASSUME BaseInv, BaseInv', PipeInv, ChipInv, losses' < 3, NEW ok \in BOOLEAN, NEW id \in Ids,
         CommandReturns(ok, id), Heard \/ (Late /\ attempt = Attempts(command)),
         IF ok THEN Heard /\ Head(toHost).ok ELSE Heard => ~Head(toHost).ok
  PROVE  ChipInv'
<1>1. \A x \in Elems(toHost') \cup Elems(toChip) : x.oid = Oid(command)
  BY OwnRest DEF Attempts
<1>2. /\ RangedByChip' = RangedByChip /\ chip' = chip /\ Waiting
      /\ Elems(toHost') \subseteq Elems(toHost)
      /\ Late => losses' >= 1
      /\ Heard /\ losses' = 0 => Elems(toHost) = {Head(toHost)} /\ Elems(toChip) = {}
      /\ losses' \in Nat
  BY WaitEnds
<1>3. ManagerInv /\ BridgeTypes /\ TaskTypes
  BY BaseInParts
<1>4. /\ activeSessionId_ \in Ids /\ g_pendingCfg \in [id : Ids, cfg : Ids] /\ g_pendingCfg.id \in Ids
      /\ sessionActive_' \in BOOLEAN /\ stopOk \in BOOLEAN /\ toChip \in Seq(Packets)
      /\ activeSessionId_' \in Ids
  BY <1>3, LineFacts, BaseInv' DEF TaskTypes, BridgeTypes, BaseInv, UwbTypeOK
<1>5. CASE StopReturned(ok)
  <2>1. /\ Begins("deinit", activeSessionId_) /\ UNCHANGED activeSessionId_
        /\ Oid(command) = "ranging_stop" /\ Oid("deinit") = "deinit" /\ command = "ranging_stop"
    BY <1>5 DEF StopReturned, Oid
  <2>2. Heard => Quiet
    BY <2>1, StopDone DEF Stopping
  <2> QED BY <1>1, <1>2, <2>1, <2>2, StopNext DEF ChipInv, OneRanged, Holding
<1>6. CASE DeinitReturned(ok)
  <2>1. command = "deinit" /\ sessionActive_' = FALSE
    BY <1>6 DEF DeinitReturned
  <2>2. Quiet
    BY <2>1, StopDone DEF Stopping
  <2>3. CASE restart /\ stopOk /\ ok
    <3>1. Begins("init", g_pendingCfg.id)
      BY <1>6, <2>3 DEF DeinitReturned, RunBegins
    <3>2. /\ command' = "init" /\ packet'.oid = "init"
          /\ Elems(toChip') = Elems(toChip) \cup {packet'}
      BY <1>4, <3>1, BeginsCommand DEF Steps, Oid
    <3> QED BY <1>2, <2>2, <3>2, QuietNext DEF Holding
  <2>4. CASE ~(restart /\ stopOk /\ ok)
    <3>1. command' = "none" /\ toChip' = toChip
      BY <1>6, <2>4 DEF DeinitReturned, Returns
    <3> QED BY <1>2, <2>1, <2>2, <3>1, QuietNext DEF Holding
  <2> QED BY <2>3, <2>4
<1>7. CASE InitReturned(ok, id)
  <2>1. ~sessionActive_ /\ Quiet
    BY <1>2, <1>3, <1>7 DEF InitReturned, ManagerInv, ChipInv, NoneRanged, Holding
  <2>2. CASE ok
    <3>1. Begins("config", activeSessionId_')
      BY <1>7, <2>2 DEF InitReturned
    <3>2. /\ command' = "config" /\ packet'.oid = "config"
          /\ Elems(toChip') = Elems(toChip) \cup {packet'}
      BY <1>4, <3>1, BeginsCommand DEF Steps, Oid
    <3> QED BY <1>2, <2>1, <3>2, QuietNext DEF Holding
  <2>3. CASE ~ok
    <3>1. command' = "none" /\ toChip' = toChip /\ ~sessionActive_'
      BY <1>7, <2>1, <2>3 DEF InitReturned, Returns
    <3> QED BY <1>2, <2>1, <3>1, QuietNext DEF Holding
  <2> QED BY <2>2, <2>3
<1>8. CASE ConfigReturned(ok)
  <2>1. Quiet /\ command = "config" /\ Oid(command) = "config" /\ UNCHANGED activeSessionId_
    BY <1>8 DEF ConfigReturned, ChipInv, NoneRanged, Holding, Oid
  <2>2. CASE Begins("undo", activeSessionId_)
    <3>1. \A p \in Elems(toChip) : p.oid \notin OfSession
      BY <1>1, <2>1 DEF OfSession
    <3> QED BY <1>1, <1>2, <2>1, <2>2, <3>1, StopNext DEF Oid, Quiet
  <2>3. CASE Begins("ranging_start", activeSessionId_)
    <3>1. /\ command' = "ranging_start" /\ packet'.id = activeSessionId_
          /\ Elems(toChip') = Elems(toChip) \cup {packet'}
      BY <1>4, <2>3, BeginsCommand DEF Steps
    <3>2. OneRanged'
      BY <1>1, <1>2, <2>1, <3>1 DEF OneRanged, Quiet, OfSession
    <3>3. StartAnswered'
      BY <1>1, <1>2, <2>1 DEF StartAnswered, Started, Quiet
    <3> QED BY <3>1, <3>2, <3>3
            DEF ChipInv, NoneRanged, ActiveRanged, StopAnswered, StopOwed, Holding, Stopping
  <2> QED BY <1>8, <2>2, <2>3 DEF ConfigReturned
<1>9. CASE StartReturned(ok)
  <2>1. /\ command = "ranging_start" /\ Oid(command) = "ranging_start" /\ UNCHANGED activeSessionId_
        /\ RangedByChip \subseteq {activeSessionId_}
        /\ \A p \in Elems(toChip) : p.oid \in OfSession => p.id = activeSessionId_
    BY <1>9 DEF StartReturned, ChipInv, OneRanged, Holding, Oid
  <2>2. CASE ok
    <3>1. sessionActive_' = TRUE /\ command' = "none" /\ toChip' = toChip
      BY <1>9, <2>2 DEF StartReturned, Returns
    <3>2. Started
      <4>1. Head(toHost) \in Elems(toHost) /\ Head(toHost).oid = "ranging_start"
        BY <2>1, <2>2, HeardFacts DEF Heard
      <4> QED BY <2>2, <4>1 DEF Started
    <3>3. chip'[activeSessionId_'] = "active"
      BY <1>2, <2>1, <3>2 DEF ChipInv, StartAnswered
    <3>4. OneRanged'
      BY <1>2, <2>1, <3>1 DEF OneRanged
    <3> QED BY <3>1, <3>3, <3>4
            DEF ChipInv, NoneRanged, ActiveRanged, StartAnswered, StopAnswered, StopOwed,
                Holding, Stopping
  <2>3. CASE ~ok
    <3>1. Begins("undo", activeSessionId_)
      BY <1>9, <2>3 DEF StartReturned, UndoStart
    <3>2. CASE losses' = 0
      <4>1. Heard /\ Elems(toHost) = {Head(toHost)} /\ Elems(toChip) = {} /\ losses = 0
        BY <1>2, <3>2 DEF Heard
      <4>2. ~Started
        BY <2>3, <4>1 DEF Started
      <4>3. Quiet
        BY <2>1, <4>1, <4>2 DEF ChipInv, StartAnswered, Quiet
      <4> QED BY <1>1, <1>2, <2>1, <3>1, <4>3, StopNext DEF Oid
    <3>3. CASE losses' # 0
      BY <1>1, <1>2, <2>1, <3>1, <3>3, StopNext DEF Oid
    <3> QED BY <3>2, <3>3
  <2> QED BY <2>2, <2>3
<1>10. CASE UndoReturned
  <2>1. Quiet
    BY <1>10, StopDone DEF UndoReturned, Stopping
  <2>2. command' = "none" /\ toChip' = toChip /\ ~sessionActive_'
    BY <1>2, <1>3, <1>10 DEF UndoReturned, Returns, ManagerInv
  <2> QED BY <1>2, <2>1, <2>2, QuietNext DEF Holding
<1> QED BY <1>5, <1>6, <1>7, <1>8, <1>9, <1>10 DEF CommandReturns

LEMMA AgainChip ==
  ASSUME BaseInv, BaseInv', PipeInv, ChipInv, losses' < 3, Again, Heard \/ Late,
         Heard => ~Head(toHost).ok
  PROVE  ChipInv'
<1>1. /\ Waiting /\ command' = command /\ attempt' = attempt + 1
      /\ sessionActive_' = sessionActive_ /\ activeSessionId_' = activeSessionId_
      /\ toChip' = Append(toChip, packet) /\ packet.oid = Oid(command) /\ packet \in Packets
      /\ command \notin {"none", "init"} => packet.id = activeSessionId_
  BY BaseInParts DEF Heard, Late, Again, AttemptAfter, Waiting, ManagerInv, TaskTypes
<1>2. Elems(toChip') = Elems(toChip) \cup {packet}
  BY <1>1, LineFacts, ElemsAppend
<1>3. /\ RangedByChip' = RangedByChip /\ chip' = chip
      /\ Elems(toHost') \subseteq Elems(toHost)
      /\ Late => losses' >= 1
      /\ Heard /\ losses' = 0 => Elems(toHost) = {Head(toHost)} /\ Elems(toChip) = {}
      /\ losses' \in Nat
  BY WaitEnds
<1>4. Holding' = Holding /\ Stopping' = Stopping /\ FailedBefore' = FailedBefore
  BY <1>1 DEF Holding, Stopping, FailedBefore
<1>5. Quiet /\ command # "ranging_start" => Quiet'
  BY <1>1, <1>2, <1>3 DEF Quiet, Oid
<1>6. OneRanged'
  BY <1>1, <1>2, <1>3, <1>4 DEF ChipInv, OneRanged, Waiting, Holding
<1>7. NoneRanged'
  BY <1>4, <1>5 DEF ChipInv, NoneRanged, Holding
<1>8. StartAnswered'
  <2>1. Started' => Started
    BY <1>3 DEF Started
  <2>2. losses' = 0 => losses = 0 /\ ~Started
    BY <1>3 DEF Started, Heard
  <2> QED BY <1>1, <1>3, <2>1, <2>2 DEF ChipInv, StartAnswered
<1>9. StopAnswered'
  BY <1>1, <1>3, <1>4, <1>5 DEF ChipInv, StopAnswered, Stopping
<1>10. StopOwed'
  <2> SUFFICES ASSUME Stopping, ~Quiet
               PROVE  losses' + StopUnderWay' >= attempt + 1 + FailedBefore
    BY <1>1, <1>4, <1>5 DEF StopOwed, Stopping
  <2>1. Late
    BY StopDone
  <2>2. losses + StopUnderWay >= attempt + FailedBefore
    BY DEF ChipInv, StopOwed
  <2>3. StopUnderWay' = 1
    BY <1>1, <1>2 DEF StopUnderWay, Stopping, Oid
  <2>4. CASE Nothing
    <3>1. StopUnderWay = 0 /\ losses' = losses
      BY <2>1, <2>4, LineFacts DEF Nothing, StopUnderWay, Late
    <3> QED BY <2>2, <2>3, <3>1, LineFacts DEF FailedBefore
  <2>5. CASE ~Nothing
    <3>1. StopUnderWay \in {0, 1} /\ losses' = losses + 1
      BY <2>1, <2>5 DEF StopUnderWay, Late
    <3> QED BY <2>2, <2>3, <3>1, LineFacts DEF FailedBefore
  <2> QED BY <2>4, <2>5
<1> QED BY <1>1, <1>6, <1>7, <1>8, <1>9, <1>10 DEF ChipInv, ActiveRanged, Waiting

LEMMA ServeChip ==
  ASSUME BaseInv, BaseInv', PipeInv, ChipInv, ServeStop \/ ServeStart
  PROVE  ChipInv'
<1>1. /\ ~Waiting /\ UNCHANGED <<toHost, torn, losses, chip>> /\ command = "none"
      /\ RangedByChip' = RangedByChip
  BY BaseInParts DEF ServeStop, ServeStart, ManagerInv, chipVars, Waiting, RangedByChip
<1>2. /\ activeSessionId_ \in Ids /\ g_pendingCfg \in [id : Ids, cfg : Ids] /\ g_pendingCfg.id \in Ids
      /\ toChip \in Seq(Packets)
  BY BaseInParts, LineFacts DEF TaskTypes, BridgeTypes
<1>3. CASE sessionActive_
  <2>1. Begins("ranging_stop", activeSessionId_) /\ UNCHANGED activeSessionId_
    BY <1>3 DEF ServeStop, ServeStart
  <2>2. \A a \in Elems(toHost') : a.oid # Oid("ranging_stop")
    BY <1>1, <1>3 DEF PipeInv, InPipe, Before, Oid
  <2> QED BY <1>1, <1>3, <2>1, <2>2, StopNext DEF ChipInv, OneRanged, Holding
<1>4. CASE ~sessionActive_
  <2>1. Quiet
    BY <1>1, <1>4 DEF ChipInv, NoneRanged, Holding
  <2>2. CASE ServeStart
    <3>1. Begins("init", g_pendingCfg.id)
      BY <1>4, <2>2 DEF ServeStart, RunBegins
    <3>2. /\ command' = "init" /\ packet'.oid = "init"
          /\ Elems(toChip') = Elems(toChip) \cup {packet'}
      BY <1>2, <3>1, BeginsCommand DEF Steps, Oid
    <3> QED BY <1>1, <2>1, <3>2, QuietNext DEF Holding
  <2>3. CASE ServeStop
    <3>1. command' = "none" /\ toChip' = toChip /\ ~sessionActive_'
      BY <1>4, <2>3 DEF ServeStop, Returns
    <3> QED BY <1>1, <2>1, <3>1, QuietNext DEF Holding
  <2> QED BY <2>2, <2>3
<1> QED BY <1>3, <1>4

\* What does not concern the manager's session: the line loses something, or an answer is
\* not expected.
LEMMA LineChip ==
  ASSUME BaseInv, PipeInv, ChipInv, UNCHANGED <<managerVars, chipVars>>,
         Elems(toHost') \subseteq Elems(toHost), Elems(toChip') \subseteq Elems(toChip),
         losses' \in Nat,
         \/ UNCHANGED <<toChip, losses>> /\ (losses = 0 => toHost' = toHost)
         \/ losses' = losses + 1
  PROVE  ChipInv'
<1>1. /\ command' = command /\ attempt' = attempt /\ sessionActive_' = sessionActive_
      /\ activeSessionId_' = activeSessionId_ /\ chip' = chip /\ RangedByChip' = RangedByChip
  BY DEF managerVars, chipVars, RangedByChip
<1>2. Holding' = Holding /\ Stopping' = Stopping /\ FailedBefore' = FailedBefore
  BY <1>1 DEF Holding, Stopping, FailedBefore
<1>3. (Quiet => Quiet') /\ (Started' => Started)
  BY <1>1 DEF Quiet, Started
<1>4. OneRanged' /\ NoneRanged' /\ ActiveRanged'
  BY <1>1, <1>2, <1>3 DEF ChipInv, OneRanged, NoneRanged, ActiveRanged
<1>5. StartAnswered'
  <2>1. losses' = 0 => losses = 0 /\ toHost' = toHost
    BY LineFacts
  <2>2. toHost' = toHost => Started' = Started
    BY DEF Started
  <2> QED BY <1>1, <1>3, <2>1, <2>2 DEF ChipInv, StartAnswered
<1>6. StopAnswered'
  BY <1>1, <1>2, <1>3 DEF ChipInv, StopAnswered
<1>7. StopOwed'
  <2> SUFFICES ASSUME Stopping, ~Quiet
               PROVE  losses' + StopUnderWay' >= attempt + FailedBefore
    BY <1>1, <1>2, <1>3 DEF StopOwed
  <2>1. losses + StopUnderWay >= attempt + FailedBefore
    BY DEF ChipInv, StopOwed
  <2>2. StopUnderWay \in {0, 1} /\ StopUnderWay' \in {0, 1} /\ FailedBefore \in {0, 1}
    BY DEF StopUnderWay, FailedBefore
  <2>3. CASE UNCHANGED <<toChip, losses>>
    BY <2>1, <2>3 DEF StopUnderWay
  <2>4. CASE losses' = losses + 1
    BY <2>1, <2>2, <2>4, LineFacts
  <2> QED BY <2>3, <2>4
<1> QED BY <1>4, <1>5, <1>6, <1>7 DEF ChipInv

LEMMA PacketChip ==
  ASSUME BaseInv, BaseInv', PipeInv, ChipInv, losses' < 3, Packet
  PROVE  ChipInv'
<1>1. /\ toHost # << >> /\ Head(toHost) \in Answers
      /\ toHost' = Tail(toHost) /\ toHost' \in Seq(Answers)
      /\ torn' = FALSE /\ UNCHANGED <<losses, chipVars>>
      /\ \/ Accepts(Head(toHost))
         \/ /\ torn \/ ~Waiting \/ Head(toHost).oid # Oid(command) \/ Superseded
            /\ UNCHANGED <<bridgeVars, managerVars, toChip>>
  BY PacketCases
<1>2. CASE Accepts(Head(toHost))
  <2>1. Heard /\ Head(toHost).id \in Ids
    BY <1>1, <1>2 DEF Heard, Accepts, Answers
  <2>2. \/ ~Head(toHost).ok /\ Again
        \/ Head(toHost).ok /\ CommandReturns(TRUE, Head(toHost).id)
        \/ ~Head(toHost).ok /\ CommandReturns(FALSE, Head(toHost).id)
    BY <1>2 DEF Accepts
  <2> QED BY <2>1, <2>2, AgainChip, ReturnedChip
<1>3. CASE /\ torn \/ ~Waiting \/ Head(toHost).oid # Oid(command) \/ Superseded
           /\ UNCHANGED <<bridgeVars, managerVars, toChip>>
  <2>1. Elems(toHost) = {Head(toHost)} \cup Elems(toHost') /\ Len(toHost) >= 1
    BY <1>1, HeardFacts
  <2>2. losses # 0
    <3>1. Superseded => Len(toHost) >= 2
      BY <1>1, SupersededFacts
    <3>2. losses = 0 => Len(toHost) <= 1 /\ ~torn
      BY LineFacts DEF PipeInv
    <3>3. ~Superseded => losses # 0
      BY <1>3, <2>1, LineFacts DEF PipeInv, InPipe
    <3> QED BY <3>1, <3>2, <3>3, LineFacts
  <2> QED BY <1>1, <1>3, <2>1, <2>2, LineFacts, LineChip
<1> QED BY <1>1, <1>2, <1>3

LEMMA TimeoutChip ==
  ASSUME BaseInv, BaseInv', PipeInv, ChipInv, losses' < 3, Timeout
  PROVE  ChipInv'
<1>1. Late /\ (Again \/ (attempt = Attempts(command) /\ CommandReturns(FALSE, 0)))
  BY TimeoutCases
<1>2. ~Heard
  <2>1. Late => toHost' = toHost
    BY DEF Late
  <2>2. Heard => Len(toHost') = Len(toHost) - 1
    BY HeardFacts DEF Heard
  <2> QED BY <1>1, <2>1, <2>2, LineFacts
<1> QED BY <1>1, <1>2, Numbers, AgainChip, ReturnedChip

LEMMA ChipActsChip ==
  ASSUME BaseInv, BaseInv', PipeInv, ChipInv, ChipActs
  PROVE  ChipInv'
<1> DEFINE p == Head(toChip)
<1>1. /\ toChip # << >> /\ toChip' = Tail(toChip) /\ toHost' = Append(toHost, Answer)
      /\ UNCHANGED <<bridgeVars, managerVars, torn, losses>>
      /\ chip' = IF Obeys(p) THEN [chip EXCEPT ![p.id] = SessionAfter(p.oid)] ELSE chip
  BY DEF ChipActs, Answer
<1>2. /\ Elems(toHost') = Elems(toHost) \cup {Answer} /\ Elems(toChip) = {p} \cup Elems(toChip')
      /\ Answer.oid = p.oid /\ Answer.ok = Obeys(p)
      /\ p.id \in Ids /\ p.oid \in Steps \ {"undo"} /\ Obeys(p) \in BOOLEAN
  BY <1>1, LineFacts, ChipTakes, ElemsAppend
<1>3. /\ command' = command /\ attempt' = attempt /\ sessionActive_' = sessionActive_
      /\ activeSessionId_' = activeSessionId_ /\ losses' = losses /\ Waiting' = Waiting
  BY <1>1 DEF managerVars, Waiting
<1>4. /\ Holding' = Holding /\ Stopping' = Stopping /\ FailedBefore' = FailedBefore
  BY <1>3 DEF Holding, Stopping, FailedBefore
<1>5. chip \in [Ids -> {"none", "init", "idle", "active"}]
  BY BaseInParts DEF LineTypes
<1>6. InOrder(toHost, toChip, AwaitedOid)
      /\ (Answer.oid = AwaitedOid => \A x \in Elems(toChip') : x.oid = AwaitedOid)
  BY <1>1, LineFacts, ChipTakes, OrderMove DEF PipeInv
<1> HIDE DEF p
\* What the chip makes of each command.
<1>7. ASSUME NEW s \in Ids
      PROVE  /\ s # p.id => chip'[s] = chip[s]
             /\ chip'[p.id] = (IF Obeys(p) THEN SessionAfter(p.oid) ELSE chip[p.id])
  BY <1>1, <1>2, <1>5
<1>8. p.oid # "ranging_start" => RangedByChip' \subseteq RangedByChip
  <2>1. p.oid # "ranging_start" => SessionAfter(p.oid) # "active"
    BY DEF SessionAfter
  <2> QED BY <1>2, <1>7, <2>1 DEF RangedByChip
<1>9. RangedByChip' \subseteq RangedByChip \cup {p.id}
  BY <1>7 DEF RangedByChip
<1>10. p.oid \in {"ranging_stop", "deinit"} => p.id \notin RangedByChip'
  <2>1. CASE p.oid = "ranging_stop"
    <3>1. SessionAfter(p.oid) = "idle" /\ (chip[p.id] = "active" => Obeys(p))
      BY <2>1 DEF SessionAfter, Obeys
    <3> QED BY <1>2, <1>7, <3>1 DEF RangedByChip
  <2>2. CASE p.oid = "deinit"
    <3>1. SessionAfter(p.oid) = "none" /\ (chip[p.id] = "active" => Obeys(p))
      BY <2>2 DEF SessionAfter, Obeys
    <3> QED BY <1>2, <1>7, <3>1 DEF RangedByChip
  <2> QED BY <2>1, <2>2
<1>11. p.oid = "ranging_start" =>
         /\ chip[p.id] = "active" => chip'[p.id] = "active"
         /\ Answer.ok => chip'[p.id] = "active"
         /\ ~Answer.ok => RangedByChip' = RangedByChip
  <2>1. p.oid = "ranging_start" => SessionAfter(p.oid) = "active"
    BY DEF SessionAfter
  <2>2. ~Obeys(p) => chip' = chip
    BY <1>1
  <2> QED BY <1>2, <1>7, <2>1, <2>2 DEF RangedByChip
\* What that means for the manager.
<1>12. Quiet => Quiet'
  BY <1>2, <1>8 DEF Quiet
<1>13. OneRanged'
  BY <1>2, <1>3, <1>4, <1>8, <1>9 DEF ChipInv, OneRanged, OfSession
<1>14. NoneRanged'
  BY <1>4, <1>12 DEF ChipInv, NoneRanged
<1>15. Stopping /\ p.oid \in {"ranging_stop", "deinit"} => Quiet'
  <2> SUFFICES ASSUME Stopping, p.oid \in {"ranging_stop", "deinit"}
               PROVE  Quiet'
    OBVIOUS
  <2>1. RangedByChip' = {}
    <3>1. p.id = activeSessionId_ /\ RangedByChip \subseteq {activeSessionId_}
      BY <1>2 DEF ChipInv, OneRanged, Holding, Stopping, OfSession
    <3> QED BY <1>8, <1>10, <3>1
  <2>2. \A x \in Elems(toChip') : x.oid # "ranging_start"
    <3>1. CASE p.oid = Oid(command)
      BY <1>2, <1>6, <3>1 DEF AwaitedOid, Waiting, Stopping
    <3>2. CASE p.oid # Oid(command)
      <4>1. p \in InPipe /\ command \in {"ranging_stop", "deinit", "undo"}
        BY <1>2 DEF InPipe, Stopping
      <4>2. p.oid \in Before(command, sessionActive_)
        BY <3>2, <4>1 DEF PipeInv
      <4>3. command = "deinit"
        BY <4>1, <4>2 DEF Before
      <4>4. \A x \in InPipe : x.oid \in {"ranging_stop", "deinit"}
        BY <4>3 DEF PipeInv, Before, Oid
      <4> QED BY <1>2, <4>4 DEF InPipe
    <3> QED BY <3>1, <3>2
  <2> QED BY <2>1, <2>2 DEF Quiet
<1>16. ActiveRanged'
  <2> SUFFICES ASSUME command = "none", sessionActive_ PROVE chip'[activeSessionId_] = "active"
    BY <1>3 DEF ActiveRanged
  <2>1. chip[activeSessionId_] = "active" /\ activeSessionId_ \in Ids
    BY BaseInParts DEF ChipInv, ActiveRanged, TaskTypes
  <2>2. p \in InPipe
    BY <1>2 DEF InPipe
  <2>3. p.oid = "ranging_start" /\ p.id = activeSessionId_
    BY <1>2, <2>2 DEF PipeInv, Before, Waiting, ChipInv, OneRanged, Holding, OfSession
  <2> QED BY <1>11, <2>1, <2>3
<1>17. StartAnswered'
  <2> SUFFICES ASSUME command = "ranging_start"
               PROVE  /\ Started' => chip'[activeSessionId_] = "active"
                      /\ losses = 0 /\ RangedByChip' # {} => Started'
    BY <1>3 DEF StartAnswered
  <2>1. /\ Started => chip[activeSessionId_] = "active"
        /\ losses = 0 /\ RangedByChip # {} => Started
        /\ activeSessionId_ \in Ids
    BY BaseInParts DEF ChipInv, StartAnswered, TaskTypes
  <2>2. Started' <=> Started \/ (Answer.oid = "ranging_start" /\ Answer.ok)
    BY <1>2 DEF Started
  <2>3. CASE p.oid = "ranging_start"
    <3>1. p.id = activeSessionId_
      BY <1>2, <2>3 DEF ChipInv, OneRanged, Holding, OfSession
    <3> QED BY <1>2, <1>11, <2>1, <2>2, <2>3, <3>1
  <2>4. CASE p.oid # "ranging_start"
    <3>1. ~Started
      BY <1>2, <1>6, <2>4 DEF InOrder, Started, AwaitedOid, Waiting, Oid
    <3> QED BY <1>2, <1>8, <2>1, <2>2, <2>4, <3>1
  <2> QED BY <2>3, <2>4
<1>18. StopAnswered'
  <2> SUFFICES ASSUME Stopping, NEW a \in Elems(toHost'), a.oid = Oid(command) PROVE Quiet'
    BY <1>3, <1>4 DEF StopAnswered
  <2>1. Oid(command) \in {"ranging_stop", "deinit"}
    BY DEF Stopping, Oid
  <2>2. CASE a \in Elems(toHost)
    BY <1>12, <2>2 DEF ChipInv, StopAnswered
  <2>3. CASE a = Answer
    BY <1>2, <1>15, <2>1, <2>3
  <2> QED BY <1>2, <2>2, <2>3
<1>19. StopOwed'
  <2> SUFFICES ASSUME Stopping, ~Quiet'
               PROVE  losses + StopUnderWay' >= attempt + FailedBefore
    BY <1>3, <1>4 DEF StopOwed
  <2>1. losses + StopUnderWay >= attempt + FailedBefore
    BY <1>12 DEF ChipInv, StopOwed
  <2>2. p.oid \notin {"ranging_stop", "deinit"}
    BY <1>15
  <2>3. StopUnderWay' = StopUnderWay
    BY <1>2, <2>2 DEF StopUnderWay
  <2> QED BY <2>1, <2>3
<1> QED BY <1>13, <1>14, <1>16, <1>17, <1>18, <1>19 DEF ChipInv

LEMMA LosesChip ==
  ASSUME BaseInv, BaseInv', PipeInv, ChipInv, LoseCommand \/ LoseAnswer \/ Notification
  PROVE  ChipInv'
<1>1. CASE LoseCommand
  <2>1. /\ Elems(toChip') \subseteq Elems(toChip) /\ toHost' = toHost /\ losses' = losses + 1
        /\ UNCHANGED <<managerVars, chipVars>>
    BY <1>1, ChipTakes DEF LoseCommand
  <2> QED BY <2>1, LineFacts, LineChip
<1>2. CASE LoseAnswer
  <2>1. /\ Elems(toHost') \subseteq Elems(toHost) /\ toChip' = toChip /\ losses' = losses + 1
        /\ UNCHANGED <<managerVars, chipVars>>
    BY <1>2, HeardFacts DEF LoseAnswer
  <2> QED BY <2>1, LineFacts, LineChip
<1>3. CASE Notification
  <2>1. toHost' = toHost /\ toChip' = toChip /\ losses' = losses /\ UNCHANGED <<managerVars, chipVars>>
    BY <1>3 DEF Notification
  <2> QED BY <2>1, LineFacts, LineChip
<1> QED BY <1>1, <1>2, <1>3

LEMMA BridgeChip ==
  ASSUME ChipInv, UNCHANGED <<managerVars, lineVars, chipVars>>
  PROVE  ChipInv'
BY DEF managerVars, lineVars, chipVars, ChipInv, OneRanged, NoneRanged, ActiveRanged,
       StartAnswered, StopAnswered, StopOwed, Holding, Stopping, Quiet, Started, StopUnderWay,
       FailedBefore, RangedByChip

LEMMA HostInitially == ASSUME UwbInit PROVE HostInv
<1>1. Elems(toHost) = {} /\ Elems(toChip) = {} /\ Len(toHost) + Len(toChip) = 0
  BY EmptySeq DEF UwbInit, Elems
<1>2. PipeInv
  BY <1>1 DEF UwbInit, PipeInv, InPipe, InOrder, Tails, Elems, Waiting
<1>3. RangedByChip = {}
  BY DEF UwbInit, RangedByChip
<1>4. Quiet /\ command = "none" /\ ~sessionActive_
  BY <1>1, <1>3 DEF UwbInit, Quiet
<1>5. ChipInv
  BY <1>1, <1>4 DEF ChipInv, OneRanged, NoneRanged, ActiveRanged, StartAnswered, StopAnswered,
                    StopOwed, Holding, Stopping
<1> QED BY <1>2, <1>5, BaseInitially DEF HostInv

LEMMA LossesGrow ==
  ASSUME BaseInv, BaseInv', [UwbNext]_uwbVars, losses' < 3
  PROVE  losses < 3
<1>1. losses \in Nat /\ losses' \in Nat
  BY Numbers DEF BaseInv, UwbTypeOK
<1>2. losses' = losses \/ losses' = losses + 1
  BY DEF UwbNext, UwbTask, OobParsed, OobWritesId, OobCached, RequestStart, RequestStop, ServeStop,
         ServeStart, Packet, Timeout, ChipActs, LoseCommand, LoseAnswer, Notification, uwbVars,
         lineVars
<1> QED BY <1>1, <1>2

LEMMA HostKept == HostInv /\ [UwbNext]_uwbVars => HostInv'
<1> SUFFICES ASSUME HostInv, [UwbNext]_uwbVars PROVE HostInv'
  OBVIOUS
<1>1. BaseInv /\ BaseInv'
  BY BaseKept DEF HostInv
<1> SUFFICES ASSUME losses' < 3 PROVE PipeInv' /\ ChipInv'
  BY <1>1 DEF HostInv
<1>2. PipeInv /\ ChipInv
  BY <1>1, LossesGrow DEF HostInv
<1>3. CASE (\E k \in Oobs : OobParsed(k)) \/ OobWritesId \/ OobCached \/ RequestStart \/ RequestStop
  BY <1>1, <1>2, <1>3, BridgeBase, BridgePipe, BridgeChip
<1>4. CASE ServeStop \/ ServeStart
  BY <1>1, <1>2, <1>4, ServeStopPipe, ServeStartPipe, ServeChip
<1>5. CASE Packet
  BY <1>1, <1>2, <1>5, PacketPipe, PacketChip
<1>6. CASE Timeout
  BY <1>1, <1>2, <1>6, TimeoutPipe, TimeoutChip
<1>7. CASE ChipActs
  BY <1>1, <1>2, <1>7, ChipActsPipe, ChipActsChip
<1>8. CASE LoseCommand \/ LoseAnswer \/ Notification
  BY <1>1, <1>2, <1>8, LosesPipe, LosesChip
<1>9. CASE UNCHANGED uwbVars
  BY <1>2, <1>9, BridgePipe, BridgeChip DEF uwbVars
<1> QED BY <1>3, <1>4, <1>5, <1>6, <1>7, <1>8, <1>9 DEF UwbNext, UwbTask

THEOREM ManagerKnowsChip == UwbSpec => []HostKnowsChip
<1>1. UwbInit => HostInv
  BY HostInitially
<1>2. HostInv => HostKnowsChip
  <2> SUFFICES ASSUME HostInv, ~g_busy, losses < 3
               PROVE  RangedByChip = IF sessionActive_ THEN {activeSessionId_} ELSE {}
    BY DEF HostKnowsChip
  <2>1. command = "none" /\ ChipInv /\ activeSessionId_ \in Ids
    BY BaseInParts DEF HostInv, ManagerInv, Waiting, TaskTypes
  <2>2. CASE sessionActive_
    BY <2>1, <2>2 DEF ChipInv, OneRanged, ActiveRanged, Holding, RangedByChip
  <2>3. CASE ~sessionActive_
    BY <2>1, <2>3 DEF ChipInv, NoneRanged, Holding, Quiet
  <2> QED BY <2>2, <2>3
<1> QED BY <1>1, <1>2, HostKept, PTL DEF UwbSpec

-----------------------------------------------------------------------------
(* One OOB payload per session.                                              *)

OobInv ==
  /\ g_pendingCfg.id = IF writing.idWritten THEN writing.oob ELSE g_pendingCfg.cfg
  /\ restart \/ command = "init" => writing = NotWriting
  /\ command = "init" => packet.id = g_pendingCfg.id
  /\ command = "config" => packet.cfg = packet.id
  /\ \A p \in Elems(toChip) : p.oid = "config" => p.cfg = p.id
  /\ \A s \in Ids : chip[s] \in {"idle", "active"} => chipCfg[s] = s

\* A command that is not CONFIG, and INIT only with the id that is cached.
LEMMA BeginsOob ==
  ASSUME BaseInv, OobInv, NEW c \in Steps, NEW i \in Ids, Begins(c, i),
         UNCHANGED <<g_pendingCfg, writing, chip, chipCfg>>,
         c = "config" => i = g_pendingCfg.cfg,
         c = "init" => i = g_pendingCfg.id /\ writing = NotWriting,
         restart' => writing = NotWriting
  PROVE  OobInv'
<1>1. /\ command' = c /\ packet'.id = i /\ packet'.oid = Oid(c)
      /\ packet'.cfg = (IF c = "config" THEN g_pendingCfg.cfg ELSE 0)
      /\ Elems(toChip') = Elems(toChip) \cup {packet'}
  BY BeginsCommand, BaseInParts, LineFacts DEF BridgeTypes
<1>2. packet'.oid = "config" => c = "config"
  BY <1>1 DEF Oid
<1> QED BY <1>1, <1>2 DEF OobInv

LEMMA ReturnsOob ==
  ASSUME OobInv, NEW ok, Returns(ok), UNCHANGED <<g_pendingCfg, writing, chip, chipCfg>>
  PROVE  OobInv'
BY DEF Returns, OobInv

LEMMA ReturnedOob ==
  ASSUME BaseInv, BaseInv', OobInv, UNCHANGED <<chip, chipCfg>>,
         NEW ok \in BOOLEAN, NEW id \in Ids, CommandReturns(ok, id),
         InitReturned(ok, id) /\ ok => activeSessionId_' = packet.id
  PROVE  OobInv'
<1>1. ManagerInv /\ BridgeTypes /\ TaskTypes
  BY BaseInParts
<1>2. UNCHANGED <<g_pendingCfg, writing>>
  BY DEF CommandReturns, bridgeVars
<1>3. /\ activeSessionId_ \in Ids /\ g_pendingCfg.id \in Ids /\ activeSessionId_' \in Ids
      /\ {"deinit", "init", "config", "ranging_start", "undo"} \subseteq Steps
  BY <1>1, BaseInv' DEF TaskTypes, BridgeTypes, BaseInv, UwbTypeOK, Steps
<1>4. CASE StopReturned(ok)
  BY <1>2, <1>3, <1>4, BeginsOob DEF StopReturned, OobInv
<1>5. CASE DeinitReturned(ok)
  <2>1. CASE restart /\ stopOk /\ ok
    <3>1. Begins("init", g_pendingCfg.id) /\ restart' = FALSE /\ writing = NotWriting
      BY <1>5, <2>1 DEF DeinitReturned, RunBegins, OobInv
    <3> QED BY <1>2, <1>3, <3>1, BeginsOob
  <2>2. CASE ~(restart /\ stopOk /\ ok)
    BY <1>2, <1>5, <2>2, ReturnsOob DEF DeinitReturned
  <2> QED BY <2>1, <2>2
<1>6. CASE InitReturned(ok, id)
  <2>1. CASE ok
    <3>1. Begins("config", activeSessionId_') /\ restart' = FALSE /\ command = "init"
      BY <1>1, <1>6, <2>1 DEF InitReturned, GoesOn, ManagerInv
    <3>2. activeSessionId_' = g_pendingCfg.cfg
      BY <1>6, <2>1, <3>1 DEF OobInv, NotWriting
    <3> QED BY <1>2, <1>3, <3>1, <3>2, BeginsOob
  <2>2. CASE ~ok
    BY <1>2, <1>6, <2>2, ReturnsOob DEF InitReturned
  <2> QED BY <2>1, <2>2
<1>7. CASE ConfigReturned(ok)
  <2>1. PICK c \in {"ranging_start", "undo"} : Begins(c, activeSessionId_)
    BY <1>7 DEF ConfigReturned
  <2>2. restart' = FALSE
    BY <1>1, <1>7 DEF ConfigReturned, GoesOn, ManagerInv
  <2> QED BY <1>2, <1>3, <2>1, <2>2, BeginsOob
<1>8. CASE StartReturned(ok)
  <2>1. CASE ok
    BY <1>2, <1>8, <2>1, ReturnsOob DEF StartReturned
  <2>2. CASE ~ok
    <3>1. Begins("undo", activeSessionId_) /\ restart' = FALSE
      BY <1>1, <1>8, <2>2 DEF StartReturned, UndoStart, GoesOn, ManagerInv
    <3> QED BY <1>2, <1>3, <3>1, BeginsOob
  <2> QED BY <2>1, <2>2
<1>9. CASE UndoReturned
  BY <1>2, <1>9, ReturnsOob DEF UndoReturned
<1> QED BY <1>4, <1>5, <1>6, <1>7, <1>8, <1>9 DEF CommandReturns

LEMMA AgainOob ==
  ASSUME BaseInv, Waiting, OobInv, UNCHANGED <<chip, chipCfg>>, Again
  PROVE  OobInv'
<1>1. packet.oid = Oid(command) /\ packet \in Packets
  BY BaseInParts DEF ManagerInv, TaskTypes
<1>2. /\ Elems(toChip') = Elems(toChip) \cup {packet} /\ packet' = packet /\ command' = command
      /\ restart' = restart /\ UNCHANGED <<g_pendingCfg, writing>>
  BY <1>1, LineFacts, ElemsAppend DEF Again, bridgeVars
<1>3. packet.oid = "config" => command = "config"
  BY <1>1 DEF Oid
<1> QED BY <1>2, <1>3 DEF OobInv

LEMMA BridgeOob ==
  ASSUME BaseInv, OobInv,
         (\E k \in Oobs : OobParsed(k)) \/ OobWritesId \/ OobCached \/ RequestStart \/ RequestStop
  PROVE  OobInv'
<1>1. UNCHANGED <<managerVars, lineVars, chipVars>> /\ g_busy = Waiting /\ BridgeTypes
      /\ (restart => Waiting)
  BY BridgeBase, BaseInParts DEF ManagerInv, Waiting
<1>2. UNCHANGED <<command, packet, restart, toChip, chip, chipCfg>>
  BY <1>1 DEF managerVars, lineVars, chipVars
<1>3. CASE \E k \in Oobs : OobParsed(k)
  <2>1. ~writing.idWritten /\ ~writing'.idWritten /\ g_pendingCfg' = g_pendingCfg
    BY <1>3 DEF OobParsed, NotWriting
  <2>2. ~Waiting /\ ~restart
    BY <1>1, <1>3 DEF OobParsed, MayCache
  <2> QED BY <1>2, <2>1, <2>2 DEF OobInv, Waiting
<1>4. CASE OobWritesId
  <2>1. ~restart /\ command # "init" /\ writing'.idWritten /\ writing'.oob = writing.oob
        /\ g_pendingCfg'.id = writing.oob
    BY <1>1, <1>4 DEF OobWritesId, OobInv, BridgeTypes
  <2> QED BY <1>2, <2>1 DEF OobInv
<1>5. CASE OobCached
  <2>1. ~restart /\ command # "init" /\ ~writing'.idWritten
    BY <1>5 DEF OobCached, OobInv, NotWriting
  <2>2. g_pendingCfg'.id = writing.oob /\ g_pendingCfg'.cfg = writing.oob
    BY <1>1, <1>5 DEF OobCached, OobInv, BridgeTypes
  <2> QED BY <1>2, <2>1, <2>2 DEF OobInv
<1>6. CASE RequestStart \/ RequestStop
  BY <1>2, <1>6 DEF RequestStart, RequestStop, OobInv
<1> QED BY <1>3, <1>4, <1>5, <1>6

LEMMA ServeOob ==
  ASSUME BaseInv, OobInv, "oobOverStart" \notin faults, ServeStop \/ ServeStart
  PROVE  OobInv'
<1>1. /\ UNCHANGED <<g_pendingCfg, writing, chip, chipCfg>>
      /\ activeSessionId_ \in Ids /\ g_pendingCfg.id \in Ids
      /\ {"ranging_stop", "init"} \subseteq Steps
  BY BaseInParts DEF ServeStop, ServeStart, chipVars, TaskTypes, BridgeTypes, Steps
<1>2. CASE ServeStop
  <2>1. CASE sessionActive_
    <3>1. Begins("ranging_stop", activeSessionId_) /\ ~restart'
      BY <1>2, <2>1 DEF ServeStop
    <3> QED BY <1>1, <3>1, BeginsOob
  <2>2. CASE ~sessionActive_
    BY <1>1, <1>2, <2>2, ReturnsOob DEF ServeStop
  <2> QED BY <2>1, <2>2
<1>3. CASE ServeStart
  <2>1. writing = NotWriting
    BY <1>3 DEF ServeStart, NoRace
  <2>2. Begins("ranging_stop", activeSessionId_) \/ Begins("init", g_pendingCfg.id)
    BY <1>3 DEF ServeStart, RunBegins
  <2> QED BY <1>1, <2>1, <2>2, BeginsOob
<1> QED BY <1>2, <1>3

LEMMA ChipActsOob ==
  ASSUME BaseInv, OobInv, ChipActs
  PROVE  OobInv'
<1> DEFINE p == Head(toChip)
<1>1. /\ toChip # << >> /\ toChip' = Tail(toChip) /\ UNCHANGED <<bridgeVars, managerVars>>
      /\ chip' = IF Obeys(p) THEN [chip EXCEPT ![p.id] = SessionAfter(p.oid)] ELSE chip
      /\ chipCfg' = IF Obeys(p) /\ p.oid = "config"
                    THEN [chipCfg EXCEPT ![p.id] = p.cfg] ELSE chipCfg
  BY DEF ChipActs
<1>2. /\ Elems(toChip) = {p} \cup Elems(toChip') /\ p.id \in Ids /\ p.oid \in Steps \ {"undo"}
  BY <1>1, ChipTakes
<1>3. /\ chip \in [Ids -> {"none", "init", "idle", "active"}] /\ chipCfg \in [Ids -> Ids]
  BY BaseInParts DEF LineTypes
<1>4. p.oid = "config" => p.cfg = p.id
  BY <1>2 DEF OobInv
<1> HIDE DEF p
<1>5. \A s \in Ids : chip'[s] \in {"idle", "active"} => chipCfg'[s] = s
  <2> SUFFICES ASSUME NEW s \in Ids, chip'[s] \in {"idle", "active"} PROVE chipCfg'[s] = s
    OBVIOUS
  <2>1. CASE ~Obeys(p) \/ s # p.id
    <3>1. chip'[s] = chip[s] /\ chipCfg'[s] = chipCfg[s]
      BY <1>1, <1>3, <2>1
    <3> QED BY <3>1 DEF OobInv
  <2>2. CASE Obeys(p) /\ s = p.id
    <3>1. chip'[s] = SessionAfter(p.oid)
          /\ chipCfg'[s] = (IF p.oid = "config" THEN p.cfg ELSE chipCfg[s])
      BY <1>1, <1>3, <2>2
    <3>2. p.oid \in {"config", "ranging_start", "ranging_stop"}
      BY <1>2, <3>1 DEF SessionAfter, Steps
    <3>3. p.oid # "config" => chip[s] \in {"idle", "active"}
      BY <2>2, <3>2 DEF Obeys
    <3> QED BY <1>4, <2>2, <3>1, <3>3 DEF OobInv
  <2> QED BY <2>1, <2>2
<1> QED BY <1>1, <1>2, <1>5 DEF OobInv, bridgeVars, managerVars

LEMMA LineOob ==
  ASSUME OobInv, UNCHANGED <<bridgeVars, managerVars, chipVars>>,
         Elems(toChip') \subseteq Elems(toChip)
  PROVE  OobInv'
BY DEF OobInv, bridgeVars, managerVars, chipVars

\* The answer to an INIT counts for the INIT it belongs to.
OwnInit == InitReturned(TRUE, Head(toHost).id) => activeSessionId_' = packet.id

LEMMA OobKept ==
  ASSUME BaseInv, BaseInv', OobInv, [UwbNext]_uwbVars, "oobOverStart" \notin faults,
         Packet /\ Accepts(Head(toHost)) => OwnInit
  PROVE  OobInv'
<1>1. CASE (\E k \in Oobs : OobParsed(k)) \/ OobWritesId \/ OobCached \/ RequestStart \/ RequestStop
  BY <1>1, BridgeOob
<1>2. CASE ServeStop \/ ServeStart
  BY <1>2, ServeOob
<1>3. CASE Packet
  <2>1. /\ Head(toHost) \in Answers /\ UNCHANGED chipVars
        /\ \/ Accepts(Head(toHost))
           \/ UNCHANGED <<bridgeVars, managerVars, toChip>>
    BY <1>3, PacketCases
  <2>2. CASE Accepts(Head(toHost))
    <3>1. Head(toHost).id \in Ids /\ UNCHANGED <<chip, chipCfg>>
      BY <2>1 DEF Answers, chipVars
    <3>2. Waiting /\ (\/ Again
                      \/ CommandReturns(TRUE, Head(toHost).id)
                      \/ CommandReturns(FALSE, Head(toHost).id))
      BY <2>2 DEF Accepts
    <3> QED BY <1>3, <2>2, <3>1, <3>2, AgainOob, ReturnedOob DEF OwnInit
  <2>3. CASE UNCHANGED <<bridgeVars, managerVars, toChip>>
    BY <2>1, <2>3, LineOob
  <2> QED BY <2>1, <2>2, <2>3
<1>4. CASE Timeout
  <2>1. Waiting /\ UNCHANGED <<chip, chipCfg>> /\ (Again \/ CommandReturns(FALSE, 0))
    BY <1>4, TimeoutCases DEF Late, chipVars
  <2> QED BY <2>1, Numbers, AgainOob, ReturnedOob
<1>5. CASE ChipActs
  BY <1>5, ChipActsOob
<1>6. CASE LoseCommand \/ LoseAnswer \/ Notification
  BY <1>6, ChipTakes, LineOob DEF LoseCommand, LoseAnswer, Notification
<1>7. CASE UNCHANGED uwbVars
  BY <1>7, LineOob DEF uwbVars, lineVars
<1> QED BY <1>1, <1>2, <1>3, <1>4, <1>5, <1>6, <1>7 DEF UwbNext, UwbTask

-----------------------------------------------------------------------------
(* The answers to an INIT while chips return handles: an answer that was     *)
(* left of an earlier INIT is a refusal.                                     *)

\* Losses that may cost an attempt: with a damaged answer goes the next packet.
Few == IF "framing" \in faults THEN 2 ELSE 3

Credit == IF "framing" \in faults THEN 2 * losses - (IF torn THEN 1 ELSE 0) ELSE losses

OnLine == Len(toHost) + Len(toChip)

Refusing(s) ==
  s = 0 \/ chip[s] \in {"idle", "active"} \/ (chip[s] = "init" /\ "refusesRepeat" \in faults)

Idle == command = "none" /\ ~sessionActive_

\* A packet for an INIT that is not the one waited for, and one that is.
OfOther(x) == x.oid = "init" /\ (Idle \/ x.id # packet.id)

OfThis(x) == x.oid = "init" /\ x.id = packet.id

NoDeinit == \A p \in Elems(toChip) : p.oid # "deinit"

\* The first k packets cover those that are not for an INIT of this id.
Ahead(h, c, id, k) ==
  /\ \A i \in 1 .. Len(h) : i > k => h[i].oid = "init" /\ h[i].id = id
  /\ \A i \in 1 .. Len(c) : Len(h) + i > k => c[i].oid = "init" /\ c[i].id = id

\* This INIT is refused whatever comes.
Hopeless ==
  /\ Refusing(packet.id) /\ NoDeinit
  /\ \A a \in Elems(toHost) : OfThis(a) => ~a.ok

OneEach == OnLine <= losses + (IF Waiting THEN 1 ELSE 0)

OnceRefused ==
  command = "init" \/ Idle =>
    \A i \in 1 .. Len(toHost) :
      toHost[i].oid = "init" /\ ~toHost[i].ok
        => /\ Refusing(toHost[i].id)
           /\ \A j \in 1 .. Len(toHost) :
                i < j /\ toHost[j].oid = "init" /\ toHost[j].id = toHost[i].id => ~toHost[j].ok

OthersRefused ==
  command = "init" \/ Idle =>
    /\ \A a \in Elems(toHost) : OfOther(a) => ~a.ok
    /\ \A p \in Elems(toChip) : OfOther(p) => Refusing(p.id) /\ NoDeinit

AttemptsPaid ==
  command = "init" /\ ~Hopeless =>
    \E k \in Nat : /\ Ahead(toHost, toChip, packet.id, k)
                   /\ attempt + k <= Credit + (IF k < OnLine THEN 1 ELSE 0)

HandleInv ==
  OneEach /\ (torn => "framing" \in faults) /\ OnceRefused /\ OthersRefused /\ AttemptsPaid

LEMMA AheadTake ==
  ASSUME NEW S, NEW h \in Seq(S), NEW T, NEW c \in Seq(T), h # << >>, NEW id, NEW k \in Nat,
         Ahead(h, c, id, k)
  PROVE  /\ k >= 1 => Ahead(Tail(h), c, id, k - 1)
         /\ k = 0 => Ahead(Tail(h), c, id, 0) /\ Head(h).oid = "init" /\ Head(h).id = id
<1>1. /\ Head(h) = h[1] /\ 1 \in 1 .. Len(h) /\ Len(h) \in Nat /\ Len(Tail(h)) = Len(h) - 1
      /\ \A i \in 1 .. Len(Tail(h)) : Tail(h)[i] = h[i + 1] /\ i + 1 \in 1 .. Len(h)
      /\ Len(c) \in Nat
  BY HeadAndTail, LenProperties
<1>2. ASSUME k >= 1 PROVE Ahead(Tail(h), c, id, k - 1)
  <2>1. ASSUME NEW i \in 1 .. Len(Tail(h)), i > k - 1
        PROVE  Tail(h)[i].oid = "init" /\ Tail(h)[i].id = id
    <3>1. i + 1 > k
      BY <1>1, <2>1
    <3> QED BY <1>1, <3>1 DEF Ahead
  <2>2. ASSUME NEW i \in 1 .. Len(c), Len(Tail(h)) + i > k - 1
        PROVE  c[i].oid = "init" /\ c[i].id = id
    <3>1. Len(h) + i > k
      BY <1>1, <2>2
    <3> QED BY <3>1 DEF Ahead
  <2> QED BY <2>1, <2>2 DEF Ahead
<1>3. ASSUME k = 0 PROVE Ahead(Tail(h), c, id, 0)
  <2>1. ASSUME NEW i \in 1 .. Len(Tail(h))
        PROVE  Tail(h)[i].oid = "init" /\ Tail(h)[i].id = id
    <3>1. i + 1 > k
      BY <1>1, <1>3
    <3> QED BY <1>1, <3>1 DEF Ahead
  <2>2. ASSUME NEW i \in 1 .. Len(c)
        PROVE  c[i].oid = "init" /\ c[i].id = id
    <3>1. Len(h) + i > k
      BY <1>1, <1>3
    <3> QED BY <3>1 DEF Ahead
  <2> QED BY <2>1, <2>2 DEF Ahead
<1>4. k = 0 => Head(h).oid = "init" /\ Head(h).id = id
  BY <1>1 DEF Ahead
<1> QED BY <1>2, <1>3, <1>4

LEMMA AheadLose ==
  ASSUME NEW S, NEW h \in Seq(S), NEW T, NEW c \in Seq(T), c # << >>, NEW id, NEW k \in Nat,
         Ahead(h, c, id, k)
  PROVE  \E m \in Nat : /\ m = k \/ m = k - 1
                        /\ Ahead(h, Tail(c), id, m)
<1>1. /\ Len(c) \in Nat /\ Len(Tail(c)) = Len(c) - 1
      /\ \A i \in 1 .. Len(Tail(c)) : Tail(c)[i] = c[i + 1] /\ i + 1 \in 1 .. Len(c)
      /\ Len(h) \in Nat
  BY HeadAndTail, LenProperties
<1>2. CASE k <= Len(h)
  <2>1. ASSUME NEW i \in 1 .. Len(Tail(c)), Len(h) + i > k
        PROVE  Tail(c)[i].oid = "init" /\ Tail(c)[i].id = id
    <3>1. Len(h) + (i + 1) > k
      BY <1>1, <2>1
    <3> QED BY <1>1, <3>1 DEF Ahead
  <2>2. Ahead(h, Tail(c), id, k)
    BY <2>1 DEF Ahead
  <2> QED BY <2>2
<1>3. CASE k > Len(h)
  <2>1. ASSUME NEW i \in 1 .. Len(Tail(c)), Len(h) + i > k - 1
        PROVE  Tail(c)[i].oid = "init" /\ Tail(c)[i].id = id
    <3>1. Len(h) + (i + 1) > k
      BY <1>1, <2>1
    <3> QED BY <1>1, <3>1 DEF Ahead
  <2>2. \A i \in 1 .. Len(h) : ~(i > k - 1)
    BY <1>1, <1>3
  <2>3. Ahead(h, Tail(c), id, k - 1)
    BY <2>1, <2>2 DEF Ahead
  <2>4. k - 1 \in Nat
    BY <1>1, <1>3
  <2> QED BY <2>3, <2>4
<1> QED BY <1>1, <1>2, <1>3

LEMMA AheadMove ==
  ASSUME NEW S, NEW h \in Seq(S), NEW T, NEW c \in Seq(T), c # << >>, NEW id, NEW k \in Nat,
         Ahead(h, c, id, k), NEW a \in S, a.oid = Head(c).oid, a.id = Head(c).id
  PROVE  Ahead(Append(h, a), Tail(c), id, k)
<1>1. /\ Head(c) = c[1] /\ 1 \in 1 .. Len(c) /\ Len(c) \in Nat /\ Len(Tail(c)) = Len(c) - 1
      /\ \A i \in 1 .. Len(Tail(c)) : Tail(c)[i] = c[i + 1] /\ i + 1 \in 1 .. Len(c)
  BY HeadAndTail
<1>2. /\ Len(h) \in Nat /\ Len(Append(h, a)) = Len(h) + 1
      /\ \A i \in 1 .. Len(h) : Append(h, a)[i] = h[i]
      /\ Append(h, a)[Len(h) + 1] = a
      /\ \A i \in 1 .. Len(Append(h, a)) : i \in 1 .. Len(h) \/ i = Len(h) + 1
  BY Appended
<1>3. ASSUME NEW i \in 1 .. Len(Append(h, a)), i > k
      PROVE  Append(h, a)[i].oid = "init" /\ Append(h, a)[i].id = id
  <2>1. CASE i \in 1 .. Len(h)
    BY <1>2, <1>3, <2>1 DEF Ahead
  <2>2. CASE i = Len(h) + 1
    BY <1>1, <1>2, <1>3, <2>2 DEF Ahead
  <2> QED BY <1>2, <2>1, <2>2
<1>4. ASSUME NEW i \in 1 .. Len(Tail(c)), Len(Append(h, a)) + i > k
      PROVE  Tail(c)[i].oid = "init" /\ Tail(c)[i].id = id
  <2>1. Len(h) + (i + 1) > k
    BY <1>1, <1>2, <1>4
  <2> QED BY <1>1, <2>1 DEF Ahead
<1> QED BY <1>3, <1>4 DEF Ahead

LEMMA AheadSend ==
  ASSUME NEW S, NEW h \in Seq(S), NEW T, NEW c \in Seq(T), NEW id, NEW k \in Nat,
         Ahead(h, c, id, k), NEW p \in T, p.oid = "init", p.id = id
  PROVE  Ahead(h, Append(c, p), id, k)
<1>1. /\ \A i \in 1 .. Len(c) : Append(c, p)[i] = c[i]
      /\ Append(c, p)[Len(c) + 1] = p
      /\ \A i \in 1 .. Len(Append(c, p)) : i \in 1 .. Len(c) \/ i = Len(c) + 1
  BY Appended
<1> QED BY <1>1 DEF Ahead

LEMMA CreditGrows ==
  ASSUME BaseInv, faults' = faults, torn' \in BOOLEAN, NEW d \in {0, 1}, losses' = losses + d,
         torn' /\ ~torn => d = 1 /\ "framing" \in faults
  PROVE  \E m, n \in Int : /\ m = Credit /\ n = Credit' /\ n >= m + d
                           /\ d = 0 /\ torn /\ ~torn' /\ "framing" \in faults => n >= m + 1
<1>1. losses \in Nat /\ torn \in BOOLEAN
  BY LineFacts
<1>2. CASE "framing" \in faults
  <2> DEFINE m == 2 * losses - (IF torn THEN 1 ELSE 0)
             n == 2 * (losses + d) - (IF torn' THEN 1 ELSE 0)
  <2>1. m = Credit /\ n = Credit'
    BY <1>2 DEF Credit
  <2>2. m \in Int /\ n \in Int /\ n >= m + d
        /\ (d = 0 /\ torn /\ ~torn' => n >= m + 1)
    BY <1>1
  <2> QED BY <2>1, <2>2
<1>3. CASE "framing" \notin faults
  BY <1>1, <1>3 DEF Credit
<1> QED BY <1>2, <1>3

\* All that is left of INITs when one has failed: refusals.
RestRefused(h, c) ==
  /\ \A i \in 1 .. Len(h) : h[i].oid = "init" => ~h[i].ok /\ Refusing(h[i].id)
  /\ \A p \in Elems(c) : p.oid = "init" => Refusing(p.id) /\ \A q \in Elems(c) : q.oid # "deinit"

LEMMA Squeezed ==
  ASSUME NEW k \in Nat, NEW n \in Nat, NEW m \in Int, k <= n, m >= n
  PROVE  1 + k <= m + 1
OBVIOUS

LEMMA InitNext ==
  ASSUME BaseInv, NEW i \in Ids, Begins("init", i), UNCHANGED <<chip, faults>>,
         toHost' \in Seq(Answers), RestRefused(toHost', toChip), NEW n \in Nat, losses' = n,
         Len(toHost') + Len(toChip) <= n, torn' => n >= 1 /\ "framing" \in faults
  PROVE  HandleInv'
<1>1. /\ command' = "init" /\ attempt' = 1 /\ packet'.id = i /\ packet'.oid = "init"
      /\ toChip' = Append(toChip, packet') /\ packet' \in Packets
      /\ Elems(toChip') = Elems(toChip) \cup {packet'} /\ Len(toChip') = Len(toChip) + 1
      /\ Waiting'
  <2>1. "init" \in Steps /\ Oid("init") = "init"
    BY DEF Steps, Oid
  <2> QED BY <2>1, BeginsCommand, BaseInParts, LineFacts DEF BridgeTypes
<1>2. ~Idle' /\ Len(toHost') \in Nat /\ Len(toChip) \in Nat
  BY <1>1, LineFacts, ElemsOfSeq DEF Idle
<1>3. OneEach'
  BY <1>1, <1>2 DEF OneEach, OnLine
<1>4. OnceRefused'
  BY DEF RestRefused, OnceRefused, Refusing
<1>5. OthersRefused'
  BY <1>1, <1>2 DEF OthersRefused, RestRefused, OfOther, Refusing, NoDeinit, Elems
<1>6. AttemptsPaid'
  <2>0. PICK k \in Nat : k = Len(toHost') + Len(toChip)
    BY <1>2
  <2>1. k < OnLine'
    BY <1>1, <1>2, <2>0 DEF OnLine
  <2>5. k <= n
    BY <2>0
  <2>2. Ahead(toHost, toChip, packet.id, k)'
    <3>1. \A j \in 1 .. Len(toHost') : ~(j > k)
      BY <1>2, <2>0
    <3>2. \A j \in 1 .. Len(toChip') : Len(toHost') + j > k => j = Len(toChip) + 1
      BY <1>1, <1>2, <2>0
    <3>3. toChip'[Len(toChip) + 1] = packet'
      BY <1>1, LineFacts, Appended
    <3> QED BY <1>1, <3>1, <3>2, <3>3 DEF Ahead
  <2>3. Credit' >= n /\ Credit' \in Int
    <3>1. CASE "framing" \in faults
      <4>1. Credit' = 2 * n - (IF torn' THEN 1 ELSE 0)
        BY <3>1 DEF Credit
      <4> QED BY <4>1
    <3>2. CASE "framing" \notin faults
      BY <3>2 DEF Credit
    <3> QED BY <3>1, <3>2
  <2>4. attempt' + k <= Credit' + (IF k < OnLine' THEN 1 ELSE 0)
    <3>1. PICK m \in Int : m = Credit' /\ m >= n
      BY <2>3
    <3>2. 1 + k <= m + 1
      BY <2>5, <3>1, Squeezed
    <3> QED BY <1>1, <2>1, <3>1, <3>2
  <2> QED BY <2>1, <2>2, <2>4 DEF AttemptsPaid
<1> QED BY <1>3, <1>4, <1>5, <1>6 DEF HandleInv

LEMMA IdleNext ==
  ASSUME BaseInv, command' = "none", toChip' = toChip, UNCHANGED <<chip, faults>>,
         toHost' \in Seq(Answers), RestRefused(toHost', toChip), NEW n \in Nat, losses' = n,
         Len(toHost') + Len(toChip) <= n, torn' => "framing" \in faults
  PROVE  HandleInv'
<1>1. OneEach'
  BY LineFacts, ElemsOfSeq DEF OneEach, OnLine, Waiting
<1>2. OnceRefused'
  BY DEF RestRefused, OnceRefused, Refusing
<1>3. OthersRefused'
  BY DEF OthersRefused, RestRefused, OfOther, Refusing, NoDeinit, Elems
<1>4. AttemptsPaid'
  BY DEF AttemptsPaid
<1> QED BY <1>1, <1>2, <1>3, <1>4 DEF HandleInv

LEMMA OtherNext ==
  ASSUME command' # "init", ~Idle', OneEach', torn' => "framing" \in faults'
  PROVE  HandleInv'
BY DEF HandleInv, OnceRefused, OthersRefused, AttemptsPaid

LEMMA RestCount ==
  ASSUME BaseInv, PipeInv, HandleInv, Heard \/ Late
  PROVE  \E n \in Nat : /\ losses' = n /\ Len(toHost') + Len(toChip) <= n
                        /\ torn' => n >= 1 /\ "framing" \in faults
                        /\ toHost' \in Seq(Answers) /\ chip' = chip
                        /\ Len(toHost') \in Nat /\ Len(toChip) \in Nat
<1>1. Waiting /\ chip' = chip
  BY WaitEnds
<1>2. Len(toHost) + Len(toChip) <= losses + 1 /\ (torn => "framing" \in faults)
  BY <1>1 DEF HandleInv, OneEach, OnLine
<1>3. CASE Heard
  <2>1. losses' = losses /\ ~torn' /\ toHost' \in Seq(Answers)
        /\ Len(toHost') = Len(toHost) - 1 /\ Len(toHost) >= 1
    BY <1>3, HeardFacts DEF Heard
  <2> QED BY <1>1, <1>2, <2>1, LineFacts
<1>4. CASE Late
  <2>1. toHost' = toHost /\ torn' = torn /\ losses' >= 1
    BY <1>4, WaitEnds DEF Late
  <2>2. CASE Nothing
    <3>1. Len(toHost) = 0 /\ Len(toChip) = 0 /\ losses' = losses
      BY <1>4, <2>2, LineFacts DEF Late, Nothing
    <3> QED BY <1>1, <1>2, <2>1, <3>1, LineFacts
  <2>3. CASE ~Nothing
    <3>1. losses' = losses + 1
      BY <1>4, <2>3 DEF Late
    <3> QED BY <1>1, <1>2, <2>1, <3>1, LineFacts
  <2> QED BY <2>2, <2>3
<1> QED BY <1>3, <1>4

\* The INIT's own refusal has been heard: the others that are left are refusals too.
LEMMA HeardRefusal ==
  ASSUME BaseInv, PipeInv, HandleInv, Heard, command = "init", ~Head(toHost).ok,
         Head(toHost).id = packet.id
  PROVE  /\ Refusing(packet.id) /\ NoDeinit
         /\ \A a \in Elems(toHost') : OfThis(a) => ~a.ok
<1>1. /\ toHost \in Seq(Answers) /\ toHost # << >> /\ toHost' = Tail(toHost)
      /\ Head(toHost).oid = "init"
  BY LineFacts DEF Heard, Oid
<1>2. /\ Head(toHost) = toHost[1] /\ 1 \in 1 .. Len(toHost)
      /\ \A i \in 1 .. Len(toHost') : toHost'[i] = toHost[i + 1] /\ i + 1 \in 1 .. Len(toHost) /\ 1 < i + 1
  BY <1>1, HeadAndTail, LineFacts
<1>3. /\ Refusing(packet.id)
      /\ \A j \in 1 .. Len(toHost) :
           1 < j /\ toHost[j].oid = "init" /\ toHost[j].id = packet.id => ~toHost[j].ok
  BY <1>1, <1>2 DEF HandleInv, OnceRefused
<1>4. \A i \in 1 .. Len(toHost') : OfThis(toHost'[i]) => ~toHost'[i].ok
  BY <1>2, <1>3 DEF OfThis
<1>5. NoDeinit
  BY <1>1, LineFacts, OrderTake DEF PipeInv, AwaitedOid, Heard, NoDeinit, Oid
<1> QED BY <1>3, <1>4, <1>5 DEF Elems

\* An INIT that is given up leaves refusals behind.
LEMMA InitRest ==
  ASSUME BaseInv, PipeInv, HandleInv, losses' < Few, command = "init", attempt = 3,
         (Heard /\ ~Head(toHost).ok) \/ Late
  PROVE  RestRefused(toHost', toChip)
<1>1. losses \in Nat /\ Few \in {2, 3} /\ losses' \in Nat
  BY LineFacts, WaitEnds DEF Few
<1>2. \A x \in Elems(toHost') \cup Elems(toChip) : x.oid = "init"
  <2>1. losses' < 3
    BY <1>1
  <2> QED BY <2>1, OwnRest DEF Oid, Attempts
<1>3. /\ \A a \in Elems(toHost) : a.oid = "init" /\ a.id # packet.id => ~a.ok
      /\ \A p \in Elems(toChip) : p.oid = "init" /\ p.id # packet.id => Refusing(p.id)
  BY DEF HandleInv, OthersRefused, OfOther
<1>4. \A i \in 1 .. Len(toHost) : toHost[i].oid = "init" /\ ~toHost[i].ok => Refusing(toHost[i].id)
  BY DEF HandleInv, OnceRefused
<1>5. ASSUME NEW i \in 1 .. Len(toHost')
      PROVE  \E j \in 1 .. Len(toHost) : toHost'[i] = toHost[j]
  <2>1. CASE Heard
    BY <2>1, LineFacts, HeadAndTail DEF Heard
  <2>2. CASE Late
    BY <2>2 DEF Late
  <2> QED BY <2>1, <2>2
<1>6. /\ toHost' = << >> /\ toChip = << >>
      \/ /\ Refusing(packet.id)
         /\ \A a \in Elems(toHost') : OfThis(a) => ~a.ok
  <2>1. CASE Hopeless
    BY <1>5, <2>1 DEF Hopeless, Elems
  <2>2. CASE ~Hopeless
    <3>1. PICK k \in Nat : /\ Ahead(toHost, toChip, packet.id, k)
                           /\ 3 + k <= Credit + (IF k < OnLine THEN 1 ELSE 0)
      BY <2>2 DEF HandleInv, AttemptsPaid
    <3>2. PICK m \in Int : m = Credit /\ m <= 2 * losses /\ ("framing" \notin faults => m = losses)
      <4>1. CASE "framing" \in faults
        <5> DEFINE m == 2 * losses - (IF torn THEN 1 ELSE 0)
        <5>1. m = Credit
          BY <4>1 DEF Credit
        <5>2. m \in Int /\ m <= 2 * losses
          BY <1>1
        <5> QED BY <4>1, <5>1, <5>2
      <4>2. CASE "framing" \notin faults
        BY <1>1, <4>2 DEF Credit
      <4> QED BY <4>1, <4>2
    <3>3. 3 + k <= m + 1
      BY <3>1, <3>2
    <3>4. CASE Late /\ Nothing
      BY <3>4 DEF Late, Nothing
    <3>5. CASE Late /\ ~Nothing
      <4>1. losses + 1 < Few
        BY <3>5 DEF Late
      <4>2. m <= 1
        <5>1. CASE "framing" \in faults
          <6>1. Few = 2
            BY <5>1 DEF Few
          <6> QED BY <1>1, <3>2, <4>1, <6>1
        <5>2. CASE "framing" \notin faults
          <6>1. Few = 3
            BY <5>2 DEF Few
          <6> QED BY <1>1, <3>2, <4>1, <5>2, <6>1
        <5> QED BY <5>1, <5>2
      <4> QED BY <3>3, <4>2
    <3>6. CASE Heard /\ Head(toHost).id = packet.id /\ ~Head(toHost).ok
      BY <3>6, HeardRefusal
    <3>7. CASE Heard /\ Head(toHost).id # packet.id
      <4>1. k >= 1
        <5>1. toHost # << >> /\ toHost \in Seq(Answers) /\ toChip \in Seq(Packets)
          BY <3>7, LineFacts DEF Heard
        <5>2. k = 0 => Head(toHost).id = packet.id
          BY <3>1, <5>1, AheadTake
        <5> QED BY <3>7, <5>2
      <4>2. losses < Few
        BY <3>7 DEF Heard
      <4>3. m <= 2
        <5>1. CASE "framing" \in faults
          <6>1. Few = 2
            BY <5>1 DEF Few
          <6> QED BY <1>1, <3>2, <4>2, <6>1
        <5>2. CASE "framing" \notin faults
          <6>1. Few = 3
            BY <5>2 DEF Few
          <6> QED BY <1>1, <3>2, <4>2, <5>2, <6>1
        <5> QED BY <5>1, <5>2
      <4> QED BY <3>3, <4>1, <4>3
    <3> QED BY <3>4, <3>5, <3>6, <3>7
  <2> QED BY <2>1, <2>2
<1>7. CASE toHost' = << >> /\ toChip = << >>
  BY <1>7, EmptySeq DEF RestRefused, Elems
<1>8. CASE /\ Refusing(packet.id)
           /\ \A a \in Elems(toHost') : OfThis(a) => ~a.ok
  <2>1. ASSUME NEW i \in 1 .. Len(toHost'), toHost'[i].oid = "init"
        PROVE  ~toHost'[i].ok /\ Refusing(toHost'[i].id)
    <3>1. PICK j \in 1 .. Len(toHost) : toHost'[i] = toHost[j]
      BY <1>5
    <3>2. ~toHost'[i].ok
      BY <1>3, <1>8, <2>1, <3>1 DEF OfThis, Elems
    <3> QED BY <1>4, <2>1, <3>1, <3>2
  <2>2. ASSUME NEW p \in Elems(toChip), p.oid = "init"
        PROVE  Refusing(p.id) /\ \A q \in Elems(toChip) : q.oid # "deinit"
    BY <1>2, <1>3, <1>8, <2>2
  <2> QED BY <2>1, <2>2 DEF RestRefused
<1> QED BY <1>6, <1>7, <1>8

\* What is left of another command has no INITs.
LEMMA NoInits ==
  ASSUME NEW h, NEW c, NEW o, o # "init", \A x \in Elems(h) \cup Elems(c) : x.oid = o
  PROVE  RestRefused(h, c)
BY DEF RestRefused, Elems

LEMMA ReturnedHandle ==
  ASSUME BaseInv, BaseInv', PipeInv, HandleInv, losses' < Few, NEW ok \in BOOLEAN, NEW id \in Ids,
         CommandReturns(ok, id), Heard \/ (Late /\ attempt = Attempts(command)),
         ~ok => attempt = Attempts(command), ok <=> Heard /\ Head(toHost).ok
  PROVE  HandleInv'
<1>1. PICK n \in Nat : /\ losses' = n /\ Len(toHost') + Len(toChip) <= n
                       /\ torn' => n >= 1 /\ "framing" \in faults
                       /\ toHost' \in Seq(Answers) /\ chip' = chip
                       /\ Len(toHost') \in Nat /\ Len(toChip) \in Nat
  BY RestCount
<1>2. \A x \in Elems(toHost') \cup Elems(toChip) : x.oid = Oid(command)
  <2>1. losses' < 3
    BY <1>1 DEF Few
  <2> QED BY <2>1, OwnRest DEF Attempts
<1>3. /\ faults' = faults /\ g_pendingCfg.id \in Ids /\ activeSessionId_ \in Ids
      /\ sessionActive_ \in BOOLEAN /\ activeSessionId_' \in Ids
      /\ toChip \in Seq(Packets) /\ g_pendingCfg \in [id : Ids, cfg : Ids]
  BY BaseInParts, LineFacts, BaseInv'
     DEF CommandReturns, bridgeVars, BridgeTypes, TaskTypes, BaseInv, UwbTypeOK
<1>4. ASSUME NEW c \in Steps \ {"init"}, Begins(c, activeSessionId_')
      PROVE  HandleInv'
  <2>1. command' = c /\ Waiting' /\ Len(toChip') = Len(toChip) + 1
    BY <1>3, <1>4, BeginsCommand
  <2>2. command' # "init" /\ ~Idle'
    BY <2>1 DEF Idle, Steps
  <2>3. OneEach'
    BY <1>1, <2>1 DEF OneEach, OnLine
  <2> QED BY <1>1, <1>3, <2>2, <2>3, OtherNext
<1>5. {"deinit", "config", "ranging_start", "undo"} \subseteq Steps \ {"init"}
  BY DEF Steps
<1>6. CASE StopReturned(ok)
  BY <1>4, <1>5, <1>6 DEF StopReturned
<1>7. CASE DeinitReturned(ok)
  <2>1. RestRefused(toHost', toChip)
    BY <1>2, <1>7, NoInits DEF DeinitReturned, Oid
  <2>2. CASE restart /\ stopOk /\ ok
    BY <1>1, <1>3, <1>7, <2>1, <2>2, InitNext DEF DeinitReturned, RunBegins
  <2>3. CASE ~(restart /\ stopOk /\ ok)
    BY <1>1, <1>3, <1>7, <2>1, <2>3, IdleNext DEF DeinitReturned, Returns
  <2> QED BY <2>2, <2>3
<1>8. CASE InitReturned(ok, id)
  <2>1. CASE ok
    BY <1>4, <1>5, <1>8, <2>1 DEF InitReturned
  <2>2. CASE ~ok
    <3>1. command = "init" /\ attempt = 3 /\ ((Heard /\ ~Head(toHost).ok) \/ Late)
      BY <1>8, <2>2 DEF InitReturned, Attempts
    <3>2. RestRefused(toHost', toChip)
      BY <3>1, InitRest
    <3> QED BY <1>1, <1>3, <1>8, <2>2, <3>2, IdleNext DEF InitReturned, Returns
  <2> QED BY <2>1, <2>2
<1>9. CASE ConfigReturned(ok)
  BY <1>4, <1>5, <1>9 DEF ConfigReturned
<1>10. CASE StartReturned(ok)
  <2>1. CASE ok
    <3>1. RestRefused(toHost', toChip)
      BY <1>2, <1>10, NoInits DEF StartReturned, Oid
    <3> QED BY <1>1, <1>3, <1>10, <2>1, <3>1, IdleNext DEF StartReturned, Returns
  <2>2. CASE ~ok
    BY <1>4, <1>5, <1>10, <2>2 DEF StartReturned, UndoStart
  <2> QED BY <2>1, <2>2
<1>11. CASE UndoReturned
  <2>1. RestRefused(toHost', toChip)
    BY <1>2, <1>11, NoInits DEF UndoReturned, Oid
  <2> QED BY <1>1, <1>3, <1>11, <2>1, IdleNext DEF UndoReturned, Returns
<1> QED BY <1>6, <1>7, <1>8, <1>9, <1>10, <1>11 DEF CommandReturns

\* The sums of AttemptsPaid: a packet ahead is taken, or an attempt is paid with a loss,
\* or nothing is left.
LEMMA PaidByOther ==
  ASSUME NEW t \in Nat, NEW k \in Nat, NEW b \in Int, NEW c \in Int, NEW m \in Nat, k >= 1,
         c >= b, t + k <= b + (IF k < m THEN 1 ELSE 0)
  PROVE  t + 1 + (k - 1) <= c + (IF k - 1 < m THEN 1 ELSE 0)
OBVIOUS

LEMMA PaidByLoss ==
  ASSUME NEW t \in Nat, NEW k \in Nat, NEW b \in Int, NEW c \in Int, NEW m \in Nat,
         c >= b + 1, t + k <= b + (IF k < m THEN 1 ELSE 0)
  PROVE  t + 1 + k <= c + (IF k < m + 1 THEN 1 ELSE 0)
OBVIOUS

LEMMA PaidBefore ==
  ASSUME NEW t \in Nat, NEW k \in Nat, NEW b \in Int, NEW c \in Int,
         c >= b, t + k <= b + (IF k < 0 THEN 1 ELSE 0)
  PROVE  t + 1 + 0 <= c + (IF 0 < 1 THEN 1 ELSE 0)
OBVIOUS

LEMMA AgainHandle ==
  ASSUME BaseInv, BaseInv', PipeInv, HandleInv, Again, (Heard /\ ~Head(toHost).ok) \/ Late
  PROVE  HandleInv'
<1>1. PICK n \in Nat : /\ losses' = n /\ Len(toHost') + Len(toChip) <= n
                       /\ torn' => n >= 1 /\ "framing" \in faults
                       /\ toHost' \in Seq(Answers) /\ chip' = chip
                       /\ Len(toHost') \in Nat /\ Len(toChip) \in Nat
  BY RestCount
<1>2. /\ Waiting /\ Waiting' /\ command' = command /\ attempt' = attempt + 1 /\ packet' = packet
      /\ toChip' = Append(toChip, packet) /\ packet.oid = Oid(command) /\ packet \in Packets
      /\ faults' = faults /\ sessionActive_' = sessionActive_
  BY BaseInParts
     DEF Heard, Late, Again, AttemptAfter, Waiting, ManagerInv, TaskTypes, bridgeVars
<1>3. /\ Elems(toChip') = Elems(toChip) \cup {packet} /\ Len(toChip') = Len(toChip) + 1
      /\ toChip \in Seq(Packets) /\ toHost \in Seq(Answers) /\ attempt \in Nat
  BY <1>2, LineFacts, Sends
<1>4. OneEach'
  BY <1>1, <1>2, <1>3 DEF OneEach, OnLine
<1>5. ~Idle'
  BY <1>2 DEF Idle, Waiting
<1>6. CASE command # "init"
  BY <1>1, <1>2, <1>4, <1>5, <1>6, OtherNext
<1>7. CASE command = "init"
  <2>1. packet.oid = "init" /\ ~Idle
    BY <1>2, <1>7 DEF Oid, Idle
  <2>2. Elems(toHost') \subseteq Elems(toHost)
    BY WaitEnds
  <2>3. OnceRefused'
    <3>1. CASE Heard
      <4>1. \A i \in 1 .. Len(toHost') : toHost'[i] = toHost[i + 1] /\ i + 1 \in 1 .. Len(toHost)
        BY <3>1, <1>3, HeadAndTail DEF Heard
      <4> SUFFICES ASSUME NEW i \in 1 .. Len(toHost'), toHost'[i].oid = "init", ~toHost'[i].ok
                   PROVE  /\ Refusing(toHost[i + 1].id)
                          /\ \A j \in 1 .. Len(toHost') :
                               i < j /\ toHost'[j].oid = "init" /\ toHost'[j].id = toHost'[i].id
                                 => ~toHost'[j].ok
        BY <1>1, <1>2, <4>1 DEF OnceRefused, Refusing
      <4>2. /\ Refusing(toHost[i + 1].id)
            /\ \A j \in 1 .. Len(toHost) :
                 i + 1 < j /\ toHost[j].oid = "init" /\ toHost[j].id = toHost[i + 1].id
                   => ~toHost[j].ok
        BY <1>7, <4>1 DEF HandleInv, OnceRefused
      <4>3. ASSUME NEW j \in 1 .. Len(toHost'), i < j, toHost'[j].oid = "init",
                   toHost'[j].id = toHost'[i].id
            PROVE  ~toHost'[j].ok
        <5>1. i + 1 < j + 1
          BY <1>1, <4>3
        <5> QED BY <4>1, <4>2, <4>3, <5>1
      <4> QED BY <4>2, <4>3
    <3>2. CASE Late
      <4>1. toHost' = toHost
        BY <3>2 DEF Late
      <4> QED BY <1>1, <1>2, <1>7, <4>1 DEF HandleInv, OnceRefused, Refusing
    <3> QED BY <3>1, <3>2
  <2>4. OthersRefused'
    BY <1>1, <1>2, <1>3, <1>5, <1>7, <2>1, <2>2
       DEF HandleInv, OthersRefused, OfOther, Refusing, NoDeinit
  <2>5. ASSUME Refusing(packet.id), NoDeinit, \A a \in Elems(toHost') : OfThis(a) => ~a.ok
        PROVE  Hopeless'
    BY <1>1, <1>2, <1>3, <2>1, <2>5 DEF Hopeless, Refusing, NoDeinit, OfThis
  <2>6. AttemptsPaid'
    <3> SUFFICES ASSUME ~Hopeless'
                 PROVE  \E k \in Nat : /\ Ahead(toHost', toChip', packet.id, k)
                                       /\ attempt + 1 + k <= Credit' + (IF k < OnLine' THEN 1 ELSE 0)
      BY <1>2 DEF AttemptsPaid
    <3>1. ~Hopeless
      BY <2>2, <2>5 DEF Hopeless
    <3>2. PICK k \in Nat : /\ Ahead(toHost, toChip, packet.id, k)
                           /\ attempt + k <= Credit + (IF k < OnLine THEN 1 ELSE 0)
      BY <1>7, <3>1 DEF HandleInv, AttemptsPaid
    <3>3. torn' \in BOOLEAN /\ losses \in Nat
      BY BaseInv', LineFacts DEF BaseInv, UwbTypeOK
    <3>4. CASE Heard /\ ~Head(toHost).ok
      <4>1. toHost # << >> /\ toHost' = Tail(toHost) /\ losses' = losses + 0 /\ ~torn /\ ~torn'
        BY <3>3, <3>4 DEF Heard
      <4>2. Head(toHost).id # packet.id
        BY <1>7, <2>5, <3>4, HeardRefusal
      <4>3. k >= 1 /\ Ahead(toHost', toChip, packet.id, k - 1)
        BY <1>3, <3>2, <4>1, <4>2, AheadTake
      <4>4. Ahead(toHost', toChip', packet.id, k - 1) /\ k - 1 \in Nat
        <5>1. k - 1 \in Nat
          BY <4>3
        <5> QED BY <1>1, <1>2, <1>3, <2>1, <4>3, <5>1, AheadSend
      <4>5. PICK b, c \in Int : b = Credit /\ c = Credit' /\ c >= b
        BY <1>2, <3>3, <4>1, CreditGrows
      <4>6. OnLine' = OnLine /\ OnLine \in Nat
        <5>1. Len(toHost') = Len(toHost) - 1 /\ Len(toHost) \in Nat
          BY <4>1, HeardFacts, LineFacts
        <5> QED BY <1>1, <1>3, <5>1 DEF OnLine
      <4>7. attempt + 1 + (k - 1) <= c + (IF k - 1 < OnLine THEN 1 ELSE 0)
        <5>1. attempt + k <= b + (IF k < OnLine THEN 1 ELSE 0)
          BY <3>2, <4>5
        <5> QED BY <1>3, <4>3, <4>5, <4>6, <5>1, PaidByOther
      <4> QED BY <4>4, <4>5, <4>6, <4>7
    <3>5. CASE Late /\ ~Nothing
      <4>1. toHost' = toHost /\ losses' = losses + 1 /\ torn' = torn
        BY <3>5 DEF Late
      <4>2. Ahead(toHost', toChip', packet.id, k)
        BY <1>2, <1>3, <2>1, <3>2, <4>1, AheadSend
      <4>3. PICK b, c \in Int : b = Credit /\ c = Credit' /\ c >= b + 1
        BY <1>2, <3>3, <4>1, CreditGrows
      <4>4. OnLine' = OnLine + 1 /\ OnLine \in Nat
        BY <1>1, <1>3, <4>1 DEF OnLine
      <4>5. attempt + 1 + k <= c + (IF k < OnLine + 1 THEN 1 ELSE 0)
        <5>1. attempt + k <= b + (IF k < OnLine THEN 1 ELSE 0)
          BY <3>2, <4>3
        <5> QED BY <1>3, <4>3, <4>4, <5>1, PaidByLoss
      <4> QED BY <4>2, <4>3, <4>4, <4>5
    <3>6. CASE Late /\ Nothing
      <4>1. /\ toHost' = << >> /\ toHost = << >> /\ toChip = << >> /\ losses' = losses + 0
            /\ torn' = torn
        BY <3>3, <3>6 DEF Late, Nothing
      <4>2. Ahead(toHost, toChip, packet.id, 0) /\ OnLine = 0
        BY <4>1, EmptySeq DEF Ahead, OnLine
      <4>3. Ahead(toHost', toChip', packet.id, 0)
        BY <1>2, <1>3, <2>1, <4>1, <4>2, AheadSend
      <4>4. PICK b, c \in Int : b = Credit /\ c = Credit' /\ c >= b
        BY <1>2, <3>3, <4>1, CreditGrows
      <4>5. OnLine' = 1
        BY <1>3, <4>1, EmptySeq DEF OnLine
      <4>6. attempt + 1 + 0 <= c + (IF 0 < 1 THEN 1 ELSE 0)
        <5>1. attempt + k <= b + (IF k < 0 THEN 1 ELSE 0)
          BY <3>2, <4>2, <4>4
        <5> QED BY <1>3, <4>4, <5>1, PaidBefore
      <4> QED BY <4>3, <4>4, <4>5, <4>6
    <3> QED BY <3>4, <3>5, <3>6
  <2> QED BY <1>1, <1>2, <1>4, <2>3, <2>4, <2>6 DEF HandleInv
<1> QED BY <1>6, <1>7

LEMMA ServeHandle ==
  ASSUME BaseInv, BaseInv', PipeInv, HandleInv, ServeStop \/ ServeStart
  PROVE  HandleInv'
<1>1. /\ UNCHANGED <<toHost, torn, losses, chip, faults>> /\ command = "none"
      /\ activeSessionId_ \in Ids /\ g_pendingCfg.id \in Ids /\ g_pendingCfg \in [id : Ids, cfg : Ids]
  BY BaseInParts DEF ServeStop, ServeStart, ManagerInv, chipVars, Waiting, TaskTypes, BridgeTypes
<1>2. /\ losses \in Nat /\ toHost \in Seq(Answers) /\ toChip \in Seq(Packets)
      /\ Len(toHost) \in Nat /\ Len(toChip) \in Nat
  BY LineFacts
<1>3. /\ Len(toHost) + Len(toChip) <= losses
      /\ torn => losses >= 1 /\ "framing" \in faults
  BY <1>1, <1>2 DEF HandleInv, OneEach, OnLine, PipeInv, Waiting
<1>4. CASE sessionActive_
  <2>1. Begins("ranging_stop", activeSessionId_) /\ "ranging_stop" \in Steps
    BY <1>4 DEF ServeStop, ServeStart, Steps
  <2>2. command' = "ranging_stop" /\ Waiting' /\ Len(toChip') = Len(toChip) + 1
    BY <1>1, <1>2, <2>1, BeginsCommand
  <2>3. OneEach' /\ ~Idle'
    BY <1>1, <1>2, <1>3, <2>2 DEF OneEach, OnLine, Idle
  <2> QED BY <1>1, <1>3, <2>2, <2>3, OtherNext
<1>5. CASE ~sessionActive_
  <2>1. RestRefused(toHost, toChip)
    BY <1>1, <1>5 DEF HandleInv, OnceRefused, OthersRefused, OfOther, Idle, RestRefused, NoDeinit,
                      Elems
  <2>2. CASE ServeStop
    BY <1>1, <1>2, <1>3, <1>5, <2>1, <2>2, IdleNext DEF ServeStop, Returns
  <2>3. CASE ServeStart
    BY <1>1, <1>2, <1>3, <1>5, <2>1, <2>3, InitNext DEF ServeStart, RunBegins
  <2> QED BY <2>2, <2>3
<1> QED BY <1>4, <1>5

LEMMA PaidAnyway ==
  ASSUME NEW t \in Nat, NEW k \in Nat, NEW j \in Nat, NEW b \in Int, NEW c \in Int, NEW m \in Nat,
         NEW n \in Nat,
         \/ k >= 1 /\ j = k - 1 /\ c >= b /\ n = m - 1
         \/ j <= k /\ c >= b + 1 /\ n = m - 1
         \/ j = k /\ c >= b /\ n = m,
         t + k <= b + (IF k < m THEN 1 ELSE 0)
  PROVE  t + j <= c + (IF j < n THEN 1 ELSE 0)
OBVIOUS

\* An answer leaves the line without counting.
LEMMA AnswerGone ==
  ASSUME BaseInv, HandleInv, UNCHANGED <<faults, managerVars, toChip, chip>>,
         toHost # << >>, toHost' = Tail(toHost), torn' \in BOOLEAN,
         NEW d \in {0, 1}, losses' = losses + d, torn' /\ ~torn => d = 1 /\ "framing" \in faults,
         d = 0 =>
           ~torn' /\ (torn \/ ~Waiting \/ Head(toHost).oid # Oid(command) \/ Superseded)
  PROVE  HandleInv'
<1>1. /\ command' = command /\ attempt' = attempt /\ packet' = packet /\ Waiting' = Waiting
      /\ Idle' = Idle
  BY DEF managerVars, Waiting, Idle
<1>2. /\ toHost \in Seq(Answers) /\ toChip \in Seq(Packets) /\ losses \in Nat /\ attempt \in Nat
      /\ Len(toHost) \in Nat /\ Len(toChip) \in Nat
      /\ Len(toHost') = Len(toHost) - 1 /\ Len(toHost) >= 1
      /\ Elems(toHost') \subseteq Elems(toHost)
  BY LineFacts, HeardFacts
<1>3. \A i \in 1 .. Len(toHost') : toHost'[i] = toHost[i + 1] /\ i + 1 \in 1 .. Len(toHost)
  BY <1>2, HeadAndTail
<1>4. OnLine' = OnLine - 1 /\ OnLine \in Nat /\ OnLine' \in Nat
  BY <1>2 DEF OnLine
<1>5. OneEach'
  BY <1>1, <1>2, <1>4 DEF HandleInv, OneEach
<1>6. OnceRefused'
  <2> SUFFICES ASSUME command = "init" \/ Idle, NEW i \in 1 .. Len(toHost'),
                      toHost'[i].oid = "init", ~toHost'[i].ok
               PROVE  /\ Refusing(toHost[i + 1].id)
                      /\ \A j \in 1 .. Len(toHost') :
                           i < j /\ toHost'[j].oid = "init" /\ toHost'[j].id = toHost'[i].id
                             => ~toHost'[j].ok
    BY <1>1, <1>3 DEF OnceRefused, Refusing
  <2>2. /\ Refusing(toHost[i + 1].id)
        /\ \A j \in 1 .. Len(toHost) :
             i + 1 < j /\ toHost[j].oid = "init" /\ toHost[j].id = toHost[i + 1].id
               => ~toHost[j].ok
    BY <1>3 DEF HandleInv, OnceRefused
  <2>3. ASSUME NEW j \in 1 .. Len(toHost'), i < j, toHost'[j].oid = "init",
               toHost'[j].id = toHost'[i].id
        PROVE  ~toHost'[j].ok
    <3>1. i + 1 < j + 1
      BY <1>2, <2>3
    <3> QED BY <1>3, <2>2, <2>3, <3>1
  <2> QED BY <2>2, <2>3
<1>7. OthersRefused'
  BY <1>1, <1>2 DEF HandleInv, OthersRefused, OfOther, Refusing, NoDeinit
<1>8. AttemptsPaid'
  <2> SUFFICES ASSUME command = "init", ~Hopeless'
               PROVE  \E k \in Nat : /\ Ahead(toHost', toChip, packet.id, k)
                                     /\ attempt + k <= Credit' + (IF k < OnLine' THEN 1 ELSE 0)
    BY <1>1 DEF AttemptsPaid
  <2>1. ~Hopeless
    BY <1>1, <1>2 DEF Hopeless, Refusing, NoDeinit, OfThis
  <2>2. PICK k \in Nat : /\ Ahead(toHost, toChip, packet.id, k)
                         /\ attempt + k <= Credit + (IF k < OnLine THEN 1 ELSE 0)
    BY <2>1 DEF HandleInv, AttemptsPaid
  <2>3. PICK b, c \in Int : /\ b = Credit /\ c = Credit' /\ c >= b + d
                            /\ d = 0 /\ torn /\ ~torn' /\ "framing" \in faults => c >= b + 1
    BY CreditGrows
  <2>4. attempt + k <= b + (IF k < OnLine THEN 1 ELSE 0)
    BY <2>2, <2>3
  <2>5. CASE k >= 1
    <3>1. Ahead(toHost', toChip, packet.id, k - 1) /\ k - 1 \in Nat /\ c >= b
      BY <1>2, <2>2, <2>3, <2>5, AheadTake
    <3>2. attempt + (k - 1) <= c + (IF k - 1 < OnLine' THEN 1 ELSE 0)
      BY <1>2, <1>4, <2>4, <2>5, <3>1, PaidAnyway
    <3> QED BY <2>3, <3>1, <3>2
  <2>6. CASE k = 0
    <3>1. Ahead(toHost', toChip, packet.id, 0) /\ Head(toHost).oid = "init"
      BY <1>2, <2>2, <2>6, AheadTake
    <3>2. attempt + 0 <= c + (IF 0 < OnLine' THEN 1 ELSE 0)
      <4>1. CASE Superseded
        <5>1. 0 < OnLine /\ 0 < OnLine'
          BY <1>2, <1>4, <4>1, SupersededFacts DEF OnLine
        <5>2. attempt <= b + 1 /\ b \in Int /\ c \in Int /\ c >= b
          BY <1>2, <2>3, <2>4, <2>6, <5>1
        <5>3. attempt <= c + 1
          BY <1>2, <5>2
        <5> QED BY <1>2, <5>1, <5>3
      <4>2. CASE ~Superseded
        <5>1. d = 0 => torn /\ ~torn' /\ "framing" \in faults
          BY <3>1, <4>2 DEF Oid, Waiting, HandleInv
        <5>2. c >= b + 1
          BY <2>3, <5>1
        <5> QED BY <1>2, <1>4, <2>4, <2>6, <5>2, PaidAnyway
      <4> QED BY <4>1, <4>2
    <3> QED BY <2>3, <3>1, <3>2
  <2> QED BY <2>5, <2>6
<1>9. torn' => "framing" \in faults'
  BY DEF HandleInv
<1> QED BY <1>5, <1>6, <1>7, <1>8, <1>9 DEF HandleInv

LEMMA CommandGone ==
  ASSUME BaseInv, HandleInv, LoseCommand
  PROVE  HandleInv'
<1>1. /\ toChip # << >> /\ toChip' = Tail(toChip) /\ losses' = losses + 1
      /\ UNCHANGED <<faults, toHost, torn, chip>>
      /\ command' = command /\ attempt' = attempt /\ packet' = packet /\ Waiting' = Waiting
      /\ Idle' = Idle
  BY DEF LoseCommand, bridgeVars, managerVars, chipVars, Waiting, Idle
<1>2. /\ toHost \in Seq(Answers) /\ toChip \in Seq(Packets) /\ losses \in Nat /\ attempt \in Nat
      /\ Len(toHost) \in Nat /\ Len(toChip) \in Nat /\ torn \in BOOLEAN
      /\ Len(toChip') = Len(toChip) - 1 /\ Len(toChip) >= 1
      /\ Elems(toChip') \subseteq Elems(toChip)
  BY <1>1, LineFacts, ChipTakes
<1>4. OnLine' = OnLine - 1 /\ OnLine \in Nat /\ OnLine' \in Nat
  BY <1>1, <1>2 DEF OnLine
<1>5. OneEach'
  BY <1>1, <1>2, <1>4 DEF HandleInv, OneEach
<1>6. OnceRefused'
  BY <1>1 DEF HandleInv, OnceRefused, Refusing
<1>7. OthersRefused'
  BY <1>1, <1>2 DEF HandleInv, OthersRefused, OfOther, Refusing, NoDeinit
<1>8. AttemptsPaid'
  <2> SUFFICES ASSUME command = "init", ~Hopeless'
               PROVE  \E k \in Nat : /\ Ahead(toHost, toChip', packet.id, k)
                                     /\ attempt + k <= Credit' + (IF k < OnLine' THEN 1 ELSE 0)
    BY <1>1 DEF AttemptsPaid
  <2>1. ~Hopeless
    BY <1>1, <1>2 DEF Hopeless, Refusing, NoDeinit, OfThis
  <2>2. PICK k \in Nat : /\ Ahead(toHost, toChip, packet.id, k)
                         /\ attempt + k <= Credit + (IF k < OnLine THEN 1 ELSE 0)
    BY <2>1 DEF HandleInv, AttemptsPaid
  <2>3. PICK b, c \in Int : b = Credit /\ c = Credit' /\ c >= b + 1
    BY <1>1, <1>2, CreditGrows
  <2>4. attempt + k <= b + (IF k < OnLine THEN 1 ELSE 0)
    BY <2>2, <2>3
  <2>5. PICK j \in Nat : (j = k \/ j = k - 1) /\ Ahead(toHost, toChip', packet.id, j)
    BY <1>1, <1>2, <2>2, AheadLose
  <2>6. j <= k
    BY <2>5
  <2>7. PICK m, n \in Nat : m = OnLine /\ n = OnLine' /\ n = m - 1
    BY <1>4
  <2>8. attempt + k <= b + (IF k < m THEN 1 ELSE 0)
    BY <2>4, <2>7
  <2>9. attempt + j <= c + (IF j < n THEN 1 ELSE 0)
    BY <1>2, <2>3, <2>6, <2>7, <2>8, PaidAnyway
  <2> QED BY <2>3, <2>5, <2>7, <2>9
<1> QED BY <1>1, <1>5, <1>6, <1>7, <1>8 DEF HandleInv

LEMMA NotificationHandle ==
  ASSUME BaseInv, HandleInv, UNCHANGED <<faults, managerVars, toHost, toChip, losses, chip>>,
         torn' = FALSE \/ torn' = torn
  PROVE  HandleInv'
<1>1. /\ command' = command /\ attempt' = attempt /\ packet' = packet /\ Waiting' = Waiting
      /\ Idle' = Idle /\ OnLine' = OnLine
  BY DEF managerVars, Waiting, Idle, OnLine
<1>2. losses \in Nat /\ attempt \in Nat /\ torn \in BOOLEAN /\ OnLine \in Nat
  BY LineFacts DEF OnLine
<1>3. Hopeless' = Hopeless
  BY <1>1 DEF Hopeless, Refusing, NoDeinit, OfThis
<1>4. PICK b, c \in Int : b = Credit /\ c = Credit' /\ c >= b
  <2>1. losses' = losses + 0
    BY <1>2
  <2>2. torn' \in BOOLEAN
    BY <1>2
  <2> QED BY <2>1, <2>2, CreditGrows
<1>5. AttemptsPaid'
  <2> SUFFICES ASSUME command = "init", ~Hopeless
               PROVE  \E k \in Nat : /\ Ahead(toHost, toChip, packet.id, k)
                                     /\ attempt + k <= Credit' + (IF k < OnLine THEN 1 ELSE 0)
    BY <1>1, <1>3 DEF AttemptsPaid
  <2>1. PICK k \in Nat : /\ Ahead(toHost, toChip, packet.id, k)
                         /\ attempt + k <= Credit + (IF k < OnLine THEN 1 ELSE 0)
    BY DEF HandleInv, AttemptsPaid
  <2>2. attempt + k <= b + (IF k < OnLine THEN 1 ELSE 0)
    BY <1>4, <2>1
  <2>3. attempt + k <= c + (IF k < OnLine THEN 1 ELSE 0)
    BY <1>2, <1>4, <2>2, PaidAnyway
  <2> QED BY <1>4, <2>1, <2>3
<1>6. OnceRefused' /\ OthersRefused' /\ OneEach'
  BY <1>1 DEF HandleInv, OnceRefused, OthersRefused, OneEach, OfOther, Refusing, NoDeinit
<1> QED BY <1>5, <1>6 DEF HandleInv

LEMMA ChipActsHandle ==
  ASSUME BaseInv, BaseInv', PipeInv, HandleInv, ChipActs
  PROVE  HandleInv'
<1> DEFINE p == Head(toChip)
<1>1. /\ toChip # << >> /\ toChip' = Tail(toChip) /\ toHost' = Append(toHost, Answer)
      /\ chip' = (IF Obeys(p) THEN [chip EXCEPT ![p.id] = SessionAfter(p.oid)] ELSE chip)
      /\ UNCHANGED <<faults, managerVars, torn, losses>>
  BY DEF ChipActs, Answer, bridgeVars
<1>2. /\ command' = command /\ attempt' = attempt /\ packet' = packet /\ Waiting' = Waiting
      /\ Idle' = Idle /\ sessionActive_' = sessionActive_
  BY <1>1 DEF managerVars, Waiting, Idle
<1>3. /\ toHost \in Seq(Answers) /\ toChip \in Seq(Packets) /\ Answer \in Answers
      /\ Elems(toHost') = Elems(toHost) \cup {Answer} /\ Elems(toChip) = {p} \cup Elems(toChip')
      /\ Len(toHost') = Len(toHost) + 1 /\ Len(toChip') = Len(toChip) - 1
      /\ Len(toHost) \in Nat /\ Len(toChip) \in Nat
      /\ Answer.oid = p.oid /\ Answer.ok = Obeys(p) /\ Answer.id = p.id
      /\ p.id \in Ids /\ Obeys(p) \in BOOLEAN
  BY <1>1, LineFacts, ChipTakes, ElemsAppend, Appended
<1>4. OnLine' = OnLine
  BY <1>3 DEF OnLine
<1>5. chip \in [Ids -> {"none", "init", "idle", "active"}] /\ packet.id \in Ids
  BY BaseInParts DEF LineTypes, TaskTypes, Packets
<1>6. OneEach' /\ (torn' => "framing" \in faults')
  BY <1>1, <1>2, <1>4 DEF HandleInv, OneEach
<1>7. ASSUME NEW k \in Nat, Ahead(toHost, toChip, packet.id, k)
      PROVE  Ahead(toHost', toChip', packet.id, k)
  BY <1>1, <1>3, <1>7, AheadMove
<1> HIDE DEF p
<1>8. CASE ~(command = "init" \/ Idle)
  BY <1>2, <1>6, <1>8, OtherNext
<1>9. CASE command = "init" \/ Idle
  <2>1. p.oid \in {"init", "deinit"}
    <3>1. p \in InPipe
      BY <1>3 DEF InPipe
    <3> QED BY <1>9, <3>1 DEF PipeInv, Before, Idle, Waiting, Oid
  <2>2. (\E a \in Elems(toHost) : a.oid = "init") => p.oid = "init"
    BY <1>3, <1>9 DEF PipeInv, AwaitedOid, InOrder, Idle, Waiting, Oid
  \* A refusal changes nothing, and is repeated.
  <2>3. ASSUME NEW s \in Ids, Refusing(s), p.oid = "init"
        PROVE  Refusing(s)' /\ (p.id = s => ~Obeys(p))
    <3>1. p.id = s => ~Obeys(p)
      BY <2>3 DEF Refusing, Obeys
    <3>2. chip'[s] = chip[s]
      BY <1>1, <1>3, <1>5, <3>1
    <3> QED BY <1>1, <2>3, <3>1, <3>2 DEF Refusing
  <2>4. p.oid = "init" /\ ~Obeys(p) => Refusing(p.id) /\ chip' = chip
    <3>1. chip[p.id] \in {"none", "init", "idle", "active"}
      BY <1>3, <1>5
    <3> QED BY <1>1, <3>1 DEF Obeys, Refusing
  <2>5. /\ \A i \in 1 .. Len(toHost) : toHost'[i] = toHost[i] /\ toHost[i] \in Elems(toHost)
                                     /\ toHost[i].id \in Ids
        /\ toHost'[Len(toHost) + 1] = Answer
        /\ \A i \in 1 .. Len(toHost') : i \in 1 .. Len(toHost) \/ i = Len(toHost) + 1
    <3>1. \A i \in 1 .. Len(toHost) : toHost[i] \in Elems(toHost)
      BY DEF Elems
    <3>2. Elems(toHost) \subseteq Answers
      BY <1>3, ElemsOfSeq
    <3> QED BY <1>1, <1>3, <3>1, <3>2, Appended DEF Answers
  <2>6. ASSUME NEW i \in 1 .. Len(toHost'), toHost'[i].oid = "init", ~toHost'[i].ok
        PROVE  /\ \E s \in Ids : s = toHost'[i].id /\ Refusing(s)'
               /\ \A j \in 1 .. Len(toHost') :
                    i < j /\ toHost'[j].oid = "init" /\ toHost'[j].id = toHost'[i].id
                      => ~toHost'[j].ok
    <3>1. CASE i \in 1 .. Len(toHost)
      <4>1. PICK s \in Ids : s = toHost[i].id
        BY <2>5, <3>1
      <4>2. /\ Refusing(s)
            /\ \A j \in 1 .. Len(toHost) :
                 i < j /\ toHost[j].oid = "init" /\ toHost[j].id = s => ~toHost[j].ok
        BY <1>9, <2>5, <2>6, <3>1, <4>1 DEF HandleInv, OnceRefused
      <4>3. p.oid = "init"
        BY <2>2, <2>5, <2>6, <3>1
      <4>4. Refusing(s)' /\ (p.id = s => ~Obeys(p))
        BY <2>3, <4>2, <4>3
      <4>5. ASSUME NEW j \in 1 .. Len(toHost'), i < j, toHost'[j].oid = "init", toHost'[j].id = s
            PROVE  ~toHost'[j].ok
        <5>1. CASE j \in 1 .. Len(toHost)
          BY <2>5, <4>2, <4>5, <5>1
        <5>2. CASE j = Len(toHost) + 1
          BY <1>3, <2>5, <4>4, <4>5, <5>2
        <5> QED BY <2>5, <5>1, <5>2
      <4> QED BY <2>5, <3>1, <4>1, <4>4, <4>5
    <3>2. CASE i = Len(toHost) + 1
      <4>1. p.oid = "init" /\ ~Obeys(p)
        BY <1>3, <2>5, <2>6, <3>2
      <4>2. PICK s \in Ids : s = p.id
        BY <1>3
      <4>3. Refusing(s)'
        BY <1>1, <2>4, <4>1, <4>2 DEF Refusing
      <4>4. \A j \in 1 .. Len(toHost') : ~(i < j)
        BY <1>3, <3>2
      <4> QED BY <1>3, <2>5, <3>2, <4>2, <4>3, <4>4
    <3> QED BY <2>5, <3>1, <3>2
  <2>7. OnceRefused'
    <3> SUFFICES ASSUME NEW i \in 1 .. Len(toHost'), toHost'[i].oid = "init", ~toHost'[i].ok
                 PROVE  /\ Refusing(toHost[i].id)'
                        /\ \A j \in 1 .. Len(toHost') :
                             i < j /\ toHost'[j].oid = "init" /\ toHost'[j].id = toHost'[i].id
                               => ~toHost'[j].ok
      BY DEF OnceRefused, Refusing
    <3>1. PICK s \in Ids : s = toHost'[i].id /\ Refusing(s)'
      BY <2>6
    <3> QED BY <2>6, <3>1 DEF Refusing
  <2>8. OthersRefused'
    <3>1. ASSUME NEW a \in Elems(toHost'), OfOther(a)' PROVE ~a.ok
      <4>1. OfOther(a)
        BY <1>2, <3>1 DEF OfOther
      <4>2. CASE a \in Elems(toHost)
        BY <1>9, <4>1, <4>2 DEF HandleInv, OthersRefused
      <4>3. CASE a = Answer
        <5>1. OfOther(p)
          BY <1>3, <4>1, <4>3 DEF OfOther
        <5>2. Refusing(p.id) /\ p.oid = "init"
          BY <1>3, <1>9, <5>1 DEF HandleInv, OthersRefused, OfOther
        <5> QED BY <1>3, <2>3, <4>3, <5>2
      <4> QED BY <1>3, <4>2, <4>3
    <3>2. ASSUME NEW q \in Elems(toChip'), OfOther(q)' PROVE (Refusing(q.id) /\ NoDeinit)'
      <4>1. q \in Elems(toChip) /\ OfOther(q) /\ q.id \in Ids
        <5>1. q \in Elems(toChip) /\ Elems(toChip) \subseteq Packets
          BY <1>3, ElemsOfSeq
        <5> QED BY <1>2, <3>2, <5>1 DEF OfOther, Packets
      <4>2. Refusing(q.id) /\ NoDeinit
        BY <1>9, <4>1 DEF HandleInv, OthersRefused
      <4>3. p.oid = "init"
        BY <1>3, <2>1, <4>2 DEF NoDeinit
      <4>4. Refusing(q.id)'
        BY <2>3, <4>1, <4>2, <4>3
      <4> QED BY <1>3, <4>2, <4>4 DEF NoDeinit
    <3> QED BY <3>1, <3>2 DEF OthersRefused
  <2>9. AttemptsPaid'
    <3> SUFFICES ASSUME command = "init", ~Hopeless'
                 PROVE  \E k \in Nat : /\ Ahead(toHost', toChip', packet.id, k)
                                      /\ attempt + k <= Credit + (IF k < OnLine THEN 1 ELSE 0)
      BY <1>1, <1>2, <1>4 DEF AttemptsPaid, Credit
    <3>1. Hopeless => Hopeless'
      <4> SUFFICES ASSUME Hopeless PROVE Hopeless'
        OBVIOUS
      <4>1. p.oid = "init"
        BY <1>3, <2>1 DEF Hopeless, NoDeinit
      <4>2. Refusing(packet.id)' /\ (p.id = packet.id => ~Obeys(p))
        <5>1. PICK s \in Ids : s = packet.id
          BY <1>5
        <5>2. Refusing(s)' /\ (p.id = s => ~Obeys(p))
          BY <2>3, <4>1, <5>1 DEF Hopeless
        <5> QED BY <1>2, <5>1, <5>2 DEF Refusing
      <4>3. NoDeinit'
        BY <1>3 DEF Hopeless, NoDeinit
      <4>4. \A a \in Elems(toHost') : a.oid = "init" /\ a.id = packet.id => ~a.ok
        BY <1>3, <4>2 DEF Hopeless, OfThis
      <4> QED BY <1>2, <4>2, <4>3, <4>4 DEF Hopeless, OfThis, Refusing
    <3>2. PICK k \in Nat : /\ Ahead(toHost, toChip, packet.id, k)
                           /\ attempt + k <= Credit + (IF k < OnLine THEN 1 ELSE 0)
      BY <3>1 DEF HandleInv, AttemptsPaid
    <3> QED BY <1>7, <3>2
  <2> QED BY <1>6, <2>7, <2>8, <2>9 DEF HandleInv
<1> QED BY <1>8, <1>9

LEMMA LossSteps ==
  ASSUME [UwbNext]_uwbVars
  PROVE  losses' \in {losses, losses + 1}
BY DEF UwbNext, UwbTask, OobParsed, OobWritesId, OobCached, RequestStart, RequestStop, ServeStop,
       ServeStart, Packet, Timeout, ChipActs, LoseCommand, LoseAnswer, Notification, uwbVars,
       lineVars

LEMMA FewLosses ==
  ASSUME BaseInv, BaseInv', [UwbNext]_uwbVars
  PROVE  /\ faults' = faults /\ losses \in Nat /\ Few \in {2, 3} /\ Few' = Few
         /\ losses' < Few => losses < Few
<1>1. losses \in Nat /\ losses' \in Nat
  BY Numbers DEF BaseInv, UwbTypeOK
<1>2. faults' = faults
  BY DEF UwbNext, UwbTask, OobParsed, OobWritesId, OobCached, RequestStart, RequestStop, ServeStop,
         ServeStart, Packet, CommandReturns, Again, GivesUp, Timeout, ChipActs, LoseCommand,
         LoseAnswer, Notification, uwbVars, bridgeVars
<1>3. Few \in {2, 3} /\ Few' = Few
  BY <1>2 DEF Few
<1> QED BY <1>1, <1>2, <1>3, LossSteps

LEMMA PacketHandle ==
  ASSUME BaseInv, BaseInv', PipeInv, HandleInv, losses' < Few, Packet
  PROVE  HandleInv'
<1>1. /\ toHost # << >> /\ Head(toHost) \in Answers
      /\ toHost' = Tail(toHost) /\ torn' = FALSE /\ UNCHANGED <<losses, chipVars>>
      /\ \/ Accepts(Head(toHost))
         \/ /\ torn \/ ~Waiting \/ Head(toHost).oid # Oid(command) \/ Superseded
            /\ UNCHANGED <<bridgeVars, managerVars, toChip>>
  BY PacketCases
<1>2. CASE Accepts(Head(toHost))
  <2>1. Heard /\ Head(toHost).id \in Ids /\ TRUE \in BOOLEAN /\ FALSE \in BOOLEAN
    BY <1>1, <1>2 DEF Heard, Accepts, Answers
  <2>2. CASE ~Head(toHost).ok /\ Again
    BY <2>1, <2>2, AgainHandle
  <2>3. CASE Head(toHost).ok /\ CommandReturns(TRUE, Head(toHost).id)
    BY <2>1, <2>3, ReturnedHandle
  <2>4. CASE /\ ~Head(toHost).ok /\ attempt = Attempts(command)
             /\ CommandReturns(FALSE, Head(toHost).id)
    BY <2>1, <2>4, ReturnedHandle
  <2> QED BY <1>2, <2>2, <2>3, <2>4 DEF Accepts
<1>3. CASE /\ torn \/ ~Waiting \/ Head(toHost).oid # Oid(command) \/ Superseded
           /\ UNCHANGED <<bridgeVars, managerVars, toChip>>
  <2>1. UNCHANGED <<faults, managerVars, toChip, chip>>
    BY <1>1, <1>3 DEF bridgeVars, chipVars
  <2>2. losses' = losses + 0
    BY <1>1, LineFacts
  <2> QED BY <1>1, <1>3, <2>1, <2>2, AnswerGone
<1> QED BY <1>1, <1>2, <1>3

LEMMA TimeoutHandle ==
  ASSUME BaseInv, BaseInv', PipeInv, HandleInv, losses' < Few, Timeout
  PROVE  HandleInv'
<1>1. Late /\ (Again \/ (attempt = Attempts(command) /\ CommandReturns(FALSE, 0)))
  BY TimeoutCases
<1>2. ~Heard
  <2>1. Late => toHost' = toHost
    BY DEF Late
  <2>2. Heard => Len(toHost') = Len(toHost) - 1
    BY HeardFacts DEF Heard
  <2> QED BY <1>1, <2>1, <2>2, LineFacts
<1> QED BY <1>1, <1>2, Numbers, AgainHandle, ReturnedHandle

LEMMA LosesHandle ==
  ASSUME BaseInv, BaseInv', HandleInv, LoseCommand \/ LoseAnswer \/ Notification
  PROVE  HandleInv'
<1>1. CASE LoseAnswer
  <2>1. /\ UNCHANGED <<faults, managerVars, toChip, chip>> /\ toHost # << >>
        /\ toHost' = Tail(toHost) /\ losses' = losses + 1
        /\ torn' \in {torn, TRUE} /\ (torn' => torn \/ "framing" \in faults)
    BY <1>1 DEF LoseAnswer, bridgeVars, chipVars
  <2>2. torn' \in BOOLEAN
    BY <2>1, LineFacts
  <2> QED BY <2>1, <2>2, AnswerGone
<1>2. CASE Notification
  BY <1>2, NotificationHandle DEF Notification, bridgeVars, chipVars
<1> QED BY <1>1, <1>2, CommandGone

LEMMA HandleKept ==
  ASSUME BaseInv, BaseInv', PipeInv, HandleInv, [UwbNext]_uwbVars, losses' < Few
  PROVE  HandleInv'
<1>1. CASE (\E k \in Oobs : OobParsed(k)) \/ OobWritesId \/ OobCached \/ RequestStart \/ RequestStop
  BY <1>1, BridgeBase, NotificationHandle DEF lineVars, chipVars
<1>2. CASE UNCHANGED uwbVars
  BY <1>2, NotificationHandle DEF uwbVars, bridgeVars, lineVars, chipVars
<1> QED BY <1>1, <1>2, ServeHandle, PacketHandle, TimeoutHandle, ChipActsHandle, LosesHandle
        DEF UwbNext, UwbTask

\* While few packets are lost, the handle an INIT that counts returns is that of its session.
LEMMA HandleIsOwn ==
  ASSUME BaseInv, HandleInv, Packet, Accepts(Head(toHost)), "handles" \in faults
  PROVE  OwnInit
<1> SUFFICES ASSUME InitReturned(TRUE, Head(toHost).id) PROVE activeSessionId_' = packet.id
  BY DEF OwnInit
<1>1. /\ command = "init" /\ command' = "config" /\ Head(toHost).oid = "init"
      /\ activeSessionId_' = Head(toHost).id
  BY DEF InitReturned, Begins, Accepts, Oid
<1>2. Head(toHost).ok
  <2>1. ~Again
    BY <1>1 DEF Again
  <2>2. ~CommandReturns(FALSE, Head(toHost).id)
    BY <1>1 DEF CommandReturns, StopReturned, DeinitReturned, InitReturned, ConfigReturned,
                StartReturned, UndoReturned, Returns
  <2> QED BY <2>1, <2>2 DEF Accepts
<1>3. Head(toHost) \in Elems(toHost)
  <2>1. toHost # << >> /\ toHost \in Seq(Answers)
    BY PacketCases
  <2> QED BY <2>1, ElemsTail
<1>4. ~OfOther(Head(toHost))
  BY <1>1, <1>2, <1>3 DEF HandleInv, OthersRefused
<1> QED BY <1>1, <1>4 DEF OfOther

SessionInv ==
  /\ HostInv
  /\ losses < Few => HandleInv
  /\ "oobOverStart" \notin faults /\ ("handles" \notin faults \/ losses < Few) => OobInv

LEMMA SessionInitially == ASSUME UwbInit PROVE SessionInv
<1>1. Len(toHost) = 0 /\ Len(toChip) = 0 /\ Elems(toHost) = {} /\ Elems(toChip) = {}
  BY EmptySeq DEF UwbInit, Elems
<1>2. HandleInv
  BY <1>1 DEF UwbInit, HandleInv, OneEach, OnLine, OnceRefused, OthersRefused, AttemptsPaid,
              Waiting, Idle
<1>3. OobInv
  BY <1>1 DEF UwbInit, OobInv, NotWriting
<1> QED BY <1>2, <1>3, HostInitially DEF SessionInv

LEMMA SessionKept == SessionInv /\ [UwbNext]_uwbVars => SessionInv'
<1> SUFFICES ASSUME SessionInv, [UwbNext]_uwbVars PROVE SessionInv'
  OBVIOUS
<1>1. HostInv /\ HostInv' /\ BaseInv /\ BaseInv'
  BY HostKept DEF SessionInv, HostInv
<1>2. /\ faults' = faults /\ losses \in Nat /\ Few \in {2, 3} /\ Few' = Few
      /\ losses' < Few => losses < Few
  BY <1>1, FewLosses
<1>3. losses < Few => PipeInv /\ HandleInv
  BY <1>1, <1>2 DEF HostInv, SessionInv
<1>4. losses' < Few => HandleInv'
  BY <1>1, <1>2, <1>3, HandleKept
<1>5. ASSUME "oobOverStart" \notin faults, "handles" \notin faults \/ losses' < Few
      PROVE  OobInv'
  <2>1. OobInv
    BY <1>2, <1>5 DEF SessionInv
  <2>2. ASSUME Packet, Accepts(Head(toHost)) PROVE OwnInit
    <3>1. CASE "handles" \notin faults
      BY <2>1, <3>1 DEF OwnInit, InitReturned, OobInv
    <3>2. CASE "handles" \in faults /\ losses' < Few
      BY <1>1, <1>2, <1>3, <2>2, <3>2, HandleIsOwn
    <3> QED BY <1>5, <3>1, <3>2
  <2> QED BY <1>1, <1>5, <2>1, <2>2, OobKept
<1>6. (losses < Few)' <=> losses' < Few
  BY <1>2
<1> QED BY <1>1, <1>2, <1>4, <1>5, <1>6 DEF SessionInv

\* The session the chip ranges has the id and the parameters of one OOB payload, in spite
\* of OOB writes, restarts, retries and late answers, except when an OOB write overlaps the
\* taking up of a start, and on a chip that returns handles as long as fewer than three
\* packets are lost or late, two where one can take the next along.
THEOREM SessionFromOneOob == UwbSpec => []SessionOfOneOob
<1>1. UwbInit => SessionInv
  BY SessionInitially
<1>2. SessionInv => SessionOfOneOob
  BY DEF SessionInv, SessionOfOneOob, OobInv, RangedByChip, Few
<1> QED BY <1>1, <1>2, SessionKept, PTL DEF UwbSpec


-----------------------------------------------------------------------------
(* One loss.  As long as the chip repeats a command it has carried out, a    *)
(* packet left of the command before finds the session as that command left  *)
(* it, and the attempts of the command waited for find it as it was or       *)
(* already as they leave it: every packet is obeyed.                         *)

Smooth == losses <= 1 /\ faults \cap {"refusesRepeat", "framing", "oobOverStart"} = {}

\* What is cached has the id of an OOB payload.
Cached ==
  /\ writing # NotWriting => writing.oob # 0
  /\ g_hasCachedConfig \/ writing.idWritten => g_pendingCfg.id # 0
  /\ g_pendingStart \/ restart => g_hasCachedConfig
  /\ command = "init" => packet.id # 0

Owner == IF command = "init" THEN packet.id ELSE activeSessionId_

\* The owner's session when the command waited for begins.
Was(c) ==
  CASE c = "config" -> "init" [] c \in {"ranging_start", "deinit"} -> "idle"
    [] c = "ranging_stop" -> "active" [] OTHER -> "none"

SessionNow == IF Waiting THEN Was(command) ELSE IF sessionActive_ THEN "active" ELSE "none"

CarriedOut == Waiting /\ chip[Owner] = SessionAfter(command)

OwnUnderWay == \E x \in InPipe : x.oid = command

\* Each attempt, and the absence of the last one's packet, is a loss.
FewAttempts == Waiting => attempt <= (IF OwnUnderWay THEN losses + 1 ELSE losses)

NoFailure ==
  /\ result # "FAIL" /\ command # "undo" /\ ~torn
  /\ command = "deinit" => stopOk
  /\ \A a \in Elems(toHost) : a.ok

OwnersPackets ==
  /\ \A x \in InPipe : x.id = Owner \/ (x.oid = "deinit" /\ command \in {"init", "none"})
  /\ ~Waiting /\ ~sessionActive_ => \A x \in InPipe : x.oid = "deinit"

OwnersSession ==
  /\ chip[0] = "none" /\ \A s \in Ids : s # Owner => chip[s] = "none"
  /\ \/ chip[Owner] = SessionNow
     \/ CarriedOut /\ \A p \in Elems(toChip) : p.oid = command
  /\ Waiting /\ (\E a \in Elems(toHost) : a.oid = command) => CarriedOut

SmoothInv == FewAttempts /\ NoFailure /\ OwnersPackets /\ OwnersSession

\* The next command, when what is left on the line is of others and comes of no failure.
LEMMA BeginsSmooth ==
  ASSUME BaseInv, BaseInv', NEW c \in {"ranging_stop", "deinit", "init", "config", "ranging_start"},
         NEW i \in Ids, Begins(c, i), toHost' \in Seq(Answers), losses' \in Nat,
         \A x \in Elems(toHost') \cup Elems(toChip) :
           x.oid # c /\ (x.id = i \/ (x.oid = "deinit" /\ c = "init")),
         \A a \in Elems(toHost') : a.ok,
         chip' = chip, chip[0] = "none", chip[i] = Was(c), \A s \in Ids : s # i => chip[s] = "none",
         torn' = FALSE, result' # "FAIL", c = "deinit" => stopOk'
  PROVE  SmoothInv'
<1>1. /\ command' = c /\ attempt' = 1 /\ Waiting' /\ packet'.oid = c /\ packet'.id = i
      /\ Elems(toChip') = Elems(toChip) \cup {packet'}
  <2>1. c \in Steps /\ Oid(c) = c
    BY DEF Steps, Oid
  <2> QED BY <2>1, BaseInParts, LineFacts, BeginsCommand DEF BridgeTypes
<1>2. Owner' = i
  <2>1. c # "init" => packet'.id = activeSessionId_'
    BY <1>1, BaseInv' DEF BaseInv, ManagerInv
  <2> QED BY <1>1, <2>1 DEF Owner
<1>3. FewAttempts'
  <2>1. OwnUnderWay'
    BY <1>1 DEF OwnUnderWay, InPipe
  <2>2. attempt' <= losses' + 1
    <3>1. PICK n \in Nat : n = losses'
      OBVIOUS
    <3>2. 1 <= n + 1
      OBVIOUS
    <3> QED BY <1>1, <3>1, <3>2
  <2> QED BY <2>1, <2>2 DEF FewAttempts
<1>4. NoFailure'
  BY <1>1 DEF NoFailure
<1>5. OwnersPackets'
  BY <1>1, <1>2 DEF OwnersPackets, InPipe
<1>6. OwnersSession'
  <2>1. chip'[Owner'] = SessionNow'
    BY <1>1, <1>2 DEF SessionNow, Was
  <2>2. ~ \E a \in Elems(toHost') : a.oid = command'
    BY <1>1
  <2> QED BY <1>2, <2>1, <2>2 DEF OwnersSession
<1> QED BY <1>3, <1>4, <1>5, <1>6 DEF SmoothInv

LEMMA ReturnsSmooth ==
  ASSUME Returns(TRUE), torn' = FALSE, chip' = chip, chip[0] = "none",
         \A a \in Elems(toHost') : a.ok,
         \A s \in Ids : s # activeSessionId_' => chip[s] = "none",
         chip[activeSessionId_'] = IF sessionActive_' THEN "active" ELSE "none",
         \A x \in Elems(toHost') \cup Elems(toChip) :
           IF sessionActive_' THEN x.id = activeSessionId_' ELSE x.oid = "deinit"
  PROVE  SmoothInv'
<1>1. command' = "none" /\ ~Waiting' /\ Owner' = activeSessionId_' /\ toChip' = toChip
      /\ result' = "SUCCESS"
  BY DEF Returns, Waiting, Owner
<1>2. FewAttempts' /\ NoFailure'
  BY <1>1 DEF FewAttempts, NoFailure
<1>3. OwnersPackets'
  BY <1>1 DEF OwnersPackets, InPipe
<1>4. OwnersSession'
  BY <1>1 DEF OwnersSession, SessionNow
<1> QED BY <1>2, <1>3, <1>4 DEF SmoothInv

\* The answer of the command waited for: its session is as the next command expects it.
LEMMA ReturnedSmooth ==
  ASSUME BaseInv, BaseInv', PipeInv, OobInv, Cached, SmoothInv, losses' < 3, Heard,
         CommandReturns(TRUE, Head(toHost).id)
  PROVE  SmoothInv'
<1>1. /\ command \in {"ranging_stop", "deinit", "init", "config", "ranging_start"}
      /\ Oid(command) = command /\ Waiting
  BY BaseInParts DEF SmoothInv, NoFailure, Heard, Waiting, TaskTypes, Steps, Oid
<1>2. /\ Elems(toHost) = {Head(toHost)} \cup Elems(toHost') /\ toHost' \in Seq(Answers)
      /\ chip' = chip /\ torn' = FALSE /\ losses' \in Nat /\ Head(toHost).oid = command
      /\ result # "FAIL"
  BY <1>1, HeardFacts, LineFacts DEF Heard, chipVars, SmoothInv, NoFailure
<1>3. \A x \in Elems(toHost') \cup Elems(toChip) : x.oid = command
  <2>1. InOrder(toHost, toChip, command)
    BY <1>1 DEF PipeInv, AwaitedOid
  <2> QED BY <1>2, <2>1, LineFacts, OrderTake DEF Heard
<1>4. \A x \in Elems(toHost) \cup Elems(toChip) : x.oid = command => x.id = Owner
  BY <1>1 DEF SmoothInv, OwnersPackets, InPipe
<1>5. /\ \A a \in Elems(toHost') : a.ok
      /\ chip[0] = "none" /\ \A s \in Ids : s # Owner => chip[s] = "none"
      /\ chip[Owner] = SessionAfter(command)
  BY <1>1, <1>2 DEF SmoothInv, NoFailure, OwnersSession, CarriedOut
<1>6. /\ activeSessionId_ \in Ids /\ packet.id \in Ids /\ g_pendingCfg.id \in Ids /\ 0 \in Ids
      /\ Owner \in Ids
  BY BaseInParts, Numbers DEF TaskTypes, Packets, BridgeTypes, Owner
<1>7. CASE StopReturned(TRUE)
  <2>1. /\ command = "ranging_stop" /\ Begins("deinit", activeSessionId_) /\ stopOk' = TRUE
        /\ result' = result /\ Owner = activeSessionId_
    BY <1>7 DEF StopReturned, Owner
  <2>2. chip[activeSessionId_] = Was("deinit")
    BY <1>5, <2>1 DEF Was, SessionAfter
  <2> QED BY <1>2, <1>3, <1>4, <1>5, <1>6, <2>1, <2>2, BeginsSmooth
<1>8. CASE DeinitReturned(TRUE)
  <2>1. command = "deinit" /\ Owner = activeSessionId_ /\ sessionActive_' = FALSE /\ stopOk
    BY <1>8 DEF DeinitReturned, Owner, SmoothInv, NoFailure
  <2>2. \A s \in Ids : chip[s] = "none"
    BY <1>5, <2>1 DEF SessionAfter
  <2>3. CASE restart
    <3>1. Begins("init", g_pendingCfg.id) /\ result' = result
      BY <1>8, <2>1, <2>3 DEF DeinitReturned, RunBegins
    <3>2. chip[g_pendingCfg.id] = Was("init")
      BY <1>6, <2>2 DEF Was
    <3> QED BY <1>2, <1>3, <1>5, <1>6, <2>1, <2>2, <3>1, <3>2, BeginsSmooth
  <2>4. CASE ~restart
    <3>1. Returns(TRUE) /\ activeSessionId_' = 0
      BY <1>8, <2>1, <2>4 DEF DeinitReturned, Returns
    <3> QED BY <1>2, <1>3, <1>5, <1>6, <2>1, <2>2, <3>1, ReturnsSmooth
  <2> QED BY <2>3, <2>4
<1>9. CASE InitReturned(TRUE, Head(toHost).id)
  <2>1. command = "init" /\ Owner = packet.id /\ Head(toHost).id = Owner
    BY <1>2, <1>4, <1>9 DEF InitReturned, Owner
  <2>2. Begins("config", Owner) /\ result' = result
    BY <1>9, <2>1 DEF InitReturned, GoesOn, OobInv
  <2>3. chip[Owner] = Was("config")
    BY <1>5, <2>1 DEF Was, SessionAfter
  <2> QED BY <1>2, <1>3, <1>4, <1>5, <1>6, <2>1, <2>2, <2>3, BeginsSmooth
<1>10. CASE ConfigReturned(TRUE)
  <2>1. /\ command = "config" /\ Begins("ranging_start", activeSessionId_) /\ result' = result
        /\ Owner = activeSessionId_
    BY <1>10 DEF ConfigReturned, GoesOn, Owner
  <2>2. chip[activeSessionId_] = Was("ranging_start")
    BY <1>5, <2>1 DEF Was, SessionAfter
  <2> QED BY <1>2, <1>3, <1>4, <1>5, <1>6, <2>1, <2>2, BeginsSmooth
<1>11. CASE StartReturned(TRUE)
  <2>1. /\ command = "ranging_start" /\ Returns(TRUE) /\ sessionActive_' = TRUE
        /\ Owner = activeSessionId_ /\ activeSessionId_' = activeSessionId_
    BY <1>11 DEF StartReturned, Owner
  <2>2. chip[activeSessionId_] = "active"
    BY <1>5, <2>1 DEF SessionAfter
  <2> QED BY <1>2, <1>3, <1>4, <1>5, <2>1, <2>2, ReturnsSmooth
<1>12. CASE UndoReturned
  BY <1>1, <1>12 DEF UndoReturned
<1> QED BY <1>7, <1>8, <1>9, <1>10, <1>11, <1>12 DEF CommandReturns

LEMMA ServeSmooth ==
  ASSUME BaseInv, BaseInv', PipeInv, SmoothInv, ServeStop \/ ServeStart
  PROVE  SmoothInv'
<1>1. /\ UNCHANGED <<toHost, torn, losses, chip>> /\ command = "none" /\ ~Waiting
      /\ Owner = activeSessionId_ /\ ~torn /\ result # "FAIL"
  BY BaseInParts
     DEF ServeStop, ServeStart, ManagerInv, chipVars, Waiting, Owner, SmoothInv, NoFailure
<1>2. /\ toHost' \in Seq(Answers) /\ losses' \in Nat /\ torn' = FALSE /\ activeSessionId_ \in Ids
      /\ g_pendingCfg.id \in Ids /\ 0 \in Ids
  BY <1>1, LineFacts, BaseInParts, Numbers DEF TaskTypes, BridgeTypes
<1>3. /\ \A a \in Elems(toHost') : a.ok
      /\ chip[0] = "none" /\ \A s \in Ids : s # activeSessionId_ => chip[s] = "none"
      /\ chip[activeSessionId_] = (IF sessionActive_ THEN "active" ELSE "none")
  BY <1>1 DEF SmoothInv, NoFailure, OwnersSession, CarriedOut, SessionNow
<1>4. CASE sessionActive_
  <2>1. Begins("ranging_stop", activeSessionId_) /\ result' = result
    BY <1>4 DEF ServeStop, ServeStart
  <2>2. \A x \in Elems(toHost') \cup Elems(toChip) : x.oid = "ranging_start"
    BY <1>1, <1>4 DEF PipeInv, InPipe, Before
  <2>3. \A x \in Elems(toHost') \cup Elems(toChip) : x.id = activeSessionId_
    BY <1>1, <2>2 DEF SmoothInv, OwnersPackets, InPipe
  <2>4. chip[activeSessionId_] = Was("ranging_stop")
    BY <1>3, <1>4 DEF Was
  <2> QED BY <1>1, <1>2, <1>3, <2>1, <2>2, <2>3, <2>4, BeginsSmooth
<1>5. CASE ~sessionActive_
  <2>1. \A x \in Elems(toHost') \cup Elems(toChip) : x.oid = "deinit"
    BY <1>1, <1>5 DEF SmoothInv, OwnersPackets, InPipe
  <2>2. \A s \in Ids : chip[s] = "none"
    BY <1>3, <1>5
  <2>3. CASE ServeStop
    <3>1. Returns(TRUE) /\ activeSessionId_' = activeSessionId_ /\ sessionActive_' = sessionActive_
      BY <1>5, <2>3 DEF ServeStop
    <3> QED BY <1>1, <1>2, <1>3, <1>5, <2>1, <2>2, <3>1, ReturnsSmooth
  <2>4. CASE ServeStart
    <3>1. Begins("init", g_pendingCfg.id) /\ result' = result
      BY <1>5, <2>4 DEF ServeStart, RunBegins
    <3>2. chip[g_pendingCfg.id] = Was("init")
      BY <1>2, <2>2 DEF Was
    <3> QED BY <1>1, <1>2, <1>3, <2>1, <2>2, <3>1, <3>2, BeginsSmooth
  <2> QED BY <2>3, <2>4
<1> QED BY <1>4, <1>5

\* A wait that is over is not the last one.
LEMMA TimeoutSmooth ==
  ASSUME BaseInv, PipeInv, SmoothInv, losses' <= 1, Timeout
  PROVE  SmoothInv'
<1>1. Late /\ (Again \/ attempt = Attempts(command))
  BY TimeoutCases
<1>2. /\ Waiting /\ UNCHANGED <<toHost, torn, chip>> /\ losses \in Nat /\ attempt \in Nat
      /\ command \in Steps \ {"undo"} /\ Oid(command) = command
  BY <1>1, LineFacts, BaseInParts
     DEF Late, chipVars, TaskTypes, Waiting, SmoothInv, NoFailure, Oid
<1>3. attempt <= losses' /\ losses' \in Nat
  <2>1. CASE Nothing /\ losses' = losses
    <3>1. ~OwnUnderWay
      BY <2>1, LineFacts DEF Nothing, OwnUnderWay, InPipe
    <3> QED BY <1>2, <2>1, <3>1 DEF SmoothInv, FewAttempts
  <2>2. CASE losses' = losses + 1
    BY <1>2, <2>2 DEF SmoothInv, FewAttempts
  <2> QED BY <1>1, <2>1, <2>2 DEF Late
<1>4. Attempts(command) \in {2, 3}
  BY DEF Attempts
<1>5. Again
  BY <1>1, <1>2, <1>3, <1>4
<1>6. /\ command' = command /\ attempt' = attempt + 1 /\ packet' = packet /\ Waiting' = Waiting
      /\ Owner' = Owner /\ SessionNow' = SessionNow
      /\ UNCHANGED <<result, stopOk, activeSessionId_, sessionActive_>>
      /\ toChip' = Append(toChip, packet)
  BY <1>5 DEF Again, AttemptAfter, Waiting, Owner, SessionNow
<1>7. packet.oid = command /\ packet \in Packets /\ packet.id = Owner
  BY <1>2, BaseInParts DEF ManagerInv, TaskTypes, Waiting, Owner
<1>8. Elems(toChip') = Elems(toChip) \cup {packet}
  BY <1>6, <1>7, LineFacts, ElemsAppend
<1>9. FewAttempts'
  <2>1. OwnUnderWay'
    BY <1>6, <1>7, <1>8 DEF OwnUnderWay, InPipe
  <2>2. attempt' <= losses' + 1
    <3>1. PICK n \in Nat : n = losses'
      BY <1>3
    <3>2. attempt <= n /\ attempt \in Nat
      BY <1>2, <1>3, <3>1
    <3>3. attempt + 1 <= n + 1
      BY <3>2
    <3> QED BY <1>6, <3>1, <3>3
  <2> QED BY <2>1, <2>2 DEF FewAttempts
<1>10. NoFailure'
  BY <1>2, <1>6 DEF SmoothInv, NoFailure
<1>11. OwnersPackets'
  BY <1>2, <1>6, <1>7, <1>8 DEF SmoothInv, OwnersPackets, InPipe
<1>12. OwnersSession'
  <2>1. CarriedOut' = CarriedOut
    BY <1>2, <1>6 DEF CarriedOut
  <2> QED BY <1>2, <1>6, <1>7, <1>8, <2>1 DEF SmoothInv, OwnersSession
<1> QED BY <1>9, <1>10, <1>11, <1>12 DEF SmoothInv

\* Packets leave the line, one that was waited for at the price of a loss.
LEMMA LineSmooth ==
  ASSUME BaseInv, SmoothInv, UNCHANGED <<managerVars, chip>>,
         Elems(toHost') \subseteq Elems(toHost), Elems(toChip') \subseteq Elems(toChip), ~torn',
         \/ losses' = losses /\ (Waiting /\ OwnUnderWay => OwnUnderWay')
         \/ losses' = losses + 1
  PROVE  SmoothInv'
<1>1. /\ command' = command /\ attempt' = attempt /\ Waiting' = Waiting
      /\ Owner' = Owner /\ SessionNow' = SessionNow /\ CarriedOut' = CarriedOut
      /\ UNCHANGED <<result, stopOk, sessionActive_>>
  BY DEF managerVars, Waiting, Owner, SessionNow, CarriedOut
<1>2. losses \in Nat /\ attempt \in Nat
  BY LineFacts
<1>3. FewAttempts'
  <2>1. Waiting => attempt <= (IF OwnUnderWay' THEN losses' + 1 ELSE losses')
    BY <1>2 DEF SmoothInv, FewAttempts
  <2> QED BY <1>1, <2>1 DEF FewAttempts
<1>4. NoFailure'
  BY <1>1 DEF SmoothInv, NoFailure
<1>5. OwnersPackets'
  BY <1>1 DEF SmoothInv, OwnersPackets, InPipe
<1>6. OwnersSession'
  BY <1>1 DEF SmoothInv, OwnersSession
<1> QED BY <1>3, <1>4, <1>5, <1>6 DEF SmoothInv

LEMMA PacketSmooth ==
  ASSUME BaseInv, BaseInv', PipeInv, OobInv, Cached, SmoothInv, losses' <= 1, Packet
  PROVE  SmoothInv'
<1>1. /\ toHost # << >> /\ Head(toHost) \in Answers
      /\ toHost' = Tail(toHost) /\ torn' = FALSE /\ UNCHANGED <<losses, chipVars>>
      /\ \/ Accepts(Head(toHost))
         \/ /\ torn \/ ~Waiting \/ Head(toHost).oid # Oid(command) \/ Superseded
            /\ UNCHANGED <<bridgeVars, managerVars, toChip>>
  BY PacketCases
<1>2. Elems(toHost) = {Head(toHost)} \cup Elems(toHost')
  BY <1>1, HeardFacts
<1>3. ~torn /\ Head(toHost).ok /\ command # "undo"
  BY <1>2 DEF SmoothInv, NoFailure
<1>4. CASE Accepts(Head(toHost))
  <2>1. Heard /\ CommandReturns(TRUE, Head(toHost).id)
    BY <1>1, <1>3, <1>4 DEF Heard, Accepts
  <2>2. losses' < 3
    BY <1>1, LineFacts
  <2> QED BY <2>1, <2>2, ReturnedSmooth
<1>5. CASE /\ torn \/ ~Waiting \/ Head(toHost).oid # Oid(command) \/ Superseded
           /\ UNCHANGED <<bridgeVars, managerVars, toChip>>
  <2>1. Waiting => (Head(toHost).oid # command \/ Superseded) /\ command' = command
    BY <1>3, <1>5 DEF Oid, managerVars
  <2>2. Waiting /\ OwnUnderWay => OwnUnderWay'
    <3>1. Waiting /\ Superseded => \E a \in Elems(toHost') : a.oid = command
      BY <1>1, <1>3, SupersededFacts DEF Oid
    <3> QED BY <1>2, <1>5, <2>1, <3>1 DEF OwnUnderWay, InPipe
  <2> QED BY <1>1, <1>2, <1>5, <2>2, LineSmooth DEF chipVars
<1> QED BY <1>1, <1>4, <1>5


LEMMA LosesSmooth ==
  ASSUME BaseInv, SmoothInv, faults \cap {"refusesRepeat", "framing"} = {},
         LoseCommand \/ LoseAnswer \/ Notification
  PROVE  SmoothInv'
<1>1. ~torn /\ "framing" \notin faults
  BY DEF SmoothInv, NoFailure
<1>2. CASE LoseCommand
  <2>1. /\ toChip # << >> /\ toChip' = Tail(toChip) /\ losses' = losses + 1
        /\ UNCHANGED <<managerVars, chip, toHost, torn>>
    BY <1>2 DEF LoseCommand, chipVars
  <2>2. Elems(toChip') \subseteq Elems(toChip)
    BY <2>1, ChipTakes
  <2> QED BY <1>1, <2>1, <2>2, LineSmooth
<1>3. CASE LoseAnswer
  <2>1. /\ toHost # << >> /\ toHost' = Tail(toHost) /\ losses' = losses + 1
        /\ UNCHANGED <<managerVars, chip, toChip>> /\ ~torn'
    BY <1>1, <1>3 DEF LoseAnswer, chipVars
  <2>2. Elems(toHost') \subseteq Elems(toHost)
    BY <2>1, HeardFacts
  <2> QED BY <2>1, <2>2, LineSmooth
<1>4. CASE Notification
  BY <1>1, <1>4 DEF Notification
<1> QED BY <1>2, <1>3, <1>4

LEMMA ChipActsSmooth ==
  ASSUME BaseInv, BaseInv', PipeInv, Cached, SmoothInv,
         faults \cap {"refusesRepeat", "framing"} = {}, ChipActs
  PROVE  SmoothInv'
<1> DEFINE p == Head(toChip)
<1>1. /\ toChip # << >> /\ toChip' = Tail(toChip) /\ toHost' = Append(toHost, Answer)
      /\ chip' = (IF Obeys(p) THEN [chip EXCEPT ![p.id] = SessionAfter(p.oid)] ELSE chip)
      /\ UNCHANGED <<bridgeVars, managerVars, torn, losses>>
  BY DEF ChipActs, Answer
<1>2. /\ command' = command /\ attempt' = attempt /\ packet' = packet /\ Waiting' = Waiting
      /\ Owner' = Owner /\ SessionNow' = SessionNow
      /\ UNCHANGED <<result, stopOk, activeSessionId_, sessionActive_>>
  BY <1>1 DEF managerVars, Waiting, Owner, SessionNow
<1>3. /\ toHost \in Seq(Answers) /\ toChip \in Seq(Packets) /\ Answer \in Answers
      /\ Elems(toHost') = Elems(toHost) \cup {Answer} /\ Elems(toChip) = {p} \cup Elems(toChip')
      /\ Answer.oid = p.oid /\ Answer.ok = Obeys(p) /\ Answer.id = p.id
      /\ p.id \in Ids /\ Obeys(p) \in BOOLEAN /\ p.oid \in Steps \ {"undo"}
  BY <1>1, LineFacts, ChipTakes, ElemsAppend
<1>4. /\ chip \in [Ids -> {"none", "init", "idle", "active"}] /\ Owner \in Ids
      /\ command \in Steps \cup {"none"} /\ command # "undo" /\ "refusesRepeat" \notin faults
      /\ sessionActive_ \in BOOLEAN
  BY BaseInParts DEF LineTypes, TaskTypes, Packets, Owner, SmoothInv, NoFailure
<1>5. /\ chip[0] = "none" /\ \A s \in Ids : s # Owner => chip[s] = "none"
      /\ \/ chip[Owner] = SessionNow
         \/ CarriedOut /\ \A q \in Elems(toChip) : q.oid = command
      /\ Waiting /\ (\E a \in Elems(toHost) : a.oid = command) => CarriedOut
  BY DEF SmoothInv, OwnersSession
<1>6. /\ p.id = Owner \/ (p.oid = "deinit" /\ command \in {"init", "none"})
      /\ ~Waiting /\ ~sessionActive_ => p.oid = "deinit"
      /\ p.oid \in Before(command, sessionActive_) \/ (Waiting /\ p.oid = Oid(command))
      /\ Oid(command) = command
  BY <1>3, <1>4 DEF SmoothInv, OwnersPackets, PipeInv, InPipe, Oid
<1> HIDE DEF p
\* A packet for the command waited for finds its session as it was, or carried out.
<1>7. ASSUME Waiting, p.oid = command PROVE Obeys(p) /\ OwnersSession'
  <2>1. p.id = Owner /\ (command = "init" => p.id # 0)
    BY <1>6, <1>7 DEF Waiting, Cached, Owner
  <2>2. chip[p.id] \in {Was(command), SessionAfter(command)}
    BY <1>5, <1>7, <2>1 DEF SessionNow, CarriedOut
  <2>3. Obeys(p) /\ (p.id = 0 => SessionAfter(command) = "none")
    <3>1. CASE command = "init"
      BY <1>4, <1>7, <2>1, <2>2, <3>1 DEF Obeys, Was, SessionAfter
    <3>2. CASE command = "config"
      BY <1>4, <1>5, <1>7, <2>2, <3>2 DEF Obeys, Was, SessionAfter
    <3>3. CASE command = "ranging_start"
      BY <1>4, <1>5, <1>7, <2>2, <3>3 DEF Obeys, Was, SessionAfter
    <3>4. CASE command = "ranging_stop"
      BY <1>4, <1>5, <1>7, <2>2, <3>4 DEF Obeys, Was, SessionAfter
    <3>5. CASE command = "deinit"
      BY <1>4, <1>7, <3>5 DEF Obeys, SessionAfter
    <3> QED BY <1>4, <1>7, <3>1, <3>2, <3>3, <3>4, <3>5 DEF Steps, Waiting
  <2>4. /\ chip'[Owner] = SessionAfter(command) /\ chip'[0] = "none"
        /\ \A s \in Ids : s # Owner => chip'[s] = "none"
    BY <1>1, <1>4, <1>5, <1>7, <2>1, <2>3, Numbers
  <2>5. \A q \in Elems(toChip') : q.oid = command
    <3>1. Tails(toChip, command)
      BY <1>6, <1>7 DEF PipeInv, InOrder, AwaitedOid
    <3> QED BY <1>1, <1>3, <1>7, <3>1, TailsTail DEF p
  <2>6. CarriedOut'
    BY <1>2, <1>7, <2>4 DEF CarriedOut
  <2>7. OwnersSession'
    BY <1>2, <2>4, <2>5, <2>6 DEF OwnersSession
  <2> QED BY <2>3, <2>7
\* One that was left finds it as it would leave it.
<1>8. ASSUME ~(Waiting /\ p.oid = command) PROVE Obeys(p) /\ OwnersSession'
  <2>1. chip[Owner] = SessionNow /\ p.oid \in Before(command, sessionActive_)
    BY <1>3, <1>5, <1>6, <1>8 DEF CarriedOut
  <2>2. Obeys(p) /\ chip[p.id] = SessionAfter(p.oid)
    <3>1. CASE p.oid = "deinit"
      <4>1. command = "init" \/ (command = "none" /\ ~sessionActive_)
        BY <1>4, <2>1, <3>1 DEF Before, Steps
      <4>2. chip[p.id] = "none"
        BY <1>3, <1>5, <2>1, <4>1 DEF SessionNow, Waiting, Was
      <4> QED BY <1>4, <3>1, <4>2 DEF Obeys, SessionAfter
    <3>2. CASE p.oid # "deinit"
      <4>1. p.id = Owner
        BY <1>6, <3>2
      <4>2. CASE command = "config"
        <5>1. p.oid = "init" /\ chip[p.id] = "init"
          BY <2>1, <4>1, <4>2 DEF Before, SessionNow, Waiting, Was
        <5> QED BY <1>4, <1>5, <5>1 DEF Obeys, SessionAfter
      <4>3. CASE command = "ranging_start"
        <5>1. p.oid = "config" /\ chip[p.id] = "idle"
          BY <2>1, <4>1, <4>3 DEF Before, SessionNow, Waiting, Was
        <5> QED BY <5>1 DEF Obeys, SessionAfter
      <4>4. CASE command = "ranging_stop" \/ (command = "none" /\ sessionActive_)
        <5>1. p.oid = "ranging_start" /\ chip[p.id] = "active"
          BY <2>1, <4>1, <4>4 DEF Before, SessionNow, Waiting, Was
        <5> QED BY <1>4, <5>1 DEF Obeys, SessionAfter
      <4>5. CASE command = "deinit"
        <5>1. p.oid = "ranging_stop" /\ chip[p.id] = "idle"
          BY <2>1, <4>1, <4>5 DEF Before, SessionNow, Waiting, Was
        <5> QED BY <1>4, <5>1 DEF Obeys, SessionAfter
      <4>6. command # "init" /\ ~(command = "none" /\ ~sessionActive_)
        BY <1>6, <2>1, <3>2 DEF Before, Waiting
      <4> QED BY <1>4, <4>2, <4>3, <4>4, <4>5, <4>6 DEF Steps
    <3> QED BY <3>1, <3>2
  <2>3. chip' = chip
    BY <1>1, <1>4, <2>2
  <2>4. /\ CarriedOut' = CarriedOut /\ ~(Waiting /\ Answer.oid = command)
        /\ Elems(toChip') \subseteq Elems(toChip)
    BY <1>2, <1>3, <1>8, <2>3 DEF CarriedOut
  <2>5. OwnersSession'
    BY <1>2, <1>3, <1>5, <2>1, <2>3, <2>4 DEF OwnersSession
  <2> QED BY <2>2, <2>5
<1>9. Obeys(p) /\ OwnersSession'
  BY <1>7, <1>8
<1>10. FewAttempts'
  <2>1. OwnUnderWay' = OwnUnderWay
    BY <1>2, <1>3 DEF OwnUnderWay, InPipe
  <2> QED BY <1>1, <1>2, <2>1 DEF SmoothInv, FewAttempts
<1>11. OwnersPackets'
  BY <1>2, <1>3 DEF SmoothInv, OwnersPackets, InPipe
<1>12. NoFailure'
  BY <1>1, <1>2, <1>3, <1>9 DEF SmoothInv, NoFailure
<1> QED BY <1>9, <1>10, <1>11, <1>12 DEF SmoothInv

LEMMA CachedKept ==
  ASSUME BaseInv, BaseInv', Cached, [UwbNext]_uwbVars
  PROVE  Cached'
<1>1. BridgeTypes /\ TaskTypes /\ LineTypes /\ ManagerInv
  BY BaseInParts
<1>2. CASE (\E k \in Oobs : OobParsed(k)) \/ OobWritesId \/ OobCached \/ RequestStart \/ RequestStop
  <2>1. UNCHANGED <<restart, command, packet>>
    BY <1>2, BridgeBase DEF managerVars
  <2>2. CASE \E k \in Oobs : OobParsed(k)
    BY <1>1, <2>1, <2>2, OobsAssumption DEF OobParsed, Cached, NotWriting
  <2>3. CASE OobWritesId
    BY <1>1, <2>1, <2>3 DEF OobWritesId, Cached, NotWriting, BridgeTypes
  <2>4. CASE OobCached
    BY <1>1, <2>1, <2>4 DEF OobCached, Cached, NotWriting, BridgeTypes
  <2>5. CASE RequestStart \/ RequestStop
    BY <1>1, <2>1, <2>5 DEF RequestStart, RequestStop, Cached
  <2> QED BY <1>2, <2>2, <2>3, <2>4, <2>5
<1>3. ASSUME UNCHANGED <<g_hasCachedConfig, g_pendingCfg, writing>>, g_pendingStart' => g_pendingStart,
             restart' => restart \/ g_pendingStart,
             command' = "init" => packet'.id # 0
      PROVE  Cached'
  BY <1>3 DEF Cached
<1>4. CASE UNCHANGED <<bridgeVars, managerVars>>
  BY <1>3, <1>4 DEF bridgeVars, managerVars, Cached
<1>5. ASSUME NEW i \in Ids, Begins("init", i), i # 0 PROVE packet'.id # 0
  BY <1>5 DEF Begins
<1>6. CASE ServeStop
  <2>1. command' # "init" /\ ~restart'
    BY <1>6 DEF ServeStop, Returns, Begins
  <2> QED BY <1>3, <1>6, <2>1 DEF ServeStop
<1>7. CASE ServeStart
  <2>1. g_pendingStart /\ g_pendingCfg.id # 0
    BY <1>7 DEF ServeStart, Cached
  <2>2. command' = "init" => packet'.id # 0
    BY <1>7, <2>1 DEF ServeStart, RunBegins, Begins
  <2> QED BY <1>3, <1>7, <2>1, <2>2 DEF ServeStart
<1>8. ASSUME Again, UNCHANGED bridgeVars PROVE Cached'
  BY <1>3, <1>8 DEF Again, bridgeVars, Cached
<1>9. ASSUME NEW ok, NEW id, CommandReturns(ok, id) PROVE Cached'
  <2>1. UNCHANGED <<g_hasCachedConfig, g_pendingCfg, g_pendingStart, writing>>
    BY <1>9 DEF CommandReturns, bridgeVars
  <2>2. restart' => restart
    BY <1>9 DEF CommandReturns, StopReturned, DeinitReturned, InitReturned, ConfigReturned,
                StartReturned, UndoStart, UndoReturned, Returns, GoesOn
  <2>3. command' = "init" => packet'.id # 0
    BY <1>9 DEF CommandReturns, StopReturned, DeinitReturned, RunBegins, InitReturned,
                ConfigReturned, StartReturned, UndoStart, UndoReturned, Returns, Begins, Cached
  <2> QED BY <1>3, <2>1, <2>2, <2>3
<1>10. CASE Packet
  BY <1>4, <1>8, <1>9, <1>10, PacketCases DEF Accepts, Again
<1>11. CASE Timeout
  BY <1>8, <1>9, <1>11, TimeoutCases DEF Again
<1>12. CASE ChipActs \/ LoseCommand \/ LoseAnswer \/ Notification
  BY <1>4, <1>12 DEF ChipActs, LoseCommand, LoseAnswer, Notification
<1>13. CASE UNCHANGED uwbVars
  BY <1>4, <1>13 DEF uwbVars
<1> QED BY <1>2, <1>6, <1>7, <1>10, <1>11, <1>12, <1>13 DEF UwbNext, UwbTask

LossInv == SessionInv /\ Cached /\ (Smooth => SmoothInv)

LEMMA LossInitially == ASSUME UwbInit PROVE LossInv
<1>1. Elems(toHost) = {} /\ Elems(toChip) = {}
  BY EmptySeq DEF UwbInit, Elems
<1>2. Cached
  BY DEF UwbInit, Cached, NotWriting
<1>3. SmoothInv
  BY <1>1, Numbers DEF UwbInit, SmoothInv, FewAttempts, NoFailure, OwnersPackets, OwnersSession,
                       InPipe, Waiting, Owner, SessionNow
<1> QED BY <1>2, <1>3, SessionInitially DEF LossInv

LEMMA LossKept == LossInv /\ [UwbNext]_uwbVars => LossInv'
<1> SUFFICES ASSUME LossInv, [UwbNext]_uwbVars PROVE LossInv'
  OBVIOUS
<1>1. SessionInv' /\ BaseInv /\ BaseInv' /\ Cached'
  BY SessionKept, CachedKept DEF LossInv, SessionInv, HostInv
<1> SUFFICES ASSUME Smooth' PROVE SmoothInv'
  BY <1>1 DEF LossInv
<1>2. /\ faults' = faults /\ faults \cap {"refusesRepeat", "framing"} = {} /\ losses' <= 1
      /\ "oobOverStart" \notin faults
      /\ losses \in Nat /\ losses' \in {losses, losses + 1}
  BY <1>1, FewLosses, LossSteps DEF Smooth
<1>3. PipeInv /\ OobInv /\ Cached /\ SmoothInv
  <2>1. losses <= 1
    BY <1>2
  <2>2. losses < 3 /\ losses < Few
    BY <1>2, <2>1 DEF Few
  <2> QED BY <1>2, <2>1, <2>2 DEF LossInv, SessionInv, HostInv, Smooth
<1>4. CASE \/ (\E k \in Oobs : OobParsed(k)) \/ OobWritesId \/ OobCached \/ RequestStart \/ RequestStop
           \/ UNCHANGED uwbVars
  <2>1. UNCHANGED <<managerVars, chip, toHost, toChip, torn, losses>>
    BY <1>1, <1>4, BridgeBase DEF uwbVars, lineVars, chipVars
  <2>2. OwnUnderWay' = OwnUnderWay
    BY <2>1 DEF OwnUnderWay, InPipe, managerVars
  <2> QED BY <1>1, <1>3, <2>1, <2>2, LineSmooth DEF SmoothInv, NoFailure
<1> QED BY <1>1, <1>2, <1>3, <1>4, ServeSmooth, PacketSmooth, TimeoutSmooth, ChipActsSmooth,
           LosesSmooth DEF UwbNext, UwbTask

\* A request fails only after a second lost, damaged or late packet, on a chip that accepts a
\* repeated command, when the damaged packet takes no other one with it and no OOB write
\* overlaps the taking up of a start.
THEOREM OneLossIsTolerated == UwbSpec => []OneLossTolerated
<1>1. UwbInit => LossInv
  BY LossInitially
<1>2. LossInv => OneLossTolerated
  <2> SUFFICES ASSUME LossInv, result = "FAIL", ~(losses > 1),
                      faults \cap {"refusesRepeat", "framing", "oobOverStart"} = {}
               PROVE  FALSE
    BY DEF OneLossTolerated
  <2>1. losses \in Nat
    BY LineFacts DEF LossInv, SessionInv, HostInv
  <2>2. Smooth
    BY <2>1 DEF Smooth
  <2> QED BY <2>2 DEF LossInv, SmoothInv, NoFailure
<1> QED BY <1>1, <1>2, LossKept, PTL DEF UwbSpec

=============================================================================
