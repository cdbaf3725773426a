------------------------------ MODULE UwbHost ------------------------------
(***************************************************************************)
(* What the vehicle and its UWB chip make of a request over BLE: the       *)
(* configuration the OOB characteristic leaves (uci_oob.cpp,               *)
(* uci_host_bridge.cpp), the commands of a start and of a stop             *)
(* (uci_session_manager.cpp), each sent again when it is refused or not    *)
(* answered, and the serial line to the chip (uci_uart_link.cpp).  Ranging *)
(* takes a command for one step and looks at the readings; here the        *)
(* commands are taken apart and the readings left out.                     *)
(*                                                                         *)
(* An answer names the command it answers (gid and oid) but not the        *)
(* attempt, so a late one is taken for the answer of the next attempt.     *)
(***************************************************************************)
EXTENDS Naturals, Sequences

CONSTANTS
  Oobs,        (* OOB payloads; k stands for a session id, and for the MAC   *)
               (* addresses and parameters that belong to it                 *)
  MaxStarts,   (* bound: starts per behaviour                                *)
  MaxLosses,   (* bound: packets lost, damaged or late per behaviour         *)
  FaultSets    (* what may go wrong, one set of these per behaviour:         *)
               (* "oobOverStart": a start is taken up while the OOB callback *)
               (* writes the configuration; "refusesRepeat": the chip        *)
               (* refuses a command it has carried out already; "framing":   *)
               (* a damaged packet takes the next one with it; "handles":    *)
               (* the chip returns the session's handle (FiRa 2.0)           *)

ASSUME OobsAssumption == Oobs \subseteq Nat \ {0} /\ Oobs # {}
ASSUME BoundsAssumption == {MaxStarts, MaxLosses} \subseteq Nat
ASSUME FaultSetsAssumption ==
  FaultSets \subseteq SUBSET {"oobOverStart", "refusesRepeat", "framing", "handles"}

VARIABLES
  faults,            (* those of this behaviour                              *)
  g_hasCachedConfig, g_pendingCfg, g_pendingStart, g_pendingStop, g_busy,
  writing,           (* the OOB callback, in the middle of submitBleOob      *)
  starts,            (* starts requested                                     *)
  command,           (* what uwbTask waits for an answer to                  *)
  attempt, packet,   (* its attempt, and the command packet it sends         *)
  restart, stopOk,   (* runOnce goes on after the stop; the stop succeeded   *)
  activeSessionId_, sessionActive_,
  result,            (* of the last request that was served                  *)
  toChip, toHost,    (* packets on the line                                  *)
  torn,              (* a damaged packet's beginning is left in rxBuffer_    *)
  losses,
  chip, chipCfg      (* the chip's sessions, and what each is configured for *)

bridgeVars == <<faults, g_hasCachedConfig, g_pendingCfg, g_pendingStart, g_pendingStop,
                writing, starts>>
managerVars == <<g_busy, command, attempt, packet, restart, stopOk, activeSessionId_,
                 sessionActive_, result>>
lineVars == <<toChip, toHost, torn, losses>>
chipVars == <<chip, chipCfg>>
uwbVars == <<bridgeVars, managerVars, lineVars, chipVars>>

Steps == {"ranging_stop", "deinit", "init", "config", "ranging_start", "undo"}
Ids == Oobs \cup {0}
Packets == [oid : Steps \cup {"none"}, id : Ids, cfg : Ids]
Answers == [oid : Steps, ok : BOOLEAN, id : Ids]

UwbTypeOK ==
  /\ faults \in FaultSets
  /\ {g_hasCachedConfig, g_pendingStart, g_pendingStop, g_busy} \subseteq BOOLEAN
  /\ g_pendingCfg \in [id : Ids, cfg : Ids]
  /\ writing \in [oob : Ids, idWritten : BOOLEAN]
  /\ starts \in 0 .. MaxStarts
  /\ command \in Steps \cup {"none"} /\ attempt \in 0 .. 3 /\ packet \in Packets
  /\ {restart, stopOk, sessionActive_, torn} \subseteq BOOLEAN
  /\ activeSessionId_ \in Ids
  /\ result \in {"none", "SUCCESS", "FAIL"}
  /\ toChip \in Seq(Packets) /\ toHost \in Seq(Answers) /\ losses \in 0 .. MaxLosses
  /\ chip \in [Ids -> {"none", "init", "idle", "active"}] /\ chipCfg \in [Ids -> Ids]

NotWriting == [oob |-> 0, idWritten |-> FALSE]

UwbInit ==
  /\ faults \in FaultSets
  /\ g_hasCachedConfig = FALSE /\ g_pendingStart = FALSE /\ g_pendingStop = FALSE
  /\ g_busy = FALSE /\ g_pendingCfg = [id |-> 0, cfg |-> 0]
  /\ writing = NotWriting /\ starts = 0
  /\ command = "none" /\ attempt = 0 /\ packet = [oid |-> "none", id |-> 0, cfg |-> 0]
  /\ restart = FALSE /\ stopOk = FALSE
  /\ activeSessionId_ = 0 /\ sessionActive_ = FALSE /\ result = "none"
  /\ toChip = << >> /\ toHost = << >> /\ torn = FALSE /\ losses = 0
  /\ chip = [s \in Ids |-> "none"] /\ chipCfg = [s \in Ids |-> 0]

-----------------------------------------------------------------------------
(* The BLE host task: submitBleOob in three steps, requestStart and          *)
(* requestStop.                                                              *)

\* A mistake: the configuration may be replaced at any time.
CacheAnytime == TRUE

MayCache == ~g_busy

OobParsed(k) ==
  /\ writing = NotWriting /\ MayCache
  /\ writing' = [oob |-> k, idWritten |-> FALSE]
  /\ UNCHANGED <<faults, g_hasCachedConfig, g_pendingCfg, g_pendingStart, g_pendingStop,
                 starts, managerVars, lineVars, chipVars>>

\* mapOobToRunConfig, field by field into the shared configuration.
OobWritesId ==
  /\ writing # NotWriting /\ ~writing.idWritten
  /\ g_pendingCfg' = [g_pendingCfg EXCEPT !.id = writing.oob]
  /\ writing' = [writing EXCEPT !.idWritten = TRUE]
  /\ UNCHANGED <<faults, g_hasCachedConfig, g_pendingStart, g_pendingStop, starts,
                 managerVars, lineVars, chipVars>>

OobCached ==
  /\ writing.idWritten
  /\ g_pendingCfg' = [g_pendingCfg EXCEPT !.cfg = writing.oob]
  /\ g_hasCachedConfig' = TRUE /\ g_pendingStart' = FALSE
  /\ writing' = NotWriting
  /\ UNCHANGED <<faults, g_pendingStop, starts, managerVars, lineVars, chipVars>>

RequestStart ==
  /\ writing = NotWriting
  /\ ~g_busy /\ g_hasCachedConfig /\ ~g_pendingStart
  /\ starts < MaxStarts /\ starts' = starts + 1
  /\ g_pendingStart' = TRUE
  /\ UNCHANGED <<faults, g_hasCachedConfig, g_pendingCfg, g_pendingStop, writing,
                 managerVars, lineVars, chipVars>>

RequestStop ==
  /\ writing = NotWriting
  /\ ~g_busy /\ sessionActive_ /\ ~g_pendingStop
  /\ g_pendingStop' = TRUE
  /\ UNCHANGED <<faults, g_hasCachedConfig, g_pendingCfg, g_pendingStart, writing, starts,
                 managerVars, lineVars, chipVars>>

-----------------------------------------------------------------------------
(* sendCommandWithRetry                                                      *)

\* A mistake: the number of retries is taken for the number of attempts.
RetriesOnly(c) == IF c \in {"ranging_stop", "deinit", "undo"} THEN 1 ELSE 2

Attempts(c) == IF c \in {"ranging_stop", "deinit", "undo"} THEN 2 ELSE 3

Oid(c) == IF c = "undo" THEN "deinit" ELSE c

\* The payload is put together when the command begins, and sent again as it is; the
\* configuration is read from the shared record.
Begins(c, id) ==
  /\ command' = c /\ attempt' = 1
  /\ packet' = [oid |-> Oid(c), id |-> id,
                cfg |-> IF c = "config" THEN g_pendingCfg.cfg ELSE 0]
  /\ toChip' = Append(toChip, packet')

\* A mistake: attempts are not counted.
NotCounted == attempt

AttemptAfter == attempt + 1

Again ==
  /\ attempt < Attempts(command)
  /\ attempt' = AttemptAfter
  /\ toChip' = Append(toChip, packet)
  /\ UNCHANGED <<bridgeVars, g_busy, command, packet, restart, stopOk, activeSessionId_,
                 sessionActive_, result>>

Returns(ok) ==
  /\ g_busy' = FALSE /\ result' = IF ok THEN "SUCCESS" ELSE "FAIL"
  /\ command' = "none" /\ attempt' = 0 /\ packet' = [oid |-> "none", id |-> 0, cfg |-> 0]
  /\ restart' = FALSE /\ stopOk' = FALSE
  /\ UNCHANGED toChip

GoesOn == UNCHANGED <<g_busy, restart, stopOk, sessionActive_, result>>

RunBegins ==
  /\ activeSessionId_' = 0
  /\ Begins("init", g_pendingCfg.id)

-----------------------------------------------------------------------------
(* What stopActiveSession and runOnce do when a command has returned.        *)

StopReturned(ok) ==
  /\ command = "ranging_stop"
  /\ Begins("deinit", activeSessionId_)
  /\ stopOk' = ok
  /\ UNCHANGED <<g_busy, restart, activeSessionId_, sessionActive_, result>>

DeinitReturned(ok) ==
  /\ command = "deinit"
  /\ sessionActive_' = FALSE
  /\ IF restart /\ stopOk /\ ok
     THEN RunBegins /\ restart' = FALSE /\ UNCHANGED <<g_busy, stopOk, result>>
     ELSE activeSessionId_' = 0 /\ Returns(stopOk /\ ok)

\* Without a handle in the answer the id is read once more from the shared record.
InitReturned(ok, id) ==
  /\ command = "init"
  /\ IF ok
     THEN /\ activeSessionId_' = IF "handles" \in faults THEN id ELSE g_pendingCfg.id
          /\ Begins("config", activeSessionId_')
          /\ GoesOn
     ELSE Returns(FALSE) /\ UNCHANGED <<activeSessionId_, sessionActive_>>

ConfigReturned(ok) ==
  /\ command = "config"
  /\ Begins(IF ok THEN "ranging_start" ELSE "undo", activeSessionId_)
  /\ GoesOn /\ UNCHANGED activeSessionId_

\* A mistake: a start that failed is not undone.
NoUndo == Returns(FALSE) /\ UNCHANGED sessionActive_

UndoStart == Begins("undo", activeSessionId_) /\ GoesOn

StartReturned(ok) ==
  /\ command = "ranging_start"
  /\ IF ok THEN sessionActive_' = TRUE /\ Returns(TRUE) ELSE UndoStart
  /\ UNCHANGED activeSessionId_

UndoReturned ==
  /\ command = "undo"
  /\ Returns(FALSE)
  /\ UNCHANGED <<activeSessionId_, sessionActive_>>

CommandReturns(ok, id) ==
  /\ \/ StopReturned(ok) \/ DeinitReturned(ok) \/ InitReturned(ok, id)
     \/ ConfigReturned(ok) \/ StartReturned(ok) \/ UndoReturned
  /\ UNCHANGED bridgeVars

GivesUp(id) == attempt = Attempts(command) /\ CommandReturns(FALSE, id)

-----------------------------------------------------------------------------
(* uwbTask                                                                   *)

NoRace == writing = NotWriting \/ "oobOverStart" \in faults

ServeStop ==
  /\ ~g_busy /\ g_pendingStop
  /\ g_pendingStop' = FALSE
  /\ IF sessionActive_
     THEN /\ g_busy' = TRUE
          /\ restart' = FALSE /\ stopOk' = FALSE
          /\ Begins("ranging_stop", activeSessionId_)
          /\ UNCHANGED <<activeSessionId_, sessionActive_, result>>
     ELSE Returns(TRUE) /\ UNCHANGED <<activeSessionId_, sessionActive_>>
  /\ UNCHANGED <<faults, g_hasCachedConfig, g_pendingCfg, g_pendingStart, writing, starts,
                 toHost, torn, losses, chipVars>>

ServeStart ==
  /\ ~g_busy /\ ~g_pendingStop /\ g_pendingStart
  /\ NoRace
  /\ g_pendingStart' = FALSE /\ g_busy' = TRUE
  /\ IF sessionActive_
     THEN restart' = TRUE /\ Begins("ranging_stop", activeSessionId_)
          /\ UNCHANGED activeSessionId_
     ELSE restart' = FALSE /\ RunBegins
  /\ stopOk' = FALSE
  /\ UNCHANGED <<faults, g_hasCachedConfig, g_pendingCfg, g_pendingStop, writing, starts,
                 sessionActive_, result, toHost, torn, losses, chipVars>>

Expected(a) == command # "none" /\ a.oid = Oid(command)

\* The same poll has read another answer to the command, which takes its place.
Superseded == \E i \in 2 .. Len(toHost) : Expected(toHost[i])

\* poll, and onPacket of a response.  rxBuffer_ is never emptied, so what a damaged
\* packet left of itself is completed by the next one.
Packet ==
  /\ toHost # << >>
  /\ toHost' = Tail(toHost)
  /\ torn' = FALSE
  /\ LET a == Head(toHost)
     IN \/ /\ ~torn /\ Expected(a)
           /\ CASE a.ok                               -> CommandReturns(TRUE, a.id)
                [] ~a.ok /\ attempt < Attempts(command) -> Again
                [] OTHER                              -> GivesUp(a.id)
        \/ /\ torn \/ ~Expected(a) \/ Superseded
           /\ UNCHANGED <<bridgeVars, managerVars, toChip>>
  /\ UNCHANGED <<losses, chipVars>>

\* The wait is over.  If the answer, or the command, is still on its way, it is late.
Timeout ==
  /\ command # "none"
  /\ \/ toChip = << >> /\ toHost = << >> /\ UNCHANGED losses
     \/ toChip \o toHost # << >> /\ losses < MaxLosses /\ losses' = losses + 1
  /\ Again \/ GivesUp(0)
  /\ UNCHANGED <<toHost, torn, chipVars>>

-----------------------------------------------------------------------------
(* The chip and the line.                                                    *)

\* Does the chip carry the command out, and what does that do to its session?
Obeys(p) ==
  LET s == chip[p.id]
      repeated == "refusesRepeat" \notin faults
  IN CASE p.oid = "init"          -> p.id # 0 /\ (s = "none" \/ (repeated /\ s = "init"))
       [] p.oid = "config"        -> s \in {"init", "idle"}
       [] p.oid = "ranging_start" -> s = "idle" \/ (repeated /\ s = "active")
       [] p.oid = "ranging_stop"  -> s = "active" \/ (repeated /\ s = "idle")
       [] p.oid = "deinit"        -> s # "none" \/ repeated

SessionAfter(oid) ==
  CASE oid = "init" -> "init" [] oid = "ranging_start" -> "active"
    [] oid = "deinit" -> "none" [] OTHER -> "idle"

ChipActs ==
  /\ toChip # << >>
  /\ toChip' = Tail(toChip)
  /\ LET p == Head(toChip)
     IN /\ toHost' = Append(toHost, [oid |-> p.oid, ok |-> Obeys(p), id |-> p.id])
        /\ chip' = IF Obeys(p) THEN [chip EXCEPT ![p.id] = SessionAfter(p.oid)] ELSE chip
        /\ chipCfg' = IF Obeys(p) /\ p.oid = "config"
                      THEN [chipCfg EXCEPT ![p.id] = p.cfg] ELSE chipCfg
  /\ UNCHANGED <<bridgeVars, managerVars, torn, losses>>

LoseCommand ==
  /\ toChip # << >> /\ losses < MaxLosses
  /\ toChip' = Tail(toChip) /\ losses' = losses + 1
  /\ UNCHANGED <<bridgeVars, managerVars, toHost, torn, chipVars>>

LoseAnswer ==
  /\ toHost # << >> /\ losses < MaxLosses
  /\ toHost' = Tail(toHost) /\ losses' = losses + 1
  /\ torn' \in {torn, TRUE} /\ (torn' => torn \/ "framing" \in faults)
  /\ UNCHANGED <<bridgeVars, managerVars, toChip, chipVars>>

\* A ranging notification comes in and is what the damaged packet takes with it.
Notification ==
  /\ torn /\ \E s \in Oobs : chip[s] = "active"
  /\ torn' = FALSE
  /\ UNCHANGED <<bridgeVars, managerVars, toChip, toHost, losses, chipVars>>

UwbTask == ServeStop \/ ServeStart \/ Packet \/ Timeout

UwbNext ==
  \/ (\E k \in Oobs : OobParsed(k)) \/ OobWritesId \/ OobCached
  \/ RequestStart \/ RequestStop
  \/ UwbTask
  \/ ChipActs \/ LoseCommand \/ LoseAnswer \/ Notification

UwbSpec == UwbInit /\ [][UwbNext]_uwbVars

(* uwbTask runs whenever it is ready; the chip takes up what reaches it.       *)
UwbFairSpec == UwbSpec /\ WF_uwbVars(UwbTask) /\ WF_uwbVars(ChipActs)

-----------------------------------------------------------------------------
RangedByChip == {s \in Ids : chip[s] = "active"}

(* Between two requests the chip ranges exactly the session the manager      *)
(* takes for active: a start that failed after the chip had carried it out   *)
(* is undone, a stop whose answers were lost has stopped it.  (A third lost  *)
(* packet may leave the chip ranging a start that failed.)                   *)
HostKnowsChip ==
  ~g_busy /\ losses < 3
    => RangedByChip = IF sessionActive_ THEN {activeSessionId_} ELSE {}

(* The session the chip ranges has the id and the parameters of one OOB      *)
(* payload, whatever OOB writes, restarts and late answers come in between,  *)
(* when no OOB write overlaps the taking up of a start.  (Three lost or late *)
(* answers to one INIT, of a chip that returns handles, can give its session *)
(* to the next start; two where a damaged answer takes the next one along.)  *)
SessionOfOneOob ==
  "oobOverStart" \notin faults
    /\ ("handles" \notin faults \/ losses < IF "framing" \in faults THEN 2 ELSE 3)
    => \A s \in RangedByChip : chipCfg[s] = s

(* The retries are enough for one lost, damaged or late packet: a request    *)
(* fails only after a second one, on a chip that accepts a repeated command  *)
(* and when the damaged packet does not take another one with it.            *)
OneLossTolerated ==
  result = "FAIL" =>
    losses > 1 \/ faults \cap {"refusesRepeat", "framing", "oobOverStart"} # {}

(* uwbTask comes back from every request, so that the host bridge does not   *)
(* answer uci_busy for ever.                                                 *)
BusyEnds == g_busy ~> ~g_busy
=============================================================================
