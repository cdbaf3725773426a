------------------------------ MODULE Pn532Link ------------------------------
(***************************************************************************)
(* The serial link between nfcTask and the PN532: PN532_HSU.cpp and the    *)
(* commands of PN532.cpp that nfc_session.cpp uses.  A command is written, *)
(* the chip acknowledges the frame, and its response follows, each within  *)
(* a time limit.  Nothing in a frame says which command it belongs to: an  *)
(* acknowledgement is the same six bytes every time, a response has the    *)
(* code of its command.  A session repeats what was not answered, so the   *)
(* question is when a late frame can be taken for the answer of a repeat   *)
(* (the fault "stale" of NfcProvisioning).                                 *)
(***************************************************************************)
EXTENDS Integers, Sequences

CONSTANTS
  SamTries,     (* tries of SAMConfig in a row: 5 at start-up, 3 later       *)
  MaxCommands,  (* bound: commands per behaviour                             *)
  MaxLineLosses (* bound: frames lost or damaged on the line                 *)

ASSUME SamTriesAssumption == SamTries \in Nat \ {0}
ASSUME MaxCommandsAssumption == MaxCommands \in Nat
ASSUME MaxLossesAssumption == MaxLineLosses \in Nat

VARIABLES
  host,     (* nfcTask: "free", or waiting for "ack" or "response"           *)
  caller,   (* nfcTask asks for the "version", configures the "sam", or is   *)
            (* in its "poll" and the sessions                                *)
  tries,    (* tries of SAMConfig left                                       *)
  samConfigured,
  command,  (* code of the last command written                              *)
  sent,     (* number of the last command written                            *)
  rx,       (* frames in the UART buffer                                     *)
  line,     (* frames on their way to it                                     *)
  chip,     (* frames the PN532 has still to send                            *)
  lineLosses,
  result,   (* the response last returned, or None                           *)
  inStep    (* history: the line was quiet once, and since then every        *)
            (* command was acknowledged                                      *)

callerVars == <<caller, tries, samConfigured>>
linkVars == <<callerVars, host, command, sent, rx, line, chip, lineLosses, result, inStep>>

Sessions == {"InListPassiveTarget", "InDataExchange", "InRelease"}
Codes == Sessions \cup {"GetFirmwareVersion", "SAMConfiguration"}

\* Bytes that follow the code of a response: of an APDU few or many.
PayloadLengths(code) ==
  CASE code = "GetFirmwareVersion" -> {4}
    [] code = "SAMConfiguration"   -> {0}
    [] code = "InDataExchange"     -> {3, 200}
    [] OTHER                       -> {1}
Lengths == UNION {PayloadLengths(code) : code \in Codes}

Frames == [kind : {"ack", "response", "rest"}, of : 1 .. MaxCommands, code : Codes,
           length : Lengths]
None == << >>

LinkTypeOK ==
  /\ caller \in {"version", "sam", "poll"} /\ tries \in 0 .. SamTries
  /\ samConfigured \in BOOLEAN
  /\ host \in {"free", "ack", "response"}
  /\ command \in Codes /\ sent \in 0 .. MaxCommands
  /\ {rx, line, chip} \subseteq Seq(Frames)
  /\ lineLosses \in 0 .. MaxLineLosses
  /\ result = None \/ result \in Frames
  /\ inStep \in BOOLEAN

LinkInit ==
  /\ caller = "version" /\ tries = 0 /\ samConfigured = FALSE
  /\ host = "free" /\ command = "GetFirmwareVersion" /\ sent = 0
  /\ rx = << >> /\ line = << >> /\ chip = << >> /\ lineLosses = 0
  /\ result = None /\ inStep = TRUE

Frame(kind, length) == [kind |-> kind, of |-> sent, code |-> command, length |-> length]

IsAck(f) == f.kind = "ack"

\* A mistake: the buffer is not emptied first.
BufferKept == rx

Dumped == << >>

Wanted ==
  CASE caller = "version" -> {"GetFirmwareVersion"}
    [] caller = "sam"     -> {"SAMConfiguration"}
    [] OTHER              -> Sessions

\* writeCommand.  The chip takes a new command up once it has sent the first k of the
\* frames it still has, and drops the others; or the frame is damaged and it sees nothing.
WriteCommand(code) ==
  /\ host = "free" /\ code \in Wanted /\ sent < MaxCommands
  /\ host' = "ack" /\ command' = code /\ sent' = sent + 1
  /\ rx' = Dumped /\ result' = None
  /\ inStep' = (inStep \/ (line = << >> /\ chip = << >>))
  /\ \/ /\ \E length \in PayloadLengths(code) :
             LET answer == <<Frame("ack", 0)', Frame("response", length)'>>
             IN \E k \in 0 .. Len(chip) : chip' = SubSeq(chip, 1, k) \o answer
        /\ UNCHANGED lineLosses
     \/ lineLosses < MaxLineLosses /\ lineLosses' = lineLosses + 1 /\ UNCHANGED chip
  /\ UNCHANGED <<callerVars, line>>

ChipSends ==
  /\ chip # << >> /\ chip' = Tail(chip)
  /\ \/ line' = Append(line, Head(chip)) /\ UNCHANGED lineLosses
     \/ lineLosses < MaxLineLosses /\ lineLosses' = lineLosses + 1 /\ UNCHANGED line
  /\ UNCHANGED <<callerVars, host, command, sent, rx, result, inStep>>

Arrive ==
  /\ line # << >>
  /\ rx' = Append(rx, Head(line)) /\ line' = Tail(line)
  /\ UNCHANGED <<callerVars, host, command, sent, chip, lineLosses, result, inStep>>

-----------------------------------------------------------------------------
(* What nfcTask does with the outcome of a command: the length of what was   *)
(* received, or a negative error.                                            *)

\* The response to SAMConfiguration has no data: its length is 0, which does not
\* count as a success, so the chip is configured and samConfigured stays FALSE.
SAMConfig(status) == 0 < status

\* NfcSession::begin: without a version there is no SAMConfig ...
VersionReturned(status) ==
  /\ caller = "version"
  /\ IF status < 0 THEN caller' = "poll" /\ UNCHANGED tries
                   ELSE caller' = "sam" /\ tries' = SamTries
  /\ UNCHANGED samConfigured

\* ... and ensureSAMConfig tries until one succeeds.
SamReturned(status) ==
  /\ caller = "sam"
  /\ tries' = tries - 1
  /\ samConfigured' = SAMConfig(status)
  /\ caller' = IF samConfigured' \/ tries' = 0 THEN "poll" ELSE "sam"

Returned(status) ==
  /\ host' = "free"
  /\ \/ VersionReturned(status) \/ SamReturned(status)
     \/ caller = "poll" /\ UNCHANGED callerVars

\* tick, after 15 s without a phone.
PollTimedOut ==
  /\ caller = "poll" /\ host = "free" /\ ~samConfigured
  /\ caller' = "sam" /\ tries' = SamTries
  /\ UNCHANGED <<samConfigured, host, command, sent, rx, line, chip, lineLosses, result,
                 inStep>>

-----------------------------------------------------------------------------
\* The host gives the exchange up.  What it has read of a frame is gone; the rest of
\* it may still be coming.
Abandon ==
  /\ Returned(-1) /\ result' = None
  /\ rx' = << >>
  /\ \/ UNCHANGED line
     \/ rx # << >> /\ line' = <<[Head(rx) EXCEPT !.kind = "rest"]>> \o Tail(rx) \o line

\* readAckFrame
ReadAck ==
  /\ host = "ack" /\ rx # << >>
  /\ IF IsAck(Head(rx))
     THEN /\ host' = "response" /\ rx' = Tail(rx)
          /\ UNCHANGED <<callerVars, line, result, inStep>>
     ELSE Abandon /\ inStep' = FALSE
  /\ UNCHANGED <<command, sent, chip, lineLosses>>

AckTimeout ==
  /\ host = "ack" /\ rx = << >>
  /\ Abandon /\ inStep' = FALSE
  /\ UNCHANGED <<command, sent, chip, lineLosses>>

\* receive counts the bytes in an int and returns them as an int8_t.
Receive(length) == IF length < 128 THEN length ELSE length - 256

\* readResponse.  An acknowledgement fails the length check, a response of another
\* command the check of the code, one that is too long the count of its bytes.
ReadResponse ==
  /\ host = "response" /\ rx # << >>
  /\ IF Head(rx).kind = "response" /\ Head(rx).code = command
        /\ Receive(Head(rx).length) = Head(rx).length
     THEN /\ Returned(Head(rx).length) /\ result' = Head(rx) /\ rx' = Tail(rx)
          /\ UNCHANGED line
     ELSE Abandon
  /\ UNCHANGED <<command, sent, chip, lineLosses, inStep>>

ResponseTimeout ==
  /\ host = "response" /\ rx = << >>
  /\ Abandon
  /\ UNCHANGED <<command, sent, chip, lineLosses, inStep>>

Reads == ReadAck \/ ReadResponse
TimeOuts == AckTimeout \/ ResponseTimeout
LinkNext ==
  (\E code \in Codes : WriteCommand(code)) \/ PollTimedOut \/ ChipSends \/ Arrive \/ Reads \/ TimeOuts

LinkSpec == LinkInit /\ [][LinkNext]_linkVars

-----------------------------------------------------------------------------
(* A response that is returned is the response to the command just written,  *)
(* however many responses came too late before, as long as no                *)
(* acknowledgement was missed since the line was last quiet.  Retries after  *)
(* a response time-out alone are safe; the answers of NfcProvisioning can    *)
(* be stale only after a missed acknowledgement.                             *)
StaleNeedsMissedAck == result # None /\ inStep => result.of = sent
=============================================================================
