------------------------------ MODULE Ranging ------------------------------
(***************************************************************************)
(* From a ranging request over BLE to the relay: the host bridge's request *)
(* flags (uci_host_bridge.cpp), the session manager (uci_session_manager.  *)
(* cpp) with the classifier's window (lstm_inference.cpp), and uwbTask     *)
(* (main.cpp), whose loop runs them and the door module.                   *)
(*                                                                         *)
(* While a command waits for its answer the manager keeps polling, so      *)
(* readings are handled, and time passes, in the middle of a start or a    *)
(* stop; the door's tick has to wait.                                      *)
(***************************************************************************)
EXTENDS DoorUnlock

CONSTANTS
  TIME_STEPS,    (* frames in the classifier's window                        *)
  MaxSessions,   (* bound: starts per behaviour                              *)
  FaultSets      (* the sets of faults one of which a behaviour has:         *)
                 (* "saturation": measurements come with status 0x1B;        *)
                 (* "invoke": the interpreter may fail; "loss": a stop may   *)
                 (* be refused, or an answer be lost                         *)

ASSUME TimeStepsAssumption == TIME_STEPS \in Nat \ {0}
ASSUME MaxSessionsAssumption == MaxSessions \in Nat
ASSUME FaultSetsAssumption == FaultSets \subseteq SUBSET {"saturation", "invoke", "loss"}

VARIABLES
  faults,          (* those of this behaviour                                *)
  g_hasCachedConfig, g_pendingStart, g_pendingStop, g_busy,
  task,            (* where uwbTask is in its loop                           *)
  command,         (* the command whose answer it waits for                  *)
  chipDid,         (* the chip has carried it out                            *)
  restart,         (* runOnce goes on once the old session is stopped        *)
  sessionActive_, first_reading_,
  frame_count,
  session,         (* the manager's session, numbered from 1                 *)
  ranging,         (* the sessions the UWB chip is ranging                   *)
  verdict,         (* history: the verdict the last reading came with        *)
  measuredIn       (* history: the session of the last filtered distance     *)

hostVars == <<faults, g_hasCachedConfig, g_pendingStart, g_pendingStop, g_busy>>
managerVars == <<command, chipDid, restart, sessionActive_, session, ranging>>
readingVars == <<first_reading_, frame_count, verdict, measuredIn>>
rangingVars == <<doorVars, hostVars, task, managerVars, readingVars>>

Commands == {"ranging_stop", "deinit", "init", "config", "ranging_start", "undo"}
Sessions == 1 .. MaxSessions

RangingTypeOK ==
  /\ DoorTypeOK
  /\ faults \in FaultSets
  /\ {g_hasCachedConfig, g_pendingStart, g_pendingStop, g_busy} \subseteq BOOLEAN
  /\ task \in {"poll", "host", "command", "door", "sleep"}
  /\ command \in Commands \cup {"none"}
  /\ {chipDid, restart, sessionActive_} \subseteq BOOLEAN
  /\ first_reading_ \in BOOLEAN /\ frame_count \in 0 .. TIME_STEPS
  /\ session \in 0 .. MaxSessions /\ ranging \subseteq Sessions
  /\ verdict \in Verdicts \cup {"none"} /\ measuredIn \in 0 .. MaxSessions

RangingInit ==
  /\ DoorInit
  /\ faults \in FaultSets
  /\ g_hasCachedConfig = FALSE /\ g_pendingStart = FALSE /\ g_pendingStop = FALSE
  /\ g_busy = FALSE
  /\ task = "poll" /\ command = "none" /\ chipDid = FALSE /\ restart = FALSE
  /\ sessionActive_ = FALSE /\ session = 0 /\ ranging = {}
  /\ first_reading_ = TRUE /\ frame_count = 0
  /\ verdict = "none" /\ measuredIn = 0

-----------------------------------------------------------------------------
(* Requests, from the admin and the OOB characteristic (BLE host task).      *)

SubmitBleOob ==
  /\ ~g_busy
  /\ g_hasCachedConfig' = TRUE
  /\ g_pendingStart' = FALSE
  /\ UNCHANGED <<doorVars, faults, g_pendingStop, g_busy, task, managerVars, readingVars>>

RequestStart ==
  /\ ~g_busy /\ g_hasCachedConfig /\ ~g_pendingStart
  /\ session < MaxSessions
  /\ g_pendingStart' = TRUE
  /\ UNCHANGED <<doorVars, faults, g_hasCachedConfig, g_pendingStop, g_busy, task, managerVars,
                 readingVars>>

\* Admin command 0x51 answers UWB_STOPPED when requestStop has queued the stop.
RequestStop ==
  /\ ~g_busy /\ sessionActive_ /\ ~g_pendingStop
  /\ g_pendingStop' = TRUE
  /\ UNCHANGED <<doorVars, faults, g_hasCachedConfig, g_pendingStart, g_busy, task, managerVars,
                 readingVars>>

-----------------------------------------------------------------------------
(* onPacket, on a RangingData notification of a session the chip is ranging. *)

Polling == task \in {"poll", "command"}

FramesAfterPush == IF frame_count < TIME_STEPS THEN frame_count + 1 ELSE frame_count

\* There is a verdict once the window is full, unless the interpreter fails.
Predict(v) ==
  /\ frame_count' = FramesAfterPush
  /\ IF v = "none" THEN frame_count' < TIME_STEPS \/ "invoke" \in faults
                   ELSE frame_count' = TIME_STEPS
  /\ verdict' = v

\* A filtered distance; the first one seeds the filter.
Measurement(s, zone, v) ==
  /\ Polling /\ s \in ranging
  /\ first_reading_' = FALSE
  /\ measuredIn' = s
  /\ Predict(v)
  /\ IF v = "none" THEN HandleRangingDistance(zone) ELSE HandleRangingWithAI(zone, v)
  /\ UNCHANGED <<hostVars, task, managerVars>>

\* Status 0x1B: the last filtered distance counts again if it was below 0.5 m.
Saturation(s) ==
  /\ "saturation" \in faults /\ Polling /\ s \in ranging
  /\ ~first_reading_ /\ last_filtered_distance_m = "touching"
  /\ verdict' = "none"
  /\ HandleRangingDistance(last_filtered_distance_m)
  /\ UNCHANGED <<hostVars, task, managerVars, first_reading_, frame_count, measuredIn>>

-----------------------------------------------------------------------------
(* uwbTask: poll, UwbUciHost::tick, UwbDoorUnlock::tick, a 5 ms sleep.       *)

PollDone ==
  /\ task = "poll"
  /\ task' = "host"
  /\ UNCHANGED <<doorVars, hostVars, managerVars, readingVars>>

Waits(c) == task' = "command" /\ command' = c /\ chipDid' = FALSE
Returns == task' = "door" /\ command' = "none" /\ chipDid' = FALSE /\ g_busy' = FALSE

NothingPending ==
  /\ task = "host"
  /\ ~g_pendingStart /\ ~g_pendingStop
  /\ task' = "door"
  /\ UNCHANGED <<doorVars, hostVars, managerVars, readingVars>>

\* tick of the host bridge, a pending stop before a pending start.
ServeStop ==
  /\ task = "host"
  /\ g_pendingStop
  /\ g_pendingStop' = FALSE
  /\ IF sessionActive_
     THEN g_busy' = TRUE /\ Waits("ranging_stop")
     ELSE Returns
  /\ restart' = FALSE
  /\ UNCHANGED <<doorVars, faults, g_hasCachedConfig, g_pendingStart,
                 sessionActive_, session, ranging, readingVars>>

\* A mistake: the filter's last distance outlives a restart.
RunKeepsReading ==
  /\ session' = session + 1
  /\ Waits("init")
  /\ UNCHANGED readingVars

\* runOnce clears the last run's results before its first command.
RunBegins ==
  /\ session' = session + 1
  /\ first_reading_' = TRUE
  /\ Waits("init")
  /\ UNCHANGED <<frame_count, verdict, measuredIn>>

ServeStart ==
  /\ task = "host"
  /\ ~g_pendingStop /\ g_pendingStart
  /\ g_pendingStart' = FALSE
  /\ g_busy' = TRUE
  /\ IF sessionActive_
     THEN restart' = TRUE /\ Waits("ranging_stop") /\ UNCHANGED <<readingVars, session>>
     ELSE restart' = FALSE /\ RunBegins
  /\ UNCHANGED <<doorVars, faults, g_hasCachedConfig, g_pendingStop, sessionActive_,
                 ranging>>

ChipActs ==
  /\ command # "none" /\ ~chipDid
  /\ chipDid' = TRUE
  /\ ranging' = CASE command \in {"ranging_stop", "deinit", "undo"} -> ranging \ {session}
                  [] command = "ranging_start"                     -> ranging \cup {session}
                  [] OTHER                                         -> ranging
  /\ UNCHANGED <<doorVars, hostVars, task, command, restart, sessionActive_, session,
                 readingVars>>

\* sendCommandWithRetry returned true; or false, because the chip refused or never
\* saw the command, or because its answers were lost.
Succeeds(c) == command = c /\ chipDid
Fails(c) ==
  /\ command = c
  /\ "loss" \in faults \/ (c \in {"init", "config", "ranging_start"} /\ ~chipDid)

CommandKeeps ==
  UNCHANGED <<doorVars, faults, g_hasCachedConfig, g_pendingStart, g_pendingStop, ranging>>

\* Whatever became of the stop, the session is given up once deinit has returned;
\* a restart goes on only when both commands succeeded.
StopRanging ==
  /\ \/ Succeeds("ranging_stop") /\ UNCHANGED restart
     \/ Fails("ranging_stop") /\ restart' = FALSE
  /\ Waits("deinit")
  /\ CommandKeeps
  /\ UNCHANGED <<g_busy, sessionActive_, session, readingVars>>

\* A mistake: the session is only given up when the chip agreed.
GivenUpIfAgreed == ~Succeeds("deinit") /\ sessionActive_

StillActive == FALSE

StopEnds ==
  /\ sessionActive_' = StillActive
  /\ \/ /\ Succeeds("deinit") /\ restart
        /\ restart' = FALSE
        /\ RunBegins
        /\ UNCHANGED g_busy
     \/ /\ (Succeeds("deinit") /\ ~restart) \/ Fails("deinit")
        /\ restart' = FALSE
        /\ first_reading_' = TRUE
        /\ Returns
        /\ UNCHANGED <<session, frame_count, verdict, measuredIn>>
  /\ CommandKeeps

\* A mistake: the manager does not note that it has a session.
NoteForgotten == sessionActive_

ActiveAfterStart == TRUE

SetUp ==
  /\ \/ Succeeds("init") /\ Waits("config") /\ UNCHANGED <<g_busy, sessionActive_>>
     \/ Fails("init") /\ Returns /\ UNCHANGED sessionActive_
     \/ Succeeds("config") /\ Waits("ranging_start") /\ UNCHANGED <<g_busy, sessionActive_>>
     \/ Fails("config") /\ Waits("undo") /\ UNCHANGED <<g_busy, sessionActive_>>
     \/ Succeeds("ranging_start") /\ Returns /\ sessionActive_' = ActiveAfterStart
     \/ Fails("ranging_start") /\ Waits("undo") /\ UNCHANGED <<g_busy, sessionActive_>>
     \/ (Succeeds("undo") \/ Fails("undo")) /\ Returns /\ UNCHANGED sessionActive_
  /\ CommandKeeps
  /\ UNCHANGED <<restart, session, readingVars>>

DoorTick ==
  /\ task = "door"
  /\ Tick \/ (~TickDue /\ UNCHANGED doorVars)
  /\ task' = "sleep"
  /\ UNCHANGED <<hostVars, managerVars, readingVars>>

\* A clock step passes, or less than one.
Sleep ==
  /\ task = "sleep"
  /\ Millis \/ UNCHANGED doorVars
  /\ task' = "poll"
  /\ UNCHANGED <<hostVars, managerVars, readingVars>>

CommandWaits ==
  /\ task = "command"
  /\ Millis
  /\ UNCHANGED <<hostVars, task, managerVars, readingVars>>

UwbTask ==
  \/ PollDone \/ NothingPending \/ ServeStop \/ ServeStart
  \/ StopRanging \/ StopEnds \/ SetUp \/ DoorTick \/ Sleep

RangingNext ==
  \/ SubmitBleOob \/ RequestStart \/ RequestStop
  \/ \E s \in Sessions, zone \in Zones, v \in Verdicts \cup {"none"} :
       Measurement(s, zone, v)
  \/ \E s \in Sessions : Saturation(s)
  \/ UwbTask
  \/ ChipActs
  \/ CommandWaits

RangingSpec == RangingInit /\ [][RangingNext]_rangingVars

(* uwbTask runs whenever it is ready, and every command returns: it is tried *)
(* two or three times for 1.2 s.  The chip carries out what it receives.     *)
RangingFairSpec == RangingSpec /\ WF_rangingVars(UwbTask) /\ WF_rangingVars(ChipActs)

-----------------------------------------------------------------------------
Opens == ~relay_active /\ relay_active'

(* README.md: "Unlock is a conjunction of physical proximity and AI          *)
(* confidence".  Once the classifier has a full window, the reading that     *)
(* opens the door is one it called a walk (repeated measurements and a       *)
(* failing interpreter, which get round the classifier, aside).              *)
ConfidentOpening ==
  [][Opens /\ frame_count' = TIME_STEPS /\ faults \subseteq {"loss"}
       => verdict' = "walk"]_rangingVars

(* uci_session_manager.cpp: "During warm-up, still process distance but      *)
(* don't make lock decisions".                                               *)
NoDecisionInWarmup == [][Opens => frame_count' = TIME_STEPS]_rangingVars

(* The relay fires only while the manager has a session or is in the middle  *)
(* of a command for one: a notification of a session that was given up       *)
(* opens nothing, on a link that loses no answers.                           *)
OpensOnlyInSession ==
  [][Opens /\ "loss" \notin faults => sessionActive_ \/ task = "command"]_rangingVars

(* The distance a saturated measurement repeats was measured in the session  *)
(* that saturates, across every restart, stop and failed start.              *)
ReuseOfThisSession ==
  [][\A s \in Sessions : Saturation(s) => measuredIn = s]_rangingVars

(* IMPLEMENTATION_SUMMARY.md: "500ms pulse when door opens".  The relay is   *)
(* never held longer than the pulse.                                         *)
PulseBounded == relay_active => onFor =< RELAY_PULSE_MS

(* Its weaker form: outside a command, and once tick has run after it, no    *)
(* pulse is overdue.                                                         *)
NoPulseOverdue == task \notin {"command", "door"} => PulseBounded

(* A stop that was accepted ends the session, whatever the chip answers.     *)
StopEndsSession == g_pendingStop ~> ~sessionActive_
=============================================================================
