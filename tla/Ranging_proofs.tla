--------------------------- MODULE Ranging_proofs ---------------------------
(***************************************************************************)
(* Theorems about the door and about Ranging, which drives it: first       *)
(* DoorUnlock, for every number of readings asked for, every pulse and     *)
(* every range of the clock; then Ranging, for every window of the         *)
(* classifier and every number of sessions.                                *)
(***************************************************************************)
EXTENDS Ranging, TLAPS

-----------------------------------------------------------------------------
(* The door alone (DoorUnlock).                                              *)

\* The assumptions on the constants, as the provers like them.
LEMMA Parameters ==
  /\ REQUIRED_CONSECUTIVE_HITS \in Int /\ REQUIRED_CONSECUTIVE_HITS > 0
  /\ RELAY_PULSE_MS \in Int /\ RELAY_PULSE_MS > 0
  /\ ClockRange \in Int /\ RELAY_PULSE_MS < ClockRange
BY RequiredHitsAssumption, PulseAssumption, ClockRangeAssumption

\* millis() stays in its range, and a sum that fits in it is left alone.
LEMMA ClockSum ==
  ASSUME NEW n \in Nat
  PROVE  /\ n % ClockRange \in 0 .. ClockRange - 1
         /\ n < ClockRange => n % ClockRange = n
BY Parameters

-----------------------------------------------------------------------------
(* Type correctness, one kind of variable at a time.                         *)

\* The end of a pulse is a time.
LEMMA PulseEndType == TimesTypeOK => PulseEnd \in 0 .. ClockRange - 1
<1>1. TimesTypeOK => clock + RELAY_PULSE_MS \in Nat
  BY Parameters DEF TimesTypeOK
<1> QED BY <1>1, ClockSum DEF PulseEnd

\* What a reading that is no attack does to the relay and to the streak.
LEMMA JudgeType ==
  ASSUME DoorTypeOK, NEW zone \in Zones, NEW isHit, Judge(zone, isHit)
  PROVE  DoorTypeOK'
<1> USE DEF DoorTypeOK
<1>1. CASE WalkedAway
  <2>1. FlagsTypeOK'
    BY <1>1 DEF WalkedAway, RelayKeeps, relayVars, FlagsTypeOK
  <2>2. CountersTypeOK'
    BY <1>1, Parameters DEF WalkedAway, RunBroken, CountersTypeOK
  <2> QED BY <1>1, <2>1, <2>2 DEF Judge, WalkedAway, RelayKeeps, relayVars, TimesTypeOK
<1>2. CASE StaysUnlocked(isHit)
  <2>1. FlagsTypeOK'
    BY <1>2 DEF StaysUnlocked, RelayKeeps, relayVars, FlagsTypeOK
  <2>2. CountersTypeOK'
    BY <1>2, Parameters DEF StaysUnlocked, RunBroken, RunLonger, CountersTypeOK
  <2> QED BY <1>2, <2>1, <2>2 DEF Judge, StaysUnlocked, RelayKeeps, relayVars, TimesTypeOK
<1>3. CASE Hit
  <2>1. FlagsTypeOK'
    BY <1>3 DEF Hit, FireRelayPulse, RelayKeeps, relayVars, FlagsTypeOK
  <2>2. CountersTypeOK'
    BY <1>3, Parameters DEF Hit, Enough, RunLonger, CountersTypeOK
  <2>3. TimesTypeOK'
    BY <1>3, Parameters, PulseEndType
    DEF Judge, Hit, FireRelayPulse, RelayKeeps, relayVars, TimesTypeOK
  <2> QED BY <2>1, <2>2, <2>3 DEF Judge
<1>4. CASE Miss
  <2>1. FlagsTypeOK'
    BY <1>4 DEF Miss, RelayKeeps, relayVars, FlagsTypeOK
  <2>2. CountersTypeOK'
    BY <1>4, Parameters DEF Miss, StreakAfterMiss, RunBroken, CountersTypeOK
  <2> QED BY <1>4, <2>1, <2>2 DEF Judge, Miss, RelayKeeps, relayVars, TimesTypeOK
<1> QED BY <1>1, <1>2, <1>3, <1>4 DEF Judge

(* The counter of close readings never reaches the number asked for, and the *)
(* other variables keep their types, wrapping clock or not.                  *)
THEOREM DoorTypeCorrect == DoorSpec => []DoorTypeOK
<1>1. DoorInit => DoorTypeOK
  <2> SUFFICES ASSUME DoorInit PROVE DoorTypeOK
    OBVIOUS
  <2>1. FlagsTypeOK
    BY DEF DoorInit, FlagsTypeOK
  <2>2. CountersTypeOK /\ TimesTypeOK
    BY Parameters DEF DoorInit, CountersTypeOK, TimesTypeOK
  <2> QED BY <2>1, <2>2 DEF DoorInit, DoorTypeOK, Zones
<1>2. DoorTypeOK /\ [DoorNext]_doorVars => DoorTypeOK'
  <2> SUFFICES ASSUME DoorTypeOK, [DoorNext]_doorVars PROVE DoorTypeOK'
    OBVIOUS
  <2> USE DEF DoorTypeOK
  <2>1. ASSUME NEW zone \in Zones, HandleRangingDistance(zone) PROVE DoorTypeOK'
    BY <2>1, JudgeType DEF HandleRangingDistance
  <2>2. ASSUME NEW zone \in Zones, NEW aiSays \in Verdicts,
               HandleRangingWithAI(zone, aiSays)
        PROVE  DoorTypeOK'
    <3>1. CASE AttackDetected(zone)
      <4>1. FlagsTypeOK'
        BY <3>1 DEF AttackDetected, DeEnergise, FlagsTypeOK
      <4>2. CountersTypeOK'
        BY <3>1, Parameters DEF AttackDetected, RunBroken, CountersTypeOK
      <4> QED BY <3>1, <4>1, <4>2 DEF AttackDetected, DeEnergise, TimesTypeOK
    <3>2. CASE Judge(zone, ConfidentHit(zone, aiSays))
      BY <3>2, JudgeType
    <3> QED BY <2>2, <3>1, <3>2 DEF HandleRangingWithAI
  <2>3. CASE ManualUnlock
    <3>1. FlagsTypeOK'
      BY <2>3 DEF ManualUnlock, FireRelayPulse, FlagsTypeOK
    <3>2. TimesTypeOK'
      BY <2>3, Parameters, PulseEndType DEF ManualUnlock, FireRelayPulse, TimesTypeOK
    <3> QED BY <2>3, <3>1, <3>2 DEF ManualUnlock, CountersTypeOK
  <2>4. CASE ResetDoorState
    <3>1. FlagsTypeOK'
      BY <2>4 DEF ResetDoorState, DeEnergise, FlagsTypeOK
    <3>2. CountersTypeOK'
      BY <2>4, Parameters DEF ResetDoorState, RunBroken, CountersTypeOK
    <3> QED BY <2>4, <3>1, <3>2 DEF ResetDoorState, DeEnergise, TimesTypeOK, Zones
  <2>5. CASE Tick
    BY <2>5 DEF Tick, lockVars, FlagsTypeOK, CountersTypeOK, TimesTypeOK
  <2>6. CASE Millis
    <3>1. clock' \in 0 .. ClockRange - 1
      BY <2>6, ClockSum DEF Millis, TimesTypeOK
    <3>2. TimesTypeOK'
      BY <2>6, <3>1, Parameters DEF Millis, TimesTypeOK
    <3> QED BY <2>6, <3>2 DEF Millis, lockVars, FlagsTypeOK, CountersTypeOK
  <2>7. CASE UNCHANGED doorVars
    BY <2>7 DEF doorVars, lockVars, relayVars, FlagsTypeOK, CountersTypeOK, TimesTypeOK
  <2> QED BY <2>1, <2>2, <2>3, <2>4, <2>5, <2>6, <2>7 DEF DoorNext
<1> QED BY <1>1, <1>2, PTL DEF DoorSpec

-----------------------------------------------------------------------------
(* PulseKept speaks of the time the relay has been on, tick only of its      *)
(* deadline.  They are tied together while the pulse lasts, and the deadline *)
(* is never a wrapped one.                                                   *)
DeadlineInv ==
  /\ clock + RELAY_PULSE_MS < ClockRange
  /\ relay_active /\ onFor < RELAY_PULSE_MS
       => relay_deactivate_time_ms = clock + RELAY_PULSE_MS - onFor

\* A new pulse starts with the deadline the invariant asks for.
LEMMA FireDeadline ==
  ASSUME DoorTypeOK, DeadlineInv, FireRelayPulse, UNCHANGED clock
  PROVE  DeadlineInv'
<1>1. PulseEnd = clock + RELAY_PULSE_MS
  BY ClockSum, Parameters DEF PulseEnd, DoorTypeOK, TimesTypeOK, DeadlineInv
<1> QED BY <1>1, Parameters DEF FireRelayPulse, DoorTypeOK, TimesTypeOK, DeadlineInv

\* What leaves the relay alone, or switches it off, keeps it.
LEMMA NoFireDeadline ==
  ASSUME DeadlineInv, UNCHANGED <<clock, relay_deactivate_time_ms, onFor>>,
         relay_active' => relay_active
  PROVE  DeadlineInv'
BY DEF DeadlineInv

\* A reading that is no attack keeps it.
LEMMA JudgeDeadline ==
  ASSUME DoorTypeOK, DeadlineInv, NEW zone, NEW isHit, Judge(zone, isHit)
  PROVE  DeadlineInv'
<1> USE DEF Judge
<1>1. CASE WalkedAway
  BY <1>1, NoFireDeadline DEF WalkedAway, RelayKeeps, relayVars
<1>2. CASE StaysUnlocked(isHit)
  BY <1>2, NoFireDeadline DEF StaysUnlocked, RelayKeeps, relayVars
<1>3. CASE Hit
  BY <1>3, NoFireDeadline, FireDeadline DEF Hit, RelayKeeps, relayVars
<1>4. CASE Miss
  BY <1>4, NoFireDeadline DEF Miss, RelayKeeps, relayVars
<1> QED BY <1>1, <1>2, <1>3, <1>4

\* It holds as long as millis() does not wrap around.
LEMMA DeadlineHolds ==
  ASSUME Wraps = FALSE
  PROVE  DoorSpec => []DeadlineInv
<1>1. DoorInit => DeadlineInv
  BY Parameters DEF DoorInit, DeadlineInv
<1>2. DoorTypeOK /\ DeadlineInv /\ [DoorNext]_doorVars => DeadlineInv'
  <2> SUFFICES ASSUME DoorTypeOK, DeadlineInv, [DoorNext]_doorVars PROVE DeadlineInv'
    OBVIOUS
  <2>1. ASSUME NEW zone \in Zones, HandleRangingDistance(zone) PROVE DeadlineInv'
    BY <2>1, JudgeDeadline DEF HandleRangingDistance
  <2>2. ASSUME NEW zone \in Zones, NEW aiSays \in Verdicts,
               HandleRangingWithAI(zone, aiSays)
        PROVE  DeadlineInv'
    <3>1. CASE AttackDetected(zone)
      BY <3>1, NoFireDeadline DEF AttackDetected, DeEnergise
    <3>2. CASE Judge(zone, ConfidentHit(zone, aiSays))
      BY <3>2, JudgeDeadline
    <3> QED BY <2>2, <3>1, <3>2 DEF HandleRangingWithAI
  <2>3. CASE ManualUnlock
    BY <2>3, FireDeadline DEF ManualUnlock
  <2>4. CASE ResetDoorState
    BY <2>4, NoFireDeadline DEF ResetDoorState, DeEnergise
  <2>5. CASE Tick
    BY <2>5, NoFireDeadline DEF Tick
  <2>6. CASE Millis
    <3>1. clock + RELAY_PULSE_MS + 1 < ClockRange
      BY <2>6, Wraps = FALSE DEF Millis
    <3>2. clock + 1 \in Nat /\ clock + 1 < ClockRange
      BY <3>1, Parameters DEF DoorTypeOK, TimesTypeOK
    <3>3. clock' = clock + 1
      BY <2>6, <3>2, ClockSum DEF Millis
    <3> QED BY <2>6, <3>1, <3>3, Parameters DEF Millis, DoorTypeOK, TimesTypeOK, DeadlineInv
  <2>7. CASE UNCHANGED doorVars
    BY <2>7, NoFireDeadline DEF doorVars, relayVars
  <2> QED BY <2>1, <2>2, <2>3, <2>4, <2>5, <2>6, <2>7 DEF DoorNext
<1> QED BY <1>1, <1>2, DoorTypeCorrect, PTL DEF DoorSpec

(* Tick never cuts a pulse short, whatever readings, verdicts and commands   *)
(* come in between, as long as millis() does not wrap around.                *)
THEOREM PulseIsKept ==
  ASSUME Wraps = FALSE
  PROVE  DoorSpec => []PulseKept
<1>1. DoorTypeOK /\ DeadlineInv => PulseKept
  BY Parameters DEF DoorTypeOK, TimesTypeOK, DeadlineInv, PulseKept
<1> QED BY <1>1, DoorTypeCorrect, DeadlineHolds, PTL

-----------------------------------------------------------------------------
(* While the latch is armed the code's counter is the run of close readings; *)
(* while it is not, the counter is meaningless and stands still.             *)
CounterInv == ~is_door_unlocked => consecutive_close_reads = closeRun

\* A reading that is no attack keeps it, and is a reading of the latch.
LEMMA JudgeImplements ==
  ASSUME DoorTypeOK, CounterInv, NEW zone, NEW isHit, Judge(zone, isHit)
  PROVE  CounterInv' /\ Latch!LatchNext
<1>1. CASE WalkedAway
  BY <1>1 DEF WalkedAway, RunBroken, RelayKeeps, CounterInv, Latch!LatchNext, Latch!Away
<1>2. CASE StaysUnlocked(isHit)
  <2>1. CounterInv'
    BY <1>2 DEF StaysUnlocked, CounterInv
  <2>2. CASE isHit
    <3>1. closeRun' = Latch!Longer(closeRun)
      BY <1>2, <2>2, Parameters
      DEF StaysUnlocked, RunLonger, Latch!Longer, DoorTypeOK, CountersTypeOK
    <3>2. is_door_unlocked = TRUE /\ is_door_unlocked' = TRUE /\ fired' = FALSE
      BY <1>2 DEF StaysUnlocked, RelayKeeps, DoorTypeOK, FlagsTypeOK
    <3> QED BY <2>1, <3>1, <3>2, Zenon DEF Latch!LatchNext, Latch!Close
  <2>3. CASE ~isHit
    BY <1>2, <2>1, <2>3 DEF StaysUnlocked, RunBroken, RelayKeeps, Latch!LatchNext,
                            Latch!Between
  <2> QED BY <2>2, <2>3
<1>3. CASE Hit
  <2>1. /\ is_door_unlocked = FALSE
        /\ consecutive_close_reads = closeRun
    BY <1>3 DEF Hit, CounterInv, DoorTypeOK, FlagsTypeOK
  <2>2. closeRun' = closeRun + 1 /\ closeRun' = Latch!Longer(closeRun)
    BY <1>3, <2>1, Parameters
    DEF Hit, RunLonger, Latch!Longer, DoorTypeOK, CountersTypeOK
  <2>3. CASE Enough(consecutive_close_reads + 1)
    <3>1. closeRun' = REQUIRED_CONSECUTIVE_HITS
      BY <2>1, <2>2, <2>3, Parameters DEF Enough, DoorTypeOK, CountersTypeOK
    <3>2. fired' = TRUE /\ is_door_unlocked' = TRUE
      BY <1>3, <2>3 DEF Hit, FireRelayPulse
    <3> QED BY <2>1, <2>2, <3>1, <3>2, Zenon DEF CounterInv, Latch!LatchNext, Latch!Close
  <2>4. CASE ~Enough(consecutive_close_reads + 1)
    <3>1. closeRun' # REQUIRED_CONSECUTIVE_HITS
      BY <2>1, <2>2, <2>4, Parameters DEF Enough, DoorTypeOK, CountersTypeOK
    <3>2. /\ fired' = FALSE /\ is_door_unlocked' = FALSE
          /\ consecutive_close_reads' = closeRun'
      BY <1>3, <2>1, <2>2, <2>4 DEF Hit, RelayKeeps
    <3> QED BY <2>1, <2>2, <3>1, <3>2, Zenon DEF CounterInv, Latch!LatchNext, Latch!Close
  <2> QED BY <2>3, <2>4
<1>4. CASE Miss
  BY <1>4 DEF Miss, StreakAfterMiss, RunBroken, RelayKeeps, CounterInv, Latch!LatchNext,
              Latch!Between
<1> QED BY <1>1, <1>2, <1>3, <1>4 DEF Judge

(* The door module implements the latch: the relay is fired exactly by the   *)
(* reading that completes the streak of an armed latch, and by hand.         *)
THEOREM DoorImplementsLatch == DoorSpec => LatchPromise
<1>1. DoorInit => CounterInv /\ Latch!LatchInit
  BY DEF DoorInit, CounterInv, Latch!LatchInit
<1>2. DoorTypeOK /\ CounterInv /\ [DoorNext]_doorVars
        => CounterInv' /\ [Latch!LatchNext]_Latch!latchVars
  <2> SUFFICES ASSUME DoorTypeOK, CounterInv, [DoorNext]_doorVars
               PROVE  CounterInv' /\ [Latch!LatchNext]_Latch!latchVars
    OBVIOUS
  <2>1. ASSUME NEW zone \in Zones, HandleRangingDistance(zone)
        PROVE  CounterInv' /\ Latch!LatchNext
    BY <2>1, JudgeImplements DEF HandleRangingDistance
  <2>2. ASSUME NEW zone \in Zones, NEW aiSays \in Verdicts,
               HandleRangingWithAI(zone, aiSays)
        PROVE  CounterInv' /\ Latch!LatchNext
    <3>1. CASE AttackDetected(zone)
      BY <3>1 DEF AttackDetected, RunBroken, DeEnergise, CounterInv, Latch!LatchNext,
                  Latch!Away
    <3>2. CASE Judge(zone, ConfidentHit(zone, aiSays))
      BY <3>2, JudgeImplements
    <3> QED BY <2>2, <3>1, <3>2 DEF HandleRangingWithAI
  <2>3. CASE ManualUnlock
    BY <2>3 DEF ManualUnlock, FireRelayPulse, CounterInv, Latch!LatchNext, Latch!ByHand
  <2>4. CASE ResetDoorState
    BY <2>4 DEF ResetDoorState, RunBroken, DeEnergise, CounterInv, Latch!LatchNext,
                Latch!Away
  <2>5. CASE Tick \/ Millis \/ UNCHANGED doorVars
    BY <2>5 DEF Tick, Millis, doorVars, lockVars, CounterInv, Latch!latchVars
  <2> QED BY <2>1, <2>2, <2>3, <2>4, <2>5 DEF DoorNext
<1> QED BY <1>1, <1>2, DoorTypeCorrect, PTL DEF DoorSpec, LatchPromise, Latch!LatchSpec


-----------------------------------------------------------------------------
(* What the steps of Ranging are to the door: its own operations, or none.   *)

\* A reading is handled with its distance alone or with its verdict.
LEMMA MeasurementIsDoorStep ==
  ASSUME NEW s, NEW zone \in Zones, NEW v \in Verdicts \cup {"none"},
         Measurement(s, zone, v)
  PROVE  \/ v = "none" /\ HandleRangingDistance(zone)
         \/ v \in Verdicts /\ HandleRangingWithAI(zone, v)
<1>1. CASE v = "none"
  BY <1>1 DEF Measurement
<1>2. CASE v # "none"
  BY <1>2 DEF Measurement
<1> QED BY <1>1, <1>2

\* A saturated measurement is a reading below 0.5 m.
LEMMA SaturationIsDoorStep ==
  ASSUME NEW s, Saturation(s)
  PROVE  HandleRangingDistance("touching")
BY DEF Saturation

\* Requests and commands leave the door alone.
LEMMA RequestsKeepDoor ==
  ASSUME SubmitBleOob \/ RequestStart \/ RequestStop
  PROVE  UNCHANGED doorVars
BY DEF SubmitBleOob, RequestStart, RequestStop

LEMMA CommandsKeepDoor ==
  ASSUME \/ PollDone \/ NothingPending \/ ServeStop \/ ServeStart
         \/ StopRanging \/ StopEnds \/ SetUp \/ ChipActs
  PROVE  UNCHANGED doorVars
BY DEF PollDone, NothingPending, ServeStop, ServeStart, StopRanging, StopEnds, SetUp,
       ChipActs, CommandKeeps

\* Every step of Ranging is one of the door's, or a stutter of it.
LEMMA RangingStepIsDoorStep == [RangingNext]_rangingVars => [DoorNext]_doorVars
<1> SUFFICES ASSUME [RangingNext]_rangingVars PROVE [DoorNext]_doorVars
  OBVIOUS
<1>1. ASSUME NEW s \in Sessions, NEW zone \in Zones, NEW v \in Verdicts \cup {"none"},
             Measurement(s, zone, v)
      PROVE  DoorNext
  BY <1>1, MeasurementIsDoorStep DEF DoorNext
<1>2. ASSUME NEW s \in Sessions, Saturation(s) PROVE DoorNext
  BY <1>2, SaturationIsDoorStep DEF DoorNext, Zones
<1>3. CASE SubmitBleOob \/ RequestStart \/ RequestStop
  BY <1>3, RequestsKeepDoor
<1>4. CASE \/ PollDone \/ NothingPending \/ ServeStop \/ ServeStart
           \/ StopRanging \/ StopEnds \/ SetUp \/ ChipActs
  BY <1>4, CommandsKeepDoor
<1>5. CASE DoorTick \/ Sleep \/ CommandWaits
  BY <1>5 DEF DoorTick, Sleep, CommandWaits, DoorNext
<1>6. CASE UNCHANGED rangingVars
  BY <1>6 DEF rangingVars
<1> QED BY <1>1, <1>2, <1>3, <1>4, <1>5, <1>6 DEF RangingNext, UwbTask

(* The door module inside Ranging behaves as it does alone, so what is       *)
(* proved of it alone holds here.                                            *)
THEOREM RangingImplementsDoor == RangingSpec => DoorSpec
<1>1. RangingInit => DoorInit
  BY DEF RangingInit
<1> QED BY <1>1, RangingStepIsDoorStep, PTL DEF RangingSpec, DoorSpec

(* From the request over BLE to the relay, the latch keeps its promise.      *)
THEOREM RangingImplementsLatch == RangingSpec => LatchPromise
BY RangingImplementsDoor, DoorImplementsLatch, PTL

(* In Ranging too no tick cuts a pulse short.                                *)
THEOREM RangingKeepsPulses ==
  ASSUME Wraps = FALSE
  PROVE  RangingSpec => []PulseKept
BY RangingImplementsDoor, PulseIsKept, PTL

-----------------------------------------------------------------------------
(* Type correctness.  A start that is pending, or waits for the stop of the  *)
(* session before, has not been counted yet; that keeps the sessions in      *)
(* their bound.                                                              *)
RangingFlagsOK ==
  /\ faults \in FaultSets
  /\ {g_hasCachedConfig, g_pendingStart, g_pendingStop, g_busy} \subseteq BOOLEAN
  /\ task \in {"poll", "host", "command", "door", "sleep"}
  /\ command \in Commands \cup {"none"}
  /\ {chipDid, restart, sessionActive_} \subseteq BOOLEAN
ReadingsOK ==
  /\ first_reading_ \in BOOLEAN /\ frame_count \in 0 .. TIME_STEPS
  /\ verdict \in Verdicts \cup {"none"} /\ measuredIn \in 0 .. MaxSessions
SessionsOK == session \in 0 .. MaxSessions /\ ranging \subseteq Sessions
TaskInv ==
  /\ task = "command" <=> command # "none"
  /\ g_busy <=> task = "command"
  /\ restart => command \in {"ranging_stop", "deinit"} /\ ~g_pendingStart
  /\ g_pendingStart \/ restart => session < MaxSessions
  /\ command \in {"init", "config", "ranging_start"} => session > 0

RangingInv == RangingFlagsOK /\ ReadingsOK /\ SessionsOK /\ TaskInv

LEMMA RangingParameters ==
  TIME_STEPS \in Int /\ TIME_STEPS > 0 /\ MaxSessions \in Int /\ MaxSessions >= 0
BY TimeStepsAssumption, MaxSessionsAssumption

LEMMA RangingInitInv == RangingInit => RangingInv
<1> SUFFICES ASSUME RangingInit PROVE RangingInv
  OBVIOUS
<1> USE RangingParameters DEF RangingInit
<1>1. RangingFlagsOK
  BY DEF RangingFlagsOK, Commands
<1>2. ReadingsOK
  BY DEF ReadingsOK
<1>3. SessionsOK
  BY DEF SessionsOK
<1>4. TaskInv
  BY DEF TaskInv
<1> QED BY <1>1, <1>2, <1>3, <1>4 DEF RangingInv

\* A run that begins counts a session.
LEMMA RunBeginsInv ==
  ASSUME RangingInv, RunBegins, session < MaxSessions, restart' = FALSE,
         g_pendingStart' = FALSE, g_busy' = TRUE, sessionActive_' \in BOOLEAN,
         UNCHANGED <<faults, g_hasCachedConfig, g_pendingStop, ranging>>
  PROVE  RangingInv'
<1> USE RangingParameters DEF RunBegins, Waits, RangingInv
<1>1. RangingFlagsOK'
  BY DEF RangingFlagsOK, Commands
<1>2. ReadingsOK' /\ SessionsOK'
  BY DEF ReadingsOK, SessionsOK
<1>3. TaskInv'
  BY DEF TaskInv, SessionsOK
<1> QED BY <1>1, <1>2, <1>3

\* Readings.
LEMMA MeasurementInv ==
  ASSUME RangingInv, NEW s \in Sessions, NEW zone, NEW v \in Verdicts \cup {"none"},
         Measurement(s, zone, v)
  PROVE  RangingInv'
<1> USE RangingParameters DEF RangingInv, Measurement, hostVars, managerVars
<1>1. RangingFlagsOK'
  BY DEF RangingFlagsOK
<1>2. frame_count' \in 0 .. TIME_STEPS
  BY DEF ReadingsOK, Predict, FramesAfterPush
<1>3. measuredIn' \in 0 .. MaxSessions
  BY DEF Sessions
<1>4. ReadingsOK'
  BY <1>2, <1>3 DEF ReadingsOK, Predict
<1>5. SessionsOK'
  BY DEF SessionsOK
<1>6. TaskInv'
  BY DEF TaskInv
<1> QED BY <1>1, <1>4, <1>5, <1>6

\* The chip starts ranging the manager's session, or stops.
LEMMA ChipActsRanging ==
  ASSUME ChipActs
  PROVE  /\ command = "ranging_start" => ranging' = ranging \cup {session}
         /\ command \in {"ranging_stop", "deinit", "undo"} => ranging' = ranging \ {session}
         /\ command \in {"init", "config"} => ranging' = ranging
         /\ UNCHANGED <<doorVars, hostVars, task, command, restart, sessionActive_, session,
                        readingVars>>
         /\ command # "none" /\ ~chipDid /\ chipDid' = TRUE
<1>1. CASE command = "ranging_start"
  BY <1>1 DEF ChipActs
<1>2. CASE command \in {"ranging_stop", "deinit", "undo"}
  BY <1>2 DEF ChipActs
<1>3. CASE command \notin {"ranging_start", "ranging_stop", "deinit", "undo"}
  BY <1>3 DEF ChipActs
<1> QED BY <1>1, <1>2, <1>3

\* Requests; a start is only taken when there is room for another session.
LEMMA RequestsInv ==
  ASSUME RangingInv, SubmitBleOob \/ RequestStart \/ RequestStop
  PROVE  RangingInv'
<1> USE DEF RangingInv, SubmitBleOob, RequestStart, RequestStop, managerVars, readingVars
<1>1. RangingFlagsOK'
  BY DEF RangingFlagsOK
<1>2. ReadingsOK' /\ SessionsOK'
  BY DEF ReadingsOK, SessionsOK
<1>3. TaskInv'
  BY DEF TaskInv
<1> QED BY <1>1, <1>2, <1>3

\* uwbTask goes from one part of its loop to the next.
LEMMA LoopInv ==
  ASSUME RangingInv, PollDone \/ NothingPending \/ DoorTick \/ Sleep \/ CommandWaits
  PROVE  RangingInv'
<1> USE DEF RangingInv, PollDone, NothingPending, DoorTick, Sleep, CommandWaits,
            hostVars, managerVars, readingVars
<1>1. RangingFlagsOK'
  BY DEF RangingFlagsOK
<1>2. ReadingsOK' /\ SessionsOK'
  BY DEF ReadingsOK, SessionsOK
<1>3. TaskInv'
  BY DEF TaskInv
<1> QED BY <1>1, <1>2, <1>3

LEMMA ServeStopInv ==
  ASSUME RangingInv, ServeStop PROVE RangingInv'
<1> USE DEF RangingInv, ServeStop, Waits, Returns, readingVars
<1>1. RangingFlagsOK'
  BY DEF RangingFlagsOK, Commands
<1>2. ReadingsOK' /\ SessionsOK'
  BY DEF ReadingsOK, SessionsOK
<1>3. TaskInv'
  BY DEF TaskInv
<1> QED BY <1>1, <1>2, <1>3

LEMMA ServeStartInv ==
  ASSUME RangingInv, ServeStart PROVE RangingInv'
<1>1. session < MaxSessions
  BY DEF RangingInv, TaskInv, ServeStart
<1>2. CASE sessionActive_
  <2> USE <1>2 DEF RangingInv, ServeStart, Waits, readingVars
  <2>1. RangingFlagsOK'
    BY DEF RangingFlagsOK, Commands
  <2>2. ReadingsOK' /\ SessionsOK'
    BY DEF ReadingsOK, SessionsOK
  <2>3. TaskInv'
    BY <1>1 DEF TaskInv
  <2> QED BY <2>1, <2>2, <2>3
<1>3. CASE ~sessionActive_
  BY <1>1, <1>3, RunBeginsInv DEF RangingInv, RangingFlagsOK, ServeStart
<1> QED BY <1>2, <1>3

LEMMA StopRangingInv ==
  ASSUME RangingInv, StopRanging PROVE RangingInv'
<1> USE DEF RangingInv, StopRanging, Succeeds, Fails, Waits, CommandKeeps, readingVars
<1>1. RangingFlagsOK'
  BY DEF RangingFlagsOK, Commands
<1>2. ReadingsOK' /\ SessionsOK'
  BY DEF ReadingsOK, SessionsOK
<1>3. TaskInv'
  BY DEF TaskInv
<1> QED BY <1>1, <1>2, <1>3

LEMMA StopEndsInv ==
  ASSUME RangingInv, StopEnds PROVE RangingInv'
<1>1. CASE Succeeds("deinit") /\ restart /\ RunBegins /\ restart' = FALSE /\ UNCHANGED g_busy
  <2>1. /\ session < MaxSessions /\ g_busy' = TRUE /\ g_pendingStart' = FALSE
        /\ sessionActive_' \in BOOLEAN
    BY <1>1 DEF RangingInv, RangingFlagsOK, TaskInv, StopEnds, StillActive, CommandKeeps, Succeeds
  <2> QED BY <1>1, <2>1, RunBeginsInv DEF StopEnds, CommandKeeps
<1>2. CASE ~(Succeeds("deinit") /\ restart /\ RunBegins /\ restart' = FALSE /\ UNCHANGED g_busy)
  <2> USE <1>2, RangingParameters
      DEF RangingInv, StopEnds, Succeeds, Fails, Returns, CommandKeeps, StillActive
  <2>1. RangingFlagsOK'
    BY DEF RangingFlagsOK
  <2>2. ReadingsOK'
    BY DEF ReadingsOK
  <2>3. SessionsOK'
    BY DEF SessionsOK
  <2>4. TaskInv'
    BY DEF TaskInv
  <2> QED BY <2>1, <2>2, <2>3, <2>4
<1> QED BY <1>1, <1>2

LEMMA SetUpInv ==
  ASSUME RangingInv, SetUp PROVE RangingInv'
<1> USE DEF RangingInv, SetUp, Succeeds, Fails, Waits, Returns, CommandKeeps, readingVars,
            ActiveAfterStart
<1>1. RangingFlagsOK'
  BY DEF RangingFlagsOK, Commands
<1>2. ReadingsOK' /\ SessionsOK'
  BY DEF ReadingsOK, SessionsOK
<1>3. TaskInv'
  BY DEF TaskInv
<1> QED BY <1>1, <1>2, <1>3

LEMMA ChipActsInv ==
  ASSUME RangingInv, ChipActs PROVE RangingInv'
<1> USE ChipActsRanging DEF RangingInv, hostVars, readingVars
<1>1. RangingFlagsOK'
  BY DEF RangingFlagsOK
<1>2. ReadingsOK'
  BY DEF ReadingsOK
<1>3. SessionsOK'
  <2>1. CASE command = "ranging_start"
    <3>1. session \in Sessions
      BY <2>1, RangingParameters DEF SessionsOK, Sessions, TaskInv
    <3>2. ranging' = ranging \cup {session} /\ session' = session
      BY <2>1
    <3> QED BY <3>1, <3>2 DEF SessionsOK
  <2>2. CASE command # "ranging_start"
    BY <2>2 DEF SessionsOK, RangingFlagsOK, Commands
  <2> QED BY <2>1, <2>2
<1>4. TaskInv'
  BY DEF TaskInv
<1> QED BY <1>1, <1>2, <1>3, <1>4

LEMMA RangingInvStep == RangingInv /\ [RangingNext]_rangingVars => RangingInv'
<1> SUFFICES ASSUME RangingInv, [RangingNext]_rangingVars PROVE RangingInv'
  OBVIOUS
<1>1. ASSUME NEW s \in Sessions, NEW zone \in Zones, NEW v \in Verdicts \cup {"none"},
             Measurement(s, zone, v)
      PROVE  RangingInv'
  BY <1>1, MeasurementInv
<1>2. ASSUME NEW s \in Sessions, Saturation(s) PROVE RangingInv'
  <2> USE <1>2 DEF RangingInv, Saturation, hostVars, managerVars
  <2>1. RangingFlagsOK'
    BY DEF RangingFlagsOK
  <2>2. ReadingsOK' /\ SessionsOK'
    BY DEF ReadingsOK, SessionsOK
  <2>3. TaskInv'
    BY DEF TaskInv
  <2> QED BY <2>1, <2>2, <2>3
<1>3. CASE UNCHANGED rangingVars
  <2> USE <1>3 DEF RangingInv, rangingVars, hostVars, managerVars, readingVars
  <2>1. RangingFlagsOK'
    BY DEF RangingFlagsOK
  <2>2. ReadingsOK' /\ SessionsOK'
    BY DEF ReadingsOK, SessionsOK
  <2>3. TaskInv'
    BY DEF TaskInv
  <2> QED BY <2>1, <2>2, <2>3
<1> QED BY <1>1, <1>2, <1>3, RequestsInv, LoopInv, ServeStopInv, ServeStartInv,
           StopRangingInv, StopEndsInv, SetUpInv, ChipActsInv
        DEF RangingNext, UwbTask

LEMMA RangingInvHolds == RangingSpec => []RangingInv
BY RangingInitInv, RangingInvStep, PTL DEF RangingSpec

(* Every variable keeps its type, and the sessions their bound, whatever the *)
(* chip answers and however requests, readings and commands interleave.      *)
THEOREM RangingTypeCorrect == RangingSpec => []RangingTypeOK
<1>1. RangingInv /\ DoorTypeOK => RangingTypeOK
  BY DEF RangingInv, RangingFlagsOK, ReadingsOK, SessionsOK, RangingTypeOK
<1> QED BY <1>1, RangingInvHolds, RangingImplementsDoor, DoorTypeCorrect, PTL

-----------------------------------------------------------------------------
(* When a reading opens the door.                                            *)

\* A reading that is no attack opens it only as a hit.
LEMMA OpeningIsHit ==
  ASSUME NEW zone, NEW isHit, Judge(zone, isHit), Opens
  PROVE  isHit
BY DEF Judge, Opens, WalkedAway, StaysUnlocked, Miss, RelayKeeps, relayVars

\* With a verdict, only a hit of a walk does; nothing but readings opens.
LEMMA OpeningCases ==
  ASSUME [RangingNext]_rangingVars, Opens
  PROVE  \/ \E s \in Sessions, zone \in Zones, v \in Verdicts \cup {"none"} :
              Measurement(s, zone, v) /\ (v = "none" \/ v = "walk")
         \/ \E s \in Sessions : Saturation(s)
<1>1. ASSUME NEW s \in Sessions, NEW zone \in Zones, NEW v \in Verdicts \cup {"none"},
             Measurement(s, zone, v), v # "none"
      PROVE  v = "walk"
  <2>1. HandleRangingWithAI(zone, v)
    BY <1>1 DEF Measurement
  <2>2. ~AttackDetected(zone)
    BY DEF Opens, AttackDetected, DeEnergise
  <2>3. Judge(zone, ConfidentHit(zone, v))
    BY <2>1, <2>2 DEF HandleRangingWithAI
  <2> QED BY <2>3, OpeningIsHit DEF ConfidentHit
<1>2. ASSUME SubmitBleOob \/ RequestStart \/ RequestStop PROVE FALSE
  BY <1>2, RequestsKeepDoor DEF Opens, doorVars, relayVars
<1>3. ASSUME \/ PollDone \/ NothingPending \/ ServeStop \/ ServeStart
             \/ StopRanging \/ StopEnds \/ SetUp \/ ChipActs
      PROVE  FALSE
  BY <1>3, CommandsKeepDoor DEF Opens, doorVars, relayVars
<1>4. ASSUME DoorTick \/ Sleep \/ CommandWaits PROVE FALSE
  BY <1>4 DEF DoorTick, Sleep, CommandWaits, Tick, Millis, Opens, doorVars, relayVars
<1>5. ASSUME UNCHANGED rangingVars PROVE FALSE
  BY <1>5 DEF rangingVars, Opens, doorVars, relayVars
<1> QED BY <1>1, <1>2, <1>3, <1>4, <1>5 DEF RangingNext, UwbTask

(* Once the classifier has a full window, only a reading it called a walk    *)
(* opens the door, for every window and number of hits, in every behaviour   *)
(* without saturation and interpreter failures.                              *)
THEOREM OpensConfidently == RangingSpec => ConfidentOpening
<1>1. RangingInv /\ [RangingNext]_rangingVars
        => [Opens /\ frame_count' = TIME_STEPS /\ faults \subseteq {"loss"}
              => verdict' = "walk"]_rangingVars
  <2> SUFFICES ASSUME RangingInv, [RangingNext]_rangingVars, Opens,
                      frame_count' = TIME_STEPS, faults \subseteq {"loss"}
               PROVE  verdict' = "walk"
    OBVIOUS
  <2>1. ASSUME NEW s \in Sessions, Saturation(s) PROVE FALSE
    BY <2>1 DEF Saturation
  <2>2. PICK s \in Sessions, zone \in Zones, v \in Verdicts \cup {"none"} :
          Measurement(s, zone, v) /\ (v = "none" \/ v = "walk")
    BY <2>1, OpeningCases
  <2>3. v # "none"
    BY <2>2, RangingParameters DEF Measurement, Predict
  <2> QED BY <2>2, <2>3 DEF Measurement, Predict
<1> QED BY <1>1, RangingInvHolds, PTL DEF RangingSpec, ConfidentOpening

-----------------------------------------------------------------------------
(* What the manager knows of the chip, when no stop is refused and no answer *)
(* lost: only its own session is ranged, and only while it has noted it or   *)
(* waits for the answer of the start.  A distance that may be repeated was   *)
(* measured in that session.                                                 *)
ChipInv ==
  /\ ranging \subseteq {session}
  /\ ranging # {} => sessionActive_ \/ command = "ranging_start"
  /\ command \in {"init", "config", "undo", "deinit"} => ranging = {}
  /\ command = "ranging_start" => chipDid \/ ranging = {}
  /\ command = "ranging_stop" /\ chipDid => ranging = {}
  /\ ~first_reading_ => measuredIn = session
LosslessInv == "loss" \notin faults => ChipInv

\* A run begins with nothing ranged and no distance to repeat.
LEMMA RunBeginsChip ==
  ASSUME ranging = {}, RunBegins, UNCHANGED ranging
  PROVE  ChipInv'
BY DEF RunBegins, Waits, ChipInv

\* A command that returned leads to the next, or to the end.
LEMMA CommandReturnsChip ==
  ASSUME RangingInv, ChipInv, "loss" \notin faults, StopRanging \/ StopEnds \/ SetUp
  PROVE  ChipInv'
<1>1. CASE StopRanging
  BY <1>1 DEF StopRanging, Succeeds, Fails, Waits, CommandKeeps, readingVars, ChipInv
<1>2. CASE StopEnds
  <2>1. ranging = {} /\ ranging' = {}
    BY <1>2 DEF StopEnds, Succeeds, Fails, CommandKeeps, ChipInv
  <2>2. CASE RunBegins
    BY <2>1, <2>2, RunBeginsChip
  <2>3. CASE ~RunBegins
    BY <1>2, <2>1, <2>3 DEF StopEnds, Returns, ChipInv
  <2> QED BY <2>2, <2>3
<1>3. CASE SetUp
  <2>1. CASE command \in {"init", "config", "undo"}
    BY <1>3, <2>1 DEF SetUp, Succeeds, Fails, Waits, Returns, CommandKeeps, readingVars,
                      ChipInv
  <2>2. CASE command = "ranging_start"
    BY <1>3, <2>2 DEF SetUp, Succeeds, Fails, Waits, Returns, CommandKeeps, readingVars,
                      ActiveAfterStart, ChipInv
  <2> QED BY <1>3, <2>1, <2>2 DEF SetUp, Succeeds, Fails
<1> QED BY <1>1, <1>2, <1>3

\* What may go wrong is settled at the start.
LEMMA FaultsKept == [RangingNext]_rangingVars => UNCHANGED faults
<1> SUFFICES ASSUME [RangingNext]_rangingVars PROVE UNCHANGED faults
  OBVIOUS
<1> USE DEF hostVars
<1>1. ASSUME NEW s \in Sessions, NEW zone \in Zones, NEW v \in Verdicts \cup {"none"},
             Measurement(s, zone, v)
      PROVE  UNCHANGED faults
  BY <1>1 DEF Measurement
<1>2. CASE SubmitBleOob \/ RequestStart \/ RequestStop \/ UNCHANGED rangingVars
  BY <1>2 DEF SubmitBleOob, RequestStart, RequestStop, rangingVars
<1>3. CASE PollDone \/ NothingPending \/ DoorTick \/ Sleep \/ CommandWaits
  BY <1>3 DEF PollDone, NothingPending, DoorTick, Sleep, CommandWaits
<1>4. CASE ServeStop \/ ServeStart
  BY <1>4 DEF ServeStop, ServeStart
<1>5. CASE StopRanging \/ StopEnds \/ SetUp
  BY <1>5 DEF StopRanging, StopEnds, SetUp, CommandKeeps
<1>6. CASE ChipActs
  BY <1>6, ChipActsRanging
<1>7. ASSUME NEW s \in Sessions, Saturation(s) PROVE UNCHANGED faults
  BY <1>7 DEF Saturation
<1> QED BY <1>1, <1>2, <1>3, <1>4, <1>5, <1>6, <1>7 DEF RangingNext, UwbTask

LEMMA LosslessStep ==
  RangingInv /\ LosslessInv /\ [RangingNext]_rangingVars => LosslessInv'
<1> SUFFICES ASSUME RangingInv, LosslessInv, [RangingNext]_rangingVars,
                    "loss" \notin faults, "loss" \notin faults'
             PROVE  ChipInv'
  BY FaultsKept DEF LosslessInv
<1> USE DEF LosslessInv
<1>1. ASSUME NEW s \in Sessions, NEW zone \in Zones, NEW v \in Verdicts \cup {"none"},
             Measurement(s, zone, v)
      PROVE  ChipInv'
  BY <1>1 DEF Measurement, managerVars, ChipInv
<1>2. ASSUME NEW s \in Sessions, Saturation(s) PROVE ChipInv'
  BY <1>2 DEF Saturation, managerVars, ChipInv
<1>3. CASE \/ SubmitBleOob \/ RequestStart \/ RequestStop \/ PollDone \/ NothingPending
           \/ DoorTick \/ Sleep \/ CommandWaits \/ UNCHANGED rangingVars
  BY <1>3 DEF SubmitBleOob, RequestStart, RequestStop, PollDone, NothingPending, DoorTick,
              Sleep, CommandWaits, rangingVars, managerVars, readingVars, ChipInv
<1>4. CASE ServeStop
  BY <1>4 DEF ServeStop, Waits, Returns, readingVars, ChipInv, RangingInv, TaskInv
<1>5. CASE ServeStart
  <2>1. CASE sessionActive_
    BY <1>5, <2>1 DEF ServeStart, Waits, readingVars, ChipInv
  <2>2. CASE ~sessionActive_
    <3>1. ranging = {}
      BY <1>5, <2>2 DEF ServeStart, ChipInv, RangingInv, TaskInv
    <3> QED BY <1>5, <2>2, <3>1, RunBeginsChip DEF ServeStart
  <2> QED BY <2>1, <2>2
<1>6. CASE StopRanging \/ StopEnds \/ SetUp
  BY <1>6, CommandReturnsChip
<1>7. CASE ChipActs
  <2>1. CASE command = "ranging_start"
    BY <1>7, <2>1, ChipActsRanging DEF readingVars, ChipInv
  <2>2. CASE command \in {"ranging_stop", "deinit", "undo"}
    BY <1>7, <2>2, ChipActsRanging DEF readingVars, ChipInv
  <2>3. CASE command \in {"init", "config"}
    BY <1>7, <2>3, ChipActsRanging DEF readingVars, ChipInv
  <2> QED BY <1>7, <2>1, <2>2, <2>3, ChipActsRanging DEF RangingInv, RangingFlagsOK, Commands
<1> QED BY <1>1, <1>2, <1>3, <1>4, <1>5, <1>6, <1>7 DEF RangingNext, UwbTask

LEMMA LosslessHolds == RangingSpec => []LosslessInv
<1>1. RangingInit => LosslessInv
  BY DEF RangingInit, LosslessInv, ChipInv
<1> QED BY <1>1, LosslessStep, RangingInvHolds, PTL DEF RangingSpec

(* Without losses the door is opened only while the manager has a session or *)
(* is in the middle of a command for one, for every number of sessions.      *)
THEOREM OpensInSession == RangingSpec => OpensOnlyInSession
<1>1. RangingInv /\ LosslessInv /\ [RangingNext]_rangingVars
        => [Opens /\ "loss" \notin faults => sessionActive_ \/ task = "command"]_rangingVars
  <2> SUFFICES ASSUME RangingInv, LosslessInv, [RangingNext]_rangingVars, Opens,
                      "loss" \notin faults
               PROVE  sessionActive_ \/ task = "command"
    OBVIOUS
  <2>1. ranging # {}
    BY OpeningCases DEF Measurement, Saturation
  <2> QED BY <2>1 DEF LosslessInv, ChipInv, RangingInv, TaskInv
<1> QED BY <1>1, LosslessHolds, RangingInvHolds, PTL DEF RangingSpec, OpensOnlyInSession

(* When losses and saturation do not come together, a saturated measurement  *)
(* repeats a distance of its own session.                                    *)
THEOREM ReusesThisSession ==
  ASSUME \A F \in FaultSets : "loss" \in F => "saturation" \notin F
  PROVE  RangingSpec => ReuseOfThisSession
<1>1. RangingInv /\ LosslessInv /\ [RangingNext]_rangingVars
        => [\A s \in Sessions : Saturation(s) => measuredIn = s]_rangingVars
  <2> SUFFICES ASSUME RangingInv, LosslessInv, NEW s \in Sessions, Saturation(s)
               PROVE  measuredIn = s
    OBVIOUS
  <2>1. "loss" \notin faults
    BY DEF Saturation, RangingInv, RangingFlagsOK
  <2> QED BY <2>1 DEF LosslessInv, ChipInv, Saturation
<1> QED BY <1>1, LosslessHolds, RangingInvHolds, PTL DEF RangingSpec, ReuseOfThisSession

-----------------------------------------------------------------------------
(* How long the relay has been on, along the loop of uwbTask.  A pulse whose *)
(* length has passed is due; tick ends it before the task sleeps, and less   *)
(* than a step of the clock passes until the next tick, commands aside.      *)
OverdueInv ==
  relay_active /\ onFor >= RELAY_PULSE_MS => relay_deactivate_time_ms =< clock
RoundInv ==
  relay_active =>
    /\ task = "sleep" => onFor < RELAY_PULSE_MS
    /\ task \in {"poll", "host"} => onFor =< RELAY_PULSE_MS
PulseInv == OverdueInv /\ RoundInv

\* Readings fire a new pulse, leave the one that runs, or end it.
LEMMA ReadingRelay ==
  ASSUME NEW zone, NEW v, HandleRangingDistance(zone) \/ HandleRangingWithAI(zone, v)
  PROVE  /\ clock' = clock
         /\ \/ FireRelayPulse
            \/ ~relay_active'
            \/ UNCHANGED relayVars
<1>1. ASSUME NEW isHit, Judge(zone, isHit)
      PROVE  /\ clock' = clock
             /\ FireRelayPulse \/ UNCHANGED relayVars
  BY <1>1 DEF Judge, WalkedAway, StaysUnlocked, Hit, Miss, RelayKeeps
<1>2. CASE HandleRangingDistance(zone)
  BY <1>1, <1>2 DEF HandleRangingDistance
<1>3. CASE AttackDetected(zone)
  BY <1>3 DEF AttackDetected, DeEnergise
<1>4. CASE Judge(zone, ConfidentHit(zone, v))
  BY <1>1, <1>4
<1> QED BY <1>2, <1>3, <1>4 DEF HandleRangingWithAI

LEMMA PulseInvStep ==
  ASSUME Wraps = FALSE
  PROVE  DoorTypeOK /\ DeadlineInv /\ RangingInv /\ PulseInv /\ [RangingNext]_rangingVars
           => PulseInv'
<1> SUFFICES ASSUME DoorTypeOK, DeadlineInv, RangingInv, PulseInv, [RangingNext]_rangingVars
             PROVE  PulseInv'
  OBVIOUS
<1> USE Parameters DEF PulseInv
<1>1. ASSUME NEW zone, NEW v, HandleRangingDistance(zone) \/ HandleRangingWithAI(zone, v),
             UNCHANGED task
      PROVE  PulseInv'
  <2>1. CASE FireRelayPulse
    BY <1>1, <2>1 DEF FireRelayPulse, OverdueInv, RoundInv
  <2>2. CASE ~relay_active'
    BY <2>2 DEF OverdueInv, RoundInv
  <2>3. CASE UNCHANGED relayVars /\ clock' = clock
    BY <1>1, <2>3 DEF relayVars, OverdueInv, RoundInv
  <2> QED BY <1>1, <2>1, <2>2, <2>3, ReadingRelay
<1>2. CASE SubmitBleOob \/ RequestStart \/ RequestStop
  <2>1. UNCHANGED <<task, relayVars, clock>>
    BY <1>2 DEF SubmitBleOob, RequestStart, RequestStop, doorVars
  <2> QED BY <2>1 DEF relayVars, OverdueInv, RoundInv
<1>3. CASE \/ PollDone \/ NothingPending \/ ServeStop \/ ServeStart
           \/ StopRanging \/ StopEnds \/ SetUp \/ ChipActs
  <2>1. UNCHANGED <<relayVars, clock>>
    BY <1>3, CommandsKeepDoor DEF doorVars
  <2>2. task' \in {task, "command", "door"} \/ (task = "poll" /\ task' = "host")
    BY <1>3, ChipActsRanging
    DEF PollDone, NothingPending, ServeStop, ServeStart, StopRanging, StopEnds, SetUp,
        Waits, Returns, RunBegins
  <2> QED BY <2>1, <2>2 DEF relayVars, OverdueInv, RoundInv
<1>4. CASE DoorTick
  <2>1. task' = "sleep" /\ clock' = clock
    BY <1>4 DEF DoorTick, Tick, doorVars
  <2>2. CASE Tick
    BY <2>1, <2>2 DEF Tick, OverdueInv, RoundInv
  <2>3. CASE ~TickDue /\ UNCHANGED doorVars
    <3>1. relay_active => clock < relay_deactivate_time_ms
      BY <2>3 DEF TickDue, DoorTypeOK, TimesTypeOK
    <3> QED BY <2>1, <2>3, <3>1
            DEF doorVars, relayVars, OverdueInv, RoundInv, DoorTypeOK, TimesTypeOK
  <2> QED BY <1>4, <2>2, <2>3 DEF DoorTick
<1>5. CASE Millis /\ (Sleep \/ CommandWaits)
  <2>1. /\ clock' = clock + 1
        /\ UNCHANGED <<relay_active, relay_deactivate_time_ms>>
        /\ onFor' \in {onFor, onFor + 1} /\ onFor' >= onFor
    <3>1. clock + RELAY_PULSE_MS + 1 < ClockRange /\ clock + 1 \in Nat
      BY <1>5, Wraps = FALSE DEF Millis, DoorTypeOK, TimesTypeOK
    <3>2. clock + 1 < ClockRange
      BY <3>1 DEF DoorTypeOK, TimesTypeOK
    <3>3. clock' = clock + 1
      BY <1>5, <3>1, <3>2, ClockSum DEF Millis
    <3>4. onFor' \in {onFor, onFor + 1} /\ onFor' >= onFor
      BY <1>5 DEF Millis, DoorTypeOK, TimesTypeOK
    <3> QED BY <1>5, <3>3, <3>4 DEF Millis
  <2>2. OverdueInv'
    BY <2>1 DEF OverdueInv, DeadlineInv, DoorTypeOK, TimesTypeOK
  <2>3. RoundInv'
    BY <1>5, <2>1 DEF Sleep, CommandWaits, RoundInv, DoorTypeOK, TimesTypeOK
  <2> QED BY <2>2, <2>3
<1>6. CASE Sleep /\ UNCHANGED doorVars
  BY <1>6 DEF Sleep, doorVars, relayVars, OverdueInv, RoundInv, DoorTypeOK, TimesTypeOK
<1>7. CASE UNCHANGED rangingVars
  BY <1>7 DEF rangingVars, doorVars, relayVars, OverdueInv, RoundInv
<1>8. ASSUME NEW s \in Sessions, NEW zone \in Zones, NEW v \in Verdicts \cup {"none"},
             Measurement(s, zone, v)
      PROVE  PulseInv'
  BY <1>1, <1>8, MeasurementIsDoorStep DEF Measurement
<1>9. ASSUME NEW s \in Sessions, Saturation(s) PROVE PulseInv'
  BY <1>1, <1>9, SaturationIsDoorStep DEF Saturation
<1> QED BY <1>2, <1>3, <1>4, <1>5, <1>6, <1>7, <1>8, <1>9
        DEF RangingNext, UwbTask, Sleep, CommandWaits

(* Outside a command, and once tick has run after it, no pulse is overdue,   *)
(* for every length of the pulse, as long as millis() does not wrap.         *)
THEOREM PulsesEndInTime ==
  ASSUME Wraps = FALSE
  PROVE  RangingSpec => []NoPulseOverdue
<1>1. RangingInit => PulseInv
  BY DEF RangingInit, DoorInit, PulseInv, OverdueInv, RoundInv
<1>2. DoorTypeOK /\ RangingInv /\ PulseInv => NoPulseOverdue
  BY Parameters DEF RangingInv, RangingFlagsOK, PulseInv, RoundInv, NoPulseOverdue, PulseBounded,
                    DoorTypeOK, TimesTypeOK
<1> QED BY <1>1, <1>2, PulseInvStep, RangingInvHolds, RangingImplementsDoor, DoorTypeCorrect,
           DeadlineHolds, Wraps = FALSE, PTL
        DEF RangingSpec
=============================================================================
