----------------------------- MODULE DoorUnlock -----------------------------
(***************************************************************************)
(* The door module (iot/src/uwb/uci_door_unlock.cpp): it counts close      *)
(* readings, fires the relay, and lets it go after the pulse.  Every       *)
(* function of its interface may be called at any time here; Ranging says  *)
(* which are, and when.                                                    *)
(*                                                                         *)
(* A distance is one of four zones: "touching" (below the 0.5 m of the     *)
(* saturation rule), "near" (up to 2.0 m), "between", "far" (beyond 3.0 m).*)
(* A verdict of the classifier is "attack" (p_attack > 0.70), else "walk"  *)
(* (p_walk > 0.80), else "unsure"; "none" is a reading without one.        *)
(***************************************************************************)
EXTENDS Integers

CONSTANTS
  REQUIRED_CONSECUTIVE_HITS,
  RELAY_PULSE_MS,  (* the pulse, in steps of the clock                       *)
  ClockRange,      (* how many values millis() has, 2^32 of them             *)
  Wraps            (* whether millis() wraps around, after 49.7 days         *)

ASSUME RequiredHitsAssumption == REQUIRED_CONSECUTIVE_HITS \in Nat \ {0}
ASSUME PulseAssumption == RELAY_PULSE_MS \in Nat \ {0}
ASSUME ClockRangeAssumption == ClockRange \in Nat /\ RELAY_PULSE_MS < ClockRange
ASSUME WrapsAssumption == Wraps \in BOOLEAN

Zones == {"touching", "near", "between", "far"}
WithinUnlockThreshold == {"touching", "near"}
Verdicts == {"walk", "unsure", "attack"}

VARIABLES
  consecutive_close_reads, is_door_unlocked,
  relay_active,              (* and with it the level of the relay's pin     *)
  relay_deactivate_time_ms,
  last_filtered_distance_m,
  clock,                     (* millis()                                     *)
  closeRun, fired,           (* history: as in DoorLatch                     *)
  onFor                      (* history: the time since the relay was fired, *)
                             (* up to twice the pulse                        *)

lockVars == <<consecutive_close_reads, is_door_unlocked, closeRun>>
relayVars == <<relay_active, relay_deactivate_time_ms, onFor>>
doorVars == <<lockVars, fired, relayVars, last_filtered_distance_m, clock>>

FlagsTypeOK ==
  /\ is_door_unlocked \in BOOLEAN
  /\ relay_active \in BOOLEAN
  /\ fired \in BOOLEAN
CountersTypeOK ==
  /\ consecutive_close_reads \in 0 .. REQUIRED_CONSECUTIVE_HITS - 1
  /\ closeRun \in 0 .. REQUIRED_CONSECUTIVE_HITS
TimesTypeOK ==
  /\ relay_deactivate_time_ms \in 0 .. ClockRange - 1
  /\ clock \in 0 .. ClockRange - 1
  /\ onFor \in 0 .. 2 * RELAY_PULSE_MS
DoorTypeOK ==
  FlagsTypeOK /\ CountersTypeOK /\ TimesTypeOK /\ last_filtered_distance_m \in Zones

\* begin, at boot; the last distance is 0.0.
DoorInit ==
  /\ consecutive_close_reads = 0 /\ is_door_unlocked = FALSE
  /\ relay_active = FALSE /\ relay_deactivate_time_ms = 0
  /\ last_filtered_distance_m = "touching"
  /\ clock = 0
  /\ closeRun = 0 /\ fired = FALSE /\ onFor = 0

-----------------------------------------------------------------------------
\* A mistake: a pulse that is running is not prolonged.
FirstPulseEnd ==
  IF relay_active THEN relay_deactivate_time_ms ELSE (clock + RELAY_PULSE_MS) % ClockRange

PulseEnd == (clock + RELAY_PULSE_MS) % ClockRange

FireRelayPulse ==
  /\ relay_active' = TRUE
  /\ relay_deactivate_time_ms' = PulseEnd
  /\ onFor' = 0
  /\ fired' = TRUE

DeEnergise ==
  /\ relay_active' = FALSE
  /\ fired' = FALSE
  /\ UNCHANGED <<relay_deactivate_time_ms, onFor>>

RelayKeeps == fired' = FALSE /\ UNCHANGED relayVars

RunBroken == closeRun' = 0
RunLonger == closeRun' = IF closeRun < REQUIRED_CONSECUTIVE_HITS THEN closeRun + 1 ELSE closeRun

\* The phone left: the latch is armed again.
WalkedAway ==
  /\ consecutive_close_reads' = 0
  /\ is_door_unlocked' = FALSE
  /\ RunBroken
  /\ RelayKeeps

\* Already unlocked: the reading changes nothing.
StaysUnlocked(isHit) ==
  /\ is_door_unlocked
  /\ IF isHit THEN RunLonger ELSE RunBroken
  /\ RelayKeeps
  /\ UNCHANGED <<consecutive_close_reads, is_door_unlocked>>

Enough(hits) == hits >= REQUIRED_CONSECUTIVE_HITS

Hit ==
  /\ ~is_door_unlocked
  /\ RunLonger
  /\ IF Enough(consecutive_close_reads + 1)
     THEN /\ FireRelayPulse
          /\ is_door_unlocked' = TRUE
          /\ consecutive_close_reads' = 0
     ELSE /\ consecutive_close_reads' = consecutive_close_reads + 1
          /\ RelayKeeps
          /\ UNCHANGED is_door_unlocked

\* A mistake: close readings are counted, in a row or not.
StreakSurvives == consecutive_close_reads

StreakAfterMiss == 0

Miss ==
  /\ ~is_door_unlocked
  /\ consecutive_close_reads' = StreakAfterMiss
  /\ RunBroken
  /\ RelayKeeps
  /\ UNCHANGED is_door_unlocked

\* What both handlers do with a reading that is no attack.
Judge(zone, isHit) ==
  /\ last_filtered_distance_m' = zone
  /\ \/ zone = "far" /\ WalkedAway
     \/ zone # "far" /\ StaysUnlocked(isHit)
     \/ zone # "far" /\ isHit /\ Hit
     \/ zone # "far" /\ ~isHit /\ Miss
  /\ UNCHANGED clock

HandleRangingDistance(zone) == Judge(zone, zone \in WithinUnlockThreshold)

AttackDetected(zone) ==
  /\ last_filtered_distance_m' = zone
  /\ consecutive_close_reads' = 0
  /\ is_door_unlocked' = FALSE
  /\ RunBroken
  /\ DeEnergise
  /\ UNCHANGED clock

\* A mistake: the verdict only stops attacks.
DistanceAlone(zone, verdict) == zone \in WithinUnlockThreshold

ConfidentHit(zone, verdict) == zone \in WithinUnlockThreshold /\ verdict = "walk"

HandleRangingWithAI(zone, verdict) ==
  \/ verdict = "attack" /\ AttackDetected(zone)
  \/ verdict # "attack" /\ Judge(zone, ConfidentHit(zone, verdict))

ManualUnlock ==
  /\ FireRelayPulse
  /\ is_door_unlocked' = TRUE
  /\ UNCHANGED <<consecutive_close_reads, closeRun, last_filtered_distance_m, clock>>

ResetDoorState ==
  /\ consecutive_close_reads' = 0
  /\ is_door_unlocked' = FALSE
  /\ last_filtered_distance_m' = "touching"
  /\ RunBroken
  /\ DeEnergise
  /\ UNCHANGED clock

\* A mistake: the step on which the pulse ends is still part of it.
TickLate == relay_active /\ clock > relay_deactivate_time_ms

TickDue == relay_active /\ clock >= relay_deactivate_time_ms

Tick ==
  /\ TickDue
  /\ relay_active' = FALSE
  /\ UNCHANGED <<lockVars, fired, relay_deactivate_time_ms, onFor,
                 last_filtered_distance_m, clock>>

\* Time passes.  Without Wraps it ends where the end of a pulse would wrap.
Millis ==
  /\ Wraps \/ clock + RELAY_PULSE_MS + 1 < ClockRange
  /\ clock' = (clock + 1) % ClockRange
  /\ onFor' = IF relay_active /\ onFor < 2 * RELAY_PULSE_MS THEN onFor + 1 ELSE onFor
  /\ UNCHANGED <<lockVars, fired, relay_active, relay_deactivate_time_ms,
                 last_filtered_distance_m>>

DoorNext ==
  \/ \E zone \in Zones : HandleRangingDistance(zone)
  \/ \E zone \in Zones, verdict \in Verdicts : HandleRangingWithAI(zone, verdict)
  \/ ManualUnlock
  \/ ResetDoorState
  \/ Tick
  \/ Millis

DoorSpec == DoorInit /\ [][DoorNext]_doorVars

-----------------------------------------------------------------------------
Latch == INSTANCE DoorLatch WITH Hits <- REQUIRED_CONSECUTIVE_HITS,
                                 armed <- ~is_door_unlocked

(* The counter, which is cleared when the door opens and stands still while  *)
(* it is unlocked, opens the door exactly when the last three readings were  *)
(* all close and nothing has opened it since the phone was last away.  An    *)
(* attack verdict counts as away, as the code has it.                        *)
LatchPromise == Latch!LatchSpec

(* uci_door_unlock.h, RELAY_PULSE_MS: "How long to energize relay".  As long *)
(* as the relay is on, tick may let it go only when the pulse is over.       *)
PulseKept ==
  relay_active /\ clock >= relay_deactivate_time_ms => onFor >= RELAY_PULSE_MS
=============================================================================
