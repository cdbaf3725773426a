# Formal models of SmartCarAccess

SmartCarAccess is a phone-as-a-key system: an ESP32 in the car (`iot/`), an Android phone
(`software/smart_car_app/`), and a hosted database for accounts. A phone is enrolled over NFC
(Phase A), authenticates over BLE through a CCC-style tunnel (Phase B), and the car then opens
when UWB ranging says that the phone is near and a classifier says that it walks up.

The models are of the firmware, with the phone as its partner. They are about what the tests on
the bench do not reach: five FreeRTOS tasks that share state without locks, power that fails
between two flash writes, commands that block, answers that come late, counters and clocks at
their limits.

Contents: [the system](#the-system) · [modules](#the-modules) · [runs](#the-runs) ·
[when an exception is lifted](#when-an-exception-is-lifted) · [fairness](#fairness) ·
[proofs](#the-proofs) · [divergences](#where-code-and-documents-differ) ·
[observations](#observations) · [not modelled](#what-is-not-modelled) ·
[further work](#further-work)

## The system

### Tasks and what they share

| task | priority, core | runs | touches |
|---|---|---|---|
| `fsmTask` | 6, core 1 | `FSM::tick()` every ms | state machine, event queue |
| `uwbTask` | 5, core 1 | `poll`, `UwbUciHost::tick`, `UwbDoorUnlock::tick` every 5 ms | ranging session, UWB chip, door latch, relay |
| `AuthWorker` | 5, any | public-key work of Phase B, on notification | tunnel session, event queue, vehicle clock |
| `nfcTask` | 4, core 1 | `NfcSession::tick()`, serial commands every 2 ms | PN532, mailbox, event queue, `FSM::reset` |
| NimBLE host | the stack's | callbacks of connections and characteristics | tunnel session, advertising, mailbox, event queue, UWB requests and configuration |
| `loop` | 1, core 1 | `BLEMod::tick`, console every 50 ms | advertising, the session manager on `uci_run` |

The only thing the tasks exchange by message is the event queue, a ring of 16 slots in `fsm.cpp`.
Everything else is shared memory without a lock, and flash (NVS) behind one static handle.

### Components

| component | state | operations | what is hard | what makes it correct |
|---|---|---|---|---|
| state machine `fsm.cpp` | `currentState`, context (`session_keys_ready`, `phone_key_valid`), timeout | `tick`, `triggerEvent`, `reset`, `markSessionReady` | events from four tasks in any order; a reset that is preempted; a copied key flag | an open session has keys; the copy catches up; the link's end closes it |
| event queue `fsm.cpp` | `queueHead`, `queueTail`, slots | trigger, drain, clear | two writers, one reader, one clearer, no lock; full = head one behind tail | bounded FIFO; never wraps from full to empty |
| tunnel `ble_auth.cpp` | `s_authState`, keys, ephemeral keys, challenge, signature, the phone's time | AUTH0, AUTH1, EXCHANGE, CONTROL FLOW, connect, disconnect, reset; worker | work for a link that is gone; answers that overtake the state; a second link; a signing step that fails | acceptance means verification; both hold the same keys; no answer lost |
| advertising `ble.cpp` | profile, fast window | restart on connect and disconnect, `tick` | the loop task applies what it read before a link came or went | a car without a link can be found; the window is bounded |
| attestation `ble_attestation.cpp` | last verdict | one write handler, over the vehicle's clock | a phone's time comes before the phone is verified; a refresh asks for keys, not for verification | a verdict rests on the time of a verified phone, or of one with session keys |
| door `uci_door_unlock.cpp` | hit counter, latch, relay and its deadline | reading, AI reading, manual, reset, tick | counters over many readings; the wrap of `millis()` | opens exactly on N close readings in a row; keeps a pulse to its end |
| ranging `uci_session_manager.cpp`, `uci_host_bridge.cpp`, `lstm_inference.cpp` | session, request flags, window, first-reading flag | start, stop, reading, saturation | commands block while readings go on | with a verdict only a walk opens; nothing opens outside a session; a stop ends it |
| UWB commands: the same two files, `uci_uart_link.cpp`, `uci_oob.cpp` | cached configuration, what the chip was told | OOB write, each command's attempts, undo of a failed start | late answers carry no attempt; a damaged packet; a configuration written field by field | manager and chip agree on what is ranged; one payload's parameters |
| mailbox `ccc_mailbox.cpp`, `provisioning_phase.cpp` | owner, token, bitmaps, identity, artifact, certificate, force flags, in flash and in RAM | boot, enrol, clear, force | power fails between writes; migration from an older layout; a key pair that cannot be made; two tasks | the owner changes as a whole and only when it was allowed as the session began; RAM and flash agree |
| NFC session `nfc_session.cpp` with the phone's `ProvisioningHostApduService.kt` | APDU dialogue, rounds, passes, reselections, back-off, pending challenge, master-card session | poll, SELECT … result, commit; tap, leave | retries of what was already done; a late answer; the commit point; a force flag read once | the new owner proved itself in this session; what the phone was told is what the car stored |
| PN532 link `PN532_HSU.cpp`, `PN532.cpp` | UART buffer | command, acknowledgement, response | nothing in a frame names its command | a stale answer needs a missed acknowledgement |
| admin characteristic `ble_admin.cpp` | none | commands into all the others | answers before the effect | answers what happened |
| echo, telemetry | timestamps | diagnostic | | |
| phone: orchestrator, background service, UWB service, anomaly engine | attempts, retries, keys | | retries racing late answers | the attempt ends in done or in a clean retry |

The calls between them: BLE callbacks and the worker raise events through
`FSMIntegration::BLE`; NFC, admin and serial through their own name spaces there. The admin
characteristic clears the owner, resets the tunnel session and asks for ranging. Ranging drives
the door. **The door does not consult the tunnel or the state machine**: a UWB session is enough
to open, the BLE link need not even be up. This is how the code is, and the models keep it: no
module joins `Ranging` to `VehicleLink`, because no code does.

## The modules

| module | models | abstract specification |
|---|---|---|
| `Fsm` | `fsm.cpp`: the table, `processEvent`, `executeTransition`, `tick`, and the calls the other tasks make | |
| `EventQueue` | `triggerEvent`, the drain loop, `clearEventQueue`, one statement at a time | `EventFifo` |
| `BleAuth` | `ble_auth.cpp` and one attempt of `pke_auth_orchestrator.dart` | |
| `BleServer` | extends `BleAuth` by `ble.cpp` (advertising), the vehicle's clock and `ble_attestation.cpp` | |
| `VehicleLink` | `BleAuth` and `Fsm` joined by the event queue | |
| `DoorUnlock` | `uci_door_unlock.cpp` | `DoorLatch` |
| `Ranging` | session manager, host bridge, classifier window and `uwbTask`, over `DoorUnlock`; a command is one step | `DoorUnlock`, `DoorLatch` |
| `UwbHost` | the same manager and bridge with every command taken apart into attempts and packets, `uci_uart_link.cpp`, the OOB write; no readings | |
| `CccMailbox` | `ccc_mailbox.cpp`, `provisioning_phase.cpp`, one flash write at a time | `OwnerRecord` |
| `NfcProvisioning` | `nfc_session.cpp` and the phone's card emulation: the dialogue of Phase A | |
| `Pn532Link` | `PN532_HSU.cpp` and the commands of `PN532.cpp` that `nfc_session.cpp` uses | |
| `Fsm_proofs`, `EventQueue_proofs`, `Ranging_proofs` (with `DoorUnlock`), `UwbHost_proofs`, `CccMailbox_proofs`, `NfcProvisioning_proofs` (with `Pn532Link`), `BleServer_proofs`, `VehicleLink_proofs` | theorems | |
| `MC*` | one instance of each for TLC | |

How state and actions correspond to the code:

* **Fsm.** The variables are the code's, `Edges` is `transitionTable` row by row in its order, with
  the guard. `tick()` is four steps (`CheckTimeout`, `ProcessEvent` and `ExecuteTransition` for each
  event, `QueueDrained`, then the work of the state), because other tasks run between them.
  `decided` is the transition that `processEvent` has chosen and not yet carried out. The serial
  command `C` on `nfcTask` is five steps, because `fsmTask`, of higher priority on the same core,
  preempts it: the owner's data go (`SerialClearAll`), then `reset(true)` takes the keys
  (`ClearContext`), empties the queue (`ClearEventQueue`) and forces IDLE (`ForceIdle`), then the
  event is raised (`RaiseReset`); `resetting` is how far it is. `fsmTask` would have to be held up
  by a print in the middle of an event for one of these steps to fall between the choice of a
  transition and its execution: that happens only where `ResetMidEvent` says so. `Raised` is the set
  of events the other tasks may raise; the run takes the whole enum.
* **EventQueue.** A trigger is four steps: compute the next index, compare with the tail, write the
  slot, publish the head. The drain is three, the clear four. Events are numbered, so that a lost
  or doubled one is seen. `Overlap` says which calls may overlap.
* **BleAuth.** A callback is one step, except AUTH0, which sleeps 20 ms in the middle. The worker's
  work is cut wherever it reads or writes what the callbacks share. Keys, challenges and signatures
  are symbols: an ephemeral key is the link it was made on, a session key the pair of ephemeral keys
  behind the secret and the pair of public keys bound to it, which the worker reads at two different
  times (`Derive`, `ExpandKeys`), a signature the challenge it covers. `raised` hands the calls into
  the state machine to `VehicleLink`. `adverse`, chosen from `Environments` at the start and kept,
  names what this behaviour's surroundings may do beyond the ordinary: a phone that answers before
  the vehicle's state has caught up (`promptPhone`), a link that comes up at any time beside another
  (`overlap`), a link that ends, or a reset that falls, while the worker works (`dropMidWork`), an
  administrator who resets the session of a phone that is not done (`adminReset`), a signature that
  cannot be made (`noSignature`), a build that refuses phones without a bond (`bondingEnforce`) or
  has the fast path off (`slowOnly`), an operator who clears over serial (`serialClear`).
* **BleServer.** Each action of `BleAuth` taken with its other half: `Connect` and `Disconnect`
  restart advertising, the EXCHANGE leaves the phone's time and the worker sets the clock by it once
  the phone is verified. The refresh of the clock (`RefreshClock`) is handled at any time, for any
  phone, as long as the ready flag is set and no challenge is open: it asks for nothing else. (An
  owner's application sends none before it is done.) The loop task reads the profile, decides and
  applies in three steps. The fast window is a countdown; `openFor` is history.
* **VehicleLink.** Each step of the tunnel appends what it raised to the queue of `Fsm`
  (`INSTANCE Fsm` with `provisioned` standing for the stored owner). Events that nothing in the
  firmware raises stay out (`Raised <- {}`), so the states behind the proximity check are not
  entered, as in the firmware. `ResetStep` is the rest of serial `C`, one step at a time.
* **DoorUnlock.** Distances are four zones cut at 0.5, 2 and 3 m; the three probabilities are the
  verdict their thresholds give. `onFor` (how long the relay is on), `closeRun` and `fired` are
  history.
* **Ranging.** `task` is where `uwbTask` is in its loop. A command is: sent, perhaps carried out by
  the chip, then answered, refused or given up; meanwhile readings are handled and time passes,
  and the door's tick waits. `faults` is the behaviour's fault set.
* **UwbHost.** `command` and `attempt` are where `sendCommandWithRetry` is; `toChip` and `toHost`
  are the two directions of the UART, from which packets are lost or come late. An answer has `gid`
  and `oid` and nothing of the attempt; `poll` drains what has come, so a later answer to the same
  command may take the place of an earlier one (`Superseded`). A chip without handles makes
  `commandSessionInit` read the id a second time, from the shared configuration. `chip` and
  `chipCfg` are the chip's sessions, external, modelled from how the manager uses it. `OobParsed`,
  `OobWritesId` and `OobCached` are the field-by-field write of the shared configuration.
* **CccMailbox.** An operation is the sequence of writes it makes, in the code's order; a write
  changes RAM and then flash. `PowerFails` may come between any two. `session` is the enrolment
  `nfcTask` talks over with a phone: it keeps the force flags as they were when it began
  (`BeginEnrolment`) and commits by them (`SetOwnerProvisioned`), while the admin characteristic
  arms, disarms and clears. A key or token is named by its owner, the vehicle's identity by its
  generation.
* **NfcProvisioning.** `step` is the APDU or the wait `nfcTask` is in, `left` the tries it has there,
  `attempts` and `pass` the rounds and passes around them. A call is one step with its outcomes:
  answered, refused, lost on the way there, lost on the way back, or late. The phone's handlers run
  inside the answered case. History variables say who made a MAC, who signed, who was bound,
  enrolled and told in this session.
* **Pn532Link.** Frames on the line, in the UART buffer, and still to come from the chip; each of the
  driver's reads with its check and its time-out. Frames may be lost or
  damaged, up to `MaxLineLosses`; a command that arrives makes the chip drop what it had not sent yet.
  A read given up (`Abandon`) leaves the rest of a frame on the line.

Every variable and action carries the name it has in the code where it has one. `map` in
`PROJECT.json` gives the lines of each definition.

## The runs

| run | properties | distinct states |
|---|---|---|
| `fsm_all` | `FsmTypeOK`, `SessionBacked`, `KeyFlagCatchesUp` | 255,524 |
| `queue_fifo` | `QueueTypeOK`, `NeverWraps`, `FifoPromise` | 44,324 |
| `queue_race` | `AcceptedKept` is violated | |
| `ble_server` | `ServerTypeOK`, `AcceptedMeansVerified`, `BothHoldTheKeys`, `KeysOfThisLink`, `OwnerGetsThrough`, `Discoverable`, `WindowBounded`, `TrustedVerdict` | 712,792 |
| `auth_drop` | `IdleWithoutLink` is violated | |
| `vehicle_link` | `SecureMeansVerified`, `ClosesWithTheLinks`, `FirstUnlockServed` | 369,337 |
| `ranging_session` | `NoPulseOverdue`, `PulseKept`, `LatchPromise`, `ConfidentOpening`, `OpensOnlyInSession`, `ReuseOfThisSession`, `StopEndsSession` | 219,812 |
| `ranging_warmup` | `NoDecisionInWarmup` is violated | |
| `uwb_host` | `HostKnowsChip`, `SessionOfOneOob`, `OneLossTolerated`, `BusyEnds` | 444,041 |
| `mailbox_power` | `MailboxTypeOK`, `OwnerKnowsVehicle`, `RebootChangesNothing`, `TokenOfOwner`, `OwnerAtomic` | 220,409 |
| `nfc_enrol` | `NfcTypeOK`, `OneReplacementPerArming`, `BothSidesAgree`, `OwnerHasSigned`, `WillingPhoneEnrolled`, `OneLossIsSurvived` | 432,636 |
| `pn532_frames` | `StaleNeedsMissedAck` | 10,210,216 |

What they show, beyond what a comment at each property says:

* `fsm_all`: whatever is raised, the keys are behind an open session except in the middle of a reset,
  which `fsmTask` may preempt at every step.
* `ble_server`: no car without a link is left unfindable, whether links come one after the other or
  over each other. Where they come one after the other, keys of an earlier phone are never the keys
  in place, prompt phones and resets included. Where phones also wait for their answers and are
  not reset, both sides agree on the outcome and an owner gets through, also when the vehicle fails to
  sign AUTH1, asks for a bond, or has the fast path off.
* `vehicle_link`: the same tunnel seen from the state machine. What travels between them are events in
  a queue, so each may be ahead of the other; the properties say how far apart they can be.
* `ranging_session`: either the chip refuses and loses commands, or measurements saturate and the
  interpreter fails. The door opens in a session, by a walk when the window is full, exactly as the
  abstract latch says, and no longer than the pulse and the tick that follows a command.
* `uwb_host`: up to three packets lost, late or damaged, with every combination of what chip and
  line may do besides, or with OOB writes over a start. One loss is made good; after two manager and
  chip still agree; a third is where they may part.
* `nfc_enrol`: two phones, one master card, an APDU or answer lost or late, phones that leave, return or
  change places. Phone and vehicle agree unless phones are exchanged within a session.
* `pn532_frames`: under which condition the driver may take a late response for the answer to a
  repeat, which is what `NfcProvisioning` calls `stale`.
* `mailbox_power`: every point at which power may fail in every operation, on new and legacy flash, with
  the force flags armed and disarmed in the middle of an enrolment.

Every property of a passing run has a mutant in `PROJECT.json`: an operator in the module,
commented "A mistake", that stands for a plausible slip in the code and that TLC finds with it.

### Bounds, and why they are enough

* `EVENT_QUEUE_SIZE` is 2 in `fsm_all` (one usable slot): every trigger that finds an event waiting
  is a full queue, which is the case that matters, and all orders of events still occur over time.
  In `queue_fifo` it is 3, so that the indexes wrap, with five events so that the ring goes round.
  In `vehicle_link` it is 4, room for what one tunnel command raises; a step that would overflow
  it waits, because `fsmTask`, at the highest priority, drains fifteen slots every millisecond.
* Two callers of the ring: a race needs two; a third adds no new kind of overlap.
* `MaxLinks` is 2: what one phone left behind, or has under way, may hurt the next; the next may
  come beside it, after it, or after an interruption. The theorems hold for any number.
  `FAST_WINDOW` of 2 has an instant inside the window that is neither its start nor its end. Of
  `Environments`, the run takes the departures one by one or in pairs: more at once multiply the
  states and break the same properties.
* `REQUIRED_CONSECUTIVE_HITS` is the code's 3 in `ranging_session`. `RELAY_PULSE_MS` of 2 steps has
  ticks before, at and after the deadline. `ClockRange` (6) ends the behaviour before the clock
  wraps, unless `Wraps`. `TIME_STEPS` is 3 for the code's 25: a window that fills while hits are
  counted, and stays full. `MaxSessions` of 2: a restart, and a session after a stop.
* `uwb_host`: two OOB payloads and two starts, for a session that is replaced by another one; three
  losses, one more than what is needed to use up the tries of the shorter commands. `FaultSets`
  takes the three faults of chip and line in every combination, and the overlap of an OOB write with
  a start alone.
* `nfc_enrol`: `Rounds`, `Passes` and `MaxReselections` of 2 where the code has 4, 3 and up to 6: a
  first, and a last that is not the first. One loss, one arming, two phones of which one has the
  card, so that the phone without it is the odd one out everywhere.
* `pn532_frames`: five commands and one loss (`MaxLineLosses`), so that an answer can be late by
  several commands.
* `MaxCrashes` of 1 with two owners and two layouts of flash: one interruption at every write of
  every operation, and the boot after it. The theorems below hold for any number, except that
  `OwnerAtomic` on legacy flash is true of one failure and false of two.

Deadlock is checked except in `queue_fifo`, `queue_race`, `auth_drop`, `ble_server`, `uwb_host` and
`pn532_frames`, where the behaviours end when the events, links, starts or commands of the bound are
used up.

## When an exception is lifted

Some constants name what the code allows and the passing runs, or single properties, leave out.
This is what each breaks; the counterexamples are short, and each is in the list of hazards of
`PROJECT.json`.

| exception | where | what fails |
|---|---|---|
| `ResetMidEvent = TRUE` | `Fsm` | `SessionBacked`: a step of serial `C` falls between the choice of a transition and its execution, which is then carried out after the reset |
| `Overlap` with `"triggers"` | `EventQueue` | `AcceptedKept`, `FifoPromise`, `NeverWraps` (run `queue_race`) |
| `Overlap` with `"clear"` | `EventQueue` | `FifoPromise`, `NeverWraps`: slots come back, or vanish |
| `promptPhone` | `BleAuth` | `OwnerGetsThrough` (the answer to AUTH1 is overwritten), `AcceptedMeansVerified` (an EXCHANGE is acknowledged before its signature is asked for), `FirstUnlockServed` |
| `overlap` | `BleAuth` | `OwnerGetsThrough`, `AcceptedMeansVerified`, `BothHoldTheKeys`, `SecureMeansVerified`: one session serves two links, and the end of either resets it; `KeysOfThisLink`: a link that comes up while the worker computes is given the keys of the one before; `TrustedVerdict`: a stranger's phone uses the keys of the owner's |
| `adminReset` | `BleAuth` | `OwnerGetsThrough`, `AcceptedMeansVerified`, `BothHoldTheKeys`, `SecureMeansVerified`: the session of a phone that is being served is gone, and neither the phone nor the state machine is told |
| `dropMidWork` | `BleAuth` | `IdleWithoutLink` (run `auth_drop`; without it the property holds), `OwnerGetsThrough`, `KeysOfThisLink`, `AcceptedMeansVerified`, `BothHoldTheKeys`, `SecureMeansVerified`, `ClosesWithTheLinks`, `TrustedVerdict` |
| `Wraps = TRUE` | `DoorUnlock` | `PulseKept`: a pulse that starts just before the wrap of `millis()` is cut |
| `saturation` or `invoke` | `Ranging` | `ConfidentOpening`: status 0x1B repeats a distance past the classifier; a failed `Invoke` falls back to distance |
| `loss` | `Ranging` | `OpensOnlyInSession`; with `saturation` also `ReuseOfThisSession`: a chip that did not stop goes on ranging, and the session id is not compared |
| `oobOverStart` | `UwbHost` | `SessionOfOneOob`: a start takes the configuration half written; `OneLossTolerated`: the id, read again after INIT, is one that was never initialised, and the start fails without a loss |
| `refusesRepeat` | `UwbHost` | `OneLossTolerated`: the repeat of a command that the chip has carried out fails |
| `framing` | `UwbHost` | `OneLossTolerated`: the rest of a damaged packet in `rxBuffer_` spoils the next |
| `handles` and a third loss, or `handles`, `framing` and a second | `UwbHost` | `SessionOfOneOob`: late or damaged answers to an INIT make the next start configure the earlier session |
| a third loss | `UwbHost` | `HostKnowsChip`: the undo of a failed start does not reach the chip |
| `Overlap = TRUE` | `CccMailbox` | `RebootChangesNothing`, `OwnerAtomic`, `TokenOfOwner`: an admin clear in the middle of an enrolment |
| `MaxCrashes = 2` with `LegacyFlash` | `CccMailbox` | `OwnerAtomic`: an interrupted migration and an interrupted forced enrolment leave the legacy owner's key behind the new owner's, and half a clear brings it to light |
| `swap`, `stale` | `NfcProvisioning` | `BothSidesAgree`: the result goes to the phone that is there, a late answer counts for the next APDU |

The reading is that the components are right under the schedules the author had in mind, and that
what keeps the other schedules away is timing, not code. `TokenOfOwner` is conditional on an event of
the run, that power never failed: a failure inside a clear leaves a token that the next owner
inherits.

## Fairness

* `Fsm`: weak fairness of `fsmTask`, which has the highest priority and never blocks but to sleep
  1 ms; strong fairness of the key synchronisation, which is due every 5 s spent in IDLE.
  `KeyFlagCatchesUp` assumes in its antecedent that the drain loop ends now and then.
* `EventQueue`: weak fairness of each task's next statement.
* `BleServer` and `VehicleLink`: weak fairness of the worker, of the end of AUTH0's delay, of
  `fsmTask`, and of a phone that has what it waits for. A reset that is begun (`ResetStep`) is
  strongly fair: it goes on whenever `fsmTask` sleeps, which it does after every round. That a link
  comes, ends, or is reset is never assumed, and nothing is asked of the loop task, which the
  console may hold up.
* `Ranging` and `UwbHost`: weak fairness of `uwbTask` and of the chip acting on what it received; every
  command returns, because `sendCommandWithRetry` is bounded by its tries and time-outs. That
  readings come, or that packets get through, is not assumed.
* `NfcProvisioning`: weak fairness of `nfcTask`. That a phone stays and its master-card session is open
  is the antecedent of `WillingPhoneEnrolled`.
* `CccMailbox`, `DoorUnlock`, `Pn532Link`: safety only.

## The proofs

TLAPS checks these for every value of the constants. The assumptions on constants are the named
`ASSUME`s of the modules (sizes are positive, a pulse is shorter than the clock's range); what a
theorem assumes besides is in its own `ASSUME` and in the second column.

| theorem | says | argument |
|---|---|---|
| `FsmTypeCorrect` | `FsmSpec => []FsmTypeOK` | inductive as it stands; `TargetsAreStates` reads the table, `EnqueueType` and `DequeueType` bound the queue |
| `SessionIsBacked` | `FsmSpec => []SessionBacked` if `ResetMidEvent = FALSE` | `SessionInv` = `SessionBacked` and `ChoiceBacked` |
| `QueueTypeCorrect` | `QueueSpec => []QueueTypeOK`, whatever overlaps | `EventChosen`: a task inside a trigger has an event |
| `RingNeverWraps` | `QueueSpec => []NeverWraps` if `Overlap = {}` | `RingInv` |
| `QueueIsFifo` | `QueueSpec => Fifo!FifoSafety` if `Overlap = {}` | `BufferInv` on top of `RingInv`, and what a step does to the ring's contents |
| `DoorTypeCorrect` | `DoorSpec => []DoorTypeOK`, the clock wrapping or not | inductive as it stands |
| `PulseIsKept` | `DoorSpec => []PulseKept` if `Wraps = FALSE` | `DeadlineInv`: while the pulse lasts, the deadline is the present time plus what is left of it |
| `DoorImplementsLatch` | `DoorSpec => LatchPromise` | `CounterInv`: while the door is not unlocked, the counter is the run of close readings |
| `RangingImplementsDoor`, `RangingImplementsLatch`, `RangingKeepsPulses` | every behaviour of `Ranging` is one of `DoorUnlock`, and so has its two properties | each action leaves the door alone or is one of its actions |
| `RangingTypeCorrect` | `RangingSpec => []RangingTypeOK` | `TaskInv`: which command is under way when, and that sessions are not used up |
| `OpensConfidently` | `RangingSpec => ConfidentOpening` | only a reading opens, and with a full window only by its verdict |
| `OpensInSession`, `ReusesThisSession` | `OpensOnlyInSession`; `ReuseOfThisSession` if losses and saturation do not come together | `ChipInv`: without losses the chip ranges the manager's session or none |
| `PulsesEndInTime` | `RangingSpec => []NoPulseOverdue` if `Wraps = FALSE` | `PulseInv` = `OverdueInv` (a pulse whose length has passed is due) and `RoundInv` (how long it can be at each point of `uwbTask`'s loop) |
| `MailboxTypeCorrect` | `MailboxSpec => []MailboxTypeOK`, tasks overlapping or not | `Generations`: keys are ones that were made |
| `KnowsVehicle` | `MailboxSpec => []OwnerKnowsVehicle` if `Overlap = FALSE`, legacy flash included, for any number of power failures | `RecordInv` |
| `OwnerIsAtomic` | `MailboxSpec => OwnerAtomic` if `Overlap = FALSE`, and `LegacyFlash = FALSE` or `MaxCrashes =< 1`: replaced as a whole, and only in a session that began under force | `SoleOwnerInv` on top of `RecordInv`: whose key an older firmware's place in flash can still hold |
| `RebootIsInvisible` | `[]RebootChangesNothing` if `Overlap = FALSE`, legacy flash included | `MirrorInv` on top of `RecordInv` |
| `TokenIsOfOwner` | `MailboxSpec => []TokenOfOwner` if `Overlap = FALSE`, legacy flash included | `TokenInv`: what a clear or an enrolment has left to write decides whose token the slot ends with |
| `UwbTypeCorrect` | `UwbSpec => []UwbTypeOK` | `BaseInv`: which commands and packets belong to what the manager is doing |
| `ManagerKnowsChip` | `UwbSpec => []HostKnowsChip` | `HostInv` = `BaseInv`, and below three losses `PipeInv` and `ChipInv` |
| `SessionFromOneOob` | `UwbSpec => []SessionOfOneOob` | `SessionInv` = `HostInv`, `HandleInv` and `OobInv` |
| `OneLossIsTolerated` | `UwbSpec => []OneLossTolerated` | `LossInv` = `SessionInv`, `Cached` and, up to one loss, `SmoothInv` |
| `ResultHeard` | `NfcSpec => []OneLossIsSurvived` | `HeardInv`: with a phone that stays, a try of the result is used up only by a loss |
| `LinkInvariant`, `StaleAfterMissedAck` | `LinkSpec => []LinkInv`, `LinkSpec => []StaleNeedsMissedAck` | `InStepInv`: what the line may hold while no acknowledgement was missed |
| `NfcTypeCorrect` | `NfcSpec => []NfcTypeOK` | `CallHasTries` and `ListedIsThere`: a call never starts without a try left |
| `OneReplacement` | `NfcSpec => []OneReplacementPerArming` | `OrderInv`: replacements plus the order outstanding never exceed the armings |
| `EvidenceOfOwnership` | `NfcSpec => OwnerHasSigned` | `EvidenceInv`: how far the session has come, and what an answer on its way can contain |
| `SidesAgree` | `NfcSpec => []BothSidesAgree` | `AgreeInv` of that module: at each step after the base data, who is at the reader, bound, enrolled and told |
| `ServerTypeCorrect` | `ServerSpec => []ServerTypeOK` | nonces grow, so types that speak of earlier nonces are kept |
| `AcceptedIsVerified`, `SameKeys` | `[]AcceptedMeansVerified`, `[]BothHoldTheKeys` | `AgreeInv` of that module |
| `KeysAreOfThisLink` | `ServerSpec => []KeysOfThisLink` | `KeyInv`: whatever is derived, stored or about to be is of the newest link, where links come one after the other and none ends under the worker |
| `VehicleDiscoverable`, `FastWindowEnds` | `[]Discoverable`, `[]WindowBounded` | `WindowInv`: time open and time left add up to `FAST_WINDOW` |
| `VerdictIsTrusted` | `ServerSpec => []TrustedVerdict` | `StrangerInv` (a stranger's phone never gets past the worker's check, and holds session keys by the fast path only) and `TimeInv` (whose time is about to be applied) |
| `SecureIsVerified` | `VehicleSpec => []SecureMeansVerified` | `LateInv`, `QueueInv`, `MachineInv` |

`SessionBacked` is not inductive: after `processEvent` has chosen a transition into a session state
and before `executeTransition` carries it out, the keys could be gone. The invariant adds
`ChoiceBacked`, that such a choice is only pending while the keys are there or a reset has just taken
them. `WaysIntoSession` reads the table: a row into a session state starts in one or is guarded by
`guardSessionReady`. The window of a reset (`MidReset`) is open from the clearing of the context to
the forcing of IDLE. `fsmTask` may handle any number of events in it, but the step that closes it finds
no choice pending, which is the hypothesis, and leaves the machine in IDLE.

`NeverWraps` needs what the other steps know: `RingInv` says that each trigger's next index is one
past the head, that one trigger at a time is under way, that the room a trigger saw is still
there (the consumer only moves away from the head), that the drain stands at a slot that is not
the head, and that a clear runs alone. `AdvanceInjective`, that two indexes that differ still differ
after both move on, carries the consumer's step past a waiting trigger. For the refinement,
`BufferInv` adds that the slot a trigger publishes holds its event, that nobody has had this event
accepted, and what a clear has done to the indexes; `ContentsOf` is then appended to by a publish and
loses its head to the drain.

`RecordInv` of the mailbox follows every operation through the writes it has left: a clear has the
owner's removal in front of it or behind it; an enrolment still has to set the slot's bit, or the
owner shows; a boot has a rest of its normalisation in front of it, alone or with the new identity
behind it, or is writing that identity. A legacy owner has a slot, its own or its successor's, whenever
set-up is over (`Moved`), except between a clear's first two writes (`Erasing`). Overlap is out because
of its row in the table of exceptions above.

`SoleOwnerInv` is for the refinement, and is as strong as one power failure allows. As long as power
has not failed, a legacy owner is found only off or in the first boot, which has its removal to
come. After one failure its key may stay behind slot 0 as long as power holds, and then it is that
of the same owner, but in the enrolment or the clear that removes it. The hypothesis is the run's
own configuration, and sharp: it is the second failure, in that enrolment, that leaves two owners in
flash. The licence to replace is given when a session begins (`OpenSession` of `OwnerRecord`) and
goes when it ends; that force is taken back meanwhile changes nothing, in the code as in the
specification.

RAM and flash part ways inside the operations, so `RebootChangesNothing` has to be carried through
them. `MirrorInv` says that the token and the signalling bit are the same on both sides after every
write, and that a program which parts the slot's bit from its copy has a write to come that brings
them together with none after it that parts them (`Settles`). What is left when a program is empty is
the property. A token whose bit is hidden, which a boot would show again, is the second thing it
follows: a clear still has its `"no token"` to come, an enrolment has no write that hides.

`TokenOfOwner` is about the end of an operation, so `TokenInv` speaks of its rest. A clear has a
`"no token"` to come or there is none (`Emptying`). An enrolment has the `"token"` write to come, and
either the slot is empty for it, or the last owner's token still has its `"no token"` in front
(`TokenComes`): `ensureToken` keeps what it finds. That a first enrolment finds none needs the other
half, that without an owner there is no token at rest. Until set-up is over nothing makes a token.

Nothing `UwbHost` promises is visible in one step: an answer on the line may be of an attempt, or a
command, long given up. `PipeInv` orders the two directions of the line: the packets of the command
waited for come last, so that what is taken for an answer is one. `ChipInv` says which session the
chip can be ranging given how far the start or stop has come, that a positive answer on the line
means that the chip has done it, and how many losses it took to get there (`StopOwed`): this is
where the third one breaks it. `HandleInv` is for chips that return handles. Each attempt of an INIT
given up has been paid for with a loss or its answer is still ahead of the one waited for
(`AttemptsPaid`), and below `Few` losses that is too few to have an old answer taken for the new.
`OobInv` follows the shared configuration field by field into the packet. `SmoothInv` adds up to one
loss what leaves no room for a failure: every packet on the line is obeyed, because it finds the
session as the command before left it, or already as it leaves it itself.

`InStepInv` of the PN532 link says that while no acknowledgement was missed, one on the line is
that of the command just written and whatever comes behind it is the answer to that command. The
line is first in, first out, so nothing of an earlier command is left once the acknowledgement has
been read, whatever late responses were in front of it.

`AgreeInv` of the tunnel gives, for each of the five stages a phone can be in, where the worker can
be, which answers can be on their way, and what the two sides hold. It is conditional on `Calm`, so
that the theorems need no assumption on `Environments`. `KeyInv` follows the keys through the
worker's two readings of the shared keys, `Derive` and `ExpandKeys`: they are of one link only
because no callback puts the next link's, or none, in place between them. `SecureIsVerified` needs
less order: phones may be prompt; links that end under the worker's hands are excepted by the
property itself. `LateInv` says that from the phone's signature on the tunnel's session is the one
that is up, `QueueInv` that an AUTH_VERIFIED in the queue is live or followed by the news that its
link ended, and `MachineInv` draws the consequence for the machine; a reset that empties the queue
takes the news with it, and forces IDLE in its next step.

Only model-checked: liveness (`KeyFlagCatchesUp`, `OwnerGetsThrough`, `FirstUnlockServed`,
`ClosesWithTheLinks`, `StopEndsSession`, `WillingPhoneEnrolled`, `BusyEnds`, and that half of
`FifoPromise`), which is beyond the prover. Every safety property of a passing run is proved. The
three violated properties have no theorem, of course.

## Where code and documents differ

With a run:

* `queue_race`. `iot/include/fsm/fsm.h:14` "Returns true if event was queued successfully": two
  overlapping triggers return true and one event is lost.
* `auth_drop`. `PHASE_A_AND_PHASE_B.md:996` has the disconnection lead to `AUTH_IDLE`: the worker
  writes its outcome over it.
* `ranging_warmup`. `uci_session_manager.cpp:257` "don't make lock decisions": the next line does.

Seen in the models, without a run of their own:

* `test_fsm.cpp:303` expects sixteen events to fit in a ring of sixteen slots, which holds fifteen.
* `README.md:173` "Unlock is a conjunction of physical proximity and AI confidence": not with
  saturated measurements or a failing interpreter.
* `PHASE_A_AND_PHASE_B.md:944` "Each connection derives unique session keys": the fast path derives
  the same keys each time, and `KeysOfThisLink` excepts it.
* `uci_door_unlock.h:11` has the cooldown end at 3 m: an attack verdict ends it as well, and
  `DoorLatch` has it so.
* `ble_admin.cpp:192` "UWB stop completed" is answered when the stop is queued.
* `lstm_inference.h:35` speaks of 15 frames where `TIME_STEPS` is 25.
* `provisioning_phase.h:18`: a forced enrolment by a phone that sends no artifact leaves the last
  owner's in place; the same holds of the certificate.
* `nfc_session.cpp:225` "Commit transaction state on the applet side before persisting owner data": the
  phone's handler logs the command and changes nothing.
* `ble.cpp:226` "Keep advertising after connects": the callbacks it stands in are replaced at
  `ble_auth.cpp:1243`.
* `PAPER.md` has the fast transaction off, `ble_rollout.h` has it on by default. The models take both
  (`slowOnly`).
* `iot/README.md:248` "Time window must be valid (trusted epoch required)". Where the fast path is
  on, a phone that failed its verification keeps session keys, and the refresh of the clock asks for
  no more: `TrustedVerdict` has it as a case of its own.
* The vehicle's clock is set by a time from 2020 on, an attestation wants one from November 2023 on.

## Observations

What came up while the modules were written and belongs to no single property. Most follow
the code closely enough to be found in the named module.

Phase A:

* The second attempt at the signature (`nfc_session.cpp:787` on) releases the target and selects the
  applet without listing the target again, so it can only work when the release failed
  (`NfcProvisioning`).
* The result is sent twice at most; when both are lost the phone is never told that it is the owner.
  A phone stores the vehicle's binding before the vehicle has stored the phone's key.
* The phone's pending challenge has a time limit only in the place it is saved to; the service's own
  copy has none while the service lives.
* `getPersistentForce` and `isOneShotArmed` both return the combination of the two flags, and the
  serial toggle writes the negation of that combination (`fsm_integration.cpp:270`).
* `SAMConfig` never reports success (`PN532.cpp:337`): five tries at boot, three after every poll that
  times out. A response of more than 127 bytes is never received (`PN532_HSU.cpp:216`).
  `inListPassiveTarget` may hold `nfcTask` for as long as its time-out.
* When no key pair can be made, set-up goes on and the vehicle runs without an identity. No phone can
  be enrolled then. `NfcSession::begin` tries a second time.
* Disarming force over BLE in the middle of an enrolment does not stop it: the session goes by what it
  read when it began.
* On flash of an older layout, three power failures bring an owner back who was replaced: one in the
  migration, one in the forced enrolment of another, one in the clear of that one.

Phase B:

* The deadline of the fast window is compared as a signed 32-bit difference: after 24.9 days without
  a restart an old window reads as open. A restart between the loop task's decision and its
  application may leave the slow profile with the window open.
* When signing AUTH1 fails nobody is told; the phone's five-second fallback gets it through.
* The refresh of the clock (`P1 = 0x10`) is handled by the vehicle and never sent by the app. It reads
  the phone's signature into the buffer of the one that may be under verification.
* `s_session_keys_ready` is set by the fast AUTH0, before anything was verified, and not taken back
  when the verification fails.
* The admin command that resets the session tells neither the phone nor the state machine.

UWB:

* A start that is pending when a stop is accepted is served after the stop, so the session runs on.
* A failed INIT returns without DEINIT: on a chip that refuses a repeated INIT, later starts of the
  same session fail as well.
* One damaged packet whose rest stays in `rxBuffer_` makes a restart fail. Three late INIT answers on a
  chip that returns handles make the next start configure the earlier session. Four losses make a
  stop fail.
* The translation of the OOB configuration drops `multiNodeMode`, `rangingRoundUsage` and
  `rssiReporting`.
* `uci_run` on the console does not look at `g_busy`.
* The result of `lstm_ai_.begin()` is ignored (`uci_session_manager.cpp:61`), and the classifier's
  window and the last filtered distance outlive the session they belong to.

## What is not modelled

* Cryptography, APDU and UCI encodings, the network's weights: data, replaced by symbols.
* The phone's scanning, back-off between attempts, background service and telemetry: to the vehicle they
  are links and requests at any time, which is what `BleServer`, `Ranging` and `UwbHost` assume.
* The console command `uci_run`, which runs a session from the loop task beside `uwbTask`.
* The legacy BLE characteristics, which `registerService` no longer creates; the status queries of the
  admin characteristic (`ble_admin.cpp:108-163`), latency counters and printing, which change nothing.
* Slots 1 to 7 of the mailbox, which nothing in the firmware uses.
* Failures inside mbedTLS other than signing and key generation, allocation failures, malformed
  commands (refused before any change of state).
* `forceState`, `reset(false)`, `setStateTimeout` and `triggerEventWithData` are called by the on-target
  tests only; of these `setStateTimeout` is modelled, since the `TIMEOUT` rows depend on it.
* The effects of one admin command on several components are not one composed sequence: each effect
  is an action of the module it belongs to.
* App screens, accounts, anomaly scores: they change nothing in the vehicle.
* The rest of the vendored PN532 library (other interfaces, peer-to-peer, tag emulation), the Kalman
  filter and the NFC plug-in of the app.

## Further work

* `uci_run` beside `uwbTask`, as a second actor of `UwbHost`.
* An abstract UWB session that both `Ranging` and `UwbHost` implement, so that the first's single-step
  command is justified by the second.
