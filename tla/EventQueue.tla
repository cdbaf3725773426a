----------------------------- MODULE EventQueue -----------------------------
(***************************************************************************)
(* The ring buffer under the state machine's event queue: triggerEvent,    *)
(* the drain loop of tick() and clearEventQueue, at the grain of the reads *)
(* and writes of queueHead, queueTail and the slots.  Nothing in the code  *)
(* guards them: fsmTask drains, and the BLE host task, the authentication  *)
(* worker, nfcTask and fsmTask itself trigger; nfcTask clears.             *)
(***************************************************************************)
EXTENDS Integers, Sequences

CONSTANTS
  EVENT_QUEUE_SIZE,  (* slots of the ring                                    *)
  Callers,           (* the tasks that call triggerEvent                     *)
  MaxEvents,         (* bound: triggers per behaviour                        *)
  Clears,            (* whether nfcTask clears the queue at all              *)
  Overlap            (* "triggers": two triggers may be in progress at once; *)
                     (* "clear": a clear and any other call may be           *)

ASSUME RingSizeAssumption == EVENT_QUEUE_SIZE \in Nat \ {0}
ASSUME MaxEventsAssumption == MaxEvents \in Nat
ASSUME ClearsAssumption == Clears \in BOOLEAN
ASSUME OverlapAssumption == Overlap \subseteq {"triggers", "clear"}

EventIds == 1 .. MaxEvents
Indexes == 0 .. EVENT_QUEUE_SIZE - 1

\* A mistake: the index is not wrapped.
AdvancePast(i) == i + 1

Advance(i) == (i + 1) % EVENT_QUEUE_SIZE

VARIABLES
  eventQueue,  (* slot -> the event last written to it, 0 if none ever was    *)
  queueHead, queueTail,
  caller,      (* task -> where it is in triggerEvent                        *)
  next,        (* task -> its local "next"                                   *)
  event,       (* task -> the event it triggers                              *)
  drainer,     (* where tick()'s loop is                                     *)
  clearer,     (* where clearEventQueue is                                   *)
  triggered,   (* how many events were triggered                             *)
  accepted,    (* those for which triggerEvent returned true                 *)
  handled      (* those processEvent was called with, in order               *)

ringVars == <<eventQueue, queueHead, queueTail>>
queueVars == <<eventQueue, queueHead, queueTail, caller, next, event, drainer,
               clearer, triggered, accepted, handled>>

QueueTypeOK ==
  /\ eventQueue \in [Indexes -> 0 .. MaxEvents]
  /\ queueHead \in Indexes
  /\ queueTail \in Indexes
  /\ caller \in [Callers -> {"out", "test", "write", "publish"}]
  /\ next \in [Callers -> Indexes]
  /\ event \in [Callers -> 0 .. MaxEvents]
  /\ drainer \in {"test", "process", "advance"}
  /\ clearer \in {"out", "loop", "tail", "head"}
  /\ triggered \in 0 .. MaxEvents
  /\ accepted \subseteq EventIds
  /\ handled \in Seq(0 .. MaxEvents)

QueueInit ==
  /\ eventQueue = [i \in Indexes |-> 0]
  /\ queueHead = 0 /\ queueTail = 0
  /\ caller = [t \in Callers |-> "out"]
  /\ next = [t \in Callers |-> 0]
  /\ event = [t \in Callers |-> 0]
  /\ drainer = "test"
  /\ clearer = "out"
  /\ triggered = 0
  /\ accepted = {}
  /\ handled = << >>

NobodyTriggers == \A t \in Callers : caller[t] = "out"

-----------------------------------------------------------------------------
(* triggerEvent by task t.                                                   *)

ComputeNext(t) ==
  /\ caller[t] = "out"
  /\ triggered < MaxEvents
  /\ "triggers" \in Overlap \/ NobodyTriggers
  /\ "clear" \in Overlap \/ clearer = "out"
  /\ triggered' = triggered + 1
  /\ event' = [event EXCEPT ![t] = triggered']
  /\ next' = [next EXCEPT ![t] = Advance(queueHead)]
  /\ caller' = [caller EXCEPT ![t] = "test"]
  /\ UNCHANGED <<ringVars, drainer, clearer, accepted, handled>>

\* A mistake: the test is left out.
NeverFull(t) == FALSE

Full(t) == next[t] = queueTail

\* A full ring: triggerEvent returns false.
TestFull(t) ==
  /\ caller[t] = "test"
  /\ caller' = [caller EXCEPT ![t] = IF Full(t) THEN "out" ELSE "write"]
  /\ UNCHANGED <<ringVars, next, event, drainer, clearer, triggered, accepted, handled>>

\* A mistake: the event goes into the slot that stays empty.
SlotAhead(t) == next[t]

Slot(t) == queueHead

\* The slot is the one queueHead names now, not when next was computed.
WriteSlot(t) ==
  /\ caller[t] = "write"
  /\ eventQueue' = [eventQueue EXCEPT ![Slot(t)] = event[t]]
  /\ caller' = [caller EXCEPT ![t] = "publish"]
  /\ UNCHANGED <<queueHead, queueTail, next, event, drainer, clearer, triggered,
                 accepted, handled>>

Publish(t) ==
  /\ caller[t] = "publish"
  /\ queueHead' = next[t]
  /\ accepted' = accepted \cup {event[t]}
  /\ caller' = [caller EXCEPT ![t] = "out"]
  /\ UNCHANGED <<eventQueue, queueTail, next, event, drainer, clearer, triggered, handled>>

-----------------------------------------------------------------------------
(* The drain loop of tick().                                                 *)

MayDrain == "clear" \in Overlap \/ clearer = "out"

DrainTest ==
  /\ MayDrain
  /\ drainer = "test"
  /\ queueTail # queueHead
  /\ drainer' = "process"
  /\ UNCHANGED <<ringVars, caller, next, event, clearer, triggered, accepted, handled>>

DrainProcess ==
  /\ MayDrain
  /\ drainer = "process"
  /\ handled' = Append(handled, eventQueue[queueTail])
  /\ drainer' = "advance"
  /\ UNCHANGED <<ringVars, caller, next, event, clearer, triggered, accepted>>

DrainAdvance ==
  /\ MayDrain
  /\ drainer = "advance"
  /\ queueTail' = Advance(queueTail)
  /\ drainer' = "test"
  /\ UNCHANGED <<eventQueue, queueHead, caller, next, event, clearer, triggered,
                 accepted, handled>>

Drain == DrainTest \/ DrainProcess \/ DrainAdvance

-----------------------------------------------------------------------------
(* clearEventQueue, from reset().                                            *)

ClearBegin ==
  /\ Clears
  /\ clearer = "out"
  /\ "clear" \in Overlap \/ (NobodyTriggers /\ drainer = "test")
  /\ clearer' = "loop"
  /\ UNCHANGED <<ringVars, caller, next, event, drainer, triggered, accepted, handled>>

ClearLoop ==
  /\ clearer = "loop"
  /\ IF queueTail # queueHead
     THEN queueTail' = Advance(queueTail) /\ UNCHANGED clearer
     ELSE clearer' = "tail" /\ UNCHANGED queueTail
  /\ UNCHANGED <<eventQueue, queueHead, caller, next, event, drainer, triggered,
                 accepted, handled>>

\* queueHead = queueTail = 0 assigns the tail first.
ClearTail ==
  /\ clearer = "tail"
  /\ queueTail' = 0
  /\ clearer' = "head"
  /\ UNCHANGED <<eventQueue, queueHead, caller, next, event, drainer, triggered,
                 accepted, handled>>

ClearHead ==
  /\ clearer = "head"
  /\ queueHead' = 0
  /\ clearer' = "out"
  /\ UNCHANGED <<eventQueue, queueTail, caller, next, event, drainer, triggered,
                 accepted, handled>>

Clear == ClearBegin \/ ClearLoop \/ ClearTail \/ ClearHead

QueueNext ==
  \/ \E t \in Callers : ComputeNext(t) \/ TestFull(t) \/ WriteSlot(t) \/ Publish(t)
  \/ Drain
  \/ Clear

QueueSpec == QueueInit /\ [][QueueNext]_queueVars

(* fsmTask keeps draining, and a task that started a clear finishes it.      *)
QueueFairSpec ==
  QueueSpec /\ WF_queueVars(Drain) /\ WF_queueVars(ClearLoop \/ ClearTail \/ ClearHead)

-----------------------------------------------------------------------------
Occupied == (queueHead + EVENT_QUEUE_SIZE - queueTail) % EVENT_QUEUE_SIZE
Contents == [i \in 1 .. Occupied |-> eventQueue[(queueTail + i - 1) % EVENT_QUEUE_SIZE]]

(* The buffer of the queue.  An event leaves it when processEvent is called  *)
(* with it, one step before queueTail moves past its slot; while a clear     *)
(* resets the two indexes the buffer is empty.                               *)
Buffer ==
  IF clearer = "head" THEN << >>
  ELSE IF drainer = "advance" THEN Tail(Contents) ELSE Contents

Fifo == INSTANCE EventFifo WITH Capacity <- EVENT_QUEUE_SIZE - 1, buffer <- Buffer

(* Triggers that do not overlap, one drain loop and clears that overlap      *)
(* nothing keep the promise of a bounded first-in first-out queue: nothing   *)
(* accepted is lost, handled twice or handled out of order, and everything   *)
(* accepted is handled or cleared in the end.                                *)
FifoPromise == Fifo!FifoSpec

(* A trigger between its test and its write never has the index it will      *)
(* publish caught up by the consumer: the ring cannot silently wrap from     *)
(* full to empty.                                                            *)
NeverWraps ==
  \A t \in Callers : caller[t] \in {"write", "publish"} =>
    next[t] = Advance(queueHead) /\ next[t] # queueTail

(* fsm.cpp: "Process queued events (FIFO)".  Where nothing clears the queue, *)
(* an event whose trigger returned true was handled or still waits its turn  *)
(* in the ring, whenever no call is in progress.                             *)
AcceptedKept ==
  NobodyTriggers /\ drainer = "test" =>
    \A e \in accepted :
      \/ \E i \in DOMAIN handled : handled[i] = e
      \/ \E i \in 1 .. Occupied : Contents[i] = e
=============================================================================
