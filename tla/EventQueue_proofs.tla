-------------------------- MODULE EventQueue_proofs --------------------------
(***************************************************************************)
(* Theorems about EventQueue, for every size of the ring, any number of    *)
(* tasks and events.                                                       *)
(***************************************************************************)
EXTENDS EventQueue, SequenceTheorems, TLAPS

\* The assumption on the size, as the provers like it.
LEMMA Size == EVENT_QUEUE_SIZE \in Int /\ EVENT_QUEUE_SIZE > 0
BY RingSizeAssumption

\* The next index, without the remainder.
LEMMA AdvanceValue ==
  ASSUME NEW i \in Indexes
  PROVE  Advance(i) = IF i = EVENT_QUEUE_SIZE - 1 THEN 0 ELSE i + 1
<1>1. CASE i = EVENT_QUEUE_SIZE - 1
  BY <1>1, Size DEF Advance, Indexes
<1>2. CASE i # EVENT_QUEUE_SIZE - 1
  BY <1>2, Size DEF Advance, Indexes
<1> QED BY <1>1, <1>2

\* And it is an index of the ring.
LEMMA AdvanceType ==
  ASSUME NEW i \in Indexes PROVE Advance(i) \in Indexes
BY AdvanceValue, Size DEF Indexes

\* Two indexes that differ still differ when both have moved on.
LEMMA AdvanceInjective ==
  ASSUME NEW i \in Indexes, NEW j \in Indexes, i # j
  PROVE  Advance(i) # Advance(j)
BY AdvanceValue, Size DEF Indexes

-----------------------------------------------------------------------------
(* What QueueTypeOK needs beyond itself: a task inside triggerEvent has an   *)
(* event, so what it adds to the accepted ones is one.                       *)
EventChosen == \A t \in Callers : caller[t] # "out" => event[t] \in EventIds
TypeInv == QueueTypeOK /\ EventChosen

\* A trigger keeps the types.
LEMMA TriggerType ==
  ASSUME TypeInv, NEW t \in Callers,
         ComputeNext(t) \/ TestFull(t) \/ WriteSlot(t) \/ Publish(t)
  PROVE  TypeInv'
<1> USE DEF TypeInv, QueueTypeOK, EventChosen
<1>1. CASE ComputeNext(t)
  <2>1. triggered' \in 0 .. MaxEvents /\ triggered' \in EventIds
    BY <1>1, MaxEventsAssumption DEF ComputeNext, EventIds
  <2>2. Advance(queueHead) \in Indexes
    BY AdvanceType
  <2>3. UNCHANGED <<eventQueue, queueHead, queueTail>>
    BY <1>1 DEF ComputeNext, ringVars
  <2> QED BY <1>1, <2>1, <2>2, <2>3 DEF ComputeNext
<1>2. CASE TestFull(t)
  BY <1>2 DEF TestFull, ringVars
<1>3. CASE WriteSlot(t)
  <2>1. event[t] \in 0 .. MaxEvents
    OBVIOUS
  <2> QED BY <1>3, <2>1 DEF WriteSlot, Slot
<1>4. CASE Publish(t)
  <2>1. event[t] \in EventIds
    BY <1>4 DEF Publish
  <2> QED BY <1>4, <2>1 DEF Publish
<1> QED BY <1>1, <1>2, <1>3, <1>4

\* TypeInv is inductive.
LEMMA QueueInitType ==
  ASSUME QueueInit PROVE TypeInv
<1>1. 0 \in Indexes /\ 0 \in 0 .. MaxEvents
  BY Size, MaxEventsAssumption DEF Indexes
<1> QED BY <1>1 DEF QueueInit, TypeInv, QueueTypeOK, EventChosen

LEMMA QueueStepType ==
  ASSUME TypeInv, [QueueNext]_queueVars PROVE TypeInv'
<1>1. ASSUME NEW t \in Callers,
             ComputeNext(t) \/ TestFull(t) \/ WriteSlot(t) \/ Publish(t)
      PROVE  TypeInv'
  BY <1>1, TriggerType
<1> USE DEF TypeInv, QueueTypeOK, EventChosen
<1>2. CASE DrainTest
  BY <1>2 DEF DrainTest, ringVars
<1>3. CASE DrainProcess
  <2>1. eventQueue[queueTail] \in 0 .. MaxEvents
    OBVIOUS
  <2> QED BY <1>3, <2>1 DEF DrainProcess, ringVars
<1>4. CASE DrainAdvance
  BY <1>4, AdvanceType DEF DrainAdvance
<1>5. CASE ClearBegin
  BY <1>5 DEF ClearBegin, ringVars
<1>6. CASE ClearLoop
  BY <1>6, AdvanceType DEF ClearLoop
<1>7. CASE ClearTail \/ ClearHead
  <2>1. 0 \in Indexes
    BY Size DEF Indexes
  <2> QED BY <1>7, <2>1 DEF ClearTail, ClearHead
<1>8. CASE UNCHANGED queueVars
  BY <1>8 DEF queueVars
<1> QED BY <1>1, <1>2, <1>3, <1>4, <1>5, <1>6, <1>7, <1>8 DEF QueueNext, Drain, Clear

(* The two indexes stay inside the ring and everything else keeps its type,  *)
(* even when the tasks overlap in every way.                                 *)
THEOREM QueueTypeCorrect == QueueSpec => []QueueTypeOK
<1>1. TypeInv => QueueTypeOK
  BY DEF TypeInv
<1> QED BY <1>1, QueueInitType, QueueStepType, PTL DEF QueueSpec

-----------------------------------------------------------------------------
(* NeverWraps speaks of a trigger after its test.  Before it, the trigger's  *)
(* index must still be the head's successor; no other trigger may be under   *)
(* way to move the head; and the tail may only move past a slot that is in   *)
(* use, or it would catch up with that index.                                *)
NextInv == \A t \in Callers : caller[t] # "out" => next[t] = Advance(queueHead)
OneTrigger == \A t, u \in Callers : caller[t] # "out" /\ caller[u] # "out" => t = u
RoomInv == \A t \in Callers : caller[t] \in {"write", "publish"} => next[t] # queueTail
DrainInv == drainer # "test" => queueTail # queueHead
ClearInv == clearer # "out" => NobodyTriggers /\ drainer = "test"
RingInv == NextInv /\ OneTrigger /\ RoomInv /\ DrainInv /\ ClearInv

\* A trigger that nothing overlaps keeps the ring whole.
LEMMA TriggerRing ==
  ASSUME Overlap = {}, QueueTypeOK, QueueTypeOK', RingInv, NEW t \in Callers,
         ComputeNext(t) \/ TestFull(t) \/ WriteSlot(t) \/ Publish(t)
  PROVE  RingInv'
<1> USE DEF QueueTypeOK, RingInv, NextInv, OneTrigger, RoomInv, DrainInv, ClearInv,
            NobodyTriggers
<1>1. CASE ComputeNext(t)
  BY <1>1 DEF ComputeNext, ringVars
<1>2. CASE TestFull(t)
  BY <1>2 DEF TestFull, Full, ringVars
<1>3. CASE WriteSlot(t)
  BY <1>3 DEF WriteSlot
<1>4. CASE Publish(t)
  <2>1. \A u \in Callers : caller'[u] = "out"
    BY <1>4 DEF Publish
  <2>2. queueHead' = Advance(queueHead) /\ queueHead' # queueTail
    BY <1>4 DEF Publish
  <2> QED BY <1>4, <2>1, <2>2 DEF Publish
<1> QED BY <1>1, <1>2, <1>3, <1>4

\* Without overlaps RingInv is inductive.
LEMMA QueueInitRing ==
  ASSUME QueueInit PROVE RingInv
BY DEF QueueInit, RingInv, NextInv, OneTrigger, RoomInv, DrainInv, ClearInv

LEMMA QueueStepRing ==
  ASSUME Overlap = {}, QueueTypeOK, QueueTypeOK', RingInv, [QueueNext]_queueVars
  PROVE  RingInv'
<1>1. ASSUME NEW t \in Callers,
             ComputeNext(t) \/ TestFull(t) \/ WriteSlot(t) \/ Publish(t)
      PROVE  RingInv'
  BY <1>1, TriggerRing, Overlap = {}
<1> USE Overlap = {} DEF RingInv, NextInv, OneTrigger, RoomInv, DrainInv, ClearInv,
        NobodyTriggers
<1>2. CASE DrainTest
  BY <1>2 DEF DrainTest, MayDrain, ringVars
<1>3. CASE DrainProcess
  BY <1>3 DEF DrainProcess, MayDrain, ringVars
<1>4. CASE DrainAdvance
  <2>1. queueTail \in Indexes /\ queueHead \in Indexes /\ queueTail # queueHead
    BY <1>4 DEF DrainAdvance, QueueTypeOK
  <2>2. queueTail' # Advance(queueHead)
    BY <1>4, <2>1, AdvanceInjective DEF DrainAdvance
  <2> QED BY <1>4, <2>2 DEF DrainAdvance, MayDrain
<1>5. CASE ClearBegin
  BY <1>5 DEF ClearBegin, ringVars
<1>6. CASE ClearLoop \/ ClearTail \/ ClearHead
  BY <1>6 DEF ClearLoop, ClearTail, ClearHead
<1>7. CASE UNCHANGED queueVars
  BY <1>7 DEF queueVars
<1> QED BY <1>1, <1>2, <1>3, <1>4, <1>5, <1>6, <1>7 DEF QueueNext, Drain, Clear

(* As long as triggers and clears do not overlap, no trigger ever publishes  *)
(* an index the consumer stands at: the ring cannot turn from full to empty, *)
(* whatever its size and however many tasks use it.                          *)
THEOREM RingNeverWraps ==
  ASSUME Overlap = {}
  PROVE  QueueSpec => []NeverWraps
<1>1. RingInv => NeverWraps
  BY DEF RingInv, NextInv, RoomInv, NeverWraps
<1> QED BY <1>1, QueueInitRing, QueueStepRing, QueueTypeCorrect, PTL DEF QueueSpec

-----------------------------------------------------------------------------
(* The ring as a sequence.  Every index of it is at most one turn away.      *)

LEMMA OneTurn ==
  ASSUME NEW n \in Int, 0 =< n, n < 2 * EVENT_QUEUE_SIZE
  PROVE  n % EVENT_QUEUE_SIZE = IF n < EVENT_QUEUE_SIZE THEN n ELSE n - EVENT_QUEUE_SIZE
<1>1. CASE n < EVENT_QUEUE_SIZE
  BY <1>1, Size
<1>2. CASE n >= EVENT_QUEUE_SIZE
  BY <1>2, Size
<1> QED BY <1>1, <1>2, Size

\* How many events are in the ring.
OccupiedOf(head, tail) == IF tail =< head THEN head - tail ELSE head + EVENT_QUEUE_SIZE - tail

LEMMA OccupiedValue ==
  ASSUME queueHead \in Indexes, queueTail \in Indexes
  PROVE  Occupied = OccupiedOf(queueHead, queueTail) /\ Occupied \in 0 .. EVENT_QUEUE_SIZE - 1
<1> DEFINE n == queueHead + EVENT_QUEUE_SIZE - queueTail
<1>1. n \in Int /\ 0 =< n /\ n < 2 * EVENT_QUEUE_SIZE
  BY Size DEF Indexes
<1>2. Occupied = IF n < EVENT_QUEUE_SIZE THEN n ELSE n - EVENT_QUEUE_SIZE
  BY <1>1, OneTurn DEF Occupied
<1> QED BY <1>2, Size DEF Indexes, OccupiedOf

\* The slot of the i-th of them.
SlotOf(tail, i) ==
  IF tail + i - 1 < EVENT_QUEUE_SIZE THEN tail + i - 1 ELSE tail + i - 1 - EVENT_QUEUE_SIZE

ContentsOf(ring, head, tail) ==
  [i \in 1 .. OccupiedOf(head, tail) |-> ring[SlotOf(tail, i)]]

ContentsInv == Contents = ContentsOf(eventQueue, queueHead, queueTail)

LEMMA ContentsValue ==
  ASSUME queueHead \in Indexes, queueTail \in Indexes
  PROVE  ContentsInv
<1>1. Occupied = OccupiedOf(queueHead, queueTail) /\ Occupied \in 0 .. EVENT_QUEUE_SIZE - 1
  BY OccupiedValue
<1>2. ASSUME NEW i \in 1 .. Occupied
      PROVE  (queueTail + i - 1) % EVENT_QUEUE_SIZE = SlotOf(queueTail, i)
  <2> DEFINE n == queueTail + i - 1
  <2>1. n \in Int /\ 0 =< n /\ n < 2 * EVENT_QUEUE_SIZE
    BY <1>1, Size DEF Indexes
  <2> HIDE DEF n
  <2>2. n % EVENT_QUEUE_SIZE = IF n < EVENT_QUEUE_SIZE THEN n ELSE n - EVENT_QUEUE_SIZE
    BY <2>1, OneTurn
  <2> QED BY <2>2, Size DEF SlotOf, n, Indexes
<1> QED BY <1>1, <1>2 DEF ContentsInv, ContentsOf, Contents

\* A function on 1 .. n is a sequence.
LEMMA SequenceOf ==
  ASSUME NEW S, NEW n \in Nat, NEW s \in [1 .. n -> S]
  PROVE  s \in Seq(S) /\ Len(s) = n
<1>1. s \in Seq(S)
  OBVIOUS
<1>2. DOMAIN s = 1 .. n /\ DOMAIN s = 1 .. Len(s) /\ Len(s) \in Nat
  BY <1>1, LenProperties
<1> QED BY <1>1, <1>2

Rings == [Indexes -> 0 .. MaxEvents]
EventSeqs == Seq(0 .. MaxEvents)

LEMMA SlotType ==
  ASSUME NEW head \in Indexes, NEW tail \in Indexes, NEW i \in 1 .. OccupiedOf(head, tail)
  PROVE  SlotOf(tail, i) \in Indexes
BY Size DEF Indexes, OccupiedOf, SlotOf

\* The contents are a sequence of events with one place of the ring to spare.
LEMMA ContentsType ==
  ASSUME NEW ring \in Rings, NEW head \in Indexes, NEW tail \in Indexes
  PROVE  /\ ContentsOf(ring, head, tail) \in EventSeqs
         /\ Len(ContentsOf(ring, head, tail)) = OccupiedOf(head, tail)
         /\ OccupiedOf(head, tail) \in 0 .. EVENT_QUEUE_SIZE - 1
         /\ head # tail <=> OccupiedOf(head, tail) > 0
<1>1. OccupiedOf(head, tail) \in 0 .. EVENT_QUEUE_SIZE - 1
  BY Size DEF Indexes, OccupiedOf
<1>2. head # tail <=> OccupiedOf(head, tail) > 0
  BY Size DEF Indexes, OccupiedOf
<1>3. \A i \in 1 .. OccupiedOf(head, tail) : ring[SlotOf(tail, i)] \in 0 .. MaxEvents
  BY SlotType DEF Rings
<1> DEFINE n == OccupiedOf(head, tail)
           s == ContentsOf(ring, head, tail)
<1>4. n \in Nat /\ s \in [1 .. n -> 0 .. MaxEvents]
  BY <1>1, <1>3 DEF ContentsOf
<1>5. s \in EventSeqs /\ Len(s) = n
  <2> HIDE DEF n, s
  <2> QED BY <1>4, SequenceOf DEF EventSeqs
<1> QED BY <1>1, <1>2, <1>5

\* An empty ring.
LEMMA NothingLeft ==
  ASSUME NEW ring \in Rings, NEW head \in Indexes
  PROVE  ContentsOf(ring, head, head) = << >>
<1>1. OccupiedOf(head, head) = 0
  BY DEF OccupiedOf, Indexes
<1> QED BY <1>1, ContentsType, EmptySeq DEF EventSeqs

\* Moving the tail on takes the first event off.
LEMMA FirstLeaves ==
  ASSUME NEW ring \in Rings, NEW head \in Indexes, NEW tail \in Indexes, head # tail
  PROVE  /\ ContentsOf(ring, head, tail) # << >>
         /\ Head(ContentsOf(ring, head, tail)) = ring[tail]
         /\ ContentsOf(ring, head, Advance(tail)) = Tail(ContentsOf(ring, head, tail))
<1> DEFINE old == ContentsOf(ring, head, tail)
           new == ContentsOf(ring, head, Advance(tail))
<1>1. Advance(tail) \in Indexes
  BY AdvanceType
<1>2. OccupiedOf(head, tail) > 0 /\ old \in EventSeqs /\ Len(old) = OccupiedOf(head, tail)
  BY ContentsType
<1>3. old # << >>
  BY <1>2, EmptySeq DEF EventSeqs
<1>4. new \in EventSeqs /\ Len(new) = OccupiedOf(head, Advance(tail))
  BY <1>1, ContentsType
<1>5. OccupiedOf(head, Advance(tail)) = OccupiedOf(head, tail) - 1
  BY AdvanceValue, Size DEF Indexes, OccupiedOf
<1>6. \A i \in 1 .. Len(new) : new[i] = Tail(old)[i]
  <2> SUFFICES ASSUME NEW i \in 1 .. Len(new) PROVE new[i] = Tail(old)[i]
    OBVIOUS
  <2>1. i \in 1 .. OccupiedOf(head, tail) - 1 /\ i + 1 \in 1 .. OccupiedOf(head, tail)
    BY <1>2, <1>4, <1>5
  <2>2. SlotOf(Advance(tail), i) = SlotOf(tail, i + 1)
    BY <2>1, AdvanceValue, Size DEF Indexes, OccupiedOf, SlotOf
  <2>3. new[i] = ring[SlotOf(Advance(tail), i)]
    BY <2>1, <1>5 DEF ContentsOf
  <2>4. old[i + 1] = ring[SlotOf(tail, i + 1)]
    BY <2>1 DEF ContentsOf
  <2>5. Tail(old)[i] = old[i + 1]
    BY <1>2, <1>3, <2>1, HeadTailProperties DEF EventSeqs
  <2> QED BY <2>2, <2>3, <2>4, <2>5
<1>7. Tail(old) \in EventSeqs /\ Len(Tail(old)) = Len(old) - 1
  BY <1>2, <1>3, HeadTailProperties DEF EventSeqs
<1>8. new = Tail(old)
  BY <1>2, <1>4, <1>5, <1>6, <1>7, SeqEqual DEF EventSeqs
<1>9. Head(old) = ring[tail]
  <2>1. SlotOf(tail, 1) = tail
    BY Size DEF Indexes, SlotOf
  <2>2. old[1] = ring[tail]
    <3>1. 1 \in 1 .. OccupiedOf(head, tail)
      BY ContentsType
    <3> QED BY <2>1, <3>1 DEF ContentsOf
  <2> QED BY <1>2, <1>3, <2>2 DEF EventSeqs
<1> QED BY <1>3, <1>8, <1>9

\* Moving the head on adds the event before it at the end.
LEMMA LastJoins ==
  ASSUME NEW ring \in Rings, NEW head \in Indexes, NEW tail \in Indexes,
         Advance(head) # tail
  PROVE  /\ OccupiedOf(head, tail) < EVENT_QUEUE_SIZE - 1
         /\ ContentsOf(ring, Advance(head), tail)
              = Append(ContentsOf(ring, head, tail), ring[head])
<1> DEFINE old == ContentsOf(ring, head, tail)
           new == ContentsOf(ring, Advance(head), tail)
           n == OccupiedOf(head, tail)
<1>1. Advance(head) \in Indexes
  BY AdvanceType
<1>2. old \in EventSeqs /\ Len(old) = n /\ n \in Nat
  BY ContentsType
<1>3. new \in EventSeqs /\ Len(new) = OccupiedOf(Advance(head), tail)
  BY <1>1, ContentsType
<1>4. OccupiedOf(Advance(head), tail) = n + 1 /\ n < EVENT_QUEUE_SIZE - 1
  BY AdvanceValue, Size DEF Indexes, OccupiedOf
<1>5. ring[head] \in 0 .. MaxEvents
  BY DEF Rings
<1>6. /\ Append(old, ring[head]) \in EventSeqs
      /\ Len(Append(old, ring[head])) = n + 1
      /\ \A i \in 1 .. n : Append(old, ring[head])[i] = old[i]
      /\ Append(old, ring[head])[n + 1] = ring[head]
  <2> HIDE DEF old, n
  <2> QED BY <1>2, <1>5 DEF EventSeqs
<1>7. \A i \in 1 .. Len(new) : new[i] = Append(old, ring[head])[i]
  <2> SUFFICES ASSUME NEW i \in 1 .. n + 1 PROVE new[i] = Append(old, ring[head])[i]
    BY <1>3, <1>4
  <2>1. new[i] = ring[SlotOf(tail, i)]
    BY <1>4 DEF ContentsOf
  <2>2. CASE i \in 1 .. n
    <3>1. old[i] = ring[SlotOf(tail, i)]
      BY <2>2 DEF ContentsOf
    <3> QED BY <2>1, <2>2, <3>1, <1>6
  <2>3. CASE i = n + 1
    <3>1. SlotOf(tail, n + 1) = head
      BY <1>4, Size DEF Indexes, OccupiedOf, SlotOf
    <3> QED BY <2>1, <2>3, <3>1, <1>6
  <2> QED BY <2>2, <2>3, <1>2
<1>8. new = Append(old, ring[head])
  BY <1>3, <1>4, <1>6, <1>7, SeqEqual DEF EventSeqs
<1> QED BY <1>4, <1>8

\* What is written before the head is published is not seen yet.
LEMMA WriteUnseen ==
  ASSUME NEW ring \in Rings, NEW head \in Indexes, NEW tail \in Indexes,
         NEW e \in 0 .. MaxEvents
  PROVE  ContentsOf([ring EXCEPT ![head] = e], head, tail) = ContentsOf(ring, head, tail)
<1>1. \A i \in 1 .. OccupiedOf(head, tail) :
        SlotOf(tail, i) \in Indexes /\ SlotOf(tail, i) # head
  BY Size DEF Indexes, OccupiedOf, SlotOf
<1>2. \A i \in 1 .. OccupiedOf(head, tail) :
        [ring EXCEPT ![head] = e][SlotOf(tail, i)] = ring[SlotOf(tail, i)]
  BY <1>1 DEF Rings
<1> QED BY <1>2 DEF ContentsOf

-----------------------------------------------------------------------------
(* The queue is a bounded FIFO.  A trigger about to publish has written its  *)
(* event, and nobody has had it accepted before; a clear between its last    *)
(* two writes has emptied the ring.                                          *)
WrittenInv == \A t \in Callers : caller[t] = "publish" => eventQueue[queueHead] = event[t]
FreshInv ==
  /\ \A e \in accepted : e =< triggered
  /\ \A t \in Callers : caller[t] # "out" => event[t] \notin accepted /\ event[t] =< triggered
ResetInv ==
  /\ clearer = "tail" => queueTail = queueHead
  /\ clearer = "head" => queueTail = 0
BufferInv == WrittenInv /\ FreshInv /\ ResetInv

\* BufferInv is inductive: the triggers, and the drain loop and the clears.
LEMMA TriggerBuffer ==
  ASSUME Overlap = {}, TypeInv, TypeInv', RingInv, BufferInv, NEW t \in Callers,
         ComputeNext(t) \/ TestFull(t) \/ WriteSlot(t) \/ Publish(t)
  PROVE  BufferInv'
<1> USE DEF RingInv, OneTrigger, ClearInv, NobodyTriggers
<1>0. /\ triggered \in Int /\ accepted \subseteq EventIds
      /\ eventQueue \in [Indexes -> 0 .. MaxEvents] /\ queueHead \in Indexes
      /\ event \in [Callers -> 0 .. MaxEvents]
      /\ caller \in [Callers -> {"out", "test", "write", "publish"}]
  <2>1. triggered \in Int /\ accepted \subseteq EventIds
    BY MaxEventsAssumption DEF TypeInv, QueueTypeOK
  <2> QED BY <2>1 DEF TypeInv, QueueTypeOK
<1>1. ResetInv'
  <2>1. clearer = "out"
    BY Overlap = {} DEF ComputeNext, TestFull, WriteSlot, Publish
  <2>2. clearer' = "out"
    BY <2>1 DEF ComputeNext, TestFull, WriteSlot, Publish
  <2> QED BY <2>2 DEF ResetInv
<1>2. CASE ComputeNext(t)
  <2>1. WrittenInv'
    BY <1>0, <1>2 DEF ComputeNext, BufferInv, WrittenInv, ringVars
  <2>2. \A e \in accepted : e =< triggered /\ e \in Int
    BY <1>0 DEF BufferInv, FreshInv, EventIds
  <2>3. FreshInv'
    BY <1>0, <1>2, <2>2 DEF ComputeNext, BufferInv, FreshInv
  <2> QED BY <1>1, <2>1, <2>3 DEF BufferInv
<1>3. CASE TestFull(t)
  <2>1. WrittenInv'
    BY <1>0, <1>3 DEF TestFull, BufferInv, WrittenInv, ringVars
  <2>2. FreshInv'
    BY <1>0, <1>3 DEF TestFull, BufferInv, FreshInv
  <2> QED BY <1>1, <2>1, <2>2 DEF BufferInv
<1>4. CASE WriteSlot(t)
  <2>1. WrittenInv'
    BY <1>0, <1>4 DEF WriteSlot, Slot, BufferInv, WrittenInv
  <2>2. FreshInv'
    BY <1>0, <1>4 DEF WriteSlot, BufferInv, FreshInv
  <2> QED BY <1>1, <2>1, <2>2 DEF BufferInv
<1>5. CASE Publish(t)
  <2>1. \A u \in Callers : caller'[u] = "out"
    BY <1>0, <1>5 DEF Publish
  <2>2. \A e \in accepted' : e =< triggered'
    BY <1>0, <1>5 DEF Publish, BufferInv, FreshInv
  <2> QED BY <1>1, <2>1, <2>2 DEF BufferInv, WrittenInv, FreshInv
<1> QED BY <1>2, <1>3, <1>4, <1>5

LEMMA OthersBuffer ==
  ASSUME Overlap = {}, TypeInv, RingInv, BufferInv,
         Drain \/ Clear \/ UNCHANGED queueVars
  PROVE  BufferInv'
<1>1. CASE Drain
  <2>1. clearer = "out" /\ clearer' = "out"
    BY <1>1, Overlap = {} DEF Drain, DrainTest, DrainProcess, DrainAdvance, MayDrain
  <2>2. UNCHANGED <<eventQueue, queueHead, caller, event, accepted, triggered>>
    BY <1>1 DEF Drain, DrainTest, DrainProcess, DrainAdvance, ringVars
  <2> QED BY <2>1, <2>2 DEF BufferInv, WrittenInv, FreshInv, ResetInv
<1>2. CASE Clear
  <2>1. \A t \in Callers : caller[t] = "out" /\ caller'[t] = "out"
    BY <1>2, Overlap = {} DEF Clear, ClearBegin, ClearLoop, ClearTail, ClearHead, RingInv,
       ClearInv, NobodyTriggers
  <2>2. UNCHANGED <<accepted, triggered>>
    BY <1>2 DEF Clear, ClearBegin, ClearLoop, ClearTail, ClearHead
  <2>3. ResetInv'
    BY <1>2 DEF Clear, ClearBegin, ClearLoop, ClearTail, ClearHead, BufferInv, ResetInv, ringVars
  <2> QED BY <2>1, <2>2, <2>3 DEF BufferInv, WrittenInv, FreshInv
<1>3. CASE UNCHANGED queueVars
  BY <1>3 DEF queueVars, BufferInv, WrittenInv, FreshInv, ResetInv
<1> QED BY <1>1, <1>2, <1>3

(* What the steps are to the buffer.  A publication puts an event into it.   *)
LEMMA PublishPuts ==
  ASSUME QueueTypeOK, TypeInv, RingInv, BufferInv, ContentsInv, ContentsInv',
         NEW t \in Callers, Publish(t)
  PROVE  Fifo!Put(event[t])
<1>1. /\ queueHead \in Indexes /\ queueTail \in Indexes /\ eventQueue \in Rings
      /\ event[t] \in EventIds
  BY DEF QueueTypeOK, TypeInv, EventChosen, Publish, Rings
<1>2. queueHead' = Advance(queueHead) /\ Advance(queueHead) # queueTail
  BY DEF Publish, RingInv, NextInv, RoomInv
<1>3. UNCHANGED <<eventQueue, queueTail, drainer, clearer, handled>> /\ clearer = "out"
  BY DEF Publish, RingInv, ClearInv, NobodyTriggers
<1>4. eventQueue[queueHead] = event[t] /\ event[t] \notin accepted
  BY DEF Publish, BufferInv, WrittenInv, FreshInv
<1> DEFINE n == OccupiedOf(queueHead, queueTail)
<1>5. Contents' = Append(Contents, event[t]) /\ n < EVENT_QUEUE_SIZE - 1
  BY <1>1, <1>2, <1>3, <1>4, LastJoins DEF ContentsInv
<1>6. Contents \in EventSeqs /\ Len(Contents) = n /\ n \in Nat
      /\ (queueHead # queueTail <=> n > 0)
  BY <1>1, ContentsType DEF ContentsInv
<1> HIDE DEF n
<1>7. Len(Buffer) < EVENT_QUEUE_SIZE - 1 /\ Buffer' = Append(Buffer, event[t])
  <2>1. CASE drainer = "advance"
    <3>1. Contents # << >>
      BY <2>1, <1>6, EmptySeq DEF RingInv, DrainInv, EventSeqs
    <3>2. Len(Tail(Contents)) = n - 1
      BY <3>1, <1>6, HeadTailProperties DEF EventSeqs
    <3>3. Tail(Append(Contents, event[t])) = Append(Tail(Contents), event[t])
      BY <3>1, <1>1, <1>6 DEF EventSeqs, EventIds
    <3> QED BY <2>1, <3>2, <3>3, <1>3, <1>5, <1>6, Size DEF Buffer
  <2>2. CASE drainer # "advance"
    BY <2>2, <1>3, <1>5, <1>6 DEF Buffer
  <2> QED BY <2>1, <2>2
<1> QED BY <1>3, <1>4, <1>7 DEF Fifo!Put, Publish

\* A call of processEvent takes the first event out of it.
LEMMA ProcessTakes ==
  ASSUME Overlap = {}, QueueTypeOK, RingInv, ContentsInv, ContentsInv', DrainProcess
  PROVE  Fifo!Take
<1>1. queueHead \in Indexes /\ queueTail \in Indexes /\ eventQueue \in Rings
  BY DEF QueueTypeOK, Rings
<1>2. clearer = "out" /\ drainer = "process" /\ drainer' = "advance"
      /\ UNCHANGED <<eventQueue, queueHead, queueTail, clearer, accepted>>
      /\ queueHead # queueTail
  BY Overlap = {} DEF DrainProcess, MayDrain, ringVars, RingInv, DrainInv
<1>3. Contents # << >> /\ Head(Contents) = eventQueue[queueTail]
  BY <1>1, <1>2, FirstLeaves DEF ContentsInv
<1>4. Contents' = Contents
  BY <1>2 DEF ContentsInv
<1>5. Buffer = Contents /\ Buffer' = Tail(Contents)
  BY <1>2, <1>4 DEF Buffer
<1> QED BY <1>2, <1>3, <1>5 DEF Fifo!Take, DrainProcess

\* A round of the loop of clearEventQueue discards it.
LEMMA ClearDiscards ==
  ASSUME QueueTypeOK, RingInv, ContentsInv, ContentsInv', ClearLoop
  PROVE  Fifo!Discard \/ UNCHANGED Fifo!fifoVars
<1>1. queueHead \in Indexes /\ queueTail \in Indexes /\ eventQueue \in Rings
  BY DEF QueueTypeOK, Rings
<1>2. clearer = "loop" /\ clearer' # "head" /\ drainer = "test" /\ drainer' = "test"
      /\ UNCHANGED <<eventQueue, queueHead, accepted, handled>>
  BY DEF ClearLoop, RingInv, ClearInv
<1>3. Buffer = Contents /\ Buffer' = Contents'
  BY <1>2 DEF Buffer
<1>4. CASE queueTail # queueHead
  <2>1. queueTail' = Advance(queueTail)
    BY <1>4 DEF ClearLoop
  <2>2. Contents # << >> /\ Contents' = Tail(Contents)
    BY <1>1, <1>2, <1>4, <2>1, FirstLeaves DEF ContentsInv
  <2> QED BY <1>2, <1>3, <2>2 DEF Fifo!Discard
<1>5. CASE queueTail = queueHead
  <2>1. queueTail' = queueTail
    BY <1>5 DEF ClearLoop
  <2>2. Contents' = Contents
    BY <1>2, <2>1 DEF ContentsInv
  <2> QED BY <1>2, <1>3, <2>2 DEF Fifo!fifoVars
<1> QED BY <1>4, <1>5

\* The other steps leave it as it is.
LEMMA TriggerStutters ==
  ASSUME TypeInv, RingInv, ContentsInv, ContentsInv',
         NEW t \in Callers, ComputeNext(t) \/ TestFull(t) \/ WriteSlot(t)
  PROVE  UNCHANGED Fifo!fifoVars
<1>1. /\ queueHead \in Indexes /\ queueTail \in Indexes /\ eventQueue \in Rings
      /\ event[t] \in 0 .. MaxEvents
  BY DEF TypeInv, QueueTypeOK, Rings
<1>2. UNCHANGED <<queueHead, queueTail, drainer, clearer, accepted, handled>>
  BY DEF ComputeNext, TestFull, WriteSlot, ringVars
<1>3. Contents' = Contents
  <2>1. CASE ComputeNext(t) \/ TestFull(t)
    <3>1. UNCHANGED eventQueue
      BY <2>1 DEF ComputeNext, TestFull, ringVars
    <3> QED BY <1>2, <3>1 DEF ContentsInv
  <2>2. CASE WriteSlot(t)
    <3>1. eventQueue' = [eventQueue EXCEPT ![queueHead] = event[t]]
      BY <2>2 DEF WriteSlot, Slot
    <3> QED BY <1>1, <1>2, <3>1, WriteUnseen DEF ContentsInv
  <2> QED BY <2>1, <2>2
<1> QED BY <1>2, <1>3 DEF Buffer, Fifo!fifoVars

LEMMA DrainStutters ==
  ASSUME Overlap = {}, QueueTypeOK, RingInv, ContentsInv, ContentsInv',
         DrainTest \/ DrainAdvance
  PROVE  UNCHANGED Fifo!fifoVars
<1>1. queueHead \in Indexes /\ queueTail \in Indexes /\ eventQueue \in Rings
  BY DEF QueueTypeOK, Rings
<1>2. clearer = "out" /\ drainer' # "advance"
      /\ UNCHANGED <<eventQueue, queueHead, clearer, accepted, handled>>
  BY Overlap = {} DEF DrainTest, DrainAdvance, MayDrain, ringVars
<1>3. CASE DrainTest
  <2>1. drainer # "advance" /\ UNCHANGED queueTail
    BY <1>3 DEF DrainTest, ringVars
  <2>2. Contents' = Contents
    BY <1>2, <2>1 DEF ContentsInv
  <2> QED BY <1>2, <2>1, <2>2 DEF Buffer, Fifo!fifoVars
<1>4. CASE DrainAdvance
  <2>1. drainer = "advance" /\ queueTail' = Advance(queueTail) /\ queueHead # queueTail
    BY <1>4 DEF DrainAdvance, RingInv, DrainInv
  <2>2. Contents' = Tail(Contents)
    BY <1>1, <1>2, <2>1, FirstLeaves DEF ContentsInv
  <2> QED BY <1>2, <2>1, <2>2 DEF Buffer, Fifo!fifoVars
<1> QED BY <1>3, <1>4

LEMMA ClearStutters ==
  ASSUME Overlap = {}, QueueTypeOK, QueueTypeOK', RingInv, BufferInv, ContentsInv,
         ContentsInv', ClearBegin \/ ClearTail \/ ClearHead
  PROVE  UNCHANGED Fifo!fifoVars
<1>1. /\ queueHead \in Indexes /\ queueHead' \in Indexes
      /\ eventQueue \in Rings /\ eventQueue' \in Rings
  BY DEF QueueTypeOK, Rings
<1>2. drainer = "test" /\ drainer' = "test" /\ UNCHANGED <<accepted, handled>>
  BY Overlap = {} DEF ClearBegin, ClearTail, ClearHead, RingInv, ClearInv
<1>3. CASE ClearBegin
  <2>1. Contents' = Contents
    BY <1>3 DEF ClearBegin, ringVars, ContentsInv
  <2>2. clearer # "head" /\ clearer' # "head"
    BY <1>3 DEF ClearBegin
  <2> QED BY <1>2, <2>1, <2>2 DEF Buffer, Fifo!fifoVars
<1>4. CASE ClearTail
  <2>1. queueTail = queueHead /\ clearer = "tail" /\ clearer' = "head"
    BY <1>4 DEF ClearTail, BufferInv, ResetInv
  <2>2. Contents = << >>
    BY <1>1, <2>1, NothingLeft DEF ContentsInv
  <2> QED BY <1>2, <2>1, <2>2 DEF Buffer, Fifo!fifoVars
<1>5. CASE ClearHead
  <2>1. queueTail' = queueHead' /\ clearer = "head" /\ clearer' = "out"
    BY <1>5 DEF ClearHead, BufferInv, ResetInv
  <2>2. Contents' = << >>
    BY <1>1, <2>1, NothingLeft DEF ContentsInv
  <2> QED BY <1>2, <2>1, <2>2 DEF Buffer, Fifo!fifoVars
<1> QED BY <1>3, <1>4, <1>5

LEMMA IdleStutters ==
  ASSUME ContentsInv, ContentsInv', UNCHANGED queueVars
  PROVE  UNCHANGED Fifo!fifoVars
<1>1. Contents' = Contents
  BY DEF queueVars, ContentsInv
<1> QED BY <1>1 DEF queueVars, Buffer, Fifo!fifoVars

(* For every size of the ring and any number of tasks: where triggers and    *)
(* clears do not overlap, the ring of fsm.cpp is a bounded first-in          *)
(* first-out queue.  Nothing accepted is lost, handled twice or handled out  *)
(* of order, unless it is cleared.                                           *)
THEOREM QueueIsFifo ==
  ASSUME Overlap = {}
  PROVE  QueueSpec => Fifo!FifoSafety
<1> DEFINE Inv == TypeInv /\ RingInv /\ BufferInv
<1>1. QueueInit => Inv /\ Fifo!FifoInit
  <2> SUFFICES ASSUME QueueInit PROVE Inv /\ Fifo!FifoInit
    OBVIOUS
  <2>1. TypeInv
    BY QueueInitType
  <2>2. RingInv
    BY QueueInitRing
  <2>3. BufferInv
    BY DEF QueueInit, BufferInv, WrittenInv, FreshInv, ResetInv
  <2>4. queueHead \in Indexes /\ eventQueue \in Rings /\ queueTail = queueHead
    BY <2>1 DEF TypeInv, QueueTypeOK, Rings, QueueInit
  <2>5. Contents = << >>
    BY <2>4, NothingLeft, ContentsValue DEF ContentsInv
  <2> QED BY <2>1, <2>2, <2>3, <2>5 DEF QueueInit, Buffer, Fifo!FifoInit
<1>2. Inv => ContentsInv
  BY ContentsValue DEF TypeInv, QueueTypeOK
<1>3. Inv /\ [QueueNext]_queueVars => Inv'
  <2> SUFFICES ASSUME Inv, [QueueNext]_queueVars PROVE Inv'
    OBVIOUS
  <2>1. TypeInv'
    BY QueueStepType
  <2>2. RingInv'
    BY <2>1, QueueStepRing, Overlap = {} DEF TypeInv
  <2>3. BufferInv'
    BY <2>1, TriggerBuffer, OthersBuffer, Overlap = {} DEF QueueNext
  <2> QED BY <2>1, <2>2, <2>3
<1>4. Inv /\ Inv' /\ ContentsInv /\ ContentsInv' /\ [QueueNext]_queueVars
        => [Fifo!FifoNext]_(Fifo!fifoVars)
  <2> SUFFICES ASSUME Inv, Inv', ContentsInv, ContentsInv', [QueueNext]_queueVars
               PROVE  [Fifo!FifoNext]_(Fifo!fifoVars)
    OBVIOUS
  <2>0. QueueTypeOK /\ QueueTypeOK'
    BY DEF TypeInv
  <2>1. ASSUME NEW t \in Callers, ComputeNext(t) \/ TestFull(t) \/ WriteSlot(t)
        PROVE  UNCHANGED Fifo!fifoVars
    BY <2>1, TriggerStutters
  <2>2. ASSUME NEW t \in Callers, Publish(t)
        PROVE  Fifo!FifoNext
    <3>1. event[t] \in EventIds /\ Fifo!Put(event[t])
      BY <2>0, <2>2, PublishPuts DEF TypeInv, EventChosen, Publish
    <3> QED BY <3>1 DEF Fifo!FifoNext
  <2>3. CASE DrainProcess
    BY <2>0, <2>3, ProcessTakes, Overlap = {} DEF Fifo!FifoNext
  <2>4. CASE ClearLoop
    BY <2>0, <2>4, ClearDiscards DEF Fifo!FifoNext
  <2>5. CASE DrainTest \/ DrainAdvance
    BY <2>0, <2>5, DrainStutters, Overlap = {}
  <2>6. CASE ClearBegin \/ ClearTail \/ ClearHead
    BY <2>0, <2>6, ClearStutters, Overlap = {}
  <2>7. CASE UNCHANGED queueVars
    BY <2>7, IdleStutters
  <2> QED BY <2>1, <2>2, <2>3, <2>4, <2>5, <2>6, <2>7 DEF QueueNext, Drain, Clear
<1> QED BY <1>1, <1>2, <1>3, <1>4, PTL DEF QueueSpec, Fifo!FifoSafety
=============================================================================
