----------------------------- MODULE EventFifo -----------------------------
(***************************************************************************)
(* What the event queue of the state machine promises its callers ("Event  *)
(* queue", "Process queued events (FIFO)" in iot/src/fsm/fsm.cpp): an      *)
(* event whose trigger reported success is handled exactly once, in the    *)
(* order of the triggers, unless the queue is cleared first.               *)
(***************************************************************************)
EXTENDS Naturals, Sequences

CONSTANTS Capacity, EventIds

VARIABLES
  accepted,  (* the events whose trigger returned true                       *)
  buffer,    (* accepted, neither handled nor cleared                        *)
  handled    (* the events the machine processed, in order                   *)

fifoVars == <<accepted, buffer, handled>>

FifoInit == accepted = {} /\ buffer = << >> /\ handled = << >>

Put(e) ==
  /\ e \notin accepted
  /\ Len(buffer) < Capacity
  /\ accepted' = accepted \cup {e}
  /\ buffer' = Append(buffer, e)
  /\ UNCHANGED handled

Take ==
  /\ buffer # << >>
  /\ handled' = Append(handled, Head(buffer))
  /\ buffer' = Tail(buffer)
  /\ UNCHANGED accepted

Discard ==
  /\ buffer # << >>
  /\ buffer' = Tail(buffer)
  /\ UNCHANGED <<accepted, handled>>

FifoNext == (\E e \in EventIds : Put(e)) \/ Take \/ Discard

FifoSafety == FifoInit /\ [][FifoNext]_fifoVars
FifoSpec == FifoSafety /\ WF_fifoVars(Take \/ Discard)
=============================================================================
