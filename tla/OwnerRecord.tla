---------------------------- MODULE OwnerRecord ----------------------------
(***************************************************************************)
(* What the owner slot of the CCC mailbox promises: one owner or none,     *)
(* changed only by an enrolment or a clear that is under way, at one       *)
(* instant of it.  An enrolment may begin only where there is no owner, or *)
(* in a session that force was on at the beginning of.  Loss of power ends *)
(* what is under way and changes nothing.                                  *)
(***************************************************************************)
CONSTANTS Owners, NoOwner

VARIABLES
  owner,
  pending,  (* the owners that what is under way would lead to               *)
  forced,   (* force provisioning                                            *)
  licensed  (* the session that is open began under force                    *)

recordVars == <<owner, pending, forced, licensed>>

RecordInit ==
  /\ owner \in Owners \cup {NoOwner} /\ pending = {}
  /\ forced \in BOOLEAN /\ licensed = FALSE

OpenSession ==
  /\ licensed' = forced
  /\ UNCHANGED <<owner, pending, forced>>

Ask(o) ==
  /\ o \in Owners => owner = NoOwner \/ licensed
  /\ pending' = pending \cup {o}
  /\ licensed' \in {licensed, FALSE}
  /\ UNCHANGED <<owner, forced>>

Proceed ==
  /\ owner' \in pending \cup {owner}
  /\ pending' \subseteq pending
  /\ forced' \in BOOLEAN
  /\ licensed' \in {licensed, FALSE}

RecordNext == OpenSession \/ Proceed \/ \E o \in Owners \cup {NoOwner} : Ask(o)
RecordSpec == RecordInit /\ [][RecordNext]_recordVars
=============================================================================
