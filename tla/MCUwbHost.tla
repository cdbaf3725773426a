------------------------------ MODULE MCUwbHost ------------------------------
(***************************************************************************)
(* Instances of UwbHost for TLC.                                           *)
(***************************************************************************)
EXTENDS UwbHost

\* What the chip and the line do wrong in every combination; the overlap of an OOB write
\* with a start on its own.
CheckedFaultSets ==
  SUBSET {"refusesRepeat", "framing", "handles"} \cup {{"oobOverStart"}}
=============================================================================
