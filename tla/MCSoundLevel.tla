---------------------------- MODULE MCSoundLevel ----------------------------
(***************************************************************************)
(* The runs of SoundLevel, and a sentence of volume_memory.h the code does *)
(* not keep.                                                               *)
(***************************************************************************)
EXTENDS SoundLevel

\* Bound: nothing is explored after a level has slipped.
UntilSlip == ~slipped

\* "The lowered level is never remembered as the device's own."
LoweredNotRemembered ==
  \A i \in DOMAIN s.entries : s.entries[i][2] \in Real
=============================================================================
