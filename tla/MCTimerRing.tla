---------------------------- MODULE MCTimerRing ----------------------------
(***************************************************************************)
(* Instances of TimerRing for TLC.  Three timers: a first, a last and one  *)
(* between them.  The clock runs for two timeouts, so that timers expire   *)
(* alone, together, and after having been moved.                           *)
(***************************************************************************)
EXTENDS TimerRing, TLC

MCSymmetry == Permutations(Timers)
=============================================================================
