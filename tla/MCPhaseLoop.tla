----------------------------- MODULE MCPhaseLoop -----------------------------
(***************************************************************************)
(* Instances of PhaseLoop for TLC.  A comb of 4800 with a slew of 20 is a  *)
(* source at 166 frames a second, whose comb is 6 ms; a tick is fine       *)
(* enough that a sixteenth of the lock's error is not rounded away.        *)
(***************************************************************************)
EXTENDS PhaseLoop

\* The source's rate, a third of a percent below it, and twice the rate.
MCIntervals == {4800, 4816, 2400}

\* A step of the phase by a quarter and by half a comb, and freezes of four and of eight frames on
\* another phase.
MCHitches == {6000, 7200, 21600, 40800}
===============================================================================
