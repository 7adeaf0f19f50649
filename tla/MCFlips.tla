------------------------------- MODULE MCFlips -------------------------------
(***************************************************************************)
(* An instance of FlipUsers for TLC.                                       *)
(***************************************************************************)
EXTENDS FlipUsers, MCPhaseKeep

\* Two flips a batch; a batch most of a step late, and two missing, which a chain still spans.
MCStrides == {2}
MCLatenesses == {7}
MCGaps == {3}
MCTargets == {-12}
==============================================================================
