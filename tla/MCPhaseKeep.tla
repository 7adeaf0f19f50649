----------------------------- MODULE MCPhaseKeep -----------------------------
(***************************************************************************)
(* Instances of PhaseKeep for TLC.                                         *)
(***************************************************************************)
EXTENDS PhaseKeep

Regime(f, s, l, m, u) == [flips |-> f, first |-> s, later |-> l, members |-> m, upsets |-> u]

\* x2, where nothing rotates; x3, also going over to a pace of three flips; x4; and a desktop that
\* reads as x4 with a frame a batch.
MCRegimes ==
    {Regime(2, 2, 2, 2, 1), Regime(3, 2, 3, 2, 1), Regime(4, 2, 2, 2, 2), Regime(4, 2, 2, 1, 1)}
MCx3 == {Regime(3, 2, 2, 2, 1)}

\* A stall that changes the class of the batches at x4; one no count reaches over; and one of three
\* source periods.
MCStalls == {11}
MCLongStalls == {26}
MCFirstStalls == {9}
==============================================================================
