----------------------------- MODULE MCRingReader -----------------------------
(***************************************************************************)
(* Instances of RingReader for TLC.                                        *)
(***************************************************************************)
EXTENDS RingReader

Options(d, q, p) ==
    [deferCopy |-> d, queries |-> q, phaseKeep |-> p, fgPhase |-> FALSE, wgc |-> FALSE]

\* No copy put off, copies put off and not waited for, and phase-aware keep-real.
MCModes == {Options(FALSE, TRUE, FALSE), Options(TRUE, TRUE, FALSE), Options(FALSE, TRUE, TRUE)}
===============================================================================
