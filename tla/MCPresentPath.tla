---------------------------- MODULE MCPresentPath ----------------------------
(***************************************************************************)
(* Instances of PresentPath for TLC.  The unit is about a millisecond: a   *)
(* source of 60 frames a second has a period of 16.                        *)
(***************************************************************************)
EXTENDS PresentPath

Run(backend, srcPeriod, drawsFail) ==
    [backend |-> backend, stickiness |-> 1, passthrough |-> 4, srcPeriod |-> srcPeriod,
     drawsFail |-> drawsFail]

\* The tooth guard armed and off, draws that work and that may fail.
MCAll == {Run("d3d11", 16, FALSE), Run("synth9", 16, TRUE), Run("d3d11", 0, TRUE),
          [Run("nearest", 0, FALSE) EXCEPT !.stickiness = 4]}

MCGuarded == {Run("d3d11", 16, FALSE)}

MCGaps == {16}

\* The present clock at the source's rate and at twice its rate, and a step back.
MCSteps == {-4, 8, 16}

\* The first frame may come off the present's grid.
MCOffGaps == {16, 18}
MCFastSteps == {8}
===============================================================================
