---------------------------- MODULE MCCaptureRing ----------------------------
(***************************************************************************)
(* Instances of CaptureRing for TLC.                                       *)
(***************************************************************************)
EXTENDS CaptureRing

Options(d, q, p, f, w) ==
    [deferCopy |-> d, queries |-> q, phaseKeep |-> p, fgPhase |-> f, wgc |-> w]

\* Every way the loop is launched with NvFBC only; -fgphase only as far as it
\* matters here, together with -defer.
MCNvfbcModes ==
    {Options(d, q, p, FALSE, FALSE) : d \in BOOLEAN, q \in {TRUE}, p \in BOOLEAN}
        \cup {Options(TRUE, FALSE, FALSE, FALSE, FALSE), Options(TRUE, TRUE, FALSE, TRUE, FALSE)}

\* The launches that move to Windows.Graphics.Capture.
MCWgcModes == {Options(TRUE, TRUE, FALSE, FALSE, TRUE), Options(FALSE, FALSE, TRUE, FALSE, TRUE)}

MCAllModes == MCNvfbcModes \cup MCWgcModes
===============================================================================
