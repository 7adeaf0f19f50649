-------------------------------- MODULE Output --------------------------------
(***************************************************************************)
(* D3D11PresentBackend presenting with the copy engine: the present        *)
(* thread's turn of wait, compose, marker and present, beside the GPU and  *)
(* the display of CopyEngine.  How a turn without a buffer or a lost       *)
(* presentation manager ends the run is in Session.                        *)
(***************************************************************************)
EXTENDS CopyEngine

CONSTANTS
    Settled,      \* presents after which a fault has no effect any more
    MaxFaults     \* bound on faults, for TLC

ASSUME OutputAssumption == Settled \in Nat /\ Settled >= 4 /\ MaxFaults \in Nat

VARIABLES
    loop,       \* where the present thread is
    copying,    \* m_copySource is set
    marking,    \* m_mark, until the last present to be marked
    marked,     \* this present is
    steady,     \* presents since the last one that was not paced, not drawn or not shown
    faults      \* faults so far

outputVars == <<loop, copying, marking, marked, steady, faults>>
vars == <<copyVars, outputVars>>

Init ==
    /\ CopyInit
    /\ loop = "wait" /\ copying = FALSE
    /\ marking \in BOOLEAN /\ marked = FALSE
    /\ steady = 0 /\ faults = 0

Steadier == steady' = IF steady < Settled THEN steady + 1 ELSE steady
Fault == faults < MaxFaults /\ faults' = faults + 1 /\ steady' = 0

-----------------------------------------------------------------------------
\* WaitForFrame: the buffer is back, or a quarter of a second has gone by.
BufferBack ==
    /\ loop = "wait" /\ Available(next)
    /\ loop' = "compose"
    /\ Steadier
    /\ UNCHANGED <<copyVars, copying, marking, marked, faults>>

WaitTimesOut ==
    /\ loop = "wait" /\ ~Available(next)
    /\ loop' = "compose"
    /\ Fault
    /\ UNCHANGED <<copyVars, copying, marking, marked>>

\* Compose: one frame as it is goes to the copy engine if it can be copied,
ComposeCopy ==
    /\ loop = "compose" /\ loop' = "mark"
    /\ copying' = TRUE
    /\ UNCHANGED <<copyVars, marking, marked, steady, faults>>

\* any other and a blend are drawn now,
ComposeDraw ==
    /\ loop = "compose" /\ loop' = "mark"
    /\ draws' = Append(draws, Draw(FALSE))
    /\ UNCHANGED <<number, next, pendingMark, strip, copies, content, queue, shown,
                   copying, marking, marked, steady, faults>>

\* and nothing is before the first frame, or when drawing fails.
ComposeNothing ==
    /\ loop = "compose" /\ loop' = "mark"
    /\ Fault
    /\ UNCHANGED <<copyVars, copying, marking, marked>>

\* Mutant: the marker is left to the copy engine, also where it does not copy.
BurnMarkerCopied ==
    /\ loop = "mark" /\ loop' = "present"
    /\ marking' \in {marking, FALSE} /\ marked' = marking
    /\ IF marking THEN pendingMark' = number ELSE UNCHANGED pendingMark
    /\ UNCHANGED <<number, next, strip, copies, draws, content, queue, shown,
                   copying, steady, faults>>

\* BurnMarker: the marker is copied with a copied frame and drawn over a drawn one; -mark N stops
\* it after some present.
BurnMarker ==
    /\ loop = "mark" /\ loop' = "present"
    /\ marking' \in {marking, FALSE} /\ marked' = marking
    /\ IF marking /\ copying THEN pendingMark' = number ELSE UNCHANGED pendingMark
    /\ IF marking /\ ~copying THEN draws' = Append(draws, Draw(TRUE)) ELSE UNCHANGED draws
    /\ UNCHANGED <<number, next, strip, copies, content, queue, shown, copying, steady, faults>>

\* Drawing it fails: the present goes on without it.
MarkerNotDrawn ==
    /\ loop = "mark" /\ loop' = "present"
    /\ marking /\ ~copying
    /\ marking' \in BOOLEAN /\ marked' = TRUE
    /\ Fault
    /\ UNCHANGED <<copyVars, copying>>

Presented ==
    /\ loop = "present" /\ loop' = "wait"
    /\ copying' = FALSE /\ marked' = FALSE
    /\ UNCHANGED marking

\* Present; a copied frame waits for its allocator first.
PresentFrame ==
    /\ Presented
    /\ IF copying THEN ~CopyBusy(next) /\ PresentCopy(marked) ELSE PresentDrawn(marked)
    /\ IF queue' # queue THEN UNCHANGED <<steady, faults>> ELSE Fault

\* The wait for the allocator gives up after a second, or its event was left set by one that did;
\* the copy is handed over all the same.
PresentUnready ==
    /\ Presented
    /\ copying /\ CopyBusy(next) /\ PresentCopy(marked)
    /\ steady' = 0 /\ UNCHANGED faults

PresentNotCopied == Presented /\ copying /\ CopyNotReset /\ Fault

PresentThread ==
    \/ BufferBack \/ WaitTimesOut \/ ComposeCopy \/ ComposeDraw \/ ComposeNothing
    \/ BurnMarker \/ MarkerNotDrawn \/ PresentFrame \/ PresentUnready \/ PresentNotCopied

Gpu == (CopyDone \/ DrawDone \/ Show) /\ UNCHANGED outputVars

Next == PresentThread \/ Gpu

Spec == Init /\ [][Next]_vars

-----------------------------------------------------------------------------
OnDisplay == content[shown.buffer]
Judged == steady >= Settled /\ shown.buffer # -1

\* The buffer on the display holds the picture of the present that put it there.
ShownOwn == Judged => OnDisplay.of = shown.of

\* The picture of a present to be marked has that present's own marker on the display.
MarkOwn == Judged /\ shown.marked => OnDisplay.mark = shown.of

\* Two buffers are enough: when the one has come back, all that was to be done is done, the reading
\* of frames with it, but for the last present's work.
ReadsDone ==
    steady >= Settled /\ loop = "compose" =>
        \A w \in ToSet(copies) \union ToSet(draws) : w.of = (number - 1) % Numbers
=============================================================================
