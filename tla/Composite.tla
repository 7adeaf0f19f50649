------------------------------ MODULE Composite ------------------------------
(***************************************************************************)
(* What a present shows, as src/core/TemporalPolicy.cpp decides it from    *)
(* the bracket around the target: SelectFrame for the nearest mode and     *)
(* DecideComposite for the blend modes.  Both are pure functions of the    *)
(* bracket b, of their memory s and of the settings c.                     *)
(*                                                                         *)
(* A bracket has a frame at or before the target, one after it, both or    *)
(* neither; a side that is missing has stamp and distance zero, as in the  *)
(* code.                                                                   *)
(***************************************************************************)
EXTENDS Integers

\* Before every time there is (INT64_MIN in the code).
Never == -1000000

\* Mutant: every source faster than the present clock takes a quarter of the present period.
PresentFloor(srcPeriod, presentPeriod) ==
    IF srcPeriod < presentPeriod THEN presentPeriod \div 4 ELSE srcPeriod \div 4

\* The blend modes' threshold: how near a real frame has to be to be shown as it is.
PassthroughThreshold(srcPeriod, presentPeriod) ==
    IF srcPeriod \div 2 <= presentPeriod \div 4 THEN presentPeriod \div 4 ELSE srcPeriod \div 4

\* The tooth guard's period, zero for off: it is armed for a source at or above the sink's rate.
ToothGuardPeriod(srcPeriod, sinkPeriod, combOn) ==
    IF ~combOn \/ srcPeriod > (sinkPeriod * 9) \div 8 THEN 0 ELSE srcPeriod

Target(b) == b.beforeTs + b.beforeDiff

\* Mutant: the band leans to one side whichever was picked last.
BeforeBiased(b, lastAfter, c) == b.beforeDiff <= b.afterDiff + c.stickiness

\* The side choice keeps to the side of the last pick unless the other is nearer by the band.
BeforeCloser(b, lastAfter, c) ==
    b.beforeDiff <= b.afterDiff + (IF lastAfter THEN -c.stickiness ELSE c.stickiness)

-----------------------------------------------------------------------------
\* The nearest mode.

FirstSelection == [shown |-> 0, pickAfter |-> FALSE, gateOpen |-> TRUE]

BeforeNew(b, s) == b.hasBefore /\ b.beforeTs > s.shown
AfterNew(b, s) == b.hasAfter /\ b.afterTs > s.shown

\* Only the after-frame is new and the target may still be on the frame shown.
AtGate(b, s) == AfterNew(b, s) /\ b.hasBefore /\ ~BeforeNew(b, s)

\* Mutant: the gate's comparison is the wrong way round.
GateReversed(b, s, c) ==
    AtGate(b, s) => b.beforeDiff < (IF s.gateOpen THEN c.stickiness ELSE 2 * c.stickiness)

\* Advance to the after-frame, unless the target has not left the frame shown.
GateOpen(b, s, c) ==
    AtGate(b, s) => b.beforeDiff >= (IF s.gateOpen THEN c.stickiness ELSE 2 * c.stickiness)

SelectFrame(b, s, c) ==
    LET gate == IF AtGate(b, s) THEN GateOpen(b, s, c) ELSE s.gateOpen
        before == [pick |-> "before",
                   st |-> [shown |-> b.beforeTs, pickAfter |-> FALSE, gateOpen |-> gate]]
        after == [pick |-> "after",
                  st |-> [shown |-> b.afterTs, pickAfter |-> TRUE, gateOpen |-> gate]]
    IN CASE BeforeNew(b, s) /\ AfterNew(b, s) ->
                IF BeforeCloser(b, s.pickAfter, c) THEN before ELSE after
         [] BeforeNew(b, s) /\ ~AfterNew(b, s) -> before
         [] ~BeforeNew(b, s) /\ AfterNew(b, s) /\ GateOpen(b, s, c) -> after
         [] OTHER -> [pick |-> "repeat", st |-> [s EXCEPT !.gateOpen = gate]]

-----------------------------------------------------------------------------
\* The blend modes.

CompositeStates == [out : Int, passAfter : BOOLEAN, synth : BOOLEAN, target : Int]

FirstComposite == [out |-> Never, passAfter |-> FALSE, synth |-> FALSE, target |-> Never]

\* The widest the passthrough gate gets.
WideGate(c) ==
    c.passthrough
        + IF c.stickiness < c.passthrough \div 4 THEN c.stickiness ELSE c.passthrough \div 4

\* Mutant: the gate has no band.
BareGate(s, c) == c.passthrough

\* Once passing, frames pass a band further out; once blending, only inside the threshold.
PassthroughGate(s, c) == IF s.synth THEN c.passthrough ELSE WideGate(c)

EligibleBefore(b, s, c) == b.hasBefore /\ b.beforeDiff < PassthroughGate(s, c)
EligibleAfter(b, s, c) == b.hasAfter /\ b.afterDiff < PassthroughGate(s, c)

\* Mutant: the guard measures from the instant last shown instead of the last target.
ToothByOutput(b, s, c) ==
    c.srcPeriod > 0 /\ s.target # Never /\ Target(b) - s.out < (c.srcPeriod * 7) \div 8

\* Mutant: the cut is at twice the period it was meant to be.
ToothTooWide(b, s, c) ==
    c.srcPeriod > 0 /\ s.target # Never /\ Target(b) - s.target < (c.srcPeriod * 7) \div 4

\* Mutant: the cut is at half of it.
ToothTooNarrow(b, s, c) ==
    c.srcPeriod > 0 /\ s.target # Never /\ Target(b) - s.target < (c.srcPeriod * 7) \div 16

\* A blend here would be a frame between two teeth of the source's comb.
SynthWouldManufactureTooth(b, s, c) ==
    c.srcPeriod > 0 /\ s.target # Never /\ Target(b) - s.target < (c.srcPeriod * 7) \div 8

Candidate(b, s, c) ==
    LET eb == EligibleBefore(b, s, c)
        ea == EligibleAfter(b, s, c)
    IN CASE eb /\ ea -> IF BeforeCloser(b, s.passAfter, c) THEN "before" ELSE "after"
         [] eb /\ ~ea -> "before"
         [] ea /\ ~eb -> "after"
         [] ~eb /\ ~ea /\ b.hasBefore /\ b.hasAfter ->
                IF ~b.exempt /\ SynthWouldManufactureTooth(b, s, c) THEN "comb" ELSE "synth"
         [] OTHER -> "hold"

OutputTs(b, op) == CASE op = "before" -> b.beforeTs
                     [] op = "after"  -> b.afterTs
                     [] OTHER         -> Target(b)

Consumed(b, s, op) ==
    [op |-> op,
     st |-> [out |-> OutputTs(b, op), target |-> Target(b), synth |-> op = "synth",
             passAfter |-> IF op = "synth" THEN s.passAfter ELSE op = "after"]]

\* Mutant: a hold between teeth counts as a present on its target.
HeldAsConsumed(b, s, op) ==
    [op |-> IF op = "comb" THEN "comb" ELSE "hold", st |-> [s EXCEPT !.target = Target(b)]]

\* A hold leaves the memory as it is.
HeldBack(b, s, op) == [op |-> IF op = "comb" THEN "comb" ELSE "hold", st |-> s]

\* The instant shown may repeat and never goes back.
DecideComposite(b, s, c) ==
    LET op == Candidate(b, s, c)
    IN IF op \in {"comb", "hold"} \/ OutputTs(b, op) < s.out
       THEN HeldBack(b, s, op) ELSE Consumed(b, s, op)
===============================================================================
