----------------------------- MODULE PresentPath -----------------------------
(***************************************************************************)
(* What gets onto the screen, present after present, while the ring moves  *)
(* on: FindBracket around the target, the decision of module Composite,    *)
(* and the three ways the program carries it out.  D3D11PresentBackend     *)
(* and the two kinds of D3D9 compositor keep what they last drew as the    *)
(* number of a ring slot, and draw from that slot again when the decision  *)
(* is to hold.                                                             *)
(*                                                                         *)
(* A frame is published, and found, in one step here; the walk and the     *)
(* copies behind it are in RingReader and CaptureRing.                     *)
(***************************************************************************)
EXTENDS Composite, Sequences

CONSTANTS
    N,         \* m_ringSlots
    Settings,  \* the runs of the program considered: backend, PolicyConfig, whether draws may fail
    Gaps,      \* the distances between one frame's stamp and the next
    Steps,     \* the target's moves: the present clock, less what the lock moves it back
    Lag,       \* m_bracketingDelayQpc
    Start,     \* the first target
    MaxTime    \* bound on stamps, for TLC

Backends == {"d3d11", "synth9", "nearest"}

Setting == [backend : Backends, stickiness : Nat, passthrough : Nat, srcPeriod : Nat,
            drawsFail : BOOLEAN]

ASSUME PathAssumption ==
    /\ N \in Nat \ {0, 1} /\ Settings \subseteq Setting /\ Gaps \subseteq Nat
    /\ Steps \subseteq Int /\ Lag \in Nat /\ Start \in Nat \ {0}
    /\ MaxTime \in Nat

VARIABLES
    cfg,        \* the settings of this run
    ring,       \* the slots: the frame whose picture each holds, its stamp, whether it is valid
    published,  \* m_published
    target,     \* the last present's target
    sel,        \* m_selState
    comp,       \* m_compState
    last,       \* what a hold draws: slots, or the snapshot of a blend; and what that was
    shown,      \* history of the last present: what was decided, how far the after-frame was,
                \* what the target had moved for a blend
    consumed    \* history: the target of the last present that was not a hold

vars == <<cfg, ring, published, target, sel, comp, last, shown, consumed>>

None == -1

SlotOf(f) == f % N

Stamp(f) == ring[SlotOf(f)].ts

\* The frames FindBracket looks at: all of the ring but the slot written next.
Window == {f \in 0 .. (published - 1) : f > published - N}

Candidates == {f \in Window : ring[SlotOf(f)].valid}

\* The nearest frame on each side of t; of several at one distance the newest.
IsBefore(f, t) ==
    LET S == {g \in Candidates : Stamp(g) <= t}
    IN IF S = {} THEN f = None
       ELSE f \in S /\ \A g \in S : Stamp(g) < Stamp(f) \/ (Stamp(g) = Stamp(f) /\ g <= f)

IsAfter(f, t) ==
    LET S == {g \in Candidates : Stamp(g) > t}
    IN IF S = {} THEN f = None
       ELSE f \in S /\ \A g \in S : Stamp(g) > Stamp(f) \/ (Stamp(g) = Stamp(f) /\ g <= f)

Bracket(before, after, t, exempt) ==
    [hasBefore |-> before # None, hasAfter |-> after # None,
     beforeTs |-> IF before # None THEN Stamp(before) ELSE 0,
     afterTs |-> IF after # None THEN Stamp(after) ELSE 0,
     beforeDiff |-> IF before # None THEN t - Stamp(before) ELSE 0,
     afterDiff |-> IF after # None THEN Stamp(after) - t ELSE 0,
     exempt |-> exempt]

-----------------------------------------------------------------------------
NothingDrawn == [slots |-> <<>>, drew |-> <<>>]

NothingShown == [op |-> "none", ahead |-> None, advance |-> None]

Init ==
    /\ cfg \in Settings
    /\ ring = [s \in 0 .. (N - 1) |-> [frame |-> None, ts |-> 0, valid |-> FALSE]]
    /\ published = 0
    /\ target = Start
    /\ sel = FirstSelection /\ comp = FirstComposite
    /\ last = NothingDrawn /\ shown = NothingShown /\ consumed = Never

\* Frames arrive at the present time, which is a lag ahead of the target.
Newest == IF published = 0 THEN Start ELSE Stamp(published - 1)

Arrives(ts, valid) ==
    /\ ts <= target + Lag /\ ts <= MaxTime
    /\ ring' = [ring EXCEPT ![SlotOf(published)] = [frame |-> published, ts |-> ts, valid |-> valid]]

\* A batch's first member, kept or not.
CaptureFrame ==
    /\ \E gap \in Gaps, valid \in BOOLEAN : Arrives(Newest + gap, valid)
    /\ published' = published + 1
    /\ UNCHANGED <<cfg, target, sel, comp, last, shown, consumed>>

\* The batch's second member, on the same stamp: it takes the first one back.
CaptureTwin ==
    /\ published > 0 /\ (published > 1 => Stamp(published - 2) < Newest)
    /\ ring' = [ring EXCEPT ![SlotOf(published)] = [frame |-> published, ts |-> Newest, valid |-> TRUE],
                            ![SlotOf(published - 1)].valid = FALSE]
    /\ published' = published + 1
    /\ UNCHANGED <<cfg, target, sel, comp, last, shown, consumed>>

\* The frames drawn: what the slots hold by now, or what the snapshot was made of.
Redrawn == IF last.slots = <<>> THEN last.drew
           ELSE [i \in DOMAIN last.slots |-> ring[last.slots[i]].frame]

\* A frame passed through, from its slot.
Pass(f) == [slots |-> <<SlotOf(f)>>, drew |-> <<f>>]

\* A blend: D3D11 draws from the two slots, D3D9 makes a snapshot of what it drew.
Blend(before, after) ==
    [slots |-> IF cfg.backend = "d3d11" THEN <<SlotOf(before), SlotOf(after)>> ELSE <<>>,
     drew |-> <<before, after>>]

\* D3D9 shows the nearer real frame when a blend cannot be made.
Emergency(b, before, after) == Pass(IF b.afterDiff < b.beforeDiff THEN after ELSE before)

\* The decisions after which the last picture is drawn again.
Holds == {"hold", "comb", "repeat"}

\* A hold draws again what was drawn last; before anything was, a side of the bracket.
Hold(before, after) ==
    IF last # NothingDrawn THEN [last EXCEPT !.drew = Redrawn]
    ELSE IF before # None THEN Pass(before)
    ELSE IF after # None THEN Pass(after)
    ELSE NothingDrawn

Picture(op, before, after) ==
    CASE op = "before" -> Pass(before)
      [] op = "after"  -> Pass(after)
      [] op = "synth"  -> Blend(before, after)
      [] OTHER         -> Hold(before, after)

\* One present at target t.  A D3D11 draw that fails leaves the buffer as it is and the
\* memory of what was drawn alone; the policy's memory is kept either way.
PresentAt(t, before, after, exempt, failed) ==
    LET b == Bracket(before, after, t, exempt)
        pick == SelectFrame(b, sel, cfg)
        op == IF cfg.backend = "nearest" THEN pick.pick ELSE DecideComposite(b, comp, cfg).op
        pic == IF op = "synth" /\ cfg.backend = "synth9" /\ failed
               THEN Emergency(b, before, after) ELSE Picture(op, before, after)
        unchanged == cfg.backend = "d3d11" /\ failed
    IN /\ IF cfg.backend = "nearest"
          THEN sel' = pick.st /\ UNCHANGED comp
          ELSE comp' = DecideComposite(b, comp, cfg).st /\ UNCHANGED sel
       /\ last' = IF unchanged THEN last ELSE pic
       /\ shown' =
             [op |-> op,
              ahead |-> IF b.hasBefore /\ b.hasAfter THEN b.afterDiff ELSE None,
              advance |-> IF op = "synth" /\ ~exempt /\ consumed # Never THEN t - consumed ELSE None]
       /\ consumed' = IF op \in Holds THEN consumed ELSE t

Present ==
    /\ \E step \in Steps : target' = target + step
    /\ target' >= Start /\ target' <= MaxTime
    /\ \E before \in Window \cup {None} : IsBefore(before, target') /\
       \E after \in Window \cup {None} : IsAfter(after, target') /\
       \E exempt \in {FALSE, cfg.srcPeriod > 0}, failed \in {FALSE, cfg.drawsFail} :
          PresentAt(target', before, after, exempt, failed)
    /\ UNCHANGED <<cfg, ring, published>>

Next == CaptureFrame \/ CaptureTwin \/ Present

Spec == Init /\ [][Next]_vars

-----------------------------------------------------------------------------
Ops == {"none", "before", "after", "repeat", "hold", "comb", "synth"}

PathTypeOK ==
    /\ cfg \in Settings
    /\ ring \in [0 .. (N - 1) -> [frame : Nat \cup {None}, ts : Nat, valid : BOOLEAN]]
    /\ published \in Nat /\ target \in Nat
    /\ sel \in [shown : Nat, pickAfter : BOOLEAN, gateOpen : BOOLEAN]
    /\ comp \in CompositeStates
    /\ last \in [slots : Seq(0 .. (N - 1)), drew : Seq(Nat \cup {None})]
    /\ shown \in [op : Ops, ahead : Nat \cup {None}, advance : Int]
    /\ consumed \in Int

\* The blend modes' memory, for which Fresh needs that the target of the last present that
\* was not a hold is no further ahead of the instant it showed than the passthrough gate.
CompOK(s, c) ==
    \/ s.out = Never /\ s.target = Never
    \/ s.out \in Nat /\ s.target \in Nat /\ s.target <= s.out + WideGate(c)

\* Types, and what the two properties after it need to be inductive: no present, capture
\* or failed draw takes the memory of the blend modes apart.
PathInv == PathTypeOK /\ CompOK(comp, cfg)

\* A blend mode never falls behind: with a frame on each side of the target, the instant
\* it shows, held or not, trails the target by at most 7/8 of a source period and the
\* passthrough gate.  So holds between teeth end, whatever the target and the source do.
Fresh ==
    cfg.backend # "nearest" /\ shown.ahead # None =>
        target - comp.out <= (cfg.srcPeriod * 7) \div 8 + WideGate(cfg)

\* The nearest mode shows no frame that the target has left behind while the next one is
\* nearer by more than the band.
NearTarget ==
    cfg.backend = "nearest" /\ shown.ahead # None =>
        \/ target - sel.shown <= shown.ahead + cfg.stickiness
        \/ target - sel.shown < 2 * cfg.stickiness

\* A blend that is not exempt covers a missing tooth: the target has moved on by 7/8 of a
\* source period since "the last CONSUMED decision" (TemporalPolicy.h).
NoManufacturedTooth ==
    shown.advance # None => shown.advance >= (cfg.srcPeriod * 7) \div 8
===============================================================================
